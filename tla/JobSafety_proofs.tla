-------------------------- MODULE JobSafety_proofs --------------------------
(***************************************************************************)
(* Proofs of the safety invariants of JobLifecycle: dependencies, gates    *)
(* and records, bounded requeues, one copy.  Each has a strengthening of   *)
(* its own on top of the types and the lock discipline.  At the end, that  *)
(* JobLifecycle implements JobPromise: every step of pnd moves at most one *)
(* job between the phases of the promise, by an action of the promise.     *)
(***************************************************************************)
EXTENDS JobInvariant_proofs

-----------------------------------------------------------------------------
(* Dependencies *)

(* Only a job without dependencies is ever staged: with DependenciesFirst, the
   reason why an approval may queue a job without looking at the DAG. *)
StagedAlone == \A j \in Jobs: state[j] = "staged" => order[j].deps = {}

Underway == {"queued", "running", "awaiting_approval", "done"}

(* A step takes a job under way only if its dependencies are done, and stages
   only a job that has none. *)
Entered ==
  /\ order' = order
  /\ \A j \in Jobs: state'[j] \in Underway => state[j] \in Underway \/ DepsSatisfied(j)
  /\ \A j \in Jobs: state'[j] = "staged" => state[j] = "staged" \/ order[j].deps = {}

(* Who gets under way: a request. *)
LEMMA RequestsEnter ==
  ASSUME TypeOK, LockDiscipline, StagedAlone, Requests PROVE Entered
  <1>1. CASE SubmitDag
    BY <1>1 DEF Entered, StagedAlone, Underway, DepsSatisfied, TypeOK, LockDiscipline,
       Terminal, Failed, Parked, SubmitDag
  <1>2. ASSUME NEW j \in Jobs, Submit(j) PROVE Entered
    BY <1>2 DEF Entered, StagedAlone, Underway, DepsSatisfied, TypeOK, LockDiscipline,
       Terminal, Failed, Parked, Submit, Insert, IsNext, NeedsSecondCommit, NeedsPreGate
  <1>3. ASSUME NEW j \in Jobs, ApprovePre(j) PROVE Entered
    BY <1>3 DEF Entered, StagedAlone, Underway, DepsSatisfied, TypeOK, LockDiscipline,
       Terminal, Failed, Parked, ApprovePre, Resolvable
  <1>4. ASSUME NEW j \in Jobs, DenyPre(j) PROVE Entered
    BY <1>4 DEF Entered, StagedAlone, Underway, DepsSatisfied, TypeOK, LockDiscipline,
       Terminal, Failed, Parked, DenyPre, Resolvable
  <1>5. ASSUME NEW j \in Jobs, ApprovePost(j) PROVE Entered
    BY <1>5 DEF Entered, StagedAlone, Underway, DepsSatisfied, TypeOK, LockDiscipline,
       Terminal, Failed, Parked, ApprovePost, Resolvable
  <1>6. ASSUME NEW j \in Jobs, RejectPost(j) PROVE Entered
    BY <1>6 DEF Entered, StagedAlone, Underway, DepsSatisfied, TypeOK, LockDiscipline,
       Terminal, Failed, Parked, RejectPost, Resolvable
  <1>7. ASSUME NEW j \in Jobs, Revise(j) PROVE Entered
    BY <1>7 DEF Entered, StagedAlone, Underway, DepsSatisfied, TypeOK, LockDiscipline,
       Terminal, Failed, Parked, Revise, Resolvable
  <1>8. ASSUME NEW j \in Jobs, CancelQueued(j) PROVE Entered
    BY <1>8 DEF Entered, StagedAlone, Underway, DepsSatisfied, TypeOK, LockDiscipline,
       Terminal, Failed, Parked, CancelQueued
  <1>9. ASSUME NEW j \in Jobs, Extend(j) PROVE Entered
    BY <1>9 DEF Entered, StagedAlone, Underway, DepsSatisfied, TypeOK, LockDiscipline,
       Terminal, Failed, Parked, Extend
  <1>10. ASSUME NEW j \in Jobs, NEW u \in AfterStop(unit[j]), CancelRunning(j, u)
         PROVE Entered
    BY <1>10 DEF Entered, StagedAlone, Underway, DepsSatisfied, TypeOK, LockDiscipline,
       Terminal, Failed, Parked, CancelRunning
  <1>11. ASSUME NEW j \in Jobs, KillUser(order[j].owner) PROVE Entered
    BY <1>11 DEF Entered, StagedAlone, Underway, DepsSatisfied, TypeOK, LockDiscipline,
       Terminal, Failed, Parked, KillUser, Known
  <1>12. CASE ClearQueued
    BY <1>12 DEF Entered, StagedAlone, Underway, DepsSatisfied, TypeOK, LockDiscipline,
       Terminal, Failed, Parked, ClearQueued, In
  <1>13. ASSUME NEW p \in BOOLEAN, Pause(p) PROVE Entered
    BY <1>13 DEF Entered, StagedAlone, Underway, DepsSatisfied, TypeOK, LockDiscipline,
       Terminal, Failed, Parked, Pause
  <1>14. ASSUME NEW j \in Jobs, ExtendByAdmin(j) PROVE Entered
    BY <1>14 DEF Entered, StagedAlone, Underway, DepsSatisfied, TypeOK, LockDiscipline,
       Terminal, Failed, Parked, ExtendByAdmin
  <1> QED BY <1>1, <1>2, <1>3, <1>4, <1>5, <1>6, <1>7, <1>8, <1>9, <1>10, <1>11, <1>12,
             <1>13, <1>14 DEF Requests

(* Who gets under way: the rest of a request. *)
LEMMA HandlingEnter ==
  ASSUME TypeOK, LockDiscipline, StagedAlone, Handling PROVE Entered
  <1>1. CASE SubmitGate
    BY <1>1 DEF Entered, StagedAlone, Underway, DepsSatisfied, TypeOK, LockDiscipline,
       Terminal, Failed, Parked, SubmitGate, NeedsPreGate
  <1>2. CASE SubmitDagDone
    BY <1>2 DEF Entered, StagedAlone, Underway, DepsSatisfied, TypeOK, LockDiscipline,
       Terminal, Failed, Parked, SubmitDagDone
  <1>3. CASE SubmitDagRefused
    BY <1>3 DEF Entered, StagedAlone, Underway, DepsSatisfied, TypeOK, LockDiscipline,
       Terminal, Failed, Parked, SubmitDagRefused
  <1>4. CASE RollbackDone
    BY <1>4 DEF Entered, StagedAlone, Underway, DepsSatisfied, TypeOK, LockDiscipline,
       Terminal, Failed, Parked, RollbackDone
  <1>5. CASE CancelMark
    BY <1>5 DEF Entered, StagedAlone, Underway, DepsSatisfied, TypeOK, LockDiscipline,
       Terminal, Failed, Parked, CancelMark
  <1>6. CASE VisitsDone
    BY <1>6 DEF Entered, StagedAlone, Underway, DepsSatisfied, TypeOK, LockDiscipline,
       Terminal, Failed, Parked, VisitsDone
  <1>7. ASSUME NEW valid \in BOOLEAN, FinalizeApproved(valid) PROVE Entered
    BY <1>7 DEF Entered, StagedAlone, Underway, DepsSatisfied, TypeOK, LockDiscipline,
       Terminal, Failed, Parked, FinalizeApproved
  <1>8. ASSUME NEW j \in Jobs, SubmitDagNode(j) PROVE Entered
    BY <1>8 DEF Entered, StagedAlone, Underway, DepsSatisfied, TypeOK, LockDiscipline,
       Terminal, Failed, Parked, SubmitDagNode, Insert, IsNext
  <1>9. ASSUME NEW j \in Jobs, Rollback(j) PROVE Entered
    BY <1>9 DEF Entered, StagedAlone, Underway, DepsSatisfied, TypeOK, LockDiscipline,
       Terminal, Failed, Parked, Rollback
  <1>10. ASSUME NEW j \in Jobs, KillMark(j) PROVE Entered
    BY <1>10 DEF Entered, StagedAlone, Underway, DepsSatisfied, TypeOK, LockDiscipline,
       Terminal, Failed, Parked, KillMark, IsLast
  <1>11. ASSUME NEW j \in Jobs, ClearOne(j) PROVE Entered
    BY <1>11 DEF Entered, StagedAlone, Underway, DepsSatisfied, TypeOK, LockDiscipline,
       Terminal, Failed, Parked, ClearOne
  <1>12. ASSUME NEW j \in Jobs, NEW u \in AfterStop(unit[j]), KillStop(j, u)
         PROVE Entered
    BY <1>12 DEF Entered, StagedAlone, Underway, DepsSatisfied, TypeOK, LockDiscipline,
       Terminal, Failed, Parked, KillStop, IsLast
  <1> QED BY <1>1, <1>2, <1>3, <1>4, <1>5, <1>6, <1>7, <1>8, <1>9, <1>10, <1>11, <1>12
             DEF Handling

(* Who gets under way: a step of the tick. *)
LEMMA TickEnter ==
  ASSUME TypeOK, LockDiscipline, StagedAlone, Tick PROVE Entered
  <1>1. CASE ReapDone
    BY <1>1 DEF Entered, StagedAlone, Underway, DepsSatisfied, TypeOK, LockDiscipline,
       Terminal, Failed, Parked, ReapDone
  <1>2. CASE GateDone
    BY <1>2 DEF Entered, StagedAlone, Underway, DepsSatisfied, TypeOK, LockDiscipline,
       Terminal, Failed, Parked, GateDone
  <1>3. CASE DispatchDone
    BY <1>3 DEF Entered, StagedAlone, Underway, DepsSatisfied, TypeOK, LockDiscipline,
       Terminal, Failed, Parked, DispatchDone
  <1>4. CASE MarkRunning
    BY <1>4 DEF Entered, StagedAlone, Underway, DepsSatisfied, TypeOK, LockDiscipline,
       Terminal, Failed, Parked, MarkRunning, AfterLaunch
  <1>5. CASE PreemptRequeue
    BY <1>5 DEF Entered, StagedAlone, Underway, DepsSatisfied, TypeOK, LockDiscipline,
       Terminal, Failed, Parked, PreemptRequeue
  <1>6. CASE FinishMark
    BY <1>6 DEF Entered, StagedAlone, Underway, DepsSatisfied, TypeOK, LockDiscipline,
       Terminal, Failed, Parked, FinishMark, Resume, VerdictType
  <1>7. CASE FinishRecord
    BY <1>7 DEF Entered, StagedAlone, Underway, DepsSatisfied, TypeOK, LockDiscipline,
       Terminal, Failed, Parked, FinishRecord
  <1>8. CASE Park
    BY <1>8 DEF Entered, StagedAlone, Underway, DepsSatisfied, TypeOK, LockDiscipline,
       Terminal, Failed, Parked, Park, Resume
  <1>9. ASSUME NEW j \in Jobs, ReapEnded(j) PROVE Entered
    BY <1>9 DEF Entered, StagedAlone, Underway, DepsSatisfied, TypeOK, LockDiscipline,
       Terminal, Failed, Parked, ReapEnded, ReapOver, IsFirst, BeginFinish
  <1>10. ASSUME NEW j \in Jobs, ReapRequeue(j) PROVE Entered
    BY <1>10 DEF Entered, StagedAlone, Underway, DepsSatisfied, TypeOK, LockDiscipline,
       Terminal, Failed, Parked, ReapRequeue, ReapOver, IsFirst
  <1>11. ASSUME NEW j \in Jobs, ReapLater(j) PROVE Entered
    BY <1>11 DEF Entered, StagedAlone, Underway, DepsSatisfied, TypeOK, LockDiscipline,
       Terminal, Failed, Parked, ReapLater
  <1>12. ASSUME NEW j \in Jobs, GateCancel(j) PROVE Entered
    BY <1>12 DEF Entered, StagedAlone, Underway, DepsSatisfied, TypeOK, LockDiscipline,
       Terminal, Failed, Parked, GateCancel, IsFirst, Doomed
  <1>13. ASSUME NEW j \in Jobs, GatePromote(j) PROVE Entered
    BY <1>13 DEF Entered, StagedAlone, Underway, DepsSatisfied, TypeOK, LockDiscipline,
       Terminal, Failed, Parked, GatePromote, IsFirst, Ready
  <1>14. ASSUME NEW j \in Jobs, Launch(j) PROVE Entered
    BY <1>14 DEF Entered, StagedAlone, Underway, DepsSatisfied, TypeOK, LockDiscipline,
       Terminal, Failed, Parked, Launch, MayStart
  <1>15. ASSUME NEW j \in Jobs, LaunchFails(j) PROVE Entered
    BY <1>15 DEF Entered, StagedAlone, Underway, DepsSatisfied, TypeOK, LockDiscipline,
       Terminal, Failed, Parked, LaunchFails, MayStart
  <1>16. ASSUME NEW j \in Jobs, NEW u \in AfterStop(unit[j]), ReapKill(j, u)
         PROVE Entered
    BY <1>16 DEF Entered, StagedAlone, Underway, DepsSatisfied, TypeOK, LockDiscipline,
       Terminal, Failed, Parked, ReapKill, IsFirst, BeginFinish
  <1>17. ASSUME NEW j \in Jobs, NEW u \in AfterStop(unit[j]), Preempt(j, u)
         PROVE Entered
    BY <1>17 DEF Entered, StagedAlone, Underway, DepsSatisfied, TypeOK, LockDiscipline,
       Terminal, Failed, Parked, Preempt
  <1> QED BY <1>1, <1>2, <1>3, <1>4, <1>5, <1>6, <1>7, <1>8, <1>9, <1>10, <1>11, <1>12,
             <1>13, <1>14, <1>15, <1>16, <1>17 DEF Tick

(* Who gets under way: the reconcile. *)
LEMMA BootEnter ==
  ASSUME TypeOK, LockDiscipline, StagedAlone, Boot PROVE Entered
  <1>1. ASSUME NEW b \in BOOLEAN, Restart(b) PROVE Entered
    BY <1>1 DEF Entered, StagedAlone, Underway, DepsSatisfied, TypeOK, LockDiscipline,
       Terminal, Failed, Parked, Restart, In
  <1>2. ASSUME NEW j \in Jobs, BootFinish(j) PROVE Entered
    BY <1>2 DEF Entered, StagedAlone, Underway, DepsSatisfied, TypeOK, LockDiscipline,
       Terminal, Failed, Parked, BootFinish, IsFirst, BeginFinish
  <1>3. ASSUME NEW j \in Jobs, BootRequeue(j) PROVE Entered
    BY <1>3 DEF Entered, StagedAlone, Underway, DepsSatisfied, TypeOK, LockDiscipline,
       Terminal, Failed, Parked, BootRequeue, Orphan, IsFirst
  <1>4. ASSUME NEW j \in Jobs, BootFail(j) PROVE Entered
    BY <1>4 DEF Entered, StagedAlone, Underway, DepsSatisfied, TypeOK, LockDiscipline,
       Terminal, Failed, Parked, BootFail, Orphan, IsFirst
  <1>5. CASE BootDone
    BY <1>5 DEF Entered, StagedAlone, Underway, DepsSatisfied, TypeOK, LockDiscipline,
       Terminal, Failed, Parked, BootDone
  <1> QED BY <1>1, <1>2, <1>3, <1>4, <1>5 DEF Boot

(* Who gets under way: the world outside pnd. *)
LEMMA EnvironmentEnter ==
  ASSUME TypeOK, LockDiscipline, StagedAlone, Environment PROVE Entered
  <1>1. CASE PndCrash
    BY <1>1 DEF Entered, StagedAlone, Underway, DepsSatisfied, TypeOK, LockDiscipline,
       Terminal, Failed, Parked, PndCrash, Crash
  <1>2. CASE BoxCrash
    BY <1>2 DEF Entered, StagedAlone, Underway, DepsSatisfied, TypeOK, LockDiscipline,
       Terminal, Failed, Parked, BoxCrash, Crash
  <1>3. ASSUME NEW j \in Jobs, NEW c \in {"none", "ok", "fail"}, UnitExit(j, c)
        PROVE Entered
    BY <1>3 DEF Entered, StagedAlone, Underway, DepsSatisfied, TypeOK, LockDiscipline,
       Terminal, Failed, Parked, UnitExit
  <1>4. ASSUME NEW j \in Jobs, TimeUp(j) PROVE Entered
    BY <1>4 DEF Entered, StagedAlone, Underway, DepsSatisfied, TypeOK, LockDiscipline,
       Terminal, Failed, Parked, TimeUp
  <1>5. ASSUME NEW j \in Jobs, BackoffOver(j) PROVE Entered
    BY <1>5 DEF Entered, StagedAlone, Underway, DepsSatisfied, TypeOK, LockDiscipline,
       Terminal, Failed, Parked, BackoffOver
  <1>6. CASE Aborts
    BY <1>6 DEF Entered, StagedAlone, Underway, DepsSatisfied, TypeOK, LockDiscipline,
       Terminal, Failed, Parked, Aborts
  <1> QED BY <1>1, <1>2, <1>3, <1>4, <1>5, <1>6 DEF Environment

(* A step takes jobs under way rightly. *)
LEMMA EnterStep == TypeOK /\ LockDiscipline /\ StagedAlone /\ [Next]_vars => Entered
  <1> SUFFICES ASSUME TypeOK, LockDiscipline, StagedAlone, [Next]_vars PROVE Entered
    OBVIOUS
  <1>1. CASE TickStart BY <1>1 DEF Entered, TickStart, In
  <1>2. CASE UNCHANGED vars BY <1>2 DEF Entered, vars
  <1> QED BY <1>1, <1>2, RequestsEnter, HandlingEnter, TickEnter,
             BootEnter, EnvironmentEnter DEF Next

(* What is done stays done, so that what was entered rightly stays right. *)
LEMMA DependencyStep ==
  TypeOK /\ LockDiscipline /\ StagedAlone /\ DependenciesFirst /\ [Next]_vars
    => (StagedAlone /\ DependenciesFirst)'
  <1> SUFFICES ASSUME TypeOK, LockDiscipline, StagedAlone, DependenciesFirst, [Next]_vars
               PROVE (StagedAlone /\ DependenciesFirst)'
    OBVIOUS
  <1>1. Entered BY EnterStep
  <1>2. \A j \in Jobs: state[j] = "done" => state'[j] = "done"
    BY VerdictStep DEF VerdictsStay, Terminal
  <1>3. \A j \in Jobs: order[j].deps \subseteq Jobs BY DEF TypeOK, OrderType
  <1>4. \A j \in Jobs: DepsSatisfied(j) => DepsSatisfied(j)'
    BY <1>1, <1>2, <1>3 DEF Entered, DepsSatisfied
  <1>5. StagedAlone' BY <1>1 DEF Entered, StagedAlone
  <1>6. \A j \in Jobs: state'[j] \in Underway => DepsSatisfied(j)'
    BY <1>1, <1>4 DEF Entered, DependenciesFirst, Underway
  <1>7. DependenciesFirst' BY <1>6 DEF DependenciesFirst, Underway
  <1> QED BY <1>5, <1>7

(* No path into the queue gets ahead of the DAG: a job is queued, runs, waits for
   approval or is done only when all it depends on is done. *)
THEOREM DependenciesHold == Spec => []DependenciesFirst
  <1>1. Init => StagedAlone /\ DependenciesFirst
    BY DEF Init, StagedAlone, DependenciesFirst
  <1>2. TypeOK /\ LockDiscipline /\ StagedAlone /\ DependenciesFirst /\ [Next]_vars
          => (StagedAlone /\ DependenciesFirst)'
    BY DependencyStep
  <1> QED BY Invariant, <1>1, <1>2, PTL DEF Spec

-----------------------------------------------------------------------------
(* Approvals and records *)

(* What a commit may rely on when it moves a job past a gate or publishes it. *)
Custody ==
  /\ \A j \in Jobs: state[j] = "absent" => row[j].kind = "none"
  /\ \A j \in Jobs: state[j] = "blocked" => row[j].kind # "pre"
  /\ op \in {"submit", "dagsubmit"} => row[cur].kind = "none"
  /\ op = "approve" => row[cur].approval = "approved"
  /\ op = "finish" /\ verdict.as \in {"done", "hold"} =>
       /\ verdict.commit /\ row[cur].emitted
       /\ (verdict.as = "hold") = (row[cur].kind = "post")
  /\ op = "park" => row[cur].record /\ row[cur].emitted /\ row[cur].kind = "post"

Gates == StagedRunsOnlyApproved /\ PostGateHolds /\ HeldIsWhole /\ NoDoneWithoutRecord

(* Gates and custody: a request. *)
LEMMA RequestsKeepGates ==
  ASSUME TypeOK, LockDiscipline, Custody, Gates, Requests PROVE (Custody /\ Gates)'
  <1>1. CASE SubmitDag
    BY <1>1 DEF Custody, Gates, StagedRunsOnlyApproved, PostGateHolds, HeldIsWhole,
       NoDoneWithoutRecord, TypeOK, RowType, LockDiscipline, Terminal, Failed, Parked,
       SubmitDag
  <1>2. ASSUME NEW j \in Jobs, Submit(j) PROVE (Custody /\ Gates)'
    BY <1>2 DEF Custody, Gates, StagedRunsOnlyApproved, PostGateHolds, HeldIsWhole,
       NoDoneWithoutRecord, TypeOK, RowType, LockDiscipline, Terminal, Failed, Parked,
       Submit, Insert, IsNext, NeedsSecondCommit, NeedsPreGate
  <1>3. ASSUME NEW j \in Jobs, ApprovePre(j) PROVE (Custody /\ Gates)'
    BY <1>3 DEF Custody, Gates, StagedRunsOnlyApproved, PostGateHolds, HeldIsWhole,
       NoDoneWithoutRecord, TypeOK, RowType, LockDiscipline, Terminal, Failed, Parked,
       ApprovePre, Resolvable
  <1>4. ASSUME NEW j \in Jobs, DenyPre(j) PROVE (Custody /\ Gates)'
    BY <1>4 DEF Custody, Gates, StagedRunsOnlyApproved, PostGateHolds, HeldIsWhole,
       NoDoneWithoutRecord, TypeOK, RowType, LockDiscipline, Terminal, Failed, Parked,
       DenyPre, Resolvable
  <1>5. ASSUME NEW j \in Jobs, ApprovePost(j) PROVE (Custody /\ Gates)'
    BY <1>5 DEF Custody, Gates, StagedRunsOnlyApproved, PostGateHolds, HeldIsWhole,
       NoDoneWithoutRecord, TypeOK, RowType, LockDiscipline, Terminal, Failed, Parked,
       ApprovePost, Resolvable
  <1>6. ASSUME NEW j \in Jobs, RejectPost(j) PROVE (Custody /\ Gates)'
    BY <1>6 DEF Custody, Gates, StagedRunsOnlyApproved, PostGateHolds, HeldIsWhole,
       NoDoneWithoutRecord, TypeOK, RowType, LockDiscipline, Terminal, Failed, Parked,
       RejectPost, Resolvable
  <1>7. ASSUME NEW j \in Jobs, Revise(j) PROVE (Custody /\ Gates)'
    BY <1>7 DEF Custody, Gates, StagedRunsOnlyApproved, PostGateHolds, HeldIsWhole,
       NoDoneWithoutRecord, TypeOK, RowType, LockDiscipline, Terminal, Failed, Parked,
       Revise, Resolvable
  <1>8. ASSUME NEW j \in Jobs, CancelQueued(j) PROVE (Custody /\ Gates)'
    BY <1>8 DEF Custody, Gates, StagedRunsOnlyApproved, PostGateHolds, HeldIsWhole,
       NoDoneWithoutRecord, TypeOK, RowType, LockDiscipline, Terminal, Failed, Parked,
       CancelQueued
  <1>9. ASSUME NEW j \in Jobs, Extend(j) PROVE (Custody /\ Gates)'
    BY <1>9 DEF Custody, Gates, StagedRunsOnlyApproved, PostGateHolds, HeldIsWhole,
       NoDoneWithoutRecord, TypeOK, RowType, LockDiscipline, Terminal, Failed, Parked,
       Extend
  <1>10. ASSUME NEW j \in Jobs, NEW u \in AfterStop(unit[j]), CancelRunning(j, u)
         PROVE (Custody /\ Gates)'
    BY <1>10 DEF Custody, Gates, StagedRunsOnlyApproved, PostGateHolds, HeldIsWhole,
       NoDoneWithoutRecord, TypeOK, RowType, LockDiscipline, Terminal, Failed, Parked,
       CancelRunning
  <1>11. ASSUME NEW j \in Jobs, KillUser(order[j].owner) PROVE (Custody /\ Gates)'
    BY <1>11 DEF Custody, Gates, StagedRunsOnlyApproved, PostGateHolds, HeldIsWhole,
       NoDoneWithoutRecord, TypeOK, RowType, LockDiscipline, Terminal, Failed, Parked,
       KillUser, Known
  <1>12. CASE ClearQueued
    BY <1>12 DEF Custody, Gates, StagedRunsOnlyApproved, PostGateHolds, HeldIsWhole,
       NoDoneWithoutRecord, TypeOK, RowType, LockDiscipline, Terminal, Failed, Parked,
       ClearQueued, In
  <1>13. ASSUME NEW p \in BOOLEAN, Pause(p) PROVE (Custody /\ Gates)'
    BY <1>13 DEF Custody, Gates, StagedRunsOnlyApproved, PostGateHolds, HeldIsWhole,
       NoDoneWithoutRecord, TypeOK, RowType, LockDiscipline, Terminal, Failed, Parked,
       Pause
  <1>14. ASSUME NEW j \in Jobs, ExtendByAdmin(j) PROVE (Custody /\ Gates)'
    BY <1>14 DEF Custody, Gates, StagedRunsOnlyApproved, PostGateHolds, HeldIsWhole,
       NoDoneWithoutRecord, TypeOK, RowType, LockDiscipline, Terminal, Failed, Parked,
       ExtendByAdmin
  <1> QED BY <1>1, <1>2, <1>3, <1>4, <1>5, <1>6, <1>7, <1>8, <1>9, <1>10, <1>11, <1>12,
             <1>13, <1>14 DEF Requests

(* Gates and custody: the rest of a request. *)
LEMMA HandlingKeepGates ==
  ASSUME TypeOK, LockDiscipline, Custody, Gates, Handling PROVE (Custody /\ Gates)'
  <1>1. CASE SubmitGate
    <2>0. cur \in Jobs /\ state[cur] \in {"queued", "blocked"} /\ row[cur].kind = "none"
          /\ op' \in {"idle", "dag"} /\ cur' = NoJob
      BY <1>1 DEF LockDiscipline, Custody, SubmitGate
    <2>1. CASE /\ state' = [state EXCEPT ![cur] = "staged"]
               /\ row' = [row EXCEPT ![cur].kind = "pre", ![cur].approval = "pending"]
      BY <2>0, <2>1 DEF TypeOK, RowType, Custody, Gates, StagedRunsOnlyApproved,
         PostGateHolds, HeldIsWhole, NoDoneWithoutRecord
    <2>2. CASE row' = [row EXCEPT ![cur].kind = "post"] /\ state' = state
      BY <2>0, <2>2 DEF TypeOK, RowType, Custody, Gates, StagedRunsOnlyApproved,
         PostGateHolds, HeldIsWhole, NoDoneWithoutRecord
    <2> QED BY <1>1, <2>1, <2>2 DEF SubmitGate
  <1>2. CASE SubmitDagDone
    BY <1>2 DEF Custody, Gates, StagedRunsOnlyApproved, PostGateHolds, HeldIsWhole,
       NoDoneWithoutRecord, TypeOK, RowType, LockDiscipline, Terminal, Failed, Parked,
       SubmitDagDone
  <1>3. CASE SubmitDagRefused
    BY <1>3 DEF Custody, Gates, StagedRunsOnlyApproved, PostGateHolds, HeldIsWhole,
       NoDoneWithoutRecord, TypeOK, RowType, LockDiscipline, Terminal, Failed, Parked,
       SubmitDagRefused
  <1>4. CASE RollbackDone
    BY <1>4 DEF Custody, Gates, StagedRunsOnlyApproved, PostGateHolds, HeldIsWhole,
       NoDoneWithoutRecord, TypeOK, RowType, LockDiscipline, Terminal, Failed, Parked,
       RollbackDone
  <1>5. CASE CancelMark
    BY <1>5 DEF Custody, Gates, StagedRunsOnlyApproved, PostGateHolds, HeldIsWhole,
       NoDoneWithoutRecord, TypeOK, RowType, LockDiscipline, Terminal, Failed, Parked,
       CancelMark
  <1>6. CASE VisitsDone
    BY <1>6 DEF Custody, Gates, StagedRunsOnlyApproved, PostGateHolds, HeldIsWhole,
       NoDoneWithoutRecord, TypeOK, RowType, LockDiscipline, Terminal, Failed, Parked,
       VisitsDone
  <1>7. ASSUME NEW valid \in BOOLEAN, FinalizeApproved(valid) PROVE (Custody /\ Gates)'
    BY <1>7 DEF Custody, Gates, StagedRunsOnlyApproved, PostGateHolds, HeldIsWhole,
       NoDoneWithoutRecord, TypeOK, RowType, LockDiscipline, Terminal, Failed, Parked,
       FinalizeApproved
  <1>8. ASSUME NEW j \in Jobs, SubmitDagNode(j) PROVE (Custody /\ Gates)'
    BY <1>8 DEF Custody, Gates, StagedRunsOnlyApproved, PostGateHolds, HeldIsWhole,
       NoDoneWithoutRecord, TypeOK, RowType, LockDiscipline, Terminal, Failed, Parked,
       SubmitDagNode, Insert, IsNext
  <1>9. ASSUME NEW j \in Jobs, Rollback(j) PROVE (Custody /\ Gates)'
    BY <1>9 DEF Custody, Gates, StagedRunsOnlyApproved, PostGateHolds, HeldIsWhole,
       NoDoneWithoutRecord, TypeOK, RowType, LockDiscipline, Terminal, Failed, Parked,
       Rollback
  <1>10. ASSUME NEW j \in Jobs, KillMark(j) PROVE (Custody /\ Gates)'
    BY <1>10 DEF Custody, Gates, StagedRunsOnlyApproved, PostGateHolds, HeldIsWhole,
       NoDoneWithoutRecord, TypeOK, RowType, LockDiscipline, Terminal, Failed, Parked,
       KillMark, IsLast
  <1>11. ASSUME NEW j \in Jobs, ClearOne(j) PROVE (Custody /\ Gates)'
    BY <1>11 DEF Custody, Gates, StagedRunsOnlyApproved, PostGateHolds, HeldIsWhole,
       NoDoneWithoutRecord, TypeOK, RowType, LockDiscipline, Terminal, Failed, Parked,
       ClearOne
  <1>12. ASSUME NEW j \in Jobs, NEW u \in AfterStop(unit[j]), KillStop(j, u)
         PROVE (Custody /\ Gates)'
    BY <1>12 DEF Custody, Gates, StagedRunsOnlyApproved, PostGateHolds, HeldIsWhole,
       NoDoneWithoutRecord, TypeOK, RowType, LockDiscipline, Terminal, Failed, Parked,
       KillStop, IsLast
  <1> QED BY <1>1, <1>2, <1>3, <1>4, <1>5, <1>6, <1>7, <1>8, <1>9, <1>10, <1>11, <1>12
             DEF Handling

(* Gates and custody: a step of the tick. *)
LEMMA TickKeepGates ==
  ASSUME TypeOK, LockDiscipline, Custody, Gates, Tick PROVE (Custody /\ Gates)'
  <1>1. CASE ReapDone
    BY <1>1 DEF Custody, Gates, StagedRunsOnlyApproved, PostGateHolds, HeldIsWhole,
       NoDoneWithoutRecord, TypeOK, RowType, LockDiscipline, Terminal, Failed, Parked,
       ReapDone
  <1>2. CASE GateDone
    BY <1>2 DEF Custody, Gates, StagedRunsOnlyApproved, PostGateHolds, HeldIsWhole,
       NoDoneWithoutRecord, TypeOK, RowType, LockDiscipline, Terminal, Failed, Parked,
       GateDone
  <1>3. CASE DispatchDone
    BY <1>3 DEF Custody, Gates, StagedRunsOnlyApproved, PostGateHolds, HeldIsWhole,
       NoDoneWithoutRecord, TypeOK, RowType, LockDiscipline, Terminal, Failed, Parked,
       DispatchDone
  <1>4. CASE MarkRunning
    BY <1>4 DEF Custody, Gates, StagedRunsOnlyApproved, PostGateHolds, HeldIsWhole,
       NoDoneWithoutRecord, TypeOK, RowType, LockDiscipline, Terminal, Failed, Parked,
       MarkRunning, AfterLaunch
  <1>5. CASE PreemptRequeue
    BY <1>5 DEF Custody, Gates, StagedRunsOnlyApproved, PostGateHolds, HeldIsWhole,
       NoDoneWithoutRecord, TypeOK, RowType, LockDiscipline, Terminal, Failed, Parked,
       PreemptRequeue, Requeued
  <1>6. CASE FinishMark
    BY <1>6 DEF Custody, Gates, StagedRunsOnlyApproved, PostGateHolds, HeldIsWhole,
       NoDoneWithoutRecord, TypeOK, RowType, LockDiscipline, Terminal, Failed, Parked,
       FinishMark, Resume, VerdictType, NoVerdict
  <1>7. CASE FinishRecord
    BY <1>7 DEF Custody, Gates, StagedRunsOnlyApproved, PostGateHolds, HeldIsWhole,
       NoDoneWithoutRecord, TypeOK, RowType, LockDiscipline, Terminal, Failed, Parked,
       FinishRecord
  <1>8. CASE Park
    BY <1>8 DEF Custody, Gates, StagedRunsOnlyApproved, PostGateHolds, HeldIsWhole,
       NoDoneWithoutRecord, TypeOK, RowType, LockDiscipline, Terminal, Failed, Parked,
       Park, Resume, NoVerdict
  <1>9. ASSUME NEW j \in Jobs, ReapEnded(j) PROVE (Custody /\ Gates)'
    BY <1>9 DEF Custody, Gates, StagedRunsOnlyApproved, PostGateHolds, HeldIsWhole,
       NoDoneWithoutRecord, TypeOK, RowType, LockDiscipline, Terminal, Failed, Parked,
       ReapEnded, ReapOver, IsFirst, BeginFinish
  <1>10. ASSUME NEW j \in Jobs, ReapRequeue(j) PROVE (Custody /\ Gates)'
    <2>0. state[j] = "running" /\ state' = [state EXCEPT ![j] = "queued"]
          /\ op' = "reap" /\ cur' = cur
      BY <1>10 DEF LockDiscipline, ReapRequeue, ReapOver, IsFirst
    <2>1. CASE row' = [row EXCEPT ![j].oomed = @ + 1, ![j].extra = 0,
                                  ![j].late = FALSE, ![j].later = FALSE]
      BY <2>0, <2>1 DEF TypeOK, RowType, Custody, Gates, StagedRunsOnlyApproved,
         PostGateHolds, HeldIsWhole, NoDoneWithoutRecord
    <2>2. CASE row' = [row EXCEPT ![j] = Drained(@)]
      BY <2>0, <2>2 DEF TypeOK, RowType, Drained, Requeued, Custody, Gates,
         StagedRunsOnlyApproved, PostGateHolds, HeldIsWhole, NoDoneWithoutRecord
    <2> QED BY <1>10, <2>1, <2>2 DEF ReapRequeue
  <1>11. ASSUME NEW j \in Jobs, ReapLater(j) PROVE (Custody /\ Gates)'
    BY <1>11 DEF Custody, Gates, StagedRunsOnlyApproved, PostGateHolds, HeldIsWhole,
       NoDoneWithoutRecord, TypeOK, RowType, LockDiscipline, Terminal, Failed, Parked,
       ReapLater
  <1>12. ASSUME NEW j \in Jobs, GateCancel(j) PROVE (Custody /\ Gates)'
    BY <1>12 DEF Custody, Gates, StagedRunsOnlyApproved, PostGateHolds, HeldIsWhole,
       NoDoneWithoutRecord, TypeOK, RowType, LockDiscipline, Terminal, Failed, Parked,
       GateCancel, IsFirst, Doomed
  <1>13. ASSUME NEW j \in Jobs, GatePromote(j) PROVE (Custody /\ Gates)'
    BY <1>13 DEF Custody, Gates, StagedRunsOnlyApproved, PostGateHolds, HeldIsWhole,
       NoDoneWithoutRecord, TypeOK, RowType, LockDiscipline, Terminal, Failed, Parked,
       GatePromote, IsFirst, Ready
  <1>14. ASSUME NEW j \in Jobs, Launch(j) PROVE (Custody /\ Gates)'
    BY <1>14 DEF Custody, Gates, StagedRunsOnlyApproved, PostGateHolds, HeldIsWhole,
       NoDoneWithoutRecord, TypeOK, RowType, LockDiscipline, Terminal, Failed, Parked,
       Launch, MayStart
  <1>15. ASSUME NEW j \in Jobs, LaunchFails(j) PROVE (Custody /\ Gates)'
    BY <1>15 DEF Custody, Gates, StagedRunsOnlyApproved, PostGateHolds, HeldIsWhole,
       NoDoneWithoutRecord, TypeOK, RowType, LockDiscipline, Terminal, Failed, Parked,
       LaunchFails, MayStart
  <1>16. ASSUME NEW j \in Jobs, NEW u \in AfterStop(unit[j]), ReapKill(j, u)
         PROVE (Custody /\ Gates)'
    <2>1. state' = state /\ op' = "finish" /\ cur' = j
      BY <1>16 DEF ReapKill, BeginFinish
    <2>2. verdict'.as \notin {"done", "hold"} BY <1>16 DEF ReapKill, BeginFinish
    <2>3. PICK sent \in BOOLEAN : row' = [row EXCEPT ![j].emitted = @ \/ sent]
      BY <1>16 DEF ReapKill, BeginFinish
    <2> QED BY <2>1, <2>2, <2>3 DEF Custody, Gates, StagedRunsOnlyApproved, PostGateHolds,
               HeldIsWhole, NoDoneWithoutRecord, TypeOK, RowType
  <1>17. ASSUME NEW j \in Jobs, NEW u \in AfterStop(unit[j]), Preempt(j, u)
         PROVE (Custody /\ Gates)'
    BY <1>17 DEF Custody, Gates, StagedRunsOnlyApproved, PostGateHolds, HeldIsWhole,
       NoDoneWithoutRecord, TypeOK, RowType, LockDiscipline, Terminal, Failed, Parked,
       Preempt
  <1> QED BY <1>1, <1>2, <1>3, <1>4, <1>5, <1>6, <1>7, <1>8, <1>9, <1>10, <1>11, <1>12,
             <1>13, <1>14, <1>15, <1>16, <1>17 DEF Tick

(* Gates and custody: the reconcile. *)
LEMMA BootKeepGates ==
  ASSUME TypeOK, LockDiscipline, Custody, Gates, Boot PROVE (Custody /\ Gates)'
  <1>1. ASSUME NEW b \in BOOLEAN, Restart(b) PROVE (Custody /\ Gates)'
    BY <1>1 DEF Custody, Gates, StagedRunsOnlyApproved, PostGateHolds, HeldIsWhole,
       NoDoneWithoutRecord, TypeOK, RowType, LockDiscipline, Terminal, Failed, Parked,
       Restart, In
  <1>2. ASSUME NEW j \in Jobs, BootFinish(j) PROVE (Custody /\ Gates)'
    BY <1>2 DEF Custody, Gates, StagedRunsOnlyApproved, PostGateHolds, HeldIsWhole,
       NoDoneWithoutRecord, TypeOK, RowType, LockDiscipline, Terminal, Failed, Parked,
       BootFinish, IsFirst, BeginFinish
  <1>3. ASSUME NEW j \in Jobs, BootRequeue(j) PROVE (Custody /\ Gates)'
    BY <1>3 DEF Custody, Gates, StagedRunsOnlyApproved, PostGateHolds, HeldIsWhole,
       NoDoneWithoutRecord, TypeOK, RowType, LockDiscipline, Terminal, Failed, Parked,
       BootRequeue, Orphan, IsFirst, Requeued
  <1>4. ASSUME NEW j \in Jobs, BootFail(j) PROVE (Custody /\ Gates)'
    BY <1>4 DEF Custody, Gates, StagedRunsOnlyApproved, PostGateHolds, HeldIsWhole,
       NoDoneWithoutRecord, TypeOK, RowType, LockDiscipline, Terminal, Failed, Parked,
       BootFail, Orphan, IsFirst
  <1>5. CASE BootDone
    BY <1>5 DEF Custody, Gates, StagedRunsOnlyApproved, PostGateHolds, HeldIsWhole,
       NoDoneWithoutRecord, TypeOK, RowType, LockDiscipline, Terminal, Failed, Parked,
       BootDone
  <1> QED BY <1>1, <1>2, <1>3, <1>4, <1>5 DEF Boot

(* Gates and custody: the world outside pnd. *)
LEMMA EnvironmentKeepGates ==
  ASSUME TypeOK, LockDiscipline, Custody, Gates, Environment PROVE (Custody /\ Gates)'
  <1>1. CASE PndCrash
    BY <1>1 DEF Custody, Gates, StagedRunsOnlyApproved, PostGateHolds, HeldIsWhole,
       NoDoneWithoutRecord, TypeOK, RowType, LockDiscipline, Terminal, Failed, Parked,
       PndCrash, Crash
  <1>2. CASE BoxCrash
    BY <1>2 DEF Custody, Gates, StagedRunsOnlyApproved, PostGateHolds, HeldIsWhole,
       NoDoneWithoutRecord, TypeOK, RowType, LockDiscipline, Terminal, Failed, Parked,
       BoxCrash, Crash
  <1>3. ASSUME NEW j \in Jobs, NEW c \in {"none", "ok", "fail"}, UnitExit(j, c)
        PROVE (Custody /\ Gates)'
    BY <1>3 DEF Custody, Gates, StagedRunsOnlyApproved, PostGateHolds, HeldIsWhole,
       NoDoneWithoutRecord, TypeOK, RowType, LockDiscipline, Terminal, Failed, Parked,
       UnitExit
  <1>4. ASSUME NEW j \in Jobs, TimeUp(j) PROVE (Custody /\ Gates)'
    BY <1>4 DEF Custody, Gates, StagedRunsOnlyApproved, PostGateHolds, HeldIsWhole,
       NoDoneWithoutRecord, TypeOK, RowType, LockDiscipline, Terminal, Failed, Parked,
       TimeUp
  <1>5. ASSUME NEW j \in Jobs, BackoffOver(j) PROVE (Custody /\ Gates)'
    BY <1>5 DEF Custody, Gates, StagedRunsOnlyApproved, PostGateHolds, HeldIsWhole,
       NoDoneWithoutRecord, TypeOK, RowType, LockDiscipline, Terminal, Failed, Parked,
       BackoffOver
  <1>6. CASE Aborts
    BY <1>6 DEF Custody, Gates, StagedRunsOnlyApproved, PostGateHolds, HeldIsWhole,
       NoDoneWithoutRecord, TypeOK, RowType, LockDiscipline, Terminal, Failed, Parked,
       Aborts
  <1> QED BY <1>1, <1>2, <1>3, <1>4, <1>5, <1>6 DEF Environment

(* A step keeps gates and custody. *)
LEMMA GateStep == TypeOK /\ LockDiscipline /\ Custody /\ Gates /\ [Next]_vars => (Custody /\ Gates)'
  <1> SUFFICES ASSUME TypeOK, LockDiscipline, Custody, Gates, [Next]_vars
               PROVE (Custody /\ Gates)'
    OBVIOUS
  <1>1. CASE TickStart BY <1>1 DEF Custody, Gates, StagedRunsOnlyApproved,
                          PostGateHolds, HeldIsWhole, NoDoneWithoutRecord, TickStart, In
  <1>2. CASE UNCHANGED vars BY <1>2 DEF Custody, Gates, StagedRunsOnlyApproved,
                               PostGateHolds, HeldIsWhole, NoDoneWithoutRecord, vars
  <1> QED BY <1>1, <1>2, RequestsKeepGates, HandlingKeepGates, TickKeepGates,
             BootKeepGates, EnvironmentKeepGates DEF Next

(* Gates and custody hold together. *)
LEMMA CustodyHolds == Spec => [](Custody /\ Gates)
  <1>1. Init => Custody /\ Gates
    BY DEF Init, NewRow, Custody, Gates, StagedRunsOnlyApproved, PostGateHolds,
       HeldIsWhole, NoDoneWithoutRecord
  <1>2. TypeOK /\ LockDiscipline /\ (Custody /\ Gates) /\ [Next]_vars => (Custody /\ Gates)'
    BY GateStep
  <1> QED BY Invariant, <1>1, <1>2, PTL DEF Spec

(* "no-done-without-record": whichever path publishes the verdict, a done job has
   its committed record, its record_ok flag and its result event. *)
THEOREM DoneHasRecord == Spec => []NoDoneWithoutRecord
  <1>1. Custody /\ Gates => NoDoneWithoutRecord BY DEF Gates
  <1> QED BY CustodyHolds, <1>1, PTL

(* No sequence of finalizations, crashes and reconciles publishes a result behind
   the gate as done without an approval. *)
THEOREM PostGateCloses == Spec => []PostGateHolds
  <1>1. Custody /\ Gates => PostGateHolds BY DEF Gates
  <1> QED BY CustodyHolds, <1>1, PTL

(* What waits for approval is whole: approving it loses nothing. *)
THEOREM HeldStaysWhole == Spec => []HeldIsWhole
  <1>1. Custody /\ Gates => HeldIsWhole BY DEF Gates
  <1> QED BY CustodyHolds, <1>1, PTL

(* Once staged, a job runs and is requeued only as approved. *)
THEOREM StagedNeedsApproval == Spec => []StagedRunsOnlyApproved
  <1>1. Custody /\ Gates => StagedRunsOnlyApproved BY DEF Gates
  <1> QED BY CustodyHolds, <1>1, PTL

-----------------------------------------------------------------------------
(* Requeues *)

(* Only fillers are preempted: the one requeue whose number has no limit. *)
Bounded == RequeuesAreBounded /\ (op = "preempt" => order[cur].filler)

(* The limits: a request. *)
LEMMA RequestsKeepBounds ==
  ASSUME TypeOK, LockDiscipline, Bounded, Requests PROVE Bounded'
  <1>1. CASE SubmitDag
    BY <1>1, BoundsAssumption DEF Bounded, RequeuesAreBounded, TypeOK, RowType,
       LockDiscipline, SubmitDag
  <1>2. ASSUME NEW j \in Jobs, Submit(j) PROVE Bounded'
    BY <1>2, BoundsAssumption DEF Bounded, RequeuesAreBounded, TypeOK, RowType,
       LockDiscipline, Submit, Insert
  <1>3. ASSUME NEW j \in Jobs, ApprovePre(j) PROVE Bounded'
    BY <1>3, BoundsAssumption DEF Bounded, RequeuesAreBounded, TypeOK, RowType,
       LockDiscipline, ApprovePre, Resolvable
  <1>4. ASSUME NEW j \in Jobs, DenyPre(j) PROVE Bounded'
    BY <1>4, BoundsAssumption DEF Bounded, RequeuesAreBounded, TypeOK, RowType,
       LockDiscipline, DenyPre, Resolvable
  <1>5. ASSUME NEW j \in Jobs, ApprovePost(j) PROVE Bounded'
    BY <1>5, BoundsAssumption DEF Bounded, RequeuesAreBounded, TypeOK, RowType,
       LockDiscipline, ApprovePost, Resolvable
  <1>6. ASSUME NEW j \in Jobs, RejectPost(j) PROVE Bounded'
    BY <1>6, BoundsAssumption DEF Bounded, RequeuesAreBounded, TypeOK, RowType,
       LockDiscipline, RejectPost, Resolvable
  <1>7. ASSUME NEW j \in Jobs, Revise(j) PROVE Bounded'
    BY <1>7, BoundsAssumption DEF Bounded, RequeuesAreBounded, TypeOK, RowType,
       LockDiscipline, Revise, Resolvable
  <1>8. ASSUME NEW j \in Jobs, CancelQueued(j) PROVE Bounded'
    BY <1>8, BoundsAssumption DEF Bounded, RequeuesAreBounded, TypeOK, RowType,
       LockDiscipline, CancelQueued
  <1>9. ASSUME NEW j \in Jobs, Extend(j) PROVE Bounded'
    BY <1>9, BoundsAssumption DEF Bounded, RequeuesAreBounded, TypeOK, RowType,
       LockDiscipline, Extend
  <1>10. ASSUME NEW j \in Jobs, NEW u \in AfterStop(unit[j]), CancelRunning(j, u)
         PROVE Bounded'
    BY <1>10, BoundsAssumption DEF Bounded, RequeuesAreBounded, TypeOK, RowType,
       LockDiscipline, CancelRunning
  <1>11. ASSUME NEW j \in Jobs, KillUser(order[j].owner) PROVE Bounded'
    BY <1>11, BoundsAssumption DEF Bounded, RequeuesAreBounded, TypeOK, RowType,
       LockDiscipline, KillUser, Known
  <1>12. CASE ClearQueued
    BY <1>12, BoundsAssumption DEF Bounded, RequeuesAreBounded, TypeOK, RowType,
       LockDiscipline, ClearQueued, In
  <1>13. ASSUME NEW p \in BOOLEAN, Pause(p) PROVE Bounded'
    BY <1>13, BoundsAssumption DEF Bounded, RequeuesAreBounded, TypeOK, RowType,
       LockDiscipline, Pause
  <1>14. ASSUME NEW j \in Jobs, ExtendByAdmin(j) PROVE Bounded'
    BY <1>14, BoundsAssumption DEF Bounded, RequeuesAreBounded, TypeOK, RowType,
       LockDiscipline, ExtendByAdmin
  <1> QED BY <1>1, <1>2, <1>3, <1>4, <1>5, <1>6, <1>7, <1>8, <1>9, <1>10, <1>11, <1>12,
             <1>13, <1>14 DEF Requests

(* The limits: the rest of a request. *)
LEMMA HandlingKeepBounds ==
  ASSUME TypeOK, LockDiscipline, Bounded, Handling PROVE Bounded'
  <1>1. CASE SubmitGate
    BY <1>1, BoundsAssumption, SMTT(20) DEF Bounded, RequeuesAreBounded, TypeOK, RowType,
       LockDiscipline, SubmitGate
  <1>2. CASE SubmitDagDone
    BY <1>2, BoundsAssumption DEF Bounded, RequeuesAreBounded, TypeOK, RowType,
       LockDiscipline, SubmitDagDone
  <1>3. CASE SubmitDagRefused
    BY <1>3, BoundsAssumption DEF Bounded, RequeuesAreBounded, TypeOK, RowType,
       LockDiscipline, SubmitDagRefused
  <1>4. CASE RollbackDone
    BY <1>4, BoundsAssumption DEF Bounded, RequeuesAreBounded, TypeOK, RowType,
       LockDiscipline, RollbackDone
  <1>5. CASE CancelMark
    BY <1>5, BoundsAssumption DEF Bounded, RequeuesAreBounded, TypeOK, RowType,
       LockDiscipline, CancelMark
  <1>6. CASE VisitsDone
    BY <1>6, BoundsAssumption DEF Bounded, RequeuesAreBounded, TypeOK, RowType,
       LockDiscipline, VisitsDone
  <1>7. ASSUME NEW valid \in BOOLEAN, FinalizeApproved(valid) PROVE Bounded'
    BY <1>7, BoundsAssumption DEF Bounded, RequeuesAreBounded, TypeOK, RowType,
       LockDiscipline, FinalizeApproved
  <1>8. ASSUME NEW j \in Jobs, SubmitDagNode(j) PROVE Bounded'
    BY <1>8, BoundsAssumption DEF Bounded, RequeuesAreBounded, TypeOK, RowType,
       LockDiscipline, SubmitDagNode, Insert, IsNext
  <1>9. ASSUME NEW j \in Jobs, Rollback(j) PROVE Bounded'
    BY <1>9, BoundsAssumption DEF Bounded, RequeuesAreBounded, TypeOK, RowType,
       LockDiscipline, Rollback
  <1>10. ASSUME NEW j \in Jobs, KillMark(j) PROVE Bounded'
    BY <1>10, BoundsAssumption DEF Bounded, RequeuesAreBounded, TypeOK, RowType,
       LockDiscipline, KillMark, IsLast
  <1>11. ASSUME NEW j \in Jobs, ClearOne(j) PROVE Bounded'
    BY <1>11, BoundsAssumption DEF Bounded, RequeuesAreBounded, TypeOK, RowType,
       LockDiscipline, ClearOne
  <1>12. ASSUME NEW j \in Jobs, NEW u \in AfterStop(unit[j]), KillStop(j, u)
         PROVE Bounded'
    BY <1>12, BoundsAssumption DEF Bounded, RequeuesAreBounded, TypeOK, RowType,
       LockDiscipline, KillStop, IsLast
  <1> QED BY <1>1, <1>2, <1>3, <1>4, <1>5, <1>6, <1>7, <1>8, <1>9, <1>10, <1>11, <1>12
             DEF Handling

(* The limits: a step of the tick. *)
LEMMA TickKeepBounds ==
  ASSUME TypeOK, LockDiscipline, Bounded, Tick PROVE Bounded'
  <1>1. CASE ReapDone
    BY <1>1, BoundsAssumption DEF Bounded, RequeuesAreBounded, TypeOK, RowType,
       LockDiscipline, ReapDone
  <1>2. CASE GateDone
    BY <1>2, BoundsAssumption DEF Bounded, RequeuesAreBounded, TypeOK, RowType,
       LockDiscipline, GateDone
  <1>3. CASE DispatchDone
    BY <1>3, BoundsAssumption DEF Bounded, RequeuesAreBounded, TypeOK, RowType,
       LockDiscipline, DispatchDone
  <1>4. CASE MarkRunning
    BY <1>4, BoundsAssumption DEF Bounded, RequeuesAreBounded, TypeOK, RowType,
       LockDiscipline, MarkRunning, AfterLaunch
  <1>5. CASE PreemptRequeue
    BY <1>5, BoundsAssumption DEF Bounded, RequeuesAreBounded, TypeOK, RowType,
       LockDiscipline, PreemptRequeue, Requeued
  <1>6. CASE FinishMark
    BY <1>6, BoundsAssumption DEF Bounded, RequeuesAreBounded, TypeOK, RowType,
       LockDiscipline, FinishMark, Resume
  <1>7. CASE FinishRecord
    BY <1>7, BoundsAssumption DEF Bounded, RequeuesAreBounded, TypeOK, RowType,
       LockDiscipline, FinishRecord
  <1>8. CASE Park
    BY <1>8, BoundsAssumption DEF Bounded, RequeuesAreBounded, TypeOK, RowType,
       LockDiscipline, Park, Resume
  <1>9. ASSUME NEW j \in Jobs, ReapEnded(j) PROVE Bounded'
    BY <1>9, BoundsAssumption DEF Bounded, RequeuesAreBounded, TypeOK, RowType,
       LockDiscipline, ReapEnded, ReapOver, IsFirst, BeginFinish
  <1>10. ASSUME NEW j \in Jobs, ReapRequeue(j) PROVE Bounded'
    <2>0. state' = [state EXCEPT ![j] = "queued"] /\ op' = "reap" /\ order' = order
      BY <1>10 DEF ReapRequeue, ReapOver
    <2>1. CASE /\ row[j].oomed < MaxOomRetries
               /\ row' = [row EXCEPT ![j].oomed = @ + 1, ![j].extra = 0,
                                     ![j].late = FALSE, ![j].later = FALSE]
      BY <2>0, <2>1, BoundsAssumption DEF TypeOK, RowType, Bounded, RequeuesAreBounded
    <2>2. CASE /\ order[j].remote /\ row[j].drained < MaxDrainRequeues
               /\ row' = [row EXCEPT ![j] = Drained(@)]
      BY <2>0, <2>2, BoundsAssumption DEF TypeOK, RowType, Drained, Requeued, Bounded,
         RequeuesAreBounded
    <2> QED BY <1>10, <2>1, <2>2 DEF ReapRequeue
  <1>11. ASSUME NEW j \in Jobs, ReapLater(j) PROVE Bounded'
    BY <1>11, BoundsAssumption DEF Bounded, RequeuesAreBounded, TypeOK, RowType,
       LockDiscipline, ReapLater
  <1>12. ASSUME NEW j \in Jobs, GateCancel(j) PROVE Bounded'
    BY <1>12, BoundsAssumption DEF Bounded, RequeuesAreBounded, TypeOK, RowType,
       LockDiscipline, GateCancel
  <1>13. ASSUME NEW j \in Jobs, GatePromote(j) PROVE Bounded'
    BY <1>13, BoundsAssumption DEF Bounded, RequeuesAreBounded, TypeOK, RowType,
       LockDiscipline, GatePromote
  <1>14. ASSUME NEW j \in Jobs, Launch(j) PROVE Bounded'
    BY <1>14, BoundsAssumption DEF Bounded, RequeuesAreBounded, TypeOK, RowType,
       LockDiscipline, Launch, MayStart
  <1>15. ASSUME NEW j \in Jobs, LaunchFails(j) PROVE Bounded'
    BY <1>15, BoundsAssumption DEF Bounded, RequeuesAreBounded, TypeOK, RowType,
       LockDiscipline, LaunchFails, MayStart
  <1>16. ASSUME NEW j \in Jobs, NEW u \in AfterStop(unit[j]), ReapKill(j, u)
         PROVE Bounded'
    <2>1. PICK b \in BOOLEAN: row' = [row EXCEPT ![j].emitted = b]
      BY <1>16 DEF ReapKill, BeginFinish
    <2>2. op' = "finish" /\ order' = order BY <1>16 DEF ReapKill, BeginFinish
    <2> QED BY <2>1, <2>2, BoundsAssumption DEF TypeOK, RowType, Bounded,
               RequeuesAreBounded
  <1>17. ASSUME NEW j \in Jobs, NEW u \in AfterStop(unit[j]), Preempt(j, u)
         PROVE Bounded'
    BY <1>17, BoundsAssumption DEF Bounded, RequeuesAreBounded, TypeOK, RowType,
       LockDiscipline, Preempt
  <1> QED BY <1>1, <1>2, <1>3, <1>4, <1>5, <1>6, <1>7, <1>8, <1>9, <1>10, <1>11, <1>12,
             <1>13, <1>14, <1>15, <1>16, <1>17 DEF Tick

(* The limits: the reconcile. *)
LEMMA BootKeepBounds ==
  ASSUME TypeOK, LockDiscipline, Bounded, Boot PROVE Bounded'
  <1>1. ASSUME NEW b \in BOOLEAN, Restart(b) PROVE Bounded'
    BY <1>1, BoundsAssumption DEF Bounded, RequeuesAreBounded, TypeOK, RowType,
       LockDiscipline, Restart, In
  <1>2. ASSUME NEW j \in Jobs, BootFinish(j) PROVE Bounded'
    BY <1>2, BoundsAssumption DEF Bounded, RequeuesAreBounded, TypeOK, RowType,
       LockDiscipline, BootFinish, IsFirst, BeginFinish
  <1>3. ASSUME NEW j \in Jobs, BootRequeue(j) PROVE Bounded'
    BY <1>3, BoundsAssumption DEF Bounded, RequeuesAreBounded, TypeOK, RowType,
       LockDiscipline, BootRequeue, Orphan, Requeued, MayRetry
  <1>4. ASSUME NEW j \in Jobs, BootFail(j) PROVE Bounded'
    BY <1>4, BoundsAssumption DEF Bounded, RequeuesAreBounded, TypeOK, RowType,
       LockDiscipline, BootFail, Orphan
  <1>5. CASE BootDone
    BY <1>5, BoundsAssumption DEF Bounded, RequeuesAreBounded, TypeOK, RowType,
       LockDiscipline, BootDone
  <1> QED BY <1>1, <1>2, <1>3, <1>4, <1>5 DEF Boot

(* The limits: the world outside pnd. *)
LEMMA EnvironmentKeepBounds ==
  ASSUME TypeOK, LockDiscipline, Bounded, Environment PROVE Bounded'
  <1>1. CASE PndCrash
    BY <1>1, BoundsAssumption DEF Bounded, RequeuesAreBounded, TypeOK, RowType,
       LockDiscipline, PndCrash, Crash
  <1>2. CASE BoxCrash
    BY <1>2, BoundsAssumption DEF Bounded, RequeuesAreBounded, TypeOK, RowType,
       LockDiscipline, BoxCrash, Crash
  <1>3. ASSUME NEW j \in Jobs, NEW c \in {"none", "ok", "fail"}, UnitExit(j, c)
        PROVE Bounded'
    BY <1>3, BoundsAssumption DEF Bounded, RequeuesAreBounded, TypeOK, RowType,
       LockDiscipline, UnitExit
  <1>4. ASSUME NEW j \in Jobs, TimeUp(j) PROVE Bounded'
    BY <1>4, BoundsAssumption DEF Bounded, RequeuesAreBounded, TypeOK, RowType,
       LockDiscipline, TimeUp
  <1>5. ASSUME NEW j \in Jobs, BackoffOver(j) PROVE Bounded'
    BY <1>5, BoundsAssumption DEF Bounded, RequeuesAreBounded, TypeOK, RowType,
       LockDiscipline, BackoffOver
  <1>6. CASE Aborts
    BY <1>6, BoundsAssumption DEF Bounded, RequeuesAreBounded, TypeOK, RowType,
       LockDiscipline, Aborts
  <1> QED BY <1>1, <1>2, <1>3, <1>4, <1>5, <1>6 DEF Environment

(* A step keeps the limits. *)
LEMMA BoundStep == TypeOK /\ LockDiscipline /\ Bounded /\ [Next]_vars => Bounded'
  <1> SUFFICES ASSUME TypeOK, LockDiscipline, Bounded, [Next]_vars PROVE Bounded'
    OBVIOUS
  <1>1. CASE TickStart BY <1>1 DEF Bounded, RequeuesAreBounded, TickStart, In
  <1>2. CASE UNCHANGED vars BY <1>2 DEF Bounded, RequeuesAreBounded, vars
  <1> QED BY <1>1, <1>2, RequestsKeepBounds, HandlingKeepBounds, TickKeepBounds,
             BootKeepBounds, EnvironmentKeepBounds DEF Next

(* Every way back into the queue is bounded, whatever the workload and whatever
   fails: no job is retried for ever except a preempted filler. *)
THEOREM RequeuesStayBounded == Spec => []RequeuesAreBounded
  <1>1. Init => Bounded
    BY BoundsAssumption DEF Init, NewRow, Bounded, RequeuesAreBounded
  <1>2. TypeOK /\ LockDiscipline /\ Bounded /\ [Next]_vars => Bounded'
    BY BoundStep
  <1>3. Bounded => RequeuesAreBounded BY DEF Bounded
  <1> QED BY Invariant, <1>1, <1>2, <1>3, PTL DEF Spec

-----------------------------------------------------------------------------
(* Copies *)

(* Dropping a handle loses no process. *)
LEMMA DroppedUnit ==
  ASSUME NEW u \in UnitType
  PROVE /\ Dropped(u).own = 0 /\ Dropped(u).stray = u.own + u.stray
        /\ Dropped(u).handle = FALSE
  BY DEF Dropped, UnitType

(* Stopping a unit adds no process. *)
LEMMA StoppedUnit ==
  ASSUME NEW u \in UnitType, NEW v \in AfterStop(u)
  PROVE /\ v.own <= u.own /\ v.stray <= u.stray /\ v.handle = u.handle
        /\ v.own + v.stray <= u.own + u.stray
  <1>1. CASE v = u BY <1>1 DEF UnitType
  <1>2. ASSUME NEW c \in {u.rc, "fail"},
               v = [u EXCEPT !.own = 0, !.stray = 0, !.rc = c]
        PROVE v.own = 0 /\ v.stray = 0 /\ v.handle = u.handle
    BY <1>2 DEF UnitType
  <1> QED BY <1>1, <1>2 DEF AfterStop, UnitType

(* A job that was never out of pnd's sight has at most one living process, which a
   handle hides from nobody, and none at all in a state from which the job may be
   queued or queued again: nothing alive is on the reconcile's list, held, or
   about to be requeued. *)
InSight ==
  /\ op \in {"down", "boot"} => ~booted
  /\ ~booted => op \in {"down", "boot", "finish", "park"}
  /\ \A j \in Jobs \ blind:
       /\ unit[j].own + unit[j].stray <= 1
       /\ unit[j].handle => unit[j].stray = 0
       /\ Alive(j) =>
            /\ \/ state[j] \in Terminal \cup {"running"}
               \/ op = "launch" /\ cur = j
            /\ cur = j => /\ op \notin {"preempt", "park"}
                          /\ ~(op = "finish" /\ verdict.as = "hold")
            /\ ~booted => j \notin todo

(* The copies in sight: a request. *)
LEMMA RequestsKeepSight ==
  ASSUME TypeOK, LockDiscipline, InSight, Requests PROVE InSight'
  <1>1. CASE SubmitDag
    BY <1>1, DroppedUnit, StoppedUnit, AfterStopType DEF InSight, Alive, TypeOK,
       UnitType, LockDiscipline, Terminal, Failed, Parked, SubmitDag
  <1>2. ASSUME NEW j \in Jobs, Submit(j) PROVE InSight'
    <2>1. /\ op = "idle" /\ op' \in {"idle", "submit"} /\ unit' = unit
          /\ booted' = booted /\ todo' = todo /\ blind' = blind
      BY <1>2 DEF Submit
    <2>2. \A i \in Jobs: state'[i] = state[i] \/ state[i] = "absent"
      BY <1>2 DEF TypeOK, Submit, Insert, IsNext
    <2> QED BY <2>1, <2>2 DEF InSight, Alive, Terminal, Failed
  <1>3. ASSUME NEW j \in Jobs, ApprovePre(j) PROVE InSight'
    BY <1>3, DroppedUnit, StoppedUnit, AfterStopType DEF InSight, Alive, TypeOK,
       UnitType, LockDiscipline, Terminal, Failed, Parked, ApprovePre, Resolvable
  <1>4. ASSUME NEW j \in Jobs, DenyPre(j) PROVE InSight'
    BY <1>4, DroppedUnit, StoppedUnit, AfterStopType DEF InSight, Alive, TypeOK,
       UnitType, LockDiscipline, Terminal, Failed, Parked, DenyPre, Resolvable
  <1>5. ASSUME NEW j \in Jobs, ApprovePost(j) PROVE InSight'
    BY <1>5, DroppedUnit, StoppedUnit, AfterStopType DEF InSight, Alive, TypeOK,
       UnitType, LockDiscipline, Terminal, Failed, Parked, ApprovePost, Resolvable
  <1>6. ASSUME NEW j \in Jobs, RejectPost(j) PROVE InSight'
    BY <1>6, DroppedUnit, StoppedUnit, AfterStopType DEF InSight, Alive, TypeOK,
       UnitType, LockDiscipline, Terminal, Failed, Parked, RejectPost, Resolvable
  <1>7. ASSUME NEW j \in Jobs, Revise(j) PROVE InSight'
    BY <1>7, DroppedUnit, StoppedUnit, AfterStopType DEF InSight, Alive, TypeOK,
       UnitType, LockDiscipline, Terminal, Failed, Parked, Revise, Resolvable
  <1>8. ASSUME NEW j \in Jobs, CancelQueued(j) PROVE InSight'
    BY <1>8, DroppedUnit, StoppedUnit, AfterStopType DEF InSight, Alive, TypeOK,
       UnitType, LockDiscipline, Terminal, Failed, Parked, CancelQueued
  <1>9. ASSUME NEW j \in Jobs, Extend(j) PROVE InSight'
    BY <1>9, DroppedUnit, StoppedUnit, AfterStopType DEF InSight, Alive, TypeOK,
       UnitType, LockDiscipline, Terminal, Failed, Parked, Extend
  <1>10. ASSUME NEW j \in Jobs, NEW u \in AfterStop(unit[j]), CancelRunning(j, u)
         PROVE InSight'
    <2>0. j \in Jobs BY <1>10 DEF LockDiscipline, CancelRunning
    <2>1. \A i \in Jobs: i # j => unit'[i] = unit[i]
      BY <1>10 DEF TypeOK, CancelRunning
    <2>2. unit'[j] = Dropped(u) BY <1>10, <2>0 DEF TypeOK, CancelRunning
    <2>3. u \in UnitType BY <2>0, <1>10, AfterStopType DEF TypeOK
    <2>4. /\ unit'[j].own = 0 /\ unit'[j].stray = u.own + u.stray
          /\ unit'[j].handle = FALSE
      BY <2>2, <2>3, DroppedUnit
    <2>9. u.own + u.stray <= unit[j].own + unit[j].stray
      BY <1>10, StoppedUnit DEF TypeOK
    <2>5. \A i \in Jobs: unit[i].own \in 0..1 /\ unit[i].stray \in Nat
      BY DEF TypeOK, UnitType
    <2>6. u.own \in 0..1 /\ u.stray \in Nat BY <2>3 DEF UnitType
    <2> HIDE DEF Dropped
    <2> QED BY <1>10, <2>0, <2>1, <2>4, <2>5, <2>6, <2>9 DEF InSight, Alive, TypeOK,
               LockDiscipline, Terminal, CancelRunning
  <1>11. ASSUME NEW j \in Jobs, KillUser(order[j].owner) PROVE InSight'
    BY <1>11, DroppedUnit, StoppedUnit, AfterStopType DEF InSight, Alive, TypeOK,
       UnitType, LockDiscipline, Terminal, Failed, Parked, KillUser, Known
  <1>12. CASE ClearQueued
    BY <1>12, DroppedUnit, StoppedUnit, AfterStopType DEF InSight, Alive, TypeOK,
       UnitType, LockDiscipline, Terminal, Failed, Parked, ClearQueued, In
  <1>13. ASSUME NEW p \in BOOLEAN, Pause(p) PROVE InSight'
    BY <1>13, DroppedUnit, StoppedUnit, AfterStopType DEF InSight, Alive, TypeOK,
       UnitType, LockDiscipline, Terminal, Failed, Parked, Pause
  <1>14. ASSUME NEW j \in Jobs, ExtendByAdmin(j) PROVE InSight'
    BY <1>14, DroppedUnit, StoppedUnit, AfterStopType DEF InSight, Alive, TypeOK,
       UnitType, LockDiscipline, Terminal, Failed, Parked, ExtendByAdmin
  <1> QED BY <1>1, <1>2, <1>3, <1>4, <1>5, <1>6, <1>7, <1>8, <1>9, <1>10, <1>11, <1>12,
             <1>13, <1>14 DEF Requests

(* The copies in sight: the rest of a request. *)
LEMMA HandlingKeepSight ==
  ASSUME TypeOK, LockDiscipline, InSight, Handling PROVE InSight'
  <1>1. CASE SubmitGate
    BY <1>1, DroppedUnit, StoppedUnit, AfterStopType, SMTT(20) DEF InSight, Alive, TypeOK,
       UnitType, LockDiscipline, Terminal, Failed, Parked, SubmitGate
  <1>2. CASE SubmitDagDone
    BY <1>2, DroppedUnit, StoppedUnit, AfterStopType DEF InSight, Alive, TypeOK,
       UnitType, LockDiscipline, Terminal, Failed, Parked, SubmitDagDone
  <1>3. CASE SubmitDagRefused
    BY <1>3, DroppedUnit, StoppedUnit, AfterStopType DEF InSight, Alive, TypeOK,
       UnitType, LockDiscipline, Terminal, Failed, Parked, SubmitDagRefused
  <1>4. CASE RollbackDone
    BY <1>4, DroppedUnit, StoppedUnit, AfterStopType DEF InSight, Alive, TypeOK,
       UnitType, LockDiscipline, Terminal, Failed, Parked, RollbackDone
  <1>5. CASE CancelMark
    BY <1>5, DroppedUnit, StoppedUnit, AfterStopType DEF InSight, Alive, TypeOK,
       UnitType, LockDiscipline, Terminal, Failed, Parked, CancelMark
  <1>6. CASE VisitsDone
    BY <1>6, DroppedUnit, StoppedUnit, AfterStopType DEF InSight, Alive, TypeOK,
       UnitType, LockDiscipline, Terminal, Failed, Parked, VisitsDone
  <1>7. ASSUME NEW valid \in BOOLEAN, FinalizeApproved(valid) PROVE InSight'
    BY <1>7, DroppedUnit, StoppedUnit, AfterStopType DEF InSight, Alive, TypeOK,
       UnitType, LockDiscipline, Terminal, Failed, Parked, FinalizeApproved
  <1>8. ASSUME NEW j \in Jobs, SubmitDagNode(j) PROVE InSight'
    BY <1>8, DroppedUnit, StoppedUnit, AfterStopType DEF InSight, Alive, TypeOK,
       UnitType, LockDiscipline, Terminal, Failed, Parked, SubmitDagNode, Insert, IsNext
  <1>9. ASSUME NEW j \in Jobs, Rollback(j) PROVE InSight'
    BY <1>9, DroppedUnit, StoppedUnit, AfterStopType DEF InSight, Alive, TypeOK,
       UnitType, LockDiscipline, Terminal, Failed, Parked, Rollback
  <1>10. ASSUME NEW j \in Jobs, KillMark(j) PROVE InSight'
    BY <1>10, DroppedUnit, StoppedUnit, AfterStopType DEF InSight, Alive, TypeOK,
       UnitType, LockDiscipline, Terminal, Failed, Parked, KillMark, IsLast
  <1>11. ASSUME NEW j \in Jobs, ClearOne(j) PROVE InSight'
    BY <1>11, DroppedUnit, StoppedUnit, AfterStopType DEF InSight, Alive, TypeOK,
       UnitType, LockDiscipline, Terminal, Failed, Parked, ClearOne
  <1>12. ASSUME NEW j \in Jobs, NEW u \in AfterStop(unit[j]), KillStop(j, u)
         PROVE InSight'
    <2>0. j \in Jobs BY <1>12 DEF LockDiscipline, KillStop
    <2>1. \A i \in Jobs: i # j => unit'[i] = unit[i]
      BY <1>12 DEF TypeOK, KillStop
    <2>2. unit'[j] = Dropped(u) BY <1>12, <2>0 DEF TypeOK, KillStop
    <2>3. u \in UnitType BY <2>0, <1>12, AfterStopType DEF TypeOK
    <2>4. /\ unit'[j].own = 0 /\ unit'[j].stray = u.own + u.stray
          /\ unit'[j].handle = FALSE
      BY <2>2, <2>3, DroppedUnit
    <2>9. u.own + u.stray <= unit[j].own + unit[j].stray
      BY <1>12, StoppedUnit DEF TypeOK
    <2>5. \A i \in Jobs: unit[i].own \in 0..1 /\ unit[i].stray \in Nat
      BY DEF TypeOK, UnitType
    <2>6. u.own \in 0..1 /\ u.stray \in Nat BY <2>3 DEF UnitType
    <2> HIDE DEF Dropped
    <2> QED BY <1>12, <2>0, <2>1, <2>4, <2>5, <2>6, <2>9 DEF InSight, Alive, TypeOK,
               LockDiscipline, Terminal, KillStop
  <1> QED BY <1>1, <1>2, <1>3, <1>4, <1>5, <1>6, <1>7, <1>8, <1>9, <1>10, <1>11, <1>12
             DEF Handling

(* The copies in sight: a step of the tick. *)
LEMMA TickKeepSight ==
  ASSUME TypeOK, LockDiscipline, InSight, Tick PROVE InSight'
  <1>1. CASE ReapDone
    BY <1>1, DroppedUnit, StoppedUnit, AfterStopType DEF InSight, Alive, TypeOK,
       UnitType, LockDiscipline, Terminal, Failed, Parked, ReapDone
  <1>2. CASE GateDone
    BY <1>2, DroppedUnit, StoppedUnit, AfterStopType DEF InSight, Alive, TypeOK,
       UnitType, LockDiscipline, Terminal, Failed, Parked, GateDone
  <1>3. CASE DispatchDone
    BY <1>3, DroppedUnit, StoppedUnit, AfterStopType DEF InSight, Alive, TypeOK,
       UnitType, LockDiscipline, Terminal, Failed, Parked, DispatchDone
  <1>4. CASE MarkRunning
    BY <1>4, DroppedUnit, StoppedUnit, AfterStopType DEF InSight, Alive, TypeOK,
       UnitType, LockDiscipline, Terminal, Failed, Parked, MarkRunning, AfterLaunch
  <1>5. CASE PreemptRequeue
    BY <1>5, DroppedUnit, StoppedUnit, AfterStopType DEF InSight, Alive, TypeOK,
       UnitType, LockDiscipline, Terminal, Failed, Parked, PreemptRequeue
  <1>6. CASE FinishMark
    <2>0. cur \in Jobs BY <1>6 DEF LockDiscipline, FinishMark
    <2>1. \A i \in Jobs: i # cur => unit'[i] = unit[i]
      BY <1>6 DEF TypeOK, FinishMark, Resume, VerdictType, Failed
    <2>2. unit'[cur] = Dropped(unit[cur]) BY <1>6, <2>0 DEF TypeOK, FinishMark, Resume,
                                             VerdictType, Failed
    <2>3. unit[cur] \in UnitType BY <2>0, <1>6, AfterStopType DEF TypeOK
    <2>4. /\ unit'[cur].own = 0 /\ unit'[cur].stray = unit[cur].own + unit[cur].stray
          /\ unit'[cur].handle = FALSE
      BY <2>2, <2>3, DroppedUnit
    <2>5. \A i \in Jobs: unit[i].own \in 0..1 /\ unit[i].stray \in Nat
      BY DEF TypeOK, UnitType
    <2>6. unit[cur].own \in 0..1 /\ unit[cur].stray \in Nat BY <2>3 DEF UnitType
    <2> HIDE DEF Dropped
    <2> QED BY <1>6, <2>0, <2>1, <2>4, <2>5, <2>6 DEF InSight, Alive, TypeOK,
               LockDiscipline, Terminal, FinishMark, Resume, VerdictType, Failed
  <1>7. CASE FinishRecord
    BY <1>7, DroppedUnit, StoppedUnit, AfterStopType DEF InSight, Alive, TypeOK,
       UnitType, LockDiscipline, Terminal, Failed, Parked, FinishRecord
  <1>8. CASE Park
    <2>0. cur \in Jobs BY <1>8 DEF LockDiscipline, Park
    <2>1. \A i \in Jobs: i # cur => unit'[i] = unit[i]
      BY <1>8 DEF TypeOK, Park, Resume
    <2>2. unit'[cur] = Dropped(unit[cur]) BY <1>8, <2>0 DEF TypeOK, Park, Resume
    <2>3. unit[cur] \in UnitType BY <2>0, <1>8, AfterStopType DEF TypeOK
    <2>4. /\ unit'[cur].own = 0 /\ unit'[cur].stray = unit[cur].own + unit[cur].stray
          /\ unit'[cur].handle = FALSE
      BY <2>2, <2>3, DroppedUnit
    <2>5. \A i \in Jobs: unit[i].own \in 0..1 /\ unit[i].stray \in Nat
      BY DEF TypeOK, UnitType
    <2>6. unit[cur].own \in 0..1 /\ unit[cur].stray \in Nat BY <2>3 DEF UnitType
    <2> HIDE DEF Dropped
    <2> QED BY <1>8, <2>0, <2>1, <2>4, <2>5, <2>6 DEF InSight, Alive, TypeOK,
               LockDiscipline, Terminal, Park, Resume
  <1>9. ASSUME NEW j \in Jobs, ReapEnded(j) PROVE InSight'
    BY <1>9, DroppedUnit, StoppedUnit, AfterStopType DEF InSight, Alive, TypeOK,
       UnitType, LockDiscipline, Terminal, Failed, Parked, ReapEnded, ReapOver, IsFirst,
       SeenOver, StillOn, BeginFinish
  <1>10. ASSUME NEW j \in Jobs, ReapRequeue(j) PROVE InSight'
    <2>0. j \in Jobs BY <1>10 DEF LockDiscipline, ReapRequeue
    <2>1. \A i \in Jobs: i # j => unit'[i] = unit[i]
      BY <1>10 DEF TypeOK, ReapRequeue, ReapOver, IsFirst, SeenOver, StillOn
    <2>2. unit'[j] = Dropped(unit[j]) BY <1>10, <2>0 DEF TypeOK, ReapRequeue, ReapOver,
                                         IsFirst, SeenOver, StillOn
    <2>3. unit[j] \in UnitType BY <2>0, <1>10, AfterStopType DEF TypeOK
    <2>4. /\ unit'[j].own = 0 /\ unit'[j].stray = unit[j].own + unit[j].stray
          /\ unit'[j].handle = FALSE
      BY <2>2, <2>3, DroppedUnit
    <2>5. \A i \in Jobs: unit[i].own \in 0..1 /\ unit[i].stray \in Nat
      BY DEF TypeOK, UnitType
    <2>6. unit[j].own \in 0..1 /\ unit[j].stray \in Nat BY <2>3 DEF UnitType
    <2> HIDE DEF Dropped
    <2> QED BY <1>10, <2>0, <2>1, <2>4, <2>5, <2>6 DEF InSight, Alive, TypeOK,
               LockDiscipline, Terminal, ReapRequeue, ReapOver, IsFirst, SeenOver,
               StillOn
  <1>11. ASSUME NEW j \in Jobs, ReapLater(j) PROVE InSight'
    BY <1>11, DroppedUnit, StoppedUnit, AfterStopType DEF InSight, Alive, TypeOK,
       UnitType, LockDiscipline, Terminal, Failed, Parked, ReapLater
  <1>12. ASSUME NEW j \in Jobs, GateCancel(j) PROVE InSight'
    BY <1>12, DroppedUnit, StoppedUnit, AfterStopType DEF InSight, Alive, TypeOK,
       UnitType, LockDiscipline, Terminal, Failed, Parked, GateCancel, IsFirst, Doomed
  <1>13. ASSUME NEW j \in Jobs, GatePromote(j) PROVE InSight'
    BY <1>13, DroppedUnit, StoppedUnit, AfterStopType DEF InSight, Alive, TypeOK,
       UnitType, LockDiscipline, Terminal, Failed, Parked, GatePromote, IsFirst, Ready
  <1>14. ASSUME NEW j \in Jobs, Launch(j) PROVE InSight'
    BY <1>14, DroppedUnit, StoppedUnit, AfterStopType DEF InSight, Alive, TypeOK,
       UnitType, LockDiscipline, Terminal, Failed, Parked, Launch, Started, MayStart
  <1>15. ASSUME NEW j \in Jobs, LaunchFails(j) PROVE InSight'
    BY <1>15, DroppedUnit, StoppedUnit, AfterStopType DEF InSight, Alive, TypeOK,
       UnitType, LockDiscipline, Terminal, Failed, Parked, LaunchFails, MayStart
  <1>16. ASSUME NEW j \in Jobs, NEW u \in AfterStop(unit[j]), ReapKill(j, u)
         PROVE InSight'
    BY <1>16, DroppedUnit, StoppedUnit, AfterStopType DEF InSight, Alive, TypeOK,
       UnitType, LockDiscipline, Terminal, Failed, Parked, ReapKill, IsFirst,
       BeginFinish
  <1>17. ASSUME NEW j \in Jobs, NEW u \in AfterStop(unit[j]), Preempt(j, u)
         PROVE InSight'
    <2>0. j \in Jobs BY <1>17 DEF LockDiscipline, Preempt
    <2>1. \A i \in Jobs: i # j => unit'[i] = unit[i]
      BY <1>17 DEF TypeOK, Preempt
    <2>2. unit'[j] = Dropped(u) BY <1>17, <2>0 DEF TypeOK, Preempt
    <2>3. u \in UnitType BY <2>0, <1>17, AfterStopType DEF TypeOK
    <2>4. /\ unit'[j].own = 0 /\ unit'[j].stray = u.own + u.stray
          /\ unit'[j].handle = FALSE
      BY <2>2, <2>3, DroppedUnit
    <2>9. u.own + u.stray <= unit[j].own + unit[j].stray
      BY <1>17, StoppedUnit DEF TypeOK
    <2>5. \A i \in Jobs: unit[i].own \in 0..1 /\ unit[i].stray \in Nat
      BY DEF TypeOK, UnitType
    <2>6. u.own \in 0..1 /\ u.stray \in Nat BY <2>3 DEF UnitType
    <2> HIDE DEF Dropped
    <2> QED BY <1>17, <2>0, <2>1, <2>4, <2>5, <2>6, <2>9 DEF InSight, Alive, TypeOK,
               LockDiscipline, Terminal, Preempt
  <1> QED BY <1>1, <1>2, <1>3, <1>4, <1>5, <1>6, <1>7, <1>8, <1>9, <1>10, <1>11, <1>12,
             <1>13, <1>14, <1>15, <1>16, <1>17 DEF Tick

(* The copies in sight: the reconcile. *)
LEMMA BootKeepSight ==
  ASSUME TypeOK, LockDiscipline, InSight, Boot PROVE InSight'
  <1>1. ASSUME NEW b \in BOOLEAN, Restart(b) PROVE InSight'
    BY <1>1, DroppedUnit, StoppedUnit, AfterStopType DEF InSight, Alive, TypeOK,
       UnitType, LockDiscipline, Terminal, Failed, Parked, Restart, In
  <1>2. ASSUME NEW j \in Jobs, BootFinish(j) PROVE InSight'
    BY <1>2, DroppedUnit, StoppedUnit, AfterStopType DEF InSight, Alive, TypeOK,
       UnitType, LockDiscipline, Terminal, Failed, Parked, BootFinish, IsFirst,
       BeginFinish
  <1>3. ASSUME NEW j \in Jobs, BootRequeue(j) PROVE InSight'
    BY <1>3, DroppedUnit, StoppedUnit, AfterStopType DEF InSight, Alive, TypeOK,
       UnitType, LockDiscipline, Terminal, Failed, Parked, BootRequeue, Orphan, IsFirst
  <1>4. ASSUME NEW j \in Jobs, BootFail(j) PROVE InSight'
    BY <1>4, DroppedUnit, StoppedUnit, AfterStopType DEF InSight, Alive, TypeOK,
       UnitType, LockDiscipline, Terminal, Failed, Parked, BootFail, Orphan, IsFirst
  <1>5. CASE BootDone
    BY <1>5, DroppedUnit, StoppedUnit, AfterStopType DEF InSight, Alive, TypeOK,
       UnitType, LockDiscipline, Terminal, Failed, Parked, BootDone
  <1> QED BY <1>1, <1>2, <1>3, <1>4, <1>5 DEF Boot

(* The copies in sight: the world outside pnd. *)
LEMMA EnvironmentKeepSight ==
  ASSUME TypeOK, LockDiscipline, InSight, Environment PROVE InSight'
  <1>1. CASE PndCrash
    <2>1. \A i \in Jobs: unit'[i] = Dropped(unit[i]) BY <1>1 DEF PndCrash
    <2>2. \A i \in Jobs: /\ unit'[i].own = 0 /\ unit'[i].handle = FALSE
                           /\ unit'[i].stray = unit[i].own + unit[i].stray
      <3> TAKE i \in Jobs
      <3>1. unit[i] \in UnitType BY DEF TypeOK
      <3>2. unit'[i] = Dropped(unit[i]) BY <2>1
      <3> QED BY <3>1, <3>2, DroppedUnit
    <2>3. \A i \in Jobs: unit[i].own \in 0..1 /\ unit[i].stray \in Nat
      BY DEF TypeOK, UnitType
    <2>4. /\ op' = "down" /\ ~booted' /\ todo' = {} /\ state' = state
          /\ blind' = IF op = "launch" THEN blind \cup {cur} ELSE blind
      BY <1>1 DEF PndCrash, Crash
    <2> QED BY <2>2, <2>3, <2>4 DEF InSight, Alive
  <1>2. CASE BoxCrash
    BY <1>2, DroppedUnit, StoppedUnit, AfterStopType DEF InSight, Alive, TypeOK,
       UnitType, LockDiscipline, Terminal, Failed, Parked, BoxCrash, Crash, NoUnit,
       NoVerdict
  <1>3. ASSUME NEW j \in Jobs, NEW c \in {"none", "ok", "fail"}, UnitExit(j, c)
        PROVE InSight'
    BY <1>3, DroppedUnit, StoppedUnit, AfterStopType DEF InSight, Alive, TypeOK,
       UnitType, LockDiscipline, Terminal, Failed, Parked, UnitExit
  <1>4. ASSUME NEW j \in Jobs, TimeUp(j) PROVE InSight'
    BY <1>4, DroppedUnit, StoppedUnit, AfterStopType DEF InSight, Alive, TypeOK,
       UnitType, LockDiscipline, Terminal, Failed, Parked, TimeUp
  <1>5. ASSUME NEW j \in Jobs, BackoffOver(j) PROVE InSight'
    BY <1>5, DroppedUnit, StoppedUnit, AfterStopType DEF InSight, Alive, TypeOK,
       UnitType, LockDiscipline, Terminal, Failed, Parked, BackoffOver
  <1>6. CASE Aborts
    BY <1>6, DroppedUnit, StoppedUnit, AfterStopType DEF InSight, Alive, TypeOK,
       UnitType, LockDiscipline, Terminal, Failed, Parked, Aborts, NoUnit,
       NoVerdict
  <1> QED BY <1>1, <1>2, <1>3, <1>4, <1>5, <1>6 DEF Environment

(* A step keeps the copies in sight. *)
LEMMA SightStep == TypeOK /\ LockDiscipline /\ InSight /\ [Next]_vars => InSight'
  <1> SUFFICES ASSUME TypeOK, LockDiscipline, InSight, [Next]_vars PROVE InSight'
    OBVIOUS
  <1>1. CASE TickStart BY <1>1 DEF InSight, Alive, TickStart, In
  <1>2. CASE UNCHANGED vars BY <1>2 DEF InSight, Alive, vars
  <1> QED BY <1>1, <1>2, RequestsKeepSight, HandlingKeepSight, TickKeepSight,
             BootKeepSight, EnvironmentKeepSight DEF Next

(* pnd starts a second copy of a job, or queues one that still runs, only if it
   lost a living process from sight or failed to record one that it started. *)
THEOREM NoSecondCopy == Spec => []OneCopy
  <1>1. Init => InSight BY DEF Init, NoUnit, InSight, Alive
  <1>2. TypeOK /\ LockDiscipline /\ InSight /\ [Next]_vars => InSight' BY SightStep
  <1>3. InSight => OneCopy BY DEF InSight, OneCopy, Terminal, Failed
  <1> QED BY Invariant, <1>1, <1>2, <1>3, PTL DEF Spec

-----------------------------------------------------------------------------
(* The implementation of JobPromise *)

(* Only a done job carries the record_ok flag. *)
Unproven == \A j \in Jobs: row[j].recordOk => state[j] = "done"

MappedDeps == [j \in Jobs |-> order[j].deps]
MappedPhase == [j \in Jobs |-> Phase(state[j])]
MappedProof == {j \in Jobs: row[j].recordOk}

PromiseKept == Promise!PNext \/ UNCHANGED <<MappedDeps, MappedPhase, MappedProof>>

SameProofs == \A i \in Jobs: row'[i].recordOk = row[i].recordOk

(* A change of one state is a change of one phase. *)
LEMMA PhaseMoves ==
  ASSUME TypeOK, NEW j \in Jobs, NEW s, state' = [state EXCEPT ![j] = s]
  PROVE MappedPhase' = [MappedPhase EXCEPT ![j] = Phase(s)]
  <1>1. \A i \in Jobs: Phase(state'[i]) = IF i = j THEN Phase(s) ELSE Phase(state[i])
    BY DEF TypeOK
  <1>2. [i \in Jobs |-> Phase(state'[i])] =
          [i \in Jobs |-> IF i = j THEN Phase(s) ELSE Phase(state[i])]
    BY <1>1
  <1>3. [MappedPhase EXCEPT ![j] = Phase(s)] =
          [i \in Jobs |-> IF i = j THEN Phase(s) ELSE Phase(state[i])]
    BY DEF MappedPhase
  <1>4. MappedPhase' = [i \in Jobs |-> Phase(state'[i])] BY DEF MappedPhase
  <1> QED BY <1>2, <1>3, <1>4

(* ... and so a move of the promise. *)
LEMMA MoveIs ==
  ASSUME TypeOK, order' = order, NEW j \in Jobs, NEW s, NEW from,
         state' = [state EXCEPT ![j] = s], Phase(state[j]) \in from
  PROVE Promise!Move(j, from, Phase(s))
  <1>1. MappedPhase' = [MappedPhase EXCEPT ![j] = Phase(s)] BY PhaseMoves
  <1>2. MappedPhase[j] \in from BY DEF MappedPhase
  <1>3. UNCHANGED MappedDeps BY DEF MappedDeps
  <1> QED BY <1>1, <1>2, <1>3 DEF Promise!Move, MappedPhase, MappedDeps

(* A step that moves no job between phases is a stutter. *)
LEMMA Stutters ==
  ASSUME TypeOK, order' = order, SameProofs,
         \A i \in Jobs: Phase(state'[i]) = Phase(state[i])
  PROVE PromiseKept
  BY DEF PromiseKept, MappedDeps, MappedPhase, MappedProof, SameProofs

(* Submission is Accept. *)
LEMMA Accepts ==
  ASSUME TypeOK, Unproven, NEW j \in Jobs, NEW s, order' = order,
         state' = [state EXCEPT ![j] = s],
         state[j] = "absent", s \in {"queued", "blocked"}, SameProofs
  PROVE PromiseKept
  <1>1. Phase(state[j]) = "unknown" /\ Phase(s) = "waiting" BY DEF Phase
  <1>2. Promise!Accept(j)
    <2>1. Promise!Move(j, {"unknown"}, "waiting")
      <3>1. Promise!Move(j, {"unknown"}, Phase(s)) BY <1>1, MoveIs
      <3> QED BY <1>1, <3>1
    <2>2. UNCHANGED {i \in Jobs: row[i].recordOk} BY DEF SameProofs
    <2> QED BY <2>1, <2>2 DEF Promise!Accept
  <1> QED BY <1>2 DEF PromiseKept, Promise!PNext

(* The commit of running is Start. *)
LEMMA Starts ==
  ASSUME TypeOK, Unproven, NEW j \in Jobs, NEW s, order' = order,
         state' = [state EXCEPT ![j] = s],
         state[j] = "queued", s = "running", DepsSatisfied(j), SameProofs
  PROVE PromiseKept
  <1>1. Phase(state[j]) = "waiting" /\ Phase(s) = "running" BY DEF Phase
  <1>2. Promise!DepsDone(j)
    BY DEF Promise!DepsDone, DepsSatisfied, TypeOK, OrderType, Phase
  <1>3. Promise!Start(j)
    <2>1. Promise!Move(j, {"waiting"}, "running")
      <3>1. Promise!Move(j, {"waiting"}, Phase(s)) BY <1>1, MoveIs
      <3> QED BY <1>1, <3>1
    <2>2. UNCHANGED {i \in Jobs: row[i].recordOk} BY DEF SameProofs
    <2> QED BY <1>2, <2>1, <2>2 DEF Promise!Start
  <1> QED BY <1>3 DEF PromiseKept, Promise!PNext

(* Every requeue, and a revision, is GiveBack. *)
LEMMA GivesBack ==
  ASSUME TypeOK, Unproven, NEW j \in Jobs, NEW s, order' = order,
         state' = [state EXCEPT ![j] = s],
         state[j] \in {"running", "awaiting_approval"}, s = "queued", SameProofs
  PROVE PromiseKept
  <1>1. Phase(state[j]) \in {"running", "held"} /\ Phase(s) = "waiting" BY DEF Phase
  <1>2. ~row[j].recordOk BY DEF Unproven
  <1>3. Promise!GiveBack(j)
    <2>1. Promise!Move(j, {"running", "held"}, "waiting")
      <3>1. Promise!Move(j, {"running", "held"}, Phase(s)) BY <1>1, MoveIs
      <3> QED BY <1>1, <3>1
    <2>2. {i \in Jobs: row[i].recordOk}' = {i \in Jobs: row[i].recordOk} \ {j}
      BY <1>2 DEF SameProofs
    <2> QED BY <2>1, <2>2 DEF Promise!GiveBack
  <1> QED BY <1>3 DEF PromiseKept, Promise!PNext

(* Parking a result is Hold. *)
LEMMA Holds ==
  ASSUME TypeOK, Unproven, NEW j \in Jobs, NEW s, order' = order,
         state' = [state EXCEPT ![j] = s],
         state[j] = "running", s = "awaiting_approval", SameProofs
  PROVE PromiseKept
  <1>1. Phase(state[j]) = "running" /\ Phase(s) = "held" BY DEF Phase
  <1>2. Promise!Hold(j)
    <2>1. Promise!Move(j, {"running"}, "held")
      <3>1. Promise!Move(j, {"running"}, Phase(s)) BY <1>1, MoveIs
      <3> QED BY <1>1, <3>1
    <2>2. UNCHANGED {i \in Jobs: row[i].recordOk} BY DEF SameProofs
    <2> QED BY <2>1, <2>2 DEF Promise!Hold
  <1> QED BY <1>2 DEF PromiseKept, Promise!PNext

(* The verdict done is Complete. *)
LEMMA Completes ==
  ASSUME TypeOK, Unproven, NEW j \in Jobs, NEW s, order' = order,
         state' = [state EXCEPT ![j] = s],
         state[j] \in {"running", "awaiting_approval"}, s = "done",
         row'[j].recordOk, \A i \in Jobs \ {j}: row'[i].recordOk = row[i].recordOk
  PROVE PromiseKept
  <1>1. Phase(state[j]) \in {"running", "held"} /\ Phase(s) = "done" BY DEF Phase
  <1>2. Promise!Complete(j)
    <2>1. Promise!Move(j, {"running", "held"}, "done")
      <3>1. Promise!Move(j, {"running", "held"}, Phase(s)) BY <1>1, MoveIs
      <3> QED BY <1>1, <3>1
    <2>2. {i \in Jobs: row[i].recordOk}' = {i \in Jobs: row[i].recordOk} \cup {j} OBVIOUS
    <2> QED BY <2>1, <2>2 DEF Promise!Complete
  <1> QED BY <1>2 DEF PromiseKept, Promise!PNext

(* Any other verdict is End. *)
LEMMA Ends ==
  ASSUME TypeOK, Unproven, NEW j \in Jobs, NEW s, order' = order,
         state' = [state EXCEPT ![j] = s],
         state[j] \in Parked \cup {"running"}, s \in Failed,
         ~row'[j].recordOk, \A i \in Jobs \ {j}: row'[i].recordOk = row[i].recordOk
  PROVE PromiseKept
  <1>1. Phase(state[j]) \in {"waiting", "running", "held"} /\ Phase(s) = s
    BY DEF Phase, Parked, Failed
  <1>2. ~row[j].recordOk BY DEF Unproven, Parked
  <1>3. s \in Promise!Verdicts BY DEF Promise!Verdicts, Failed
  <1>4. Promise!End(j, s)
    <2>1. Promise!Move(j, {"waiting", "running", "held"}, s)
      <3>1. Promise!Move(j, {"waiting", "running", "held"}, Phase(s)) BY <1>1, MoveIs
      <3> QED BY <1>1, <3>1
    <2>2. {i \in Jobs: row[i].recordOk}' = {i \in Jobs: row[i].recordOk} \ {j} BY <1>2
    <2> QED BY <2>1, <2>2 DEF Promise!End
  <1> QED BY <1>3, <1>4 DEF PromiseKept, Promise!PNext

(* The promise: a request. *)
LEMMA RequestsKeepPromise ==
  ASSUME TypeOK, LockDiscipline, DependenciesFirst, Unproven, Requests PROVE PromiseKept
  <1>1. CASE SubmitDag
    <2>1. order' = order /\ state' = state BY <1>1 DEF SubmitDag
    <2>2. SameProofs BY <1>1 DEF SameProofs, SubmitDag
    <2> QED BY <2>1, <2>2, Stutters
  <1>2. ASSUME NEW j \in Jobs, Submit(j) PROVE PromiseKept
    <2>1. PICK s \in {"queued", "blocked"}: state' = [state EXCEPT ![j] = s]
      BY <1>2 DEF Submit, Insert
    <2>2. order' = order /\ state[j] = "absent" BY <1>2 DEF Submit, IsNext
    <2>3. SameProofs BY <1>2 DEF SameProofs, Submit
    <2> QED BY <2>1, <2>2, <2>3, Accepts
  <1>3. ASSUME NEW j \in Jobs, ApprovePre(j) PROVE PromiseKept
    <2>1. order' = order BY <1>3 DEF ApprovePre
    <2>2. SameProofs BY <1>3 DEF SameProofs, ApprovePre, TypeOK, RowType
    <2>3. \A i \in Jobs: Phase(state'[i]) = Phase(state[i])
      BY <1>3 DEF ApprovePre, Resolvable, TypeOK, Phase
    <2> QED BY <2>1, <2>2, <2>3, Stutters
  <1>4. ASSUME NEW j \in Jobs, DenyPre(j) PROVE PromiseKept
    <2>1. order' = order /\ state' = [state EXCEPT ![j] = "cancelled"]
      BY <1>4 DEF DenyPre
    <2>2. SameProofs BY <1>4 DEF SameProofs, DenyPre, TypeOK, RowType
    <2>3. j \in Jobs /\ state[j] = "staged" BY <1>4 DEF DenyPre, LockDiscipline,
                                               DependenciesFirst, Resolvable
    <2>4. ~row'[j].recordOk BY <2>2, <2>3 DEF SameProofs, Unproven, Parked
    <2>5. "cancelled" \in Failed BY DEF Failed
    <2>6. state[j] \in Parked \cup {"running"} BY <2>3 DEF Parked
    <2> QED BY <2>1, <2>2, <2>3, <2>4, <2>5, <2>6, Ends DEF SameProofs
  <1>5. ASSUME NEW j \in Jobs, ApprovePost(j) PROVE PromiseKept
    <2>1. order' = order /\ state' = state BY <1>5 DEF ApprovePost
    <2>2. SameProofs BY <1>5 DEF SameProofs, ApprovePost, TypeOK, RowType
    <2> QED BY <2>1, <2>2, Stutters
  <1>6. ASSUME NEW j \in Jobs, RejectPost(j) PROVE PromiseKept
    <2>1. order' = order /\ state' = [state EXCEPT ![j] = "rejected"]
      BY <1>6 DEF RejectPost
    <2>2. SameProofs BY <1>6 DEF SameProofs, RejectPost, TypeOK, RowType
    <2>3. j \in Jobs /\ state[j] = "awaiting_approval"
      BY <1>6 DEF RejectPost, LockDiscipline, DependenciesFirst, Resolvable
    <2>4. ~row'[j].recordOk BY <2>2, <2>3 DEF SameProofs, Unproven, Parked
    <2>5. "rejected" \in Failed BY DEF Failed
    <2>6. state[j] \in Parked \cup {"running"} BY <2>3 DEF Parked
    <2> QED BY <2>1, <2>2, <2>3, <2>4, <2>5, <2>6, Ends DEF SameProofs
  <1>7. ASSUME NEW j \in Jobs, Revise(j) PROVE PromiseKept
    <2>1. order' = order /\ state' = [state EXCEPT ![j] = "queued"] BY <1>7 DEF Revise
    <2>2. state[j] = "awaiting_approval" BY <1>7 DEF Revise, Resolvable
    <2>3. ~row[j].recordOk BY <2>2 DEF Unproven
    <2>4. SameProofs BY <1>7, <2>3 DEF SameProofs, Revise, TypeOK, RowType
    <2> QED BY <2>1, <2>2, <2>4, GivesBack
  <1>8. ASSUME NEW j \in Jobs, CancelQueued(j) PROVE PromiseKept
    <2>1. order' = order /\ state' = [state EXCEPT ![j] = "cancelled"]
      BY <1>8 DEF CancelQueued
    <2>2. SameProofs BY <1>8 DEF SameProofs, CancelQueued
    <2>3. j \in Jobs /\ state[j] = "queued" BY <1>8 DEF CancelQueued, LockDiscipline,
                                               DependenciesFirst
    <2>4. ~row'[j].recordOk BY <2>2, <2>3 DEF SameProofs, Unproven, Parked
    <2>5. "cancelled" \in Failed BY DEF Failed
    <2>6. state[j] \in Parked \cup {"running"} BY <2>3 DEF Parked
    <2> QED BY <2>1, <2>2, <2>3, <2>4, <2>5, <2>6, Ends DEF SameProofs
  <1>9. ASSUME NEW j \in Jobs, Extend(j) PROVE PromiseKept
    <2>1. order' = order /\ state' = state BY <1>9 DEF Extend
    <2>2. SameProofs BY <1>9 DEF SameProofs, Extend, TypeOK, RowType
    <2> QED BY <2>1, <2>2, Stutters
  <1>10. ASSUME NEW j \in Jobs, NEW u \in AfterStop(unit[j]), CancelRunning(j, u)
         PROVE PromiseKept
    <2>1. order' = order /\ state' = state BY <1>10 DEF CancelRunning
    <2>2. SameProofs BY <1>10 DEF SameProofs, CancelRunning
    <2> QED BY <2>1, <2>2, Stutters
  <1>11. ASSUME NEW j \in Jobs, KillUser(order[j].owner) PROVE PromiseKept
    <2>1. order' = order /\ state' = state BY <1>11 DEF KillUser
    <2>2. SameProofs BY <1>11 DEF SameProofs, KillUser
    <2> QED BY <2>1, <2>2, Stutters
  <1>12. CASE ClearQueued
    <2>1. order' = order /\ state' = state BY <1>12 DEF ClearQueued
    <2>2. SameProofs BY <1>12 DEF SameProofs, ClearQueued
    <2> QED BY <2>1, <2>2, Stutters
  <1>13. ASSUME NEW p \in BOOLEAN, Pause(p) PROVE PromiseKept
    <2>1. order' = order /\ state' = state BY <1>13 DEF Pause
    <2>2. SameProofs BY <1>13 DEF SameProofs, Pause
    <2> QED BY <2>1, <2>2, Stutters
  <1>14. ASSUME NEW j \in Jobs, ExtendByAdmin(j) PROVE PromiseKept
    <2>1. order' = order /\ state' = state BY <1>14 DEF ExtendByAdmin
    <2>2. SameProofs BY <1>14 DEF SameProofs, ExtendByAdmin, TypeOK, RowType
    <2> QED BY <2>1, <2>2, Stutters
  <1> QED BY <1>1, <1>2, <1>3, <1>4, <1>5, <1>6, <1>7, <1>8, <1>9, <1>10, <1>11, <1>12,
             <1>13, <1>14 DEF Requests

(* The promise: the rest of a request. *)
LEMMA HandlingKeepPromise ==
  ASSUME TypeOK, LockDiscipline, DependenciesFirst, Unproven, Handling PROVE PromiseKept
  <1>1. CASE SubmitGate
    <2>1. order' = order BY <1>1 DEF SubmitGate
    <2>2. SameProofs BY <1>1 DEF SameProofs, SubmitGate, TypeOK, RowType
    <2>3. \A i \in Jobs: Phase(state'[i]) = Phase(state[i])
      BY <1>1 DEF SubmitGate, LockDiscipline, TypeOK, Phase
    <2> QED BY <2>1, <2>2, <2>3, Stutters
  <1>2. CASE SubmitDagDone
    <2>1. order' = order /\ state' = state BY <1>2 DEF SubmitDagDone
    <2>2. SameProofs BY <1>2 DEF SameProofs, SubmitDagDone
    <2> QED BY <2>1, <2>2, Stutters
  <1>3. CASE SubmitDagRefused
    <2>1. order' = order /\ state' = state BY <1>3 DEF SubmitDagRefused
    <2>2. SameProofs BY <1>3 DEF SameProofs, SubmitDagRefused
    <2> QED BY <2>1, <2>2, Stutters
  <1>4. CASE RollbackDone
    <2>1. order' = order /\ state' = state BY <1>4 DEF RollbackDone
    <2>2. SameProofs BY <1>4 DEF SameProofs, RollbackDone
    <2> QED BY <2>1, <2>2, Stutters
  <1>5. CASE CancelMark
    <2>1. order' = order /\ state' = [state EXCEPT ![cur] = "cancelled"]
      BY <1>5 DEF CancelMark
    <2>2. SameProofs BY <1>5 DEF SameProofs, CancelMark
    <2>3. cur \in Jobs /\ state[cur] = "running" BY <1>5 DEF CancelMark, LockDiscipline,
                                                    DependenciesFirst
    <2>4. ~row'[cur].recordOk BY <2>2, <2>3 DEF SameProofs, Unproven, Parked
    <2>5. "cancelled" \in Failed BY DEF Failed
    <2>6. state[cur] \in Parked \cup {"running"} BY <2>3 DEF Parked
    <2> QED BY <2>1, <2>2, <2>3, <2>4, <2>5, <2>6, Ends DEF SameProofs
  <1>6. CASE VisitsDone
    <2>1. order' = order /\ state' = state BY <1>6 DEF VisitsDone
    <2>2. SameProofs BY <1>6 DEF SameProofs, VisitsDone
    <2> QED BY <2>1, <2>2, Stutters
  <1>7. ASSUME NEW valid \in BOOLEAN, FinalizeApproved(valid) PROVE PromiseKept
    <2>1. cur \in Jobs /\ state[cur] = "awaiting_approval" /\ order' = order
      BY <1>7 DEF FinalizeApproved, LockDiscipline
    <2>2. \A i \in Jobs \ {cur}: row'[i].recordOk = row[i].recordOk
      BY <1>7, <2>1 DEF FinalizeApproved, TypeOK, RowType
    <2>3. CASE row[cur].record /\ valid
      <3>1. state' = [state EXCEPT ![cur] = "done"] BY <1>7, <2>3 DEF FinalizeApproved
      <3>2. row'[cur].recordOk BY <1>7, <2>1, <2>3 DEF FinalizeApproved, TypeOK, RowType
      <3> QED BY <2>1, <2>2, <3>1, <3>2, Completes
    <2>4. CASE ~(row[cur].record /\ valid)
      <3>1. state' = [state EXCEPT ![cur] = "failed"]
        BY <1>7, <2>4 DEF FinalizeApproved
      <3>2. ~row'[cur].recordOk BY <1>7, <2>1, <2>4 DEF FinalizeApproved, TypeOK,
                                   RowType
      <3> QED BY <2>1, <2>2, <3>1, <3>2, Ends DEF Failed, Parked
    <2> QED BY <2>3, <2>4
  <1>8. ASSUME NEW j \in Jobs, SubmitDagNode(j) PROVE PromiseKept
    <2>1. PICK s \in {"queued", "blocked"}: state' = [state EXCEPT ![j] = s]
      BY <1>8 DEF SubmitDagNode, Insert
    <2>2. order' = order /\ state[j] = "absent" BY <1>8 DEF SubmitDagNode, IsNext
    <2>3. SameProofs BY <1>8 DEF SameProofs, SubmitDagNode
    <2> QED BY <2>1, <2>2, <2>3, Accepts
  <1>9. ASSUME NEW j \in Jobs, Rollback(j) PROVE PromiseKept
    <2>1. order' = order BY <1>9 DEF Rollback
    <2>2. SameProofs BY <1>9 DEF SameProofs, Rollback
    <2>3. CASE state[j] \in Parked
      <3>1. state' = [state EXCEPT ![j] = "cancelled"] BY <1>9, <2>3 DEF Rollback
      <3>2. ~row'[j].recordOk BY <2>2, <2>3 DEF SameProofs, Unproven, Parked
      <3> QED BY <2>1, <2>2, <2>3, <3>1, <3>2, Ends DEF SameProofs, Parked, Failed
    <2>4. CASE ~(state[j] \in Parked)
      <3>1. state' = state BY <1>9, <2>4 DEF Rollback, TypeOK
      <3> QED BY <2>1, <2>2, <3>1, Stutters
    <2> QED BY <2>3, <2>4
  <1>10. ASSUME NEW j \in Jobs, KillMark(j) PROVE PromiseKept
    <2>1. order' = order /\ state' = [state EXCEPT ![j] = "cancelled"]
      BY <1>10 DEF KillMark
    <2>2. SameProofs BY <1>10 DEF SameProofs, KillMark
    <2>3. j \in Jobs /\ state[j] \in Parked \cup {"running"}
      BY <1>10 DEF KillMark, LockDiscipline, DependenciesFirst, IsLast, Terminal,
         Failed, Parked, TypeOK, States
    <2>4. ~row'[j].recordOk BY <2>2, <2>3 DEF SameProofs, Unproven, Parked
    <2>5. "cancelled" \in Failed BY DEF Failed
    <2>6. state[j] \in Parked \cup {"running"} BY <2>3 DEF Parked
    <2> QED BY <2>1, <2>2, <2>3, <2>4, <2>5, <2>6, Ends DEF SameProofs
  <1>11. ASSUME NEW j \in Jobs, ClearOne(j) PROVE PromiseKept
    <2>1. order' = order BY <1>11 DEF ClearOne
    <2>2. SameProofs BY <1>11 DEF SameProofs, ClearOne
    <2>3. CASE state[j] = "queued"
      <3>1. state' = [state EXCEPT ![j] = "cancelled"] BY <1>11, <2>3 DEF ClearOne
      <3>2. ~row'[j].recordOk BY <2>2, <2>3 DEF SameProofs, Unproven, Parked
      <3> QED BY <2>1, <2>2, <2>3, <3>1, <3>2, Ends DEF SameProofs, Parked, Failed
    <2>4. CASE ~(state[j] = "queued")
      <3>1. state' = state BY <1>11, <2>4 DEF ClearOne, TypeOK
      <3> QED BY <2>1, <2>2, <3>1, Stutters
    <2> QED BY <2>3, <2>4
  <1>12. ASSUME NEW j \in Jobs, NEW u \in AfterStop(unit[j]), KillStop(j, u)
         PROVE PromiseKept
    <2>1. order' = order /\ state' = state BY <1>12 DEF KillStop
    <2>2. SameProofs BY <1>12 DEF SameProofs, KillStop
    <2> QED BY <2>1, <2>2, Stutters
  <1> QED BY <1>1, <1>2, <1>3, <1>4, <1>5, <1>6, <1>7, <1>8, <1>9, <1>10, <1>11, <1>12
             DEF Handling

(* The promise: a step of the tick. *)
LEMMA TickKeepPromise ==
  ASSUME TypeOK, LockDiscipline, DependenciesFirst, Unproven, Tick PROVE PromiseKept
  <1>1. CASE ReapDone
    <2>1. order' = order /\ state' = state BY <1>1 DEF ReapDone
    <2>2. SameProofs BY <1>1 DEF SameProofs, ReapDone
    <2> QED BY <2>1, <2>2, Stutters
  <1>2. CASE GateDone
    <2>1. order' = order /\ state' = state BY <1>2 DEF GateDone
    <2>2. SameProofs BY <1>2 DEF SameProofs, GateDone
    <2> QED BY <2>1, <2>2, Stutters
  <1>3. CASE DispatchDone
    <2>1. order' = order /\ state' = state BY <1>3 DEF DispatchDone
    <2>2. SameProofs BY <1>3 DEF SameProofs, DispatchDone
    <2> QED BY <2>1, <2>2, Stutters
  <1>4. CASE MarkRunning
    <2>1. order' = order /\ state' = [state EXCEPT ![cur] = "running"]
      BY <1>4 DEF MarkRunning
    <2>2. SameProofs BY <1>4 DEF SameProofs, MarkRunning, TypeOK, RowType
    <2>3. cur \in Jobs /\ state[cur] = "queued" /\ DepsSatisfied(cur)
      BY <1>4 DEF MarkRunning, LockDiscipline, DependenciesFirst
    <2> QED BY <2>1, <2>2, <2>3, Starts
  <1>5. CASE PreemptRequeue
    <2>1. order' = order /\ state' = [state EXCEPT ![cur] = "queued"]
      BY <1>5 DEF PreemptRequeue
    <2>2. SameProofs BY <1>5 DEF SameProofs, PreemptRequeue, Requeued, TypeOK, RowType
    <2>3. cur \in Jobs /\ state[cur] = "running" BY <1>5 DEF PreemptRequeue,
                                                    LockDiscipline, DependenciesFirst
    <2> QED BY <2>1, <2>2, <2>3, GivesBack
  <1>6. CASE FinishMark
    <2>1. /\ cur \in Jobs /\ state[cur] = "running" /\ order' = order
          /\ state' = [state EXCEPT ![cur] = verdict.as]
      BY <1>6 DEF FinishMark, LockDiscipline
    <2>2. \A i \in Jobs \ {cur}: row'[i].recordOk = row[i].recordOk
      BY <1>6, <2>1 DEF FinishMark, TypeOK, RowType
    <2>3. row'[cur].recordOk = (verdict.as = "done")
      BY <1>6, <2>1 DEF FinishMark, TypeOK, RowType
    <2>4. verdict.as \in {"done", "failed", "timeout"}
      BY <1>6 DEF FinishMark, LockDiscipline, TypeOK, VerdictType
    <2>5. CASE verdict.as = "done" BY <2>1, <2>2, <2>3, <2>5, Completes
    <2>6. CASE verdict.as # "done" BY <2>1, <2>2, <2>3, <2>4, <2>6, Ends DEF Failed
    <2> QED BY <2>5, <2>6
  <1>7. CASE FinishRecord
    <2>1. order' = order /\ state' = state BY <1>7 DEF FinishRecord
    <2>2. SameProofs BY <1>7 DEF SameProofs, FinishRecord, TypeOK, RowType
    <2> QED BY <2>1, <2>2, Stutters
  <1>8. CASE Park
    <2>1. order' = order /\ state' = [state EXCEPT ![cur] = "awaiting_approval"]
      BY <1>8 DEF Park
    <2>2. SameProofs BY <1>8 DEF SameProofs, Park, TypeOK, RowType
    <2>3. cur \in Jobs /\ state[cur] = "running" BY <1>8 DEF Park, LockDiscipline,
                                                    DependenciesFirst
    <2> QED BY <2>1, <2>2, <2>3, Holds
  <1>9. ASSUME NEW j \in Jobs, ReapEnded(j) PROVE PromiseKept
    <2>1. order' = order /\ state' = state BY <1>9 DEF ReapEnded, ReapOver, BeginFinish
    <2>2. SameProofs BY <1>9 DEF SameProofs, ReapEnded, ReapOver, BeginFinish, TypeOK,
                        RowType
    <2> QED BY <2>1, <2>2, Stutters
  <1>10. ASSUME NEW j \in Jobs, ReapRequeue(j) PROVE PromiseKept
    <2>1. order' = order /\ state' = [state EXCEPT ![j] = "queued"]
      BY <1>10 DEF ReapRequeue
    <2>2. state[j] = "running" BY <1>10 DEF ReapRequeue, ReapOver, IsFirst,
                                  LockDiscipline
    <2>3. SameProofs
      <3>1. CASE row' = [row EXCEPT ![j].oomed = @ + 1, ![j].extra = 0,
                                    ![j].late = FALSE, ![j].later = FALSE]
        BY <3>1 DEF SameProofs, TypeOK, RowType
      <3>2. CASE row' = [row EXCEPT ![j] = Drained(@)]
        BY <3>2 DEF SameProofs, TypeOK, RowType, Drained, Requeued
      <3> QED BY <1>10, <3>1, <3>2 DEF ReapRequeue
    <2> QED BY <2>1, <2>2, <2>3, GivesBack
  <1>11. ASSUME NEW j \in Jobs, ReapLater(j) PROVE PromiseKept
    <2>1. order' = order /\ state' = state BY <1>11 DEF ReapLater
    <2>2. SameProofs BY <1>11 DEF SameProofs, ReapLater
    <2> QED BY <2>1, <2>2, Stutters
  <1>12. ASSUME NEW j \in Jobs, GateCancel(j) PROVE PromiseKept
    <2>1. order' = order /\ state' = [state EXCEPT ![j] = "cancelled"]
      BY <1>12 DEF GateCancel
    <2>2. SameProofs BY <1>12 DEF SameProofs, GateCancel
    <2>3. j \in Jobs /\ state[j] \in Parked BY <1>12 DEF GateCancel, LockDiscipline,
                                               DependenciesFirst, IsFirst, Doomed
    <2>4. ~row'[j].recordOk BY <2>2, <2>3 DEF SameProofs, Unproven, Parked
    <2>5. "cancelled" \in Failed BY DEF Failed
    <2>6. state[j] \in Parked \cup {"running"} BY <2>3 DEF Parked
    <2> QED BY <2>1, <2>2, <2>3, <2>4, <2>5, <2>6, Ends DEF SameProofs
  <1>13. ASSUME NEW j \in Jobs, GatePromote(j) PROVE PromiseKept
    <2>1. order' = order BY <1>13 DEF GatePromote
    <2>2. SameProofs BY <1>13 DEF SameProofs, GatePromote
    <2>3. \A i \in Jobs: Phase(state'[i]) = Phase(state[i])
      BY <1>13 DEF GatePromote, IsFirst, Ready, TypeOK, Phase
    <2> QED BY <2>1, <2>2, <2>3, Stutters
  <1>14. ASSUME NEW j \in Jobs, Launch(j) PROVE PromiseKept
    <2>1. order' = order /\ state' = state BY <1>14 DEF Launch
    <2>2. SameProofs BY <1>14 DEF SameProofs, Launch
    <2> QED BY <2>1, <2>2, Stutters
  <1>15. ASSUME NEW j \in Jobs, LaunchFails(j) PROVE PromiseKept
    <2>1. order' = order /\ state' = [state EXCEPT ![j] = "failed"]
      BY <1>15 DEF LaunchFails
    <2>2. state[j] \in Parked BY <1>15 DEF LaunchFails, MayStart, Parked
    <2>3. ~row'[j].recordOk /\ \A i \in Jobs \ {j}: row'[i].recordOk = row[i].recordOk
      BY <1>15 DEF LaunchFails, TypeOK, RowType
    <2> QED BY <2>1, <2>2, <2>3, Ends DEF Failed
  <1>16. ASSUME NEW j \in Jobs, NEW u \in AfterStop(unit[j]), ReapKill(j, u)
         PROVE PromiseKept
    <2>1. order' = order /\ state' = state BY <1>16 DEF ReapKill, BeginFinish
    <2>2. SameProofs BY <1>16 DEF SameProofs, ReapKill, BeginFinish, TypeOK, RowType
    <2> QED BY <2>1, <2>2, Stutters
  <1>17. ASSUME NEW j \in Jobs, NEW u \in AfterStop(unit[j]), Preempt(j, u)
         PROVE PromiseKept
    <2>1. order' = order /\ state' = state BY <1>17 DEF Preempt
    <2>2. SameProofs BY <1>17 DEF SameProofs, Preempt
    <2> QED BY <2>1, <2>2, Stutters
  <1> QED BY <1>1, <1>2, <1>3, <1>4, <1>5, <1>6, <1>7, <1>8, <1>9, <1>10, <1>11, <1>12,
             <1>13, <1>14, <1>15, <1>16, <1>17 DEF Tick

(* The promise: the reconcile. *)
LEMMA BootKeepPromise ==
  ASSUME TypeOK, LockDiscipline, DependenciesFirst, Unproven, Boot PROVE PromiseKept
  <1>1. ASSUME NEW b \in BOOLEAN, Restart(b) PROVE PromiseKept
    <2>1. order' = order /\ state' = state BY <1>1 DEF Restart
    <2>2. SameProofs BY <1>1 DEF SameProofs, Restart
    <2> QED BY <2>1, <2>2, Stutters
  <1>2. ASSUME NEW j \in Jobs, BootFinish(j) PROVE PromiseKept
    <2>1. order' = order /\ state' = state BY <1>2 DEF BootFinish, BeginFinish
    <2>2. SameProofs BY <1>2 DEF SameProofs, BootFinish, BeginFinish, TypeOK, RowType
    <2> QED BY <2>1, <2>2, Stutters
  <1>3. ASSUME NEW j \in Jobs, BootRequeue(j) PROVE PromiseKept
    <2>1. order' = order /\ state' = [state EXCEPT ![j] = "queued"]
      BY <1>3 DEF BootRequeue
    <2>2. SameProofs BY <1>3 DEF SameProofs, BootRequeue, Requeued, TypeOK, RowType
    <2>3. j \in Jobs /\ state[j] = "running" BY <1>3 DEF BootRequeue, LockDiscipline,
                                                DependenciesFirst, Orphan, IsFirst
    <2> QED BY <2>1, <2>2, <2>3, GivesBack
  <1>4. ASSUME NEW j \in Jobs, BootFail(j) PROVE PromiseKept
    <2>1. order' = order /\ state' = [state EXCEPT ![j] = "failed"]
      BY <1>4 DEF BootFail
    <2>2. SameProofs BY <1>4 DEF SameProofs, BootFail
    <2>3. j \in Jobs /\ state[j] = "running" BY <1>4 DEF BootFail, LockDiscipline,
                                                DependenciesFirst, Orphan, IsFirst
    <2>4. ~row'[j].recordOk BY <2>2, <2>3 DEF SameProofs, Unproven, Parked
    <2>5. "failed" \in Failed BY DEF Failed
    <2>6. state[j] \in Parked \cup {"running"} BY <2>3 DEF Parked
    <2> QED BY <2>1, <2>2, <2>3, <2>4, <2>5, <2>6, Ends DEF SameProofs
  <1>5. CASE BootDone
    <2>1. order' = order /\ state' = state BY <1>5 DEF BootDone
    <2>2. SameProofs BY <1>5 DEF SameProofs, BootDone
    <2> QED BY <2>1, <2>2, Stutters
  <1> QED BY <1>1, <1>2, <1>3, <1>4, <1>5 DEF Boot

(* The promise: the world outside pnd. *)
LEMMA EnvironmentKeepPromise ==
  ASSUME TypeOK, LockDiscipline, DependenciesFirst, Unproven, Environment
  PROVE PromiseKept
  <1>1. CASE PndCrash
    <2>1. order' = order /\ state' = state BY <1>1 DEF PndCrash, Crash
    <2>2. SameProofs BY <1>1 DEF SameProofs, PndCrash, Crash
    <2> QED BY <2>1, <2>2, Stutters
  <1>2. CASE BoxCrash
    <2>1. order' = order /\ state' = state BY <1>2 DEF BoxCrash, Crash
    <2>2. SameProofs BY <1>2 DEF SameProofs, BoxCrash, Crash
    <2> QED BY <2>1, <2>2, Stutters
  <1>3. ASSUME NEW j \in Jobs, NEW c \in {"none", "ok", "fail"}, UnitExit(j, c)
        PROVE PromiseKept
    <2>1. order' = order /\ state' = state BY <1>3 DEF UnitExit
    <2>2. SameProofs BY <1>3 DEF SameProofs, UnitExit
    <2> QED BY <2>1, <2>2, Stutters
  <1>4. ASSUME NEW j \in Jobs, TimeUp(j) PROVE PromiseKept
    <2>1. order' = order /\ state' = state BY <1>4 DEF TimeUp
    <2>2. SameProofs BY <1>4 DEF SameProofs, TimeUp, TypeOK, RowType
    <2> QED BY <2>1, <2>2, Stutters
  <1>5. ASSUME NEW j \in Jobs, BackoffOver(j) PROVE PromiseKept
    <2>1. order' = order /\ state' = state BY <1>5 DEF BackoffOver
    <2>2. SameProofs BY <1>5 DEF SameProofs, BackoffOver, TypeOK, RowType
    <2> QED BY <2>1, <2>2, Stutters
  <1>6. CASE Aborts
    <2>1. order' = order /\ state' = state BY <1>6 DEF Aborts
    <2>2. SameProofs BY <1>6 DEF SameProofs, Aborts
    <2> QED BY <2>1, <2>2, Stutters
  <1> QED BY <1>1, <1>2, <1>3, <1>4, <1>5, <1>6 DEF Environment

(* Every step is a step of the promise or a stutter. *)
LEMMA PromiseStep ==
  TypeOK /\ LockDiscipline /\ DependenciesFirst /\ Unproven /\ [Next]_vars => PromiseKept
  <1> SUFFICES ASSUME TypeOK, LockDiscipline, DependenciesFirst, Unproven, [Next]_vars
               PROVE PromiseKept
    OBVIOUS
  <1>1. CASE TickStart
    BY <1>1, Stutters DEF TickStart, SameProofs
  <1>2. CASE UNCHANGED vars
    BY <1>2, Stutters DEF vars, SameProofs
  <1> QED BY <1>1, <1>2, RequestsKeepPromise, HandlingKeepPromise, TickKeepPromise,
             BootKeepPromise, EnvironmentKeepPromise DEF Next

(* A step raises the record_ok flag only in the commit of the verdict done. *)
FlagWithVerdict ==
  \A j \in Jobs: row'[j].recordOk => row[j].recordOk \/ state'[j] = "done"

(* The record_ok flag: a request. *)
LEMMA RequestsFlag ==
  ASSUME TypeOK, LockDiscipline, Requests PROVE FlagWithVerdict
  <1>1. CASE SubmitDag
    BY <1>1 DEF FlagWithVerdict, TypeOK, RowType, LockDiscipline, SubmitDag
  <1>2. ASSUME NEW j \in Jobs, Submit(j) PROVE FlagWithVerdict
    BY <1>2 DEF FlagWithVerdict, TypeOK, RowType, LockDiscipline, Submit
  <1>3. ASSUME NEW j \in Jobs, ApprovePre(j) PROVE FlagWithVerdict
    BY <1>3 DEF FlagWithVerdict, TypeOK, RowType, LockDiscipline, ApprovePre
  <1>4. ASSUME NEW j \in Jobs, DenyPre(j) PROVE FlagWithVerdict
    BY <1>4 DEF FlagWithVerdict, TypeOK, RowType, LockDiscipline, DenyPre
  <1>5. ASSUME NEW j \in Jobs, ApprovePost(j) PROVE FlagWithVerdict
    BY <1>5 DEF FlagWithVerdict, TypeOK, RowType, LockDiscipline, ApprovePost
  <1>6. ASSUME NEW j \in Jobs, RejectPost(j) PROVE FlagWithVerdict
    BY <1>6 DEF FlagWithVerdict, TypeOK, RowType, LockDiscipline, RejectPost
  <1>7. ASSUME NEW j \in Jobs, Revise(j) PROVE FlagWithVerdict
    BY <1>7 DEF FlagWithVerdict, TypeOK, RowType, LockDiscipline, Revise
  <1>8. ASSUME NEW j \in Jobs, CancelQueued(j) PROVE FlagWithVerdict
    BY <1>8 DEF FlagWithVerdict, TypeOK, RowType, LockDiscipline, CancelQueued
  <1>9. ASSUME NEW j \in Jobs, Extend(j) PROVE FlagWithVerdict
    BY <1>9 DEF FlagWithVerdict, TypeOK, RowType, LockDiscipline, Extend
  <1>10. ASSUME NEW j \in Jobs, NEW u \in AfterStop(unit[j]), CancelRunning(j, u)
         PROVE FlagWithVerdict
    BY <1>10 DEF FlagWithVerdict, TypeOK, RowType, LockDiscipline, CancelRunning
  <1>11. ASSUME NEW j \in Jobs, KillUser(order[j].owner) PROVE FlagWithVerdict
    BY <1>11 DEF FlagWithVerdict, TypeOK, RowType, LockDiscipline, KillUser
  <1>12. CASE ClearQueued
    BY <1>12 DEF FlagWithVerdict, TypeOK, RowType, LockDiscipline, ClearQueued
  <1>13. ASSUME NEW p \in BOOLEAN, Pause(p) PROVE FlagWithVerdict
    BY <1>13 DEF FlagWithVerdict, TypeOK, RowType, LockDiscipline, Pause
  <1>14. ASSUME NEW j \in Jobs, ExtendByAdmin(j) PROVE FlagWithVerdict
    BY <1>14 DEF FlagWithVerdict, TypeOK, RowType, LockDiscipline, ExtendByAdmin
  <1> QED BY <1>1, <1>2, <1>3, <1>4, <1>5, <1>6, <1>7, <1>8, <1>9, <1>10, <1>11, <1>12,
             <1>13, <1>14 DEF Requests

(* The record_ok flag: the rest of a request. *)
LEMMA HandlingFlag ==
  ASSUME TypeOK, LockDiscipline, Handling PROVE FlagWithVerdict
  <1>1. CASE SubmitGate
    BY <1>1, SMTT(20) DEF FlagWithVerdict, TypeOK, RowType, LockDiscipline, SubmitGate
  <1>2. CASE SubmitDagDone
    BY <1>2 DEF FlagWithVerdict, TypeOK, RowType, LockDiscipline, SubmitDagDone
  <1>3. CASE SubmitDagRefused
    BY <1>3 DEF FlagWithVerdict, TypeOK, RowType, LockDiscipline, SubmitDagRefused
  <1>4. CASE RollbackDone
    BY <1>4 DEF FlagWithVerdict, TypeOK, RowType, LockDiscipline, RollbackDone
  <1>5. CASE CancelMark
    BY <1>5 DEF FlagWithVerdict, TypeOK, RowType, LockDiscipline, CancelMark
  <1>6. CASE VisitsDone
    BY <1>6 DEF FlagWithVerdict, TypeOK, RowType, LockDiscipline, VisitsDone
  <1>7. ASSUME NEW valid \in BOOLEAN, FinalizeApproved(valid) PROVE FlagWithVerdict
    BY <1>7 DEF FlagWithVerdict, TypeOK, RowType, LockDiscipline, FinalizeApproved
  <1>8. ASSUME NEW j \in Jobs, SubmitDagNode(j) PROVE FlagWithVerdict
    BY <1>8 DEF FlagWithVerdict, TypeOK, RowType, LockDiscipline, SubmitDagNode
  <1>9. ASSUME NEW j \in Jobs, Rollback(j) PROVE FlagWithVerdict
    BY <1>9 DEF FlagWithVerdict, TypeOK, RowType, LockDiscipline, Rollback
  <1>10. ASSUME NEW j \in Jobs, KillMark(j) PROVE FlagWithVerdict
    BY <1>10 DEF FlagWithVerdict, TypeOK, RowType, LockDiscipline, KillMark
  <1>11. ASSUME NEW j \in Jobs, ClearOne(j) PROVE FlagWithVerdict
    BY <1>11 DEF FlagWithVerdict, TypeOK, RowType, LockDiscipline, ClearOne
  <1>12. ASSUME NEW j \in Jobs, NEW u \in AfterStop(unit[j]), KillStop(j, u)
         PROVE FlagWithVerdict
    BY <1>12 DEF FlagWithVerdict, TypeOK, RowType, LockDiscipline, KillStop
  <1> QED BY <1>1, <1>2, <1>3, <1>4, <1>5, <1>6, <1>7, <1>8, <1>9, <1>10, <1>11, <1>12
             DEF Handling

(* The record_ok flag: a step of the tick. *)
LEMMA TickFlag ==
  ASSUME TypeOK, LockDiscipline, Tick PROVE FlagWithVerdict
  <1>1. CASE ReapDone
    BY <1>1 DEF FlagWithVerdict, TypeOK, RowType, LockDiscipline, ReapDone
  <1>2. CASE GateDone
    BY <1>2 DEF FlagWithVerdict, TypeOK, RowType, LockDiscipline, GateDone
  <1>3. CASE DispatchDone
    BY <1>3 DEF FlagWithVerdict, TypeOK, RowType, LockDiscipline, DispatchDone
  <1>4. CASE MarkRunning
    BY <1>4 DEF FlagWithVerdict, TypeOK, RowType, LockDiscipline, MarkRunning
  <1>5. CASE PreemptRequeue
    BY <1>5 DEF FlagWithVerdict, TypeOK, RowType, LockDiscipline, PreemptRequeue,
       Requeued
  <1>6. CASE FinishMark
    BY <1>6 DEF FlagWithVerdict, TypeOK, RowType, LockDiscipline, FinishMark
  <1>7. CASE FinishRecord
    BY <1>7 DEF FlagWithVerdict, TypeOK, RowType, LockDiscipline, FinishRecord
  <1>8. CASE Park
    BY <1>8 DEF FlagWithVerdict, TypeOK, RowType, LockDiscipline, Park
  <1>9. ASSUME NEW j \in Jobs, ReapEnded(j) PROVE FlagWithVerdict
    BY <1>9 DEF FlagWithVerdict, TypeOK, RowType, LockDiscipline, ReapEnded, BeginFinish
  <1>10. ASSUME NEW j \in Jobs, ReapRequeue(j) PROVE FlagWithVerdict
    <2>1. CASE row' = [row EXCEPT ![j].oomed = @ + 1, ![j].extra = 0,
                                  ![j].late = FALSE, ![j].later = FALSE]
      BY <2>1 DEF FlagWithVerdict, TypeOK, RowType
    <2>2. CASE row' = [row EXCEPT ![j] = Drained(@)]
      BY <2>2 DEF FlagWithVerdict, TypeOK, RowType, Drained, Requeued
    <2> QED BY <1>10, <2>1, <2>2 DEF ReapRequeue
  <1>11. ASSUME NEW j \in Jobs, ReapLater(j) PROVE FlagWithVerdict
    BY <1>11 DEF FlagWithVerdict, TypeOK, RowType, LockDiscipline, ReapLater
  <1>12. ASSUME NEW j \in Jobs, GateCancel(j) PROVE FlagWithVerdict
    BY <1>12 DEF FlagWithVerdict, TypeOK, RowType, LockDiscipline, GateCancel
  <1>13. ASSUME NEW j \in Jobs, GatePromote(j) PROVE FlagWithVerdict
    BY <1>13 DEF FlagWithVerdict, TypeOK, RowType, LockDiscipline, GatePromote
  <1>14. ASSUME NEW j \in Jobs, Launch(j) PROVE FlagWithVerdict
    BY <1>14 DEF FlagWithVerdict, TypeOK, RowType, LockDiscipline, Launch
  <1>15. ASSUME NEW j \in Jobs, LaunchFails(j) PROVE FlagWithVerdict
    BY <1>15 DEF FlagWithVerdict, TypeOK, RowType, LockDiscipline, LaunchFails
  <1>16. ASSUME NEW j \in Jobs, NEW u \in AfterStop(unit[j]), ReapKill(j, u)
         PROVE FlagWithVerdict
    BY <1>16, SMTT(20) DEF FlagWithVerdict, TypeOK, RowType, LockDiscipline, ReapKill, BeginFinish
  <1>17. ASSUME NEW j \in Jobs, NEW u \in AfterStop(unit[j]), Preempt(j, u)
         PROVE FlagWithVerdict
    BY <1>17 DEF FlagWithVerdict, TypeOK, RowType, LockDiscipline, Preempt
  <1> QED BY <1>1, <1>2, <1>3, <1>4, <1>5, <1>6, <1>7, <1>8, <1>9, <1>10, <1>11, <1>12,
             <1>13, <1>14, <1>15, <1>16, <1>17 DEF Tick

(* The record_ok flag: the reconcile. *)
LEMMA BootFlag ==
  ASSUME TypeOK, LockDiscipline, Boot PROVE FlagWithVerdict
  <1>1. ASSUME NEW b \in BOOLEAN, Restart(b) PROVE FlagWithVerdict
    BY <1>1 DEF FlagWithVerdict, TypeOK, RowType, LockDiscipline, Restart
  <1>2. ASSUME NEW j \in Jobs, BootFinish(j) PROVE FlagWithVerdict
    BY <1>2 DEF FlagWithVerdict, TypeOK, RowType, LockDiscipline, BootFinish,
       BeginFinish
  <1>3. ASSUME NEW j \in Jobs, BootRequeue(j) PROVE FlagWithVerdict
    BY <1>3 DEF FlagWithVerdict, TypeOK, RowType, LockDiscipline, BootRequeue, Requeued
  <1>4. ASSUME NEW j \in Jobs, BootFail(j) PROVE FlagWithVerdict
    BY <1>4 DEF FlagWithVerdict, TypeOK, RowType, LockDiscipline, BootFail
  <1>5. CASE BootDone
    BY <1>5 DEF FlagWithVerdict, TypeOK, RowType, LockDiscipline, BootDone
  <1> QED BY <1>1, <1>2, <1>3, <1>4, <1>5 DEF Boot

(* The record_ok flag: the world outside pnd. *)
LEMMA EnvironmentFlag ==
  ASSUME TypeOK, LockDiscipline, Environment PROVE FlagWithVerdict
  <1>1. CASE PndCrash
    BY <1>1 DEF FlagWithVerdict, TypeOK, RowType, LockDiscipline, PndCrash, Crash
  <1>2. CASE BoxCrash
    BY <1>2 DEF FlagWithVerdict, TypeOK, RowType, LockDiscipline, BoxCrash, Crash
  <1>3. ASSUME NEW j \in Jobs, NEW c \in {"none", "ok", "fail"}, UnitExit(j, c)
        PROVE FlagWithVerdict
    BY <1>3 DEF FlagWithVerdict, TypeOK, RowType, LockDiscipline, UnitExit
  <1>4. ASSUME NEW j \in Jobs, TimeUp(j) PROVE FlagWithVerdict
    BY <1>4 DEF FlagWithVerdict, TypeOK, RowType, LockDiscipline, TimeUp
  <1>5. ASSUME NEW j \in Jobs, BackoffOver(j) PROVE FlagWithVerdict
    BY <1>5 DEF FlagWithVerdict, TypeOK, RowType, LockDiscipline, BackoffOver
  <1>6. CASE Aborts
    BY <1>6 DEF FlagWithVerdict, TypeOK, RowType, LockDiscipline, Aborts
  <1> QED BY <1>1, <1>2, <1>3, <1>4, <1>5, <1>6 DEF Environment

(* A step raises the flag with the verdict. *)
LEMMA FlagStep == TypeOK /\ LockDiscipline /\ [Next]_vars => FlagWithVerdict
  <1> SUFFICES ASSUME TypeOK, LockDiscipline, [Next]_vars PROVE FlagWithVerdict
    OBVIOUS
  <1>1. CASE TickStart BY <1>1 DEF FlagWithVerdict, TickStart, In
  <1>2. CASE UNCHANGED vars BY <1>2 DEF FlagWithVerdict, vars
  <1> QED BY <1>1, <1>2, RequestsFlag, HandlingFlag, TickFlag,
             BootFlag, EnvironmentFlag DEF Next

(* Everything the refinement rests on. *)
Foundation == TypeOK /\ LockDiscipline /\ StagedAlone /\ DependenciesFirst /\ Unproven

(* It is inductive. *)
LEMMA FoundationHolds == Spec => []Foundation
  <1>1. Init => Foundation
    <2>1. Init => StagedAlone /\ DependenciesFirst
      BY DEF Init, StagedAlone, DependenciesFirst
    <2>2. Init => Unproven BY DEF Init, NewRow, Unproven
    <2> QED BY <2>1, <2>2, InitInvariant DEF Foundation
  <1>2. Foundation /\ [Next]_vars => Foundation'
    <2> SUFFICES ASSUME Foundation, [Next]_vars PROVE Foundation'
      OBVIOUS
    <2>1. TypeOK' /\ LockDiscipline' BY TypeStep, LockStep DEF Foundation
    <2>2. StagedAlone' /\ DependenciesFirst' BY DependencyStep DEF Foundation
    <2>3. VerdictsStay /\ FlagWithVerdict BY VerdictStep, FlagStep DEF Foundation
    <2>4. Unproven'
      BY <2>3 DEF Foundation, Unproven, VerdictsStay, FlagWithVerdict, Terminal
    <2> QED BY <2>1, <2>2, <2>4 DEF Foundation
  <1> QED BY <1>1, <1>2, PTL DEF Spec

(* pnd, with its lock, its commits, its crashes and its reconcile, implements the
   promise that JobPromise makes of a job, for every workload. *)
THEOREM Implements == Spec => KeepsPromise
  <1>1. Init => Promise!PInit
    <2> SUFFICES ASSUME Init PROVE Promise!PInit
      OBVIOUS
    <2>1. order \in [Jobs -> OrderType] BY WorkloadsAssumption DEF Init
    <2>2. [j \in Jobs |-> order[j].deps] \in [Jobs -> SUBSET Jobs]
      BY <2>1 DEF OrderType
    <2>3. \A j \in Jobs: Phase(state[j]) = "unknown" BY DEF Init, Phase
    <2>4. [j \in Jobs |-> Phase(state[j])] = [j \in Jobs |-> "unknown"] BY <2>3
    <2>5. {j \in Jobs: row[j].recordOk} = {} BY DEF Init, NewRow
    <2> QED BY <2>2, <2>4, <2>5 DEF Promise!PInit
  <1>2. Foundation /\ [Next]_vars =>
          [Promise!PNext]_<<[j \in Jobs |-> order[j].deps],
                            [j \in Jobs |-> Phase(state[j])],
                            {j \in Jobs: row[j].recordOk}>>
    BY PromiseStep DEF Foundation, PromiseKept, MappedDeps, MappedPhase, MappedProof
  <1> QED BY FoundationHolds, <1>1, <1>2, PTL DEF Spec, KeepsPromise, Promise!PSpec
=============================================================================
