------------------------ MODULE JobInvariant_proofs ------------------------
(***************************************************************************)
(* Proofs about JobLifecycle for any number of jobs, any workload and any  *)
(* value of the limits: the types, the lock discipline, which together are *)
(* inductive, and the finality of verdicts.                                *)
(***************************************************************************)
EXTENDS JobLifecycle, TLAPS

(* What the operations do to a job's unit keeps its type. *)
LEMMA DroppedType == ASSUME NEW u \in UnitType PROVE Dropped(u) \in UnitType
  <1>1. u.stray + u.own \in Nat /\ 0 \in 0..1 BY DEF UnitType
  <1> QED BY <1>1, ZenonT(30) DEF Dropped, UnitType

(* Stopping. *)
LEMMA AfterStopType ==
  ASSUME NEW u \in UnitType, NEW v \in AfterStop(u) PROVE v \in UnitType
  <1>1. 0 \in Nat /\ 0 \in 0..1 OBVIOUS
  <1>2. \A c \in {u.rc, "fail"}: c \in {"none", "ok", "fail"} BY DEF UnitType
  <1>3. \A c \in {"none", "ok", "fail"}:
          [u EXCEPT !.own = 0, !.stray = 0, !.rc = c] \in UnitType
    BY <1>1, ZenonT(30) DEF UnitType
  <1> QED BY <1>2, <1>3 DEF AfterStop

(* Starting. *)
LEMMA StartedType == ASSUME NEW u \in UnitType PROVE Started(u) \in UnitType
  <1>1. u.stray + u.own \in Nat /\ 1 \in 0..1 BY DEF UnitType
  <1> QED BY <1>1, ZenonT(30) DEF Started, UnitType

(* An exit. *)
LEMMA ExitedType ==
  ASSUME NEW u \in UnitType, NEW c \in {"none", "ok", "fail"}
  PROVE /\ [u EXCEPT !.own = 0, !.rc = IF c = "none" THEN @ ELSE c] \in UnitType
        /\ u.stray > 0 =>
             [u EXCEPT !.stray = @ - 1, !.rc = IF c = "none" THEN @ ELSE c] \in UnitType
  <1> DEFINE d == IF c = "none" THEN u.rc ELSE c
             n == u.stray - 1
  <1>1. d \in {"none", "ok", "fail"} /\ 0 \in 0..1 BY DEF UnitType
  <1>2. u.stray > 0 => n \in Nat BY DEF UnitType
  <1> HIDE DEF d, n
  <1>3. [u EXCEPT !.own = 0, !.rc = d] \in UnitType BY <1>1, Zenon DEF UnitType
  <1>4. n \in Nat => [u EXCEPT !.stray = n, !.rc = d] \in UnitType
    BY <1>1, Zenon DEF UnitType
  <1> QED BY <1>2, <1>3, <1>4 DEF d, n

(* A crash of the box. *)
LEMMA LeftType ==
  ASSUME NEW u \in UnitType PROVE [NoUnit EXCEPT !.rc = u.rc] \in UnitType
  <1>1. 0 \in Nat /\ 0 \in 0..1 OBVIOUS
  <1>2. NoUnit \in UnitType BY <1>1, Zenon DEF NoUnit, UnitType
  <1> QED BY <1>2, Zenon DEF UnitType

(* What the operations do to a row keeps its type. *)
LEMMA RequeuedType == ASSUME NEW r \in RowType PROVE Requeued(r) \in RowType
  <1>1. r.attempts + 1 \in Nat /\ 0 \in Nat BY DEF RowType
  <1> QED BY <1>1, ZenonT(30) DEF Requeued, RowType

(* The gates. *)
LEMMA ApprovalType ==
  ASSUME NEW r \in RowType
  PROVE /\ [r EXCEPT !.kind = "pre", !.approval = "pending"] \in RowType
        /\ [r EXCEPT !.kind = "post"] \in RowType
        /\ \A a \in {"pending", "approved", "denied", "rejected"}:
             [r EXCEPT !.approval = a] \in RowType
  BY Zenon DEF RowType

(* A revision. *)
LEMMA RevisedType ==
  ASSUME NEW r \in RowType
  PROVE [r EXCEPT !.approval = "null", !.recordOk = FALSE, !.extra = 0,
                  !.late = FALSE, !.revised = @ + 1] \in RowType
  <1> DEFINE n == r.revised + 1
  <1>1. n \in Nat /\ 0 \in Nat BY DEF RowType
  <1> HIDE DEF n
  <1>2. [r EXCEPT !.approval = "null", !.recordOk = FALSE, !.extra = 0,
                  !.late = FALSE, !.revised = n] \in RowType
    BY <1>1, Zenon DEF RowType
  <1> QED BY <1>2 DEF n

(* The flags. *)
LEMMA FlagType ==
  ASSUME NEW r \in RowType, NEW b \in BOOLEAN, NEW c \in BOOLEAN
  PROVE /\ [r EXCEPT !.record = b, !.recordOk = c] \in RowType
        /\ [r EXCEPT !.recordOk = b, !.record = c] \in RowType
        /\ [r EXCEPT !.record = b] \in RowType
        /\ [r EXCEPT !.recordOk = b] \in RowType
        /\ [r EXCEPT !.emitted = b] \in RowType
        /\ [r EXCEPT !.late = b] \in RowType
        /\ [r EXCEPT !.later = b] \in RowType
  BY Zenon DEF RowType

(* An extension. *)
LEMMA ExtendedType ==
  ASSUME NEW r \in RowType PROVE [r EXCEPT !.extra = @ + 1, !.late = FALSE] \in RowType
  <1>1. r.extra + 1 \in Nat BY DEF RowType
  <1> QED BY <1>1, Zenon DEF RowType

(* An extension beyond the cap. *)
LEMMA ExtendedByAdminType ==
  ASSUME NEW r \in RowType
  PROVE [r EXCEPT !.extra = IF @ < MaxExtend THEN @ + 1 ELSE @, !.late = FALSE] \in RowType
  <1> DEFINE n == IF r.extra < MaxExtend THEN r.extra + 1 ELSE r.extra
  <1>1. n \in Nat BY DEF RowType
  <1> HIDE DEF n
  <1>2. [r EXCEPT !.extra = n, !.late = FALSE] \in RowType BY <1>1, Zenon DEF RowType
  <1> QED BY <1>2 DEF n

(* A requeue with more memory. *)
LEMMA GrownType ==
  ASSUME NEW r \in RowType
  PROVE [r EXCEPT !.oomed = @ + 1, !.extra = 0, !.late = FALSE, !.later = FALSE] \in RowType
  <1>1. r.oomed + 1 \in Nat /\ 0 \in Nat BY DEF RowType
  <1> QED BY <1>1, Zenon DEF RowType

(* A requeue off a draining worker. *)
LEMMA DrainedType ==
  ASSUME NEW r \in RowType
  PROVE Drained(r) \in RowType
  <1>1. Requeued(r) \in RowType BY RequeuedType
  <1>2. Requeued(r).drained + 1 \in Nat BY <1>1 DEF RowType
  <1> QED BY <1>1, <1>2, Zenon DEF Drained, RowType

(* No request leaves the types. *)
LEMMA RequestsKeepTypes ==
  ASSUME TypeOK, LockDiscipline, Requests PROVE TypeOK'
  <1>1. CASE SubmitDag
    BY <1>1 DEF TypeOK, LockDiscipline, SubmitDag, States, Terminal, Failed, Parked, Ops
  <1>2. ASSUME NEW j \in Jobs, Submit(j) PROVE TypeOK'
    BY <1>2 DEF TypeOK, LockDiscipline, Submit, Insert, States, Terminal, Failed,
       Parked, Ops
  <1>3. ASSUME NEW j \in Jobs, ApprovePre(j) PROVE TypeOK'
    <2>1. row' \in [Jobs -> RowType]
      BY <1>3, ApprovalType DEF TypeOK, ApprovePre
    <2> QED BY <1>3, <2>1 DEF TypeOK, ApprovePre, States, Terminal, Failed, Parked, Ops
  <1>4. ASSUME NEW j \in Jobs, DenyPre(j) PROVE TypeOK'
    <2>1. row' \in [Jobs -> RowType]
      BY <1>4, ApprovalType DEF TypeOK, DenyPre
    <2> QED BY <1>4, <2>1 DEF TypeOK, DenyPre, States, Terminal, Failed, Parked, Ops
  <1>5. ASSUME NEW j \in Jobs, ApprovePost(j) PROVE TypeOK'
    <2>1. row' \in [Jobs -> RowType]
      BY <1>5, ApprovalType DEF TypeOK, ApprovePost
    <2> QED BY <1>5, <2>1 DEF TypeOK, ApprovePost, States, Terminal, Failed, Parked, Ops
  <1>6. ASSUME NEW j \in Jobs, RejectPost(j) PROVE TypeOK'
    <2>1. row' \in [Jobs -> RowType]
      BY <1>6, ApprovalType DEF TypeOK, RejectPost
    <2> QED BY <1>6, <2>1 DEF TypeOK, RejectPost, States, Terminal, Failed, Parked, Ops
  <1>7. ASSUME NEW j \in Jobs, Revise(j) PROVE TypeOK'
    <2>1. row' \in [Jobs -> RowType]
      BY <1>7, RevisedType DEF TypeOK, Revise
    <2> QED BY <1>7, <2>1 DEF TypeOK, Revise, States, Terminal, Failed, Parked, Ops
  <1>8. ASSUME NEW j \in Jobs, CancelQueued(j) PROVE TypeOK'
    BY <1>8 DEF TypeOK, LockDiscipline, CancelQueued, States, Terminal, Failed, Parked,
       Ops
  <1>9. ASSUME NEW j \in Jobs, Extend(j) PROVE TypeOK'
    <2>1. row' \in [Jobs -> RowType]
      BY <1>9, ExtendedType DEF TypeOK, Extend
    <2> QED BY <1>9, <2>1 DEF TypeOK, Extend, States, Terminal, Failed, Parked, Ops
  <1>10. ASSUME NEW j \in Jobs, NEW u \in AfterStop(unit[j]), CancelRunning(j, u)
         PROVE TypeOK'
    <2>2. unit' \in [Jobs -> UnitType]
      BY <1>10, AfterStopType, DroppedType DEF TypeOK, CancelRunning
    <2> QED BY <1>10, <2>2 DEF TypeOK, CancelRunning, States, Terminal, Failed, Parked,
               Ops
  <1>11. ASSUME NEW j \in Jobs, KillUser(order[j].owner) PROVE TypeOK'
    BY <1>11 DEF TypeOK, LockDiscipline, KillUser, Known, States, Terminal, Failed,
       Parked, Ops
  <1>12. CASE ClearQueued
    BY <1>12 DEF TypeOK, LockDiscipline, ClearQueued, In, States, Terminal, Failed,
       Parked, Ops
  <1>13. ASSUME NEW p \in BOOLEAN, Pause(p) PROVE TypeOK'
    BY <1>13 DEF TypeOK, LockDiscipline, Pause, States, Terminal, Failed, Parked, Ops
  <1>14. ASSUME NEW j \in Jobs, ExtendByAdmin(j) PROVE TypeOK'
    <2>1. row' \in [Jobs -> RowType]
      BY <1>14, ExtendedByAdminType DEF TypeOK, ExtendByAdmin
    <2> QED BY <1>14, <2>1 DEF TypeOK, ExtendByAdmin, States, Terminal, Failed, Parked, Ops
  <1> QED BY <1>1, <1>2, <1>3, <1>4, <1>5, <1>6, <1>7, <1>8, <1>9, <1>10, <1>11, <1>12,
             <1>13, <1>14 DEF Requests

(* Nor does what a request does after its first commit. *)
LEMMA HandlingKeepTypes ==
  ASSUME TypeOK, LockDiscipline, Handling PROVE TypeOK'
  <1>1. CASE SubmitGate
    <2>0. cur \in Jobs BY <1>1 DEF LockDiscipline, SubmitGate
    <2>1. row' \in [Jobs -> RowType]
      <3>1. CASE row' = [row EXCEPT ![cur].kind = "pre", ![cur].approval = "pending"]
        BY <2>0, <3>1, ApprovalType DEF TypeOK
      <3>2. CASE row' = [row EXCEPT ![cur].kind = "post"]
        BY <2>0, <3>2, ApprovalType DEF TypeOK
      <3> QED BY <1>1, <3>1, <3>2 DEF SubmitGate
    <2> QED BY <1>1, <2>0, <2>1 DEF TypeOK, SubmitGate, States, Terminal, Failed,
               Parked, Ops
  <1>2. CASE SubmitDagDone
    BY <1>2 DEF TypeOK, LockDiscipline, SubmitDagDone, States, Terminal, Failed, Parked,
       Ops
  <1>3. CASE SubmitDagRefused
    BY <1>3 DEF TypeOK, LockDiscipline, SubmitDagRefused, States, Terminal, Failed,
       Parked, Ops
  <1>4. CASE RollbackDone
    BY <1>4 DEF TypeOK, LockDiscipline, RollbackDone, States, Terminal, Failed, Parked,
       Ops
  <1>5. CASE CancelMark
    BY <1>5 DEF TypeOK, LockDiscipline, CancelMark, States, Terminal, Failed, Parked,
       Ops
  <1>6. CASE VisitsDone
    BY <1>6 DEF TypeOK, LockDiscipline, VisitsDone, States, Terminal, Failed, Parked,
       Ops
  <1>7. ASSUME NEW valid \in BOOLEAN, FinalizeApproved(valid) PROVE TypeOK'
    <2>0. cur \in Jobs BY <1>7 DEF LockDiscipline, FinalizeApproved
    <2>9. (row[cur].record /\ valid) \in BOOLEAN OBVIOUS
    <2>1. row' \in [Jobs -> RowType]
      BY <1>7, <2>0, FlagType, <2>9 DEF TypeOK, FinalizeApproved
    <2> QED BY <1>7, <2>0, <2>1 DEF TypeOK, FinalizeApproved, States, Terminal, Failed,
               Parked, Ops
  <1>8. ASSUME NEW j \in Jobs, SubmitDagNode(j) PROVE TypeOK'
    BY <1>8 DEF TypeOK, LockDiscipline, SubmitDagNode, Insert, States, Terminal, Failed,
       Parked, Ops
  <1>9. ASSUME NEW j \in Jobs, Rollback(j) PROVE TypeOK'
    BY <1>9 DEF TypeOK, LockDiscipline, Rollback, States, Terminal, Failed, Parked, Ops
  <1>10. ASSUME NEW j \in Jobs, KillMark(j) PROVE TypeOK'
    BY <1>10 DEF TypeOK, LockDiscipline, KillMark, States, Terminal, Failed, Parked, Ops
  <1>11. ASSUME NEW j \in Jobs, ClearOne(j) PROVE TypeOK'
    BY <1>11 DEF TypeOK, LockDiscipline, ClearOne, States, Terminal, Failed, Parked, Ops
  <1>12. ASSUME NEW j \in Jobs, NEW u \in AfterStop(unit[j]), KillStop(j, u)
         PROVE TypeOK'
    <2>2. unit' \in [Jobs -> UnitType]
      BY <1>12, AfterStopType, DroppedType DEF TypeOK, KillStop
    <2> QED BY <1>12, <2>2 DEF TypeOK, KillStop, States, Terminal, Failed, Parked, Ops
  <1> QED BY <1>1, <1>2, <1>3, <1>4, <1>5, <1>6, <1>7, <1>8, <1>9, <1>10, <1>11, <1>12
             DEF Handling

(* finalize_job's decision has its type, and the event that it may write. *)
LEMMA BeginFinishTypes ==
  ASSUME TypeOK, NEW j \in Jobs, NEW e, NEW v \in {"failed", "timeout"},
         BeginFinish(j, e, v)
  PROVE /\ row' \in [Jobs -> RowType] /\ verdict' \in VerdictType
        /\ op' \in Ops /\ cur' \in Jobs /\ todo' \in SUBSET Jobs
  <1>1. PICK committed, sent, valid \in BOOLEAN:
          /\ row' = [row EXCEPT ![j].emitted = @ \/ sent]
          /\ verdict' = [commit |-> committed,
                         as |-> IF ~(e /\ committed /\ sent /\ valid) THEN v
                                ELSE IF row[j].kind = "post" THEN "hold" ELSE "done"]
          /\ op' = "finish" /\ cur' = j /\ todo' = todo \ {j}
    BY DEF BeginFinish
  <1>2. (row[j].emitted \/ sent) \in BOOLEAN OBVIOUS
  <1>3. row' \in [Jobs -> RowType] BY <1>1, <1>2, FlagType DEF TypeOK
  <1>4. verdict' \in VerdictType BY <1>1 DEF VerdictType
  <1> QED BY <1>1, <1>3, <1>4 DEF TypeOK, Ops

(* Nor does the tick. *)
LEMMA TickKeepTypes ==
  ASSUME TypeOK, LockDiscipline, Tick PROVE TypeOK'
  <1>1. CASE ReapDone
    BY <1>1 DEF TypeOK, LockDiscipline, ReapDone, States, Terminal, Failed, Parked, Ops
  <1>2. CASE GateDone
    BY <1>2 DEF TypeOK, LockDiscipline, GateDone, States, Terminal, Failed, Parked, Ops
  <1>3. CASE DispatchDone
    BY <1>3 DEF TypeOK, LockDiscipline, DispatchDone, States, Terminal, Failed, Parked,
       Ops
  <1>4. CASE MarkRunning
    <2>0. cur \in Jobs BY <1>4 DEF LockDiscipline, MarkRunning
    <2>1. row' \in [Jobs -> RowType]
      BY <1>4, <2>0, FlagType DEF TypeOK, MarkRunning
    <2> QED BY <1>4, <2>0, <2>1 DEF TypeOK, MarkRunning, AfterLaunch, States, Terminal,
               Failed, Parked, Ops
  <1>5. CASE PreemptRequeue
    <2>0. cur \in Jobs BY <1>5 DEF LockDiscipline, PreemptRequeue
    <2>1. row' \in [Jobs -> RowType]
      BY <1>5, <2>0, RequeuedType DEF TypeOK, PreemptRequeue
    <2> QED BY <1>5, <2>0, <2>1 DEF TypeOK, PreemptRequeue, States, Terminal, Failed,
               Parked, Ops
  <1>6. CASE FinishMark
    <2>1. cur \in Jobs /\ verdict.as # "none" BY <1>6 DEF LockDiscipline, FinishMark
    <2>2. verdict.commit \in BOOLEAN /\ (verdict.as = "done") \in BOOLEAN
      BY DEF TypeOK, VerdictType
    <2>3. row' \in [Jobs -> RowType] BY <1>6, <2>1, <2>2, FlagType DEF TypeOK,
                                        FinishMark
    <2>4. unit' \in [Jobs -> UnitType] BY <1>6, <2>1, DroppedType DEF TypeOK, FinishMark
    <2>5. state' \in [Jobs -> States]
      BY <1>6, <2>1 DEF TypeOK, FinishMark, VerdictType, States, Terminal, Failed
    <2>6. verdict' \in VerdictType BY <1>6 DEF FinishMark, VerdictType, NoVerdict
    <2> QED BY <1>6, <2>3, <2>4, <2>5, <2>6 DEF TypeOK, FinishMark, Resume, Ops
  <1>7. CASE FinishRecord
    <2>1. cur \in Jobs BY <1>7 DEF LockDiscipline, FinishRecord
    <2>2. (row[cur].record \/ verdict.commit) \in BOOLEAN OBVIOUS
    <2>3. row' \in [Jobs -> RowType] BY <1>7, <2>1, <2>2, FlagType DEF TypeOK,
                                        FinishRecord
    <2> QED BY <1>7, <2>3 DEF TypeOK, FinishRecord, Ops
  <1>8. CASE Park
    <2>1. cur \in Jobs BY <1>8 DEF LockDiscipline, Park
    <2>2. row' \in [Jobs -> RowType] BY <1>8, <2>1, ApprovalType DEF TypeOK, Park
    <2>3. unit' \in [Jobs -> UnitType] BY <1>8, <2>1, DroppedType DEF TypeOK, Park
    <2>4. verdict' \in VerdictType BY <1>8 DEF Park, VerdictType, NoVerdict
    <2>5. state' \in [Jobs -> States] BY <1>8 DEF TypeOK, Park, States, Parked
    <2> QED BY <1>8, <2>2, <2>3, <2>4, <2>5 DEF TypeOK, Park, Resume, Ops
  <1>9. ASSUME NEW j \in Jobs, ReapEnded(j) PROVE TypeOK'
    BY <1>9, BeginFinishTypes DEF TypeOK, ReapEnded, ReapOver
  <1>10. ASSUME NEW j \in Jobs, ReapRequeue(j) PROVE TypeOK'
    <2>1. row' \in [Jobs -> RowType]
      <3>1. CASE row' = [row EXCEPT ![j].oomed = @ + 1, ![j].extra = 0,
                                    ![j].late = FALSE, ![j].later = FALSE]
        BY <3>1, GrownType DEF TypeOK
      <3>2. CASE row' = [row EXCEPT ![j] = Drained(@)]
        BY <3>2, DrainedType DEF TypeOK
      <3> QED BY <1>10, <3>1, <3>2 DEF ReapRequeue
    <2>2. unit' \in [Jobs -> UnitType] BY <1>10, DroppedType DEF TypeOK, ReapRequeue
    <2> QED BY <1>10, <2>1, <2>2 DEF TypeOK, ReapRequeue, ReapOver, States, Parked
  <1>11. ASSUME NEW j \in Jobs, ReapLater(j) PROVE TypeOK'
    BY <1>11 DEF TypeOK, LockDiscipline, ReapLater, States, Terminal, Failed, Parked,
       Ops
  <1>12. ASSUME NEW j \in Jobs, GateCancel(j) PROVE TypeOK'
    BY <1>12 DEF TypeOK, LockDiscipline, GateCancel, States, Terminal, Failed, Parked,
       Ops
  <1>13. ASSUME NEW j \in Jobs, GatePromote(j) PROVE TypeOK'
    BY <1>13 DEF TypeOK, LockDiscipline, GatePromote, States, Terminal, Failed, Parked,
       Ops
  <1>14. ASSUME NEW j \in Jobs, Launch(j) PROVE TypeOK'
    <2>2. unit' \in [Jobs -> UnitType]
      BY <1>14, StartedType DEF TypeOK, Launch
    <2> QED BY <1>14, <2>2 DEF TypeOK, Launch, States, Terminal, Failed, Parked, Ops
  <1>15. ASSUME NEW j \in Jobs, LaunchFails(j) PROVE TypeOK'
    <2>1. row' \in [Jobs -> RowType]
      BY <1>15, FlagType DEF TypeOK, LaunchFails
    <2> QED BY <1>15, <2>1 DEF TypeOK, LaunchFails, States, Terminal, Failed, Parked,
               Ops
  <1>16. ASSUME NEW j \in Jobs, NEW u \in AfterStop(unit[j]), ReapKill(j, u)
         PROVE TypeOK'
    <2>1. unit' \in [Jobs -> UnitType] BY <1>16, AfterStopType DEF TypeOK, ReapKill
    <2> QED BY <1>16, <2>1, BeginFinishTypes DEF TypeOK, ReapKill
  <1>17. ASSUME NEW j \in Jobs, NEW u \in AfterStop(unit[j]), Preempt(j, u)
         PROVE TypeOK'
    <2>2. unit' \in [Jobs -> UnitType]
      BY <1>17, AfterStopType, DroppedType DEF TypeOK, Preempt
    <2> QED BY <1>17, <2>2 DEF TypeOK, Preempt, States, Terminal, Failed, Parked, Ops
  <1> QED BY <1>1, <1>2, <1>3, <1>4, <1>5, <1>6, <1>7, <1>8, <1>9, <1>10, <1>11, <1>12,
             <1>13, <1>14, <1>15, <1>16, <1>17 DEF Tick

(* Nor do the restart of pnd and its reconcile. *)
LEMMA BootKeepTypes ==
  ASSUME TypeOK, LockDiscipline, Boot PROVE TypeOK'
  <1>1. ASSUME NEW b \in BOOLEAN, Restart(b) PROVE TypeOK'
    BY <1>1 DEF TypeOK, LockDiscipline, Restart, In, Alive, States, Terminal, Failed,
       Parked, Ops
  <1>2. ASSUME NEW j \in Jobs, BootFinish(j) PROVE TypeOK'
    BY <1>2, BeginFinishTypes DEF TypeOK, BootFinish
  <1>3. ASSUME NEW j \in Jobs, BootRequeue(j) PROVE TypeOK'
    <2>1. row' \in [Jobs -> RowType]
      BY <1>3, RequeuedType DEF TypeOK, BootRequeue
    <2> QED BY <1>3, <2>1 DEF TypeOK, BootRequeue, States, Terminal, Failed, Parked, Ops
  <1>4. ASSUME NEW j \in Jobs, BootFail(j) PROVE TypeOK'
    BY <1>4 DEF TypeOK, LockDiscipline, BootFail, States, Terminal, Failed, Parked, Ops
  <1>5. CASE BootDone
    BY <1>5 DEF TypeOK, LockDiscipline, BootDone, States, Terminal, Failed, Parked, Ops
  <1> QED BY <1>1, <1>2, <1>3, <1>4, <1>5 DEF Boot

(* What a crash leaves of the operation that it cuts short has its type. *)
LEMMA CrashTypes ==
  ASSUME TypeOK, Crash
  PROVE /\ order' = order /\ state' = state /\ row' = row /\ paused' = paused
        /\ op' \in Ops /\ cur' \in Jobs \cup {NoJob} /\ todo' \in SUBSET Jobs
        /\ verdict' \in VerdictType /\ booted' \in BOOLEAN /\ faults' \in Nat
  <1>1. verdict' \in VerdictType BY DEF Crash, NoVerdict, VerdictType
  <1>2. faults' \in Nat BY DEF Crash, TypeOK
  <1> QED BY <1>1, <1>2 DEF Crash, Ops

(* Nor does the world outside pnd. *)
LEMMA EnvironmentKeepTypes ==
  ASSUME TypeOK, LockDiscipline, Environment PROVE TypeOK'
  <1>1. CASE PndCrash
    <2>1. \A i \in Jobs: Dropped(unit[i]) \in UnitType BY DroppedType DEF TypeOK
    <2>2. unit' \in [Jobs -> UnitType]
      <3>1. unit' = [i \in Jobs |-> Dropped(unit[i])] BY <1>1 DEF PndCrash
      <3> QED BY <2>1, <3>1, Zenon
    <2>3. blind' \in SUBSET Jobs
      BY <1>1 DEF TypeOK, LockDiscipline, PndCrash
    <2> QED BY <1>1, <2>2, <2>3, CrashTypes DEF TypeOK, PndCrash
  <1>2. CASE BoxCrash
    <2>1. \A i \in Jobs: [NoUnit EXCEPT !.rc = unit[i].rc] \in UnitType
      BY LeftType DEF TypeOK
    <2>2. unit' \in [Jobs -> UnitType]
      <3>1. unit' = [i \in Jobs |-> [NoUnit EXCEPT !.rc = unit[i].rc]]
        BY <1>2 DEF BoxCrash
      <3> QED BY <2>1, <3>1, Zenon
    <2> QED BY <1>2, <2>2, CrashTypes DEF TypeOK, BoxCrash
  <1>3. ASSUME NEW j \in Jobs, NEW c \in {"none", "ok", "fail"}, UnitExit(j, c)
        PROVE TypeOK'
    <2>2. unit' \in [Jobs -> UnitType]
      <3>1. CASE unit' = [unit EXCEPT ![j].own = 0,
                                      ![j].rc = IF c = "none" THEN @ ELSE c]
        BY <3>1, ExitedType DEF TypeOK
      <3>2. CASE /\ unit[j].stray > 0
                 /\ unit' = [unit EXCEPT ![j].stray = @ - 1,
                                         ![j].rc = IF c = "none" THEN @ ELSE c]
        BY <3>2, ExitedType DEF TypeOK
      <3> QED BY <1>3, <3>1, <3>2 DEF UnitExit
    <2> QED BY <1>3, <2>2 DEF TypeOK, UnitExit, States, Terminal, Failed, Parked, Ops
  <1>4. ASSUME NEW j \in Jobs, TimeUp(j) PROVE TypeOK'
    <2>1. row' \in [Jobs -> RowType]
      BY <1>4, FlagType DEF TypeOK, TimeUp
    <2> QED BY <1>4, <2>1 DEF TypeOK, TimeUp, States, Terminal, Failed, Parked, Ops
  <1>5. ASSUME NEW j \in Jobs, BackoffOver(j) PROVE TypeOK'
    <2>1. row' \in [Jobs -> RowType]
      BY <1>5, FlagType DEF TypeOK, BackoffOver
    <2> QED BY <1>5, <2>1 DEF TypeOK, BackoffOver, States, Terminal, Failed, Parked, Ops
  <1>6. CASE Aborts
    <2>1. /\ order' = order /\ state' = state /\ row' = row /\ unit' = unit
          /\ booted' = booted /\ paused' = paused
          /\ op' = "idle" /\ cur' = NoJob /\ todo' = {} /\ verdict' = NoVerdict
          /\ faults' = faults + 1
      BY <1>6 DEF Aborts
    <2>2. blind' \in SUBSET Jobs BY <1>6 DEF TypeOK, LockDiscipline, Aborts
    <2>3. verdict' \in VerdictType BY <2>1 DEF NoVerdict, VerdictType
    <2> QED BY <2>1, <2>2, <2>3 DEF TypeOK, Ops
  <1> QED BY <1>1, <1>2, <1>3, <1>4, <1>5, <1>6 DEF Environment

(* A step keeps the types. *)
LEMMA TypeStep == TypeOK /\ LockDiscipline /\ [Next]_vars => TypeOK'
  <1> SUFFICES ASSUME TypeOK, LockDiscipline, [Next]_vars PROVE TypeOK'
    OBVIOUS
  <1>1. CASE TickStart BY <1>1 DEF TypeOK, TickStart, In, Ops
  <1>2. CASE UNCHANGED vars BY <1>2 DEF TypeOK, vars
  <1> QED BY <1>1, <1>2, RequestsKeepTypes, HandlingKeepTypes, TickKeepTypes,
             BootKeepTypes, EnvironmentKeepTypes DEF Next

(* No request breaks the lock discipline. *)
LEMMA RequestsKeepDiscipline ==
  ASSUME TypeOK, LockDiscipline, Requests PROVE LockDiscipline'
  <1>1. CASE SubmitDag
    BY <1>1 DEF TypeOK, LockDiscipline, Terminal, Failed, Parked, SubmitDag
  <1>2. ASSUME NEW j \in Jobs, Submit(j) PROVE LockDiscipline'
    BY <1>2 DEF TypeOK, LockDiscipline, Terminal, Failed, Parked, Submit, Insert,
       IsNext, NeedsSecondCommit, NeedsPreGate
  <1>3. ASSUME NEW j \in Jobs, ApprovePre(j) PROVE LockDiscipline'
    BY <1>3 DEF TypeOK, LockDiscipline, Terminal, Failed, Parked, ApprovePre, Resolvable
  <1>4. ASSUME NEW j \in Jobs, DenyPre(j) PROVE LockDiscipline'
    BY <1>4 DEF TypeOK, LockDiscipline, Terminal, Failed, Parked, DenyPre, Resolvable
  <1>5. ASSUME NEW j \in Jobs, ApprovePost(j) PROVE LockDiscipline'
    BY <1>5 DEF TypeOK, LockDiscipline, Terminal, Failed, Parked, ApprovePost,
       Resolvable
  <1>6. ASSUME NEW j \in Jobs, RejectPost(j) PROVE LockDiscipline'
    BY <1>6 DEF TypeOK, LockDiscipline, Terminal, Failed, Parked, RejectPost, Resolvable
  <1>7. ASSUME NEW j \in Jobs, Revise(j) PROVE LockDiscipline'
    BY <1>7 DEF TypeOK, LockDiscipline, Terminal, Failed, Parked, Revise, Resolvable
  <1>8. ASSUME NEW j \in Jobs, CancelQueued(j) PROVE LockDiscipline'
    BY <1>8 DEF TypeOK, LockDiscipline, Terminal, Failed, Parked, CancelQueued
  <1>9. ASSUME NEW j \in Jobs, Extend(j) PROVE LockDiscipline'
    BY <1>9 DEF TypeOK, LockDiscipline, Terminal, Failed, Parked, Extend
  <1>10. ASSUME NEW j \in Jobs, NEW u \in AfterStop(unit[j]), CancelRunning(j, u)
         PROVE LockDiscipline'
    BY <1>10 DEF TypeOK, LockDiscipline, Terminal, Failed, Parked, CancelRunning
  <1>11. ASSUME NEW j \in Jobs, KillUser(order[j].owner) PROVE LockDiscipline'
    BY <1>11 DEF TypeOK, LockDiscipline, Terminal, Failed, Parked, KillUser, Known
  <1>12. CASE ClearQueued
    BY <1>12 DEF TypeOK, LockDiscipline, Terminal, Failed, Parked, ClearQueued, In
  <1>13. ASSUME NEW p \in BOOLEAN, Pause(p) PROVE LockDiscipline'
    BY <1>13 DEF TypeOK, LockDiscipline, Terminal, Failed, Parked, Pause
  <1>14. ASSUME NEW j \in Jobs, ExtendByAdmin(j) PROVE LockDiscipline'
    BY <1>14 DEF TypeOK, LockDiscipline, Terminal, Failed, Parked, ExtendByAdmin
  <1> QED BY <1>1, <1>2, <1>3, <1>4, <1>5, <1>6, <1>7, <1>8, <1>9, <1>10, <1>11, <1>12,
             <1>13, <1>14 DEF Requests

(* Nor does what a request does after its first commit. *)
LEMMA HandlingKeepDiscipline ==
  ASSUME TypeOK, LockDiscipline, Handling PROVE LockDiscipline'
  <1>1. CASE SubmitGate
    BY <1>1 DEF TypeOK, LockDiscipline, Terminal, Failed, Parked, SubmitGate
  <1>2. CASE SubmitDagDone
    BY <1>2 DEF TypeOK, LockDiscipline, Terminal, Failed, Parked, SubmitDagDone
  <1>3. CASE SubmitDagRefused
    BY <1>3 DEF TypeOK, LockDiscipline, Terminal, Failed, Parked, SubmitDagRefused
  <1>4. CASE RollbackDone
    BY <1>4 DEF TypeOK, LockDiscipline, Terminal, Failed, Parked, RollbackDone
  <1>5. CASE CancelMark
    BY <1>5 DEF TypeOK, LockDiscipline, Terminal, Failed, Parked, CancelMark
  <1>6. CASE VisitsDone
    BY <1>6 DEF TypeOK, LockDiscipline, Terminal, Failed, Parked, VisitsDone
  <1>7. ASSUME NEW valid \in BOOLEAN, FinalizeApproved(valid) PROVE LockDiscipline'
    BY <1>7 DEF TypeOK, LockDiscipline, Terminal, Failed, Parked, FinalizeApproved
  <1>8. ASSUME NEW j \in Jobs, SubmitDagNode(j) PROVE LockDiscipline'
    BY <1>8 DEF TypeOK, LockDiscipline, Terminal, Failed, Parked, SubmitDagNode, Insert,
       IsNext
  <1>9. ASSUME NEW j \in Jobs, Rollback(j) PROVE LockDiscipline'
    BY <1>9 DEF TypeOK, LockDiscipline, Terminal, Failed, Parked, Rollback
  <1>10. ASSUME NEW j \in Jobs, KillMark(j) PROVE LockDiscipline'
    BY <1>10 DEF TypeOK, LockDiscipline, Terminal, Failed, Parked, KillMark, IsLast
  <1>11. ASSUME NEW j \in Jobs, ClearOne(j) PROVE LockDiscipline'
    BY <1>11 DEF TypeOK, LockDiscipline, Terminal, Failed, Parked, ClearOne
  <1>12. ASSUME NEW j \in Jobs, NEW u \in AfterStop(unit[j]), KillStop(j, u)
         PROVE LockDiscipline'
    BY <1>12 DEF TypeOK, LockDiscipline, Terminal, Failed, Parked, KillStop, IsLast
  <1> QED BY <1>1, <1>2, <1>3, <1>4, <1>5, <1>6, <1>7, <1>8, <1>9, <1>10, <1>11, <1>12
             DEF Handling

(* Nor does the tick. *)
LEMMA TickKeepDiscipline ==
  ASSUME TypeOK, LockDiscipline, Tick PROVE LockDiscipline'
  <1>1. CASE ReapDone
    BY <1>1 DEF TypeOK, LockDiscipline, Terminal, Failed, Parked, ReapDone
  <1>2. CASE GateDone
    BY <1>2 DEF TypeOK, LockDiscipline, Terminal, Failed, Parked, GateDone
  <1>3. CASE DispatchDone
    BY <1>3 DEF TypeOK, LockDiscipline, Terminal, Failed, Parked, DispatchDone
  <1>4. CASE MarkRunning
    BY <1>4 DEF TypeOK, LockDiscipline, Terminal, Failed, Parked, MarkRunning,
       AfterLaunch
  <1>5. CASE PreemptRequeue
    BY <1>5 DEF TypeOK, LockDiscipline, Terminal, Failed, Parked, PreemptRequeue
  <1>6. CASE FinishMark
    BY <1>6 DEF TypeOK, LockDiscipline, Terminal, Failed, Parked, FinishMark, Resume
  <1>7. CASE FinishRecord
    BY <1>7 DEF TypeOK, LockDiscipline, Terminal, Failed, Parked, FinishRecord
  <1>8. CASE Park
    BY <1>8 DEF TypeOK, LockDiscipline, Terminal, Failed, Parked, Park, Resume
  <1>9. ASSUME NEW j \in Jobs, ReapEnded(j) PROVE LockDiscipline'
    BY <1>9 DEF TypeOK, LockDiscipline, Terminal, Failed, Parked, ReapEnded, ReapOver,
       IsFirst, BeginFinish
  <1>10. ASSUME NEW j \in Jobs, ReapRequeue(j) PROVE LockDiscipline'
    BY <1>10 DEF TypeOK, LockDiscipline, Terminal, Failed, Parked, ReapRequeue,
       ReapOver, IsFirst
  <1>11. ASSUME NEW j \in Jobs, ReapLater(j) PROVE LockDiscipline'
    BY <1>11 DEF TypeOK, LockDiscipline, Terminal, Failed, Parked, ReapLater
  <1>12. ASSUME NEW j \in Jobs, GateCancel(j) PROVE LockDiscipline'
    BY <1>12 DEF TypeOK, LockDiscipline, Terminal, Failed, Parked, GateCancel
  <1>13. ASSUME NEW j \in Jobs, GatePromote(j) PROVE LockDiscipline'
    BY <1>13 DEF TypeOK, LockDiscipline, Terminal, Failed, Parked, GatePromote
  <1>14. ASSUME NEW j \in Jobs, Launch(j) PROVE LockDiscipline'
    BY <1>14 DEF TypeOK, LockDiscipline, Terminal, Failed, Parked, Launch, MayStart
  <1>15. ASSUME NEW j \in Jobs, LaunchFails(j) PROVE LockDiscipline'
    BY <1>15 DEF TypeOK, LockDiscipline, Terminal, Failed, Parked, LaunchFails, MayStart
  <1>16. ASSUME NEW j \in Jobs, NEW u \in AfterStop(unit[j]), ReapKill(j, u)
         PROVE LockDiscipline'
    BY <1>16 DEF TypeOK, LockDiscipline, Terminal, Failed, Parked, ReapKill, IsFirst,
       BeginFinish
  <1>17. ASSUME NEW j \in Jobs, NEW u \in AfterStop(unit[j]), Preempt(j, u)
         PROVE LockDiscipline'
    BY <1>17 DEF TypeOK, LockDiscipline, Terminal, Failed, Parked, Preempt
  <1> QED BY <1>1, <1>2, <1>3, <1>4, <1>5, <1>6, <1>7, <1>8, <1>9, <1>10, <1>11, <1>12,
             <1>13, <1>14, <1>15, <1>16, <1>17 DEF Tick

(* Nor do the restart of pnd and its reconcile. *)
LEMMA BootKeepDiscipline ==
  ASSUME TypeOK, LockDiscipline, Boot PROVE LockDiscipline'
  <1>1. ASSUME NEW b \in BOOLEAN, Restart(b) PROVE LockDiscipline'
    BY <1>1 DEF TypeOK, LockDiscipline, Terminal, Failed, Parked, Restart, In
  <1>2. ASSUME NEW j \in Jobs, BootFinish(j) PROVE LockDiscipline'
    BY <1>2 DEF TypeOK, LockDiscipline, Terminal, Failed, Parked, BootFinish, IsFirst,
       BeginFinish
  <1>3. ASSUME NEW j \in Jobs, BootRequeue(j) PROVE LockDiscipline'
    BY <1>3 DEF TypeOK, LockDiscipline, Terminal, Failed, Parked, BootRequeue, Orphan
  <1>4. ASSUME NEW j \in Jobs, BootFail(j) PROVE LockDiscipline'
    BY <1>4 DEF TypeOK, LockDiscipline, Terminal, Failed, Parked, BootFail, Orphan
  <1>5. CASE BootDone
    BY <1>5 DEF TypeOK, LockDiscipline, Terminal, Failed, Parked, BootDone
  <1> QED BY <1>1, <1>2, <1>3, <1>4, <1>5 DEF Boot

(* Nor does the world outside pnd. *)
LEMMA EnvironmentKeepDiscipline ==
  ASSUME TypeOK, LockDiscipline, Environment PROVE LockDiscipline'
  <1>1. CASE PndCrash
    BY <1>1 DEF TypeOK, LockDiscipline, Terminal, Failed, Parked, PndCrash, Crash
  <1>2. CASE BoxCrash
    BY <1>2 DEF TypeOK, LockDiscipline, Terminal, Failed, Parked, BoxCrash, Crash
  <1>3. ASSUME NEW j \in Jobs, NEW c \in {"none", "ok", "fail"}, UnitExit(j, c)
        PROVE LockDiscipline'
    BY <1>3 DEF TypeOK, LockDiscipline, Terminal, Failed, Parked, UnitExit
  <1>4. ASSUME NEW j \in Jobs, TimeUp(j) PROVE LockDiscipline'
    BY <1>4 DEF TypeOK, LockDiscipline, Terminal, Failed, Parked, TimeUp
  <1>5. ASSUME NEW j \in Jobs, BackoffOver(j) PROVE LockDiscipline'
    BY <1>5 DEF TypeOK, LockDiscipline, Terminal, Failed, Parked, BackoffOver
  <1>6. CASE Aborts
    BY <1>6 DEF TypeOK, LockDiscipline, Terminal, Failed, Parked, Aborts
  <1> QED BY <1>1, <1>2, <1>3, <1>4, <1>5, <1>6 DEF Environment

(* A step keeps the lock discipline. *)
LEMMA LockStep == TypeOK /\ LockDiscipline /\ [Next]_vars => LockDiscipline'
  <1> SUFFICES ASSUME TypeOK, LockDiscipline, [Next]_vars PROVE LockDiscipline'
    OBVIOUS
  <1>1. CASE TickStart BY <1>1 DEF TypeOK, LockDiscipline, TickStart, In
  <1>2. CASE UNCHANGED vars BY <1>2 DEF LockDiscipline, vars
  <1> QED BY <1>1, <1>2, RequestsKeepDiscipline, HandlingKeepDiscipline,
             TickKeepDiscipline, BootKeepDiscipline, EnvironmentKeepDiscipline DEF Next

(* In the initial states nothing is under way. *)
LEMMA InitInvariant == Init => TypeOK /\ LockDiscipline
  <1> SUFFICES ASSUME Init PROVE TypeOK /\ LockDiscipline
    OBVIOUS
  <1>1. 0 \in Nat /\ 0 \in 0..1 OBVIOUS
  <1>2. NewRow \in RowType BY <1>1, Zenon DEF NewRow, RowType
  <1>3. NoUnit \in UnitType BY <1>1, Zenon DEF NoUnit, UnitType
  <1>4. order \in [Jobs -> OrderType] BY WorkloadsAssumption DEF Init
  <1>5. row \in [Jobs -> RowType] BY <1>2 DEF Init
  <1>6. unit \in [Jobs -> UnitType] BY <1>3 DEF Init
  <1>7. verdict \in VerdictType BY DEF Init, NoVerdict, VerdictType
  <1>8. TypeOK BY <1>4, <1>5, <1>6, <1>7 DEF Init, TypeOK, States, Ops
  <1>9. LockDiscipline BY DEF Init, LockDiscipline
  <1> QED BY <1>8, <1>9

(* The types and the lock discipline hold together: whatever the operation that
   holds the lock read some commits ago about its job is still so. *)
LEMMA Invariant == Spec => [](TypeOK /\ LockDiscipline)
  <1>1. TypeOK /\ LockDiscipline /\ [Next]_vars => (TypeOK /\ LockDiscipline)'
    BY TypeStep, LockStep
  <1> QED BY InitInvariant, <1>1, PTL DEF Spec

(* Every reachable state has its type: among others, attempts, revisions and
   extensions never go below zero, and pnd's handle stands for at most one
   process of the job. *)
THEOREM TypeCorrect == Spec => []TypeOK
  BY Invariant, PTL

(* One lock around requests and ticks is enough: between two commits of an
   operation, the job it works on is never moved by another one. *)
THEOREM LockHeld == Spec => []LockDiscipline
  BY Invariant, PTL

-----------------------------------------------------------------------------
(* Verdicts *)

VerdictsStay == \A j \in Jobs: state[j] \in Terminal => state'[j] = state[j]

(* The verdicts stay: a request. *)
LEMMA RequestsKeepVerdicts ==
  ASSUME TypeOK, LockDiscipline, Requests PROVE VerdictsStay
  <1>1. CASE SubmitDag
    BY <1>1 DEF VerdictsStay, TypeOK, LockDiscipline, Terminal, Failed, Parked,
       SubmitDag
  <1>2. ASSUME NEW j \in Jobs, Submit(j) PROVE VerdictsStay
    BY <1>2 DEF VerdictsStay, TypeOK, LockDiscipline, Terminal, Failed, Parked, Submit,
       Insert, IsNext, NeedsSecondCommit, NeedsPreGate
  <1>3. ASSUME NEW j \in Jobs, ApprovePre(j) PROVE VerdictsStay
    BY <1>3 DEF VerdictsStay, TypeOK, LockDiscipline, Terminal, Failed, Parked,
       ApprovePre, Resolvable
  <1>4. ASSUME NEW j \in Jobs, DenyPre(j) PROVE VerdictsStay
    BY <1>4 DEF VerdictsStay, TypeOK, LockDiscipline, Terminal, Failed, Parked, DenyPre,
       Resolvable
  <1>5. ASSUME NEW j \in Jobs, ApprovePost(j) PROVE VerdictsStay
    BY <1>5 DEF VerdictsStay, TypeOK, LockDiscipline, Terminal, Failed, Parked,
       ApprovePost, Resolvable
  <1>6. ASSUME NEW j \in Jobs, RejectPost(j) PROVE VerdictsStay
    BY <1>6 DEF VerdictsStay, TypeOK, LockDiscipline, Terminal, Failed, Parked,
       RejectPost, Resolvable
  <1>7. ASSUME NEW j \in Jobs, Revise(j) PROVE VerdictsStay
    BY <1>7 DEF VerdictsStay, TypeOK, LockDiscipline, Terminal, Failed, Parked, Revise,
       Resolvable
  <1>8. ASSUME NEW j \in Jobs, CancelQueued(j) PROVE VerdictsStay
    BY <1>8 DEF VerdictsStay, TypeOK, LockDiscipline, Terminal, Failed, Parked,
       CancelQueued
  <1>9. ASSUME NEW j \in Jobs, Extend(j) PROVE VerdictsStay
    BY <1>9 DEF VerdictsStay, TypeOK, LockDiscipline, Terminal, Failed, Parked, Extend
  <1>10. ASSUME NEW j \in Jobs, NEW u \in AfterStop(unit[j]), CancelRunning(j, u)
         PROVE VerdictsStay
    BY <1>10 DEF VerdictsStay, TypeOK, LockDiscipline, Terminal, Failed, Parked,
       CancelRunning
  <1>11. ASSUME NEW j \in Jobs, KillUser(order[j].owner) PROVE VerdictsStay
    BY <1>11 DEF VerdictsStay, TypeOK, LockDiscipline, Terminal, Failed, Parked,
       KillUser, Known
  <1>12. CASE ClearQueued
    BY <1>12 DEF VerdictsStay, TypeOK, LockDiscipline, Terminal, Failed, Parked,
       ClearQueued, In
  <1>13. ASSUME NEW p \in BOOLEAN, Pause(p) PROVE VerdictsStay
    BY <1>13 DEF VerdictsStay, TypeOK, LockDiscipline, Terminal, Failed, Parked, Pause
  <1>14. ASSUME NEW j \in Jobs, ExtendByAdmin(j) PROVE VerdictsStay
    BY <1>14 DEF VerdictsStay, TypeOK, LockDiscipline, Terminal, Failed, Parked, ExtendByAdmin
  <1> QED BY <1>1, <1>2, <1>3, <1>4, <1>5, <1>6, <1>7, <1>8, <1>9, <1>10, <1>11, <1>12,
             <1>13, <1>14 DEF Requests

(* The verdicts stay: the rest of a request. *)
LEMMA HandlingKeepVerdicts ==
  ASSUME TypeOK, LockDiscipline, Handling PROVE VerdictsStay
  <1>1. CASE SubmitGate
    BY <1>1 DEF VerdictsStay, TypeOK, LockDiscipline, Terminal, Failed, Parked,
       SubmitGate
  <1>2. CASE SubmitDagDone
    BY <1>2 DEF VerdictsStay, TypeOK, LockDiscipline, Terminal, Failed, Parked,
       SubmitDagDone
  <1>3. CASE SubmitDagRefused
    BY <1>3 DEF VerdictsStay, TypeOK, LockDiscipline, Terminal, Failed, Parked,
       SubmitDagRefused
  <1>4. CASE RollbackDone
    BY <1>4 DEF VerdictsStay, TypeOK, LockDiscipline, Terminal, Failed, Parked,
       RollbackDone
  <1>5. CASE CancelMark
    BY <1>5 DEF VerdictsStay, TypeOK, LockDiscipline, Terminal, Failed, Parked,
       CancelMark
  <1>6. CASE VisitsDone
    BY <1>6 DEF VerdictsStay, TypeOK, LockDiscipline, Terminal, Failed, Parked,
       VisitsDone
  <1>7. ASSUME NEW valid \in BOOLEAN, FinalizeApproved(valid) PROVE VerdictsStay
    BY <1>7 DEF VerdictsStay, TypeOK, LockDiscipline, Terminal, Failed, Parked,
       FinalizeApproved
  <1>8. ASSUME NEW j \in Jobs, SubmitDagNode(j) PROVE VerdictsStay
    BY <1>8 DEF VerdictsStay, TypeOK, LockDiscipline, Terminal, Failed, Parked,
       SubmitDagNode, Insert, IsNext
  <1>9. ASSUME NEW j \in Jobs, Rollback(j) PROVE VerdictsStay
    BY <1>9 DEF VerdictsStay, TypeOK, LockDiscipline, Terminal, Failed, Parked, Rollback
  <1>10. ASSUME NEW j \in Jobs, KillMark(j) PROVE VerdictsStay
    BY <1>10 DEF VerdictsStay, TypeOK, LockDiscipline, Terminal, Failed, Parked,
       KillMark, IsLast
  <1>11. ASSUME NEW j \in Jobs, ClearOne(j) PROVE VerdictsStay
    BY <1>11 DEF VerdictsStay, TypeOK, LockDiscipline, Terminal, Failed, Parked,
       ClearOne
  <1>12. ASSUME NEW j \in Jobs, NEW u \in AfterStop(unit[j]), KillStop(j, u)
         PROVE VerdictsStay
    BY <1>12 DEF VerdictsStay, TypeOK, LockDiscipline, Terminal, Failed, Parked,
       KillStop, IsLast
  <1> QED BY <1>1, <1>2, <1>3, <1>4, <1>5, <1>6, <1>7, <1>8, <1>9, <1>10, <1>11, <1>12
             DEF Handling

(* The verdicts stay: a step of the tick. *)
LEMMA TickKeepVerdicts ==
  ASSUME TypeOK, LockDiscipline, Tick PROVE VerdictsStay
  <1>1. CASE ReapDone
    BY <1>1 DEF VerdictsStay, TypeOK, LockDiscipline, Terminal, Failed, Parked, ReapDone
  <1>2. CASE GateDone
    BY <1>2 DEF VerdictsStay, TypeOK, LockDiscipline, Terminal, Failed, Parked, GateDone
  <1>3. CASE DispatchDone
    BY <1>3 DEF VerdictsStay, TypeOK, LockDiscipline, Terminal, Failed, Parked,
       DispatchDone
  <1>4. CASE MarkRunning
    BY <1>4 DEF VerdictsStay, TypeOK, LockDiscipline, Terminal, Failed, Parked,
       MarkRunning, AfterLaunch
  <1>5. CASE PreemptRequeue
    BY <1>5 DEF VerdictsStay, TypeOK, LockDiscipline, Terminal, Failed, Parked,
       PreemptRequeue
  <1>6. CASE FinishMark
    BY <1>6 DEF VerdictsStay, TypeOK, LockDiscipline, Terminal, Failed, Parked,
       FinishMark, Resume
  <1>7. CASE FinishRecord
    BY <1>7 DEF VerdictsStay, TypeOK, LockDiscipline, Terminal, Failed, Parked,
       FinishRecord
  <1>8. CASE Park
    BY <1>8 DEF VerdictsStay, TypeOK, LockDiscipline, Terminal, Failed, Parked, Park,
       Resume
  <1>9. ASSUME NEW j \in Jobs, ReapEnded(j) PROVE VerdictsStay
    BY <1>9 DEF VerdictsStay, TypeOK, LockDiscipline, Terminal, Failed, Parked,
       ReapEnded, ReapOver, IsFirst, BeginFinish
  <1>10. ASSUME NEW j \in Jobs, ReapRequeue(j) PROVE VerdictsStay
    BY <1>10 DEF VerdictsStay, TypeOK, LockDiscipline, Terminal, Failed, Parked,
       ReapRequeue, ReapOver, IsFirst
  <1>11. ASSUME NEW j \in Jobs, ReapLater(j) PROVE VerdictsStay
    BY <1>11 DEF VerdictsStay, TypeOK, LockDiscipline, Terminal, Failed, Parked,
       ReapLater
  <1>12. ASSUME NEW j \in Jobs, GateCancel(j) PROVE VerdictsStay
    BY <1>12 DEF VerdictsStay, TypeOK, LockDiscipline, Terminal, Failed, Parked,
       GateCancel, IsFirst, Doomed
  <1>13. ASSUME NEW j \in Jobs, GatePromote(j) PROVE VerdictsStay
    BY <1>13 DEF VerdictsStay, TypeOK, LockDiscipline, Terminal, Failed, Parked,
       GatePromote, IsFirst, Ready
  <1>14. ASSUME NEW j \in Jobs, Launch(j) PROVE VerdictsStay
    BY <1>14 DEF VerdictsStay, TypeOK, LockDiscipline, Terminal, Failed, Parked, Launch,
       MayStart
  <1>15. ASSUME NEW j \in Jobs, LaunchFails(j) PROVE VerdictsStay
    BY <1>15 DEF VerdictsStay, TypeOK, LockDiscipline, Terminal, Failed, Parked,
       LaunchFails, MayStart
  <1>16. ASSUME NEW j \in Jobs, NEW u \in AfterStop(unit[j]), ReapKill(j, u)
         PROVE VerdictsStay
    BY <1>16 DEF VerdictsStay, TypeOK, LockDiscipline, Terminal, Failed, Parked,
       ReapKill, IsFirst, BeginFinish
  <1>17. ASSUME NEW j \in Jobs, NEW u \in AfterStop(unit[j]), Preempt(j, u)
         PROVE VerdictsStay
    BY <1>17 DEF VerdictsStay, TypeOK, LockDiscipline, Terminal, Failed, Parked, Preempt
  <1> QED BY <1>1, <1>2, <1>3, <1>4, <1>5, <1>6, <1>7, <1>8, <1>9, <1>10, <1>11, <1>12,
             <1>13, <1>14, <1>15, <1>16, <1>17 DEF Tick

(* The verdicts stay: the reconcile. *)
LEMMA BootKeepVerdicts ==
  ASSUME TypeOK, LockDiscipline, Boot PROVE VerdictsStay
  <1>1. ASSUME NEW b \in BOOLEAN, Restart(b) PROVE VerdictsStay
    BY <1>1 DEF VerdictsStay, TypeOK, LockDiscipline, Terminal, Failed, Parked, Restart,
       In
  <1>2. ASSUME NEW j \in Jobs, BootFinish(j) PROVE VerdictsStay
    BY <1>2 DEF VerdictsStay, TypeOK, LockDiscipline, Terminal, Failed, Parked,
       BootFinish, IsFirst, BeginFinish
  <1>3. ASSUME NEW j \in Jobs, BootRequeue(j) PROVE VerdictsStay
    BY <1>3 DEF VerdictsStay, TypeOK, LockDiscipline, Terminal, Failed, Parked,
       BootRequeue, Orphan, IsFirst
  <1>4. ASSUME NEW j \in Jobs, BootFail(j) PROVE VerdictsStay
    BY <1>4 DEF VerdictsStay, TypeOK, LockDiscipline, Terminal, Failed, Parked,
       BootFail, Orphan, IsFirst
  <1>5. CASE BootDone
    BY <1>5 DEF VerdictsStay, TypeOK, LockDiscipline, Terminal, Failed, Parked, BootDone
  <1> QED BY <1>1, <1>2, <1>3, <1>4, <1>5 DEF Boot

(* The verdicts stay: the world outside pnd. *)
LEMMA EnvironmentKeepVerdicts ==
  ASSUME TypeOK, LockDiscipline, Environment PROVE VerdictsStay
  <1>1. CASE PndCrash
    BY <1>1 DEF VerdictsStay, TypeOK, LockDiscipline, Terminal, Failed, Parked,
       PndCrash, Crash
  <1>2. CASE BoxCrash
    BY <1>2 DEF VerdictsStay, TypeOK, LockDiscipline, Terminal, Failed, Parked,
       BoxCrash, Crash
  <1>3. ASSUME NEW j \in Jobs, NEW c \in {"none", "ok", "fail"}, UnitExit(j, c)
        PROVE VerdictsStay
    BY <1>3 DEF VerdictsStay, TypeOK, LockDiscipline, Terminal, Failed, Parked, UnitExit
  <1>4. ASSUME NEW j \in Jobs, TimeUp(j) PROVE VerdictsStay
    BY <1>4 DEF VerdictsStay, TypeOK, LockDiscipline, Terminal, Failed, Parked, TimeUp
  <1>5. ASSUME NEW j \in Jobs, BackoffOver(j) PROVE VerdictsStay
    BY <1>5 DEF VerdictsStay, TypeOK, LockDiscipline, Terminal, Failed, Parked,
       BackoffOver
  <1>6. CASE Aborts
    BY <1>6 DEF VerdictsStay, TypeOK, LockDiscipline, Terminal, Failed, Parked,
       Aborts
  <1> QED BY <1>1, <1>2, <1>3, <1>4, <1>5, <1>6 DEF Environment

(* A step keeps the verdicts. *)
LEMMA VerdictStep == TypeOK /\ LockDiscipline /\ [Next]_vars => VerdictsStay
  <1> SUFFICES ASSUME TypeOK, LockDiscipline, [Next]_vars PROVE VerdictsStay
    OBVIOUS
  <1>1. CASE TickStart BY <1>1 DEF VerdictsStay, TickStart, In
  <1>2. CASE UNCHANGED vars BY <1>2 DEF VerdictsStay, vars
  <1> QED BY <1>1, <1>2, RequestsKeepVerdicts, HandlingKeepVerdicts, TickKeepVerdicts,
             BootKeepVerdicts, EnvironmentKeepVerdicts DEF Next

(* A terminal verdict is never overwritten, in any interleaving of requests,
   ticks, crashes and reconciles and for any DAG of jobs. *)
THEOREM VerdictsFinal == Spec => TerminalIsFinal
  <1>1. TypeOK /\ LockDiscipline /\ [Next]_vars =>
          [\A j \in Jobs: state[j] \in Terminal => state'[j] = state[j]]_vars
    BY VerdictStep DEF VerdictsStay
  <1> QED BY Invariant, <1>1, PTL DEF Spec, TerminalIsFinal

=============================================================================
