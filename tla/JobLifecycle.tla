---------------------------- MODULE JobLifecycle ----------------------------
(***************************************************************************)
(* The life of a job in the portioneer: the daemon tools/pnd over the      *)
(* SQLite store pnlib/db.py.                                               *)
(*                                                                         *)
(* pnd serialises its request handlers and its scheduler tick with one     *)
(* lock, so at any moment at most one operation is under way; op names it. *)
(* An operation is a sequence of database commits and of effects on the    *)
(* operating system, and pnd may die between any two of them, or catch an  *)
(* exception there and go on: a step of the model is one commit, op and    *)
(* its companions say where in the operation pnd stands, and Crash and     *)
(* Aborts forget them.  What survives a crash is the database (state, row, *)
(* paused) and the operating system's units (unit).                        *)
(*                                                                         *)
(* Abstracted: who may call what (the handlers' authorisation only narrows *)
(* the enabled requests), the resource arithmetic of sched.evaluate (a     *)
(* queued job may or may not fit at any tick), priorities, events other    *)
(* than "result", and sessions.  The LLM leases that the same handlers     *)
(* take and give back are the subject of module LlmLease.                  *)
(***************************************************************************)
EXTENDS Naturals, FiniteSets

CONSTANTS
  Jobs,              \* job ids: numbers, given out in increasing order
  Workloads,         \* the workloads: functions from Jobs to OrderType
  MaxRetries,        \* profile.max_retries
  MaxRevise,         \* jobs.revise_max
  MaxOomRetries,     \* profile.max_oom_retries
  MaxDrainRequeues,  \* PN_DRAIN_REQUEUE
  MaxExtend,         \* profile.max_extend_s, in extensions
  MaxAttempts,       \* model bound: no preemption beyond that many attempts
  MaxFaults,         \* model bound: crashes, and operations that an exception ended
  StatusMayTimeOut   \* can a query of the unit's status go unanswered?

(* A job id is never 0, which stands for "no job". *)
NoJob == 0

OrderType ==
  [deps: SUBSET Jobs,                    \* jobs that must be done first
   policy: {"none", "pre", "post"},      \* effective approval ("checkpoint" is "post")
   confirm: BOOLEAN,                     \* needs_confirmation
   filler: BOOLEAN,                      \* source = 'filler'
   idem: BOOLEAN,                        \* profile.idempotent
   grows: BOOLEAN,                       \* profile.oom_grow
   remote: BOOLEAN,                      \* runs on a worker node
   owner: STRING]                        \* submitter_principal

ASSUME JobsAssumption == Jobs \subseteq Nat \ {NoJob}
ASSUME WorkloadsAssumption == Workloads \subseteq [Jobs -> OrderType]
ASSUME BoundsAssumption ==
  /\ {MaxRetries, MaxRevise, MaxOomRetries, MaxDrainRequeues} \subseteq Nat
  /\ {MaxExtend, MaxAttempts, MaxFaults} \subseteq Nat
  /\ StatusMayTimeOut \in BOOLEAN

VARIABLES
  order,    \* what each job asks for (fixed by the submission)
  state,    \* the column jobs.state, "absent" before the insert
  row,      \* the other columns of the job's row that decide anything
  unit,     \* the job's processes, its rc file and pnd's handle on them
  op,       \* the operation that holds the lock
  cur,      \* the job that operation is working on, or NoJob
  todo,     \* the jobs it still has to visit
  verdict,  \* finalize_job's decision and its record, before they are committed
  booted,   \* reconcile has ended since the start of this pnd
  paused,   \* admission_paused
  faults,   \* crashes, and operations that an exception ended, so far
  blind     \* history: jobs of which pnd lost a living process from sight, or
            \* whose start it failed to record

vars == <<order, state, row, unit, op, cur, todo, verdict, booted, paused,
          faults, blind>>

-----------------------------------------------------------------------------
(* Types *)

Failed == {"failed", "cancelled", "timeout", "rejected"}   \* DEP_FAIL_STATES
Terminal == Failed \cup {"done"}
Parked == {"queued", "blocked", "staged", "awaiting_approval"}
States == Terminal \cup Parked \cup {"absent", "running"}

RowType ==
  [kind: {"none", "pre", "post"},            \* approval_kind
   approval: {"null", "pending", "approved", "denied", "rejected"},
   attempts: Nat, revised: Nat, oomed: Nat, drained: Nat, extra: Nat,
   later: BOOLEAN,      \* not_before lies in the future
   late: BOOLEAN,       \* started_at + timeout_s + walltime_extra_s has passed
   record: BOOLEAN,     \* record_commit names the run's committed record
   recordOk: BOOLEAN,   \* record_ok
   emitted: BOOLEAN]    \* a "result" event of the job is in job_events

UnitType ==
  [handle: BOOLEAN,     \* PROCS has a process handle for the job
   own: 0..1,           \* the process behind that handle lives
   stray: Nat,          \* living processes of the job without a handle
   rc: {"none", "ok", "fail"}]   \* the rc file

Ops == {"down", "boot", "idle", "submit", "dag", "dagsubmit", "rollback",
        "approve", "cancel", "kill", "killmark", "clear", "reap", "finish",
        "park", "gate", "dispatch", "fill", "launch", "preempt"}

VerdictType == [as: {"none", "hold", "done", "failed", "timeout"}, commit: BOOLEAN]

TypeOK ==
  /\ order \in [Jobs -> OrderType]
  /\ state \in [Jobs -> States]
  /\ row \in [Jobs -> RowType]
  /\ unit \in [Jobs -> UnitType]
  /\ op \in Ops
  /\ cur \in Jobs \cup {NoJob}
  /\ todo \in SUBSET Jobs
  /\ verdict \in VerdictType
  /\ booted \in BOOLEAN
  /\ paused \in BOOLEAN
  /\ faults \in Nat
  /\ blind \in SUBSET Jobs

-----------------------------------------------------------------------------
(* Helpers *)

NewRow == [kind |-> "none", approval |-> "null", attempts |-> 0, revised |-> 0,
           oomed |-> 0, drained |-> 0, extra |-> 0, later |-> FALSE,
           late |-> FALSE, record |-> FALSE, recordOk |-> FALSE,
           emitted |-> FALSE]

NoUnit == [handle |-> FALSE, own |-> 0, stray |-> 0, rc |-> "none"]

NoVerdict == [as |-> "none", commit |-> FALSE]

IsFirst(j, S) == j \in S /\ \A k \in S: j <= k
IsLast(j, S) == j \in S /\ \A k \in S: k <= j

Known == {j \in Jobs: state[j] # "absent"}
In(s) == {j \in Jobs: state[j] = s}

DepsSatisfied(j) == \A d \in order[j].deps: state[d] = "done"
DepsFailed(j) == \E d \in order[j].deps: state[d] \in Failed

Alive(j) == unit[j].own + unit[j].stray > 0

(* pnd asks whether the job is over: through its handle when it has one,
   through the unit's status otherwise, and there an unanswered query reads
   like a unit that is gone. *)
StillOn(j) == IF unit[j].handle THEN unit[j].own > 0 ELSE Alive(j)
SeenOver(j) == ~StillOn(j) \/ (~unit[j].handle /\ StatusMayTimeOut)

(* Stopping the unit kills its processes, whose supervisor may still write an
   rc file, or gives up waiting for them. *)
AfterStop(u) ==
  {u} \cup {[u EXCEPT !.own = 0, !.stray = 0, !.rc = c]: c \in {u.rc, "fail"}}

(* Forgetting the handle: what it stood for, if alive, becomes a stray. *)
Dropped(u) == [u EXCEPT !.handle = FALSE, !.stray = u.stray + u.own, !.own = 0]

-----------------------------------------------------------------------------
(* Submission: the row is committed first, its approval gate afterwards.    *)

IsNext(j) == state[j] = "absent" /\ \A k \in Jobs: k < j => state[k] # "absent"

(* Mutant: a job with dependencies is queued like any other. *)
InsertQueued(j) == state' = [state EXCEPT ![j] = "queued"]

Insert(j) ==
  state' = [state EXCEPT ![j] = IF order[j].deps = {} THEN "queued" ELSE "blocked"]

NeedsPreGate(j) == order[j].policy = "pre" \/ order[j].confirm

(* A job with dependencies is only ever given the gate on its result. *)
NeedsSecondCommit(j) ==
  IF order[j].deps = {} THEN NeedsPreGate(j) \/ order[j].policy = "post"
  ELSE order[j].policy = "post"

Submit(j) ==
  /\ op = "idle"
  /\ IsNext(j)
  /\ order[j].deps \subseteq Known
  /\ Insert(j)
  /\ IF NeedsSecondCommit(j)
     THEN op' = "submit" /\ cur' = j
     ELSE UNCHANGED <<op, cur>>
  /\ UNCHANGED <<order, row, unit, todo, verdict, booted, paused, faults, blind>>

(* The second commit of a submission: stage_for_approval, or the kind of the
   gate that its result will meet. *)
SubmitGate ==
  /\ op \in {"submit", "dagsubmit"}
  /\ IF order[cur].deps = {} /\ NeedsPreGate(cur)
     THEN /\ state' = [state EXCEPT ![cur] = "staged"]
          /\ row' = [row EXCEPT ![cur].kind = "pre", ![cur].approval = "pending"]
     ELSE /\ row' = [row EXCEPT ![cur].kind = "post"]
          /\ UNCHANGED state
  /\ op' = IF op = "submit" THEN "idle" ELSE "dag"
  /\ cur' = NoJob
  /\ UNCHANGED <<order, unit, todo, verdict, booted, paused, faults, blind>>

(* submit-dag submits its nodes one after another under the same lock; todo
   collects the jobs it has created. *)
SubmitDag ==
  /\ op = "idle"
  /\ op' = "dag"
  /\ UNCHANGED <<order, state, row, unit, cur, todo, verdict, booted, paused,
                 faults, blind>>

SubmitDagNode(j) ==
  /\ op = "dag"
  /\ IsNext(j)
  /\ order[j].deps \subseteq todo
  /\ Insert(j)
  /\ todo' = todo \cup {j}
  /\ IF NeedsSecondCommit(j)
     THEN op' = "dagsubmit" /\ cur' = j
     ELSE UNCHANGED <<op, cur>>
  /\ UNCHANGED <<order, row, unit, verdict, booted, paused, faults, blind>>

SubmitDagDone ==
  /\ op = "dag" /\ todo # {}
  /\ op' = "idle" /\ todo' = {}
  /\ UNCHANGED <<order, state, row, unit, cur, verdict, booted, paused,
                 faults, blind>>

(* A node is refused (policy, quota, authorisation): the nodes before it are
   cancelled again, one commit each. *)
SubmitDagRefused ==
  /\ op = "dag"
  /\ op' = "rollback"
  /\ UNCHANGED <<order, state, row, unit, cur, todo, verdict, booted, paused,
                 faults, blind>>

Rollback(j) ==
  /\ op = "rollback" /\ IsFirst(j, todo)
  /\ state' = [state EXCEPT ![j] = IF @ \in Parked THEN "cancelled" ELSE @]
  /\ todo' = todo \ {j}
  /\ UNCHANGED <<order, row, unit, op, cur, verdict, booted, paused, faults, blind>>

RollbackDone ==
  /\ op = "rollback" /\ todo = {}
  /\ op' = "idle"
  /\ UNCHANGED <<order, state, row, unit, cur, todo, verdict, booted, paused,
                 faults, blind>>

-----------------------------------------------------------------------------
(* Approval: resolve_approval looks the job up by the nonce of its gate.    *)

Resolvable(j, s) ==
  /\ op = "idle"
  /\ state[j] = s
  /\ row[j].approval = "pending"

ApprovePre(j) ==
  /\ Resolvable(j, "staged")
  /\ state' = [state EXCEPT ![j] = "queued"]
  /\ row' = [row EXCEPT ![j].approval = "approved"]
  /\ UNCHANGED <<order, unit, op, cur, todo, verdict, booted, paused, faults, blind>>

DenyPre(j) ==
  /\ Resolvable(j, "staged")
  /\ state' = [state EXCEPT ![j] = "cancelled"]
  /\ row' = [row EXCEPT ![j].approval = "denied"]
  /\ UNCHANGED <<order, unit, op, cur, todo, verdict, booted, paused, faults, blind>>

(* The approval of a result is committed first ... *)
ApprovePost(j) ==
  /\ Resolvable(j, "awaiting_approval")
  /\ row' = [row EXCEPT ![j].approval = "approved"]
  /\ op' = "approve" /\ cur' = j
  /\ UNCHANGED <<order, state, unit, todo, verdict, booted, paused, faults, blind>>

(* ... and the held verdict after it: done, if the record is still whole. *)
FinalizeApproved(valid) ==
  /\ op = "approve"
  /\ LET ok == row[cur].record /\ valid IN
       /\ state' = [state EXCEPT ![cur] = IF ok THEN "done" ELSE "failed"]
       /\ row' = [row EXCEPT ![cur].recordOk = ok]
  /\ op' = "idle" /\ cur' = NoJob
  /\ UNCHANGED <<order, unit, todo, verdict, booted, paused, faults, blind>>

RejectPost(j) ==
  /\ Resolvable(j, "awaiting_approval")
  /\ state' = [state EXCEPT ![j] = "rejected"]
  /\ row' = [row EXCEPT ![j].approval = "rejected"]
  /\ UNCHANGED <<order, unit, op, cur, todo, verdict, booted, paused, faults, blind>>

Revise(j) ==
  /\ Resolvable(j, "awaiting_approval")
  /\ row[j].revised < MaxRevise
  /\ state' = [state EXCEPT ![j] = "queued"]
  /\ row' = [row EXCEPT ![j].approval = "null", ![j].recordOk = FALSE,
                        ![j].extra = 0, ![j].late = FALSE, ![j].revised = @ + 1]
  /\ UNCHANGED <<order, unit, op, cur, todo, verdict, booted, paused, faults, blind>>

-----------------------------------------------------------------------------
(* Cancelling, killing, clearing, extending, pausing                        *)

CancelQueued(j) ==
  /\ op = "idle"
  /\ state[j] = "queued"
  /\ state' = [state EXCEPT ![j] = "cancelled"]
  /\ UNCHANGED <<order, row, unit, op, cur, todo, verdict, booted, paused, faults, blind>>

(* A running job's unit is stopped and its handle dropped before the row is
   marked; that the unit is really gone is not verified.  A job that is
   blocked, staged or awaiting approval is left as it is. *)
CancelRunning(j, u) ==
  /\ op = "idle"
  /\ state[j] = "running"
  /\ unit' = [unit EXCEPT ![j] = Dropped(u)]
  /\ op' = "cancel" /\ cur' = j
  /\ UNCHANGED <<order, state, row, todo, verdict, booted, paused, faults, blind>>

CancelMark ==
  /\ op = "cancel"
  /\ state' = [state EXCEPT ![cur] = "cancelled"]
  /\ op' = "idle" /\ cur' = NoJob
  /\ UNCHANGED <<order, row, unit, todo, verdict, booted, paused, faults, blind>>

(* Mutant: every job of the user, the finished ones included. *)
KillUserAll(p) ==
  /\ op = "idle"
  /\ op' = "kill"
  /\ todo' = {j \in Known: order[j].owner = p}
  /\ UNCHANGED <<order, state, row, unit, cur, verdict, booted, paused, faults, blind>>

KillUser(p) ==
  /\ op = "idle"
  /\ op' = "kill"
  /\ todo' = {j \in Known: order[j].owner = p /\ state[j] \notin Terminal}
  /\ UNCHANGED <<order, state, row, unit, cur, verdict, booted, paused, faults, blind>>

KillStop(j, u) ==
  /\ op = "kill" /\ IsLast(j, todo)
  /\ state[j] = "running"
  /\ unit' = [unit EXCEPT ![j] = Dropped(u)]
  /\ op' = "killmark" /\ cur' = j
  /\ UNCHANGED <<order, state, row, todo, verdict, booted, paused, faults, blind>>

KillMark(j) ==
  /\ \/ op = "killmark" /\ j = cur
     \/ op = "kill" /\ IsLast(j, todo) /\ state[j] # "running"
  /\ state' = [state EXCEPT ![j] = "cancelled"]
  /\ op' = "kill" /\ cur' = NoJob /\ todo' = todo \ {j}
  /\ UNCHANGED <<order, row, unit, verdict, booted, paused, faults, blind>>

ClearQueued ==
  /\ op = "idle"
  /\ op' = "clear" /\ todo' = In("queued")
  /\ UNCHANGED <<order, state, row, unit, cur, verdict, booted, paused, faults, blind>>

ClearOne(j) ==
  /\ op = "clear" /\ IsLast(j, todo)
  /\ state' = [state EXCEPT ![j] = IF @ = "queued" THEN "cancelled" ELSE @]
  /\ todo' = todo \ {j}
  /\ UNCHANGED <<order, row, unit, op, cur, verdict, booted, paused, faults, blind>>

VisitsDone ==
  /\ op \in {"kill", "clear"} /\ todo = {}
  /\ op' = "idle"
  /\ UNCHANGED <<order, state, row, unit, cur, todo, verdict, booted, paused,
                 faults, blind>>

(* The job's own principal extends its walltime up to the cap of its profile;
   extra counts what has been granted, as far as the cap can tell. *)
Extend(j) ==
  /\ op = "idle"
  /\ state[j] = "running"
  /\ row[j].extra < MaxExtend
  /\ row' = [row EXCEPT ![j].extra = @ + 1, ![j].late = FALSE]
  /\ UNCHANGED <<order, state, unit, op, cur, todo, verdict, booted, paused, faults, blind>>

(* A caller with view:all is exempt from the cap. *)
ExtendByAdmin(j) ==
  /\ op = "idle"
  /\ state[j] = "running"
  /\ row' = [row EXCEPT ![j].extra = IF @ < MaxExtend THEN @ + 1 ELSE @,
                        ![j].late = FALSE]
  /\ UNCHANGED <<order, state, unit, op, cur, todo, verdict, booted, paused, faults, blind>>

Pause(p) ==
  /\ op = "idle"
  /\ p # paused /\ paused' = p
  /\ UNCHANGED <<order, state, row, unit, op, cur, todo, verdict, booted,
                 faults, blind>>

-----------------------------------------------------------------------------
(* Giving a running job back to the queue, and ending it                    *)

Requeued(r) ==
  [r EXCEPT !.attempts = @ + 1, !.extra = 0, !.late = FALSE, !.later = TRUE]
Drained(r) == [Requeued(r) EXCEPT !.drained = @ + 1]

(* Mutant: the exit code decides, the event that announces it does not. *)
BeginFinishUnannounced(j, ended, otherwise) ==
  \E committed, sent, valid \in BOOLEAN:
    LET ok == ended /\ committed /\ valid IN
      /\ sent => committed
      /\ row' = [row EXCEPT ![j].emitted = @ \/ sent]
      /\ verdict' = [commit |-> committed,
                     as |-> IF ~ok THEN otherwise
                            ELSE IF row[j].kind = "post" THEN "hold" ELSE "done"]
      /\ op' = "finish" /\ cur' = j /\ todo' = todo \ {j}

(* Mutant: a finalization done over takes the gate for passed. *)
BeginFinishOnce(j, ended, otherwise) ==
  \E committed, sent, valid \in BOOLEAN:
    LET ok == ended /\ committed /\ sent /\ valid IN
      /\ sent => committed
      /\ row' = [row EXCEPT ![j].emitted = @ \/ sent]
      /\ verdict' = [commit |-> committed,
                     as |-> IF ~ok THEN otherwise
                            ELSE IF row[j].kind = "post" /\ ~row[j].emitted THEN "hold"
                                 ELSE "done"]
      /\ op' = "finish" /\ cur' = j /\ todo' = todo \ {j}

(* finalize_job: the record is committed to the workspace, the result event is
   written, and what that amounts to is decided; ended says whether the work
   itself succeeded, otherwise is the verdict if not. *)
BeginFinish(j, ended, otherwise) ==
  \E committed, sent, valid \in BOOLEAN:
    LET ok == ended /\ committed /\ sent /\ valid IN
      /\ sent => committed
      /\ row' = [row EXCEPT ![j].emitted = @ \/ sent]
      /\ verdict' = [commit |-> committed,
                     as |-> IF ~ok THEN otherwise
                            ELSE IF row[j].kind = "post" THEN "hold" ELSE "done"]
      /\ op' = "finish" /\ cur' = j /\ todo' = todo \ {j}

Resume == op' = IF booted THEN "reap" ELSE "boot"

(* The verdict is committed with the digest of the record and the job is
   dropped.  A held result commits its digest first, in a commit of its own. *)
FinishMark ==
  /\ op = "finish" /\ verdict.as # "hold"
  /\ state' = [state EXCEPT ![cur] = verdict.as]
  /\ row' = [row EXCEPT ![cur].record = verdict.commit,
                        ![cur].recordOk = (verdict.as = "done")]
  /\ unit' = [unit EXCEPT ![cur] = Dropped(@)]
  /\ Resume /\ cur' = NoJob /\ verdict' = NoVerdict
  /\ UNCHANGED <<order, todo, booted, paused, faults, blind>>

(* Mutant: the job is held without the digest of its record. *)
FinishRecordLost ==
  /\ op = "finish" /\ verdict.as = "hold"
  /\ op' = "park"
  /\ UNCHANGED <<order, state, row, unit, cur, todo, verdict, booted, paused,
                 faults, blind>>

FinishRecord ==
  /\ op = "finish" /\ verdict.as = "hold"
  /\ row' = [row EXCEPT ![cur].record = @ \/ verdict.commit]
  /\ op' = "park"
  /\ UNCHANGED <<order, state, unit, cur, todo, verdict, booted, paused,
                 faults, blind>>

Park ==
  /\ op = "park"
  /\ state' = [state EXCEPT ![cur] = "awaiting_approval"]
  /\ row' = [row EXCEPT ![cur].approval = "pending"]
  /\ unit' = [unit EXCEPT ![cur] = Dropped(@)]
  /\ Resume /\ cur' = NoJob /\ verdict' = NoVerdict
  /\ UNCHANGED <<order, todo, booted, paused, faults, blind>>

-----------------------------------------------------------------------------
(* The tick: reap, the DAG gate, dispatch of real work, backfill            *)

TickStart ==
  /\ op = "idle"
  /\ op' = "reap" /\ todo' = In("running")
  /\ UNCHANGED <<order, state, row, unit, cur, verdict, booted, paused,
                 faults, blind>>

(* The exit codes pnd can come to for a job that is over: the rc file's, and
   without one whatever the handle or the unit's status says. *)
Codes(j) == IF unit[j].rc = "none" THEN {"ok", "fail"} ELSE {unit[j].rc}

ReapOver(j) ==
  /\ op = "reap" /\ IsFirst(j, todo)
  /\ SeenOver(j)
  /\ blind' = IF Alive(j) THEN blind \cup {j} ELSE blind

ReapEnded(j) ==
  /\ ReapOver(j)
  /\ \E c \in Codes(j): BeginFinish(j, c = "ok", "failed")
  /\ UNCHANGED <<order, state, unit, booted, paused, faults>>

(* A failed run goes back to the queue when it ran out of memory, with a
   larger limit and at once, or when its worker was draining, with a backoff. *)
ReapRequeue(j) ==
  /\ ReapOver(j)
  /\ "fail" \in Codes(j)
  /\ \/ /\ order[j].grows /\ row[j].oomed < MaxOomRetries
        /\ row' = [row EXCEPT ![j].oomed = @ + 1, ![j].extra = 0,
                              ![j].late = FALSE, ![j].later = FALSE]
     \/ /\ order[j].remote /\ row[j].drained < MaxDrainRequeues
        /\ row' = [row EXCEPT ![j] = Drained(@)]
  /\ state' = [state EXCEPT ![j] = "queued"]
  /\ unit' = [unit EXCEPT ![j] = Dropped(@)]
  /\ todo' = todo \ {j}
  /\ UNCHANGED <<order, op, cur, verdict, booted, paused, faults>>

(* Out of time, or over its scratch quota: the unit is stopped and the job
   finalized, whatever became of the unit. *)
ReapKill(j, u) ==
  /\ op = "reap" /\ IsFirst(j, todo)
  /\ StillOn(j)
  /\ unit' = [unit EXCEPT ![j] = u]
  /\ \/ row[j].late /\ BeginFinish(j, FALSE, "timeout")
     \/ BeginFinish(j, FALSE, "failed")
  /\ UNCHANGED <<order, state, booted, paused, faults, blind>>

(* Mutant: a job that is out of time is left alone too. *)
ReapLaterAlways(j) ==
  /\ op = "reap" /\ IsFirst(j, todo)
  /\ StillOn(j)
  /\ todo' = todo \ {j}
  /\ UNCHANGED <<order, state, row, unit, op, cur, verdict, booted, paused,
                 faults, blind>>

ReapLater(j) ==
  /\ op = "reap" /\ IsFirst(j, todo)
  /\ StillOn(j)
  /\ ~row[j].late
  /\ todo' = todo \ {j}
  /\ UNCHANGED <<order, state, row, unit, op, cur, verdict, booted, paused,
                 faults, blind>>

ReapDone ==
  /\ op = "reap" /\ todo = {}
  /\ op' = "gate"
  /\ UNCHANGED <<order, state, row, unit, cur, todo, verdict, booted, paused,
                 faults, blind>>

(* Mutant: a cancelled, timed out or rejected dependency does not count. *)
DoomedByFailure ==
  {j \in Jobs: state[j] \in Parked /\ \E d \in order[j].deps: state[d] = "failed"}

(* Mutant: a job is promoted unless a dependency has failed. *)
ReadyUnlessFailed == {j \in Jobs: state[j] = "blocked" /\ ~DepsFailed(j)}

(* Mutant: staged jobs are promoted with the blocked ones. *)
ReadyAlsoStaged ==
  {j \in Jobs: state[j] \in {"blocked", "staged"} /\ DepsSatisfied(j)}

(* gate_dag: first every waiting job with a failed dependency is cancelled, to
   a fixpoint, then the blocked jobs whose dependencies are done are queued. *)
Doomed == {j \in Jobs: state[j] \in Parked /\ DepsFailed(j)}
Ready == {j \in Jobs: state[j] = "blocked" /\ DepsSatisfied(j)}

GateCancel(j) ==
  /\ op = "gate" /\ IsFirst(j, Doomed)
  /\ state' = [state EXCEPT ![j] = "cancelled"]
  /\ UNCHANGED <<order, row, unit, op, cur, todo, verdict, booted, paused,
                 faults, blind>>

GatePromote(j) ==
  /\ op = "gate" /\ Doomed = {} /\ IsFirst(j, Ready)
  /\ state' = [state EXCEPT ![j] = "queued"]
  /\ UNCHANGED <<order, row, unit, op, cur, todo, verdict, booted, paused,
                 faults, blind>>

GateDone ==
  /\ op = "gate" /\ Doomed = {} /\ Ready = {}
  /\ op' = IF paused THEN "idle" ELSE "dispatch"
  /\ UNCHANGED <<order, state, row, unit, cur, todo, verdict, booted, paused,
                 faults, blind>>

QueuedReal == \E j \in In("queued"): ~order[j].filler
RunningFiller == \E j \in In("running"): order[j].filler

(* Which job the tick may start next: real work that has served its backoff;
   then fillers, if no real work is queued, or one as a trickle. *)
MayStart(j) ==
  /\ state[j] = "queued" /\ ~row[j].later
  /\ \/ op = "dispatch" /\ ~order[j].filler
     \/ op = "fill" /\ order[j].filler /\ ~(QueuedReal /\ RunningFiller)

(* A new process takes the place of the old one behind the handle. *)
Started(u) ==
  [u EXCEPT !.handle = TRUE, !.own = 1, !.stray = u.stray + u.own, !.rc = "none"]

(* start_job, first half: the process is started before the row says so. *)
Launch(j) ==
  /\ MayStart(j)
  /\ unit' = [unit EXCEPT ![j] = Started(@)]
  /\ op' = "launch" /\ cur' = j
  /\ UNCHANGED <<order, state, row, todo, verdict, booted, paused, faults, blind>>

AfterLaunch(j) == op' = IF order[j].filler THEN "fill" ELSE "dispatch"

MarkRunning ==
  /\ op = "launch"
  /\ state' = [state EXCEPT ![cur] = "running"]
  /\ row' = [row EXCEPT ![cur].late = FALSE]
  /\ AfterLaunch(cur) /\ cur' = NoJob
  /\ UNCHANGED <<order, unit, todo, verdict, booted, paused, faults, blind>>

(* The worker is unusable, or the process cannot be started. *)
LaunchFails(j) ==
  /\ MayStart(j)
  /\ state' = [state EXCEPT ![j] = "failed"]
  /\ row' = [row EXCEPT ![j].recordOk = FALSE, ![j].record = FALSE]
  /\ UNCHANGED <<order, unit, op, cur, todo, verdict, booted, paused,
                 faults, blind>>

(* Mutant: the filler is requeued without looking whether it died. *)
PreemptUnverified(f, u) ==
  /\ op = "dispatch"
  /\ \E j \in Jobs: MayStart(j)
  /\ state[f] = "running" /\ order[f].filler
  /\ row[f].attempts < MaxAttempts
  /\ unit' = [unit EXCEPT ![f] = Dropped(u)]
  /\ op' = "preempt" /\ cur' = f
  /\ UNCHANGED <<order, state, row, todo, verdict, booted, paused, faults, blind>>

(* Real work that does not fit preempts a filler: the filler is requeued only
   once it is seen to be dead. *)
Preempt(f, u) ==
  /\ op = "dispatch"
  /\ \E j \in Jobs: MayStart(j)
  /\ state[f] = "running" /\ order[f].filler
  /\ row[f].attempts < MaxAttempts
  /\ LET gone == u.own + u.stray = 0 IN
       /\ gone \/ (u.own = 0 /\ StatusMayTimeOut)
       /\ blind' = IF gone THEN blind ELSE blind \cup {f}
  /\ unit' = [unit EXCEPT ![f] = Dropped(u)]
  /\ op' = "preempt" /\ cur' = f
  /\ UNCHANGED <<order, state, row, todo, verdict, booted, paused, faults>>

PreemptRequeue ==
  /\ op = "preempt"
  /\ state' = [state EXCEPT ![cur] = "queued"]
  /\ row' = [row EXCEPT ![cur] = Requeued(@)]
  /\ op' = "dispatch" /\ cur' = NoJob
  /\ UNCHANGED <<order, unit, todo, verdict, booted, paused, faults, blind>>

(* Nothing more fits, or max_per_tick is reached. *)
DispatchDone ==
  /\ op \in {"dispatch", "fill"}
  /\ op' = IF op = "dispatch" THEN "fill" ELSE "idle"
  /\ UNCHANGED <<order, state, row, unit, cur, todo, verdict, booted, paused,
                 faults, blind>>

-----------------------------------------------------------------------------
(* Exceptions, crash and restart                                            *)

(* An exception ends the tick or the request between two commits: the main loop
   and the server catch it and go on, with what is committed and started as it
   is.  (One in reconcile ends pnd: that is PndCrash.) *)
Aborts ==
  /\ op \notin {"idle", "down"} /\ booted /\ faults < MaxFaults
  /\ op' = "idle" /\ cur' = NoJob /\ todo' = {} /\ verdict' = NoVerdict
  /\ faults' = faults + 1
  /\ blind' = IF op = "launch" THEN blind \cup {cur} ELSE blind
  /\ UNCHANGED <<order, state, row, unit, booted, paused>>

Crash ==
  /\ op # "down" /\ faults < MaxFaults
  /\ op' = "down" /\ cur' = NoJob /\ todo' = {} /\ verdict' = NoVerdict
  /\ booted' = FALSE
  /\ faults' = faults + 1
  /\ UNCHANGED <<order, state, row, paused>>

(* pnd dies: the jobs' processes live on in their own units. *)
PndCrash ==
  /\ Crash
  /\ unit' = [j \in Jobs |-> Dropped(unit[j])]
  /\ blind' = IF op = "launch" THEN blind \cup {cur} ELSE blind

(* The box goes down: every process dies, the files stay. *)
BoxCrash ==
  /\ Crash
  /\ unit' = [j \in Jobs |-> [NoUnit EXCEPT !.rc = unit[j].rc]]
  /\ UNCHANGED blind

(* Mutant: every running job is taken for an orphan. *)
RestartBlindly(unanswered) ==
  /\ op = "down"
  /\ unanswered => StatusMayTimeOut
  /\ todo' = In("running")
  /\ op' = "boot"
  /\ UNCHANGED <<order, state, row, unit, cur, verdict, booted, paused, faults,
                 blind>>

(* reconcile: the units that are listed as live are left to the tick; the
   listing is empty when the query for it fails. *)
Restart(unanswered) ==
  /\ op = "down"
  /\ unanswered => StatusMayTimeOut
  /\ LET running == In("running")
         live == {j \in running: Alive(j)} IN
       /\ todo' = IF unanswered THEN running ELSE running \ live
       /\ blind' = IF unanswered THEN blind \cup live ELSE blind
  /\ op' = "boot"
  /\ UNCHANGED <<order, state, row, unit, cur, verdict, booted, paused, faults>>

BootFinish(j) ==
  /\ op = "boot" /\ IsFirst(j, todo)
  /\ unit[j].rc # "none"
  /\ BeginFinish(j, unit[j].rc = "ok", "failed")
  /\ UNCHANGED <<order, state, unit, booted, paused, faults, blind>>

(* Crash-orphaned: no rc file was left behind. *)
Orphan(j) == op = "boot" /\ IsFirst(j, todo) /\ unit[j].rc = "none"
MayRetryOnceMore(j) == order[j].idem /\ row[j].attempts <= MaxRetries   \* mutant
MayRetry(j) == order[j].idem /\ row[j].attempts < MaxRetries

BootRequeue(j) ==
  /\ Orphan(j) /\ MayRetry(j)
  /\ state' = [state EXCEPT ![j] = "queued"]
  /\ row' = [row EXCEPT ![j] = Requeued(@)]
  /\ todo' = todo \ {j}
  /\ UNCHANGED <<order, unit, op, cur, verdict, booted, paused, faults, blind>>

BootFail(j) ==
  /\ Orphan(j) /\ ~MayRetry(j)
  /\ state' = [state EXCEPT ![j] = "failed"]
  /\ todo' = todo \ {j}
  /\ UNCHANGED <<order, row, unit, op, cur, verdict, booted, paused, faults, blind>>

BootDone ==
  /\ op = "boot" /\ todo = {}
  /\ op' = "idle" /\ booted' = TRUE
  /\ UNCHANGED <<order, state, row, unit, cur, todo, verdict, paused, faults,
                 blind>>

-----------------------------------------------------------------------------
(* The rest of the world                                                    *)

(* A process of the job ends; its supervisor leaves an exit code or dies too. *)
UnitExit(j, c) ==
  /\ \/ /\ unit[j].own > 0
        /\ unit' = [unit EXCEPT ![j].own = 0,
                                ![j].rc = IF c = "none" THEN @ ELSE c]
     \/ /\ unit[j].stray > 0
        /\ unit' = [unit EXCEPT ![j].stray = @ - 1,
                                ![j].rc = IF c = "none" THEN @ ELSE c]
  /\ UNCHANGED <<order, state, row, op, cur, todo, verdict, booted, paused,
                 faults, blind>>

TimeUp(j) ==
  /\ state[j] = "running" /\ ~row[j].late
  /\ row' = [row EXCEPT ![j].late = TRUE]
  /\ UNCHANGED <<order, state, unit, op, cur, todo, verdict, booted, paused,
                 faults, blind>>

BackoffOver(j) ==
  /\ row[j].later
  /\ row' = [row EXCEPT ![j].later = FALSE]
  /\ UNCHANGED <<order, state, unit, op, cur, todo, verdict, booted, paused,
                 faults, blind>>

-----------------------------------------------------------------------------
(* The specification                                                        *)

Init ==
  /\ order \in Workloads
  /\ state = [j \in Jobs |-> "absent"]
  /\ row = [j \in Jobs |-> NewRow]
  /\ unit = [j \in Jobs |-> NoUnit]
  /\ op = "idle" /\ cur = NoJob /\ todo = {} /\ verdict = NoVerdict
  /\ booted = TRUE /\ paused = FALSE
  /\ faults = 0 /\ blind = {}

Requests ==
  \/ SubmitDag
  \/ \E j \in Jobs:
       \/ Submit(j) \/ ApprovePre(j) \/ DenyPre(j) \/ ApprovePost(j)
       \/ RejectPost(j) \/ Revise(j) \/ CancelQueued(j) \/ Extend(j)
       \/ ExtendByAdmin(j)
       \/ \E u \in AfterStop(unit[j]): CancelRunning(j, u)
       \/ KillUser(order[j].owner)
  \/ ClearQueued
  \/ \E p \in BOOLEAN: Pause(p)

Handling ==
  \/ SubmitGate \/ SubmitDagDone \/ SubmitDagRefused \/ RollbackDone
  \/ CancelMark \/ VisitsDone
  \/ \E valid \in BOOLEAN: FinalizeApproved(valid)
  \/ \E j \in Jobs:
       \/ SubmitDagNode(j) \/ Rollback(j) \/ KillMark(j) \/ ClearOne(j)
       \/ \E u \in AfterStop(unit[j]): KillStop(j, u)

Tick ==
  \/ ReapDone \/ GateDone \/ DispatchDone \/ MarkRunning \/ PreemptRequeue
  \/ FinishMark \/ FinishRecord \/ Park
  \/ \E j \in Jobs:
       \/ ReapEnded(j) \/ ReapRequeue(j) \/ ReapLater(j)
       \/ GateCancel(j) \/ GatePromote(j) \/ Launch(j) \/ LaunchFails(j)
       \/ \E u \in AfterStop(unit[j]): ReapKill(j, u) \/ Preempt(j, u)

Boot ==
  \/ \E b \in BOOLEAN: Restart(b)
  \/ \E j \in Jobs: BootFinish(j) \/ BootRequeue(j) \/ BootFail(j)
  \/ BootDone

Environment ==
  \/ Aborts \/ PndCrash \/ BoxCrash
  \/ \E j \in Jobs:
       \/ \E c \in {"none", "ok", "fail"}: UnitExit(j, c)
       \/ TimeUp(j) \/ BackoffOver(j)

Next == Requests \/ Handling \/ TickStart \/ Tick \/ Boot \/ Environment

Spec == Init /\ [][Next]_vars

(* pnd goes on with what it has begun; between two requests the tick gets the
   lock in the end; systemd starts pnd again; time passes. *)
Fairness ==
  /\ WF_vars(Handling \/ Tick \/ Boot)
  /\ SF_vars(TickStart)
  /\ \A j \in Jobs: WF_vars(TimeUp(j)) /\ WF_vars(BackoffOver(j))

FairSpec == Spec /\ Fairness

-----------------------------------------------------------------------------
(* Properties                                                               *)

(* What every operation may rely on about the job it is working on, although
   it read the row some commits ago: the strengthening the proofs rest on. *)
LockDiscipline ==
  /\ op \in {"submit", "dagsubmit", "approve", "cancel", "killmark", "finish",
             "park", "launch", "preempt"} => cur \in Jobs
  /\ op \in {"submit", "dagsubmit"} =>
       state[cur] = IF order[cur].deps = {} THEN "queued" ELSE "blocked"
  /\ op = "approve" => state[cur] = "awaiting_approval"
  /\ op \in {"cancel", "killmark", "finish", "park", "preempt"} => state[cur] = "running"
  /\ op = "launch" => state[cur] = "queued"
  /\ op \in {"kill", "killmark"} =>
       \A j \in todo: state[j] \notin Terminal \cup {"absent"}
  /\ op \in {"boot", "reap"} => \A j \in todo: state[j] = "running"
  /\ op \in {"finish", "park"} =>
       /\ cur \notin todo /\ \A j \in todo: state[j] = "running"
       /\ verdict.as # "none"
  /\ op \in {"idle", "submit", "approve", "cancel", "gate", "dispatch", "fill",
             "launch", "preempt"} => todo = {}

(* A job runs, is held or is done only when everything it depends on is done:
   promotion, requeueing and the reconcile after a crash never get ahead of
   the DAG. *)
DependenciesFirst ==
  \A j \in Jobs: state[j] \in {"queued", "running", "awaiting_approval", "done"} =>
    DepsSatisfied(j)

(* "no-done-without-record": a job is done only with a committed record, the
   record_ok flag and a result event, whichever path published the verdict
   (the tick, the approval, or the reconcile of a crashed finalization). *)
NoDoneWithoutRecord ==
  \A j \in Jobs: state[j] = "done" =>
    row[j].record /\ row[j].recordOk /\ row[j].emitted

(* A terminal verdict is final: the UPDATEs behind it carry no guard on the
   state, and late approvals, cancels, requeues and reconciles never hit it. *)
TerminalIsFinal ==
  [][\A j \in Jobs: state[j] \in Terminal => state'[j] = state[j]]_vars

(* A job staged for approval leaves the stage only by a decision on it: from
   then on it runs, and is requeued, only as approved. *)
StagedRunsOnlyApproved ==
  \A j \in Jobs:
    row[j].kind = "pre" /\ state[j] \in {"queued", "running", "done", "failed", "timeout"} =>
      row[j].approval = "approved"

(* The result of a job known to have the post gate is published as done only
   by an approval, also when the finalization is done over after a crash. *)
PostGateHolds ==
  \A j \in Jobs:
    row[j].kind = "post" /\ state[j] = "done" => row[j].approval = "approved"

(* A job waits for approval only with its work over, its record committed and
   its result announced. *)
HeldIsWhole ==
  \A j \in Jobs: state[j] = "awaiting_approval" =>
    /\ row[j].record /\ row[j].emitted /\ row[j].kind = "post"
    /\ row[j].approval \in {"pending", "approved"}

(* A job has two living processes, or a queued job a living one, only if pnd
   started a process and did not record it (it died, or an exception ended the
   tick, before the row was marked) or lost one from sight (a status query went
   unanswered).  Preemption, requeueing, reconcile and ticks that an exception
   ended anywhere else never start a second copy. *)
OneCopy ==
  \A j \in Jobs \ blind:
    /\ unit[j].own + unit[j].stray <= 1
    /\ state[j] = "queued" /\ ~(op = "launch" /\ cur = j) => ~Alive(j)

(* Every way back into the queue is bounded: revisions, memory growth, drains,
   and, for work that is neither preempted nor remote, crash retries. *)
RequeuesAreBounded ==
  \A j \in Jobs:
    /\ row[j].revised <= MaxRevise
    /\ row[j].oomed <= MaxOomRetries
    /\ row[j].drained <= MaxDrainRequeues
    /\ ~order[j].filler /\ ~order[j].remote => row[j].attempts <= MaxRetries

(* A run ends, by itself or by the walltime, across crashes and exceptions, unless
   callers exempt from the cap go on extending it for ever. *)
EveryRunEnds ==
  \A j \in Jobs:
    ((state[j] = "running") ~> (state[j] # "running")) \/ []<><<ExtendByAdmin(j)>>_vars

(* A blocked job is decided once its dependencies are: queued after their
   success, cancelled after the failure of one, also while admission is
   paused. *)
BlockedIsDecided ==
  \A j \in Jobs:
    /\ (state[j] = "blocked" /\ DepsSatisfied(j)) ~> (state[j] # "blocked")
    /\ (state[j] = "blocked" /\ DepsFailed(j)) ~> (state[j] \in Terminal)

(* The implementation of JobPromise: queued, blocked and staged are waiting, a
   record counts when the row carries the record_ok flag. *)
Phase(s) ==
  CASE s = "absent" -> "unknown"
    [] s \in {"queued", "blocked", "staged"} -> "waiting"
    [] s = "awaiting_approval" -> "held"
    [] OTHER -> s

Promise == INSTANCE JobPromise WITH
  deps <- [j \in Jobs |-> order[j].deps],
  phase <- [j \in Jobs |-> Phase(state[j])],
  proof <- {j \in Jobs: row[j].recordOk}

(* The daemon keeps that promise across every interleaving and crash. *)
KeepsPromise == Promise!PSpec

(* gateway/spec/openapi.yaml: "nothing irreversible fires without your yes".
   What is submitted for approval before it runs does not run without it. *)
NothingFiresUnapproved ==
  \A j \in Jobs:
    order[j].policy = "pre" /\ state[j] = "running" => row[j].approval = "approved"
=============================================================================
