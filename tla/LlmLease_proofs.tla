--------------------------- MODULE LlmLease_proofs ---------------------------
(***************************************************************************)
(* Proofs about LlmLease, for any jobs, demands, pool, times and bounds.    *)
(*                                                                          *)
(* RetryIsHarmless holds because of the order in which pnd works: Order     *)
(* says what the loop it is in may rely on.  RunningFits holds because no   *)
(* lease is asked for in a tick before every running job's has been         *)
(* renewed: as long as that is so, Room says, what runs and what the table  *)
(* has promised fit together, though leases lapse while pnd stands still.   *)
(***************************************************************************)
EXTENDS LlmLease, FiniteSetTheorems, TLAPS

(* What pnd's place says about the jobs at hand. *)
Order ==
  /\ op \in {"idle", "down", "cancelled"} => todo = {}
  /\ op \in {"boot", "bootdrop", "bootmark", "reap", "reapdrop", "assert"} => todo \subseteq Running
  /\ op = "drain" => todo \subseteq pending
  /\ op \in {"dispatch", "launch", "launchdrop", "preempted"} =>
       \A j \in todo : st[j] = "queued"
  /\ op \in {"reapdrop", "bootdrop", "launchdrop"} => st[cur] = "over" \/ st[cur] = "queued"
  /\ op \in {"bootmark", "cancelled", "preempted"} => st[cur] = "running"
  /\ op = "launch" => st[cur] = "queued" /\ cur \notin pending
  /\ cur \notin todo

Retry == TypeOK /\ Order /\ RetryIsHarmless

Fresh(S) == \A j \in S : j \in leases /\ age[j] = 0

(* What a tick has renewed by the time it asks for leases. *)
Renewed ==
  /\ op = "assert" => Fresh(Running \ todo)
  /\ op \in {"dispatch", "launch", "launchdrop"} => Fresh(Running)
  /\ op = "launch" => Fresh({cur})
  /\ op = "preempted" => Fresh(Running \ {cur})

Claimed == leases \cup Running

(* As long as every request was answered. *)
Room == late = {} /\ Renewed /\ Used(Claimed) <= PoolTenths

RoomIfAnswered == faults = 0 => Room

(* The table never promises more than the pool has. *)
TableFits == Used(leases) <= PoolTenths

-----------------------------------------------------------------------------
(* The table and the wire keep their types whatever becomes of a request. *)
WireOK ==
  /\ leases \subseteq Jobs
  /\ age \in [Jobs -> 0..(Ttl + 1)]
  /\ late \subseteq {"lease", "release"} \X Jobs
  /\ faults \in 0..MaxFaults

LEMMA TableTypes ==
  ASSUME TypeOK, NEW j \in Jobs, Lease(j) \/ Forget({j})
  PROVE  leases' \subseteq Jobs /\ age' \in [Jobs -> 0..(Ttl + 1)]
  <1>k. 0 \in 0..(Ttl + 1) BY LeaseAssumption
  <1> QED BY <1>k DEF TypeOK, Lease, Forget

LEMMA TableForgets ==
  ASSUME TypeOK, NEW S, Forget(S)
  PROVE  leases' \subseteq Jobs /\ age' \in [Jobs -> 0..(Ttl + 1)]
  <1>k. 0 \in 0..(Ttl + 1) BY LeaseAssumption
  <1> QED BY <1>k DEF TypeOK, Forget

LEMMA AskTypes ==
  ASSUME TypeOK, NEW verb \in {"lease", "release"}, NEW j \in Jobs, NEW ok, Ask(verb, j, ok)
  PROVE  WireOK'
  <1>1. CASE UNCHANGED <<late, faults>> /\ (Lease(j) \/ Forget({j}) \/ UNCHANGED table)
    BY <1>1, TableTypes DEF WireOK, TypeOK, table
  <1>2. CASE /\ faults < MaxFaults
             /\ faults' = faults + 1
             /\ late' \in {late, late \cup {<<verb, j>>}}
             /\ UNCHANGED table
    <2>1. faults' \in 0..MaxFaults BY <1>2, LeaseAssumption DEF TypeOK
    <2> QED BY <1>2, <2>1 DEF WireOK, TypeOK, table
  <1> QED BY <1>1, <1>2 DEF Ask, Refuse

LEMMA ReleaseTypes ==
  ASSUME TypeOK, NEW j \in Jobs, NEW ok, llm_release(j, ok)
  PROVE  /\ WireOK'
         /\ held' \subseteq Jobs /\ pending' \subseteq pending \cup {j}
  <1>1. CASE j \in held \cup pending
    BY <1>1, AskTypes DEF llm_release, Released, TypeOK
  <1>2. CASE j \notin held \cup pending
    BY <1>2 DEF llm_release, WireOK, TypeOK, wire, mind, table
  <1> QED BY <1>1, <1>2

LEMMA LeaseTypes ==
  ASSUME TypeOK, NEW j \in Jobs, NEW ok, llm_lease(j, ok)
  PROVE  /\ WireOK'
         /\ held' \subseteq Jobs /\ pending' \subseteq pending
         /\ ok => j \notin pending'
  BY AskTypes DEF llm_lease, TypeOK

-----------------------------------------------------------------------------
(* RetryIsHarmless. *)

LEMMA RetryAtFirst == Init => Retry
  <1> SUFFICES ASSUME Init PROVE Retry OBVIOUS
  <1>1. TypeOK
    <2>1. 0 \in 0..(Ttl + 1) /\ 0 \in 0..MaxFaults /\ 0 \in 0..MaxCrashes BY LeaseAssumption
    <2> QED BY <2>1, LeaseAssumption DEF Init, TypeOK, Loops, Halves
  <1>2. Order /\ RetryIsHarmless BY DEF Init, Order, Running, RetryIsHarmless
  <1> QED BY <1>1, <1>2 DEF Retry

LEMMA RetryIfStill == Retry /\ UNCHANGED vars => Retry'
  BY DEF Retry, TypeOK, Order, Running, RetryIsHarmless, vars, wire, table, mind, jobs, place

(* A tick. *)
LEMMA TickRetry ==
  ASSUME Retry, Tick
  PROVE  Retry'
  <1> USE DEF Retry, Loops, Halves, wire, table, mind, jobs, place, Goto, Loop, Visit
  <1>k. NoJob \notin Jobs BY LeaseAssumption
  <1>1. CASE TickStart
    <2> USE <1>1, <1>k DEF TickStart
    <2>1. TypeOK' BY DEF TypeOK, Running
    <2>2. Order' BY DEF TypeOK, Order, Running, RetryIsHarmless
    <2>3. RetryIsHarmless' BY DEF TypeOK, Order, Running, RetryIsHarmless
    <2> QED BY <2>1, <2>2, <2>3
  <1>2. ASSUME NEW j \in Jobs, NEW s \in {"queued", "over"}, Reap(j, s) PROVE Retry'
    <2> USE <1>2, <1>k DEF Reap
    <2>1. TypeOK' BY DEF TypeOK, Running
    <2>2. Order' BY DEF TypeOK, Order, Running, RetryIsHarmless
    <2>3. RetryIsHarmless' BY DEF TypeOK, Order, Running, RetryIsHarmless
    <2> QED BY <2>1, <2>2, <2>3
  <1>3. ASSUME NEW j \in Jobs, ReapLater(j) PROVE Retry'
    <2> USE <1>3, <1>k DEF ReapLater
    <2>1. TypeOK' BY DEF TypeOK, Running
    <2>2. Order' BY DEF TypeOK, Order, Running, RetryIsHarmless
    <2>3. RetryIsHarmless' BY DEF TypeOK, Order, Running, RetryIsHarmless
    <2> QED BY <2>1, <2>2, <2>3
  <1>4. ASSUME NEW ok \in BOOLEAN, Drop(ok) PROVE Retry'
    <2> USE <1>4, <1>k DEF Drop, WireOK
    <2>1. TypeOK' BY ReleaseTypes DEF TypeOK, Running
    <2>2. Order' BY ReleaseTypes DEF TypeOK, Order, Running, RetryIsHarmless
    <2>3. RetryIsHarmless' BY ReleaseTypes DEF TypeOK, Order, Running, RetryIsHarmless
    <2> QED BY <2>1, <2>2, <2>3
  <1>5. CASE ReapDone
    <2> USE <1>5, <1>k DEF ReapDone
    <2>1. TypeOK' BY DEF TypeOK, Running
    <2>2. Order' BY DEF TypeOK, Order, Running, RetryIsHarmless
    <2>3. RetryIsHarmless' BY DEF TypeOK, Order, Running, RetryIsHarmless
    <2> QED BY <2>1, <2>2, <2>3
  <1>6. ASSUME NEW j \in Jobs, NEW ok \in BOOLEAN, Drain(j, ok) PROVE Retry'
    <2> USE <1>6, <1>k DEF Drain, WireOK, Released
    <2>1. TypeOK' BY AskTypes DEF TypeOK, Running
    <2>2. Order' BY AskTypes DEF TypeOK, Order, Running, RetryIsHarmless
    <2>3. RetryIsHarmless' BY AskTypes DEF TypeOK, Order, Running, RetryIsHarmless
    <2> QED BY <2>1, <2>2, <2>3
  <1>7. CASE DrainDone
    <2> USE <1>7, <1>k DEF DrainDone
    <2>1. TypeOK' BY DEF TypeOK, Running
    <2>2. Order' BY DEF TypeOK, Order, Running, RetryIsHarmless
    <2>3. RetryIsHarmless' BY DEF TypeOK, Order, Running, RetryIsHarmless
    <2> QED BY <2>1, <2>2, <2>3
  <1>8. ASSUME NEW j \in Jobs, NEW ok \in BOOLEAN, Reassert(j, ok) PROVE Retry'
    <2> USE <1>8, <1>k DEF Reassert, WireOK
    <2>1. TypeOK' BY AskTypes DEF TypeOK, Running
    <2>2. Order' BY AskTypes DEF TypeOK, Order, Running, RetryIsHarmless
    <2>3. RetryIsHarmless' BY AskTypes DEF TypeOK, Order, Running, RetryIsHarmless
    <2> QED BY <2>1, <2>2, <2>3
  <1>9. CASE AssertDone
    <2> USE <1>9, <1>k DEF AssertDone
    <2>1. TypeOK' BY DEF TypeOK, Running
    <2>2. Order' BY DEF TypeOK, Order, Running, RetryIsHarmless
    <2>3. RetryIsHarmless' BY DEF TypeOK, Order, Running, RetryIsHarmless
    <2> QED BY <2>1, <2>2, <2>3
  <1>10. ASSUME NEW j \in Jobs, Skip(j) PROVE Retry'
    <2> USE <1>10, <1>k DEF Skip
    <2>1. TypeOK' BY DEF TypeOK, Running
    <2>2. Order' BY DEF TypeOK, Order, Running, RetryIsHarmless
    <2>3. RetryIsHarmless' BY DEF TypeOK, Order, Running, RetryIsHarmless
    <2> QED BY <2>1, <2>2, <2>3
  <1>11. ASSUME NEW j \in Jobs, NEW ok \in BOOLEAN, Dispatch(j, ok) PROVE Retry'
    <2> USE <1>11, <1>k DEF Dispatch, WireOK
    <2>1. TypeOK' BY LeaseTypes DEF TypeOK, Running
    <2>2. Order' BY LeaseTypes DEF TypeOK, Order, Running, RetryIsHarmless
    <2>3. RetryIsHarmless' BY LeaseTypes DEF TypeOK, Order, Running, RetryIsHarmless
    <2> QED BY <2>1, <2>2, <2>3
  <1>12. CASE Launch
    <2> USE <1>12, <1>k DEF Launch
    <2>1. TypeOK' BY DEF TypeOK, Running
    <2>2. Order' BY DEF TypeOK, Order, Running, RetryIsHarmless
    <2>3. RetryIsHarmless' BY DEF TypeOK, Order, Running, RetryIsHarmless
    <2> QED BY <2>1, <2>2, <2>3
  <1>13. CASE LaunchFails
    <2> USE <1>13, <1>k DEF LaunchFails
    <2>1. TypeOK' BY DEF TypeOK, Running
    <2>2. Order' BY DEF TypeOK, Order, Running, RetryIsHarmless
    <2>3. RetryIsHarmless' BY DEF TypeOK, Order, Running, RetryIsHarmless
    <2> QED BY <2>1, <2>2, <2>3
  <1>14. ASSUME NEW f \in Jobs, NEW ok \in BOOLEAN, Preempt(f, ok) PROVE Retry'
    <2> USE <1>14, <1>k DEF Preempt, WireOK
    <2>1. TypeOK' BY ReleaseTypes DEF TypeOK, Running
    <2>2. Order' BY ReleaseTypes DEF TypeOK, Order, Running, RetryIsHarmless
    <2>3. RetryIsHarmless' BY ReleaseTypes DEF TypeOK, Order, Running, RetryIsHarmless
    <2> QED BY <2>1, <2>2, <2>3
  <1>15. CASE PreemptRequeue
    <2> USE <1>15, <1>k DEF PreemptRequeue
    <2>1. TypeOK' BY DEF TypeOK, Running
    <2>2. Order' BY DEF TypeOK, Order, Running, RetryIsHarmless
    <2>3. RetryIsHarmless' BY DEF TypeOK, Order, Running, RetryIsHarmless
    <2> QED BY <2>1, <2>2, <2>3
  <1>16. CASE TickEnd
    <2> USE <1>16, <1>k DEF TickEnd
    <2>1. TypeOK' BY DEF TypeOK, Running
    <2>2. Order' BY DEF TypeOK, Order, Running, RetryIsHarmless
    <2>3. RetryIsHarmless' BY DEF TypeOK, Order, Running, RetryIsHarmless
    <2> QED BY <2>1, <2>2, <2>3
  <1> QED BY <1>1, <1>2, <1>3, <1>4, <1>5, <1>6, <1>7, <1>8, <1>9,
            <1>10, <1>11, <1>12, <1>13, <1>14, <1>15, <1>16 DEF Tick

(* Reconcile. *)
LEMMA BootRetry ==
  ASSUME Retry, Boot
  PROVE  Retry'
  <1> USE DEF Retry, Loops, Halves, wire, table, mind, jobs, place, Goto, Loop, Visit
  <1>k. NoJob \notin Jobs BY LeaseAssumption
  <1>1. CASE Restart
    <2> USE <1>1, <1>k DEF Restart
    <2>1. TypeOK' BY DEF TypeOK, Running
    <2>2. Order' BY DEF TypeOK, Order, Running, RetryIsHarmless
    <2>3. RetryIsHarmless' BY DEF TypeOK, Order, Running, RetryIsHarmless
    <2> QED BY <2>1, <2>2, <2>3
  <1>2. ASSUME NEW j \in Jobs, BootLater(j) PROVE Retry'
    <2> USE <1>2, <1>k DEF BootLater
    <2>1. TypeOK' BY DEF TypeOK, Running
    <2>2. Order' BY DEF TypeOK, Order, Running, RetryIsHarmless
    <2>3. RetryIsHarmless' BY DEF TypeOK, Order, Running, RetryIsHarmless
    <2> QED BY <2>1, <2>2, <2>3
  <1>3. ASSUME NEW j \in Jobs, BootFinish(j) PROVE Retry'
    <2> USE <1>3, <1>k DEF BootFinish
    <2>1. TypeOK' BY DEF TypeOK, Running
    <2>2. Order' BY DEF TypeOK, Order, Running, RetryIsHarmless
    <2>3. RetryIsHarmless' BY DEF TypeOK, Order, Running, RetryIsHarmless
    <2> QED BY <2>1, <2>2, <2>3
  <1>4. ASSUME NEW j \in Jobs, NEW ok \in BOOLEAN, BootOrphan(j, ok) PROVE Retry'
    <2> USE <1>4, <1>k DEF BootOrphan, WireOK
    <2>1. TypeOK' BY AskTypes DEF TypeOK, Running
    <2>2. Order' BY AskTypes DEF TypeOK, Order, Running, RetryIsHarmless
    <2>3. RetryIsHarmless' BY AskTypes DEF TypeOK, Order, Running, RetryIsHarmless
    <2> QED BY <2>1, <2>2, <2>3
  <1>5. ASSUME NEW ok \in BOOLEAN, BootDrop(ok) PROVE Retry'
    <2> USE <1>5, <1>k DEF BootDrop, WireOK
    <2>1. TypeOK' BY AskTypes DEF TypeOK, Running
    <2>2. Order' BY AskTypes DEF TypeOK, Order, Running, RetryIsHarmless
    <2>3. RetryIsHarmless' BY AskTypes DEF TypeOK, Order, Running, RetryIsHarmless
    <2> QED BY <2>1, <2>2, <2>3
  <1>6. ASSUME NEW s \in {"queued", "over"}, BootMark(s) PROVE Retry'
    <2> USE <1>6, <1>k DEF BootMark
    <2>1. TypeOK' BY DEF TypeOK, Running
    <2>2. Order' BY DEF TypeOK, Order, Running, RetryIsHarmless
    <2>3. RetryIsHarmless' BY DEF TypeOK, Order, Running, RetryIsHarmless
    <2> QED BY <2>1, <2>2, <2>3
  <1>7. CASE BootDone
    <2> USE <1>7, <1>k DEF BootDone
    <2>1. TypeOK' BY DEF TypeOK, Running
    <2>2. Order' BY DEF TypeOK, Order, Running, RetryIsHarmless
    <2>3. RetryIsHarmless' BY DEF TypeOK, Order, Running, RetryIsHarmless
    <2> QED BY <2>1, <2>2, <2>3
  <1> QED BY <1>1, <1>2, <1>3, <1>4, <1>5, <1>6, <1>7 DEF Boot

(* Requests to pnd. *)
LEMMA RequestRetry ==
  ASSUME Retry, Requests \/ CancelMark
  PROVE  Retry'
  <1> USE DEF Retry, Loops, Halves, wire, table, mind, jobs, place, Goto, Loop, Visit
  <1>k. NoJob \notin Jobs BY LeaseAssumption
  <1>1. ASSUME NEW j \in Jobs, CancelQueued(j) PROVE Retry'
    <2> USE <1>1, <1>k DEF CancelQueued
    <2>1. TypeOK' BY DEF TypeOK, Running
    <2>2. Order' BY DEF TypeOK, Order, Running, RetryIsHarmless
    <2>3. RetryIsHarmless' BY DEF TypeOK, Order, Running, RetryIsHarmless
    <2> QED BY <2>1, <2>2, <2>3
  <1>2. ASSUME NEW j \in Jobs, NEW ok \in BOOLEAN, CancelRunning(j, ok) PROVE Retry'
    <2> USE <1>2, <1>k DEF CancelRunning, WireOK
    <2>1. TypeOK' BY ReleaseTypes DEF TypeOK, Running
    <2>2. Order' BY ReleaseTypes DEF TypeOK, Order, Running, RetryIsHarmless
    <2>3. RetryIsHarmless' BY ReleaseTypes DEF TypeOK, Order, Running, RetryIsHarmless
    <2> QED BY <2>1, <2>2, <2>3
  <1>3. CASE CancelMark
    <2> USE <1>3, <1>k DEF CancelMark
    <2>1. TypeOK' BY DEF TypeOK, Running
    <2>2. Order' BY DEF TypeOK, Order, Running, RetryIsHarmless
    <2>3. RetryIsHarmless' BY DEF TypeOK, Order, Running, RetryIsHarmless
    <2> QED BY <2>1, <2>2, <2>3
  <1>4. ASSUME NEW p \in BOOLEAN, Pause(p) PROVE Retry'
    <2> USE <1>4, <1>k DEF Pause
    <2>1. TypeOK' BY DEF TypeOK, Running
    <2>2. Order' BY DEF TypeOK, Order, Running, RetryIsHarmless
    <2>3. RetryIsHarmless' BY DEF TypeOK, Order, Running, RetryIsHarmless
    <2> QED BY <2>1, <2>2, <2>3
  <1> QED BY <1>1, <1>2, <1>3, <1>4 DEF Requests

(* Crashes, pn-llmd, the units and the clock. *)
LEMMA WorldRetry ==
  ASSUME Retry, Environment
  PROVE  Retry'
  <1> USE DEF Retry, Loops, Halves, wire, table, mind, jobs, place, Goto, Loop, Visit
  <1>k. NoJob \notin Jobs BY LeaseAssumption
  <1>1. CASE Crash
    <2> USE <1>1, <1>k DEF Crash
    <2>t. crashes' \in 0..MaxCrashes BY LeaseAssumption DEF TypeOK
    <2>1. TypeOK' BY <2>t DEF TypeOK, Running
    <2>2. Order' BY DEF TypeOK, Order, Running, RetryIsHarmless
    <2>3. RetryIsHarmless' BY DEF TypeOK, Order, Running, RetryIsHarmless
    <2> QED BY <2>1, <2>2, <2>3
  <1>2. ASSUME NEW verb \in {"lease", "release"}, NEW j \in Jobs, HandleLate(verb, j) PROVE Retry'
    <2> USE <1>2, <1>k DEF HandleLate, Handle, Refuse
    <2>1. TypeOK' BY TableTypes DEF TypeOK, Running
    <2>2. Order' BY TableTypes DEF TypeOK, Order, Running, RetryIsHarmless
    <2>3. RetryIsHarmless' BY TableTypes DEF TypeOK, Order, Running, RetryIsHarmless
    <2> QED BY <2>1, <2>2, <2>3
  <1>3. CASE Sweep
    <2> USE <1>3, <1>k DEF Sweep, Expired
    <2>1. TypeOK' BY TableForgets DEF TypeOK, Running
    <2>2. Order' BY TableForgets DEF TypeOK, Order, Running, RetryIsHarmless
    <2>3. RetryIsHarmless' BY TableForgets DEF TypeOK, Order, Running, RetryIsHarmless
    <2> QED BY <2>1, <2>2, <2>3
  <1>4. CASE LlmdRestarts
    <2> USE <1>4, <1>k DEF LlmdRestarts
    <2>t. faults' \in 0..MaxFaults BY LeaseAssumption DEF TypeOK
    <2>1. TypeOK' BY TableForgets, <2>t DEF TypeOK, Running
    <2>2. Order' BY TableForgets DEF TypeOK, Order, Running, RetryIsHarmless
    <2>3. RetryIsHarmless' BY TableForgets DEF TypeOK, Order, Running, RetryIsHarmless
    <2> QED BY <2>1, <2>2, <2>3
  <1>5. ASSUME NEW j \in Jobs, UnitExits(j) PROVE Retry'
    <2> USE <1>5, <1>k DEF UnitExits
    <2>1. TypeOK' BY DEF TypeOK, Running
    <2>2. Order' BY DEF TypeOK, Order, Running, RetryIsHarmless
    <2>3. RetryIsHarmless' BY DEF TypeOK, Order, Running, RetryIsHarmless
    <2> QED BY <2>1, <2>2, <2>3
  <1>6. CASE TimePasses
    <2> USE <1>6, <1>k DEF TimePasses
    <2>t. age' \in [Jobs -> 0..(Ttl + 1)]
      <3>1. \A i \in Jobs : age[i] <= Ttl => age[i] + 1 \in 0..(Ttl + 1)
        BY LeaseAssumption DEF TypeOK
      <3> QED BY <3>1 DEF TypeOK
    <2>1. TypeOK' BY <2>t DEF TypeOK, Running
    <2>2. Order' BY DEF TypeOK, Order, Running, RetryIsHarmless
    <2>3. RetryIsHarmless' BY DEF TypeOK, Order, Running, RetryIsHarmless
    <2> QED BY <2>1, <2>2, <2>3
  <1> QED BY <1>1, <1>2, <1>3, <1>4, <1>5, <1>6 DEF Environment, Late

LEMMA RetryKept == Retry /\ [Next]_vars => Retry'
  BY RetryIfStill, TickRetry, BootRetry, RequestRetry, WorldRetry DEF Next, Pnd

(* The types of LlmLease: pnd's book, pn-llmd's table, the requests between *)
(* them and the place in the code pnd is at (pnd.py, llmpool.py).           *)
THEOREM TypeCorrect == Spec => []TypeOK
  <1>1. Retry => TypeOK BY DEF Retry
  <1> QED BY <1>1, RetryAtFirst, RetryKept, PTL DEF Spec

(* A release that _drop owes is never owed for a job that runs again under  *)
(* its id: drain_pending_releases cannot free the slot of a running job.    *)
THEOREM RetryIsAlwaysHarmless == Spec => []RetryIsHarmless
  <1>1. Retry => RetryIsHarmless BY DEF Retry
  <1> QED BY <1>1, RetryAtFirst, RetryKept, PTL DEF Spec

-----------------------------------------------------------------------------
(* What the jobs of a set hold. *)

LEMMA ShareIsTenths ==
  ASSUME NEW j \in Jobs
  PROVE  /\ IsFiniteSet(Share(j)) /\ Cardinality(Share(j)) = Tenths[j]
         /\ Tenths[j] \in Nat
  <1>1. Tenths[j] \in Nat \ {0} BY LeaseAssumption
  <1>2. IsFiniteSet(1..Tenths[j]) /\ Cardinality(1..Tenths[j]) = Tenths[j]
    BY <1>1, FS_Interval
  <1>3. IsFiniteSet({j}) /\ Cardinality({j}) = 1 BY FS_Singleton
  <1> QED BY <1>1, <1>2, <1>3, FS_Product DEF Share

Held(S) == UNION {Share(j) : j \in S}

LEMMA HeldIsFinite ==
  ASSUME NEW S \in SUBSET Jobs
  PROVE  IsFiniteSet(Held(S))
  <1> DEFINE F == {Share(j) : j \in S}
             f == [j \in S |-> Share(j)]
  <1>1. IsFiniteSet(S) BY FS_Subset, LeaseAssumption
  <1>2. f \in Surjection(S, F) BY DEF Surjection
  <1>3. IsFiniteSet(F) BY <1>1, <1>2, FS_Surjection
  <1>4. \A T \in F : IsFiniteSet(T) BY ShareIsTenths
  <1> QED BY <1>3, <1>4, FS_UNION DEF Held

(* Fewer jobs hold less. *)
LEMMA UsedMonotone ==
  ASSUME NEW T \in SUBSET Jobs, NEW S \in SUBSET T
  PROVE  Used(S) \in Nat /\ Used(S) <= Used(T) /\ Used(T) \in Nat
  <1>1. Held(S) \subseteq Held(T) BY DEF Held
  <1>2. IsFiniteSet(Held(T)) BY HeldIsFinite
  <1>3. IsFiniteSet(Held(S)) /\ Cardinality(Held(S)) <= Cardinality(Held(T))
    BY <1>1, <1>2, FS_Subset
  <1> QED BY <1>2, <1>3, FS_CardinalityType DEF Used, Held

(* A job more holds its tenths more. *)
LEMMA UsedAdds ==
  ASSUME NEW S \in SUBSET Jobs, NEW j \in Jobs \ S
  PROVE  Used(S \cup {j}) = Used(S) + Tenths[j]
  <1>1. Held(S \cup {j}) = Held(S) \cup Share(j) BY DEF Held
  <1>2. Held(S) \cap Share(j) = {} BY DEF Held, Share
  <1>3. /\ IsFiniteSet(Held(S)) /\ IsFiniteSet(Share(j))
        /\ Cardinality(Share(j)) = Tenths[j] /\ Tenths[j] \in Nat
    BY HeldIsFinite, ShareIsTenths
  <1>4. Cardinality(Held(S)) \in Nat BY <1>3, FS_CardinalityType
  <1>5. Cardinality(Held(S) \cup Share(j))
          = Cardinality(Held(S)) + Cardinality(Share(j)) - Cardinality({})
    BY <1>2, <1>3, FS_Union
  <1>7. Cardinality({}) = 0 BY FS_EmptySet
  <1>6. Used(S) = Cardinality(Held(S)) /\ Used(S \cup {j}) = Cardinality(Held(S \cup {j}))
    BY DEF Used, Held
  <1>8. Used(S \cup {j}) = Cardinality(Held(S) \cup Share(j)) BY <1>1, <1>6, Zenon
  <1>9. Cardinality(Held(S) \cup Share(j)) = Cardinality(Held(S)) + Tenths[j]
    BY <1>3, <1>4, <1>5, <1>7
  <1> QED BY <1>6, <1>8, <1>9

-----------------------------------------------------------------------------
(* RunningFits. *)

(* No request stays without an answer. *)
LEMMA ReleaseAnswered ==
  ASSUME Retry, late = {}, faults' = 0, NEW j \in Jobs, NEW ok,
         Ask("release", j, ok) \/ llm_release(j, ok)
  PROVE  /\ late' = {}
         /\ leases' \subseteq leases /\ leases \ {j} \subseteq leases'
         /\ \A i \in Jobs \ {j} : age'[i] = age[i]
  <1>1. faults' # faults + 1 BY LeaseAssumption DEF Retry, TypeOK
  <1>2. CASE Ask("release", j, ok) BY <1>1, <1>2 DEF Ask, Forget, table
  <1>3. CASE UNCHANGED <<wire, mind>> BY <1>3 DEF wire, table
  <1> QED BY <1>2, <1>3 DEF llm_release

LEMMA LeaseAnswered ==
  ASSUME Retry, late = {}, faults' = 0, NEW j \in Jobs, NEW ok \in BOOLEAN,
         Ask("lease", j, ok) \/ llm_lease(j, ok)
  PROVE  late' = {} /\ (ok => Lease(j)) /\ (~ok => Refuse(j))
  <1>1. faults' # faults + 1 BY LeaseAssumption DEF Retry, TypeOK
  <1>2. Ask("lease", j, ok) BY DEF llm_lease
  <1> QED BY <1>1, <1>2 DEF Ask

(* A job that runs without a lease finds room for it: nothing was promised  *)
(* of what it uses.                                                         *)
LEMMA RunningIsNotRefused ==
  ASSUME Retry, Room, NEW j \in Running
  PROVE  ~Refuse(j)
  <1> SUFFICES ASSUME j \notin leases PROVE Used(leases) + Tenths[j] <= PoolTenths
    BY DEF Refuse, Fits
  <1>1. leases \in SUBSET Jobs /\ j \in Jobs BY DEF Retry, TypeOK, Running
  <1>2. Used(leases \cup {j}) = Used(leases) + Tenths[j] BY <1>1, UsedAdds
  <1>3. leases \cup {j} \subseteq Claimed /\ Claimed \in SUBSET Jobs
    BY <1>1 DEF Claimed, Running
  <1>4. Used(leases \cup {j}) <= Used(Claimed) BY <1>3, UsedMonotone
  <1> QED BY <1>1, <1>2, <1>3, <1>4, UsedMonotone, ShareIsTenths, LeaseAssumption DEF Room

(* No step but a grant claims more. *)
LEMMA RoomStays ==
  ASSUME Retry, Room, Claimed' \subseteq Claimed
  PROVE  (Used(Claimed) <= PoolTenths)'
  <1>1. Claimed \in SUBSET Jobs BY DEF Claimed, Running, Retry, TypeOK
  <1>2. Used(Claimed') <= Used(Claimed) /\ Used(Claimed') \in Nat /\ Used(Claimed) \in Nat
    BY <1>1, UsedMonotone
  <1> QED BY <1>2, LeaseAssumption DEF Room, Used

(* A tick. *)
LEMMA TickRoom ==
  ASSUME Retry, Room, faults' = 0, Tick
  PROVE  Room'
  <1> USE DEF Retry, TypeOK, Order, Loops, Halves, wire, table, mind, jobs, place, Goto, Loop, Visit
  <1>k. NoJob \notin Jobs BY LeaseAssumption
  <1>l. late = {} /\ Renewed BY DEF Room
  <1>1. CASE TickStart
    <2> USE <1>1, <1>k, <1>l DEF TickStart
    <2>1. late' = {} OBVIOUS
    <2>2. Renewed' BY DEF Renewed, Fresh, Running
    <2>3. (Used(Claimed) <= PoolTenths)'
      <3>1. Claimed' \subseteq Claimed BY DEF Claimed, Running
      <3> QED BY <3>1, RoomStays
    <2> QED BY <2>1, <2>2, <2>3 DEF Room
  <1>2. ASSUME NEW j \in Jobs, NEW s \in {"queued", "over"}, Reap(j, s) PROVE Room'
    <2> USE <1>2, <1>k, <1>l DEF Reap
    <2>1. late' = {} OBVIOUS
    <2>2. Renewed' BY DEF Renewed, Fresh, Running
    <2>3. (Used(Claimed) <= PoolTenths)'
      <3>1. Claimed' \subseteq Claimed BY DEF Claimed, Running
      <3> QED BY <3>1, RoomStays
    <2> QED BY <2>1, <2>2, <2>3 DEF Room
  <1>3. ASSUME NEW j \in Jobs, ReapLater(j) PROVE Room'
    <2> USE <1>3, <1>k, <1>l DEF ReapLater
    <2>1. late' = {} OBVIOUS
    <2>2. Renewed' BY DEF Renewed, Fresh, Running
    <2>3. (Used(Claimed) <= PoolTenths)'
      <3>1. Claimed' \subseteq Claimed BY DEF Claimed, Running
      <3> QED BY <3>1, RoomStays
    <2> QED BY <2>1, <2>2, <2>3 DEF Room
  <1>4. ASSUME NEW ok \in BOOLEAN, Drop(ok) PROVE Room'
    <2> USE <1>4, <1>k, <1>l, ReleaseAnswered DEF Drop
    <2>1. late' = {} OBVIOUS
    <2>2. Renewed' BY DEF Renewed, Fresh, Running
    <2>3. (Used(Claimed) <= PoolTenths)'
      <3>1. Claimed' \subseteq Claimed BY DEF Claimed, Running
      <3> QED BY <3>1, RoomStays
    <2> QED BY <2>1, <2>2, <2>3 DEF Room
  <1>5. CASE ReapDone
    <2> USE <1>5, <1>k, <1>l DEF ReapDone
    <2>1. late' = {} OBVIOUS
    <2>2. Renewed' BY DEF Renewed, Fresh, Running
    <2>3. (Used(Claimed) <= PoolTenths)'
      <3>1. Claimed' \subseteq Claimed BY DEF Claimed, Running
      <3> QED BY <3>1, RoomStays
    <2> QED BY <2>1, <2>2, <2>3 DEF Room
  <1>6. ASSUME NEW j \in Jobs, NEW ok \in BOOLEAN, Drain(j, ok) PROVE Room'
    <2> USE <1>6, <1>k, <1>l, ReleaseAnswered DEF Drain
    <2>1. late' = {} OBVIOUS
    <2>2. Renewed' BY DEF Renewed, Fresh, Running
    <2>3. (Used(Claimed) <= PoolTenths)'
      <3>1. Claimed' \subseteq Claimed BY DEF Claimed, Running
      <3> QED BY <3>1, RoomStays
    <2> QED BY <2>1, <2>2, <2>3 DEF Room
  <1>7. CASE DrainDone
    <2> USE <1>7, <1>k, <1>l DEF DrainDone
    <2>1. late' = {} OBVIOUS
    <2>2. Renewed' BY DEF Renewed, Fresh, Running
    <2>3. (Used(Claimed) <= PoolTenths)'
      <3>1. Claimed' \subseteq Claimed BY DEF Claimed, Running
      <3> QED BY <3>1, RoomStays
    <2> QED BY <2>1, <2>2, <2>3 DEF Room
  <1>8. ASSUME NEW j \in Jobs, NEW ok \in BOOLEAN, Reassert(j, ok) PROVE Room'
    <2> USE <1>8, <1>k, <1>l, LeaseAnswered, RunningIsNotRefused DEF Reassert, Lease, Refuse
    <2>1. late' = {} OBVIOUS
    <2>2. Renewed' BY DEF Renewed, Fresh, Running
    <2>3. (Used(Claimed) <= PoolTenths)'
      <3>1. Claimed' \subseteq Claimed BY DEF Claimed, Running
      <3> QED BY <3>1, RoomStays
    <2> QED BY <2>1, <2>2, <2>3 DEF Room
  <1>9. CASE AssertDone
    <2> USE <1>9, <1>k, <1>l DEF AssertDone
    <2>1. late' = {} OBVIOUS
    <2>2. Renewed' BY DEF Renewed, Fresh, Running
    <2>3. (Used(Claimed) <= PoolTenths)'
      <3>1. Claimed' \subseteq Claimed BY DEF Claimed, Running
      <3> QED BY <3>1, RoomStays
    <2> QED BY <2>1, <2>2, <2>3 DEF Room
  <1>10. ASSUME NEW j \in Jobs, Skip(j) PROVE Room'
    <2> USE <1>10, <1>k, <1>l DEF Skip
    <2>1. late' = {} OBVIOUS
    <2>2. Renewed' BY DEF Renewed, Fresh, Running
    <2>3. (Used(Claimed) <= PoolTenths)'
      <3>1. Claimed' \subseteq Claimed BY DEF Claimed, Running
      <3> QED BY <3>1, RoomStays
    <2> QED BY <2>1, <2>2, <2>3 DEF Room
  <1>11. ASSUME NEW j \in Jobs, NEW ok \in BOOLEAN, Dispatch(j, ok) PROVE Room'
    <2> USE <1>11, <1>k, <1>l, LeaseAnswered DEF Dispatch, Lease, Refuse
    <2>1. late' = {} OBVIOUS
    <2>2. Renewed' BY DEF Renewed, Fresh, Running
    <2>3. (Used(Claimed) <= PoolTenths)'
      <3>1. CASE j \in leases \/ ~ok
        <4>1. Claimed' \subseteq Claimed BY <3>1 DEF Claimed, Running
        <4> QED BY <4>1, RoomStays
      <3>2. CASE j \notin leases /\ ok
        <4>1. Used(leases) + Tenths[j] <= PoolTenths BY <3>2 DEF Fits
        <4>2. Used(leases \cup {j}) <= PoolTenths BY <3>2, <4>1, UsedAdds
        <4>3. Running \subseteq leases BY DEF Renewed, Fresh
        <4>4. leases' = leases \cup {j} BY <3>2
        <4>5. Running' = Running BY DEF Running
        <4>6. Claimed' = leases \cup {j} BY <4>3, <4>4, <4>5 DEF Claimed
        <4> QED BY <4>2, <4>6 DEF Used, Share
      <3> QED BY <3>1, <3>2
    <2> QED BY <2>1, <2>2, <2>3 DEF Room
  <1>12. CASE Launch
    <2> USE <1>12, <1>k, <1>l DEF Launch
    <2>1. late' = {} OBVIOUS
    <2>2. Renewed' BY DEF Renewed, Fresh, Running
    <2>3. (Used(Claimed) <= PoolTenths)'
      <3>1. Claimed' \subseteq Claimed BY DEF Claimed, Running, Renewed, Fresh
      <3> QED BY <3>1, RoomStays
    <2> QED BY <2>1, <2>2, <2>3 DEF Room
  <1>13. CASE LaunchFails
    <2> USE <1>13, <1>k, <1>l DEF LaunchFails
    <2>1. late' = {} OBVIOUS
    <2>2. Renewed' BY DEF Renewed, Fresh, Running
    <2>3. (Used(Claimed) <= PoolTenths)'
      <3>1. Claimed' \subseteq Claimed BY DEF Claimed, Running
      <3> QED BY <3>1, RoomStays
    <2> QED BY <2>1, <2>2, <2>3 DEF Room
  <1>14. ASSUME NEW f \in Jobs, NEW ok \in BOOLEAN, Preempt(f, ok) PROVE Room'
    <2> USE <1>14, <1>k, <1>l, ReleaseAnswered DEF Preempt
    <2>1. late' = {} OBVIOUS
    <2>2. Renewed' BY DEF Renewed, Fresh, Running
    <2>3. (Used(Claimed) <= PoolTenths)'
      <3>1. Claimed' \subseteq Claimed BY DEF Claimed, Running
      <3> QED BY <3>1, RoomStays
    <2> QED BY <2>1, <2>2, <2>3 DEF Room
  <1>15. CASE PreemptRequeue
    <2> USE <1>15, <1>k, <1>l DEF PreemptRequeue
    <2>1. late' = {} OBVIOUS
    <2>2. Renewed' BY DEF Renewed, Fresh, Running
    <2>3. (Used(Claimed) <= PoolTenths)'
      <3>1. Claimed' \subseteq Claimed BY DEF Claimed, Running
      <3> QED BY <3>1, RoomStays
    <2> QED BY <2>1, <2>2, <2>3 DEF Room
  <1>16. CASE TickEnd
    <2> USE <1>16, <1>k, <1>l DEF TickEnd
    <2>1. late' = {} OBVIOUS
    <2>2. Renewed' BY DEF Renewed, Fresh, Running
    <2>3. (Used(Claimed) <= PoolTenths)'
      <3>1. Claimed' \subseteq Claimed BY DEF Claimed, Running
      <3> QED BY <3>1, RoomStays
    <2> QED BY <2>1, <2>2, <2>3 DEF Room
  <1> QED BY <1>1, <1>2, <1>3, <1>4, <1>5, <1>6, <1>7, <1>8, <1>9,
            <1>10, <1>11, <1>12, <1>13, <1>14, <1>15, <1>16 DEF Tick

(* Reconcile. *)
LEMMA BootRoom ==
  ASSUME Retry, Room, faults' = 0, Boot
  PROVE  Room'
  <1> USE DEF Retry, TypeOK, Order, Loops, Halves, wire, table, mind, jobs, place, Goto, Loop, Visit
  <1>k. NoJob \notin Jobs BY LeaseAssumption
  <1>l. late = {} /\ Renewed BY DEF Room
  <1>1. CASE Restart
    <2> USE <1>1, <1>k, <1>l DEF Restart
    <2>1. late' = {} OBVIOUS
    <2>2. Renewed' BY DEF Renewed, Fresh, Running
    <2>3. (Used(Claimed) <= PoolTenths)'
      <3>1. Claimed' \subseteq Claimed BY DEF Claimed, Running
      <3> QED BY <3>1, RoomStays
    <2> QED BY <2>1, <2>2, <2>3 DEF Room
  <1>2. ASSUME NEW j \in Jobs, BootLater(j) PROVE Room'
    <2> USE <1>2, <1>k, <1>l DEF BootLater
    <2>1. late' = {} OBVIOUS
    <2>2. Renewed' BY DEF Renewed, Fresh, Running
    <2>3. (Used(Claimed) <= PoolTenths)'
      <3>1. Claimed' \subseteq Claimed BY DEF Claimed, Running
      <3> QED BY <3>1, RoomStays
    <2> QED BY <2>1, <2>2, <2>3 DEF Room
  <1>3. ASSUME NEW j \in Jobs, BootFinish(j) PROVE Room'
    <2> USE <1>3, <1>k, <1>l DEF BootFinish
    <2>1. late' = {} OBVIOUS
    <2>2. Renewed' BY DEF Renewed, Fresh, Running
    <2>3. (Used(Claimed) <= PoolTenths)'
      <3>1. Claimed' \subseteq Claimed BY DEF Claimed, Running
      <3> QED BY <3>1, RoomStays
    <2> QED BY <2>1, <2>2, <2>3 DEF Room
  <1>4. ASSUME NEW j \in Jobs, NEW ok \in BOOLEAN, BootOrphan(j, ok) PROVE Room'
    <2> USE <1>4, <1>k, <1>l, ReleaseAnswered DEF BootOrphan
    <2>1. late' = {} OBVIOUS
    <2>2. Renewed' BY DEF Renewed, Fresh, Running
    <2>3. (Used(Claimed) <= PoolTenths)'
      <3>1. Claimed' \subseteq Claimed BY DEF Claimed, Running
      <3> QED BY <3>1, RoomStays
    <2> QED BY <2>1, <2>2, <2>3 DEF Room
  <1>5. ASSUME NEW ok \in BOOLEAN, BootDrop(ok) PROVE Room'
    <2> USE <1>5, <1>k, <1>l, ReleaseAnswered DEF BootDrop
    <2>1. late' = {} OBVIOUS
    <2>2. Renewed' BY DEF Renewed, Fresh, Running
    <2>3. (Used(Claimed) <= PoolTenths)'
      <3>1. Claimed' \subseteq Claimed BY DEF Claimed, Running
      <3> QED BY <3>1, RoomStays
    <2> QED BY <2>1, <2>2, <2>3 DEF Room
  <1>6. ASSUME NEW s \in {"queued", "over"}, BootMark(s) PROVE Room'
    <2> USE <1>6, <1>k, <1>l DEF BootMark
    <2>1. late' = {} OBVIOUS
    <2>2. Renewed' BY DEF Renewed, Fresh, Running
    <2>3. (Used(Claimed) <= PoolTenths)'
      <3>1. Claimed' \subseteq Claimed BY DEF Claimed, Running
      <3> QED BY <3>1, RoomStays
    <2> QED BY <2>1, <2>2, <2>3 DEF Room
  <1>7. CASE BootDone
    <2> USE <1>7, <1>k, <1>l DEF BootDone
    <2>1. late' = {} OBVIOUS
    <2>2. Renewed' BY DEF Renewed, Fresh, Running
    <2>3. (Used(Claimed) <= PoolTenths)'
      <3>1. Claimed' \subseteq Claimed BY DEF Claimed, Running
      <3> QED BY <3>1, RoomStays
    <2> QED BY <2>1, <2>2, <2>3 DEF Room
  <1> QED BY <1>1, <1>2, <1>3, <1>4, <1>5, <1>6, <1>7 DEF Boot

(* Requests to pnd. *)
LEMMA RequestRoom ==
  ASSUME Retry, Room, faults' = 0, Requests \/ CancelMark
  PROVE  Room'
  <1> USE DEF Retry, TypeOK, Order, Loops, Halves, wire, table, mind, jobs, place, Goto, Loop, Visit
  <1>k. NoJob \notin Jobs BY LeaseAssumption
  <1>l. late = {} /\ Renewed BY DEF Room
  <1>1. ASSUME NEW j \in Jobs, CancelQueued(j) PROVE Room'
    <2> USE <1>1, <1>k, <1>l DEF CancelQueued
    <2>1. late' = {} OBVIOUS
    <2>2. Renewed' BY DEF Renewed, Fresh, Running
    <2>3. (Used(Claimed) <= PoolTenths)'
      <3>1. Claimed' \subseteq Claimed BY DEF Claimed, Running
      <3> QED BY <3>1, RoomStays
    <2> QED BY <2>1, <2>2, <2>3 DEF Room
  <1>2. ASSUME NEW j \in Jobs, NEW ok \in BOOLEAN, CancelRunning(j, ok) PROVE Room'
    <2> USE <1>2, <1>k, <1>l, ReleaseAnswered DEF CancelRunning
    <2>1. late' = {} OBVIOUS
    <2>2. Renewed' BY DEF Renewed, Fresh, Running
    <2>3. (Used(Claimed) <= PoolTenths)'
      <3>1. Claimed' \subseteq Claimed BY DEF Claimed, Running
      <3> QED BY <3>1, RoomStays
    <2> QED BY <2>1, <2>2, <2>3 DEF Room
  <1>3. CASE CancelMark
    <2> USE <1>3, <1>k, <1>l DEF CancelMark
    <2>1. late' = {} OBVIOUS
    <2>2. Renewed' BY DEF Renewed, Fresh, Running
    <2>3. (Used(Claimed) <= PoolTenths)'
      <3>1. Claimed' \subseteq Claimed BY DEF Claimed, Running
      <3> QED BY <3>1, RoomStays
    <2> QED BY <2>1, <2>2, <2>3 DEF Room
  <1>4. ASSUME NEW p \in BOOLEAN, Pause(p) PROVE Room'
    <2> USE <1>4, <1>k, <1>l DEF Pause
    <2>1. late' = {} OBVIOUS
    <2>2. Renewed' BY DEF Renewed, Fresh, Running
    <2>3. (Used(Claimed) <= PoolTenths)'
      <3>1. Claimed' \subseteq Claimed BY DEF Claimed, Running
      <3> QED BY <3>1, RoomStays
    <2> QED BY <2>1, <2>2, <2>3 DEF Room
  <1> QED BY <1>1, <1>2, <1>3, <1>4 DEF Requests

(* Crashes, pn-llmd, the units and the clock. *)
LEMMA WorldRoom ==
  ASSUME Retry, Room, faults' = 0, Environment
  PROVE  Room'
  <1> USE DEF Retry, TypeOK, Order, Loops, Halves, wire, table, mind, jobs, place, Goto, Loop, Visit
  <1>k. NoJob \notin Jobs BY LeaseAssumption
  <1>l. late = {} /\ Renewed BY DEF Room
  <1>1. CASE Crash
    <2> USE <1>1, <1>k, <1>l DEF Crash
    <2>1. late' = {} OBVIOUS
    <2>2. Renewed' BY DEF Renewed, Fresh, Running
    <2>3. (Used(Claimed) <= PoolTenths)'
      <3>1. Claimed' \subseteq Claimed BY DEF Claimed, Running
      <3> QED BY <3>1, RoomStays
    <2> QED BY <2>1, <2>2, <2>3 DEF Room
  <1>2. ASSUME NEW verb \in {"lease", "release"}, NEW j \in Jobs, HandleLate(verb, j) PROVE Room'
    <2> USE <1>2, <1>k, <1>l DEF HandleLate
    <2>1. late' = {} OBVIOUS
    <2>2. Renewed' BY DEF Renewed, Fresh, Running
    <2>3. (Used(Claimed) <= PoolTenths)'
      <3>1. Claimed' \subseteq Claimed BY DEF Claimed, Running
      <3> QED BY <3>1, RoomStays
    <2> QED BY <2>1, <2>2, <2>3 DEF Room
  <1>3. CASE Sweep
    <2> USE <1>3, <1>k, <1>l DEF Sweep, Forget, Expired
    <2>1. late' = {} OBVIOUS
    <2>2. Renewed' BY LeaseAssumption DEF Renewed, Fresh, Running
    <2>3. (Used(Claimed) <= PoolTenths)'
      <3>1. Claimed' \subseteq Claimed BY DEF Claimed, Running
      <3> QED BY <3>1, RoomStays
    <2> QED BY <2>1, <2>2, <2>3 DEF Room
  <1>4. CASE LlmdRestarts
    BY <1>4, LeaseAssumption DEF LlmdRestarts
  <1>5. ASSUME NEW j \in Jobs, UnitExits(j) PROVE Room'
    <2> USE <1>5, <1>k, <1>l DEF UnitExits
    <2>1. late' = {} OBVIOUS
    <2>2. Renewed' BY DEF Renewed, Fresh, Running
    <2>3. (Used(Claimed) <= PoolTenths)'
      <3>1. Claimed' \subseteq Claimed BY DEF Claimed, Running
      <3> QED BY <3>1, RoomStays
    <2> QED BY <2>1, <2>2, <2>3 DEF Room
  <1>6. CASE TimePasses
    <2> USE <1>6, <1>k, <1>l DEF TimePasses
    <2>1. late' = {} OBVIOUS
    <2>2. Renewed' BY DEF Renewed, Fresh, Running
    <2>3. (Used(Claimed) <= PoolTenths)'
      <3>1. Claimed' \subseteq Claimed BY DEF Claimed, Running
      <3> QED BY <3>1, RoomStays
    <2> QED BY <2>1, <2>2, <2>3 DEF Room
  <1> QED BY <1>1, <1>2, <1>3, <1>4, <1>5, <1>6 DEF Environment, Late

-----------------------------------------------------------------------------
(* What any step does to the table: nothing is added but by a grant. *)
TableStep ==
  /\ faults' = faults \/ faults' = faults + 1
  /\ leases' \subseteq leases \/ \E j \in Jobs : Lease(j)

LEMMA AskSteps ==
  ASSUME NEW j \in Jobs, NEW ok, NEW verb \in {"lease", "release"},
         Ask(verb, j, ok) \/ llm_release(j, ok) \/ llm_lease(j, ok)
  PROVE  TableStep
  <1> SUFFICES ASSUME Ask(verb, j, ok) \/ Ask("lease", j, ok) \/ Ask("release", j, ok)
                        \/ UNCHANGED wire
               PROVE  TableStep
    BY DEF llm_release, llm_lease
  <1> QED BY DEF Ask, TableStep, Forget, Refuse, table, wire

LEMMA EachStep == TypeOK /\ [Next]_vars => TableStep
  <1> SUFFICES ASSUME TypeOK, [Next]_vars PROVE TableStep OBVIOUS
  <1>k. op \in Halves => cur \in Jobs BY DEF TypeOK
  <1>1. CASE Tick
    <2>1. ASSUME NEW ok \in BOOLEAN, Drop(ok) PROVE TableStep
      BY <1>k, <2>1, AskSteps DEF Drop, Halves
    <2>2. ASSUME NEW j \in Jobs, NEW ok \in BOOLEAN,
                 Drain(j, ok) \/ Reassert(j, ok) \/ Dispatch(j, ok) \/ Preempt(j, ok)
          PROVE  TableStep
      BY <2>2, AskSteps DEF Drain, Reassert, Dispatch, Preempt
    <2>3. CASE UNCHANGED wire BY <2>3 DEF TableStep, wire, table
    <2> QED BY <1>1, <2>1, <2>2, <2>3
      DEF Tick, TickStart, ReapDone, DrainDone, AssertDone, TickEnd, Launch, LaunchFails,
          PreemptRequeue, Reap, ReapLater, Skip
  <1>2. CASE Boot
    <2>1. ASSUME NEW ok \in BOOLEAN, BootDrop(ok) PROVE TableStep
      BY <1>k, <2>1, AskSteps DEF BootDrop, Halves
    <2>2. ASSUME NEW j \in Jobs, NEW ok \in BOOLEAN, BootOrphan(j, ok) PROVE TableStep
      BY <2>2, AskSteps DEF BootOrphan
    <2>3. CASE UNCHANGED wire BY <2>3 DEF TableStep, wire, table
    <2> QED BY <1>2, <2>1, <2>2, <2>3
      DEF Boot, Restart, BootDone, BootLater, BootFinish, BootMark
  <1>3. CASE Requests \/ CancelMark
    <2>1. ASSUME NEW j \in Jobs, NEW ok \in BOOLEAN, CancelRunning(j, ok) PROVE TableStep
      BY <2>1, AskSteps DEF CancelRunning
    <2>2. CASE UNCHANGED wire BY <2>2 DEF TableStep, wire, table
    <2> QED BY <1>3, <2>1, <2>2 DEF Requests, CancelQueued, Pause, CancelMark
  <1>4. CASE Environment
    BY <1>4 DEF Environment, Late, HandleLate, Handle, Refuse, Sweep, LlmdRestarts, Crash,
                TimePasses, UnitExits, Forget, TableStep, wire, table
  <1>5. CASE UNCHANGED vars BY <1>5 DEF vars, wire, table, TableStep
  <1> QED BY <1>1, <1>2, <1>3, <1>4, <1>5 DEF Next, Pnd

LEMMA NothingUsed == Used({}) = 0
  <1>1. UNION {Share(j) : j \in {}} = {} OBVIOUS
  <1> QED BY <1>1, FS_EmptySet DEF Used

LEMMA RoomAtFirst == Init => RoomIfAnswered /\ TableFits
  <1> SUFFICES ASSUME Init PROVE RoomIfAnswered /\ TableFits OBVIOUS
  <1>1. leases = {} /\ Claimed = {} BY DEF Init, Claimed, Running
  <1>2. Used(leases) <= PoolTenths /\ Used(Claimed) <= PoolTenths
    BY <1>1, NothingUsed, LeaseAssumption
  <1>3. late = {} /\ Renewed BY DEF Init, Renewed, Fresh, Running
  <1> QED BY <1>2, <1>3 DEF RoomIfAnswered, Room, TableFits

LEMMA RoomKept == Retry /\ RoomIfAnswered /\ [Next]_vars => RoomIfAnswered'
  <1> SUFFICES ASSUME Retry, RoomIfAnswered, [Next]_vars, faults' = 0 PROVE Room'
    BY DEF RoomIfAnswered
  <1>1. faults = 0 BY EachStep, LeaseAssumption DEF Retry, TypeOK, TableStep
  <1>2. Room BY <1>1 DEF RoomIfAnswered
  <1>3. CASE UNCHANGED vars
    <2>1. UNCHANGED <<late, Claimed, Renewed, PoolTenths>>
      BY <1>3 DEF vars, wire, table, jobs, place, Claimed, Renewed, Fresh, Running
    <2> QED BY <1>2, <2>1 DEF Room, Used, Share
  <1> QED BY <1>2, <1>3, TickRoom, BootRoom, RequestRoom, WorldRoom DEF Next, Pnd

(* As long as pn-llmd answers every request of pnd, the jobs that run fit   *)
(* into the pool: reassert_llm_leases comes before dispatch in every tick,  *)
(* so a lease that lapsed in a pause, or that a crash of pnd left behind,   *)
(* never lets another job in beside a running one.                          *)
THEOREM RunningAlwaysFits == Spec => []RunningFits
  <1>1. Retry /\ RoomIfAnswered => RunningFits
    <2> SUFFICES ASSUME Retry, RoomIfAnswered, faults = 0 PROVE Used(Running) <= PoolTenths
      BY DEF RunningFits
    <2>1. Running \subseteq Claimed /\ Claimed \in SUBSET Jobs
      BY DEF Claimed, Running, Retry, TypeOK
    <2>2. Used(Claimed) <= PoolTenths BY DEF RoomIfAnswered, Room
    <2> QED BY <2>1, <2>2, UsedMonotone, LeaseAssumption
  <1> QED BY <1>1, RetryAtFirst, RetryKept, RoomAtFirst, RoomKept, PTL DEF Spec

(* Whatever is lost, late or restarted, LeaseTable never promises more than *)
(* pool_slots: a request that pnd gave up on is granted only if it fits.    *)
THEOREM TableAlwaysFits == Spec => []TableFits
  <1>1. Retry /\ TableFits /\ [Next]_vars => TableFits'
    <2> SUFFICES ASSUME Retry, TableFits, [Next]_vars PROVE TableFits' OBVIOUS
    <2>1. leases \in SUBSET Jobs BY DEF Retry, TypeOK
    <2>2. CASE leases' \subseteq leases
      <3>1. Used(leases') <= Used(leases) /\ Used(leases') \in Nat /\ Used(leases) \in Nat
        BY <2>1, <2>2, UsedMonotone
      <3> QED BY <3>1, LeaseAssumption DEF TableFits, Used
    <2>3. ASSUME NEW j \in Jobs \ leases, Lease(j) PROVE TableFits'
      <3>1. Used(leases \cup {j}) <= PoolTenths BY <2>1, <2>3, UsedAdds DEF Lease, Fits
      <3>2. leases' = leases \cup {j} BY <2>3 DEF Lease
      <3> QED BY <3>1, <3>2 DEF TableFits, Used, Share
    <2> QED BY <2>2, <2>3, EachStep DEF TableStep, Retry, Lease
  <1>2. Init => TableFits BY RoomAtFirst
  <1> QED BY <1>1, <1>2, RetryAtFirst, RetryKept, PTL DEF Spec

=============================================================================
