------------------------------ MODULE LlmLease ------------------------------
(***************************************************************************)
(* The slots of the LLM pool that jobs hold: pnd asks pn-llmd for a lease   *)
(* before it starts a job, renews the leases of running jobs on its ticks   *)
(* and gives a lease back when the job is over (engine/tools/pnd); pn-llmd  *)
(* keeps the table and lets a lease expire (engine/pnlib/llmpool.py).       *)
(*                                                                          *)
(* pnd waits one second for an answer.  A request it gives up on may have   *)
(* been handled, may be handled later, or may never arrive.  pnd holds its  *)
(* lock through a tick, so a step here is one request with what pnd does    *)
(* with the answer, or one commit to the job store.                         *)
(***************************************************************************)
EXTENDS Naturals, FiniteSets

CONSTANTS
  Jobs,        \* jobs with an llm_weight
  Tenths,      \* lease_tenths of each job
  PoolTenths,  \* pool_slots * SLOT_TENTHS
  Fillers,     \* the jobs that yield to others
  Ttl,         \* LEASE_TTL_S, in units of time
  MaxFaults,   \* bound: requests without an answer, restarts of pn-llmd
  MaxCrashes   \* bound: crashes of pnd

NoJob == "no job"

ASSUME LeaseAssumption ==
  /\ IsFiniteSet(Jobs) /\ NoJob \notin Jobs
  /\ Tenths \in [Jobs -> Nat \ {0}]
  /\ PoolTenths \in Nat
  /\ Fillers \subseteq Jobs
  /\ Ttl \in Nat /\ MaxFaults \in Nat /\ MaxCrashes \in Nat

VARIABLES
  leases, age,     \* LeaseTable: who holds a lease, and since when
  late,            \* requests pnd gave up on that pn-llmd will still handle
  held, pending,   \* pnd's LLM_HELD and PENDING_RELEASE
  st, alive,       \* the jobs' rows, and whether their units run
  op, cur, todo,   \* where pnd is: the loop, its job, the jobs left in it
  paused,          \* _ADMISSION_PAUSED, or the disk is below its floor
  ticked,          \* a tick has ended since time last passed
  faults, crashes

table == <<leases, age>>
wire == <<table, late, faults>>
mind == <<held, pending>>
jobs == <<st, alive>>
place == <<op, cur, todo>>
vars == <<wire, mind, jobs, place, paused, ticked, crashes>>

Loops == {"boot", "reap", "drain", "assert", "dispatch"}
Halves == {"bootdrop", "bootmark", "reapdrop", "launchdrop", "launch",
           "cancelled", "preempted"}
Running == {j \in Jobs : st[j] = "running"}

TypeOK ==
  /\ leases \subseteq Jobs
  /\ age \in [Jobs -> 0..(Ttl + 1)]
  /\ late \subseteq {"lease", "release"} \X Jobs
  /\ held \subseteq Jobs
  /\ pending \subseteq Jobs
  /\ st \in [Jobs -> {"queued", "running", "over"}]
  /\ alive \in [Jobs -> BOOLEAN]
  /\ op \in {"down", "idle"} \cup Loops \cup Halves
  /\ cur \in Jobs \cup {NoJob}
  /\ op \in Halves <=> cur \in Jobs
  /\ todo \subseteq Jobs
  /\ paused \in BOOLEAN /\ ticked \in BOOLEAN
  /\ faults \in 0..MaxFaults /\ crashes \in 0..MaxCrashes

-----------------------------------------------------------------------------
(* LeaseTable, under its lock.                                              *)

(* The tenths that the jobs of S hold: one element for each. *)
Share(j) == {j} \X (1..Tenths[j])
Used(S) == Cardinality(UNION {Share(j) : j \in S})

Fits(j) == Used(leases) + Tenths[j] <= PoolTenths

(* A lease that is there is renewed; a new one needs room. *)
Lease(j) ==
  /\ j \in leases \/ Fits(j)
  /\ leases' = leases \cup {j}
  /\ age' = [age EXCEPT ![j] = 0]

Refuse(j) == j \notin leases /\ ~Fits(j) /\ UNCHANGED table

Forget(S) ==
  /\ leases' = leases \ S
  /\ age' = [j \in Jobs |-> IF j \in S THEN 0 ELSE age[j]]

Handle(verb, j) ==
  \/ verb = "lease" /\ (Lease(j) \/ Refuse(j))
  \/ verb = "release" /\ Forget({j})

(* A request of pnd.  It is answered in time, or pnd gives up; then pn-llmd  *)
(* may still get to it.                                                     *)
Ask(verb, j, ok) ==
  \/ /\ ok
     /\ verb = "lease" => Lease(j)
     /\ verb = "release" => Forget({j})
     /\ UNCHANGED <<late, faults>>
  \/ ~ok /\ verb = "lease" /\ Refuse(j) /\ UNCHANGED <<late, faults>>
  \/ /\ ~ok /\ faults < MaxFaults
     /\ faults' = faults + 1
     /\ late' \in {late, late \cup {<<verb, j>>}}
     /\ UNCHANGED table

-----------------------------------------------------------------------------
(* pnd's book of leases.                                                    *)

(* Mutant: a release that is still owed stays owed. *)
LeaseKeepsOwed(j, ok) ==
  /\ Ask("lease", j, ok)
  /\ held' = IF ok THEN held \cup {j} ELSE held
  /\ UNCHANGED pending

llm_lease(j, ok) ==
  /\ Ask("lease", j, ok)
  /\ held' = IF ok THEN held \cup {j} ELSE held
  /\ pending' = IF ok THEN pending \ {j} ELSE pending

(* What a release that was sent leaves in the book. *)
Released(j, ok) ==
  /\ held' = IF ok THEN held \ {j} ELSE held
  /\ pending' = IF ok THEN pending \ {j} ELSE pending \cup {j}

(* Nothing is sent for a job that is in neither book. *)
llm_release(j, ok) ==
  IF j \in held \cup pending
  THEN Ask("release", j, ok) /\ Released(j, ok)
  ELSE ok /\ UNCHANGED <<wire, mind>>

-----------------------------------------------------------------------------
(* A tick: reap, pending releases, renewals, dispatch.                      *)

Goto(o, c, t) == op' = o /\ cur' = c /\ todo' = t
Loop(o) == op' = o /\ cur' = NoJob /\ UNCHANGED todo
Visit(j) == Goto(op, NoJob, todo \ {j})

TickStart ==
  /\ op = "idle"
  /\ Goto("reap", NoJob, Running)
  /\ UNCHANGED <<wire, mind, jobs, paused, ticked, crashes>>

(* The unit is over, or is stopped for its time or its disk: the row is     *)
(* closed, or queued again after an OOM kill or a drain; _drop follows.     *)
Reap(j, s) ==
  /\ op = "reap" /\ j \in todo
  /\ s \in {"queued", "over"}
  /\ st' = [st EXCEPT ![j] = s]
  /\ alive' = [alive EXCEPT ![j] = FALSE]
  /\ Goto("reapdrop", j, todo \ {j})
  /\ UNCHANGED <<wire, mind, paused, ticked, crashes>>

ReapLater(j) ==
  /\ op = "reap" /\ j \in todo /\ alive[j]
  /\ Visit(j)
  /\ UNCHANGED <<wire, mind, jobs, paused, ticked, crashes>>

(* Mutant: the job stays at hand. *)
DropKeepsJob(ok) ==
  /\ op \in {"reapdrop", "launchdrop"}
  /\ llm_release(cur, ok)
  /\ op' = IF op = "reapdrop" THEN "reap" ELSE "dispatch"
  /\ UNCHANGED <<cur, todo, jobs, paused, ticked, crashes>>

(* _drop of a job that was reaped, or that could not be started. *)
Drop(ok) ==
  /\ op \in {"reapdrop", "launchdrop"}
  /\ llm_release(cur, ok)
  /\ Loop(IF op = "reapdrop" THEN "reap" ELSE "dispatch")
  /\ UNCHANGED <<jobs, paused, ticked, crashes>>

ReapDone ==
  /\ op = "reap" /\ todo = {}
  /\ Goto("drain", NoJob, pending)
  /\ UNCHANGED <<wire, mind, jobs, paused, ticked, crashes>>

Drain(j, ok) ==
  /\ op = "drain" /\ j \in todo
  /\ Ask("release", j, ok)
  /\ Released(j, ok)
  /\ Visit(j)
  /\ UNCHANGED <<jobs, paused, ticked, crashes>>

(* Mutant: dispatch does not wait for the renewals. *)
DrainDoneAtOnce ==
  /\ op = "drain" /\ todo = {}
  /\ IF paused THEN Goto("idle", NoJob, {}) ELSE Goto("dispatch", NoJob, {j \in Jobs : st[j] = "queued"})
  /\ ticked' = (ticked \/ paused)
  /\ UNCHANGED <<wire, mind, jobs, paused, crashes>>

(* Mutant: only leases that pnd knows of are renewed. *)
DrainDoneHeld ==
  /\ op = "drain" /\ todo = {}
  /\ IF paused THEN Goto("idle", NoJob, {}) ELSE Goto("assert", NoJob, Running \cap held)
  /\ ticked' = (ticked \/ paused)
  /\ UNCHANGED <<wire, mind, jobs, paused, crashes>>

(* Paused, or no disk: the tick ends here, and renews nothing. *)
DrainDone ==
  /\ op = "drain" /\ todo = {}
  /\ IF paused THEN Goto("idle", NoJob, {}) ELSE Goto("assert", NoJob, Running)
  /\ ticked' = (ticked \/ paused)
  /\ UNCHANGED <<wire, mind, jobs, paused, crashes>>

(* reassert_llm_leases; what is owed for the job is not looked at. *)
Reassert(j, ok) ==
  /\ op = "assert" /\ j \in todo
  /\ Ask("lease", j, ok)
  /\ held' = IF ok THEN held \cup {j} ELSE held
  /\ Visit(j)
  /\ UNCHANGED <<pending, jobs, paused, ticked, crashes>>

AssertDone ==
  /\ op = "assert" /\ todo = {}
  /\ Goto("dispatch", NoJob, {j \in Jobs : st[j] = "queued"})
  /\ UNCHANGED <<wire, mind, jobs, paused, ticked, crashes>>

(* A job that does not fit the box waits for another tick. *)
Skip(j) ==
  /\ op = "dispatch" /\ j \in todo \ Fillers
  /\ Visit(j)
  /\ UNCHANGED <<wire, mind, jobs, paused, ticked, crashes>>

(* One that fits asks for its lease, fillers last; a refusal ends the loop, *)
(* of the jobs or of the fillers.                                           *)
Dispatch(j, ok) ==
  /\ op = "dispatch" /\ j \in todo
  /\ j \in Fillers => todo \subseteq Fillers
  /\ llm_lease(j, ok)
  /\ IF ok THEN Goto("launch", j, todo \ {j})
     ELSE Goto("dispatch", NoJob, IF j \in Fillers THEN {} ELSE todo \cap Fillers)
  /\ UNCHANGED <<jobs, paused, ticked, crashes>>

Launch ==
  /\ op = "launch"
  /\ st' = [st EXCEPT ![cur] = "running"]
  /\ alive' = [alive EXCEPT ![cur] = TRUE]
  /\ Loop("dispatch")
  /\ UNCHANGED <<wire, mind, paused, ticked, crashes>>

LaunchFails ==
  /\ op = "launch"
  /\ st' = [st EXCEPT ![cur] = "over"]
  /\ op' = "launchdrop"
  /\ UNCHANGED <<wire, mind, alive, cur, todo, paused, ticked, crashes>>

(* Real work that does not fit takes the place of a filler: the lease is    *)
(* given back before the row is queued again.                               *)
Preempt(f, ok) ==
  /\ op = "dispatch" /\ ~(todo \subseteq Fillers) /\ f \in Fillers \cap Running
  /\ alive' = [alive EXCEPT ![f] = FALSE]
  /\ llm_release(f, ok)
  /\ Goto("preempted", f, todo)
  /\ UNCHANGED <<st, paused, ticked, crashes>>

PreemptRequeue ==
  /\ op = "preempted"
  /\ st' = [st EXCEPT ![cur] = "queued"]
  /\ Goto("dispatch", NoJob, todo \cup {cur})
  /\ UNCHANGED <<wire, mind, alive, paused, ticked, crashes>>

TickEnd ==
  /\ op = "dispatch"
  /\ Goto("idle", NoJob, {})
  /\ ticked' = TRUE
  /\ UNCHANGED <<wire, mind, jobs, paused, crashes>>

-----------------------------------------------------------------------------
(* Requests to pnd, between ticks.                                          *)

CancelQueued(j) ==
  /\ op = "idle" /\ st[j] = "queued"
  /\ st' = [st EXCEPT ![j] = "over"]
  /\ UNCHANGED <<wire, mind, alive, place, paused, ticked, crashes>>

(* Stop, _drop, and only then the row. *)
CancelRunning(j, ok) ==
  /\ op = "idle" /\ j \in Running
  /\ alive' = [alive EXCEPT ![j] = FALSE]
  /\ llm_release(j, ok)
  /\ Goto("cancelled", j, todo)
  /\ UNCHANGED <<st, paused, ticked, crashes>>

CancelMark ==
  /\ op = "cancelled"
  /\ st' = [st EXCEPT ![cur] = "over"]
  /\ Loop("idle")
  /\ UNCHANGED <<wire, mind, alive, paused, ticked, crashes>>

Pause(p) ==
  /\ op = "idle" /\ paused # p
  /\ paused' = p
  /\ UNCHANGED <<wire, mind, jobs, place, ticked, crashes>>

-----------------------------------------------------------------------------
(* A crash of pnd, and reconcile.                                           *)

Crash ==
  /\ op # "down" /\ crashes < MaxCrashes
  /\ crashes' = crashes + 1
  /\ held' = {} /\ pending' = {}
  /\ Goto("down", NoJob, {})
  /\ UNCHANGED <<wire, jobs, paused, ticked>>

Restart ==
  /\ op = "down"
  /\ Goto("boot", NoJob, Running)
  /\ UNCHANGED <<wire, mind, jobs, paused, ticked, crashes>>

BootLater(j) ==
  /\ op = "boot" /\ j \in todo /\ alive[j]
  /\ Visit(j)
  /\ UNCHANGED <<wire, mind, jobs, paused, ticked, crashes>>

(* The exit code is there: the row is closed, then the lease given back. *)
BootFinish(j) ==
  /\ op = "boot" /\ j \in todo /\ ~alive[j]
  /\ st' = [st EXCEPT ![j] = "over"]
  /\ Goto("bootdrop", j, todo \ {j})
  /\ UNCHANGED <<wire, mind, alive, paused, ticked, crashes>>

(* An orphan: the lease is given back, then the row is closed or queued.    *)
BootOrphan(j, ok) ==
  /\ op = "boot" /\ j \in todo /\ ~alive[j]
  /\ Ask("release", j, ok)
  /\ pending' = IF ok THEN pending ELSE pending \cup {j}
  /\ Goto("bootmark", j, todo \ {j})
  /\ UNCHANGED <<held, jobs, paused, ticked, crashes>>

BootDrop(ok) ==
  /\ op = "bootdrop"
  /\ Ask("release", cur, ok)
  /\ pending' = IF ok THEN pending ELSE pending \cup {cur}
  /\ Loop("boot")
  /\ UNCHANGED <<held, jobs, paused, ticked, crashes>>

BootMark(s) ==
  /\ op = "bootmark" /\ s \in {"queued", "over"}
  /\ st' = [st EXCEPT ![cur] = s]
  /\ Loop("boot")
  /\ UNCHANGED <<wire, mind, alive, paused, ticked, crashes>>

BootDone ==
  /\ op = "boot" /\ todo = {}
  /\ Loop("idle")
  /\ UNCHANGED <<wire, mind, jobs, paused, ticked, crashes>>

-----------------------------------------------------------------------------
(* pn-llmd, the units and the clock.                                        *)

(* A request that pnd has given up on is handled after all. *)
HandleLate(verb, j) ==
  /\ <<verb, j>> \in late
  /\ Handle(verb, j)
  /\ late' = late \ {<<verb, j>>}
  /\ UNCHANGED <<faults, mind, jobs, place, paused, ticked, crashes>>

(* Mutant: the table is not swept. *)
ExpiredNever == {}

Expired == {j \in leases : age[j] > Ttl}

Sweep ==
  /\ Expired # {}
  /\ Forget(Expired)
  /\ UNCHANGED <<late, faults, mind, jobs, place, paused, ticked, crashes>>

(* The table and the requests in pn-llmd are gone. *)
LlmdRestarts ==
  /\ faults < MaxFaults
  /\ faults' = faults + 1
  /\ Forget(leases)
  /\ late' = {}
  /\ UNCHANGED <<mind, jobs, place, paused, ticked, crashes>>

UnitExits(j) ==
  /\ alive[j]
  /\ alive' = [alive EXCEPT ![j] = FALSE]
  /\ UNCHANGED <<wire, mind, st, place, paused, ticked, crashes>>

(* Ticks are short against the time to live: one ends in every unit of time *)
(* that pnd is up.                                                          *)
TimePasses ==
  /\ op = "down" \/ (op = "idle" /\ ticked)
  /\ ticked' = FALSE
  /\ age' = [j \in Jobs |-> IF j \in leases /\ age[j] <= Ttl THEN age[j] + 1 ELSE age[j]]
  /\ UNCHANGED <<leases, late, faults, mind, jobs, place, paused, crashes>>

-----------------------------------------------------------------------------
Init ==
  /\ leases = {} /\ age = [j \in Jobs |-> 0]
  /\ late = {} /\ faults = 0
  /\ held = {} /\ pending = {}
  /\ st = [j \in Jobs |-> "queued"] /\ alive = [j \in Jobs |-> FALSE]
  /\ op = "idle" /\ cur = NoJob /\ todo = {}
  /\ paused = FALSE /\ ticked = FALSE /\ crashes = 0

Tick ==
  \/ TickStart \/ ReapDone \/ DrainDone \/ AssertDone \/ TickEnd
  \/ Launch \/ LaunchFails \/ PreemptRequeue
  \/ \E j \in Jobs, s \in {"queued", "over"} : (~alive[j] \/ s = "over") /\ Reap(j, s)
  \/ \E j \in Jobs : ReapLater(j) \/ Skip(j)
  \/ \E ok \in BOOLEAN : Drop(ok)
  \/ \E j \in Jobs, ok \in BOOLEAN :
       Drain(j, ok) \/ Reassert(j, ok) \/ Dispatch(j, ok) \/ Preempt(j, ok)

Boot ==
  \/ Restart \/ BootDone
  \/ \E j \in Jobs : BootLater(j) \/ BootFinish(j)
  \/ \E ok \in BOOLEAN : BootDrop(ok) \/ \E j \in Jobs : BootOrphan(j, ok)
  \/ \E s \in {"queued", "over"} : BootMark(s)

Pnd == Tick \/ Boot \/ CancelMark

Requests ==
  \/ \E j \in Jobs : CancelQueued(j) \/ \E ok \in BOOLEAN : CancelRunning(j, ok)
  \/ \E p \in BOOLEAN : Pause(p)

Late == \E verb \in {"lease", "release"}, j \in Jobs : HandleLate(verb, j)

Environment ==
  Late \/ Sweep \/ LlmdRestarts \/ Crash \/ TimePasses \/ \E j \in Jobs : UnitExits(j)

Next == Pnd \/ Requests \/ Environment

Spec == Init /\ [][Next]_vars

(* pnd is kept up and its ticks end; pn-llmd sweeps; the clock goes on.     *)
Fairness == WF_vars(Pnd) /\ WF_vars(Late) /\ WF_vars(Sweep) /\ SF_vars(TimePasses)

FairSpec == Spec /\ Fairness

-----------------------------------------------------------------------------
(* Properties.                                                              *)

(* A release that is owed is never owed for a job that runs again under the *)
(* same id: a retry by drain_pending_releases cannot take a running job's   *)
(* lease.  Between _drop and the commit that follows it the job is dead.    *)
RetryIsHarmless ==
  \A j \in pending \cap Running : j = cur /\ op \in {"cancelled", "preempted", "bootmark"}

(* As long as every request is answered, what runs fits into the pool:      *)
(* through pauses that outlast the leases, ends of jobs that pnd does not   *)
(* see, and crashes of pnd.                                                 *)
RunningFits == faults = 0 => Used(Running) <= PoolTenths

(* Whatever became of the answers, a lease that no running job needs is     *)
(* given back by a retry or by the table itself.                            *)
LeasesAreFreed ==
  \A j \in Jobs : (j \in leases /\ st[j] # "running") ~> (j \notin leases \/ st[j] = "running")

(* A running job that lost its lease (to a restart of pn-llmd, to expiry,   *)
(* to a release that was handled late) gets it back, unless the pool is     *)
(* full or pnd is told to stand still.                                      *)
LeasesComeBack ==
  \A j \in Jobs :
    (j \in Running /\ j \notin leases)
      ~> (j \in leases \/ j \notin Running \/ ~Fits(j) \/ paused)

=============================================================================
