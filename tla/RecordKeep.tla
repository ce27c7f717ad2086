----------------------------- MODULE RecordKeep -----------------------------
(***************************************************************************)
(* What becomes of a result after the verdict: pnd's sweep copies the       *)
(* workspace to a replica, and removes it when its retention is over or the *)
(* disk is short (tools/pnd, pnlib/record.py, pnlib/replication.py); the    *)
(* Hausmeister, a thread of its own with a connection of its own, moves old *)
(* rows of the job table to an archive database (pnlib/hausmeister.py).     *)
(*                                                                          *)
(* The sweep and requests hold pnd's lock; the Hausmeister only waits for   *)
(* it before a batch.  A step is one commit or one change of the file       *)
(* system.  The events of a job go with its row.                            *)
(***************************************************************************)
EXTENDS Integers, FiniteSets

CONSTANTS
  Jobs,        \* ids, in the order of submission
  Relations,   \* [needs, group]: what the jobs depend on and belong to
  Targets,     \* kinds of replica: "dir" (LocalDirTarget), "rsync"
  Limit,       \* how many jobs a sweep replicates
  MaxFails,    \* bound: sweeps that an exception ends, workspaces half removed
  MaxCrashes   \* bound: ends of pnd

ASSUME KeepAssumption ==
  /\ Jobs \subseteq Nat \ {0} /\ IsFiniteSet(Jobs)
  /\ \A r \in Relations : /\ r.needs \in [Jobs -> SUBSET Jobs]
                          /\ DOMAIN r.group = Jobs
  /\ Targets \subseteq {"dir", "rsync"}
  /\ Limit \in Nat \ {0} /\ MaxFails \in Nat /\ MaxCrashes \in Nat

VARIABLES
  rel, target,    \* never change
  state,          \* of a job
  live, archive,  \* the jobs with a row in queue.db and in queue-archiv.db
  path,           \* rows with a workspace_path
  replicated,     \* rows with replicated = 1
  workspace,      \* on the disk: "none", "whole", or the "rest" of a removal
  replica,        \* off the box: "none", "part" or "whole"
  expired,        \* jobs that are done and whose retention is over
  pc, todo, cur,  \* where the sweep is, the jobs it still visits, the one at work
  hm, shield, batch,  \* where the Hausmeister is, what it spares, what it moves
  raced,          \* jobs that came while it had looked for their dependencies
  torn,           \* rows lost in a commit over two databases
  fails, crashes

rows == <<state, live, archive, path, replicated>>
bytes == <<workspace, replica>>
sweep == <<pc, todo, cur>>
house == <<hm, shield, batch>>
ghost == <<raced, torn>>
bounds == <<fails, crashes>>
vars == <<rel, target, rows, bytes, expired, sweep, house, ghost, bounds>>

NoJob == 0
Terminal == {"done", "failed", "cancelled"}
Ended == {j \in live : state[j] \in Terminal}
Needs(j) == rel.needs[j]
SameGroup(i, j) == rel.group[i] = rel.group[j]

TypeOK ==
  /\ rel \in Relations /\ target \in Targets
  /\ state \in [Jobs -> Terminal \cup {"new", "blocked", "queued", "running"}]
  /\ live \subseteq Jobs /\ archive \subseteq Jobs
  /\ path \subseteq Jobs /\ replicated \subseteq Jobs
  /\ workspace \in [Jobs -> {"none", "whole", "rest"}]
  /\ replica \in [Jobs -> {"none", "part", "whole"}]
  /\ expired \subseteq Jobs
  /\ pc \in {"idle", "replicate", "pushed", "gc", "disposed", "press", "pressed"}
  /\ todo \subseteq live /\ cur \in live \cup {NoJob}
  /\ hm \in {"off", "pick", "move"}
  /\ shield \subseteq Jobs /\ batch \subseteq Jobs
  /\ raced \subseteq Jobs /\ torn \subseteq Jobs
  /\ fails \in 0..MaxFails /\ crashes \in 0..MaxCrashes

-----------------------------------------------------------------------------
(* The life of a job up to its verdict, as far as the keeping depends on it. *)

SetState(j, from, to) == pc = "idle" /\ state[j] = from /\ state' = [state EXCEPT ![j] = to]

(* validate_deps_ownership refuses a job when a dependency has no row. *)
Submit(j) ==
  /\ Needs(j) \subseteq live
  /\ SetState(j, "new", IF Needs(j) = {} THEN "queued" ELSE "blocked")
  /\ live' = live \cup {j}
  /\ raced' = IF hm \in {"pick", "move"} THEN raced \cup {j} ELSE raced
  /\ UNCHANGED <<rel, target, archive, path, replicated, bytes, expired, sweep, house,
                 torn, bounds>>

(* gate_dag: a dependency without a row counts as failed. *)
DepsFailed(j) == \E d \in Needs(j) : d \notin live \/ state[d] \in Terminal \ {"done"}
DepsDone(j) == \A d \in Needs(j) : d \in live /\ state[d] = "done"

Gate(j) ==
  /\ \/ DepsFailed(j) /\ (SetState(j, "blocked", "cancelled") \/ SetState(j, "queued", "cancelled"))
     \/ DepsDone(j) /\ SetState(j, "blocked", "queued")
  /\ UNCHANGED <<rel, target, live, archive, path, replicated, bytes, expired, sweep, house,
                 ghost, bounds>>

Cancel(j) ==
  /\ \/ SetState(j, "queued", "cancelled")
     \/ SetState(j, "running", "cancelled")
  /\ UNCHANGED <<rel, target, live, archive, path, replicated, bytes, expired, sweep, house,
                 ghost, bounds>>

Start(j) ==
  /\ SetState(j, "queued", "running")
  /\ path' = path \cup {j} /\ workspace' = [workspace EXCEPT ![j] = "whole"]
  /\ UNCHANGED <<rel, target, live, archive, replicated, replica, expired, sweep, house,
                 ghost, bounds>>

(* Only a job that is done has record_ok. *)
HasRecord(j) == state[j] = "done"

Finish(j) ==
  /\ \/ SetState(j, "running", "done")
     \/ SetState(j, "running", "failed")
  /\ UNCHANGED <<rel, target, live, archive, path, replicated, bytes, expired, sweep, house,
                 ghost, bounds>>

Expire(j) ==
  /\ HasRecord(j) /\ j \notin expired
  /\ expired' = expired \cup {j}
  /\ UNCHANGED <<rel, target, rows, bytes, sweep, house, ghost, bounds>>

-----------------------------------------------------------------------------
(* maybe_gc, within a tick: replicate_sweep, then gc_sweep. *)

(* Mutant: the limit counts what is not replicated as well. *)
ReplicationPendingLate ==
  {j \in Ended \cap path : /\ HasRecord(j) /\ j \notin replicated
                          /\ Cardinality({i \in Ended \cap path : i < j}) < Limit}

(* The first Limit jobs by id. *)
ReplicationPending ==
  LET P == {j \in Ended \cap path : HasRecord(j) /\ j \notin replicated}
  IN  {j \in P : Cardinality({i \in P : i < j}) < Limit}

GcCandidates == {j \in Ended \cap path : HasRecord(j) /\ j \in replicated \cap expired}

(* disk_pressure_victims do not wait for the retention. *)
DiskPressureVictims == Ended \cap path \cap replicated

Sweep(from, to, S) == pc = from /\ pc' = to /\ todo' = S

BeginSweep ==
  /\ Sweep("idle", "replicate", ReplicationPending)
  /\ UNCHANGED <<rel, target, rows, bytes, expired, cur, house, ghost, bounds>>

(* LocalDirTarget takes a directory of the right name for the copy. *)
Copied(j) == target = "dir" /\ replica[j] # "none"

(* Mutant: LocalDirTarget copies straight to the name that it looks for. *)
InterruptedInPlace(j) ==
  IF replica[j] = "none" THEN [replica EXCEPT ![j] = "part"] ELSE replica

(* An interrupted rsync leaves a part where the copy will be; a directory   *)
(* is copied under another name and then renamed.                           *)
Interrupted(j) ==
  IF target = "rsync" /\ replica[j] = "none" THEN [replica EXCEPT ![j] = "part"] ELSE replica

(* The target cannot be reached, or gives up half way. *)
PushFails(j) ==
  /\ j \in todo /\ ~Copied(j)
  /\ Sweep("replicate", "replicate", todo \ {j})
  /\ replica' \in {replica, Interrupted(j)}
  /\ UNCHANGED <<rel, target, rows, workspace, expired, cur, house, ghost, bounds>>

Push(j) ==
  /\ j \in todo
  /\ Sweep("replicate", "pushed", todo \ {j}) /\ cur' = j
  /\ replica' = IF Copied(j) THEN replica ELSE [replica EXCEPT ![j] = workspace[j]]
  /\ UNCHANGED <<rel, target, rows, workspace, expired, house, ghost, bounds>>

MarkReplicated ==
  /\ Sweep("pushed", "replicate", todo) /\ cur' = NoJob
  /\ replicated' = replicated \cup {cur}
  /\ UNCHANGED <<rel, target, state, live, archive, path, bytes, expired, house, ghost, bounds>>

BeginGc ==
  /\ todo = {}
  /\ Sweep("replicate", "gc", GcCandidates)
  /\ UNCHANGED <<rel, target, rows, bytes, expired, cur, house, ghost, bounds>>

(* dispose_workspace: rename to the trash, or remove in place; a workspace  *)
(* that is not there was disposed of by a sweep that did not get further.   *)
Dispose(j) ==
  /\ j \in todo
  /\ Sweep("gc", "disposed", todo \ {j}) \/ Sweep("press", "pressed", todo \ {j})
  /\ cur' = j
  /\ workspace' = [workspace EXCEPT ![j] = "none"]
  /\ UNCHANGED <<rel, target, rows, replica, expired, house, ghost, bounds>>

DisposeFails(j) ==
  /\ j \in todo /\ workspace[j] # "none"
  /\ pc \in {"gc", "press"} /\ Sweep(pc, pc, todo \ {j})
  /\ fails < MaxFails /\ fails' = fails + 1
  /\ workspace' = [workspace EXCEPT ![j] = "rest"]
  /\ UNCHANGED <<rel, target, rows, replica, expired, cur, house, ghost, crashes>>

MarkGcd ==
  /\ Sweep("disposed", "gc", todo) \/ Sweep("pressed", "press", todo)
  /\ cur' = NoJob
  /\ path' = path \ {cur}
  /\ UNCHANGED <<rel, target, state, live, archive, replicated, bytes, expired, house, ghost,
                 bounds>>

(* What is free on the disk is not in the model: the sweep may end before   *)
(* or between the victims.                                                  *)
BeginPressure ==
  /\ todo = {}
  /\ Sweep("gc", "press", DiskPressureVictims)
  /\ UNCHANGED <<rel, target, rows, bytes, expired, cur, house, ghost, bounds>>

EndSweep ==
  /\ pc = "gc" => todo = {}
  /\ pc \in {"gc", "press"} /\ Sweep(pc, "idle", {})
  /\ UNCHANGED <<rel, target, rows, bytes, expired, cur, house, ghost, bounds>>

(* An exception, for instance of a database that the Hausmeister holds, is  *)
(* caught by maybe_gc.                                                      *)
SweepFails ==
  /\ pc # "idle" /\ Sweep(pc, "idle", {}) /\ cur' = NoJob
  /\ fails < MaxFails /\ fails' = fails + 1
  /\ UNCHANGED <<rel, target, rows, bytes, expired, house, ghost, crashes>>

-----------------------------------------------------------------------------
(* The Hausmeister. *)

House(from, to) == hm = from /\ hm' = to
Active == {j \in live : state[j] \notin Terminal}

(* _geschuetzte_ids, before every batch: what jobs without a verdict need.  *)
(* Before, the Hausmeister has had pnd's lock, or else it has given up.     *)
HmProtect ==
  /\ House("off", "pick") /\ pc = "idle"
  /\ shield' = UNION {Needs(j) : j \in Active}
  /\ UNCHANGED <<rel, target, rows, bytes, expired, sweep, batch, ghost, bounds>>

(* jobs_auslagern: rows without a workspace, of groups that are over; which  *)
(* of them are old enough is not in the model.                              *)
Movable == {j \in Ended \ path : \A i \in Active : ~SameGroup(i, j)}

(* Mutant: what others need is moved as well. *)
HmPickAll ==
  /\ batch' \in SUBSET Movable
  /\ House("pick", IF batch' = {} THEN "off" ELSE "move")
  /\ shield' = {}
  /\ UNCHANGED <<rel, target, rows, bytes, expired, sweep, ghost, bounds>>

HmPick ==
  /\ batch' \in SUBSET (Movable \ shield)
  /\ House("pick", IF batch' = {} THEN "off" ELSE "move")
  /\ shield' = {}
  /\ UNCHANGED <<rel, target, rows, bytes, expired, sweep, ghost, bounds>>

(* One transaction: INSERT OR REPLACE into the archive, then DELETE. *)
HmMove ==
  /\ House("move", "off")
  /\ archive' = archive \cup batch /\ live' = live \ batch
  /\ batch' = {}
  /\ UNCHANGED <<rel, target, state, path, replicated, bytes, expired, sweep, shield, ghost,
                 bounds>>

-----------------------------------------------------------------------------
(* pnd ends, in the middle of a copy or of a commit perhaps.  queue.db has  *)
(* a write-ahead log: then SQLite commits each of two attached databases by *)
(* itself.                                                                  *)
Crash ==
  /\ crashes < MaxCrashes /\ crashes' = crashes + 1
  /\ Sweep(pc, "idle", {}) /\ cur' = NoJob
  /\ hm' = "off" /\ shield' = {} /\ batch' = {}
  /\ replica' \in {replica} \cup
                  {Interrupted(j) : j \in IF pc = "replicate" THEN todo ELSE {}}
  /\ \E in, out \in BOOLEAN :
       /\ in \/ out => hm = "move"
       /\ archive' = IF in THEN archive \cup batch ELSE archive
       /\ live' = IF out THEN live \ batch ELSE live
       /\ torn' = IF out /\ ~in THEN torn \cup (batch \ archive) ELSE torn
  /\ UNCHANGED <<rel, target, state, path, replicated, workspace, expired, raced, fails>>

-----------------------------------------------------------------------------
Init ==
  /\ rel \in Relations /\ target \in Targets
  /\ state = [j \in Jobs |-> "new"]
  /\ live = {} /\ archive = {} /\ path = {} /\ replicated = {}
  /\ workspace = [j \in Jobs |-> "none"] /\ replica = [j \in Jobs |-> "none"]
  /\ expired = {}
  /\ pc = "idle" /\ todo = {} /\ cur = NoJob
  /\ hm = "off" /\ shield = {} /\ batch = {}
  /\ raced = {} /\ torn = {} /\ fails = 0 /\ crashes = 0

GoOn == MarkReplicated \/ BeginGc \/ MarkGcd \/ BeginPressure \/ EndSweep

Next ==
  \/ \E j \in Jobs :
       \/ Submit(j) \/ Gate(j) \/ Cancel(j) \/ Start(j) \/ Finish(j) \/ Expire(j)
       \/ PushFails(j) \/ Push(j) \/ Dispose(j) \/ DisposeFails(j)
  \/ BeginSweep \/ GoOn \/ SweepFails
  \/ HmProtect \/ HmPick \/ HmMove
  \/ Crash

Spec == Init /\ [][Next]_vars

(* A sweep goes on and comes every minute, time passes, and the target can  *)
(* be reached time and again.                                               *)
Fairness ==
  /\ WF_vars(BeginSweep) /\ WF_vars(GoOn)
  /\ \A j \in Jobs : WF_vars(Expire(j)) /\ SF_vars(Push(j)) /\ SF_vars(Dispose(j))

FairSpec == Spec /\ Fairness

-----------------------------------------------------------------------------
(* Properties.                                                              *)

(* The result of a job that is done exists whole, and a row says where: in  *)
(* its workspace, or with the replica.  Copies that were interrupted,       *)
(* removals that were, sweeps that begin again and crashes do not matter;   *)
(* only a row lost between two databases is gone.                           *)
ResultFound ==
  \A j \in Jobs : state[j] = "done" =>
    /\ j \in live \cup archive \cup torn
    /\ (j \in path /\ workspace[j] = "whole") \/ (j \in replicated /\ replica[j] = "whole")

(* A job that waits does not lose a dependency that is done to the archive, *)
(* for gate_dag would cancel it: the Hausmeister spares what is needed,     *)
(* unless the job came after it had looked.                                 *)
DependencyStays ==
  \A j \in Jobs \ raced : state[j] \in {"blocked", "queued"} =>
    \A d \in Needs(j) : state[d] = "done" => d \in live

(* Time and again no job that is done has anything left on the disk,        *)
(* whatever failed or crashed on the way; so no row may leave the table,    *)
(* where the sweep looks for it, before its workspace does.                 *)
SpaceComesBack == []<>(\A j \in Jobs : HasRecord(j) => workspace[j] = "none")

=============================================================================
