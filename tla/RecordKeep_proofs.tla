-------------------------- MODULE RecordKeep_proofs --------------------------
(***************************************************************************)
(* Proofs about RecordKeep, for any jobs, relations, targets and bounds.    *)
(*                                                                          *)
(* TypeOK says that what a sweep visits has a row.  That the Hausmeister    *)
(* never takes such a row away is not for types to see: it moves only rows  *)
(* without a workspace, and the sweep visits only rows with one.  Kept puts *)
(* the two together, and says what each phase of a sweep may rely on.       *)
(***************************************************************************)
EXTENDS RecordKeep, TLAPS

Visited == todo \cup ({cur} \ {NoJob})

Copying == pc \in {"replicate", "pushed"}
Removing == pc \in {"gc", "disposed", "press", "pressed"}

(* Rows: who has one, and who has a workspace. *)
Rows ==
  /\ \A j \in Jobs : state[j] # "new" => j \in live \cup archive \cup torn
  /\ \A j \in Jobs : state[j] \in {"blocked", "queued", "running"} => j \in live
  /\ \A j \in Jobs : state[j] = "running" => j \in path /\ workspace[j] = "whole"
  /\ path \subseteq live

(* Copies: a workspace is removed only when its copy is whole. *)
Copies ==
  /\ \A j \in replicated : replica[j] = "whole"
  /\ \A j \in Jobs \ replicated : state[j] = "done" => j \in path /\ workspace[j] = "whole"
  /\ target = "dir" => \A j \in Jobs : replica[j] # "part"

(* Phases of the sweep. *)
Phases ==
  /\ Visited \subseteq path /\ cur \notin todo
  /\ pc = "idle" => todo = {}
  /\ pc \in {"pushed", "disposed", "pressed"} <=> cur # NoJob
  /\ Copying => \A j \in Visited : state[j] = "done" /\ workspace[j] = "whole"
  /\ pc = "pushed" => replica[cur] = "whole"
  /\ Removing => \A j \in Visited : j \in replicated /\ state[j] \in Terminal

(* What the Hausmeister has in hand. *)
InHand ==
  /\ hm # "move" => batch = {}
  /\ batch \subseteq live \ path
  /\ \A j \in batch : state[j] \in Terminal
  /\ hm = "pick" => \A i \in Active \ raced : Needs(i) \subseteq shield
  /\ hm = "move" => \A i \in Active \ raced : Needs(i) \cap batch = {}

Kept == TypeOK /\ Rows /\ Copies /\ Phases /\ InHand /\ DependencyStays

-----------------------------------------------------------------------------
(* Every constant a step leaves alone, and what it says of dependencies. *)
LEMMA Known == TypeOK => /\ \A j \in Jobs : Needs(j) \subseteq Jobs
                         /\ NoJob \notin Jobs
  BY KeepAssumption DEF TypeOK, Needs, NoJob

LEMMA KeptAtFirst == Init => Kept
  <1> SUFFICES ASSUME Init PROVE Kept OBVIOUS
  <1> USE DEF Init
  <1>1. TypeOK BY KeepAssumption DEF TypeOK
  <1>2. Rows /\ Copies BY DEF Rows, Copies
  <1>3. Phases BY DEF Phases, Visited, Copying, Removing
  <1>4. InHand /\ DependencyStays BY DEF InHand, DependencyStays
  <1> QED BY <1>1, <1>2, <1>3, <1>4 DEF Kept

LEMMA KeptIfStill == Kept /\ UNCHANGED vars => Kept'
  BY DEF Kept, TypeOK, Rows, Copies, Phases, InHand, DependencyStays, Visited, Copying,
         Removing, Active, Needs, vars, rows, bytes, sweep, house, ghost, bounds

(* The steps of a job's life. *)
LEMMA LifeKeeps ==
  ASSUME Kept, NEW j \in Jobs,
         Submit(j) \/ Gate(j) \/ Cancel(j) \/ Start(j) \/ Finish(j) \/ Expire(j)
  PROVE  Kept'
  <1> USE DEF Kept, bytes, sweep, house, ghost, bounds, rows
  <1>k. Needs(j) \subseteq Jobs /\ NoJob \notin Jobs BY Known
  <1>1. CASE Submit(j)
    <2> USE <1>1, <1>k DEF Submit, SetState
    <2>1. TypeOK' BY DEF TypeOK
    <2>2. Rows' BY DEF TypeOK, Rows
    <2>3. Copies' BY DEF TypeOK, Copies
    <2>4. Phases' BY DEF TypeOK, Phases, Visited, Copying, Removing
    <2>5. InHand' BY DEF TypeOK, Rows, InHand, Active, Terminal, Needs
    <2>6. DependencyStays' BY DEF TypeOK, DependencyStays, Needs
    <2> QED BY <2>1, <2>2, <2>3, <2>4, <2>5, <2>6
  <1>2. ASSUME state[j] \in {"blocked", "queued", "running"},
               \E to \in {"queued", "cancelled", "done", "failed"} :
                 state' = [state EXCEPT ![j] = to],
               state'[j] = "queued" => state[j] # "running",
               state'[j] = "done" => state[j] = "running",
               pc = "idle",
               UNCHANGED <<rel, target, live, archive, path, replicated, bytes, expired,
                           sweep, house, ghost, bounds>>
        PROVE  Kept'
    <2> USE <1>2, <1>k
    <2>1. TypeOK' BY DEF TypeOK, Terminal
    <2>2. Rows' BY DEF TypeOK, Rows
    <2>3. Copies' BY DEF TypeOK, Copies, Rows
    <2>4. Phases' BY DEF TypeOK, Phases, Visited, Copying, Removing
    <2>5. InHand' BY DEF TypeOK, InHand, Active, Terminal, Needs
    <2>6. DependencyStays' BY DEF TypeOK, DependencyStays, Rows, Needs
    <2> QED BY <2>1, <2>2, <2>3, <2>4, <2>5, <2>6
  <1>3. CASE Gate(j) BY <1>2, <1>3 DEF Gate, SetState, TypeOK
  <1>4. CASE Cancel(j) BY <1>2, <1>4 DEF Cancel, SetState, TypeOK
  <1>5. CASE Finish(j) BY <1>2, <1>5 DEF Finish, SetState, TypeOK
  <1>6. CASE Start(j)
    <2> USE <1>6, <1>k DEF Start, SetState
    <2>1. TypeOK' BY DEF TypeOK
    <2>2. Rows' BY DEF TypeOK, Rows
    <2>3. Copies' BY DEF TypeOK, Copies
    <2>4. Phases' BY DEF TypeOK, Phases, Visited, Copying, Removing
    <2>5. InHand' BY DEF TypeOK, InHand, Active, Terminal, Needs
    <2>6. DependencyStays' BY DEF TypeOK, DependencyStays, Needs
    <2> QED BY <2>1, <2>2, <2>3, <2>4, <2>5, <2>6
  <1>7. CASE Expire(j)
    BY <1>7 DEF Expire, TypeOK, Rows, Copies, Phases, InHand, DependencyStays, Visited,
                Copying, Removing, Active, Needs
  <1> QED BY <1>1, <1>3, <1>4, <1>5, <1>6, <1>7

(* The steps of the sweep. *)
LEMMA CopyKeeps ==
  ASSUME Kept,
         \/ BeginSweep \/ MarkReplicated \/ BeginGc
         \/ \E j \in Jobs : PushFails(j) \/ Push(j)
  PROVE  Kept'
  <1> USE DEF Kept, bytes, sweep, house, ghost, bounds, rows, Sweep
  <1>k. NoJob \notin Jobs BY Known
  <1>1. CASE BeginSweep
    <2> USE <1>1, <1>k DEF BeginSweep
    <2>1. TypeOK' BY DEF TypeOK, ReplicationPending, Ended
    <2>2. Rows' /\ Copies' BY DEF TypeOK, Rows, Copies
    <2>3. Phases'
      BY DEF TypeOK, Phases, Copies, Visited, Copying, Removing, ReplicationPending, Ended,
             HasRecord
    <2>4. InHand' /\ DependencyStays' BY DEF TypeOK, InHand, DependencyStays, Active, Needs
    <2> QED BY <2>1, <2>2, <2>3, <2>4
  <1>2. CASE MarkReplicated
    <2> USE <1>2, <1>k DEF MarkReplicated
    <2>0. cur \in Jobs /\ cur # NoJob /\ replica[cur] = "whole" BY DEF Phases, TypeOK
    <2>1. TypeOK' BY <2>0 DEF TypeOK
    <2>2. Rows' /\ Copies' BY <2>0 DEF TypeOK, Rows, Copies
    <2>3. Phases' BY DEF TypeOK, Phases, Visited, Copying, Removing
    <2>4. InHand' /\ DependencyStays' BY DEF TypeOK, InHand, DependencyStays, Active, Needs
    <2> QED BY <2>1, <2>2, <2>3, <2>4
  <1>3. CASE BeginGc
    <2> USE <1>3, <1>k DEF BeginGc
    <2>1. TypeOK' BY DEF TypeOK, GcCandidates, Ended
    <2>2. Rows' /\ Copies' BY DEF TypeOK, Rows, Copies
    <2>3. Phases'
      BY DEF TypeOK, Phases, Visited, Copying, Removing, GcCandidates, Ended
    <2>4. InHand' /\ DependencyStays' BY DEF TypeOK, InHand, DependencyStays, Active, Needs
    <2> QED BY <2>1, <2>2, <2>3, <2>4
  <1>4. ASSUME NEW j \in Jobs, PushFails(j) PROVE Kept'
    <2> USE <1>4, <1>k DEF PushFails
    <2>0. /\ replica' \in [Jobs -> {"none", "part", "whole"}]
          /\ \A i \in Jobs : replica[i] = "whole" => replica'[i] = "whole"
          /\ target = "dir" => replica' = replica
      BY DEF TypeOK, Interrupted
    <2>1. TypeOK' BY <2>0 DEF TypeOK
    <2>2. Rows' /\ Copies' BY <2>0 DEF TypeOK, Rows, Copies
    <2>3. Phases' BY <2>0 DEF TypeOK, Phases, Visited, Copying, Removing
    <2>4. InHand' /\ DependencyStays' BY DEF TypeOK, InHand, DependencyStays, Active, Needs
    <2> QED BY <2>1, <2>2, <2>3, <2>4
  <1>5. ASSUME NEW j \in Jobs, Push(j) PROVE Kept'
    <2> USE <1>5, <1>k DEF Push
    <2>0. workspace[j] = "whole" /\ state[j] = "done"
      BY DEF Phases, Visited, Copying, TypeOK
    <2>1. replica' = [replica EXCEPT ![j] = "whole"]
      BY <2>0 DEF Copied, Copies, TypeOK
    <2>2. TypeOK' BY <2>1 DEF TypeOK, Phases, Visited
    <2>3. Rows' /\ Copies' BY <2>1 DEF TypeOK, Rows, Copies
    <2>4. Phases' BY <2>0, <2>1 DEF TypeOK, Phases, Visited, Copying, Removing
    <2>5. InHand' /\ DependencyStays' BY DEF TypeOK, InHand, DependencyStays, Active, Needs
    <2> QED BY <2>2, <2>3, <2>4, <2>5
  <1> QED BY <1>1, <1>2, <1>3, <1>4, <1>5

LEMMA RemovalKeeps ==
  ASSUME Kept,
         \/ MarkGcd \/ BeginPressure \/ EndSweep \/ SweepFails
         \/ \E j \in Jobs : Dispose(j) \/ DisposeFails(j)
  PROVE  Kept'
  <1> USE DEF Kept, bytes, sweep, house, ghost, bounds, rows, Sweep
  <1>k. NoJob \notin Jobs BY Known
  <1>1. CASE MarkGcd
    <2> USE <1>1, <1>k DEF MarkGcd
    <2>0. cur \in replicated /\ state[cur] \in Terminal
      BY DEF Phases, Visited, Removing, TypeOK
    <2>1. TypeOK' BY DEF TypeOK
    <2>2. Rows' /\ Copies' BY <2>0 DEF TypeOK, Rows, Copies, Terminal
    <2>3. Phases' BY DEF TypeOK, Phases, Visited, Copying, Removing
    <2>4. InHand' /\ DependencyStays' BY DEF TypeOK, InHand, DependencyStays, Active, Needs
    <2> QED BY <2>1, <2>2, <2>3, <2>4
  <1>2. CASE BeginPressure
    <2> USE <1>2, <1>k DEF BeginPressure
    <2>1. TypeOK' BY DEF TypeOK, DiskPressureVictims, Ended
    <2>2. Rows' /\ Copies' BY DEF TypeOK, Rows, Copies
    <2>3. Phases'
      BY DEF TypeOK, Phases, Visited, Copying, Removing, DiskPressureVictims, Ended
    <2>4. InHand' /\ DependencyStays' BY DEF TypeOK, InHand, DependencyStays, Active, Needs
    <2> QED BY <2>1, <2>2, <2>3, <2>4
  <1>3. CASE EndSweep \/ SweepFails
    <2> USE <1>3, <1>k DEF EndSweep, SweepFails
    <2>0. cur' = NoJob BY DEF Phases
    <2>f. fails' \in 0..MaxFails BY KeepAssumption DEF TypeOK
    <2>1. TypeOK' BY <2>0, <2>f DEF TypeOK
    <2>2. Rows' /\ Copies' BY DEF TypeOK, Rows, Copies
    <2>3. Phases' BY <2>0 DEF TypeOK, Phases, Visited, Copying, Removing
    <2>4. InHand' /\ DependencyStays' BY DEF TypeOK, InHand, DependencyStays, Active, Needs
    <2> QED BY <2>1, <2>2, <2>3, <2>4
  <1>4. ASSUME NEW j \in Jobs, Dispose(j) \/ DisposeFails(j) PROVE Kept'
    <2> USE <1>4, <1>k DEF Dispose, DisposeFails
    <2>0. j \in replicated /\ state[j] \in Terminal
      BY DEF Phases, Visited, Removing, TypeOK
    <2>f. fails' \in 0..MaxFails BY KeepAssumption DEF TypeOK
    <2>1. TypeOK' BY <2>f DEF TypeOK
    <2>2. Rows' BY <2>0 DEF TypeOK, Rows, Terminal
    <2>3. Copies' BY <2>0 DEF TypeOK, Copies
    <2>4. Phases' BY <2>0 DEF TypeOK, Phases, Visited, Copying, Removing
    <2>5. InHand' /\ DependencyStays' BY DEF TypeOK, InHand, DependencyStays, Active, Needs
    <2> QED BY <2>1, <2>2, <2>3, <2>4, <2>5
  <1> QED BY <1>1, <1>2, <1>3, <1>4

(* The steps of the Hausmeister. *)
LEMMA HouseKeeps ==
  ASSUME Kept, HmProtect \/ HmPick \/ HmMove
  PROVE  Kept'
  <1> USE DEF Kept, bytes, sweep, house, ghost, bounds, rows, House
  <1>k. /\ \A i \in Jobs : Needs(i) \subseteq Jobs
        /\ NoJob \notin Jobs
    BY Known
  <1>1. CASE HmProtect
    <2> USE <1>1 DEF HmProtect
    <2>0. shield' \subseteq Jobs /\ \A i \in Active : Needs(i) \subseteq shield'
      BY <1>k DEF Active, TypeOK
    <2>1. TypeOK' BY <2>0 DEF TypeOK
    <2>2. Rows' /\ Copies' BY DEF TypeOK, Rows, Copies
    <2>3. Phases' BY DEF TypeOK, Phases, Visited, Copying, Removing
    <2>4. InHand' BY <2>0 DEF InHand, Active, Needs
    <2>5. DependencyStays' BY DEF DependencyStays, Needs
    <2> QED BY <2>1, <2>2, <2>3, <2>4, <2>5
  <1>2. CASE HmPick
    <2> USE <1>2 DEF HmPick
    <2>0. /\ batch' \subseteq live \ path /\ batch' \cap shield = {}
          /\ \A j \in batch' : state[j] \in Terminal
      BY DEF Movable, Ended
    <2>1. TypeOK' BY <2>0 DEF TypeOK
    <2>2. Rows' /\ Copies' BY DEF TypeOK, Rows, Copies
    <2>3. Phases' BY DEF TypeOK, Phases, Visited, Copying, Removing
    <2>4. InHand' BY <2>0 DEF InHand, Active, Needs
    <2>5. DependencyStays' BY DEF DependencyStays, Needs
    <2> QED BY <2>1, <2>2, <2>3, <2>4, <2>5
  <1>3. CASE HmMove
    <2> USE <1>3 DEF HmMove
    <2>0. todo \subseteq live' /\ cur \in live' \cup {NoJob}
      BY DEF InHand, Phases, Visited, TypeOK
    <2>1. TypeOK' BY <2>0 DEF TypeOK
    <2>2. Rows' BY DEF TypeOK, Rows, InHand, Terminal
    <2>3. Copies' BY DEF TypeOK, Copies
    <2>4. Phases' BY DEF TypeOK, Phases, Visited, Copying, Removing
    <2>5. InHand' BY DEF InHand, Active, Needs
    <2>6. DependencyStays'
      BY <1>k DEF TypeOK, DependencyStays, Rows, InHand, Active, Needs, Terminal
    <2> QED BY <2>1, <2>2, <2>3, <2>4, <2>5, <2>6
  <1> QED BY <1>1, <1>2, <1>3

(* A crash: the batch may have left one database and not have reached the   *)
(* other; then it is torn.                                                  *)
LEMMA CrashKeeps ==
  ASSUME Kept, Crash
  PROVE  Kept'
  <1> USE DEF Kept, bytes, sweep, house, ghost, bounds, rows, Sweep
  <1>k. /\ \A i \in Jobs : Needs(i) \subseteq Jobs
        /\ NoJob \notin Jobs
    BY Known
  <1>0. /\ pc' = "idle" /\ todo' = {} /\ cur' = NoJob
        /\ hm' = "off" /\ shield' = {} /\ batch' = {}
        /\ UNCHANGED <<rel, target, state, path, replicated, workspace, expired, raced,
                       fails>>
        /\ crashes' \in 0..MaxCrashes
    BY KeepAssumption DEF Crash, TypeOK
  <1>1. /\ replica' \in [Jobs -> {"none", "part", "whole"}]
        /\ \A i \in Jobs : replica[i] = "whole" => replica'[i] = "whole"
        /\ target = "dir" => replica' = replica
    BY DEF Crash, TypeOK, Interrupted
  <1>2. /\ archive' \subseteq Jobs /\ torn' \subseteq Jobs
        /\ live' \subseteq live /\ live \ batch \subseteq live'
        /\ live \cup archive \cup torn \subseteq live' \cup archive' \cup torn'
    BY DEF Crash, TypeOK
  <1>3. live' # live => hm = "move" BY DEF Crash
  <1>4. TypeOK' BY <1>0, <1>1, <1>2 DEF TypeOK
  <1>5. Rows'
    <2>1. \A j \in Jobs : state[j] \in {"blocked", "queued", "running"} => j \in live'
      BY <1>2 DEF Rows, InHand, Terminal
    <2>2. path \subseteq live' BY <1>2 DEF Rows, InHand
    <2> QED BY <1>0, <1>2, <2>1, <2>2 DEF TypeOK, Rows
  <1>6. Copies' BY <1>0, <1>1 DEF TypeOK, Copies
  <1>7. Phases' BY <1>0 DEF Phases, Visited, Copying, Removing
  <1>8. InHand' BY <1>0 DEF InHand
  <1>9. DependencyStays'
    <2> SUFFICES ASSUME NEW j \in Jobs \ raced, state[j] \in {"blocked", "queued"},
                        NEW d \in Needs(j), state[d] = "done"
                 PROVE  d \in live'
      BY <1>0 DEF DependencyStays, Needs
    <2>1. d \in live BY DEF DependencyStays
    <2>2. j \in Active BY DEF Rows, Active, Terminal
    <2>3. hm = "move" => d \notin batch BY <2>2 DEF InHand
    <2> QED BY <2>1, <2>3, <1>2, <1>3
  <1> QED BY <1>4, <1>5, <1>6, <1>7, <1>8, <1>9

LEMMA KeptStep == Kept /\ [Next]_vars => Kept'
  <1> SUFFICES ASSUME Kept, [Next]_vars PROVE Kept' OBVIOUS
  <1>1. CASE \E j \in Jobs :
               Submit(j) \/ Gate(j) \/ Cancel(j) \/ Start(j) \/ Finish(j) \/ Expire(j)
    BY <1>1, LifeKeeps
  <1>2. CASE \/ BeginSweep \/ MarkReplicated \/ BeginGc
             \/ \E j \in Jobs : PushFails(j) \/ Push(j)
    BY <1>2, CopyKeeps
  <1>3. CASE \/ MarkGcd \/ BeginPressure \/ EndSweep \/ SweepFails
             \/ \E j \in Jobs : Dispose(j) \/ DisposeFails(j)
    BY <1>3, RemovalKeeps
  <1>4. CASE HmProtect \/ HmPick \/ HmMove BY <1>4, HouseKeeps
  <1>5. CASE Crash BY <1>5, CrashKeeps
  <1>6. CASE UNCHANGED vars BY <1>6, KeptIfStill
  <1> QED BY <1>1, <1>2, <1>3, <1>4, <1>5, <1>6 DEF Next, GoOn

LEMMA Invariant == Spec => []Kept
  <1>1. Kept /\ [Next]_vars => Kept' BY KeptStep
  <1> QED BY <1>1, KeptAtFirst, PTL DEF Spec

-----------------------------------------------------------------------------
(* Every variable keeps its type; what a sweep has yet to visit has a row,  *)
(* although another thread moves rows away.                                 *)
THEOREM TypeCorrect == Spec => []TypeOK
  <1>1. Kept => TypeOK BY DEF Kept
  <1> QED BY <1>1, Invariant, PTL

(* The result of a job that is done exists whole and a row says where, for  *)
(* any number of jobs, interrupted copies, removals and crashes.            *)
THEOREM ResultKept == Spec => []ResultFound
  <1>1. Kept => ResultFound
    BY DEF Kept, TypeOK, Rows, Copies, ResultFound
  <1> QED BY <1>1, Invariant, PTL

(* The Hausmeister takes no dependency from a job that it could see.        *)
THEOREM NeedsStay == Spec => []DependencyStays
  <1>1. Kept => DependencyStays BY DEF Kept
  <1> QED BY <1>1, Invariant, PTL

=============================================================================
