----------------------------- MODULE JobPromise -----------------------------
(***************************************************************************)
(* What the portioneer promises about a job, whatever its queue, its gates *)
(* and its crashes: a job accepted with its dependencies waits, runs when  *)
(* they are done, may be given back to the queue or held for approval, and *)
(* gets one verdict, "done" only with a record.  JobLifecycle implements   *)
(* this specification.                                                     *)
(***************************************************************************)
CONSTANT Jobs

VARIABLES
  deps,    \* what each job depends on, should it be accepted
  phase,   \* where the job is
  proof    \* jobs that have a complete record

Verdicts == {"failed", "cancelled", "timeout", "rejected"}
Phases == {"unknown", "waiting", "running", "held", "done"} \cup Verdicts

PInit ==
  /\ deps \in [Jobs -> SUBSET Jobs]
  /\ phase = [j \in Jobs |-> "unknown"]
  /\ proof = {}

(* Records come and go while a job works; nothing else changes. *)
Move(j, from, to) ==
  /\ phase[j] \in from
  /\ phase' = [phase EXCEPT ![j] = to]
  /\ UNCHANGED deps

DepsDone(j) == \A d \in deps[j]: phase[d] = "done"

Accept(j) == Move(j, {"unknown"}, "waiting") /\ UNCHANGED proof
Start(j) == DepsDone(j) /\ Move(j, {"waiting"}, "running") /\ UNCHANGED proof
GiveBack(j) == Move(j, {"running", "held"}, "waiting") /\ proof' = proof \ {j}
Hold(j) == Move(j, {"running"}, "held") /\ UNCHANGED proof
Complete(j) == Move(j, {"running", "held"}, "done") /\ proof' = proof \cup {j}
End(j, v) == Move(j, {"waiting", "running", "held"}, v) /\ proof' = proof \ {j}

PNext ==
  \E j \in Jobs:
    \/ Accept(j) \/ Start(j) \/ GiveBack(j) \/ Hold(j) \/ Complete(j)
    \/ \E v \in Verdicts: End(j, v)

PSpec == PInit /\ [][PNext]_<<deps, phase, proof>>
=============================================================================
