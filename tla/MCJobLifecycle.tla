--------------------------- MODULE MCJobLifecycle ---------------------------
(***************************************************************************)
(* Workloads for checking JobLifecycle with TLC.  Each set is small and    *)
(* aimed at one group of paths; every run takes all its workloads.         *)
(***************************************************************************)
EXTENDS JobLifecycle, TLC

(* An ordinary batch job. *)
Plain == [deps |-> {}, policy |-> "none", confirm |-> FALSE, filler |-> FALSE,
          idem |-> TRUE, grows |-> FALSE, remote |-> FALSE, owner |-> "a"]

(* One job through everything: gates before and after, a confirmation, retries
   allowed or not, memory growth, draining. *)
SingleWorkloads ==
  {(1 :> [Plain EXCEPT !.policy = p, !.confirm = c, !.idem = i]):
     p \in {"none", "pre", "post"}, c \in BOOLEAN, i \in BOOLEAN}
  \cup {(1 :> [Plain EXCEPT !.policy = "post", !.grows = TRUE, !.remote = TRUE])}

(* A join, and a chain over a first job whose result is gated. *)
DagWorkloads ==
  {(1 :> [Plain EXCEPT !.policy = p]) @@
   (2 :> [Plain EXCEPT !.deps = {1}, !.idem = FALSE]) @@
   (3 :> [Plain EXCEPT !.deps = IF p = "none" THEN {1, 2} ELSE {2}, !.owner = "b"]):
     p \in {"none", "post"}}

(* Real work, not to be retried, arrives while a filler runs. *)
FillerWorkloads ==
  {(1 :> [Plain EXCEPT !.filler = TRUE]) @@ (2 :> [Plain EXCEPT !.idem = FALSE])}

(* One job after another. *)
ChainWorkloads == {(1 :> Plain) @@ (2 :> [Plain EXCEPT !.deps = {1}])}

(* An irreversible action that waits for a job before it. *)
PreAfterWorkloads ==
  {(1 :> Plain) @@ (2 :> [Plain EXCEPT !.deps = {1}, !.policy = "pre"])}
=============================================================================
