---------------------------- MODULE MCNodeCells ----------------------------
(* NodeCells with two cells. *)
EXTENDS NodeCells, TLC

Symmetric ==
  Permutations(Cells) \cup Permutations(Vms) \cup Permutations(Handlers)
=============================================================================
