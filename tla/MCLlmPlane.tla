----------------------------- MODULE MCLlmPlane -----------------------------
(***************************************************************************)
(* Instances of LlmPlane for TLC: alice's cell has calls and a shim, bob's  *)
(* cell has calls.                                                          *)
(***************************************************************************)
EXTENDS LlmPlane

MCPrincipals == {"alice", "bob"}
MCOwner == [t \in Tickets |-> IF t \in {"a1", "s1", "s2"} THEN "alice" ELSE "bob"]
MCWeight == [t \in Tickets |-> 1]
=============================================================================
