-------------------------- MODULE MCAdmissionQueue --------------------------
(* AdmissionShare with two calls each of two principals. *)
EXTENDS AdmissionShare

CONSTANTS a1, a2, b1, b2

MCTickets == {a1, a2, b1, b2}
MCPrincipals == {"alice", "bob"}
MCOwner == [t \in MCTickets |-> IF t \in {a1, a2} THEN "alice" ELSE "bob"]
MCWeight == [t \in MCTickets |-> CASE t = b1 -> 3 [] t = a1 -> 2 [] OTHER -> 1]
MCBatch == {b2}
=============================================================================
