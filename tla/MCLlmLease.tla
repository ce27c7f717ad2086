---------------------------- MODULE MCLlmLease ----------------------------
(* LlmLease with jobs of unequal demand: both fit alone, not together. *)
EXTENDS LlmLease, TLC

MCTenths == "big" :> 10 @@ "small" :> 3
=============================================================================
