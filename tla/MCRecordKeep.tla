---------------------------- MODULE MCRecordKeep ----------------------------
(***************************************************************************)
(* Two jobs, one needing the other or in one group.                         *)
(***************************************************************************)
EXTENDS RecordKeep, TLC

Alone == [needs |-> (1 :> {}) @@ (2 :> {}), group |-> (1 :> "g") @@ (2 :> "h")]
Chain == [Alone EXCEPT !.needs[2] = {1}]
Group == [Alone EXCEPT !.group[2] = "g"]

MCRelations == {Chain, Group}
=============================================================================
