--------------------------- MODULE AdmissionShare ---------------------------
(***************************************************************************)
(* AdmissionQueue with the history that the fair share is stated with: what *)
(* each principal has got while a ticket waited.                            *)
(***************************************************************************)
EXTENDS AdmissionQueue

VARIABLE passed   \* passed[t][p]: the units of p's later calls of the class
                  \* of t that were granted while t was waiting

sharevars == <<vars, passed>>

Later(H, t, p) ==
  {h \in H : Owner[h] = p /\ SameClass(h, t) /\ tag'[h].seq > tag[t].seq}

(* A call of weight w has w units: its number, and the virtual time from its  *)
(* start tag to its finish tag.                                             *)
Units(h) == {tag'[h].seq} \X (tag'[h].start .. (tag'[h].finish - 1))

ShareInit == Init /\ passed = [t \in Tickets |-> [p \in Principals |-> {}]]

ShareNext ==
  /\ Next
  /\ passed' = [t \in Tickets |-> [p \in Principals |->
       IF t \in waiting \cap waiting'
       THEN passed[t][p] \cup UNION {Units(h) : h \in Later(granted' \ granted, t, p)}
       ELSE {}]]

ShareSpec == ShareInit /\ [][ShareNext]_sharevars

(* The fair share: while t waits, a principal's later calls of its class get  *)
(* less weight than t's finish tag was ahead of the virtual time when t came. *)
FairShare ==
  \A t \in waiting, p \in Principals :
    Cardinality(passed[t][p]) < tag[t].finish - tag[t].born
=============================================================================
