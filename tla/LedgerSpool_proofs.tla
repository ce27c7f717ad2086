------------------------ MODULE LedgerSpool_proofs ------------------------
(***************************************************************************)
(* Proofs about LedgerSpool: for any processes, events and failures no line *)
(* of the spool is skipped and lines reach the store first in the order of  *)
(* the spool, unless a cursor was garbled, which takes two processes and a  *)
(* number of two digits; leaves are rows of the log in its order, and       *)
(* processes that take turns commit a line again only for a failure.        *)
(***************************************************************************)
EXTENDS LedgerSpool, FiniteSetTheorems, TLAPS

(* A writer that waits is made: its constructor has returned. *)
UpIsStarted == \A p \in Procs : pc[p] = "up" => p \in started

(* A cursor is garbled only where two processes meet on long numbers.       *)
Garbled == garbled => overlaps > 0 /\ Len(spool) >= Base

(* NothingSkipped for every process, also one that is not there: it starts  *)
(* from 0.                                                                  *)
Reached ==
  ~garbled =>
    \A n \in {cursor, tmp} \cup {applied[p] : p \in Procs} : \A i \in 1..n : Applied(i)

(* A descriptor of .tmp is one of a file that is there. *)
Named == \A p \in Procs : fd[p] = "tmp" => tmp # NoFile

Writing(p) == pc[p] \in {"opentmp", "writetmp", "replace"}

(* The leaves of a process are rows in their order; the row in hand comes   *)
(* after them and is the line after those it has applied.                   *)
Leaves ==
  \A p \in Procs :
    /\ \A k \in 1..Len(tree[p]) : \A m \in 1..(k - 1) : tree[p][m] < tree[p][k]
    /\ pc[p] = "leaf" => /\ seq[p] > 0 /\ rows[seq[p]] = applied[p] + 1
                         /\ \A k \in 1..Len(tree[p]) : tree[p][k] < seq[p]
    /\ Writing(p) => tree[p] # <<>> /\ rows[Last(tree[p])] = applied[p]

InHand(p) == IF pc[p] = "leaf" THEN 1 ELSE 0

(* Without overlap one process has the ledger open; it writes into the file *)
(* that it has emptied, and its tree lacks the row in hand.                 *)
Alone ==
  overlaps = 0 => /\ \A p, q \in Open : p = q
                  /\ \A p \in Open : pc[p] = "writetmp" => fd[p] = "tmp" /\ tmp = 0
                  /\ \A p \in Open \ leafless : Len(rows) = Len(tree[p]) + InHand(p)

(* What a process owes: the rows it is ahead of the cursor file.  Its cursor *)
(* lacks the row it has just committed, and one row for each failure.       *)
Busy(p) == pc[p] = "leaf" \/ Writing(p)

Owes(p) ==
  /\ pc[p] # "cursor" => Len(rows) <= applied[p] + fails + InHand(p)
  /\ pc[p] = "replace" => tmp = applied[p]
  /\ Len(rows) <= cursor + fails + (IF Busy(p) THEN 1 ELSE 0)

(* OnceIfAlone with what it needs: what is to be applied again is paid for.  *)
Paid ==
  crashes = 0 /\ overlaps = 0 =>
    /\ Open = {} => Len(rows) <= cursor + fails
    /\ \A p \in Open : Owes(p)

IInv ==
  /\ TypeOK /\ UpIsStarted /\ Named /\ Leaves
  /\ Garbled /\ Reached /\ InOrder /\ Alone /\ Paid

-----------------------------------------------------------------------------
(* What a sequence has after an element is appended. *)
LEMMA AppendHas ==
  ASSUME NEW S, NEW s \in Seq(S), NEW e \in S, NEW i
  PROVE  i \in ToSet(Append(s, e)) <=> i \in ToSet(s) \/ i = e
  <1> DEFINE t == Append(s, e)
  <1>1. /\ t \in Seq(S) /\ Len(t) = Len(s) + 1 /\ Len(s) \in Nat
        /\ DOMAIN t = 1..Len(t) /\ DOMAIN s = 1..Len(s)
        /\ \A k \in 1..Len(s) : t[k] = s[k]
        /\ t[Len(s) + 1] = e
    OBVIOUS
  <1>2. ASSUME i \in ToSet(t) PROVE i \in ToSet(s) \/ i = e
    <2>1. PICK k \in 1..(Len(s) + 1) : i = t[k] BY <1>1, <1>2 DEF ToSet
    <2>2. CASE k = Len(s) + 1 BY <1>1, <2>1, <2>2
    <2>3. CASE k # Len(s) + 1
      <3>1. k \in 1..Len(s) BY <1>1, <2>3
      <3> QED BY <1>1, <2>1, <3>1 DEF ToSet
    <2> QED BY <2>2, <2>3
  <1>3. ASSUME i \in ToSet(s) PROVE i \in ToSet(t)
    <2>1. PICK k \in 1..Len(s) : i = s[k] BY <1>1, <1>3 DEF ToSet
    <2>2. k \in 1..Len(t) BY <1>1
    <2> QED BY <1>1, <2>1, <2>2 DEF ToSet
  <1>4. ASSUME i = e PROVE i \in ToSet(t)
    <2>1. Len(s) + 1 \in 1..Len(t) BY <1>1
    <2> QED BY <1>1, <1>4, <2>1 DEF ToSet
  <1> QED BY <1>2, <1>3, <1>4

(* A sequence over a set is one over a larger set. *)
LEMMA SeqGrows ==
  ASSUME NEW S, NEW T, S \subseteq T, NEW s \in Seq(S)
  PROVE  s \in Seq(T)
  <1>1. s \in [1..Len(s) -> S] /\ Len(s) \in Nat OBVIOUS
  <1>2. s \in [1..Len(s) -> T] BY <1>1
  <1> QED BY <1>1, <1>2

(* What is written over an empty file, or over a single digit, is there.    *)
LEMMA OverlayShort ==
  ASSUME NEW n \in Nat, NEW m \in Int, m < Base
  PROVE  Overlay(n, m) = n
  <1>1. Base..m = {} BY LedgerAssumption
  <1> QED BY <1>1 DEF Overlay

(* What is written over something else is a number all the same. *)
LEMMA OverlayType ==
  ASSUME NEW n \in Nat, NEW m \in Nat
  PROVE  Overlay(n, m) \in Nat
  <1> DEFINE shifts == {t \in Base..m : t \in Powers(m) /\ Width(n) + Width(t) = Width(m) + 1}
             t == CHOOSE t \in shifts : TRUE
  <1>1. CASE shifts = {}
    <2>1. Overlay(n, m) = n BY <1>1 DEF Overlay
    <2> QED BY <2>1
  <1>2. CASE shifts # {}
    <2>1. t \in shifts BY <1>2
    <2>2. t \in Base..m BY <2>1
    <2> HIDE DEF t
    <2>3. t \in Nat /\ t > 0 BY <2>2, LedgerAssumption
    <2>4. m % t \in Nat /\ n * t \in Nat BY <2>3
    <2>5. n * t + (m % t) \in Nat BY <2>4
    <2>6. Overlay(n, m) = n * t + (m % t) BY <1>2 DEF Overlay, t
    <2> QED BY <2>5, <2>6
  <1> QED BY <1>1, <1>2

(* The part of TypeOK that a process has in memory. *)
Minds ==
  /\ pc \in [Procs -> {"off", "cursor", "read", "apply", "leaf", "opentmp", "writetmp",
                       "replace", "up"}]
  /\ fd \in [Procs -> {"none", "tmp", "cursor"}]
  /\ applied \in [Procs -> Nat] /\ seen \in [Procs -> 0..Len(spool)]
  /\ seq \in [Procs -> 0..Len(rows)]
  /\ tree \in [Procs -> Seq(1..Len(rows))]
  /\ started \subseteq Procs /\ stuck \subseteq started \cap Background
  /\ closing \subseteq started /\ leafless \subseteq started
  /\ UpIsStarted

(* The part that is on the disk. *)
Files ==
  /\ spool \in Seq(Events) /\ torn \in BOOLEAN
  /\ cursor \in Nat /\ tmp \in {NoFile} \cup Nat
  /\ rows \in Seq(1..Len(spool))

Counts ==
  /\ fails \in 0..MaxFails /\ crashes \in 0..MaxCrashes /\ overlaps \in 0..MaxOverlaps
  /\ garbled \in BOOLEAN

LEMMA TypeParts == TypeOK /\ UpIsStarted <=> Minds /\ Files /\ Counts
  BY DEF TypeOK, Minds, Files, Counts, Lines

(* What the end of processes, a return and an exception leave in memory.    *)
LEMMA EndedTypes ==
  ASSUME Minds, Files, NEW S \in SUBSET Procs, Ended(S), UNCHANGED <<spool, rows>>
  PROVE  Minds'
  <1>1. 0 \in 0..Len(spool) /\ 0 \in 0..Len(rows) BY DEF Files
  <1>2. tree' \in [Procs -> Seq(1..Len(rows))]
    <2>1. << >> \in Seq(1..Len(rows)) OBVIOUS
    <2>2. \A q \in Procs : tree[q] \in Seq(1..Len(rows)) BY DEF Minds
    <2> QED BY <2>1, <2>2 DEF Ended
  <1> QED BY <1>1, <1>2 DEF Minds, UpIsStarted, Ended

LEMMA ReturnTypes ==
  ASSUME Minds, Files, NEW p \in Procs, NEW L \in SUBSET {p}, Return(p, L),
         UNCHANGED <<spool, rows>>
  PROVE  Minds'
  <1>0. 0 \in 0..Len(spool) /\ 0 \in 0..Len(rows) BY DEF Files
  <1>1. CASE p \in closing BY <1>1, EndedTypes DEF Return
  <1>2. CASE p \notin closing
    <2>1. /\ pc' = [pc EXCEPT ![p] = "up"] /\ started' = started \cup {p}
          /\ seen' = [seen EXCEPT ![p] = 0] /\ seq' = [seq EXCEPT ![p] = 0]
          /\ leafless' = leafless \cup L
          /\ UNCHANGED <<applied, tree, fd, stuck, closing>>
      BY <1>2 DEF Return
    <2>2. leafless' \subseteq started' BY <2>1 DEF Minds
    <2>3. UpIsStarted' BY <2>1 DEF Minds, UpIsStarted
    <2> QED BY <1>0, <2>1, <2>2, <2>3 DEF Minds
  <1> QED BY <1>1, <1>2

LEMMA RaiseTypes ==
  ASSUME Minds, Files, NEW p \in Procs, Raise(p)
  PROVE  Minds'
  <1>0. UNCHANGED <<spool, rows>> /\ 0 \in 0..Len(spool) BY DEF Raise, disk, Files
  <1>1. CASE p \in started \ closing
    <2>1. stuck' \subseteq started' \cap Background BY <1>1 DEF Raise, Minds
    <2>2. UpIsStarted' BY <1>1 DEF Raise, Minds, UpIsStarted
    <2>3. /\ pc' = [pc EXCEPT ![p] = "up"] /\ fd' = [fd EXCEPT ![p] = "none"]
          /\ seen' = [seen EXCEPT ![p] = 0]
          /\ UNCHANGED <<applied, seq, tree, started, closing, leafless>>
      BY <1>1 DEF Raise
    <2> QED BY <1>0, <2>1, <2>2, <2>3 DEF Minds
  <1>2. CASE p \notin started \ closing
    <2>1. Ended({p}) BY <1>2 DEF Raise
    <2> QED BY <1>0, <2>1, EndedTypes
  <1> QED BY <1>1, <1>2

(* Every step keeps what is in memory, on the disk and counted in order.    *)
LEMMA NextTypes ==
  ASSUME Minds, Files, Counts, Named, Leaves, [Next]_vars
  PROVE  Minds' /\ Files' /\ Counts'
  <1> USE LedgerAssumption
  <1> USE DEF told
  <1>1. ASSUME NEW p \in Procs, OpenStore(p) PROVE Minds' /\ Files' /\ Counts'
    <2>1. overlaps' \in 0..MaxOverlaps BY <1>1 DEF OpenStore, Counts
    <2>2. [k \in 1..Len(rows) |-> k] \in Seq(1..Len(rows)) BY DEF Files
    <2>3. tree' \in [Procs -> Seq(1..Len(rows))] BY <1>1, <2>2 DEF OpenStore, Minds
    <2> QED BY <1>1, <2>1, <2>3
            DEF OpenStore, Step, Minds, Files, Counts, UpIsStarted, disk, life, bounds
  <1>2. ASSUME NEW p \in Procs, ReadCursor(p) PROVE Minds' /\ Files' /\ Counts'
    BY <1>2 DEF ReadCursor, Step, Minds, Files, Counts, UpIsStarted, disk, life, bounds
  <1>3. ASSUME NEW p \in Procs, ReadSpool(p) PROVE Minds' /\ Files' /\ Counts'
    <2>1. 0 \in 0..Len(spool) /\ Len(spool) \in 0..Len(spool) BY DEF Files
    <2> QED BY <1>3, <2>1 DEF ReadSpool, Step, Minds, Files, Counts, UpIsStarted, disk, life, bounds
  <1>4. ASSUME NEW p \in Procs, DrainDone(p) PROVE Minds' /\ Files' /\ Counts'
    BY <1>4, ReturnTypes DEF DrainDone, Files, Counts, disk, bounds
  <1>5. ASSUME NEW p \in Procs, StoreRefuses(p) \/ LeafFails(p)
        PROVE  Minds' /\ Files' /\ Counts'
    <2>1. fails' \in 0..MaxFails BY <1>5 DEF StoreRefuses, LeafFails, Failing, Counts
    <2>2. Minds' BY <1>5, ReturnTypes DEF StoreRefuses, LeafFails, disk
    <2> QED BY <1>5, <2>1, <2>2 DEF StoreRefuses, LeafFails, Failing, Files, Counts, disk
  <1>6. ASSUME NEW p \in Procs, StoreAppend(p) PROVE Minds' /\ Files' /\ Counts'
    <2>1. applied[p] + 1 \in 1..Len(spool) BY <1>6 DEF StoreAppend, Minds, Files
    <2>2. rows' \in Seq(1..Len(spool)) /\ Len(rows') = Len(rows) + 1 /\ Len(rows) \in Nat
      BY <1>6, <2>1 DEF StoreAppend, Files
    <2>3. \A q \in Procs : tree[q] \in Seq(1..Len(rows'))
      <3>1. TAKE q \in Procs
      <3>2. tree[q] \in Seq(1..Len(rows)) /\ 1..Len(rows) \subseteq 1..Len(rows')
        BY <2>2 DEF Minds
      <3> QED BY <3>2, SeqGrows
    <2>4. tree' \in [Procs -> Seq(1..Len(rows'))] BY <1>6, <2>3 DEF StoreAppend, Minds
    <2>5. seq' \in [Procs -> 0..Len(rows')] BY <1>6, <2>2 DEF StoreAppend, Minds
    <2> QED BY <1>6, <2>2, <2>4, <2>5
            DEF StoreAppend, Step, Minds, Files, Counts, UpIsStarted, life, bounds
  <1>18. ASSUME NEW p \in Procs, LeafAppend(p) PROVE Minds' /\ Files' /\ Counts'
    <2>1. UNCHANGED <<spool, rows>> BY <1>18 DEF LeafAppend, disk
    <2>2. tree' \in [Procs -> Seq(1..Len(rows))]
      <3>1. seq[p] \in 1..Len(rows) BY <1>18 DEF LeafAppend, Step, Leaves, Minds
      <3> QED BY <1>18, <3>1 DEF LeafAppend, Minds
    <2>3. seq' \in [Procs -> 0..Len(rows)] BY <1>18 DEF LeafAppend, Minds, Files
    <2>4. applied' \in [Procs -> Nat] BY <1>18 DEF LeafAppend, Minds
    <2> QED BY <1>18, <2>1, <2>2, <2>3, <2>4
            DEF LeafAppend, Step, Minds, Files, Counts, UpIsStarted, disk, life, bounds
  <1>7. ASSUME NEW p \in Procs, OpenTmp(p) PROVE Minds' /\ Files' /\ Counts'
    BY <1>7 DEF OpenTmp, Step, Minds, Files, Counts, UpIsStarted, life, bounds
  <1>8. ASSUME NEW p \in Procs, WriteTmp(p) PROVE Minds' /\ Files' /\ Counts'
    <2>1. cursor' \in Nat /\ tmp' \in {NoFile} \cup Nat
      BY <1>8, OverlayType DEF WriteTmp, Write, Minds, Files, Named
    <2>2. garbled' \in BOOLEAN BY <1>8 DEF WriteTmp, Write, Counts
    <2> QED BY <1>8, <2>1, <2>2
            DEF WriteTmp, Write, Step, Minds, Files, Counts, UpIsStarted, life, bounds
  <1>9. ASSUME NEW p \in Procs, Replace(p) PROVE Minds' /\ Files' /\ Counts'
    BY <1>9 DEF Replace, Step, Minds, Files, Counts, UpIsStarted, life, bounds
  <1>10. ASSUME NEW p \in Procs, CursorFails(p) PROVE Minds' /\ Files' /\ Counts'
    <2>1. fails' \in 0..MaxFails BY <1>10 DEF CursorFails, Failing, Counts
    <2> QED BY <1>10, <2>1, RaiseTypes DEF CursorFails, Failing, Raise, Files, Counts, disk
  <1>11. ASSUME NEW p \in Procs, ReplaceFails(p) PROVE Minds' /\ Files' /\ Counts'
    BY <1>11, RaiseTypes DEF ReplaceFails, Raise, Files, Counts, disk, bounds
  <1>12. ASSUME NEW p \in Procs, NEW e \in Events, Record(p, e) PROVE Minds' /\ Files' /\ Counts'
    <2>1. spool' \in Seq(Events) /\ Len(spool') = Len(spool) + 1 /\ Len(spool) \in Nat
      BY <1>12 DEF Record, Files
    <2>2. 1..Len(spool) \subseteq 1..Len(spool') /\ 0..Len(spool) \subseteq 0..Len(spool') BY <2>1
    <2>3. rows' \in Seq(1..Len(spool')) /\ rows' = rows
      BY <1>12, <2>2, SeqGrows DEF Record, Files
    <2>6. Files' BY <1>12, <2>1, <2>3 DEF Record, Files
    <2>7. seen' \in [Procs -> 0..Len(spool')] BY <1>12, <2>2 DEF Record, Minds, mind
    <2>8. Minds' BY <1>12, <2>3, <2>7 DEF Record, Step, Minds, UpIsStarted, mind, life
    <2> QED BY <1>12, <2>6, <2>8 DEF Record, Counts, bounds
  <1>13. ASSUME NEW p \in Procs, Wake(p) \/ Flush(p) PROVE Minds' /\ Files' /\ Counts'
    BY <1>13 DEF Wake, Flush, Step, Minds, Files, Counts, UpIsStarted, disk, mind, life, bounds
  <1>14. ASSUME NEW p \in Procs, Close(p) PROVE Minds' /\ Files' /\ Counts'
    BY <1>14 DEF Close, Step, Minds, Files, Counts, UpIsStarted, disk, mind, bounds
  <1>15. ASSUME NEW p \in Procs, Kill(p) PROVE Minds' /\ Files' /\ Counts'
    <2>1. crashes' \in 0..MaxCrashes BY <1>15 DEF Kill, Crashing, Counts
    <2> QED BY <1>15, <2>1, EndedTypes DEF Kill, Crashing, Files, Counts, disk
  <1>16. ASSUME NEW cut \in BOOLEAN, BoxCrash(cut) PROVE Minds' /\ Files' /\ Counts'
    <2>1. crashes' \in 0..MaxCrashes BY <1>16 DEF BoxCrash, Crashing, Counts
    <2>2. cursor' \in Nat BY <1>16 DEF BoxCrash, Files
    <2>3. torn' \in BOOLEAN BY <1>16 DEF BoxCrash, Files
    <2>4. Minds' BY <1>16, EndedTypes DEF BoxCrash
    <2> QED BY <1>16, <2>1, <2>2, <2>3, <2>4 DEF BoxCrash, Crashing, Files, Counts
  <1>17. CASE UNCHANGED vars
    BY <1>17 DEF Minds, Files, Counts, UpIsStarted, vars, disk, mind, life, bounds
  <1> QED
    BY <1>1, <1>2, <1>3, <1>4, <1>5, <1>6, <1>7, <1>8, <1>9, <1>10, <1>11, <1>12, <1>13,
       <1>14, <1>15, <1>16, <1>17, <1>18 DEF Next, Drain

-----------------------------------------------------------------------------
(* A step leaves the rows alone, or a process appends the line that follows *)
(* the ones it has applied.                                                 *)
LEMMA RowsStep ==
  ASSUME [Next]_vars
  PROVE  UNCHANGED rows \/ \E p \in Procs : StoreAppend(p)
  <1> USE DEF disk, Return, Raise
  <1>1. ASSUME NEW p \in Procs, Drain(p), ~StoreAppend(p) PROVE UNCHANGED rows
    BY <1>1 DEF Drain, ReadCursor, ReadSpool, StoreRefuses, LeafAppend, LeafFails, DrainDone,
                OpenTmp, WriteTmp, Replace, CursorFails, ReplaceFails, Wake
  <1>2. ASSUME NEW p \in Procs, OpenStore(p) \/ Flush(p) \/ Close(p) \/ Kill(p)
        PROVE  UNCHANGED rows
    BY <1>2 DEF OpenStore, Flush, Close, Kill
  <1>3. ASSUME NEW p \in Procs, NEW e \in Events, Record(p, e) PROVE UNCHANGED rows
    BY <1>3 DEF Record
  <1>4. ASSUME NEW cut \in BOOLEAN, BoxCrash(cut) PROVE UNCHANGED rows BY <1>4 DEF BoxCrash
  <1>5. CASE UNCHANGED vars BY <1>5 DEF vars
  <1> QED BY <1>1, <1>2, <1>3, <1>4, <1>5 DEF Next

(* A line that is in the store stays there. *)
LEMMA AppliedStays ==
  ASSUME Minds, Files, [Next]_vars, NEW i, Applied(i)
  PROVE  Applied(i)'
  <1>1. CASE UNCHANGED rows BY <1>1 DEF Applied
  <1>2. CASE \E p \in Procs : StoreAppend(p)
    <2>1. PICK p \in Procs : StoreAppend(p) BY <1>2
    <2>2. applied[p] + 1 \in 1..Len(spool) BY <2>1 DEF StoreAppend, Minds, Files
    <2>3. rows' = Append(rows, applied[p] + 1) BY <2>1 DEF StoreAppend
    <2> QED BY <2>2, <2>3, AppendHas DEF Applied, Files
  <1> QED BY <1>1, <1>2, RowsStep

(* The rows that are there stay where they are. *)
LEMMA RowsStay ==
  ASSUME Minds, Files, [Next]_vars
  PROVE  /\ Len(rows) \in Nat /\ Len(rows') \in Nat /\ Len(rows) <= Len(rows')
         /\ \A k \in 1..Len(rows) : rows'[k] = rows[k]
  <1>1. CASE UNCHANGED rows BY <1>1 DEF Files
  <1>2. CASE \E p \in Procs : StoreAppend(p)
    <2>1. PICK p \in Procs : StoreAppend(p) BY <1>2
    <2>2. applied[p] + 1 \in 1..Len(spool) BY <2>1 DEF StoreAppend, Minds, Files
    <2>3. rows' = Append(rows, applied[p] + 1) BY <2>1 DEF StoreAppend
    <2> QED BY <2>2, <2>3 DEF Files
  <1> QED BY <1>1, <1>2, RowsStep

(* What a step does to the leaves of a process. *)
LEMMA LeafStep ==
  ASSUME Minds, [Next]_vars, NEW q \in Procs
  PROVE  \/ /\ tree'[q] = tree[q]
            /\ pc'[q] = "leaf" => pc[q] = "leaf" /\ seq'[q] = seq[q] /\ applied'[q] = applied[q]
            /\ Writing(q)' => Writing(q) /\ applied'[q] = applied[q]
         \/ tree'[q] = <<>> /\ pc'[q] = "off"
         \/ OpenStore(q) \/ StoreAppend(q) \/ LeafAppend(q)
  <1> DEFINE Keeps == /\ tree'[q] = tree[q]
                      /\ pc'[q] = "leaf" =>
                           pc[q] = "leaf" /\ seq'[q] = seq[q] /\ applied'[q] = applied[q]
                      /\ Writing(q)' => Writing(q) /\ applied'[q] = applied[q]
             Ends == tree'[q] = <<>> /\ pc'[q] = "off"
             Goal == Keeps \/ Ends \/ OpenStore(q) \/ StoreAppend(q) \/ LeafAppend(q)
  <1> USE DEF Writing, Step, Minds
  <1>1. ASSUME NEW p \in Procs, OpenStore(p) \/ StoreAppend(p) \/ LeafAppend(p) PROVE Goal
    <2>1. CASE p = q BY <1>1, <2>1
    <2>2. CASE p # q BY <1>1, <2>2 DEF OpenStore, StoreAppend, LeafAppend
    <2> QED BY <2>1, <2>2
  <1>2. ASSUME NEW p \in Procs, ReadCursor(p) \/ ReadSpool(p) \/ Wake(p) \/ Flush(p) \/ Close(p)
        PROVE  Keeps
    BY <1>2 DEF ReadCursor, ReadSpool, Wake, Flush, Close, mind
  <1>3. ASSUME NEW p \in Procs, OpenTmp(p) \/ WriteTmp(p) \/ Replace(p) PROVE Keeps
    BY <1>3 DEF OpenTmp, WriteTmp, Replace
  <1>4. ASSUME NEW p \in Procs, NEW e \in Events, Record(p, e) PROVE Keeps
    BY <1>4 DEF Record, mind
  <1>5. ASSUME NEW S \in SUBSET Procs, Ended(S) PROVE Keeps \/ Ends BY <1>5 DEF Ended
  <1>6. ASSUME NEW p \in Procs, NEW L, Return(p, L) PROVE Keeps \/ Ends
    <2>1. CASE p \in closing BY <1>5, <1>6, <2>1 DEF Return
    <2>2. CASE p \notin closing BY <1>6, <2>2 DEF Return
    <2> QED BY <2>1, <2>2
  <1>7. ASSUME NEW p \in Procs, Raise(p) PROVE Keeps \/ Ends
    <2>1. CASE p \in started \ closing BY <1>7, <2>1 DEF Raise
    <2>2. CASE p \notin started \ closing BY <1>5, <1>7, <2>2 DEF Raise
    <2> QED BY <2>1, <2>2
  <1>8. ASSUME NEW p \in Procs, Drain(p) PROVE Goal
    <2> HIDE DEF Keeps, Ends, Writing, Step, Minds
    <2> QED BY <1>1, <1>2, <1>3, <1>6, <1>7, <1>8
        DEF Drain, DrainDone, StoreRefuses, LeafFails, CursorFails, ReplaceFails
  <1>9. ASSUME NEW p \in Procs, Kill(p) PROVE Keeps \/ Ends
    <2> HIDE DEF Keeps, Ends, Writing, Step, Minds
    <2> QED BY <1>5, <1>9 DEF Kill
  <1>10. ASSUME NEW cut \in BOOLEAN, BoxCrash(cut) PROVE Keeps \/ Ends
    <2> HIDE DEF Keeps, Ends, Writing, Step, Minds
    <2> QED BY <1>5, <1>10 DEF BoxCrash
  <1>11. CASE UNCHANGED vars BY <1>11 DEF vars, mind
  <1> HIDE DEF Keeps, Ends, Writing, Step, Minds
  <1>12. ASSUME Next PROVE Goal
    <2>1. CASE \E p \in Procs : Drain(p) \/ OpenStore(p) \/ Flush(p) \/ Close(p) \/ Kill(p)
      BY <1>1, <1>2, <1>8, <1>9, <2>1
    <2>2. CASE \E p \in Procs, e \in Events : Record(p, e) BY <1>4, <2>2
    <2>3. CASE \E cut \in BOOLEAN : BoxCrash(cut) BY <1>10, <2>3
    <2> QED BY <1>12, <2>1, <2>2, <2>3 DEF Next
  <1>13. CASE Next BY <1>12, <1>13 DEF Keeps, Ends
  <1> QED BY <1>11, <1>13

(* Leaves are rows in their order: what a process appends is the row it has *)
(* committed itself, and that one was the last.                             *)
LEMMA NextLeaves ==
  ASSUME Minds, Files, Leaves, [Next]_vars
  PROVE  Leaves'
  <1> SUFFICES ASSUME NEW q \in Procs
               PROVE /\ \A k \in 1..Len(tree'[q]) : \A m \in 1..(k - 1) : tree'[q][m] < tree'[q][k]
                     /\ pc'[q] = "leaf" =>
                          /\ seq'[q] > 0 /\ rows'[seq'[q]] = applied'[q] + 1
                          /\ \A k \in 1..Len(tree'[q]) : tree'[q][k] < seq'[q]
                     /\ Writing(q)' => tree'[q] # <<>> /\ rows'[Last(tree'[q])] = applied'[q]
    BY DEF Leaves
  <1>0. /\ tree[q] \in Seq(1..Len(rows)) /\ Len(tree[q]) \in Nat
        /\ \A k \in 1..Len(tree[q]) : tree[q][k] \in 1..Len(rows)
        /\ seq[q] \in 0..Len(rows) /\ applied[q] \in Nat /\ Len(rows) \in Nat
    <2>1. tree[q] \in Seq(1..Len(rows)) BY DEF Minds
    <2>2. seq[q] \in 0..Len(rows) /\ applied[q] \in Nat BY DEF Minds
    <2>3. Len(rows) \in Nat BY DEF Files
    <2>4. \A s \in Seq(1..Len(rows)) :
            Len(s) \in Nat /\ \A k \in 1..Len(s) : s[k] \in 1..Len(rows)
      OBVIOUS
    <2> QED BY <2>1, <2>2, <2>3, <2>4, Zenon
  <1>1. CASE /\ tree'[q] = tree[q]
             /\ pc'[q] = "leaf" => pc[q] = "leaf" /\ seq'[q] = seq[q] /\ applied'[q] = applied[q]
             /\ Writing(q)' => Writing(q) /\ applied'[q] = applied[q]
    <2>1. pc'[q] = "leaf" => rows'[seq'[q]] = applied'[q] + 1
      BY <1>0, <1>1, RowsStay DEF Leaves
    <2>2. Writing(q)' => tree[q] # <<>> /\ rows'[Last(tree'[q])] = applied'[q]
      <3>1. tree[q] # <<>> => Last(tree[q]) \in 1..Len(rows) BY <1>0 DEF Last
      <3> QED BY <1>1, <3>1, RowsStay DEF Leaves
    <2> QED BY <1>1, <2>1, <2>2 DEF Leaves
  <1>2. CASE tree'[q] = <<>> /\ pc'[q] = "off" BY <1>2 DEF Writing
  <1>3. CASE OpenStore(q)
    <2>1. tree'[q] = [k \in 1..Len(rows) |-> k] /\ pc'[q] = "cursor"
      BY <1>3 DEF OpenStore, Step, Minds
    <2>2. Len(tree'[q]) = Len(rows) /\ \A k \in 1..Len(rows) : tree'[q][k] = k BY <1>0, <2>1
    <2> QED BY <1>0, <2>1, <2>2 DEF Writing
  <1>4. CASE StoreAppend(q)
    <2>1. /\ pc'[q] = "leaf" /\ seq'[q] = Len(rows) + 1 /\ tree' = tree /\ applied' = applied
          /\ rows' = Append(rows, applied[q] + 1)
      BY <1>4 DEF StoreAppend, Step, Minds
    <2>2. rows'[Len(rows) + 1] = applied[q] + 1 BY <2>1 DEF Files
    <2> QED BY <1>0, <2>1, <2>2 DEF Leaves, Writing
  <1>5. CASE LeafAppend(q)
    <2>1. /\ pc[q] = "leaf" /\ pc'[q] = "opentmp" /\ rows' = rows
          /\ tree'[q] = Append(tree[q], seq[q]) /\ applied'[q] = applied[q] + 1
      BY <1>5 DEF LeafAppend, Step, Minds, disk
    <2>2. /\ seq[q] \in 1..Len(rows) /\ rows[seq[q]] = applied[q] + 1
          /\ \A k \in 1..Len(tree[q]) : tree[q][k] < seq[q]
      BY <1>0, <2>1 DEF Leaves
    <2>3. /\ Len(tree'[q]) = Len(tree[q]) + 1 /\ tree'[q][Len(tree[q]) + 1] = seq[q]
          /\ \A k \in 1..Len(tree[q]) : tree'[q][k] = tree[q][k]
      BY <1>0, <2>1, <2>2
    <2>4. ASSUME NEW k \in 1..Len(tree'[q]), NEW m \in 1..(k - 1) PROVE tree'[q][m] < tree'[q][k]
      <3>1. m \in 1..Len(tree[q]) BY <1>0, <2>3, <2>4
      <3>2. CASE k = Len(tree[q]) + 1 BY <2>2, <2>3, <3>1, <3>2
      <3>3. CASE k # Len(tree[q]) + 1
        <4>1. k \in 1..(Len(tree[q]) + 1) BY <2>3
        <4>0. Len(tree[q]) \in Nat BY <1>0
        <4>2. k \in 1..Len(tree[q]) BY <3>3, <4>0, <4>1
        <4> QED BY <2>3, <3>1, <4>2 DEF Leaves
      <3> QED BY <3>2, <3>3
    <2>5. tree'[q] # <<>> /\ Last(tree'[q]) = seq[q] BY <1>0, <2>3 DEF Last
    <2> QED BY <2>1, <2>2, <2>4, <2>5
  <1> QED BY <1>1, <1>2, <1>3, <1>4, <1>5, LeafStep

-----------------------------------------------------------------------------
(* A descriptor of .tmp has made the file, and follows it when it is moved.  *)
LEMMA NextNamed ==
  ASSUME Minds, Files, Named, [Next]_vars
  PROVE  Named'
  <1> USE DEF Named, Minds
  <1>1. ASSUME NEW p \in Procs, OpenTmp(p) PROVE Named' BY <1>1 DEF OpenTmp, NoFile
  <1>2. ASSUME NEW p \in Procs, WriteTmp(p) PROVE Named'
    <2>1. fd' = [fd EXCEPT ![p] = "none"] BY <1>2 DEF WriteTmp, Write
    <2>2. tmp # NoFile => tmp' # NoFile
      <3>1. CASE fd[p] = "tmp"
        <4>1. tmp \in Nat /\ tmp' = Overlay(applied[p], tmp)
          BY <1>2, <3>1 DEF WriteTmp, Write, Files
        <4>2. applied[p] \in Nat OBVIOUS
        <4>3. tmp' \in Nat BY <4>1, <4>2, OverlayType
        <4> QED BY <4>3 DEF NoFile
      <3>2. CASE fd[p] # "tmp" BY <1>2, <3>2 DEF WriteTmp, Write
      <3> QED BY <3>1, <3>2
    <2> QED BY <2>1, <2>2
  <1>3. ASSUME NEW p \in Procs, Replace(p) PROVE Named' BY <1>3 DEF Replace
  <1>4. ASSUME UNCHANGED tmp, \A q \in Procs : fd'[q] \in {fd[q], "none"} PROVE Named' BY <1>4
  <1>5. ASSUME NEW p \in Procs,
               ReadCursor(p) \/ ReadSpool(p) \/ Wake(p) \/ Flush(p) \/ Close(p) \/ OpenStore(p)
        PROVE  Named'
    BY <1>4, <1>5 DEF ReadCursor, ReadSpool, Wake, Flush, Close, OpenStore, disk, mind
  <1>6. ASSUME NEW p \in Procs, StoreAppend(p) \/ LeafAppend(p) PROVE Named'
    BY <1>4, <1>6 DEF StoreAppend, LeafAppend, disk
  <1>7. ASSUME NEW S \in SUBSET Procs, Ended(S), UNCHANGED tmp PROVE Named'
    BY <1>4, <1>7 DEF Ended
  <1>8. ASSUME NEW p \in Procs, NEW L, Return(p, L), UNCHANGED tmp PROVE Named'
    BY <1>4, <1>7, <1>8 DEF Return
  <1>9. ASSUME NEW p \in Procs, Raise(p) PROVE Named'
    <2>1. UNCHANGED tmp BY <1>9 DEF Raise, disk
    <2>2. CASE p \in started \ closing BY <1>4, <1>9, <2>1, <2>2 DEF Raise
    <2>3. CASE p \notin started \ closing BY <1>7, <1>9, <2>1, <2>3 DEF Raise
    <2> QED BY <2>2, <2>3
  <1>10. ASSUME NEW p \in Procs, NEW e \in Events, Record(p, e) PROVE Named'
    BY <1>4, <1>10 DEF Record, mind
  <1>11. ASSUME NEW cut \in BOOLEAN, BoxCrash(cut) PROVE Named' BY <1>11 DEF BoxCrash, Ended
  <1>12. CASE UNCHANGED vars BY <1>4, <1>12 DEF vars, disk, mind
  <1> HIDE DEF Named, Minds
  <1>13. ASSUME NEW p \in Procs, Drain(p) PROVE Named'
    BY <1>1, <1>2, <1>3, <1>5, <1>6, <1>8, <1>9, <1>13
       DEF Drain, DrainDone, StoreRefuses, LeafFails, CursorFails, ReplaceFails, disk
  <1>14. ASSUME NEW p \in Procs, Kill(p) PROVE Named' BY <1>7, <1>14 DEF Kill, disk
  <1> QED BY <1>5, <1>10, <1>11, <1>12, <1>13, <1>14 DEF Next

-----------------------------------------------------------------------------
(* Reached, one position at a time. *)
Upto(n) == \A i \in 1..n : Applied(i)

LEMMA ReachedParts ==
  Reached <=> (~garbled => Upto(cursor) /\ Upto(tmp) /\ \A p \in Procs : Upto(applied[p]))
  BY DEF Reached, Upto

(* A position that is reached is one of the spool. *)
LEMMA UptoLen ==
  ASSUME Files, NEW n \in Nat, Upto(n)
  PROVE  n <= Len(spool)
  <1>1. Len(spool) \in Nat BY DEF Files
  <1>2. CASE n = 0 BY <1>1, <1>2
  <1>3. CASE n # 0
    <2>1. n \in 1..n BY <1>3
    <2>2. PICK k \in 1..Len(rows) : rows[k] = n BY <2>1 DEF Upto, Applied, ToSet, Files
    <2> QED BY <1>1, <2>2 DEF Files
  <1> QED BY <1>2, <1>3

(* Only the writing of a cursor can garble one. *)
LEMMA GarbledStep ==
  ASSUME [Next]_vars
  PROVE  UNCHANGED garbled \/ \E p \in Procs : WriteTmp(p)
  <1> USE DEF told, Return, Raise
  <1>1. ASSUME NEW p \in Procs, Drain(p), ~WriteTmp(p) PROVE UNCHANGED garbled
    BY <1>1 DEF Drain, ReadCursor, ReadSpool, StoreAppend, StoreRefuses, LeafAppend, LeafFails,
                DrainDone, OpenTmp, Replace, CursorFails, ReplaceFails, Wake
  <1>2. ASSUME NEW p \in Procs, OpenStore(p) \/ Flush(p) \/ Close(p) \/ Kill(p)
        PROVE  UNCHANGED garbled
    BY <1>2 DEF OpenStore, Flush, Close, Kill
  <1>3. ASSUME NEW p \in Procs, NEW e \in Events, Record(p, e) PROVE UNCHANGED garbled
    BY <1>3 DEF Record
  <1>4. ASSUME NEW cut \in BOOLEAN, BoxCrash(cut) PROVE UNCHANGED garbled
    BY <1>4 DEF BoxCrash
  <1>5. CASE UNCHANGED vars BY <1>5 DEF vars
  <1> QED BY <1>1, <1>2, <1>3, <1>4, <1>5 DEF Next

(* The spool only grows. *)
LEMMA SpoolStep ==
  ASSUME Files, [Next]_vars
  PROVE  Len(spool') \in Nat /\ Len(spool) \in Nat /\ Len(spool) <= Len(spool')
  <1> USE DEF disk, Return, Raise
  <1>1. ASSUME NEW p \in Procs, Drain(p) PROVE UNCHANGED spool
    BY <1>1 DEF Drain, ReadCursor, ReadSpool, StoreAppend, StoreRefuses, LeafAppend, LeafFails,
                DrainDone, OpenTmp, WriteTmp, Replace, CursorFails, ReplaceFails, Wake
  <1>2. ASSUME NEW p \in Procs, OpenStore(p) \/ Flush(p) \/ Close(p) \/ Kill(p)
        PROVE  UNCHANGED spool
    BY <1>2 DEF OpenStore, Flush, Close, Kill
  <1>3. ASSUME NEW p \in Procs, NEW e \in Events, Record(p, e)
        PROVE  spool' \in Seq(Events) /\ Len(spool') = Len(spool) + 1
    BY <1>3 DEF Record, Files
  <1>4. ASSUME NEW cut \in BOOLEAN, BoxCrash(cut) PROVE UNCHANGED spool BY <1>4 DEF BoxCrash
  <1>5. CASE UNCHANGED vars BY <1>5 DEF vars
  <1>6. Len(spool) \in Nat BY DEF Files
  <1> QED BY <1>1, <1>2, <1>3, <1>4, <1>5, <1>6 DEF Next

(* Where the positions of the next state come from, if none was garbled.    *)
LEMMA PositionsStep ==
  ASSUME Minds, Files, [Next]_vars, ~garbled', ~\E p \in Procs : LeafAppend(p)
  PROVE  /\ \/ cursor' \in {cursor, tmp} /\ cursor' # NoFile
            \/ cursor' \in 0..cursor
            \/ \E q \in Procs : cursor' = applied[q]
         /\ tmp' \in {tmp, 0, NoFile} \/ \E q \in Procs : tmp' = applied[q]
         /\ \A p \in Procs : applied'[p] \in {applied[p], 0, cursor}
  <1> DEFINE Goal == /\ \/ cursor' \in {cursor, tmp} /\ cursor' # NoFile
                        \/ cursor' \in 0..cursor
                        \/ \E q \in Procs : cursor' = applied[q]
                     /\ tmp' \in {tmp, 0, NoFile} \/ \E q \in Procs : tmp' = applied[q]
                     /\ \A p \in Procs : applied'[p] \in {applied[p], 0, cursor}
  <1>0. cursor # NoFile BY DEF Files, NoFile
  <1>1. ASSUME NEW p \in Procs, ReadCursor(p) PROVE Goal
    BY <1>0, <1>1 DEF ReadCursor, disk, Minds
  <1>2. ASSUME NEW p \in Procs,
               ReadSpool(p) \/ OpenStore(p) \/ Wake(p) \/ Flush(p) \/ Close(p) \/ StoreAppend(p)
        PROVE  Goal
    BY <1>0, <1>2 DEF ReadSpool, OpenStore, Wake, Flush, Close, StoreAppend, disk, mind
  <1>3. ASSUME NEW p \in Procs, DrainDone(p) \/ StoreRefuses(p) \/ LeafFails(p) PROVE Goal
    <2>1. (Return(p, {}) \/ Return(p, {p})) /\ UNCHANGED disk
      BY <1>3 DEF DrainDone, StoreRefuses, LeafFails
    <2> QED BY <1>0, <2>1 DEF Return, Ended, disk
  <1>4. ASSUME NEW p \in Procs, OpenTmp(p) PROVE Goal BY <1>0, <1>4 DEF OpenTmp
  <1>5. ASSUME NEW p \in Procs, WriteTmp(p) PROVE Goal
    BY <1>0, <1>5 DEF WriteTmp, Write
  <1>6. ASSUME NEW p \in Procs, Replace(p) PROVE Goal BY <1>0, <1>6 DEF Replace
  <1>7. ASSUME NEW p \in Procs, CursorFails(p) \/ ReplaceFails(p) PROVE Goal
    <2>1. Raise(p) BY <1>7 DEF CursorFails, ReplaceFails
    <2> QED BY <1>0, <2>1 DEF Raise, Ended, disk
  <1>8. ASSUME NEW p \in Procs, Kill(p) PROVE Goal BY <1>0, <1>8 DEF Kill, Ended, disk
  <1>9. ASSUME NEW p \in Procs, NEW e \in Events, Record(p, e) PROVE Goal
    BY <1>0, <1>9 DEF Record, mind
  <1>10. ASSUME NEW cut \in BOOLEAN, BoxCrash(cut) PROVE Goal BY <1>10 DEF BoxCrash, Ended
  <1>11. CASE UNCHANGED vars BY <1>0, <1>11 DEF vars, disk, mind
  <1> QED BY <1>1, <1>2, <1>3, <1>4, <1>5, <1>6, <1>7, <1>8, <1>9, <1>10, <1>11 DEF Next, Drain

(* No step lets a position get ahead of the store. *)
LEMMA NextReached ==
  ASSUME Minds, Files, Counts, Leaves, Reached, [Next]_vars
  PROVE  Reached'
  <1> SUFFICES ASSUME ~garbled'
               PROVE  /\ \A i \in 1..cursor' : Applied(i)'
                      /\ \A i \in 1..tmp' : Applied(i)'
                      /\ \A p \in Procs : \A i \in 1..applied'[p] : Applied(i)'
    BY DEF Reached
  <1>0. ~garbled
    <2>1. CASE \E p \in Procs : WriteTmp(p) BY <2>1 DEF WriteTmp, Write
    <2> QED BY <2>1, GarbledStep
  <1>1. Upto(cursor) /\ Upto(tmp) /\ \A p \in Procs : Upto(applied[p]) BY <1>0, ReachedParts
  <1>2. \A i : Applied(i) => Applied(i)' BY AppliedStays
  <1>3. cursor \in Nat /\ tmp \in Int /\ \A p \in Procs : applied[p] \in Nat
    BY DEF Minds, Files, NoFile
  <1>4. CASE \E p \in Procs : LeafAppend(p)
    <2>1. PICK p \in Procs : LeafAppend(p) BY <1>4
    <2>2. Applied(applied[p] + 1)
      <3>1. seq[p] \in 1..Len(rows) /\ rows[seq[p]] = applied[p] + 1
        BY <2>1 DEF LeafAppend, Step, Leaves, Minds
      <3> QED BY <3>1 DEF Applied, ToSet, Files
    <2>3. \A q \in Procs : \A i \in 1..applied'[q] : Applied(i)
      <3>1. TAKE q \in Procs
      <3>2. CASE q # p
        <4>1. applied'[q] = applied[q] BY <2>1, <3>2 DEF LeafAppend, Minds
        <4> QED BY <1>1, <4>1 DEF Upto
      <3>3. CASE q = p
        <4>1. applied'[q] = applied[p] + 1 BY <2>1, <3>3 DEF LeafAppend, Minds
        <4>2. \A i \in 1..(applied[p] + 1) : i \in 1..applied[p] \/ i = applied[p] + 1
          BY <1>3
        <4> QED BY <1>1, <2>2, <4>1, <4>2 DEF Upto
      <3> QED BY <3>2, <3>3
    <2>4. UNCHANGED <<cursor, tmp>> BY <2>1 DEF LeafAppend, disk
    <2> QED BY <1>1, <1>2, <2>3, <2>4 DEF Upto
  <1>5. CASE ~\E p \in Procs : LeafAppend(p)
    <2>1. \A i \in 1..cursor' : Applied(i)
      <3>1. CASE cursor' \in {cursor, tmp} BY <1>1, <3>1 DEF Upto
      <3>2. CASE cursor' \in 0..cursor
        <4>1. 1..cursor' \subseteq 1..cursor BY <1>3, <3>2
        <4> QED BY <1>1, <4>1 DEF Upto
      <3>3. CASE \E q \in Procs : cursor' = applied[q] BY <1>1, <3>3 DEF Upto
      <3> QED BY <1>5, <3>1, <3>2, <3>3, PositionsStep
    <2>2. \A i \in 1..tmp' : Applied(i)
      <3>1. CASE tmp' = tmp BY <1>1, <3>1 DEF Upto
      <3>2. CASE tmp' \in {0, NoFile}
        <4>1. 1..tmp' = {} BY <3>2 DEF NoFile
        <4> QED BY <4>1
      <3>3. CASE \E q \in Procs : tmp' = applied[q] BY <1>1, <3>3 DEF Upto
      <3> QED BY <1>5, <3>1, <3>2, <3>3, PositionsStep
    <2>3. \A p \in Procs : \A i \in 1..applied'[p] : Applied(i)
      <3>1. TAKE p \in Procs
      <3>2. CASE applied'[p] = applied[p] BY <1>1, <3>2 DEF Upto
      <3>3. CASE applied'[p] = cursor BY <1>1, <3>3 DEF Upto
      <3>4. CASE applied'[p] = 0
        <4>1. 1..applied'[p] = {} BY <3>4
        <4> QED BY <4>1
      <3> QED BY <1>5, <3>2, <3>3, <3>4, PositionsStep
    <2> QED BY <1>2, <2>1, <2>2, <2>3
  <1> QED BY <1>4, <1>5

(* A row is appended only after the rows of all lines before it. *)
LEMMA NextInOrder ==
  ASSUME Minds, Files, Reached, InOrder, [Next]_vars
  PROVE  InOrder'
  <1> SUFFICES ASSUME ~garbled'
               PROVE  \A k \in 1..Len(rows') : \A i \in 1..(rows'[k] - 1) :
                        \E m \in 1..(k - 1) : rows'[m] = i
    BY DEF InOrder
  <1>0. ~garbled
    <2>1. CASE \E p \in Procs : WriteTmp(p) BY <2>1 DEF WriteTmp, Write
    <2> QED BY <2>1, GarbledStep
  <1>1. CASE UNCHANGED rows BY <1>0, <1>1 DEF InOrder
  <1>2. CASE \E p \in Procs : StoreAppend(p)
    <2>1. PICK p \in Procs : StoreAppend(p) BY <1>2
    <2>2. applied[p] + 1 \in 1..Len(spool) /\ applied[p] \in Nat
      BY <2>1 DEF StoreAppend, Minds, Files
    <2>3. rows' = Append(rows, applied[p] + 1) BY <2>1 DEF StoreAppend
    <2>4. /\ Len(rows') = Len(rows) + 1 /\ Len(rows) \in Nat
          /\ \A k \in 1..Len(rows) : rows'[k] = rows[k]
          /\ rows'[Len(rows) + 1] = applied[p] + 1
      BY <2>2, <2>3 DEF Files
    <2>5. SUFFICES ASSUME NEW k \in 1..Len(rows'), NEW i \in 1..(rows'[k] - 1)
                   PROVE  \E m \in 1..(k - 1) : rows'[m] = i
      OBVIOUS
    <2>6. CASE k = Len(rows) + 1
      <3>1. i \in 1..applied[p] BY <2>2, <2>4, <2>6
      <3>2. Applied(i) BY <1>0, <3>1 DEF Reached
      <3>3. PICK m \in 1..Len(rows) : rows[m] = i BY <3>2 DEF Applied, ToSet, Files
      <3> QED BY <2>4, <2>6, <3>3
    <2>7. CASE k # Len(rows) + 1
      <3>1. k \in 1..Len(rows) /\ 1..(k - 1) \subseteq 1..Len(rows) BY <2>4, <2>7
      <3>2. PICK m \in 1..(k - 1) : rows[m] = i BY <1>0, <2>4, <3>1 DEF InOrder
      <3> QED BY <2>4, <3>1, <3>2
    <2> QED BY <2>6, <2>7
  <1> QED BY <1>1, <1>2, RowsStep

-----------------------------------------------------------------------------
(* Failures and crashes are counted. *)
LEMMA BoundsStep ==
  ASSUME Counts, Counts', [Next]_vars
  PROVE  (crashes' = 0 => crashes = 0) /\ (overlaps' = 0 => overlaps = 0)
  <1> USE DEF Counts
  <1> DEFINE Goal == crashes' \in {crashes, crashes + 1} /\ overlaps' \in {overlaps, overlaps + 1}
  <1>1. ASSUME NEW p \in Procs, Drain(p) PROVE Goal
    BY <1>1 DEF Drain, ReadCursor, ReadSpool, StoreAppend, StoreRefuses, LeafAppend, LeafFails,
       DrainDone, OpenTmp, WriteTmp, Replace, CursorFails, ReplaceFails, Wake, bounds, told,
       Failing, Raise
  <1>2. ASSUME NEW p \in Procs, OpenStore(p) \/ Flush(p) \/ Close(p) \/ Kill(p) PROVE Goal
    BY <1>2 DEF OpenStore, Flush, Close, Kill, bounds, told, Crashing
  <1>3. ASSUME NEW p \in Procs, NEW e \in Events, Record(p, e) PROVE Goal
    BY <1>3 DEF Record, bounds, told
  <1>4. ASSUME NEW cut \in BOOLEAN, BoxCrash(cut) PROVE Goal
    BY <1>4 DEF BoxCrash, Crashing, told
  <1>5. CASE UNCHANGED vars BY <1>5 DEF vars, bounds, told
  <1> HIDE DEF Goal, Counts
  <1>6. ASSUME Next PROVE Goal
    <2>1. CASE \E p \in Procs : Drain(p) BY <1>1, <2>1
    <2>2. CASE \E p \in Procs : OpenStore(p) \/ Flush(p) \/ Close(p) \/ Kill(p)
      BY <1>2, <2>2
    <2>3. CASE \E p \in Procs, e \in Events : Record(p, e) BY <1>3, <2>3
    <2>4. CASE \E cut \in BOOLEAN : BoxCrash(cut) BY <1>4, <2>4
    <2> QED BY <1>6, <2>1, <2>2, <2>3, <2>4, Zenon DEF Next
  <1>7. CASE Next BY <1>6, <1>7 DEF Goal, Counts
  <1>8. CASE UNCHANGED vars BY <1>5, <1>8 DEF Goal, Counts
  <1> QED BY <1>7, <1>8

(* A step is one of a process that has the ledger open, or opens it, or the *)
(* end of all.                                                              *)
Acts(p) == Drain(p) \/ Flush(p) \/ Close(p) \/ \E e \in Events : Record(p, e)

LEMMA WhoActs ==
  ASSUME Next
  PROVE  \/ \E p \in Procs : OpenStore(p)
         \/ \E p \in Open : Acts(p) \/ Kill(p)
         \/ \E cut \in BOOLEAN : BoxCrash(cut)
  <1>1. ASSUME NEW p \in Procs, Acts(p) \/ Kill(p) PROVE p \in Open
    BY <1>1 DEF Acts, Drain, Flush, Close, Record, ReadCursor, ReadSpool, StoreAppend,
         StoreRefuses, LeafAppend, LeafFails, DrainDone, OpenTmp, WriteTmp, Replace,
         CursorFails, ReplaceFails, Wake, Kill, Step, Open
  <1> QED BY <1>1, Zenon DEF Next, Acts

(* Alone, for the step of p, the only process. *)
Fits(p) ==
  /\ Open' \subseteq {p}
  /\ p \in Open' =>
       /\ pc'[p] = "writetmp" => fd'[p] = "tmp" /\ tmp' = 0
       /\ p \notin leafless' => Len(rows') = Len(tree'[p]) + InHand(p)'

LEMMA StepFits ==
  ASSUME Minds, Files, NEW p \in Open, \A q \in Open : q = p,
         p \notin leafless => Len(rows) = Len(tree[p]) + InHand(p),
         Acts(p)
  PROVE  Fits(p)
  <1> USE DEF Minds, Files, Step, InHand, Open
  <1>1. CASE \/ ReadCursor(p) \/ ReadSpool(p) \/ Wake(p) \/ Flush(p) \/ Close(p)
             \/ \E e \in Events : Record(p, e)
    <2>1. /\ UNCHANGED <<rows, tree, leafless>> /\ pc' = [pc EXCEPT ![p] = pc'[p]]
          /\ pc[p] \in {"cursor", "read", "up"} /\ pc'[p] \in {"read", "apply", "up"}
      BY <1>1 DEF ReadCursor, ReadSpool, Wake, Flush, Close, Record, disk, mind, life
    <2> QED BY <2>1 DEF Fits
  <1>2. CASE StoreAppend(p)
    <2>1. /\ UNCHANGED <<tree, leafless>> /\ pc' = [pc EXCEPT ![p] = "leaf"]
          /\ pc[p] = "apply" /\ Len(rows') = Len(rows) + 1
      BY <1>2 DEF StoreAppend, life
    <2>2. Open' \subseteq {p} /\ pc'[p] = "leaf" BY <2>1
    <2>3. Len(tree[p]) \in Nat
      <3>1. tree[p] \in Seq(1..Len(rows)) OBVIOUS
      <3> HIDE DEF Minds
      <3> QED BY <3>1
    <2> QED BY <2>1, <2>2, <2>3 DEF Fits
  <1>3. CASE LeafAppend(p)
    <2>1. /\ UNCHANGED <<rows, leafless>> /\ pc' = [pc EXCEPT ![p] = "opentmp"]
          /\ pc[p] = "leaf" /\ tree'[p] = Append(tree[p], seq[p])
      BY <1>3 DEF LeafAppend, disk, life
    <2>2. Open' \subseteq {p} /\ pc'[p] = "opentmp" BY <2>1
    <2>3. Len(tree'[p]) = Len(tree[p]) + 1 /\ Len(tree[p]) \in Nat
      <3>1. tree[p] \in Seq(0..Len(rows)) /\ seq[p] \in 0..Len(rows)
        <4>1. tree[p] \in Seq(1..Len(rows)) /\ seq[p] \in 0..Len(rows) OBVIOUS
        <4>2. 1..Len(rows) \subseteq 0..Len(rows) OBVIOUS
        <4> QED BY <4>1, <4>2, SeqGrows
      <3> HIDE DEF Minds
      <3> QED BY <2>1, <3>1
    <2> QED BY <2>1, <2>2, <2>3 DEF Fits
  <1>4. CASE OpenTmp(p) \/ WriteTmp(p) \/ Replace(p)
    <2>1. /\ UNCHANGED <<rows, tree, leafless>> /\ pc' = [pc EXCEPT ![p] = pc'[p]]
          /\ pc[p] # "leaf" /\ pc'[p] \in {"writetmp", "replace", "apply"}
          /\ pc'[p] = "writetmp" => fd'[p] = "tmp" /\ tmp' = 0
      BY <1>4 DEF OpenTmp, WriteTmp, Replace, life
    <2> QED BY <2>1 DEF Fits
  <1>5. ASSUME Ended({p}) PROVE Fits(p) BY <1>5 DEF Ended, Fits
  <1>6. CASE DrainDone(p) \/ StoreRefuses(p)
    <2>1. Return(p, {}) /\ UNCHANGED rows /\ pc[p] = "apply"
      BY <1>6 DEF DrainDone, StoreRefuses, disk
    <2>2. CASE p \notin closing
      <3>1. UNCHANGED <<rows, tree, leafless>> /\ pc' = [pc EXCEPT ![p] = "up"]
        BY <2>1, <2>2 DEF Return
      <3> QED BY <2>1, <3>1 DEF Fits
    <2> QED BY <1>5, <2>1, <2>2 DEF Return
  <1>7. CASE LeafFails(p)
    <2>1. Return(p, {p}) BY <1>7 DEF LeafFails
    <2>2. CASE p \notin closing
      <3>1. p \in leafless' /\ pc' = [pc EXCEPT ![p] = "up"] BY <2>1, <2>2 DEF Return
      <3> QED BY <3>1 DEF Fits
    <2> QED BY <1>5, <2>1, <2>2 DEF Return
  <1>8. CASE CursorFails(p) \/ ReplaceFails(p)
    <2>1. Raise(p) /\ pc[p] \in {"opentmp", "writetmp", "replace"}
      BY <1>8 DEF CursorFails, ReplaceFails
    <2>2. CASE p \in started \ closing
      <3>1. UNCHANGED <<rows, tree, leafless>> /\ pc' = [pc EXCEPT ![p] = "up"]
        BY <2>1, <2>2 DEF Raise, disk
      <3> QED BY <2>1, <3>1 DEF Fits
    <2> QED BY <1>5, <2>1, <2>2 DEF Raise
  <1> HIDE DEF Minds, Files, Step, InHand, Open
  <1> QED BY <1>1, <1>2, <1>3, <1>4, <1>6, <1>7, <1>8 DEF Acts, Drain

(* Processes that take turns: one file, and every row but the one in hand   *)
(* has its leaf.                                                            *)
LEMMA NextAlone ==
  ASSUME Minds, Files, Counts, Counts', Alone, [Next]_vars
  PROVE  Alone'
  <1> DEFINE Goal == /\ \A p, q \in Open' : p = q
                     /\ \A p \in Open' : pc'[p] = "writetmp" => fd'[p] = "tmp" /\ tmp' = 0
                     /\ \A p \in Open' : p \notin leafless' =>
                          Len(rows') = Len(tree'[p]) + InHand(p)'
  <1> SUFFICES ASSUME overlaps' = 0 PROVE Goal BY DEF Alone, Open, InHand
  <1>0. /\ overlaps = 0 /\ \A p, q \in Open : p = q
        /\ \A p \in Open : pc[p] = "writetmp" => fd[p] = "tmp" /\ tmp = 0
        /\ \A p \in Open : p \notin leafless => Len(rows) = Len(tree[p]) + InHand(p)
    BY BoundsStep DEF Alone
  <1>1. ASSUME NEW p \in Procs, OpenStore(p) PROVE Goal
    <2>1. Open = {} BY <1>0, <1>1 DEF OpenStore, Counts
    <2>2. /\ pc' = [pc EXCEPT ![p] = "cursor"] /\ rows' = rows
          /\ tree'[p] = [k \in 1..Len(rows) |-> k]
      BY <1>1 DEF OpenStore, Step, disk, Minds
    <2>3. Open' = {p} /\ pc'[p] = "cursor" BY <2>1, <2>2 DEF Open, Minds
    <2>4. Len(tree'[p]) = Len(rows') /\ Len(rows') \in Nat BY <2>2 DEF Files
    <2>5. InHand(p)' = 0 BY <2>3 DEF InHand
    <2>6. Len(rows') = Len(tree'[p]) + InHand(p)' BY <2>4, <2>5
    <2> QED BY <2>3, <2>6
  <1>2. ASSUME NEW p \in Open, Acts(p) PROVE Goal
    <2>1. Fits(p) BY <1>0, <1>2, StepFits
    <2> QED BY <2>1 DEF Fits
  <1>3. ASSUME NEW p \in Open, Kill(p) PROVE Goal
    <2>1. Open' = {} BY <1>0, <1>3 DEF Kill, Ended, Open, Minds
    <2> QED BY <2>1
  <1>4. ASSUME NEW cut \in BOOLEAN, BoxCrash(cut) PROVE Goal
    <2>1. Open' = {} BY <1>4 DEF BoxCrash, Ended, Open
    <2> QED BY <2>1
  <1>5. CASE UNCHANGED vars BY <1>0, <1>5 DEF vars, disk, mind, life, Open, InHand
  <1>6. CASE Next BY <1>1, <1>2, <1>3, <1>4, <1>6, WhoActs
  <1> QED BY <1>5, <1>6

(* Who writes alone writes into an empty file, and a file that holds the    *)
(* number of a line holds one digit if there are not more lines.            *)
LEMMA NextGarbled ==
  ASSUME Minds, Files, Counts, Counts', Named, Garbled, Reached, Alone, [Next]_vars
  PROVE  Garbled'
  <1> SUFFICES ASSUME garbled' PROVE overlaps' > 0 /\ Len(spool') >= Base BY DEF Garbled
  <1>1. /\ overlaps \in Nat /\ overlaps' \in Nat /\ (overlaps' = 0 => overlaps = 0)
        /\ Base \in Nat /\ Base > 1
    BY BoundsStep, LedgerAssumption DEF Counts
  <1>2. CASE garbled BY <1>1, <1>2, SpoolStep DEF Garbled
  <1>3. CASE ~garbled
    <2>1. PICK p \in Procs : WriteTmp(p) BY <1>3, GarbledStep
    <2>2. pc[p] = "writetmp" /\ p \in Open /\ applied[p] \in Nat
      BY <2>1 DEF WriteTmp, Step, Open, Minds
    <2>3. PICK m \in {cursor, tmp} : /\ m = tmp => fd[p] = "tmp" \/ tmp = cursor
                                     /\ m \in Nat /\ Overlay(applied[p], m) # applied[p]
                                     /\ fd[p] = "tmp" => m = tmp
      <3>1. CASE fd[p] = "tmp"
        <4>1. tmp \in Nat BY <2>2, <3>1 DEF Named, Files, Open
        <4>2. Overlay(applied[p], tmp) # applied[p]
          BY <1>3, <2>1, <3>1 DEF WriteTmp, Write
        <4> QED BY <3>1, <4>1, <4>2
      <3>2. CASE fd[p] # "tmp"
        <4>1. Overlay(applied[p], cursor) # applied[p]
          BY <1>3, <2>1, <3>2 DEF WriteTmp, Write
        <4> QED BY <3>2, <4>1 DEF Files
      <3> QED BY <3>1, <3>2
    <2>4. m >= Base
      <3>1. ~(m < Base) BY <2>2, <2>3, OverlayShort
      <3> QED BY <1>1, <2>3, <3>1
    <2>5. m <= Len(spool)
      <3>1. Upto(m) BY <1>3, <2>3, ReachedParts
      <3> QED BY <2>3, <3>1, UptoLen
    <2>6. overlaps # 0 BY <1>1, <2>2, <2>3, <2>4 DEF Alone
    <2> QED BY <1>1, <2>3, <2>4, <2>5, <2>6, SpoolStep
  <1> QED BY <1>2, <1>3

-----------------------------------------------------------------------------
(* Nothing is owed after the step of p, the only process. *)
Settles(p) ==
  /\ Open' \subseteq {p}
  /\ Open' = {} => Len(rows') <= cursor' + fails'
  /\ p \in Open' => Owes(p)'

LEMMA ReturnPays ==
  ASSUME Minds, Files, Counts, Counts', NEW p \in Procs, \A q \in Open : q = p, Owes(p),
         NEW L, Return(p, L), UNCHANGED <<rows, cursor>>,
         \/ pc[p] = "apply" /\ fails <= fails'
         \/ pc[p] = "leaf" /\ fails' = fails + 1
  PROVE  Settles(p)
  <1>1. Len(rows) <= cursor + fails' /\ Len(rows) <= applied[p] + fails'
    <2>1. /\ Len(rows) \in Nat /\ cursor \in Nat /\ applied[p] \in Nat
          /\ fails \in Nat /\ fails' \in Nat
      BY LedgerAssumption DEF Minds, Files, Counts
    <2>2. CASE pc[p] = "apply" /\ fails <= fails'
      <3>1. InHand(p) = 0 /\ ~Busy(p) BY <2>2 DEF InHand, Busy, Writing
      <3>2. Len(rows) <= applied[p] + fails + 0 /\ Len(rows) <= cursor + fails + 0
        BY <2>2, <3>1 DEF Owes
      <3>3. \A l, c, f, g \in Nat : l <= c + f + 0 /\ f <= g => l <= c + g OBVIOUS
      <3> QED BY <2>1, <2>2, <3>2, <3>3, Zenon
    <2>3. CASE pc[p] = "leaf" /\ fails' = fails + 1
      BY <2>1, <2>3 DEF Owes, Busy, Writing, InHand
    <2> QED BY <2>2, <2>3
  <1>2. /\ Len(rows') <= cursor' + fails' /\ Len(rows') <= applied[p] + fails'
        /\ cursor' \in Nat /\ fails' \in Nat
    BY <1>1 DEF Files, Counts, Minds
  <1>3. CASE p \in closing
    <2>1. Open' = {} BY <1>3 DEF Return, Ended, Open
    <2> QED BY <1>2, <2>1 DEF Settles
  <1>4. CASE p \notin closing
    <2>1. pc' = [pc EXCEPT ![p] = "up"] /\ applied' = applied BY <1>4 DEF Return
    <2>2. Open' \subseteq {p} /\ pc'[p] = "up" BY <2>1 DEF Open, Minds
    <2>3. InHand(p)' = 0 /\ ~Busy(p)' BY <2>2 DEF InHand, Busy, Writing
    <2>4. /\ Len(rows') <= applied'[p] + fails' + 0 /\ Len(rows') <= cursor' + fails' + 0
      <3>1. applied'[p] \in Nat /\ applied'[p] = applied[p] BY <2>1 DEF Minds
      <3> QED BY <1>2, <3>1
    <2>5. Owes(p)' BY <2>2, <2>3, <2>4 DEF Owes
    <2> QED BY <1>2, <2>2, <2>5 DEF Settles
  <1> QED BY <1>3, <1>4

LEMMA RaisePays ==
  ASSUME Minds, Files, Counts, NEW p \in Procs, \A q \in Open : q = p, Owes(p),
         Writing(p), Raise(p), fails' = fails + 1
  PROVE  Settles(p)
  <1>1. UNCHANGED <<rows, cursor>> BY DEF Raise, disk
  <1>2. /\ Len(rows') <= cursor' + fails' /\ Len(rows') <= applied[p] + fails'
        /\ cursor' \in Nat /\ fails' \in Nat
    BY <1>1, SMTT(20) DEF Owes, Busy, Writing, InHand, Counts, Files, Minds
  <1>4. CASE p \in started \ closing
    <2>1. pc' = [pc EXCEPT ![p] = "up"] /\ applied' = applied BY <1>4 DEF Raise
    <2>2. Open' \subseteq {p} /\ pc'[p] = "up" BY <2>1 DEF Open, Minds
    <2>3. InHand(p)' = 0 /\ ~Busy(p)' BY <2>2 DEF InHand, Busy, Writing
    <2>4. /\ Len(rows') <= applied'[p] + fails' + 0 /\ Len(rows') <= cursor' + fails' + 0
      <3>1. applied'[p] \in Nat /\ applied'[p] = applied[p] BY <2>1 DEF Minds
      <3> QED BY <1>2, <3>1
    <2>5. Owes(p)' BY <2>2, <2>3, <2>4 DEF Owes
    <2> QED BY <1>2, <2>2, <2>5 DEF Settles
  <1>5. CASE p \notin started \ closing
    <2>1. Open' = {} BY <1>5 DEF Raise, Ended, Open
    <2> QED BY <1>2, <2>1 DEF Settles
  <1> QED BY <1>4, <1>5

LEMMA StepPays ==
  ASSUME Minds, Files, Counts, Counts', NEW p \in Procs, \A q \in Open : q = p, Owes(p),
         pc[p] = "writetmp" => fd[p] = "tmp" /\ tmp = 0,
         Acts(p)
  PROVE  Settles(p)
  <1> USE DEF Minds, Files, Counts, Step
  <1>0. /\ Len(rows) \in Nat /\ cursor \in Nat /\ fails \in Nat
        /\ \A q \in Procs : applied[q] \in Nat
    BY LedgerAssumption
  <1>1. CASE \/ ReadSpool(p) \/ Wake(p) \/ Flush(p) \/ Close(p) \/ OpenTmp(p)
             \/ \E e \in Events : Record(p, e)
    <2>1. /\ UNCHANGED <<rows, cursor, fails, applied>>
          /\ pc' = [pc EXCEPT ![p] = pc'[p]] /\ p \in Open
          /\ pc[p] \in {"read", "up", "opentmp"}
          /\ pc'[p] \in {"apply", "read", "writetmp", "up"}
          /\ pc'[p] = "writetmp" <=> pc[p] = "opentmp"
      BY <1>1 DEF ReadSpool, Wake, Flush, Close, OpenTmp, Record, disk, bounds, mind, Open
    <2>2. Open' \subseteq {p} /\ p \in Open' BY <2>1 DEF Open
    <2> QED BY <1>0, <2>1, <2>2 DEF Settles, Owes, Busy, Writing, InHand
  <1>2. CASE ReadCursor(p)
    <2>1. /\ UNCHANGED <<rows, cursor, fails>> /\ pc[p] = "cursor" /\ pc'[p] = "read"
          /\ pc' = [pc EXCEPT ![p] = "read"] /\ applied'[p] = cursor
      BY <1>2 DEF ReadCursor, disk, bounds
    <2>2. Open' \subseteq {p} /\ p \in Open' BY <2>1 DEF Open
    <2> QED BY <1>0, <2>1, <2>2 DEF Settles, Owes, Busy, Writing, InHand
  <1>3. CASE StoreAppend(p)
    <2>1. /\ UNCHANGED <<cursor, fails, applied>> /\ pc[p] = "apply" /\ pc'[p] = "leaf"
          /\ pc' = [pc EXCEPT ![p] = "leaf"] /\ Len(rows') = Len(rows) + 1
      BY <1>3 DEF StoreAppend, bounds
    <2>2. Open' \subseteq {p} /\ p \in Open' BY <2>1 DEF Open
    <2> QED BY <1>0, <2>1, <2>2, SMTT(20) DEF Settles, Owes, Busy, Writing, InHand
  <1>9. CASE LeafAppend(p)
    <2>1. /\ UNCHANGED <<cursor, fails, rows>> /\ pc[p] = "leaf" /\ pc'[p] = "opentmp"
          /\ pc' = [pc EXCEPT ![p] = "opentmp"] /\ applied'[p] = applied[p] + 1
      BY <1>9 DEF LeafAppend, disk, bounds
    <2>2. Open' \subseteq {p} /\ p \in Open' BY <2>1 DEF Open
    <2> QED BY <1>0, <2>1, <2>2, SMTT(20) DEF Settles, Owes, Busy, Writing, InHand
  <1>4. CASE StoreRefuses(p) \/ DrainDone(p) \/ LeafFails(p)
    <2>1. (Return(p, {}) \/ Return(p, {p})) /\ UNCHANGED <<rows, cursor>>
      BY <1>4 DEF StoreRefuses, DrainDone, LeafFails, disk
    <2>2. \/ pc[p] = "apply" /\ fails' \in {fails, fails + 1}
          \/ pc[p] = "leaf" /\ fails' = fails + 1
      BY <1>4 DEF StoreRefuses, DrainDone, LeafFails, Failing, bounds
    <2>3. \/ pc[p] = "apply" /\ fails <= fails'
          \/ pc[p] = "leaf" /\ fails' = fails + 1
      BY <1>0, <2>2
    <2> HIDE DEF Minds, Files, Counts
    <2> QED BY <2>1, <2>3, ReturnPays
  <1>5. CASE WriteTmp(p)
    <2>1. /\ UNCHANGED <<rows, fails, applied>> /\ pc[p] = "writetmp" /\ pc'[p] = "replace"
          /\ pc' = [pc EXCEPT ![p] = "replace"]
          /\ cursor' = cursor /\ tmp' = Overlay(applied[p], 0)
      BY <1>5 DEF WriteTmp, Write, bounds
    <2>3. tmp' = applied[p] BY <1>0, <2>1, OverlayShort, LedgerAssumption
    <2>2. Open' \subseteq {p} /\ p \in Open' BY <2>1 DEF Open
    <2> QED BY <1>0, <2>1, <2>2, <2>3 DEF Settles, Owes, Busy, Writing, InHand
  <1>6. CASE Replace(p)
    <2>1. /\ UNCHANGED <<rows, fails, applied>> /\ pc[p] = "replace" /\ pc'[p] = "apply"
          /\ pc' = [pc EXCEPT ![p] = "apply"]
          /\ cursor' = applied[p]
      BY <1>6 DEF Replace, bounds, Owes
    <2>2. Open' \subseteq {p} /\ p \in Open' BY <2>1 DEF Open
    <2> QED BY <1>0, <2>1, <2>2 DEF Settles, Owes, Busy, Writing, InHand
  <1>7. CASE CursorFails(p) BY <1>7, RaisePays DEF CursorFails, Failing, Writing
  <1>8. CASE ReplaceFails(p) BY <1>0, <1>8 DEF ReplaceFails, Owes, NoFile
  <1> QED BY <1>1, <1>2, <1>3, <1>4, <1>5, <1>6, <1>7, <1>8, <1>9 DEF Acts, Drain

(* A line that is committed again has been paid for by a failure. *)
LEMMA NextPaid ==
  ASSUME Minds, Files, Counts, Counts', Alone, Paid, [Next]_vars
  PROVE  Paid'
  <1> SUFFICES ASSUME crashes' = 0, overlaps' = 0
               PROVE  /\ Open' = {} => Len(rows') <= cursor' + fails'
                      /\ \A p \in Open' : Owes(p)'
    BY DEF Paid, Open, Owes, Busy, Writing, InHand
  <1>0. /\ crashes = 0 /\ \A p, q \in Open : p = q
        /\ Open = {} => Len(rows) <= cursor + fails
        /\ \A p \in Open : Owes(p)
        /\ \A p \in Open : pc[p] = "writetmp" => fd[p] = "tmp" /\ tmp = 0
    BY BoundsStep DEF Alone, Paid
  <1>1. ASSUME NEW p \in Procs, OpenStore(p)
        PROVE  Open' = {p} /\ Owes(p)'
    <2>1. Open = {} BY <1>1 DEF OpenStore, Counts
    <2>2. pc' = [pc EXCEPT ![p] = "cursor"] /\ UNCHANGED <<rows, cursor, fails>>
      BY <1>1 DEF OpenStore, Step, disk, bounds
    <2>3. Open' = {p} /\ pc'[p] = "cursor" BY <2>1, <2>2 DEF Open, Minds
    <2> QED BY <1>0, <2>1, <2>2, <2>3, LedgerAssumption DEF Owes, Busy, Writing, InHand, Counts, Files
  <1>2. ASSUME NEW p \in Open, Acts(p) PROVE Settles(p)
    BY <1>0, <1>2, StepPays DEF Open
  <1>3. ASSUME NEW p \in Procs, Kill(p) PROVE FALSE
    BY <1>0, <1>3 DEF Kill, Crashing
  <1>4. ASSUME NEW cut \in BOOLEAN, BoxCrash(cut) PROVE FALSE
    BY <1>0, <1>4 DEF BoxCrash, Crashing
  <1>5. CASE UNCHANGED vars
    BY <1>0, <1>5 DEF vars, disk, mind, bounds, Open, Owes, Busy, Writing, InHand
  <1>6. CASE Next
    <2>1. CASE \E p \in Open : Acts(p) BY <1>2, <2>1 DEF Settles
    <2> QED BY <1>1, <1>3, <1>4, <1>6, <2>1, WhoActs DEF Open
  <1> QED BY <1>5, <1>6

(* A store that has every line up to n has at least n rows of its own. *)
LEMMA ManyApplied ==
  ASSUME Files, NEW n \in Nat, Upto(n) PROVE n <= Cardinality(ToSet(rows))
  <1>1. 1..n \subseteq ToSet(rows) BY DEF Upto, Applied
  <1>2. ToSet(rows) \subseteq 1..Len(spool) /\ Len(spool) \in Nat
    <2>1. \A k \in DOMAIN rows : rows[k] \in 1..Len(spool) BY DEF Files
    <2> QED BY <2>1 DEF ToSet, Files
  <1>3. IsFiniteSet(1..Len(spool)) BY <1>2, FS_Interval
  <1>4. IsFiniteSet(ToSet(rows)) BY <1>2, <1>3, FS_Subset
  <1>5. Cardinality(1..n) = n BY FS_Interval
  <1>6. Cardinality(1..n) <= Cardinality(ToSet(rows)) BY <1>1, <1>4, FS_Subset
  <1> QED BY <1>5, <1>6

-----------------------------------------------------------------------------
(* The invariant holds at the start, and every step keeps it. *)
LEMMA InitIInv == Init => IInv
  <1> USE LedgerAssumption
  <1> SUFFICES ASSUME Init PROVE IInv OBVIOUS
  <1>1. /\ spool = <<>> /\ Len(spool) = 0 /\ rows = <<>> /\ Len(rows) = 0
        /\ rows \in Seq(1..Len(spool)) /\ spool \in Seq(Events)
    BY DEF Init
  <1>2. tree \in [Procs -> Seq(1..Len(rows))] BY <1>1 DEF Init
  <1>3. Minds BY <1>1, <1>2 DEF Init, Minds, UpIsStarted
  <1>4. Files
    <2>1. torn \in BOOLEAN BY DEF Init
    <2>2. cursor \in Nat /\ tmp \in {NoFile} \cup Nat BY DEF Init
    <2>3. spool \in Seq(Events) /\ rows \in Seq(1..Len(spool)) BY <1>1
    <2> QED BY <2>1, <2>2, <2>3 DEF Files
  <1>5. Counts
    <2>1. fails = 0 /\ crashes = 0 /\ overlaps = 0 /\ garbled \in BOOLEAN BY DEF Init
    <2> QED BY <2>1 DEF Counts
  <1>6. Reached BY DEF Init, Reached, NoFile
  <1>7. InOrder BY <1>1 DEF InOrder
  <1>8. Alone BY DEF Init, Alone, Open
  <1>9. Paid BY <1>1 DEF Init, Paid, Open
  <1>10. Named /\ Garbled BY DEF Init, Named, Garbled
  <1>11. Leaves BY DEF Init, Leaves, Writing
  <1> QED BY <1>3, <1>4, <1>5, <1>6, <1>7, <1>8, <1>9, <1>10, <1>11, TypeParts DEF IInv

LEMMA NextIInv == IInv /\ [Next]_vars => IInv'
  <1> SUFFICES ASSUME IInv, [Next]_vars PROVE IInv' OBVIOUS
  <1>1. Minds /\ Files /\ Counts BY TypeParts DEF IInv
  <1>2. Minds' /\ Files' /\ Counts' BY <1>1, NextTypes DEF IInv
  <1>3. TypeOK' /\ UpIsStarted'
    BY <1>2 DEF TypeOK, Minds, Files, Counts, Lines
  <1>4. Reached' BY <1>1, NextReached DEF IInv
  <1>5. InOrder' BY <1>1, NextInOrder DEF IInv
  <1>6. Alone' BY <1>1, <1>2, NextAlone DEF IInv
  <1>7. Paid' BY <1>1, <1>2, NextPaid DEF IInv
  <1>8. Named' BY <1>1, NextNamed DEF IInv
  <1>9. Leaves' BY <1>1, NextLeaves DEF IInv
  <1>10. Garbled' BY <1>1, <1>2, NextGarbled DEF IInv
  <1> QED BY <1>3, <1>4, <1>5, <1>6, <1>7, <1>8, <1>9, <1>10 DEF IInv

LEMMA Invariant == Spec => []IInv
  BY InitIInv, NextIInv, PTL DEF Spec

(* The files, the store and what every process remembers stay within the    *)
(* spool, for any processes, events, failures, crashes and overlaps: a      *)
(* thread that has died is one that was started.                            *)
THEOREM TypeCorrect == Spec => []TypeOK
  <1>1. IInv => TypeOK BY DEF IInv
  <1> QED BY <1>1, Invariant, PTL

(* Until a cursor is garbled no cursor, on the disk, about to be or in a    *)
(* process, is ahead of the store, although all processes share the name of *)
(* .tmp and a descriptor may write to a file that was moved away.  It takes *)
(* a second process and a spool of as many lines as there are digits to     *)
(* garble one.                                                              *)
THEOREM CursorIsBehind == Spec => []NothingSkipped
  <1>1. IInv => NothingSkipped BY DEF IInv, Garbled, Reached, NothingSkipped, Open
  <1> QED BY <1>1, Invariant, PTL

(* The store has every line first in the order of the spool, whatever       *)
(* processes and failures, until a cursor is garbled.                       *)
THEOREM OrderKept == Spec => []InOrder
  <1>1. IInv => InOrder BY DEF IInv
  <1> QED BY <1>1, Invariant, PTL

(* A tree head is over rows of the log in its order, the last one a row of  *)
(* the line just counted, whatever other processes commit meanwhile; as     *)
(* long as processes take turns and no append fails after its commit, it is *)
(* over all of them but the one in hand.                                    *)
THEOREM HeadIsLog == Spec => []HeadsAgree
  <1>1. ASSUME IInv PROVE HeadsAgree
    <2>1. Minds /\ Files /\ Leaves /\ Alone BY <1>1, TypeParts DEF IInv
    <2> SUFFICES ASSUME NEW p \in Open
                 PROVE /\ \A k \in 1..Len(tree[p]) :
                            /\ tree[p][k] <= Len(rows)
                            /\ \A m \in 1..(k - 1) : tree[p][m] < tree[p][k]
                       /\ Writing(p) => rows[Last(tree[p])] = applied[p]
                       /\ overlaps = 0 /\ p \notin leafless =>
                            Len(rows) = Len(tree[p]) + InHand(p)
      BY DEF HeadsAgree, Writing, InHand
    <2>2. \A k \in 1..Len(tree[p]) : tree[p][k] <= Len(rows)
      <3>1. tree[p] \in Seq(1..Len(rows)) /\ Len(rows) \in Nat BY <2>1 DEF Minds, Files, Open
      <3> QED BY <3>1
    <2> QED BY <2>1, <2>2 DEF Leaves, Alone, Open
  <1>2. IInv => HeadsAgree BY <1>1
  <1> QED BY <1>2, Invariant, PTL

(* Processes that take turns and are not interrupted commit a line once, and  *)
(* once more for each failure: what a drain does again is what a cursor      *)
(* that could not be written had not counted.                               *)
THEOREM OnceOrPaid == Spec => []OnceIfAlone
  <1>1. IInv => OnceIfAlone
    <2> SUFFICES ASSUME IInv, crashes = 0, overlaps = 0
                 PROVE  Len(rows) <= Cardinality(ToSet(rows)) + fails
      BY DEF OnceIfAlone
    <2>1. /\ Minds /\ Files /\ Counts /\ Paid
          /\ Upto(cursor) /\ \A p \in Procs : Upto(applied[p])
      <3>1. Minds /\ Files /\ Counts /\ Paid BY TypeParts DEF IInv
      <3>2. ~garbled BY <3>1, LedgerAssumption DEF IInv, Garbled, Counts
      <3> QED BY <3>1, <3>2, ReachedParts DEF IInv
    <2>2. PICK n \in Nat : Upto(n) /\ Len(rows) <= n + fails
      <3>1. CASE \E p \in Open : Writing(p)
        <4>1. PICK p \in Open : Writing(p) BY <3>1
        <4>3. InHand(p) = 0 /\ pc[p] # "cursor" BY <4>1 DEF Writing, InHand
        <4>4. Len(rows) <= applied[p] + fails + 0 BY <2>1, <4>1, <4>3 DEF Paid, Owes
        <4>5. applied[p] \in Nat /\ fails \in Nat
          BY <2>1, LedgerAssumption DEF Minds, Counts, Open
        <4>2. applied[p] \in Nat /\ Len(rows) <= applied[p] + fails BY <4>4, <4>5
        <4> QED BY <2>1, <4>2 DEF Open
      <3>3. CASE \E p \in Open : pc[p] = "leaf"
        <4>1. PICK p \in Open : pc[p] = "leaf" BY <3>3
        <4>2. /\ applied[p] \in Nat /\ applied[p] + 1 \in Nat /\ p \in Procs
              /\ Len(rows) \in Nat /\ fails \in Nat
          BY <2>1, LedgerAssumption DEF Minds, Files, Counts, Open
        <4>3. Len(rows) <= (applied[p] + 1) + fails
          BY <2>1, <4>1, <4>2 DEF Paid, Owes, InHand
        <4>4. seq[p] \in 1..Len(rows) /\ rows[seq[p]] = applied[p] + 1
          BY <2>1, <4>1, <4>2 DEF IInv, Leaves, Minds
        <4>5. Applied(applied[p] + 1) BY <2>1, <4>4 DEF Applied, ToSet, Files
        <4>6. \A i \in 1..(applied[p] + 1) : i \in 1..applied[p] \/ i = applied[p] + 1
          BY <4>2
        <4>7. Upto(applied[p] + 1) BY <2>1, <4>2, <4>5, <4>6 DEF Upto
        <4> QED BY <4>2, <4>3, <4>7
      <3>2. CASE ~\E p \in Open : Busy(p)
        <4>1. Len(rows) <= cursor + fails
          BY <2>1, <3>2, LedgerAssumption DEF Paid, Owes, Counts, Files
        <4> QED BY <2>1, <4>1 DEF Files
      <3> QED BY <3>1, <3>2, <3>3 DEF Busy
    <2>3. n <= Cardinality(ToSet(rows)) BY <2>1, <2>2, ManyApplied
    <2>4. Cardinality(ToSet(rows)) \in Nat
      <3>1. ToSet(rows) \subseteq 1..Len(spool) /\ Len(spool) \in Nat
        <4>1. \A k \in DOMAIN rows : rows[k] \in 1..Len(spool) BY <2>1 DEF Files
        <4> QED BY <2>1, <4>1 DEF ToSet, Files
      <3>2. IsFiniteSet(1..Len(spool)) BY <3>1, FS_Interval
      <3>3. IsFiniteSet(ToSet(rows)) BY <3>1, <3>2, FS_Subset
      <3> QED BY <3>3, FS_CardinalityType
    <2> QED BY <2>1, <2>2, <2>3, <2>4 DEF Counts, Files
  <1> QED BY <1>1, Invariant, PTL

=============================================================================
