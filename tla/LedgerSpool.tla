---------------------------- MODULE LedgerSpool ----------------------------
(***************************************************************************)
(* The provenance ledger: LedgerWriter puts an event durably into a spool    *)
(* file and applies the spool to the store, a position at a time, with a    *)
(* cursor file that says how far it got (engine/pnlib/ledger/append.py);    *)
(* LedgerStore keeps the rows and, in each process, a Merkle tree over them *)
(* (store.py).  Every run of tools/pn-ledger is a process of its own, and   *)
(* nothing keeps two of them apart.                                         *)
(*                                                                          *)
(* A step is one access to a file or one commit.  A Merkle tree is the      *)
(* sequence of its leaves; a leaf stands for the row it is the hash of.  A  *)
(* cursor file is the number that its digits read as, 0 if it is empty.     *)
(***************************************************************************)
EXTENDS Integers, Sequences, FiniteSets, SequencesExt

CONSTANTS
  Procs,       \* processes that use the ledger
  Events,      \* what is recorded
  Background,  \* the processes whose writer has a thread of its own
  Base,        \* of the numbers in a cursor file (10)
  MaxLines,    \* bound: lines of the spool
  MaxFails,    \* bound: appends that the store fails in, cursors that cannot be written
  MaxCrashes,  \* bound: ends of a process or of the box in mid step
  MaxOverlaps  \* bound: processes that open a ledger that another one has open

ASSUME LedgerAssumption ==
  /\ Background \subseteq Procs
  /\ Base \in Nat /\ Base > 1
  /\ MaxLines \in Nat /\ MaxFails \in Nat /\ MaxCrashes \in Nat
  /\ MaxOverlaps \in Nat

VARIABLES
  spool, torn,    \* the spool's lines; a line was cut off and spoils the file
  cursor, tmp,    \* the cursor file, and its .tmp (NoFile if there is none)
  rows,           \* bitemporal_log: the spool line of each row
  pc, applied,    \* where a process is, and its _applied
  seen,           \* the lines it has read for this drain, 0 outside of one
  seq,            \* the row it has committed and not yet in its tree, or 0
  tree,           \* its Merkle tree
  fd,             \* which file its descriptor of .tmp has become
  started,        \* processes whose writer is made
  stuck,          \* processes whose thread has died of an exception
  closing,        \* processes in the drain that ends the writer
  leafless,       \* history: processes whose tree lacks a row they have committed
  fails, crashes,
  overlaps,       \* how often a process has opened a ledger that was open
  garbled         \* history: a cursor was written over digits of a longer one

disk == <<spool, torn, cursor, tmp, rows>>
mind == <<applied, seen, seq, tree, fd>>
life == <<started, stuck, closing, leafless>>
bounds == <<fails, crashes>>
told == <<overlaps, garbled>>
vars == <<disk, pc, mind, life, bounds, told>>

NoFile == -1
Lines == 1..Len(spool)
Open == {p \in Procs : pc[p] # "off"}

TypeOK ==
  /\ spool \in Seq(Events)
  /\ torn \in BOOLEAN
  /\ cursor \in Nat
  /\ tmp \in {NoFile} \cup Nat
  /\ rows \in Seq(Lines)
  /\ pc \in [Procs -> {"off", "cursor", "read", "apply", "leaf", "opentmp", "writetmp",
                       "replace", "up"}]
  /\ applied \in [Procs -> Nat]
  /\ seen \in [Procs -> 0..Len(spool)]
  /\ seq \in [Procs -> 0..Len(rows)]
  /\ tree \in [Procs -> Seq(1..Len(rows))]
  /\ fd \in [Procs -> {"none", "tmp", "cursor"}]
  /\ started \subseteq Procs
  /\ stuck \subseteq started \cap Background
  /\ closing \subseteq started
  /\ leafless \subseteq started
  /\ fails \in 0..MaxFails /\ crashes \in 0..MaxCrashes
  /\ overlaps \in 0..MaxOverlaps
  /\ garbled \in BOOLEAN

-----------------------------------------------------------------------------
Step(p, from, to) == pc[p] = from /\ pc' = [pc EXCEPT ![p] = to]

(* Mutant: the writer starts from the beginning of the spool. *)
ReadCursorNever(p) ==
  /\ Step(p, "cursor", "read")
  /\ UNCHANGED <<disk, mind, life, bounds, told>>

(* LedgerStore: the tree is built from the rows. *)
OpenStore(p) ==
  /\ Step(p, "off", "cursor")
  /\ tree' = [tree EXCEPT ![p] = [k \in 1..Len(rows) |-> k]]
  /\ overlaps' = IF Open = {} THEN overlaps ELSE overlaps + 1
  /\ overlaps' <= MaxOverlaps
  /\ UNCHANGED <<disk, applied, seen, seq, fd, life, bounds, garbled>>

(* An empty or missing cursor file reads as 0. *)
ReadCursor(p) ==
  /\ Step(p, "cursor", "read")
  /\ applied' = [applied EXCEPT ![p] = cursor]
  /\ UNCHANGED <<disk, seen, seq, tree, fd, life, bounds, told>>

(* A drain reads the whole spool; a line that cannot be read ends it. *)
ReadSpool(p) ==
  /\ Step(p, "read", "apply")
  /\ seen' = [seen EXCEPT ![p] = IF torn THEN 0 ELSE Len(spool)]
  /\ UNCHANGED <<disk, applied, seq, tree, fd, life, bounds, told>>

(* What a process that ends leaves behind is on the disk. *)
Ended(S) ==
  /\ pc' = [p \in Procs |-> IF p \in S THEN "off" ELSE pc[p]]
  /\ fd' = [p \in Procs |-> IF p \in S THEN "none" ELSE fd[p]]
  /\ applied' = [p \in Procs |-> IF p \in S THEN 0 ELSE applied[p]]
  /\ seen' = [p \in Procs |-> IF p \in S THEN 0 ELSE seen[p]]
  /\ seq' = [p \in Procs |-> IF p \in S THEN 0 ELSE seq[p]]
  /\ tree' = [p \in Procs |-> IF p \in S THEN <<>> ELSE tree[p]]
  /\ started' = started \ S /\ stuck' = stuck \ S /\ closing' = closing \ S
  /\ leafless' = leafless \ S

(* The drain is over.  The first one is the last step of the constructor,   *)
(* the one of close the last of the process.  With it p may lack a leaf.    *)
Return(p, lacking) ==
  IF p \in closing
  THEN Ended({p})
  ELSE /\ pc' = [pc EXCEPT ![p] = "up"] /\ started' = started \cup {p}
       /\ seen' = [seen EXCEPT ![p] = 0] /\ seq' = [seq EXCEPT ![p] = 0]
       /\ leafless' = leafless \cup lacking
       /\ UNCHANGED <<applied, tree, fd, stuck, closing>>

DrainDone(p) ==
  /\ pc[p] = "apply" /\ applied[p] >= seen[p]
  /\ Return(p, {})
  /\ UNCHANGED <<disk, bounds, told>>

Failing == fails < MaxFails /\ fails' = fails + 1 /\ UNCHANGED crashes

(* Mutant: a line that the store does not take is passed over. *)
StoreRefusesSkips(p) ==
  /\ Step(p, "apply", "apply") /\ applied[p] < seen[p] /\ Failing
  /\ applied' = [applied EXCEPT ![p] = @ + 1]
  /\ UNCHANGED <<disk, seen, seq, tree, fd, life, told>>

(* store.append raises before the row is committed: the drain stops, for    *)
(* now.                                                                     *)
StoreRefuses(p) ==
  /\ pc[p] = "apply" /\ applied[p] < seen[p] /\ Failing
  /\ Return(p, {})
  /\ UNCHANGED <<disk, told>>

(* The row is committed, and read again by its seq for the leaf. *)
StoreAppend(p) ==
  /\ applied[p] < seen[p]
  /\ Step(p, "apply", "leaf")
  /\ rows' = Append(rows, applied[p] + 1)
  /\ seq' = [seq EXCEPT ![p] = Len(rows) + 1]
  /\ UNCHANGED <<spool, torn, cursor, tmp, applied, seen, tree, fd, life, bounds, told>>

(* Mutant: the leaf is that of the last row of the log. *)
LeafAppendTop(p) ==
  /\ Step(p, "leaf", "opentmp")
  /\ tree' = [tree EXCEPT ![p] = Append(@, Len(rows))]
  /\ seq' = [seq EXCEPT ![p] = 0]
  /\ applied' = [applied EXCEPT ![p] = @ + 1]
  /\ UNCHANGED <<disk, seen, fd, life, bounds, told>>

(* The leaf is appended, store.append returns, and _applied counts on. *)
LeafAppend(p) ==
  /\ Step(p, "leaf", "opentmp")
  /\ tree' = [tree EXCEPT ![p] = Append(@, seq[p])]
  /\ seq' = [seq EXCEPT ![p] = 0]
  /\ applied' = [applied EXCEPT ![p] = @ + 1]
  /\ UNCHANGED <<disk, seen, fd, life, bounds, told>>

(* store.append raises after the commit: a row without a leaf, and its line *)
(* is to be applied again.                                                  *)
LeafFails(p) ==
  /\ pc[p] = "leaf" /\ Failing
  /\ Return(p, {p})
  /\ UNCHANGED <<disk, told>>

-----------------------------------------------------------------------------
(* _write_cursor: O_TRUNC, write, replace.  The name of .tmp is the same    *)
(* for all processes.                                                       *)
OpenTmp(p) ==
  /\ Step(p, "opentmp", "writetmp")
  /\ tmp' = 0
  /\ fd' = [fd EXCEPT ![p] = "tmp"]
  /\ UNCHANGED <<spool, torn, cursor, rows, applied, seen, seq, tree, life, bounds, told>>

(* The powers of Base up to n, one for each digit of n. *)
Powers(n) == {t \in 1..n : \E k \in 0..n : t = Base^k}
Width(n) == Cardinality(Powers(n))

(* n is written at the start of a file that holds m: the digits that m has  *)
(* beyond those of n stay, below n times a power of Base.                   *)
Overlay(n, m) ==
  LET shifts == {t \in Base..m : t \in Powers(m) /\ Width(n) + Width(t) = Width(m) + 1}
      t == CHOOSE t \in shifts : TRUE
  IN  IF shifts = {} THEN n ELSE n * t + (m % t)

(* n is written into the file that the descriptor of p has become. *)
Write(p, n) ==
  /\ tmp' = IF fd[p] = "tmp" THEN Overlay(n, tmp) ELSE tmp
  /\ cursor' = IF fd[p] = "cursor" THEN Overlay(n, cursor) ELSE cursor
  /\ garbled' = \/ garbled
                \/ fd[p] = "tmp" /\ tmp' # n
                \/ fd[p] = "cursor" /\ cursor' # n
  /\ fd' = [fd EXCEPT ![p] = "none"]

(* Mutant: the file gets the number of lines that were read. *)
WriteTmpAhead(p) ==
  /\ Step(p, "writetmp", "replace")
  /\ Write(p, seen[p])
  /\ UNCHANGED <<spool, torn, rows, applied, seen, seq, tree, life, bounds, overlaps>>

WriteTmp(p) ==
  /\ Step(p, "writetmp", "replace")
  /\ Write(p, applied[p])
  /\ UNCHANGED <<spool, torn, rows, applied, seen, seq, tree, life, bounds, overlaps>>

(* Another descriptor of .tmp is one of the cursor file from now on. *)
Replace(p) ==
  /\ tmp # NoFile
  /\ Step(p, "replace", "apply")
  /\ cursor' = tmp /\ tmp' = NoFile
  /\ fd' = [q \in Procs |-> IF fd[q] = "tmp" THEN "cursor" ELSE "none"]
  /\ UNCHANGED <<spool, torn, rows, applied, seen, seq, tree, life, bounds, told>>

(* Nobody catches it: the constructor or close fails and the process ends,  *)
(* the thread dies, or the caller of record gets it.                        *)
Raise(p) ==
  /\ IF p \in started \ closing
     THEN /\ pc' = [pc EXCEPT ![p] = "up"]
          /\ fd' = [fd EXCEPT ![p] = "none"]
          /\ stuck' = stuck \cup ({p} \cap Background)
          /\ seen' = [seen EXCEPT ![p] = 0]
          /\ UNCHANGED <<applied, seq, tree, started, closing, leafless>>
     ELSE Ended({p})
  /\ UNCHANGED <<disk, told>>

(* .tmp cannot be opened or written, or another process has moved it away. *)
CursorFails(p) == pc[p] \in {"opentmp", "writetmp"} /\ Failing /\ Raise(p)
ReplaceFails(p) == pc[p] = "replace" /\ tmp = NoFile /\ Raise(p) /\ UNCHANGED bounds

-----------------------------------------------------------------------------
(* record: one line at the end of the spool, with fsync.  The receipt says  *)
(* that the event is durable; the thread, or else the caller, drains.       *)
Record(p, e) ==
  /\ Len(spool) < MaxLines
  /\ Step(p, "up", IF p \in Background THEN "up" ELSE "read")
  /\ spool' = Append(spool, e)
  /\ UNCHANGED <<torn, cursor, tmp, rows, mind, life, bounds, told>>

(* Mutant: the thread looks only until it has applied a line. *)
WakeStale(p) ==
  /\ p \in Background \ stuck /\ applied[p] = 0 /\ applied[p] < Len(spool)
  /\ Step(p, "up", "read")
  /\ UNCHANGED <<disk, mind, life, bounds, told>>

(* The thread looks for lines every flush_interval. *)
Wake(p) ==
  /\ p \in Background \ stuck /\ applied[p] < Len(spool)
  /\ Step(p, "up", "read")
  /\ UNCHANGED <<disk, mind, life, bounds, told>>

Flush(p) ==
  /\ applied[p] < Len(spool)
  /\ Step(p, "up", "read")
  /\ UNCHANGED <<disk, mind, life, bounds, told>>

(* close stops the thread and drains once more. *)
Close(p) ==
  /\ Step(p, "up", "read")
  /\ closing' = closing \cup {p}
  /\ UNCHANGED <<disk, mind, started, stuck, leafless, bounds, told>>

-----------------------------------------------------------------------------
Crashing == crashes < MaxCrashes /\ crashes' = crashes + 1 /\ UNCHANGED fails

Kill(p) ==
  /\ pc[p] # "off" /\ Crashing
  /\ Ended({p})
  /\ UNCHANGED <<disk, told>>

(* The box goes down.  The spool and the rows are synced, the rename of the *)
(* cursor file is not; a line that was being written may be cut off.        *)
BoxCrash(cut) ==
  /\ Crashing
  /\ cut => \E p \in Procs : pc[p] = "up"
  /\ Ended(Procs)
  /\ cursor' \in 0..cursor
  /\ tmp' = NoFile
  /\ torn' = (torn \/ cut)
  /\ UNCHANGED <<spool, rows, told>>

-----------------------------------------------------------------------------
Init ==
  /\ spool = <<>> /\ torn = FALSE /\ cursor = 0 /\ tmp = NoFile /\ rows = <<>>
  /\ pc = [p \in Procs |-> "off"] /\ fd = [p \in Procs |-> "none"]
  /\ applied = [p \in Procs |-> 0] /\ seen = [p \in Procs |-> 0]
  /\ seq = [p \in Procs |-> 0] /\ tree = [p \in Procs |-> <<>>]
  /\ started = {} /\ stuck = {} /\ closing = {} /\ leafless = {}
  /\ fails = 0 /\ crashes = 0 /\ overlaps = 0 /\ garbled = FALSE

Drain(p) ==
  \/ ReadCursor(p) \/ ReadSpool(p) \/ DrainDone(p)
  \/ StoreAppend(p) \/ StoreRefuses(p) \/ LeafAppend(p) \/ LeafFails(p)
  \/ OpenTmp(p) \/ WriteTmp(p) \/ Replace(p) \/ CursorFails(p) \/ ReplaceFails(p)
  \/ Wake(p)

Next ==
  \/ \E p \in Procs : Drain(p) \/ OpenStore(p) \/ Flush(p) \/ Close(p) \/ Kill(p)
  \/ \E p \in Procs, e \in Events : Record(p, e)
  \/ \E cut \in BOOLEAN : BoxCrash(cut)

Spec == Init /\ [][Next]_vars

(* A drain that has begun goes on, the background thread starts another     *)
(* while lines are left, a run of pn-ledger ends, and others follow.        *)
Fairness ==
  /\ \A p \in Procs : WF_vars(Drain(p)) /\ WF_vars(OpenStore(p))
  /\ \A p \in Procs \ Background : WF_vars(Close(p))

FairSpec == Spec /\ Fairness

-----------------------------------------------------------------------------
(* Properties.                                                              *)

Applied(i) == i \in ToSet(rows)

(* No position that a cursor file, a process or a file that may become the  *)
(* cursor file holds is ahead of the store: a drain that starts there skips *)
(* no line, whatever processes, crashes and half-written cursor files did.  *)
(* It takes a shorter number over a longer one to get ahead, so a second    *)
(* process and more lines than one digit counts.                            *)
NothingSkipped ==
  /\ garbled => overlaps > 0 /\ Len(spool) >= Base
  /\ ~garbled =>
       \A n \in {cursor, tmp} \cup {applied[p] : p \in Open} : \A i \in 1..n : Applied(i)

(* The rows have every line first in the order of the spool: what is        *)
(* applied again comes after everything before it, unless a garbled cursor  *)
(* has passed over lines.                                                   *)
InOrder ==
  ~garbled =>
    \A k \in 1..Len(rows) : \A i \in 1..(rows[k] - 1) : \E m \in 1..(k - 1) : rows[m] = i

(* Processes that take turns and are not interrupted apply a line once;     *)
(* only a cursor that could not be written, or an append that failed after  *)
(* its commit, costs a second row, one each.                                *)
OnceIfAlone == crashes = 0 /\ overlaps = 0 => Len(rows) <= Cardinality(ToSet(rows)) + fails

(* Every head that append prints or that is signed is over rows of the log, *)
(* each once and in its order, however processes overlap: a leaf is a row   *)
(* of the line that is counted with it, although others commit between the  *)
(* commit and the leaf.  As long as processes take turns and no append has  *)
(* failed after its commit, nothing but that row is missing, across refused *)
(* commits and crashes.                                                     *)
HeadsAgree ==
  \A p \in Open :
    /\ \A k \in 1..Len(tree[p]) : /\ tree[p][k] <= Len(rows)
                                  /\ \A m \in 1..(k - 1) : tree[p][m] < tree[p][k]
    /\ pc[p] \in {"opentmp", "writetmp", "replace"} => rows[Last(tree[p])] = applied[p]
    /\ overlaps = 0 /\ p \notin leafless =>
         Len(rows) = Len(tree[p]) + (IF pc[p] = "leaf" THEN 1 ELSE 0)

(* What was recorded reaches the store, unless a line was cut off, an       *)
(* exception has ended a thread, or the cursor was garbled.                 *)
RecordedIsApplied ==
  \A i \in 1..MaxLines :
    (i \in Lines) ~> (Applied(i) \/ torn \/ stuck # {} \/ garbled)

=============================================================================
