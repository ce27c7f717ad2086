--------------------------- MODULE AdmissionQueue ---------------------------
(***************************************************************************)
(* The admission queue of pn-llmd (engine/pnlib/admission.py).  A call that *)
(* wants one of `slots' places takes a ticket, polls it until it is granted *)
(* and releases it.  Waiting tickets are ranked by class, then by the       *)
(* finish tag of start-time weighted fair queueing, then by arrival.        *)
(*                                                                          *)
(* Every method of the class runs under one lock, so one action is one      *)
(* method.  Time counts in units of which Ttl make the time to live.        *)
(***************************************************************************)
EXTENDS Integers, FiniteSets

CONSTANTS
  Tickets,        \* the ids clients use (call ids)
  Principals,     \* who is charged
  Owner,          \* the principal of a ticket id
  Weight,         \* its weight
  Batch,          \* the ids of class "batch"; the others are interactive
  StartSlots,     \* slots of a new process
  MaxSlots,       \* bound: the largest budget set_slots is called with
  MaxExternal,    \* bound: the largest number of slots in use elsewhere
  Ttl,            \* time to live of a ticket that is not renewed
  MaxAdmissions   \* bound: tickets ever made by one process

ASSUME TicketsAssumption ==
  /\ IsFiniteSet(Tickets)
  /\ Owner \in [Tickets -> Principals]
  /\ Weight \in [Tickets -> Nat \ {0}]
  /\ Batch \subseteq Tickets

ASSUME NumbersAssumption ==
  /\ MaxSlots \in Nat /\ StartSlots \in 1..MaxSlots
  /\ MaxExternal \in Nat /\ Ttl \in Nat /\ MaxAdmissions \in Nat

VARIABLES
  slots,          \* the budget
  external,       \* _external_used: slots the LLM leases of jobs occupy
  waiting,        \* _waiting
  granted,        \* _granted
  tag,            \* seq, start_tag and finish_tag of a live ticket, and the
                  \* virtual time at which it was made
  vtime,          \* _vtime
  lastFinish,     \* _last_finish
  seq,            \* tickets made
  age             \* time since renewed_at

vars == <<slots, external, waiting, granted, tag, vtime, lastFinish, seq, age>>

Live == waiting \cup granted

NoTag == [seq |-> 0, start |-> 0, finish |-> 0, born |-> 0]

TagType == [seq : Nat, start : Nat, finish : Nat, born : Nat]

TypeOK ==
  /\ slots \in 1..MaxSlots
  /\ external \in 0..MaxExternal
  /\ waiting \subseteq Tickets
  /\ granted \subseteq Tickets
  /\ tag \in [Tickets -> TagType]
  /\ vtime \in Nat
  /\ lastFinish \in [Principals -> Nat]
  /\ seq \in Nat
  /\ age \in [Tickets -> 0..(Ttl + 1)]

Init ==
  /\ slots = StartSlots
  /\ external = 0
  /\ waiting = {}
  /\ granted = {}
  /\ tag = [t \in Tickets |-> NoTag]
  /\ vtime = 0
  /\ lastFinish = [p \in Principals |-> 0]
  /\ seq = 0
  /\ age = [t \in Tickets |-> 0]

-----------------------------------------------------------------------------
(* The order of the queue and the pump that grants.                         *)

SameClass(t, u) == (t \in Batch) = (u \in Batch)

(* Mutant: ranked by start tag. *)
BeforeByStart(tg, t, u) ==
  \/ t \notin Batch /\ u \in Batch
  \/ /\ SameClass(t, u)
     /\ \/ tg[t].start < tg[u].start
        \/ tg[t].start = tg[u].start /\ tg[t].seq < tg[u].seq

(* _ranked_waiting_locked: t is ranked before u. *)
Before(tg, t, u) ==
  \/ t \notin Batch /\ u \in Batch
  \/ /\ SameClass(t, u)
     /\ \/ tg[t].finish < tg[u].finish
        \/ tg[t].finish = tg[u].finish /\ tg[t].seq < tg[u].seq

(* Mutant: the loop runs while the free slots are not negative. *)
HeadsOneMore(H, w, n, tg) ==
  /\ \/ n < 0 /\ H = {}
     \/ 0 <= n /\ n + 1 < Cardinality(w) /\ Cardinality(H) = n + 1
     \/ 0 <= n /\ Cardinality(w) <= n + 1 /\ H = w
  /\ \A h \in H, u \in w \ H : Before(tg, h, u)

(* The tickets the loop of _pump_locked grants when n slots are free. *)
Heads(H, w, n, tg) ==
  /\ \/ n <= 0 /\ H = {}
     \/ 0 < n /\ n < Cardinality(w) /\ Cardinality(H) = n
     \/ 0 < n /\ Cardinality(w) <= n /\ H = w
  /\ \A h \in H, u \in w \ H : Before(tg, h, u)

(* _pump_locked, run on the waiting set w, the granted set g and the ages a  *)
(* the method has left, after it has set slots', external' and tag'.        *)
Pump(w, g, a) ==
  \E H \in SUBSET w :
    /\ Heads(H, w, slots' - Cardinality(g) - external', tag')
    /\ waiting' = w \ H
    /\ granted' = g \cup H
    /\ age' = [t \in Tickets |-> IF t \in H THEN 0 ELSE a[t]]
    /\ \E v \in {vtime} \cup {tag'[h].start : h \in H} :
         /\ vtime <= v
         /\ \A h \in H : tag'[h].start <= v
         /\ vtime' = v

Renewed(t) == [age EXCEPT ![t] = 0]

(* What is left of the queue's bookkeeping when the tickets T are popped. *)
Forgotten(T) == [t \in Tickets |-> IF t \in T THEN NoTag ELSE tag[t]]

AgesWithout(T) == [t \in Tickets |-> IF t \in T THEN 0 ELSE age[t]]

-----------------------------------------------------------------------------
(* The methods.                                                             *)

(* _assign_tags_locked *)
StartTag(t) ==
  IF vtime < lastFinish[Owner[t]] THEN lastFinish[Owner[t]] ELSE vtime

NewTag(t) ==
  [seq |-> seq + 1, start |-> StartTag(t), finish |-> StartTag(t) + Weight[t],
   born |-> vtime]

(* admit of an id that has no ticket *)
Admit(t) ==
  /\ t \notin Live
  /\ seq < MaxAdmissions
  /\ seq' = seq + 1
  /\ tag' = [tag EXCEPT ![t] = NewTag(t)]
  /\ lastFinish' = [lastFinish EXCEPT ![Owner[t]] = NewTag(t).finish]
  /\ UNCHANGED <<slots, external>>
  /\ Pump(waiting \cup {t}, granted, Renewed(t))

(* admit of an id that is granted: renewed, and no pump *)
AdmitAgain(t) ==
  /\ t \in granted
  /\ age' = Renewed(t)
  /\ UNCHANGED <<slots, external, waiting, granted, tag, vtime, lastFinish, seq>>

(* poll, and admit of an id that waits; the id may be unknown *)
Poll(t) ==
  /\ UNCHANGED <<slots, external, tag, lastFinish, seq>>
  /\ Pump(waiting, granted, IF t \in Live THEN Renewed(t) ELSE age)

(* release; of an unknown id it only pumps *)
Release(t) ==
  /\ tag' = Forgotten({t})
  /\ UNCHANGED <<slots, external, lastFinish, seq>>
  /\ Pump(waiting \ {t}, granted \ {t}, AgesWithout({t}))

(* Mutant: the sweep looks at the waiting tickets only. *)
ExpiredWaiting == {t \in waiting : age[t] > Ttl}

Expired == {t \in Live : age[t] > Ttl}

(* sweep, when something has expired *)
Sweep ==
  /\ Expired # {}
  /\ tag' = Forgotten(Expired)
  /\ UNCHANGED <<slots, external, lastFinish, seq>>
  /\ Pump(waiting \ Expired, granted \ Expired, AgesWithout(Expired))

(* set_slots *)
SetSlots(n) ==
  /\ slots' = n
  /\ UNCHANGED <<external, tag, lastFinish, seq>>
  /\ Pump(waiting, granted, age)

(* Mutant: the freed slots are left to the next call. *)
SetExternalUsedLazily(n) ==
  /\ external' = n
  /\ UNCHANGED <<slots, waiting, granted, tag, vtime, lastFinish, seq, age>>

(* set_external_used *)
SetExternalUsed(n) ==
  /\ external' = n
  /\ UNCHANGED <<slots, tag, lastFinish, seq>>
  /\ Pump(waiting, granted, age)

(* A unit of time passes. *)
TimePasses ==
  /\ age' = [t \in Tickets |->
               IF t \in Live /\ age[t] <= Ttl THEN age[t] + 1 ELSE age[t]]
  /\ UNCHANGED <<slots, external, waiting, granted, tag, vtime, lastFinish, seq>>

(* pn-llmd is started again: the queue was in its memory. *)
Restart ==
  /\ slots' = StartSlots
  /\ external' = 0
  /\ waiting' = {}
  /\ granted' = {}
  /\ tag' = [t \in Tickets |-> NoTag]
  /\ vtime' = 0
  /\ lastFinish' = [p \in Principals |-> 0]
  /\ seq' = 0
  /\ age' = [t \in Tickets |-> 0]

-----------------------------------------------------------------------------
Next ==
  \/ \E t \in Tickets : Admit(t) \/ AdmitAgain(t) \/ Poll(t) \/ Release(t)
  \/ Sweep
  \/ \E n \in 1..MaxSlots : SetSlots(n)
  \/ \E n \in 0..MaxExternal : SetExternalUsed(n)
  \/ TimePasses
  \/ Restart

Spec == Init /\ [][Next]_vars

-----------------------------------------------------------------------------
(* Properties.                                                              *)

(* No free slot while somebody waits: every method that can free a slot or   *)
(* lengthen the queue pumps before it lets go of the lock.                  *)
WorkConserving ==
  waiting # {} => Cardinality(granted) + external >= slots

(* A ticket is granted only within the budget.  A budget that shrinks below  *)
(* the grants takes none back, but nobody is granted before it fits again.  *)
GrantsFit ==
  [][granted' \subseteq granted \/ Cardinality(granted') + external' <= slots']_vars

(* t stays in the queue while u, which came later, is granted. *)
Overtakes(u, t) ==
  /\ u \in granted' \ granted
  /\ t \in waiting \cap waiting'
  /\ SameClass(t, u)
  /\ tag[t].seq < tag'[u].seq

(* Calls of one principal and class are served in the order they came.       *)
FifoPerPrincipal ==
  [][\A t, u \in Tickets : Overtakes(u, t) => Owner[u] # Owner[t]]_vars

(* What a later ticket u can gain on t: its finish tag lies strictly between *)
(* the virtual time at which t was made plus the weight of u and the finish  *)
(* tag of t.  So a call of weight 1 of a principal without a backlog is      *)
(* never overtaken.                                                         *)
OvertakingIsBounded ==
  [][\A t, u \in Tickets : Overtakes(u, t) =>
       /\ tag[t].born + Weight[u] <= tag'[u].finish
       /\ tag'[u].finish < tag[t].finish]_vars

(* A batch ticket is granted only when no interactive one is left waiting.   *)
InteractiveFirst ==
  [][(\E u \in Batch : u \in granted' \ granted) => waiting' \subseteq Batch]_vars
=============================================================================
