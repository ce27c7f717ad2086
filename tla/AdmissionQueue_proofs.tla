----------------------- MODULE AdmissionQueue_proofs -----------------------
(***************************************************************************)
(* Proofs about AdmissionQueue for any set of tickets, weights and classes  *)
(* and any bounds: no idle slot while somebody waits, no grant beyond the   *)
(* budget, the fairness of the order, and the fair share.                   *)
(***************************************************************************)
EXTENDS AdmissionShare, FiniteSetTheorems, TLAPS

(* A ticket is in one of the two pools. *)
Disjoint == waiting \cap granted = {}

(* The tags of the live tickets: numbered by arrival, the finish tag is the   *)
(* start tag and the weight, and no tag is ahead of its principal's last.    *)
TagsFit ==
  \A t \in Live :
    /\ tag[t].seq \in 1..seq
    /\ tag[t].finish = tag[t].start + Weight[t]
    /\ tag[t].finish <= lastFinish[Owner[t]]
    /\ tag[t].born <= tag[t].start
    /\ tag[t].born <= vtime

(* What arrival says of two tickets: the later one was made at no earlier      *)
(* virtual time and, with the same principal, starts where the other ends.    *)
Chained ==
  \A t, u \in Live : tag[t].seq < tag[u].seq =>
    /\ tag[t].born <= tag[u].born
    /\ Owner[t] = Owner[u] => tag[t].finish <= tag[u].start

Fair == TagsFit /\ Chained

IInv == TypeOK /\ Disjoint /\ WorkConserving /\ Fair

-----------------------------------------------------------------------------
(* What the pump leaves behind, over what it found granted. *)
Granting(g) ==
  /\ granted' = g \/ Cardinality(granted') + external' <= slots'
  /\ \A u \in granted' \ g, t \in waiting' : Before(tag', u, t)

(* The pump moves tickets from one pool to the other and nothing else, leaves *)
(* no slot idle, and grants the first of the queue within the budget.         *)
LEMMA PumpFacts ==
  ASSUME NEW w \in SUBSET Tickets, NEW g \in SUBSET Tickets, w \cap g = {},
         NEW a \in [Tickets -> 0..(Ttl + 1)],
         slots' \in 1..MaxSlots, external' \in 0..MaxExternal, vtime \in Nat,
         tag' \in [Tickets -> TagType], Pump(w, g, a)
  PROVE  /\ waiting' \subseteq Tickets /\ granted' \subseteq Tickets
         /\ waiting' \subseteq w
         /\ waiting' \cup granted' = w \cup g
         /\ Disjoint'
         /\ age' \in [Tickets -> 0..(Ttl + 1)]
         /\ vtime' \in Nat /\ vtime <= vtime'
         /\ WorkConserving'
         /\ Granting(g)
  <1> DEFINE n == slots' - Cardinality(g) - external'
  <1>1. PICK H \in SUBSET w :
          /\ Heads(H, w, n, tag')
          /\ waiting' = w \ H /\ granted' = g \cup H
          /\ age' = [t \in Tickets |-> IF t \in H THEN 0 ELSE a[t]]
          /\ \E v \in {vtime} \cup {tag'[h].start : h \in H} :
               vtime <= v /\ (\A h \in H : tag'[h].start <= v) /\ vtime' = v
    BY Zenon DEF Pump
  <1>2. age' \in [Tickets -> 0..(Ttl + 1)]
    <2>1. 0 \in 0..(Ttl + 1) BY NumbersAssumption
    <2> QED BY <1>1, <2>1
  <1>3. vtime' \in Nat /\ vtime <= vtime'
    <2>1. \A h \in H : tag'[h].start \in Nat BY DEF TagType
    <2> QED BY <1>1, <2>1
  <1>4. /\ IsFiniteSet(w) /\ IsFiniteSet(g) /\ IsFiniteSet(H)
        /\ Cardinality(w) \in Nat /\ Cardinality(g) \in Nat /\ Cardinality(H) \in Nat
    BY FS_Subset, FS_CardinalityType, TicketsAssumption
  <1>5. Cardinality(granted') = Cardinality(g) + Cardinality(H)
    <2>1. g \cap H = {} OBVIOUS
    <2>2. Cardinality(g \cap H) = 0 BY <2>1, FS_EmptySet
    <2>3. Cardinality(g \cup H) = Cardinality(g) + Cardinality(H) - Cardinality(g \cap H)
      BY <1>4, FS_Union, Zenon
    <2> QED BY <1>1, <1>4, <2>2, <2>3
  <1>6. slots' \in Int /\ external' \in Int
    BY NumbersAssumption
  <1>7. \/ n <= 0 /\ H = {}
        \/ 0 < n /\ Cardinality(H) = n
        \/ 0 < n /\ Cardinality(w) <= n /\ H = w
    BY <1>1 DEF Heads
  <1>8. WorkConserving'
    <2> SUFFICES ASSUME waiting' # {} PROVE Cardinality(granted') + external' >= slots'
      BY DEF WorkConserving
    <2>1. H # w BY <1>1
    <2>2. H = {} => Cardinality(H) = 0 BY FS_EmptySet
    <2> QED BY <1>4, <1>5, <1>6, <1>7, <2>1, <2>2
  <1>9. granted' = g \/ Cardinality(granted') + external' <= slots'
    <2>1. CASE H = {} BY <1>1, <2>1
    <2>2. CASE H # {}
      <3>1. Cardinality(H) <= n BY <1>4, <1>6, <1>7, <2>2
      <3> QED BY <1>4, <1>5, <1>6, <3>1
    <2> QED BY <2>1, <2>2
  <1>10. \A u \in granted' \ g, t \in waiting' : Before(tag', u, t)
    BY <1>1 DEF Heads
  <1>11. Disjoint' BY <1>1 DEF Disjoint
  <1>12. /\ waiting' \subseteq Tickets /\ granted' \subseteq Tickets
         /\ waiting' \subseteq w
         /\ waiting' \cup granted' = w \cup g
    BY <1>1
  <1> QED BY <1>2, <1>3, <1>8, <1>9, <1>10, <1>11, <1>12 DEF Granting

(* When no ticket is made, the tags of those that stay stay in order. *)
LEMMA FairStays ==
  ASSUME TypeOK, Fair, Live' \subseteq Live,
         \A t \in Live' : tag'[t] = tag[t],
         UNCHANGED <<lastFinish, seq>>, vtime' \in Nat, vtime <= vtime'
  PROVE  Fair'
  <1> USE DEF Fair
  <1>1. TagsFit'
    <2> SUFFICES ASSUME NEW t \in Live'
                 PROVE /\ tag'[t].seq \in 1..seq'
                       /\ tag'[t].finish = tag'[t].start + Weight[t]
                       /\ tag'[t].finish <= lastFinish'[Owner[t]]
                       /\ tag'[t].born <= tag'[t].start
                       /\ tag'[t].born <= vtime'
      BY DEF TagsFit
    <2>1. t \in Live /\ tag'[t] = tag[t] OBVIOUS
    <2>2. t \in Tickets BY <2>1 DEF Live, TypeOK
    <2>3. tag[t].born \in Nat /\ vtime \in Nat BY <2>2 DEF TypeOK, TagType
    <2> QED BY <2>1, <2>3 DEF TagsFit
  <1>2. Chained'
    <2> SUFFICES ASSUME NEW t \in Live', NEW u \in Live', tag'[t].seq < tag'[u].seq
                 PROVE /\ tag'[t].born <= tag'[u].born
                       /\ Owner[t] = Owner[u] => tag'[t].finish <= tag'[u].start
      BY Zenon DEF Chained
    <2>1. t \in Live /\ u \in Live /\ tag'[t] = tag[t] /\ tag'[u] = tag[u]
      OBVIOUS
    <2> QED BY <2>1 DEF Chained
  <1> QED BY <1>1, <1>2

-----------------------------------------------------------------------------
(* A new ticket comes last and starts where its principal's last one ends. *)
LEMMA FairAdmit ==
  ASSUME TypeOK, Fair, NEW t \in Tickets, t \notin Live, Live' = Live \cup {t},
         seq' = seq + 1, tag' = [tag EXCEPT ![t] = NewTag(t)],
         lastFinish' = [lastFinish EXCEPT ![Owner[t]] = NewTag(t).finish],
         vtime' \in Nat, vtime <= vtime'
  PROVE  Fair'
  <1> DEFINE new == NewTag(t)
  <1>1. /\ Owner[t] \in Principals /\ Weight[t] \in Nat
        /\ lastFinish \in [Principals -> Nat] /\ vtime \in Nat /\ seq \in Nat
        /\ tag \in [Tickets -> TagType]
        /\ \A u \in Tickets : Owner[u] \in Principals /\ Weight[u] \in Nat
    BY TicketsAssumption DEF TypeOK
  <1>2. /\ new.seq = seq + 1 /\ new.born = vtime
        /\ new.start \in Nat /\ vtime <= new.start
        /\ lastFinish[Owner[t]] <= new.start
        /\ new.finish = new.start + Weight[t]
    BY <1>1 DEF NewTag, StartTag
  <1>3. tag'[t] = new /\ \A u \in Live : tag'[u] = tag[u] /\ u # t /\ u \in Tickets
    BY <1>1 DEF Live, TypeOK
  <1>4. /\ lastFinish'[Owner[t]] = new.finish
        /\ \A u \in Tickets : lastFinish[Owner[u]] <= lastFinish'[Owner[u]]
    <2>1. lastFinish'[Owner[t]] = new.finish BY <1>1
    <2>2. ASSUME NEW u \in Tickets PROVE lastFinish[Owner[u]] <= lastFinish'[Owner[u]]
      <3>1. CASE Owner[u] = Owner[t] BY <1>1, <1>2, <2>1, <3>1
      <3>2. CASE Owner[u] # Owner[t]
        <4>1. lastFinish'[Owner[u]] = lastFinish[Owner[u]] BY <1>1, <3>2
        <4> QED BY <1>1, <4>1
      <3> QED BY <3>1, <3>2
    <2> QED BY <2>1, <2>2
  <1>5. \A u \in Live : /\ tag[u].seq \in Nat /\ tag[u].start \in Nat
                        /\ tag[u].finish \in Nat /\ tag[u].born \in Nat
                        /\ lastFinish[Owner[u]] \in Nat /\ lastFinish'[Owner[u]] \in Nat
    BY <1>1, <1>2, <1>3 DEF TagType
  <1>6. TagsFit'
    <2> SUFFICES ASSUME NEW u \in Live'
                 PROVE /\ tag'[u].seq \in 1..seq'
                       /\ tag'[u].finish = tag'[u].start + Weight[u]
                       /\ tag'[u].finish <= lastFinish'[Owner[u]]
                       /\ tag'[u].born <= tag'[u].start
                       /\ tag'[u].born <= vtime'
      BY DEF TagsFit
    <2>1. CASE u = t BY <1>1, <1>2, <1>3, <1>4, <2>1
    <2>2. CASE u \in Live
      <3>1. /\ tag[u].seq \in 1..seq
            /\ tag[u].finish = tag[u].start + Weight[u]
            /\ tag[u].finish <= lastFinish[Owner[u]]
            /\ tag[u].born <= tag[u].start
            /\ tag[u].born <= vtime
        BY <2>2 DEF Fair, TagsFit
      <3> QED BY <1>1, <1>3, <1>4, <1>5, <2>2, <3>1
    <2> QED BY <2>1, <2>2
  <1>7. Chained'
    <2> SUFFICES ASSUME NEW u \in Live', NEW v \in Live', tag'[u].seq < tag'[v].seq
                 PROVE /\ tag'[u].born <= tag'[v].born
                       /\ Owner[u] = Owner[v] => tag'[u].finish <= tag'[v].start
      BY DEF Chained
    <2>1. \A x \in Live : tag[x].seq < seq + 1 /\ tag[x].born <= vtime
                          /\ tag[x].finish <= lastFinish[Owner[x]]
      BY <1>1, <1>5 DEF Fair, TagsFit
    <2>2. CASE u = t
      <3>1. v = t \/ tag'[v].seq < seq + 1 BY <1>3, <2>1
      <3>2. tag'[u].seq = seq + 1 BY <1>2, <1>3, <2>2
      <3>3. v # t BY <1>1, <2>2, <3>2
      <3>4. v \in Live BY <3>3
      <3> QED BY <1>1, <1>3, <1>5, <3>1, <3>2, <3>3, <3>4
    <2>3. CASE u \in Live /\ v = t
      BY <1>1, <1>2, <1>3, <1>5, <2>1, <2>3
    <2>4. CASE u \in Live /\ v \in Live
      BY <1>3, <2>4 DEF Fair, Chained
    <2> QED BY <2>2, <2>3, <2>4
  <1> QED BY <1>6, <1>7 DEF Fair

-----------------------------------------------------------------------------
(* What every step does to the grants and to the tickets that go on waiting. *)
Orderly ==
  /\ granted' \subseteq granted \/ Cardinality(granted') + external' <= slots'
  /\ \A u \in granted' \ granted, t \in waiting' : Before(tag', u, t)
  /\ \A t \in waiting \cap waiting' : tag'[t] = tag[t]

(* The methods that make no ticket: they pop the tickets T and pump. *)
LEMMA PopAndPump ==
  ASSUME IInv, NEW T \in SUBSET Tickets, NEW a \in [Tickets -> 0..(Ttl + 1)],
         slots' \in 1..MaxSlots, external' \in 0..MaxExternal,
         tag' = Forgotten(T), UNCHANGED <<lastFinish, seq>>,
         Pump(waiting \ T, granted \ T, a)
  PROVE  IInv' /\ Orderly
  <1>1. TypeOK /\ Disjoint /\ Fair BY DEF IInv
  <1>2. /\ waiting \ T \in SUBSET Tickets /\ granted \ T \in SUBSET Tickets
        /\ (waiting \ T) \cap (granted \ T) = {}
        /\ vtime \in Nat /\ tag \in [Tickets -> TagType]
    BY <1>1 DEF TypeOK, Disjoint
  <1>3. tag' \in [Tickets -> TagType] BY <1>2 DEF Forgotten, NoTag, TagType
  <1>4. /\ waiting' \subseteq Tickets /\ granted' \subseteq Tickets
        /\ waiting' \subseteq waiting \ T
        /\ waiting' \cup granted' = (waiting \ T) \cup (granted \ T)
        /\ Disjoint'
        /\ age' \in [Tickets -> 0..(Ttl + 1)]
        /\ vtime' \in Nat /\ vtime <= vtime'
        /\ WorkConserving'
        /\ Granting(granted \ T)
    BY <1>2, <1>3, PumpFacts
  <1>5. TypeOK' BY <1>1, <1>3, <1>4 DEF TypeOK
  <1>6. Live' \subseteq Live /\ \A t \in Live' : t \in Tickets /\ t \notin T
    BY <1>4 DEF Live
  <1>7. \A t \in Live' : tag'[t] = tag[t] BY <1>6 DEF Forgotten
  <1>8. Fair' BY <1>1, <1>4, <1>6, <1>7, FairStays
  <1>9. Orderly
    <2>1. granted' \subseteq granted \/ Cardinality(granted') + external' <= slots'
      BY <1>4 DEF Granting
    <2>2. \A u \in granted' \ granted, t \in waiting' : Before(tag', u, t)
      BY <1>4 DEF Granting
    <2>3. \A t \in waiting \cap waiting' : tag'[t] = tag[t] BY <1>7 DEF Live
    <2> QED BY <2>1, <2>2, <2>3 DEF Orderly
  <1> QED BY <1>4, <1>5, <1>8, <1>9 DEF IInv

(* The methods that pump only. *)
LEMMA JustPump ==
  ASSUME IInv, NEW a \in [Tickets -> 0..(Ttl + 1)],
         slots' \in 1..MaxSlots, external' \in 0..MaxExternal,
         UNCHANGED <<tag, lastFinish, seq>>, Pump(waiting, granted, a)
  PROVE  IInv' /\ Orderly
  <1>1. tag' = Forgotten({}) BY DEF IInv, TypeOK, Forgotten
  <1>2. waiting \ {} = waiting /\ granted \ {} = granted /\ {} \in SUBSET Tickets
    OBVIOUS
  <1>3. Pump(waiting \ {}, granted \ {}, a) BY <1>2
  <1> QED BY <1>1, <1>2, <1>3, PopAndPump

LEMMA AdmitKeeps == ASSUME IInv, NEW t \in Tickets, Admit(t) PROVE IInv' /\ Orderly
  <1> USE DEF Admit
  <1>1. TypeOK /\ Disjoint /\ Fair BY DEF IInv
  <1>2. /\ waiting \cup {t} \in SUBSET Tickets /\ granted \in SUBSET Tickets
        /\ (waiting \cup {t}) \cap granted = {}
        /\ vtime \in Nat /\ tag \in [Tickets -> TagType]
        /\ slots' \in 1..MaxSlots /\ external' \in 0..MaxExternal
        /\ seq \in Nat /\ lastFinish \in [Principals -> Nat]
    BY <1>1 DEF TypeOK, Disjoint, Live
  <1>3. NewTag(t) \in TagType /\ NewTag(t).finish \in Nat
    <2>1. Owner[t] \in Principals /\ Weight[t] \in Nat BY TicketsAssumption
    <2>2. StartTag(t) \in Nat BY <1>2, <2>1 DEF StartTag
    <2> QED BY <1>2, <2>1, <2>2 DEF NewTag, TagType
  <1>4. /\ tag' \in [Tickets -> TagType] /\ lastFinish' \in [Principals -> Nat]
        /\ seq' \in Nat
    <2>1. tag' \in [Tickets -> TagType] BY <1>2, <1>3
    <2>2. lastFinish' \in [Principals -> Nat]
      <3>1. lastFinish' = [lastFinish EXCEPT ![Owner[t]] = NewTag(t).finish]
        OBVIOUS
      <3> QED BY ONLY <1>2, <1>3, <3>1
    <2>3. seq' \in Nat
      <3>1. seq' = seq + 1 OBVIOUS
      <3> QED BY ONLY <1>2, <3>1
    <2> QED BY <2>1, <2>2, <2>3
  <1>5. Renewed(t) \in [Tickets -> 0..(Ttl + 1)]
    BY <1>1, NumbersAssumption DEF TypeOK, Renewed
  <1>6. /\ waiting' \subseteq Tickets /\ granted' \subseteq Tickets
        /\ waiting' \cup granted' = (waiting \cup {t}) \cup granted
        /\ Disjoint'
        /\ age' \in [Tickets -> 0..(Ttl + 1)]
        /\ vtime' \in Nat /\ vtime <= vtime'
        /\ WorkConserving'
        /\ Granting(granted)
    BY <1>2, <1>4, <1>5, PumpFacts
  <1>7. TypeOK' BY <1>2, <1>4, <1>6 DEF TypeOK
  <1>8. Live' = Live \cup {t} BY <1>6 DEF Live
  <1>9. Fair' BY <1>1, <1>6, <1>8, FairAdmit
  <1>10. Orderly
    <2>1. \A u \in waiting : u # t /\ u \in Tickets BY <1>2 DEF Live
    <2>2. \A u \in waiting \cap waiting' : tag'[u] = tag[u] BY <1>2, <2>1
    <2> QED BY <1>6, <2>2 DEF Granting, Orderly
  <1> QED BY <1>6, <1>7, <1>9, <1>10 DEF IInv

(* The steps that leave both pools alone. *)
LEMMA AgeKeeps ==
  ASSUME IInv, age' \in [Tickets -> 0..(Ttl + 1)],
         UNCHANGED <<slots, external, waiting, granted, tag, vtime, lastFinish, seq>>
  PROVE  IInv' /\ Orderly
  <1>1. TypeOK' BY DEF IInv, TypeOK
  <1>2. Disjoint' /\ WorkConserving' /\ TagsFit' /\ Chained'
    BY DEF IInv, Disjoint, WorkConserving, Fair, TagsFit, Chained, Live
  <1> QED BY <1>1, <1>2 DEF IInv, Fair, Orderly

(* Every step keeps the invariant and is orderly. *)
LEMMA NextKeeps == ASSUME IInv, [Next]_vars PROVE IInv' /\ Orderly
  <1>1. /\ age \in [Tickets -> 0..(Ttl + 1)] /\ 0 \in 0..(Ttl + 1)
        /\ slots \in 1..MaxSlots /\ external \in 0..MaxExternal
        /\ waiting \subseteq Tickets /\ granted \subseteq Tickets
    BY NumbersAssumption DEF IInv, TypeOK
  <1>2. \A T \in SUBSET Tickets : AgesWithout(T) \in [Tickets -> 0..(Ttl + 1)]
    BY <1>1 DEF AgesWithout
  <1>3. \A t \in Tickets : Renewed(t) \in [Tickets -> 0..(Ttl + 1)]
    BY <1>1 DEF Renewed
  <1>4. ASSUME NEW t \in Tickets, Admit(t) PROVE IInv' /\ Orderly
    BY <1>4, AdmitKeeps
  <1>5. ASSUME NEW t \in Tickets, AdmitAgain(t) PROVE IInv' /\ Orderly
    BY <1>3, <1>5, AgeKeeps DEF AdmitAgain
  <1>6. ASSUME NEW t \in Tickets, Poll(t) PROVE IInv' /\ Orderly
    <2>1. (IF t \in Live THEN Renewed(t) ELSE age) \in [Tickets -> 0..(Ttl + 1)]
      BY <1>1, <1>3
    <2> QED BY <1>1, <1>6, <2>1, JustPump DEF Poll
  <1>7. ASSUME NEW t \in Tickets, Release(t) PROVE IInv' /\ Orderly
    BY <1>1, <1>2, <1>7, PopAndPump DEF Release
  <1>8. CASE Sweep
    <2>1. Expired \in SUBSET Tickets BY <1>1 DEF Expired, Live
    <2> QED BY <1>1, <1>2, <1>8, <2>1, PopAndPump DEF Sweep
  <1>9. ASSUME NEW n \in 1..MaxSlots, SetSlots(n) PROVE IInv' /\ Orderly
    BY <1>1, <1>9, JustPump DEF SetSlots
  <1>10. ASSUME NEW n \in 0..MaxExternal, SetExternalUsed(n) PROVE IInv' /\ Orderly
    BY <1>1, <1>10, JustPump DEF SetExternalUsed
  <1>11. CASE TimePasses
    <2>1. age' \in [Tickets -> 0..(Ttl + 1)]
      BY <1>1, <1>11, NumbersAssumption DEF TimePasses
    <2> QED BY <1>11, <2>1, AgeKeeps DEF TimePasses
  <1>12. CASE Restart
    <2>1. TypeOK' BY <1>1, <1>12, NumbersAssumption DEF Restart, TypeOK, NoTag, TagType
    <2>2. Disjoint' /\ WorkConserving' /\ Live' = {} BY <1>12 DEF Restart, Disjoint, WorkConserving, Live
    <2>3. TagsFit' /\ Chained' BY <2>2 DEF TagsFit, Chained
    <2>4. Orderly BY <1>12 DEF Restart, Orderly
    <2> QED BY <2>1, <2>2, <2>3, <2>4 DEF IInv, Fair
  <1>13. CASE UNCHANGED vars
    BY <1>1, <1>13, AgeKeeps DEF vars
  <1> QED BY <1>4, <1>5, <1>6, <1>7, <1>8, <1>9, <1>10, <1>11, <1>12, <1>13 DEF Next

LEMMA InitKeeps == ASSUME Init PROVE IInv
  <1>1. TypeOK BY NumbersAssumption DEF Init, TypeOK, NoTag, TagType
  <1>2. Disjoint /\ WorkConserving /\ Live = {} BY DEF Init, Disjoint, WorkConserving, Live
  <1>3. TagsFit /\ Chained BY <1>2 DEF TagsFit, Chained
  <1> QED BY <1>1, <1>2, <1>3 DEF IInv, Fair

(* The invariant holds of every behaviour of the queue. *)
THEOREM Invariant == Spec => []IInv
  BY InitKeeps, NextKeeps, PTL DEF Spec

(* The queue is well typed for any tickets and any bounds. *)
THEOREM TypeCorrect == Spec => []TypeOK
  <1>1. IInv => TypeOK BY DEF IInv
  <1> QED BY <1>1, Invariant, PTL

(* _pump_locked, run at the end of every method, never leaves a slot idle     *)
(* while a ticket waits.                                                     *)
THEOREM NoIdleSlot == Spec => []WorkConserving
  <1>1. IInv => WorkConserving BY DEF IInv
  <1> QED BY <1>1, Invariant, PTL

(* No method grants beyond the budget, whatever set_slots has done to it. *)
THEOREM BudgetKept == Spec => GrantsFit
  <1>1. IInv /\ [Next]_vars =>
          [granted' \subseteq granted \/ Cardinality(granted') + external' <= slots']_vars
    BY NextKeeps DEF Orderly
  <1> QED BY <1>1, Invariant, PTL DEF Spec, GrantsFit

(* What overtaking means for the tags: the later ticket finishes earlier. *)
LEMMA OvertakenTags ==
  ASSUME IInv, IInv', Orderly, NEW t \in Tickets, NEW u \in Tickets, Overtakes(u, t)
  PROVE  /\ tag'[u].finish < tag[t].finish
         /\ tag[t].born + Weight[u] <= tag'[u].finish
         /\ Owner[u] # Owner[t]
  <1>1. /\ u \in granted' \ granted /\ t \in waiting /\ t \in waiting'
        /\ SameClass(t, u) /\ tag[t].seq < tag'[u].seq
    BY DEF Overtakes
  <1>2. tag'[t] = tag[t] /\ Before(tag', u, t) BY <1>1 DEF Orderly
  <1>3. /\ tag'[t].seq \in Nat /\ tag'[u].seq \in Nat /\ tag'[u].start \in Nat
        /\ tag'[t].finish \in Nat /\ tag'[u].finish \in Nat
        /\ tag'[t].born \in Nat /\ tag'[u].born \in Nat /\ Weight[u] \in Nat \ {0}
    BY TicketsAssumption DEF IInv, TypeOK, TagType
  <1>4. tag'[u].finish < tag'[t].finish
    BY <1>1, <1>2, <1>3 DEF Before, SameClass
  <1>5. t \in Live' /\ u \in Live' BY <1>1 DEF Live
  <1>6. /\ tag'[t].born <= tag'[u].born
        /\ Owner[t] = Owner[u] => tag'[t].finish <= tag'[u].start
    BY <1>1, <1>2, <1>5 DEF IInv, Fair, Chained
  <1>7. tag'[u].finish = tag'[u].start + Weight[u] /\ tag'[u].born <= tag'[u].start
    BY <1>5 DEF IInv, Fair, TagsFit
  <1> QED BY <1>2, <1>3, <1>4, <1>6, <1>7

(* Calls of one principal and class are granted in the order they came:       *)
(* _assign_tags_locked chains their tags.                                    *)
THEOREM InOrder == Spec => FifoPerPrincipal
  <1>1. IInv /\ [Next]_vars =>
          [\A t, u \in Tickets : Overtakes(u, t) => Owner[u] # Owner[t]]_vars
    BY NextKeeps, OvertakenTags
  <1> QED BY <1>1, Invariant, PTL DEF Spec, FifoPerPrincipal

(* The share that later tickets can take before a waiting one is bounded by    *)
(* their tags: the fairness of the weighted queue.                           *)
THEOREM FairOrder == Spec => OvertakingIsBounded
  <1>1. IInv /\ [Next]_vars =>
          [\A t, u \in Tickets : Overtakes(u, t) =>
             /\ tag[t].born + Weight[u] <= tag'[u].finish
             /\ tag'[u].finish < tag[t].finish]_vars
    BY NextKeeps, OvertakenTags
  <1> QED BY <1>1, Invariant, PTL DEF Spec, OvertakingIsBounded

(* No batch ticket is granted past an interactive one. *)
THEOREM ClassOrder == Spec => InteractiveFirst
  <1>1. ASSUME IInv, [Next]_vars
        PROVE  (\E u \in Batch : u \in granted' \ granted) => waiting' \subseteq Batch
    <2> SUFFICES ASSUME NEW u \in Batch, u \in granted' \ granted, NEW t \in waiting'
                 PROVE t \in Batch
      OBVIOUS
    <2>1. Before(tag', u, t) BY <1>1, NextKeeps DEF Orderly
    <2> QED BY <2>1 DEF Before, SameClass
  <1> QED BY <1>1, Invariant, PTL DEF Spec, InteractiveFirst
-----------------------------------------------------------------------------
(* The fair share.                                                          *)

(* Tickets are numbered, and no number is given twice. *)
Numbered == \A t, u \in Live : tag[t].seq = tag[u].seq => t = u

(* A unit that p got while t waited lies before t's finish tag and, on p's     *)
(* virtual time, outside of what p's other tickets will get.                 *)
Spent(u, t, p) ==
  /\ u \in Nat \X Nat
  /\ u[1] <= seq
  /\ tag[t].born <= u[2] /\ u[2] + 1 < tag[t].finish
  /\ u[2] < lastFinish[p]
  /\ \A h \in Live : Owner[h] = p =>
       /\ u[1] < tag[h].seq => u[2] < tag[h].start
       /\ tag[h].seq < u[1] => tag[h].finish <= u[2]
       /\ u[1] = tag[h].seq => h \in granted

Shares ==
  /\ passed \in [Tickets -> [Principals -> SUBSET (Nat \X Nat)]]
  /\ \A t \in waiting, p \in Principals : \A u \in passed[t][p] :
       /\ Spent(u, t, p)
       /\ \A w \in passed[t][p] : w[2] = u[2] => w = u

(* How the tickets of the next state come from those of this one: they stay,  *)
(* granted ones granted, or are new and chained to their principal's last.   *)
Arrivals ==
  \/ Live' = {}
  \/ /\ seq \in Nat /\ seq <= seq'
     /\ \A p \in Principals : lastFinish[p] <= lastFinish'[p]
     /\ \A h \in Live' :
          \/ h \in Live /\ tag'[h] = tag[h] /\ (h \in granted => h \in granted')
          \/ /\ h \notin Live /\ tag'[h].seq = seq + 1
             /\ lastFinish[Owner[h]] <= tag'[h].start
     /\ \A h, k \in Live' : h \notin Live /\ k \notin Live => h = k

(* The pump takes no ticket that is granted away. *)
LEMMA PumpArrivals ==
  ASSUME NEW w, NEW g, NEW a, Pump(w, g, a)
  PROVE  g \subseteq granted' /\ Live' = w \cup g
  <1>1. PICK H \in SUBSET w : waiting' = w \ H /\ granted' = g \cup H
    BY Zenon DEF Pump
  <1> QED BY <1>1 DEF Live

LEMMA NextArrivals == ASSUME IInv, [Next]_vars PROVE Arrivals
  <1>1. /\ seq \in Nat /\ lastFinish \in [Principals -> Nat] /\ vtime \in Nat
        /\ tag \in [Tickets -> TagType]
        /\ Live \subseteq Tickets
        /\ \A t \in Tickets : Owner[t] \in Principals /\ Weight[t] \in Nat
    BY TicketsAssumption DEF IInv, TypeOK, Live
  <1> DEFINE Kept == /\ seq' = seq /\ lastFinish' = lastFinish
                     /\ \A h \in Live' : /\ h \in Live /\ tag'[h] = tag[h]
                                         /\ h \in granted => h \in granted'
  <1>2. Kept => Arrivals BY <1>1 DEF Arrivals
  <1>3. ASSUME NEW t \in Tickets, Admit(t) PROVE Arrivals
    <2>1. granted \subseteq granted' /\ Live' = Live \cup {t}
      BY <1>3, PumpArrivals DEF Admit, Live
    <2>2. seq' = seq + 1 /\ tag' = [tag EXCEPT ![t] = NewTag(t)] /\ t \notin Live
          /\ lastFinish' = [lastFinish EXCEPT ![Owner[t]] = NewTag(t).finish]
      BY <1>3 DEF Admit
    <2>3. /\ NewTag(t).seq = seq + 1 /\ lastFinish[Owner[t]] <= NewTag(t).start
          /\ lastFinish[Owner[t]] <= NewTag(t).finish
      BY <1>1 DEF NewTag, StartTag
    <2>4. \A p \in Principals : lastFinish[p] <= lastFinish'[p] BY <1>1, <2>2, <2>3
    <2>5. tag'[t] = NewTag(t) /\ \A h \in Live : h # t /\ tag'[h] = tag[h]
      BY <1>1, <2>2
    <2> QED BY <1>1, <2>1, <2>2, <2>3, <2>4, <2>5 DEF Arrivals
  <1>4. ASSUME NEW t \in Tickets, AdmitAgain(t) PROVE Kept
    BY <1>4 DEF AdmitAgain, Live
  <1>5. ASSUME NEW t \in Tickets, Poll(t) PROVE Kept
    BY <1>5, PumpArrivals DEF Poll, Live
  <1>6. ASSUME NEW T \in SUBSET Tickets, NEW a, tag' = Forgotten(T),
               UNCHANGED <<lastFinish, seq>>, Pump(waiting \ T, granted \ T, a)
        PROVE  Kept
    <2>1. granted \ T \subseteq granted' /\ Live' = (waiting \ T) \cup (granted \ T)
      BY <1>6, PumpArrivals
    <2>2. \A h \in Live' : h \in Live /\ h \notin T /\ tag'[h] = tag[h]
      BY <1>1, <1>6, <2>1 DEF Live, Forgotten
    <2> QED BY <1>6, <2>1, <2>2
  <1>7. ASSUME NEW t \in Tickets, Release(t) PROVE Kept
    BY <1>6, <1>7 DEF Release
  <1>8. ASSUME Sweep PROVE Kept
    <2>1. Expired \in SUBSET Tickets BY <1>1 DEF Expired
    <2> QED BY <1>6, <1>8, <2>1 DEF Sweep
  <1>9. ASSUME NEW n, SetSlots(n) \/ SetExternalUsed(n) PROVE Kept
    BY <1>9, PumpArrivals DEF SetSlots, SetExternalUsed, Live
  <1>10. ASSUME TimePasses PROVE Kept BY <1>10 DEF TimePasses, Live
  <1>11. CASE Restart BY <1>11 DEF Restart, Arrivals, Live
  <1>12. ASSUME UNCHANGED vars PROVE Kept BY <1>12 DEF vars, Live
  <1> HIDE DEF Kept
  <1> QED BY <1>2, <1>3, <1>4, <1>5, <1>7, <1>8, <1>9, <1>10, <1>11, <1>12 DEF Next

LEMMA NextNumbered == ASSUME IInv, Arrivals, Numbered PROVE Numbered'
  <1>1. \A t \in Live : tag[t].seq \in 1..seq BY DEF IInv, Fair, TagsFit
  <1> QED BY <1>1 DEF Arrivals, Numbered

LEMMA NextShares ==
  ASSUME IInv, IInv', Orderly, Arrivals, Numbered', Shares, [ShareNext]_sharevars
  PROVE  Shares'
  <1>1. CASE UNCHANGED sharevars
    BY <1>1 DEF sharevars, vars, Shares, Spent, Live
  <1>2. CASE ShareNext
    <2> DEFINE New(t, p) == UNION {Units(h) : h \in Later(granted' \ granted, t, p)}
    <2>1. /\ waiting \subseteq Tickets /\ waiting' \subseteq Tickets
          /\ granted' \subseteq Tickets
          /\ \A t \in Tickets : tag[t] \in TagType /\ tag'[t] \in TagType
          /\ \A p \in Principals : lastFinish[p] \in Nat /\ lastFinish'[p] \in Nat
          /\ \A t \in Tickets : Owner[t] \in Principals /\ Weight[t] \in Nat \ {0}
          /\ seq \in Nat /\ seq' \in Nat
      BY TicketsAssumption DEF IInv, TypeOK
    <2>2. ASSUME NEW t \in Tickets, NEW p \in Principals, NEW u \in New(t, p)
          PROVE  \E g \in granted' \ granted :
                   /\ Owner[g] = p /\ SameClass(g, t) /\ tag[t].seq < tag'[g].seq
                   /\ u = <<tag'[g].seq, u[2]>>
                   /\ u[2] \in tag'[g].start .. (tag'[g].finish - 1)
      <3>1. PICK h \in Later(granted' \ granted, t, p) : u \in Units(h) BY <2>2
      <3>2. h \in Tickets /\ tag[t].seq \in Nat /\ tag'[h].seq \in Nat
        BY <2>1, <3>1 DEF Later, TagType
      <3> QED BY <3>1, <3>2 DEF Later, Units
    <2>3. passed' = [t \in Tickets |-> [p \in Principals |->
            IF t \in waiting \cap waiting' THEN passed[t][p] \cup New(t, p) ELSE {}]]
      BY <1>2 DEF ShareNext
    <2> HIDE DEF New
    <2>4. passed' \in [Tickets -> [Principals -> SUBSET (Nat \X Nat)]]
      <3>1. ASSUME NEW t \in Tickets, NEW p \in Principals
            PROVE  passed[t][p] \cup New(t, p) \in SUBSET (Nat \X Nat)
        <4>1. passed[t][p] \subseteq Nat \X Nat BY DEF Shares
        <4>2. ASSUME NEW u \in New(t, p) PROVE u \in Nat \X Nat
          <5>1. PICK g \in granted' \ granted :
                   u = <<tag'[g].seq, u[2]>> /\ u[2] \in tag'[g].start .. (tag'[g].finish - 1)
            BY <2>2
          <5>2. tag'[g].seq \in Nat /\ tag'[g].start \in Nat /\ tag'[g].finish \in Nat
            BY <2>1 DEF TagType
          <5>3. u[2] \in Nat BY <5>1, <5>2
          <5> QED BY <5>1, <5>2, <5>3
        <4> QED BY <4>1, <4>2
      <3> QED BY <2>3, <3>1
    <2>5. ASSUME NEW t \in waiting', NEW p \in Principals, passed'[t][p] # {}
          PROVE  /\ t \in waiting /\ tag'[t] = tag[t] /\ t \in Live' /\ t \in Tickets
                 /\ passed'[t][p] = passed[t][p] \cup New(t, p)
                 /\ tag'[t].born \in Nat /\ tag'[t].finish \in Nat /\ tag'[t].seq \in Nat
      <3>1. t \in Tickets BY <2>1
      <3>2. t \in waiting /\ passed'[t][p] = passed[t][p] \cup New(t, p)
        BY <2>3, <2>5, <3>1
      <3> QED BY <2>1, <3>1, <3>2 DEF Orderly, Live, TagType
    <2>6. ASSUME NEW h \in Live', NEW p \in Principals, Owner[h] = p
          PROVE  /\ tag'[h].seq \in Nat /\ tag'[h].start \in Nat /\ tag'[h].finish \in Nat
                 /\ tag'[h].seq <= seq' /\ tag'[h].finish <= lastFinish'[p]
                 /\ \/ h \in Live /\ tag'[h] = tag[h] /\ (h \in granted => h \in granted')
                    \/ tag'[h].seq = seq + 1 /\ lastFinish[p] <= tag'[h].start
                 /\ seq <= seq' /\ lastFinish[p] <= lastFinish'[p]
      <3>1. h \in Tickets BY <2>1 DEF Live
      <3>2. tag'[h].seq \in 1..seq' /\ tag'[h].finish <= lastFinish'[p]
        BY <2>6 DEF IInv, Fair, TagsFit
      <3> QED BY <2>1, <2>6, <3>1, <3>2 DEF Arrivals, TagType
    (* a unit from before *)
    <2>7. ASSUME NEW t \in waiting', NEW p \in Principals, NEW u \in passed[t][p],
                 t \in waiting, tag'[t] = tag[t]
          PROVE  Spent(u, t, p)'
      <3>1. Spent(u, t, p) BY <2>7 DEF Shares
      <3>2. u \in Nat \X Nat /\ u[1] \in Nat /\ u[2] \in Nat BY <3>1 DEF Spent
      <3>3. seq <= seq' /\ lastFinish[p] <= lastFinish'[p] BY <2>7 DEF Arrivals, Live
      <3>4. ASSUME NEW h \in Live', Owner[h] = p
            PROVE  /\ u[1] < tag'[h].seq => u[2] < tag'[h].start
                   /\ tag'[h].seq < u[1] => tag'[h].finish <= u[2]
                   /\ u[1] = tag'[h].seq => h \in granted'
        <4>1. CASE h \in Live /\ tag'[h] = tag[h] /\ (h \in granted => h \in granted')
          BY <3>1, <3>4, <4>1 DEF Spent
        <4>2. CASE tag'[h].seq = seq + 1 /\ lastFinish[p] <= tag'[h].start
          BY <2>1, <2>6, <3>1, <3>2, <3>4, <4>2 DEF Spent
        <4> QED BY <2>6, <3>4, <4>1, <4>2
      <3> QED BY <2>1, <2>7, <3>1, <3>2, <3>3, <3>4 DEF Spent
    (* a unit of this step *)
    <2>8. ASSUME NEW t \in waiting', NEW p \in Principals, NEW g \in granted' \ granted,
                 t \in waiting, tag'[t] = tag[t], t \in Tickets,
                 Owner[g] = p, SameClass(g, t), tag[t].seq < tag'[g].seq,
                 NEW u \in Nat \X Nat, u[1] = tag'[g].seq,
                 u[2] \in tag'[g].start .. (tag'[g].finish - 1)
          PROVE  Spent(u, t, p)'
      <3>1. g \in Tickets /\ g \in Live' BY <2>1 DEF Live
      <3>2. Overtakes(g, t) BY <2>8 DEF Overtakes, SameClass
      <3>3. /\ tag'[g].finish < tag[t].finish
            /\ tag[t].born + Weight[g] <= tag'[g].finish
            /\ tag'[g].finish = tag'[g].start + Weight[g]
        <4>1. /\ tag'[g].finish < tag[t].finish
              /\ tag[t].born + Weight[g] <= tag'[g].finish
          BY <2>8, <3>1, <3>2, OvertakenTags
        <4>2. tag'[g].finish = tag'[g].start + Weight[g]
          BY <3>1 DEF IInv, Fair, TagsFit
        <4> QED BY <4>1, <4>2
      <3>4. /\ tag[t].born \in Nat /\ tag[t].finish \in Nat /\ Weight[g] \in Nat
            /\ tag'[g].start \in Nat /\ tag'[g].finish \in Nat /\ u[2] \in Nat
        BY <2>1, <2>8, <3>1 DEF TagType
      <3>5. tag[t].born <= u[2] /\ u[2] + 1 < tag[t].finish
        BY <2>8, <3>3, <3>4
      <3>6. u[1] <= seq' /\ u[2] < lastFinish'[p] BY <2>1, <2>6, <2>8, <3>1, <3>4
      <3>7. ASSUME NEW h \in Live', Owner[h] = p
            PROVE  /\ u[1] < tag'[h].seq => u[2] < tag'[h].start
                   /\ tag'[h].seq < u[1] => tag'[h].finish <= u[2]
                   /\ u[1] = tag'[h].seq => h \in granted'
        <4>1. /\ tag'[g].seq < tag'[h].seq => tag'[g].finish <= tag'[h].start
              /\ tag'[h].seq < tag'[g].seq => tag'[h].finish <= tag'[g].start
          BY <2>8, <3>1, <3>7 DEF IInv, Fair, Chained
        <4>2. tag'[g].seq = tag'[h].seq => h = g BY <3>1, <3>7 DEF Numbered
        <4>3. tag'[h].start \in Nat /\ tag'[h].finish \in Nat BY <2>6, <3>7
        <4> QED BY <2>8, <3>4, <4>1, <4>2, <4>3
      <3> QED BY <2>8, <3>5, <3>6, <3>7 DEF Spent
    <2>9. ASSUME NEW t \in waiting', NEW p \in Principals, NEW u \in passed'[t][p]
          PROVE  Spent(u, t, p)'
      <3>1. CASE u \in passed[t][p] BY <2>5, <2>7, <2>9, <3>1
      <3>2. CASE u \in New(t, p)
        <4>1. /\ t \in Tickets /\ t \in waiting /\ tag'[t] = tag[t] BY <2>5, <2>9
        <4>2. PICK g \in granted' \ granted :
                 /\ Owner[g] = p /\ SameClass(g, t) /\ tag[t].seq < tag'[g].seq
                 /\ u = <<tag'[g].seq, u[2]>>
                 /\ u[2] \in tag'[g].start .. (tag'[g].finish - 1)
          BY <2>2, <3>2, <4>1
        <4>3. u \in Nat \X Nat BY <2>4, <2>9, <4>1
        <4>4. u[1] = tag'[g].seq BY <4>2
        <4> QED BY <2>8, <4>1, <4>2, <4>3, <4>4
      <3> QED BY <2>5, <2>9, <3>1, <3>2
    (* no unit is counted twice *)
    <2>10. ASSUME NEW t \in waiting', NEW p \in Principals, NEW u \in passed'[t][p],
                  NEW w \in passed'[t][p], w[2] = u[2]
           PROVE  w = u
      <3>0. /\ t \in Tickets /\ t \in waiting /\ tag'[t] = tag[t]
            /\ passed'[t][p] = passed[t][p] \cup New(t, p)
            /\ u \in Nat \X Nat /\ w \in Nat \X Nat
        BY <2>4, <2>5, <2>10
      <3>1. ASSUME NEW x \in New(t, p), NEW y \in passed'[t][p], y[2] = x[2] PROVE y[1] = x[1]
        <4>1. PICK g \in granted' \ granted :
                 /\ Owner[g] = p
                 /\ x = <<tag'[g].seq, x[2]>>
                 /\ x[2] \in tag'[g].start .. (tag'[g].finish - 1)
          BY <2>2, <3>0, <3>1
        <4>2. g \in Live' BY DEF Live
        <4>3. Spent(y, t, p)' BY <2>9, <3>1
        <4>4. /\ y[1] < tag'[g].seq => y[2] < tag'[g].start
              /\ tag'[g].seq < y[1] => tag'[g].finish <= y[2]
              /\ y[1] \in Nat /\ y[2] \in Nat
          BY <4>1, <4>2, <4>3 DEF Spent
        <4>5. tag'[g].seq \in Nat /\ tag'[g].start \in Nat /\ tag'[g].finish \in Nat
          BY <2>6, <4>1, <4>2
        <4>6. x[1] = tag'[g].seq BY <4>1
        <4>7. ~(y[1] < tag'[g].seq) /\ ~(tag'[g].seq < y[1]) BY <3>1, <4>1, <4>4, <4>5
        <4> QED BY <4>4, <4>5, <4>6, <4>7
      <3>2. CASE u \in passed[t][p] /\ w \in passed[t][p]
        BY <2>10, <3>0, <3>2 DEF Shares
      <3>3. CASE u \in New(t, p) \/ w \in New(t, p)
        <4>1. w[1] = u[1] BY <2>10, <3>1, <3>3
        <4> QED BY <2>10, <3>0, <4>1
      <3> QED BY <3>0, <3>2, <3>3
    <2> QED BY <2>4, <2>9, <2>10 DEF Shares
  <1> QED BY <1>1, <1>2

(* Units at different places of virtual time before t's finish tag are few. *)
LEMMA FewUnits ==
  ASSUME IInv, Shares, NEW t \in waiting, NEW p \in Principals
  PROVE  Cardinality(passed[t][p]) < tag[t].finish - tag[t].born
  <1> DEFINE U == passed[t][p]
             V == tag[t].born .. (tag[t].finish - 2)
             at == [u \in U |-> u[2]]
  <1>1. t \in Live /\ t \in Tickets BY DEF Live, IInv, TypeOK
  <1>2. /\ tag[t].born \in Nat /\ tag[t].finish \in Nat
        /\ tag[t].born + 1 <= tag[t].finish
    <2>1. tag[t] \in TagType /\ Weight[t] \in Nat \ {0}
      BY <1>1, TicketsAssumption DEF IInv, TypeOK
    <2>2. tag[t].finish = tag[t].start + Weight[t] /\ tag[t].born <= tag[t].start
      BY <1>1 DEF IInv, Fair, TagsFit
    <2> QED BY <2>1, <2>2 DEF TagType
  <1>3. \A u \in U : u[2] \in V BY <1>2 DEF Shares, Spent
  <1>4. at \in Injection(U, V)
    <2>1. at \in [U -> V] BY <1>3
    <2>2. \A u, w \in U : at[u] = at[w] => u = w BY DEF Shares
    <2> QED BY <2>1, <2>2 DEF Injection, IsInjective
  <1> HIDE DEF at, U, V
  <1>5. IsFiniteSet(V) /\ Cardinality(V) <= tag[t].finish - 1 - tag[t].born
    <2>1. tag[t].born \in Int /\ tag[t].finish - 2 \in Int BY <1>2
    <2>2. /\ IsFiniteSet(V)
          /\ Cardinality(V) = IF tag[t].born > tag[t].finish - 2 THEN 0
                              ELSE (tag[t].finish - 2) - tag[t].born + 1
      BY <2>1, FS_Interval DEF V
    <2> QED BY <1>2, <2>2
  <1>6. IsFiniteSet(U) /\ Cardinality(U) <= Cardinality(V) BY <1>4, <1>5, FS_Injection
  <1>7. Cardinality(U) \in Nat /\ Cardinality(V) \in Nat
    BY <1>5, <1>6, FS_CardinalityType
  <1> QED BY <1>2, <1>5, <1>6, <1>7 DEF U

(* While a call waits, no principal gets more weight past it than the call's    *)
(* finish tag was ahead when it came, however often slots, budgets, expiries    *)
(* and releases let others through.                                         *)
THEOREM ShareKept == ShareSpec => []FairShare
  <1>1. ShareInit => IInv /\ Numbered /\ Shares
    <2> SUFFICES ASSUME ShareInit PROVE IInv /\ Numbered /\ Shares OBVIOUS
    <2>1. IInv BY InitKeeps DEF ShareInit
    <2>2. waiting = {} /\ Live = {} BY DEF ShareInit, Init, Live
    <2>3. passed \in [Tickets -> [Principals -> SUBSET (Nat \X Nat)]] BY DEF ShareInit
    <2> QED BY <2>1, <2>2, <2>3 DEF Numbered, Shares
  <1>2. IInv /\ Numbered /\ Shares /\ [ShareNext]_sharevars => IInv' /\ Numbered' /\ Shares'
    <2> SUFFICES ASSUME IInv, Numbered, Shares, [ShareNext]_sharevars
                 PROVE  IInv' /\ Numbered' /\ Shares'
      OBVIOUS
    <2>1. [Next]_vars BY DEF ShareNext, sharevars
    <2>2. IInv' /\ Orderly /\ Arrivals BY <2>1, NextKeeps, NextArrivals
    <2>3. Numbered' BY <2>2, NextNumbered
    <2> QED BY <2>2, <2>3, NextShares
  <1>3. IInv /\ Shares => FairShare BY FewUnits DEF FairShare
  <1> QED BY <1>1, <1>2, <1>3, PTL DEF ShareSpec
=============================================================================
