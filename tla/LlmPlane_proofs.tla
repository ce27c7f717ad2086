-------------------------- MODULE LlmPlane_proofs --------------------------
(***************************************************************************)
(* Proofs about LlmPlane for any number of cells, calls and turns and any   *)
(* bounds: every step of pn-llmd is a step of the admission queue, so that  *)
(* what AdmissionQueue_proofs shows holds behind the brokers and shims too; *)
(* the queue works with AIMD's budget; and a client never loses its ticket  *)
(* by itself.                                                               *)
(***************************************************************************)
EXTENDS LlmPlane, TLAPS

(* The history of the fair share is not needed here. *)
P == INSTANCE AdmissionQueue_proofs WITH passed <- {}

-----------------------------------------------------------------------------
(* The queue of LlmPlane is the queue AdmissionQueue_proofs speaks of.      *)

LEMMA FiniteTickets == P!IsFiniteSet(Tickets)
  BY QueueAssumption DEF IsFiniteSet, P!IsFiniteSet

LEMMA SameType == Q!TypeOK <=> P!TypeOK
  BY DEF Q!TypeOK, P!TypeOK, Q!TagType, P!TagType

LEMMA SameInit == Q!Init <=> P!Init
  BY DEF Q!Init, P!Init, Q!NoTag, P!NoTag

LEMMA SameNext == [Q!Next]_(Q!vars) <=> [P!Next]_(P!vars)
  <1> USE DEF Q!Pump, P!Pump, Q!Heads, P!Heads, Q!Before, P!Before,
              Q!SameClass, P!SameClass, Q!Renewed, P!Renewed, Q!Live, P!Live,
              Q!Forgotten, P!Forgotten, Q!AgesWithout, P!AgesWithout,
              Q!NoTag, P!NoTag, Q!NewTag, P!NewTag, Q!StartTag, P!StartTag,
              Q!Expired, P!Expired, Q!Cardinality, P!Cardinality
  <1>1. ASSUME NEW t \in Tickets
        PROVE  /\ Q!Admit(t) <=> P!Admit(t)
               /\ Q!AdmitAgain(t) <=> P!AdmitAgain(t)
               /\ Q!Poll(t) <=> P!Poll(t)
               /\ Q!Release(t) <=> P!Release(t)
    <2>1. Q!Admit(t) <=> P!Admit(t) BY DEF Q!Admit, P!Admit
    <2>2. Q!AdmitAgain(t) <=> P!AdmitAgain(t) BY DEF Q!AdmitAgain, P!AdmitAgain
    <2>3. Q!Poll(t) <=> P!Poll(t) BY DEF Q!Poll, P!Poll
    <2>4. Q!Release(t) <=> P!Release(t) BY DEF Q!Release, P!Release
    <2> QED BY <2>1, <2>2, <2>3, <2>4
  <1>2. Q!Sweep <=> P!Sweep BY DEF Q!Sweep, P!Sweep
  <1>3. ASSUME NEW n \in 1..MaxSlots PROVE Q!SetSlots(n) <=> P!SetSlots(n)
    BY DEF Q!SetSlots, P!SetSlots
  <1>4. ASSUME NEW n \in 0..MaxExternal
        PROVE  Q!SetExternalUsed(n) <=> P!SetExternalUsed(n)
    BY DEF Q!SetExternalUsed, P!SetExternalUsed
  <1>5. Q!TimePasses <=> P!TimePasses BY DEF Q!TimePasses, P!TimePasses
  <1>6. Q!Restart <=> P!Restart BY DEF Q!Restart, P!Restart
  <1>7. UNCHANGED Q!vars <=> UNCHANGED P!vars BY DEF Q!vars, P!vars
  <1> QED BY <1>1, <1>2, <1>3, <1>4, <1>5, <1>6, <1>7, Zenon DEF Q!Next, P!Next

-----------------------------------------------------------------------------
(* Types.                                                                   *)

(* The part of TypeOK that is not the queue's. *)
PlaneType ==
  /\ cur \in AimdMin..AimdMax
  /\ streak \in 0..GrowEvery
  /\ cooling \in BOOLEAN
  /\ reqs \subseteq RequestType
  /\ call \in [Tickets -> {"new", "waiting", "forwarding", "over"} \cup Rpc]
  /\ shim \in [Turns -> {"new", "asking", "waiting", "polling", "running",
                         "releasing", "over"}]
  /\ pregrant \in [Principals -> {Nobody} \cup [id : Turns, fresh : BOOLEAN]]
  /\ polled \subseteq Tickets
  /\ failures \in 0..MaxFailures
  /\ lost \subseteq Tickets
  /\ swept \subseteq Tickets

(* Only turns have shims. *)
FromTurns == \A r \in reqs : r.by = "shim" => r.id \in Turns

(* The types and what AdmissionQueue_proofs shows of the queue.  TypeOK is    *)
(* inductive with FromTurns only: a granted request becomes a pre-grant.      *)
Sound == TypeOK /\ FromTurns /\ P!IInv

LEMMA TypeParts == TypeOK <=> Q!TypeOK /\ PlaneType
  BY DEF TypeOK, PlaneType

LEMMA InitSound == ASSUME Init PROVE Sound
  <1>1. P!IInv BY P!InitKeeps, FiniteTickets, QueueAssumption, SameInit DEF Init
  <1>2. Q!TypeOK BY <1>1, SameType DEF P!IInv
  <1>3. StartCur \in AimdMin..AimdMax /\ 0 \in 0..GrowEvery /\ 0 \in 0..MaxFailures
    BY PlaneAssumption, QueueAssumption DEF StartCur
  <1>4. PlaneType BY <1>3 DEF Init, PlaneType
  <1>5. FromTurns BY DEF Init, FromTurns
  <1> QED BY <1>1, <1>2, <1>4, <1>5, TypeParts DEF Sound

(* The variables of the clients, with their types. *)
ClientTypes ==
  /\ reqs \subseteq RequestType
  /\ FromTurns
  /\ call \in [Tickets -> {"new", "waiting", "forwarding", "over"} \cup Rpc]
  /\ shim \in [Turns -> {"new", "asking", "waiting", "polling", "running",
                         "releasing", "over"}]
  /\ pregrant \in [Principals -> {Nobody} \cup [id : Turns, fresh : BOOLEAN]]
  /\ polled \subseteq Tickets

AimdTypes ==
  cur \in AimdMin..AimdMax /\ streak \in 0..GrowEvery /\ cooling \in BOOLEAN

HistoryTypes ==
  failures \in 0..MaxFailures /\ lost \subseteq Tickets /\ swept \subseteq Tickets

LEMMA PlaneParts == PlaneType /\ FromTurns <=> ClientTypes /\ AimdTypes /\ HistoryTypes
  BY DEF PlaneType, ClientTypes, AimdTypes, HistoryTypes

LEMMA AnswerTyped ==
  ASSUME ClientTypes, NEW r \in reqs, NEW g, Answer(r, g) PROVE ClientTypes'
  <1> USE DEF ClientTypes
  <1>1. r.id \in Tickets /\ r.by \in {"call", "shim"} BY DEF RequestType
  <1>2. reqs' \subseteq reqs /\ polled' \subseteq Tickets BY <1>1 DEF Answer
  <1>3. FromTurns' BY <1>2 DEF FromTurns
  <1>4. call' \in [Tickets -> {"new", "waiting", "forwarding", "over"} \cup Rpc]
    BY <1>1 DEF Answer
  <1>5. shim' \in [Turns -> {"new", "asking", "waiting", "polling", "running",
                             "releasing", "over"}]
    BY <1>1 DEF Answer
  <1>6. pregrant' \in [Principals -> {Nobody} \cup [id : Turns, fresh : BOOLEAN]]
    BY <1>1, QueueAssumption DEF Answer, FromTurns
  <1> QED BY <1>2, <1>3, <1>4, <1>5, <1>6

LEMMA NoAnswerTyped ==
  ASSUME ClientTypes, NEW r \in reqs, NEW rest \in SUBSET RequestType,
         \A q \in rest : q.by = "shim" => q.id \in Turns, NoAnswer(r, rest)
  PROVE  ClientTypes'
  <1> USE DEF ClientTypes
  <1>1. r.id \in Tickets /\ r.by \in {"call", "shim"} BY DEF RequestType
  <1>2. CASE r.by = "call"
    <2>1. NoAnswerToCall(r.id, rest) BY <1>2 DEF NoAnswer
    <2>2. "bad" \in Outcomes BY DEF Outcomes
    <2>3. /\ Request(r.id, "call", "release", "bad") \in RequestType
          /\ Request(r.id, "call", "release", "bad").by = "call"
      BY <1>1, <2>2 DEF Request, RequestType
    <2>5. reqs' \subseteq rest \cup {Request(r.id, "call", "release", "bad")}
      BY <2>1 DEF NoAnswerToCall
    <2>6. reqs' \subseteq RequestType /\ FromTurns' BY <2>3, <2>5 DEF FromTurns
    <2>4. call' \in [Tickets -> {"new", "waiting", "forwarding", "over"} \cup Rpc]
      BY <1>1, <2>1 DEF NoAnswerToCall, Rpc
    <2> QED BY <1>1, <2>1, <2>4, <2>6 DEF NoAnswerToCall
  <1>3. CASE r.by = "shim"
    <2>1. NoAnswerToTurn(r.id, rest) BY <1>3 DEF NoAnswer
    <2> QED BY <1>1, <2>1 DEF NoAnswerToTurn, FromTurns
  <1> QED BY <1>1, <1>2, <1>3

(* A client sends a request. *)
LEMMA SendTyped ==
  ASSUME ClientTypes, NEW t \in Tickets, NEW by \in {"call", "shim"},
         NEW verb \in {"admit", "poll", "release"}, NEW out \in Outcomes,
         by = "shim" => t \in Turns, Send(t, by, verb, out)
  PROVE  reqs' \subseteq RequestType /\ FromTurns'
  <1>1. /\ Request(t, by, verb, out) \in RequestType
        /\ Request(t, by, verb, out).id = t /\ Request(t, by, verb, out).by = by
    BY DEF Request, RequestType
  <1>2. reqs' = reqs \cup {Request(t, by, verb, out)} BY DEF Send
  <1> QED BY <1>1, <1>2 DEF ClientTypes, FromTurns

(* A request goes on in pn-llmd. *)
LEMMA AdvanceTyped ==
  ASSUME ClientTypes, NEW r \in reqs, NEW s \in RequestType, s.id = r.id, s.by = r.by,
         Advance(r, s), UNCHANGED cellVars
  PROVE  ClientTypes'
  BY DEF ClientTypes, Advance, cellVars, FromTurns

-----------------------------------------------------------------------------
(* One step: types, and what it does to the queue.                          *)

Typed == ClientTypes /\ AimdTypes /\ HistoryTypes

SameQueue == UNCHANGED queueVars
QueueStep == SameQueue \/ Q!Next

LEMMA QueueStays == SameQueue => [Q!Next]_(Q!vars)
  BY DEF SameQueue, queueVars, Q!vars

(* A client that only sends a request, or forgets one. *)
LEMMA ClientTyped ==
  ASSUME Typed, ClientTypes', UNCHANGED <<queueVars, aimdVars, history>>
  PROVE  Typed' /\ SameQueue
  BY DEF Typed, AimdTypes, HistoryTypes, aimdVars, history, SameQueue

LEMMA BrokerSound == ASSUME Typed, Broker PROVE Typed' /\ SameQueue
  <1> USE DEF Typed
  <1> DEFINE Calm == UNCHANGED <<queueVars, aimdVars, history>>
             CallType == {"new", "waiting", "forwarding", "over"} \cup Rpc
  <1>0. ClientTypes BY DEF Typed
  <1>1. ASSUME NEW c \in Calls, Arrive(c) PROVE ClientTypes' /\ Calm
    <2>1. Send(c, "call", "admit", "none") /\ Calm BY <1>1 DEF Arrive
    <2>2. reqs' \subseteq RequestType /\ FromTurns'
      BY <1>0, <2>1, SendTyped DEF Calls, Outcomes
    <2> QED BY <1>1, <2>1, <2>2 DEF Arrive, ClientTypes, Rpc
  <1>2. ASSUME NEW c \in Calls, PollCall(c) PROVE ClientTypes' /\ Calm
    <2>1. Send(c, "call", "poll", "none") /\ Calm BY <1>2 DEF PollCall
    <2>2. reqs' \subseteq RequestType /\ FromTurns'
      BY <1>0, <2>1, SendTyped DEF Calls, Outcomes
    <2> QED BY <1>2, <2>1, <2>2 DEF PollCall, ClientTypes, Rpc
  <1>3. ASSUME NEW t \in Tickets, NEW out \in Outcomes, Finally(t, out)
        PROVE  ClientTypes' /\ Calm
    <2>1. Send(t, "call", "release", out) /\ Calm BY <1>3 DEF Finally
    <2>2. reqs' \subseteq RequestType /\ FromTurns'
      BY <1>0, <2>1, SendTyped
    <2> QED BY <1>3, <2>1, <2>2 DEF Finally, ClientTypes, Rpc
  <1>4. ASSUME NEW c \in Calls, Cap(c) PROVE ClientTypes' /\ Calm
    BY <1>3, <1>4 DEF Cap, Calls, Outcomes
  <1>5. ASSUME NEW t \in Tickets, UpstreamEnds(t) PROVE ClientTypes' /\ Calm
    BY <1>3, <1>5 DEF UpstreamEnds
  <1>6. ASSUME NEW t \in Tickets, Renew(t) PROVE ClientTypes' /\ Calm
    <2>1. Send(t, "call", "poll", "none") /\ Calm BY <1>6 DEF Renew
    <2>2. reqs' \subseteq RequestType /\ FromTurns'
      BY <1>0, <2>1, SendTyped DEF Outcomes
    <2> QED BY <1>6, <2>1, <2>2 DEF Renew, ClientTypes, Rpc
  <1>7. ASSUME NEW t \in Turns, Adopt(t) PROVE ClientTypes' /\ Calm
    <2>1. Send(t, "call", "poll", "none") /\ Calm /\ t \in Tickets
      BY <1>7, PlaneAssumption DEF Adopt
    <2>2. reqs' \subseteq RequestType /\ FromTurns'
      BY <1>0, <2>1, SendTyped DEF Outcomes
    <2> QED BY <1>7, <2>1, <2>2 DEF Adopt, ClientTypes, Rpc
  <1>8. ClientTypes' /\ Calm
    BY <1>1, <1>2, <1>4, <1>5, <1>6, <1>7 DEF Broker
  <1> QED BY <1>8, ClientTyped

LEMMA ShimSound ==
  ASSUME Typed, Shim \/ (\E t \in Turns : LoseBroker(t)) PROVE Typed' /\ SameQueue
  <1> DEFINE Calm == UNCHANGED <<queueVars, aimdVars, history>>
  <1>0. ClientTypes /\ Turns \subseteq Tickets BY PlaneAssumption DEF Typed
  <1>1. ASSUME NEW t \in Turns, Acquire(t) PROVE ClientTypes' /\ Calm
    <2>1. Send(t, "shim", "admit", "none") /\ Calm BY <1>1 DEF Acquire
    <2>2. reqs' \subseteq RequestType /\ FromTurns'
      BY <1>0, <2>1, SendTyped DEF Outcomes
    <2> QED BY <1>0, <1>1, <2>1, <2>2 DEF Acquire, ClientTypes
  <1>2. ASSUME NEW t \in Turns, PollTurn(t) PROVE ClientTypes' /\ Calm
    <2>1. Send(t, "shim", "poll", "none") /\ Calm BY <1>2 DEF PollTurn
    <2>2. reqs' \subseteq RequestType /\ FromTurns'
      BY <1>0, <2>1, SendTyped DEF Outcomes
    <2> QED BY <1>0, <1>2, <2>1, <2>2 DEF PollTurn, ClientTypes
  <1>3. ASSUME NEW t \in Turns, NEW reaches \in BOOLEAN, Done(t, reaches)
        PROVE  ClientTypes' /\ Calm
    <2>1. CASE reaches /\ pregrant[Owner[t]].id = t
      <3>1. Send(t, "shim", "release", "none") /\ Calm BY <1>3, <2>1 DEF Done
      <3>2. reqs' \subseteq RequestType /\ FromTurns'
        BY <1>0, <3>1, SendTyped DEF Outcomes
      <3> QED BY <1>0, <1>3, <2>1, <3>1, <3>2 DEF Done, ClientTypes
    <2>2. CASE ~(reaches /\ pregrant[Owner[t]].id = t)
      BY <1>0, <1>3, <2>2 DEF Done, ClientTypes, FromTurns
    <2> QED BY <2>1, <2>2
  <1>4. ASSUME NEW p \in Principals, PregrantExpires(p) PROVE ClientTypes' /\ Calm
    <2>1. pregrant[p] \in [id : Turns, fresh : BOOLEAN]
      BY <1>0, <1>4 DEF PregrantExpires, Adoptable, ClientTypes, Nobody
    <2>2. [pregrant[p] EXCEPT !.fresh = FALSE] \in [id : Turns, fresh : BOOLEAN]
      BY <2>1
    <2> QED BY <1>0, <1>4, <2>2 DEF PregrantExpires, ClientTypes, FromTurns
  <1>5. ASSUME NEW t \in Turns, LoseBroker(t) PROVE ClientTypes' /\ Calm
    BY <1>0, <1>5 DEF LoseBroker, ClientTypes, FromTurns
  <1>6. ClientTypes' /\ Calm
    BY <1>1, <1>2, <1>3, <1>4, <1>5 DEF Shim
  <1> QED BY <1>6, ClientTyped

LEMMA HalvedTyped == ASSUME AimdTypes PROVE Halved \in AimdMin..AimdMax
  <1>1. AimdMin \in Nat \ {0} /\ AimdMax \in Nat /\ AimdMin <= AimdMax
    BY PlaneAssumption, QueueAssumption
  <1>2. cur \in Nat /\ cur \div 2 \in Nat /\ cur \div 2 <= cur
    BY <1>1 DEF AimdTypes
  <1> QED BY <1>1, <1>2 DEF Halved, AimdTypes

LEMMA HandleSound ==
  ASSUME Typed, NEW r \in reqs, Handle(r) PROVE Typed' /\ QueueStep
  <1>0. /\ ClientTypes /\ AimdTypes /\ HistoryTypes
        /\ r \in RequestType /\ r.id \in Tickets /\ r.by \in {"call", "shim"}
    BY DEF Typed, ClientTypes, RequestType
  <1> DEFINE Still == AimdTypes' /\ HistoryTypes'
  <1>1. UNCHANGED <<aimdVars, history>> => Still
    BY <1>0 DEF AimdTypes, HistoryTypes, aimdVars, history
  <1>2. CASE Couple(r)
    <2>1. QueueStep BY <1>2 DEF Couple, QueueStep, Q!Next
    <2>2. CASE r.verb = "release" /\ r.out = "none"
      <3>1. Answer(r, FALSE) /\ UNCHANGED <<aimdVars, history>> BY <1>2, <2>2 DEF Couple
      <3> QED BY <1>0, <1>1, <2>1, <3>1, AnswerTyped DEF Typed
    <2>3. CASE ~(r.verb = "release" /\ r.out = "none")
      <3> DEFINE s == [r EXCEPT !.pc = IF r.verb = "release" THEN "turn" ELSE "act"]
      <3>1. Advance(r, s) /\ UNCHANGED <<aimdVars, cellVars, history>>
        BY <1>2, <2>3 DEF Couple
      <3>2. s \in RequestType /\ s.id = r.id /\ s.by = r.by BY <1>0 DEF RequestType
      <3>3. ClientTypes' BY <1>0, <3>1, <3>2, AdvanceTyped
      <3> QED BY <1>1, <2>1, <3>1, <3>3 DEF Typed
    <2> QED BY <2>2, <2>3
  <1>3. CASE HandleAdmit(r)
    <2>1. QueueStep BY <1>0, <1>3 DEF HandleAdmit, QueueStep, Q!Next
    <2>2. Answer(r, r.id \in granted') /\ UNCHANGED <<aimdVars, history>>
      BY <1>3 DEF HandleAdmit
    <2> QED BY <1>0, <1>1, <2>1, <2>2, AnswerTyped DEF Typed
  <1>4. CASE HandlePoll(r)
    <2>1. QueueStep BY <1>0, <1>4 DEF HandlePoll, QueueStep, Q!Next
    <2>2. Answer(r, r.id \in granted') /\ UNCHANGED <<aimdVars, history>>
      BY <1>4 DEF HandlePoll
    <2> QED BY <1>0, <1>1, <2>1, <2>2, AnswerTyped DEF Typed
  <1>5. CASE CountWaiting(r)
    <2> DEFINE s == [r EXCEPT !.pc = "act", !.demand = waiting # {}]
    <2>1. /\ Advance(r, s) /\ UNCHANGED <<queueVars, aimdVars, cellVars, history>>
      BY <1>5 DEF CountWaiting
    <2>2. s \in RequestType /\ s.id = r.id /\ s.by = r.by BY <1>0 DEF RequestType
    <2>3. ClientTypes' BY <1>0, <2>1, <2>2, AdvanceTyped
    <2> QED BY <1>1, <2>1, <2>3 DEF Typed, QueueStep, SameQueue
  <1>6. CASE HandleRelease(r)
    <2> DEFINE s == [r EXCEPT !.pc = "couple"]
    <2>1. Advance(r, s) /\ UNCHANGED <<aimdVars, cellVars, history>>
      BY <1>6 DEF HandleRelease
    <2>2. s \in RequestType /\ s.id = r.id /\ s.by = r.by BY <1>0 DEF RequestType
    <2>3. ClientTypes' BY <1>0, <2>1, <2>2, AdvanceTyped
    <2>4. QueueStep BY <1>0, <1>6 DEF HandleRelease, QueueStep, Q!Next
    <2> QED BY <1>1, <2>1, <2>3, <2>4 DEF Typed
  <1>7. CASE Shrink(r) \/ Grow(r)
    <2>1. QueueStep /\ HistoryTypes'
      BY <1>0, <1>7 DEF Shrink, Grow, history, HistoryTypes, QueueStep, SameQueue
    <2>2. Halved \in AimdMin..AimdMax /\ (cur < AimdMax => cur + 1 \in AimdMin..AimdMax)
      BY <1>0, HalvedTyped, PlaneAssumption, QueueAssumption DEF AimdTypes
    <2>3. /\ 0 \in 0..GrowEvery
          /\ (IF streak < GrowEvery THEN streak + 1 ELSE streak) \in 0..GrowEvery
      BY <1>0, PlaneAssumption DEF AimdTypes
    <2>4. AimdTypes' BY <1>0, <1>7, <2>2, <2>3 DEF Shrink, Grow, Decide, AimdTypes
    <2>5. ClientTypes'
      <3>1. CASE Answer(r, FALSE) BY <1>0, <3>1, AnswerTyped
      <3>2. ASSUME NEW n, Decide(r, n) PROVE ClientTypes'
        <4>1. [r EXCEPT !.pc = "set"] \in RequestType BY <1>0 DEF RequestType
        <4> QED BY <1>0, <3>2, <4>1, AdvanceTyped DEF Decide, RequestType
      <3> QED BY <1>7, <3>1, <3>2 DEF Shrink, Grow
    <2> QED BY <2>1, <2>4, <2>5 DEF Typed
  <1>8. CASE SetBudget(r)
    <2>1. cur \in 1..MaxSlots
      BY <1>0, PlaneAssumption, QueueAssumption DEF AimdTypes
    <2>2. QueueStep BY <1>8, <2>1 DEF SetBudget, QueueStep, Q!Next
    <2>3. ClientTypes' BY <1>0, <1>8, AnswerTyped DEF SetBudget
    <2> QED BY <1>1, <1>8, <2>2, <2>3 DEF SetBudget, Typed
  <1>9. CASE Ignore(r)
    <2>1. ClientTypes' BY <1>0, <1>9, AnswerTyped DEF Ignore
    <2> QED BY <1>1, <1>9, <2>1 DEF Ignore, Typed, QueueStep, SameQueue
  <1>10. CASE Cut(r)
    <2>1. CASE Answer(r, FALSE) /\ UNCHANGED <<queueVars, aimdVars, lost, swept>>
      <3>1. ClientTypes' BY <1>0, <2>1, AnswerTyped
      <3> QED BY <1>1, <1>10, <2>1, <3>1 DEF Cut, Typed, QueueStep, SameQueue, history
    <2>2. CASE NoAnswer(r, reqs \ {r})
      <3>1. ClientTypes'
        BY <1>0, <2>2, NoAnswerTyped DEF ClientTypes, FromTurns
      <3>2. UNCHANGED <<queueVars, aimdVars, lost, swept>>
        BY <2>2 DEF NoAnswer, NoAnswerToCall, NoAnswerToTurn
      <3> QED BY <1>1, <1>10, <3>1, <3>2 DEF Cut, Typed, QueueStep, SameQueue, history
    <2> QED BY <1>10, <2>1, <2>2 DEF Cut
  <1> QED BY <1>2, <1>3, <1>4, <1>5, <1>6, <1>7, <1>8, <1>9, <1>10 DEF Handle

LEMMA LlmdSound == ASSUME Typed, Q!TypeOK, Llmd PROVE Typed' /\ QueueStep
  <1>1. CASE CooldownOver
    BY <1>1 DEF CooldownOver, Typed, ClientTypes, AimdTypes, HistoryTypes, QueueStep,
                SameQueue, cellVars, history, FromTurns
  <1>2. CASE Sweep
    <2>1. Q!Expired \subseteq Tickets BY DEF Q!Expired, Q!Live, Q!TypeOK
    <2>2. QueueStep BY <1>2 DEF Sweep, QueueStep, Q!Next
    <2> QED BY <1>2, <2>1, <2>2 DEF Sweep, Typed, ClientTypes, AimdTypes, HistoryTypes,
                cellVars, aimdVars, FromTurns
  <1> QED BY <1>1, <1>2, HandleSound DEF Llmd

LEMMA WorldSound == ASSUME Typed, World PROVE Typed' /\ QueueStep
  <1>0. ClientTypes /\ AimdTypes /\ HistoryTypes BY DEF Typed
  <1>1. CASE \E t \in Turns : LoseBroker(t) BY <1>1, ShimSound DEF QueueStep
  <1>2. failures < MaxFailures => failures + 1 \in 0..MaxFailures
    BY <1>0, PlaneAssumption DEF HistoryTypes
  <1>3. ASSUME NEW r \in reqs, GiveUp(r) PROVE Typed' /\ QueueStep
    <2> DEFINE rest == (reqs \ {r}) \cup {[r EXCEPT !.client = FALSE]}
    <2>1. NoAnswer(r, rest) BY <1>3 DEF GiveUp
    <2>2. /\ rest \subseteq RequestType
          /\ \A q \in rest : q.by = "shim" => q.id \in Turns
      BY <1>0 DEF ClientTypes, FromTurns, RequestType
    <2>3. ClientTypes' BY <1>0, <2>1, <2>2, NoAnswerTyped
    <2>4. UNCHANGED <<queueVars, aimdVars, lost, swept>>
      BY <2>1 DEF NoAnswer, NoAnswerToCall, NoAnswerToTurn
    <2> QED BY <1>0, <1>2, <1>3, <2>3, <2>4
            DEF GiveUp, Typed, AimdTypes, HistoryTypes, aimdVars, QueueStep, SameQueue
  <1>4. ASSUME NEW r \in reqs, TurnedAway(r) PROVE Typed' /\ QueueStep
    <2>1. NoAnswer(r, reqs \ {r}) BY <1>4 DEF TurnedAway
    <2>2. ClientTypes' BY <1>0, <2>1, NoAnswerTyped DEF ClientTypes, FromTurns
    <2>3. UNCHANGED <<queueVars, aimdVars, lost, swept>>
      BY <2>1 DEF NoAnswer, NoAnswerToCall, NoAnswerToTurn
    <2> QED BY <1>0, <1>2, <1>4, <2>2, <2>3
            DEF TurnedAway, Typed, AimdTypes, HistoryTypes, aimdVars, QueueStep, SameQueue
  <1>5. CASE TimePasses
    <2>1. QueueStep BY <1>5 DEF TimePasses, QueueStep, Q!Next
    <2> QED BY <1>0, <1>5, <2>1 DEF TimePasses, Typed, ClientTypes, AimdTypes,
               HistoryTypes, aimdVars, history, FromTurns
  <1>6. CASE LlmdRestarts
    <2>1. QueueStep BY <1>6 DEF LlmdRestarts, QueueStep, Q!Next
    <2>2. StartCur \in AimdMin..AimdMax /\ 0 \in 0..GrowEvery
      BY PlaneAssumption, QueueAssumption DEF StartCur
    <2>3. AimdTypes' BY <1>6, <2>2 DEF LlmdRestarts, AimdTypes
    <2>4. reqs' \subseteq RequestType /\ FromTurns'
      BY <1>0, <1>6 DEF LlmdRestarts, ClientTypes, FromTurns, RequestType
    <2>5. ClientTypes' BY <1>0, <1>6, <2>4 DEF LlmdRestarts, ClientTypes, cellVars
    <2>6. HistoryTypes' BY <1>0, <1>2, <1>6 DEF LlmdRestarts, HistoryTypes
    <2> QED BY <2>1, <2>3, <2>5, <2>6 DEF Typed
  <1>7. ASSUME NEW p \in Principals, CellEnds(p) PROVE Typed' /\ QueueStep
    <2>1. QueueStep BY <1>7 DEF CellEnds, QueueStep, SameQueue
    <2>5. \A q \in reqs' : q \in reqs \/ \E r \in reqs : q = [r EXCEPT !.client = FALSE]
      BY <1>7 DEF CellEnds
    <2>6. ASSUME NEW r \in reqs
          PROVE  /\ [r EXCEPT !.client = FALSE] \in RequestType
                 /\ [r EXCEPT !.client = FALSE].by = r.by
                 /\ [r EXCEPT !.client = FALSE].id = r.id
      BY <1>0 DEF ClientTypes, RequestType
    <2>2. reqs' \subseteq RequestType BY <1>0, <2>5, <2>6 DEF ClientTypes
    <2>7. FromTurns'
      <3> SUFFICES ASSUME NEW q \in reqs', q.by = "shim" PROVE q.id \in Turns
        BY DEF FromTurns
      <3>1. CASE q \in reqs BY <1>0, <3>1 DEF ClientTypes, FromTurns
      <3>2. CASE \E r \in reqs : q = [r EXCEPT !.client = FALSE]
        <4>1. PICK r \in reqs : q = [r EXCEPT !.client = FALSE] BY <3>2
        <4>2. r.by = "shim" /\ q.id = r.id BY <2>6, <4>1
        <4> QED BY <1>0, <4>2 DEF ClientTypes, FromTurns
      <3> QED BY <2>5, <3>1, <3>2
    <2>3. ClientTypes' BY <1>0, <1>7, <2>2, <2>7 DEF CellEnds, ClientTypes
    <2>4. AimdTypes' /\ HistoryTypes'
      BY <1>0, <1>2, <1>7 DEF CellEnds, AimdTypes, HistoryTypes, aimdVars
    <2> QED BY <2>1, <2>3, <2>4 DEF Typed
  <1> QED BY <1>1, <1>3, <1>4, <1>5, <1>6, <1>7 DEF World

LEMMA NextSound ==
  ASSUME Sound, [Next]_vars PROVE Sound' /\ [Q!Next]_(Q!vars)
  <1>1. Q!TypeOK /\ PlaneType /\ FromTurns /\ P!IInv BY TypeParts DEF Sound
  <1>2. Typed BY <1>1, PlaneParts DEF Typed
  <1>3. Typed' /\ QueueStep
    <2>1. CASE Broker BY <1>2, <2>1, BrokerSound DEF QueueStep
    <2>2. CASE Shim BY <1>2, <2>2, ShimSound DEF QueueStep
    <2>3. CASE Llmd BY <1>1, <1>2, <2>3, LlmdSound
    <2>4. CASE World BY <1>2, <2>4, WorldSound
    <2>5. CASE UNCHANGED vars
      BY <1>2, <2>5 DEF vars, Typed, ClientTypes, AimdTypes, HistoryTypes, aimdVars,
            cellVars, history, QueueStep, SameQueue, FromTurns
    <2> QED BY <2>1, <2>2, <2>3, <2>4, <2>5 DEF Next
  <1>4. [Q!Next]_(Q!vars) BY <1>3, QueueStays DEF QueueStep
  <1>5. P!IInv' BY <1>1, <1>4, SameNext, P!NextKeeps, FiniteTickets, QueueAssumption
  <1>6. Q!TypeOK'
    <2>1. P!TypeOK' BY <1>5 DEF P!IInv
    <2> QED BY <2>1 DEF Q!TypeOK, P!TypeOK, Q!TagType, P!TagType
  <1>7. PlaneType' /\ FromTurns'
    BY <1>3 DEF Typed, PlaneType, ClientTypes, AimdTypes, HistoryTypes
  <1>8. TypeOK' BY <1>6, <1>7 DEF TypeOK, PlaneType
  <1> QED BY <1>4, <1>5, <1>7, <1>8 DEF Sound

THEOREM Soundness == Spec => []Sound
  <1>1. Init => Sound BY InitSound
  <1>2. Sound /\ [Next]_vars => Sound' BY NextSound
  <1> QED BY <1>1, <1>2, PTL DEF Spec

(* Requests, the states of clients and pre-grants, AIMD's budget and the queue  *)
(* keep their types: _Aimd.on_turn stays between AIMD_MIN and AIMD_MAX.       *)
THEOREM TypeCorrect == Spec => []TypeOK
  <1>1. Sound => TypeOK BY DEF Sound
  <1> QED BY <1>1, Soundness, PTL

(* Every step of the plane is one method of AdmissionQueue or none: pn-llmd,    *)
(* its threads, its clients and their failures reach the queue through its     *)
(* methods only, with arguments within their ranges.                         *)
THEOREM ImplementsQueue == Spec => KeepsQueue
  <1>1. Init => Q!Init BY DEF Init
  <1>2. Sound /\ [Next]_vars => [Q!Next]_(Q!vars) BY NextSound
  <1> QED BY <1>1, <1>2, Soundness, PTL DEF Spec, KeepsQueue, Q!Spec

(* So what is proved of the queue holds of the plane: no slot is idle while     *)
(* somebody is held, and no grant exceeds the budget AIMD has set.           *)
THEOREM QueueKeepsItsWord == Spec => []Q!WorkConserving /\ Q!GrantsFit
  <1>0. \A S : Q!Cardinality(S) = P!Cardinality(S) BY DEF Q!Cardinality, P!Cardinality
  <1>1. Sound => Q!WorkConserving
    BY <1>0 DEF Sound, P!IInv, P!WorkConserving, Q!WorkConserving
  <1>2. Sound /\ [Next]_vars =>
          [granted' \subseteq granted
             \/ Q!Cardinality(granted') + external' <= slots']_(Q!vars)
    <2> SUFFICES ASSUME Sound, [Next]_vars
                 PROVE [granted' \subseteq granted
                          \/ Q!Cardinality(granted') + external' <= slots']_(Q!vars)
      OBVIOUS
    <2>1. P!Orderly
      BY NextSound, SameNext, P!NextKeeps, FiniteTickets, QueueAssumption DEF Sound
    <2> QED BY <1>0, <2>1 DEF P!Orderly
  <1> QED BY <1>1, <1>2, Soundness, PTL DEF Spec, Q!GrantsFit

-----------------------------------------------------------------------------
(* AIMD and the queue. *)

LEMMA NoAnswerStays ==
  ASSUME NEW r, NEW rest, NoAnswer(r, rest)
  PROVE  UNCHANGED <<queueVars, aimdVars, lost, swept>>
  BY DEF NoAnswer, NoAnswerToCall, NoAnswerToTurn

(* A request that holds the lock of _Aimd holds it until it has told the queue, *)
(* whether its client waits or not.                                          *)
LockStays == Unlocked' => Unlocked

LEMMA LockOfRequests ==
  ASSUME ClientTypes, NEW r \in reqs
  PROVE  /\ r.pc # "set" /\ reqs \ {r} \subseteq reqs' => LockStays
         /\ reqs \subseteq reqs' => LockStays
         /\ (reqs \ {r}) \cup {[r EXCEPT !.client = FALSE]} \subseteq reqs' => LockStays
  <1>1. [r EXCEPT !.client = FALSE].pc = r.pc BY DEF ClientTypes, RequestType
  <1> QED BY <1>1 DEF LockStays, Unlocked

LEMMA NoAnswerLeaves ==
  ASSUME NEW r, NEW rest, NoAnswer(r, rest) PROVE rest \subseteq reqs'
  BY DEF NoAnswer, NoAnswerToCall, NoAnswerToTurn

LEMMA CellEndsLocked ==
  ASSUME ClientTypes, NEW p \in Principals, CellEnds(p) PROVE LockStays
  <1>1. SUFFICES ASSUME NEW q \in reqs, q.pc = "set" PROVE ~Unlocked'
    BY DEF LockStays, Unlocked
  <1>2. [q EXCEPT !.client = FALSE].pc = "set" BY <1>1 DEF ClientTypes, RequestType
  <1>3. q \in reqs' \/ [q EXCEPT !.client = FALSE] \in reqs'
    BY DEF CellEnds, ClientTypes, RequestType
  <1> QED BY <1>1, <1>2, <1>3 DEF Unlocked

LEMMA BudgetStep == ASSUME ClientTypes, BudgetIsSlots, [Next]_vars PROVE BudgetIsSlots'
  <1> USE DEF queueVars, aimdVars
  <1> DEFINE Same == UNCHANGED <<slots, cur>>
  <1>0. Same /\ LockStays => BudgetIsSlots' BY DEF BudgetIsSlots, LockStays, StartCur
  <1>1. CASE Broker
    <2>1. reqs \subseteq reqs' /\ Same
      BY <1>1 DEF Broker, Arrive, PollCall, Cap, UpstreamEnds, Finally, Renew, Adopt, Send
    <2> QED BY <1>0, <2>1 DEF LockStays, Unlocked
  <1>2. CASE Shim \/ \E t \in Turns : LoseBroker(t)
    <2>1. reqs \subseteq reqs' /\ Same
      BY <1>2 DEF Shim, Acquire, PollTurn, Done, PregrantExpires, LoseBroker, Send
    <2> QED BY <1>0, <2>1 DEF LockStays, Unlocked
  <1>3. CASE Llmd
    <2>1. ASSUME NEW r \in reqs, Handle(r) PROVE BudgetIsSlots'
      <3>1. CASE Couple(r)
        <4>1. Same /\ reqs \ {r} \subseteq reqs' /\ r.pc # "set"
          BY <3>1 DEF Couple, Q!SetExternalUsed, Answer, Advance
        <4> QED BY <1>0, <2>1, <4>1, LockOfRequests
      <3>2. CASE HandleAdmit(r) \/ HandlePoll(r)
        <4>1. Same /\ reqs \ {r} \subseteq reqs' /\ r.pc # "set"
          BY <3>2 DEF HandleAdmit, HandlePoll, Q!Admit, Q!AdmitAgain, Q!Poll, Answer
        <4> QED BY <1>0, <2>1, <4>1, LockOfRequests
      <3>4. CASE CountWaiting(r) \/ HandleRelease(r) \/ Ignore(r)
        <4>1. Same /\ reqs \ {r} \subseteq reqs' /\ r.pc # "set"
          BY <3>4 DEF CountWaiting, HandleRelease, Ignore, Q!Release, Answer, Advance
        <4> QED BY <1>0, <2>1, <4>1, LockOfRequests
      <3>6. CASE Shrink(r) \/ Grow(r)
        <4>1. Unlocked /\ slots' = slots /\ r.pc # "set" BY <3>6 DEF Shrink, Grow
        <4>2. CASE cur' = cur BY <1>0, <4>1, <4>2 DEF LockStays
        <4>3. ASSUME NEW n, Decide(r, n) PROVE BudgetIsSlots'
          <5>1. [r EXCEPT !.pc = "set"] \in reqs' BY <4>3 DEF Decide, Advance
          <5>2. [r EXCEPT !.pc = "set"].pc = "set"
            BY <2>1 DEF ClientTypes, RequestType
          <5> QED BY <5>1, <5>2 DEF BudgetIsSlots, Unlocked
        <4> QED BY <3>6, <4>2, <4>3 DEF Shrink, Grow
      <3>7. CASE SetBudget(r) BY <3>7 DEF SetBudget, Q!SetSlots, BudgetIsSlots
      <3>8. CASE Cut(r)
        <4>1. Same /\ reqs \ {r} \subseteq reqs' /\ r.pc # "set"
          BY <3>8, NoAnswerStays, NoAnswerLeaves DEF Cut, Answer
        <4> QED BY <1>0, <2>1, <4>1, LockOfRequests
      <3> QED BY <2>1, <3>1, <3>2, <3>4, <3>6, <3>7, <3>8 DEF Handle
    <2>2. CASE CooldownOver \/ Sweep
      BY <1>0, <2>2 DEF CooldownOver, Sweep, Q!Sweep, LockStays, Unlocked
    <2> QED BY <1>3, <2>1, <2>2 DEF Llmd
  <1>4. CASE World
    <2>1. ASSUME NEW r \in reqs, GiveUp(r) PROVE BudgetIsSlots'
      <3>1. /\ Same
            /\ (reqs \ {r}) \cup {[r EXCEPT !.client = FALSE]} \subseteq reqs'
        BY <2>1, NoAnswerStays, NoAnswerLeaves DEF GiveUp
      <3> QED BY <1>0, <2>1, <3>1, LockOfRequests
    <2>2. ASSUME NEW r \in reqs, TurnedAway(r) PROVE BudgetIsSlots'
      <3>1. Same /\ reqs \ {r} \subseteq reqs'
        BY <2>2, NoAnswerStays, NoAnswerLeaves DEF TurnedAway
      <3>2. r.pc # "set"
        BY <2>2 DEF TurnedAway, Request
      <3> QED BY <1>0, <2>2, <3>1, <3>2, LockOfRequests
    <2>3. CASE TimePasses
      BY <1>0, <2>3 DEF TimePasses, Q!TimePasses, LockStays, Unlocked
    <2>4. CASE LlmdRestarts
      <3>1. slots' = StartSlots /\ cur' = StartCur BY <2>4 DEF LlmdRestarts, Q!Restart
      <3> QED BY <3>1 DEF BudgetIsSlots, StartCur
    <2>5. ASSUME NEW p \in Principals, CellEnds(p) PROVE BudgetIsSlots'
      <3>1. Same BY <2>5 DEF CellEnds
      <3> QED BY <1>0, <2>5, <3>1, CellEndsLocked
    <2> QED BY <1>2, <1>4, <2>1, <2>2, <2>3, <2>4, <2>5 DEF World
  <1>5. CASE UNCHANGED vars BY <1>0, <1>5 DEF vars, LockStays, Unlocked
  <1> QED BY <1>1, <1>2, <1>3, <1>4, <1>5 DEF Next

(* Whatever turns end well or badly at the same time and whenever pn-llmd is    *)
(* restarted: once an on_turn has told the queue, and no other has decided      *)
(* anything new, the queue works with the budget that _Aimd holds.            *)
THEOREM BudgetStays == Spec => []BudgetIsSlots
  <1>1. Init => BudgetIsSlots BY DEF Init, Q!Init, BudgetIsSlots
  <1>2. Sound => ClientTypes BY TypeParts, PlaneParts DEF Sound
  <1>3. ClientTypes /\ BudgetIsSlots /\ [Next]_vars => BudgetIsSlots' BY BudgetStep
  <1> QED BY <1>1, <1>2, <1>3, Soundness, PTL DEF Spec

-----------------------------------------------------------------------------
(* Tickets in use are kept. *)

(* The shim of turn t has nothing more to ask for. *)
Settled(t) == shim[t] \in {"running", "releasing", "over"}

Pregranted(t) == pregrant[Owner[t]].id = t

(* A client waits for one answer at a time. *)
OneRequest ==
  \A r, q \in reqs : r.client /\ q.client /\ r.id = q.id /\ r.by = q.by => r = q

(* What a request tells about the broker that sent it. *)
OfCall(r) ==
  /\ call[r.id] # "new"
  /\ r.client =>
       /\ r.verb = "admit" => call[r.id] = "asking"
       /\ r.verb = "poll" => call[r.id] \in {"polling", "adopting", "renewing"}
       /\ r.verb = "release" => call[r.id] = "releasing"
  /\ r.verb = "release" => call[r.id] \in {"releasing", "over"}
  /\ r.pc = "cut" /\ ~r.client => call[r.id] = "over"

(* What a request tells about the shim that sent it: until the turn is granted *)
(* no message of the cell can take the ticket, and once it is given back no    *)
(* message will.                                                            *)
OfShim(r) ==
  /\ r.id \in Turns /\ shim[r.id] # "new"
  /\ r.client \/ r.verb = "release" => call[r.id] = "new" /\ ~Pregranted(r.id)
  /\ r.client /\ r.verb = "admit" => shim[r.id] \in {"asking", "over"}
  /\ r.client /\ r.verb = "poll" => shim[r.id] \in {"polling", "over"}
  /\ r.verb = "release" =>
       /\ shim[r.id] \in {"releasing", "over"}
       /\ \A q \in reqs : q.client /\ q.by = "shim" /\ q.id = r.id => q.verb = "release"

Requests ==
  \A r \in reqs :
    /\ r.pc \in {"turn", "set"} => r.verb = "release"
    /\ r.pc = "cut" => r.id \in lost
    /\ r.by = "call" => OfCall(r)
    /\ r.by = "shim" => OfShim(r)

(* A turn's ticket is taken by a message when its shim has settled, and by one. *)
TurnsSettle ==
  \A t \in Turns :
    /\ call[t] \notin {"asking", "waiting", "polling"}
    /\ call[t] # "new" \/ Pregranted(t) => Settled(t)
    /\ Pregranted(t) => call[t] = "new"

Protocol == OneRequest /\ Requests /\ TurnsSettle

InLoop(t) == call[t] \in Loops \/ (t \in Turns /\ shim[t] \in Loops)

Entitled(t) ==
  call[t] \in Forwarding \cup {"adopting"} \/ (t \in Turns /\ Pregranted(t))

(* TicketKept with what it needs: a client in its loop polls in every unit of  *)
(* time, and a pre-grant is a ticket in use.                                 *)
Kept ==
  \A t \in Tickets \ lost :
    /\ InLoop(t) => t \in Q!Live /\ age[t] <= 1 /\ (t \in polled => age[t] = 0)
    /\ t \notin swept /\ Entitled(t) => t \in granted

-----------------------------------------------------------------------------
(* The protocol between the clients and pn-llmd.                            *)

(* A client sends its only request. *)
LEMMA NewRequest ==
  ASSUME OneRequest, NEW t, NEW by, NEW verb, NEW out, Send(t, by, verb, out),
         \A r \in reqs : r.client /\ r.by = by => r.id # t
  PROVE  OneRequest'
  <1> DEFINE new == Request(t, by, verb, out)
  <1>1. reqs' = reqs \cup {new} BY DEF Send
  <1>2. new.id = t /\ new.by = by BY DEF Request
  <1> HIDE DEF new
  <1> QED BY <1>1, <1>2 DEF OneRequest

LEMMA BrokerProtocol == ASSUME ClientTypes, Protocol, Broker PROVE Protocol'
  <1> USE DEF Protocol, ClientTypes
  <1>1. ASSUME NEW c \in Calls, Arrive(c) PROVE Protocol'
    <2>1. OneRequest' BY <1>1, NewRequest DEF Arrive, Requests, OfCall, RequestType
    <2>2. Requests' BY <1>1 DEF Arrive, Send, Request, Requests, OfCall, OfShim, Calls,
                    RequestType, Pregranted, history
    <2>3. TurnsSettle' BY <1>1 DEF Arrive, Calls, TurnsSettle, Settled, Pregranted
    <2> QED BY <2>1, <2>2, <2>3
  <1>2. ASSUME NEW c \in Calls, PollCall(c) PROVE Protocol'
    <2>1. OneRequest' BY <1>2, NewRequest DEF PollCall, Requests, OfCall, RequestType
    <2>2. Requests' BY <1>2 DEF PollCall, Send, Request, Requests, OfCall, OfShim, Calls,
                    RequestType, Pregranted, history
    <2>3. TurnsSettle' BY <1>2 DEF PollCall, Calls, TurnsSettle, Settled, Pregranted
    <2> QED BY <2>1, <2>2, <2>3
  <1>3. ASSUME NEW t \in Tickets, NEW out, Finally(t, out),
               call[t] \in {"waiting", "forwarding"}
        PROVE  Protocol'
    <2>1. OneRequest' BY <1>3, NewRequest DEF Finally, Requests, OfCall, RequestType
    <2>2. Requests' BY <1>3 DEF Finally, Send, Request, Requests, OfCall, OfShim,
                    RequestType, Pregranted, history
    <2>3. TurnsSettle' BY <1>3 DEF Finally, TurnsSettle, Settled, Pregranted
    <2> QED BY <2>1, <2>2, <2>3
  <1>4. ASSUME NEW t \in Tickets, Renew(t) PROVE Protocol'
    <2>1. OneRequest' BY <1>4, NewRequest DEF Renew, Requests, OfCall, RequestType
    <2>2. Requests' BY <1>4 DEF Renew, Send, Request, Requests, OfCall, OfShim,
                    RequestType, Pregranted, history
    <2>3. TurnsSettle' BY <1>4 DEF Renew, TurnsSettle, Settled, Pregranted
    <2> QED BY <2>1, <2>2, <2>3
  <1>5. ASSUME NEW t \in Turns, Adopt(t) PROVE Protocol'
    <2>5. \A u \in Turns : u \in Tickets /\ u # "nobody" /\ Owner[u] \in Principals
      BY PlaneAssumption, QueueAssumption
    <2>6. Pregranted(t) BY <1>5 DEF Adopt, Pregranted
    <2>0. t \in Tickets /\ Owner[t] \in Principals /\ Pregranted(t) BY <2>5, <2>6
    <2>1. OneRequest' BY <1>5, NewRequest DEF Adopt, Requests, OfCall, RequestType
    <2>4. \A u \in Turns : Pregranted(u)' => Pregranted(u) /\ u # t
      BY <1>5, <2>0, <2>5 DEF Adopt, Pregranted, Nobody
    <2>2. Requests' BY <1>5, <2>0, <2>4, <2>5 DEF Adopt, Send, Request, Requests, OfCall, OfShim,
                    RequestType, history
    <2>3. TurnsSettle' BY <1>5, <2>0, <2>4, <2>5 DEF Adopt, TurnsSettle, Settled
    <2> QED BY <2>1, <2>2, <2>3
  <1> QED BY <1>1, <1>2, <1>3, <1>4, <1>5 DEF Broker, Cap, UpstreamEnds, Calls

LEMMA ShimProtocol ==
  ASSUME ClientTypes, Protocol, Shim \/ (\E t \in Turns : LoseBroker(t)) PROVE Protocol'
  <1> USE DEF Protocol, ClientTypes
  <1>0. \A u \in Turns : u \in Tickets /\ u # "nobody" /\ Owner[u] \in Principals
    BY PlaneAssumption, QueueAssumption
  <1>1. ASSUME NEW t \in Turns, Acquire(t) PROVE Protocol'
    <2>1. OneRequest' BY <1>1, NewRequest DEF Acquire, Requests, OfShim, RequestType
    <2>2. \A u \in Turns : Pregranted(u)' <=> Pregranted(u)
      BY <1>1 DEF Acquire, Pregranted
    <2>3. call[t] = "new" /\ ~Pregranted(t)
      BY <1>1 DEF Acquire, TurnsSettle, Settled
    <2>4. Requests' BY <1>0, <1>1, <2>2, <2>3 DEF Acquire, Send, Request, Requests, OfCall,
                    OfShim, RequestType, history
    <2>5. TurnsSettle' BY <1>0, <1>1, <2>2, <2>3 DEF Acquire, TurnsSettle, Settled
    <2> QED BY <2>1, <2>4, <2>5
  <1>2. ASSUME NEW t \in Turns, PollTurn(t) PROVE Protocol'
    <2>1. OneRequest' BY <1>2, NewRequest DEF PollTurn, Requests, OfShim, RequestType
    <2>2. \A u \in Turns : Pregranted(u)' <=> Pregranted(u)
      BY <1>2 DEF PollTurn, Pregranted
    <2>3. call[t] = "new" /\ ~Pregranted(t)
      BY <1>2 DEF PollTurn, TurnsSettle, Settled
    <2>4. Requests' BY <1>0, <1>2, <2>2, <2>3 DEF PollTurn, Send, Request, Requests, OfCall,
                    OfShim, RequestType, history
    <2>5. TurnsSettle' BY <1>0, <1>2, <2>2, <2>3 DEF PollTurn, TurnsSettle, Settled
    <2> QED BY <2>1, <2>4, <2>5
  <1>3. ASSUME NEW t \in Turns, NEW reaches \in BOOLEAN, Done(t, reaches),
               reaches /\ Pregranted(t)
        PROVE  Protocol'
    <2>1. /\ Send(t, "shim", "release", "none")
          /\ pregrant' = [pregrant EXCEPT ![Owner[t]] = Nobody]
          /\ shim' = [shim EXCEPT ![t] = "releasing"]
          /\ UNCHANGED <<call, lost>>
      BY <1>3 DEF Done, Pregranted, history
    <2>2. \A u \in Turns : Pregranted(u)' => Pregranted(u) /\ u # t
      BY <1>0, <2>1 DEF Pregranted, Nobody
    <2>3. call[t] = "new" /\ shim[t] = "running" /\ Pregranted(t)
      BY <1>3 DEF Done, TurnsSettle
    <2>4. OneRequest' BY <2>1, <2>3, NewRequest DEF Requests, OfShim, RequestType
    <2>5. \A r \in reqs : r.client /\ r.by = "shim" => r.id # t
      BY <2>3 DEF Requests, OfShim, RequestType
    <2>6. Requests' BY <1>0, <2>1, <2>2, <2>3, <2>5
                    DEF Send, Request, Requests, OfCall, OfShim, RequestType
    <2>7. TurnsSettle' BY <1>0, <2>1, <2>2, <2>3 DEF TurnsSettle, Settled
    <2> QED BY <2>4, <2>6, <2>7
  <1>4. ASSUME NEW t \in Turns, NEW reaches \in BOOLEAN, Done(t, reaches),
               ~(reaches /\ Pregranted(t))
        PROVE  Protocol'
    <2>1. UNCHANGED <<reqs, pregrant, call, lost>> /\ shim' = [shim EXCEPT ![t] = "over"]
      BY <1>4 DEF Done, Pregranted, history
    <2> QED BY <1>0, <2>1
            DEF OneRequest, Requests, OfCall, OfShim, TurnsSettle, Settled, Pregranted
  <1>5. ASSUME NEW p \in Principals, PregrantExpires(p) PROVE Protocol'
    <2>1. UNCHANGED <<reqs, shim, call, lost>> BY <1>5 DEF PregrantExpires, history
    <2>2. \A u \in Turns : Pregranted(u)' <=> Pregranted(u)
      BY <1>0, <1>5 DEF PregrantExpires, Pregranted, Adoptable, Nobody
    <2> QED BY <1>0, <2>1, <2>2
            DEF OneRequest, Requests, OfCall, OfShim, TurnsSettle, Settled
  <1>6. ASSUME NEW t \in Turns, LoseBroker(t) PROVE Protocol'
    BY <1>0, <1>6 DEF LoseBroker, history, Rpc, RequestType,
       OneRequest, Requests, OfCall, OfShim, TurnsSettle, Settled, Pregranted
  <1> QED BY <1>1, <1>2, <1>3, <1>4, <1>5, <1>6 DEF Shim

(* A request goes on in pn-llmd, and its client waits. *)
LEMMA AdvanceProtocol ==
  ASSUME ClientTypes, Protocol, NEW r \in reqs, NEW s,
         s.id = r.id, s.by = r.by, s.verb = r.verb, s.client = r.client,
         s.pc \in {"turn", "set"} => r.verb = "release", s.pc # "cut",
         Advance(r, s), UNCHANGED <<cellVars, lost>>
  PROVE  Protocol'
  <1>1. reqs' = (reqs \ {r}) \cup {s} /\ UNCHANGED <<call, shim, pregrant, lost>>
    BY DEF Advance, cellVars
  <1>2. OneRequest' BY <1>1 DEF Protocol, OneRequest
  <1>3. Requests' BY <1>1 DEF Protocol, Requests, OfCall, OfShim, Pregranted
  <1>4. TurnsSettle' BY <1>1 DEF Protocol, TurnsSettle, Settled, Pregranted
  <1> QED BY <1>2, <1>3, <1>4 DEF Protocol

(* An answer is read by the one client that waits for it. *)
LEMMA AnswerProtocol ==
  ASSUME ClientTypes, Protocol, NEW r \in reqs, NEW g, Answer(r, g), lost' = lost
  PROVE  Protocol'
  <1> USE DEF Protocol, ClientTypes
  <1>0. /\ \A u \in Turns : u \in Tickets /\ u # "nobody" /\ Owner[u] \in Principals
        /\ r \in RequestType
    BY PlaneAssumption, QueueAssumption
  <1>1. reqs' = reqs \ {r} BY DEF Answer
  <1>2. OneRequest' BY <1>1 DEF OneRequest
  <1>3. CASE ~r.client
    BY <1>0, <1>1, <1>2, <1>3 DEF Answer, Requests, OfCall, OfShim, TurnsSettle, Settled,
       Pregranted
  <1>4. CASE r.client /\ r.by = "call"
    <2>1. UNCHANGED <<shim, pregrant>> BY <1>4 DEF Answer
    <2>2. \A q \in reqs' : q.client /\ q.by = "call" => q.id # r.id
      BY <1>1, <1>4 DEF OneRequest
    <2>3. \A t \in Tickets : t # r.id => call'[t] = call[t] BY <1>4 DEF Answer
    <2>4. OfCall(r) BY <1>4 DEF Requests
    <2>5. /\ r.verb = "release" => call'[r.id] = "over"
          /\ r.verb # "release" => call'[r.id] \in {"forwarding", "waiting"}
          /\ call[r.id] \in {"adopting", "renewing"} => call'[r.id] = "forwarding"
      BY <1>0, <1>4, <2>4 DEF Answer, RequestType, OfCall
    <2>6. \A t \in Turns : Pregranted(t)' <=> Pregranted(t) BY <2>1 DEF Pregranted
    <2>7. \A q \in reqs : q.by = "call" /\ q.id = r.id /\ q.verb = "release" =>
            r.verb = "release"
      BY <1>0, <1>4, <2>4 DEF Requests, OfCall, RequestType
    <2>8. Requests'
      BY <1>0, <1>1, <1>4, <2>1, <2>2, <2>3, <2>4, <2>5, <2>6, <2>7
         DEF Requests, OfCall, OfShim, RequestType
    <2>9. TurnsSettle'
      BY <1>0, <1>4, <2>1, <2>3, <2>4, <2>5, <2>6
         DEF TurnsSettle, Settled, OfCall, RequestType
    <2> QED BY <1>2, <2>8, <2>9
  <1>5. CASE r.client /\ r.by = "shim"
    <2>1. call' = call /\ OfShim(r) BY <1>5 DEF Answer, Requests
    <2>2. \A q \in reqs' : q.client /\ q.by = "shim" => q.id # r.id
      BY <1>1, <1>5 DEF OneRequest
    <2>3. \A t \in Turns : t # r.id => shim'[t] = shim[t] BY <1>5 DEF Answer
    <2>4. \A t \in Turns : t # r.id /\ Pregranted(t)' => Pregranted(t)
      BY <1>0, <1>5, <2>1 DEF Answer, Pregranted, OfShim
    <2>5. Pregranted(r.id)' => r.verb # "release" /\ g
      BY <1>0, <1>5, <2>1 DEF Answer, Pregranted, OfShim
    <2>6. /\ r.verb = "release" => shim'[r.id] = "over"
          /\ r.verb # "release" /\ g => shim'[r.id] \in {"running", "over"}
          /\ shim'[r.id] # "new"
      BY <1>0, <1>5, <2>1 DEF Answer, OfShim, Rpc, RequestType
    <2>7. r.verb # "release" =>
            \A q \in reqs : q.by = "shim" /\ q.id = r.id => q.verb # "release"
      BY <1>0, <1>5 DEF Requests, OfShim
    <2>8. Requests'
      BY <1>0, <1>1, <1>5, <2>1, <2>2, <2>3, <2>4, <2>5, <2>6, <2>7
         DEF Requests, OfCall, OfShim, RequestType
    <2>9. TurnsSettle'
      BY <1>0, <1>5, <2>1, <2>3, <2>4, <2>5, <2>6 DEF TurnsSettle, Settled, OfShim
    <2> QED BY <1>2, <2>8, <2>9
  <1> QED BY <1>0, <1>3, <1>4, <1>5 DEF RequestType

(* No answer: the request may stay behind, without its client. *)
LEMMA NoAnswerProtocol ==
  ASSUME ClientTypes, Protocol, NEW r \in reqs, NEW rest, r.client \/ r.pc = "cut",
         \/ rest = reqs \ {r}
         \/ r.pc # "cut" /\ rest = (reqs \ {r}) \cup {[r EXCEPT !.client = FALSE]},
         NoAnswer(r, rest)
  PROVE  Protocol'
  <1> USE DEF Protocol, ClientTypes
  <1>0. /\ \A u \in Turns : u \in Tickets /\ u # "nobody" /\ Owner[u] \in Principals
        /\ r \in RequestType
    BY PlaneAssumption, QueueAssumption
  <1>1. PICK old : /\ old.id = r.id /\ old.by = r.by /\ old.verb = r.verb /\ old.pc = r.pc
                   /\ ~old.client
                   /\ rest \subseteq (reqs \ {r}) \cup {old}
                   /\ r.pc = "cut" => rest \subseteq reqs \ {r}
    <2> DEFINE o == [r EXCEPT !.client = FALSE]
    <2>1. o.id = r.id /\ o.by = r.by /\ o.verb = r.verb /\ o.pc = r.pc /\ ~o.client
      BY <1>0 DEF RequestType
    <2> QED BY <2>1
  <1>2. UNCHANGED lost BY NoAnswerStays
  <1>3. CASE r.by = "shim"
    <2>1. /\ reqs' = rest /\ UNCHANGED <<call, pregrant>>
          /\ shim' = IF shim[r.id] \in Rpc THEN [shim EXCEPT ![r.id] = "over"] ELSE shim
      BY <1>3 DEF NoAnswer, NoAnswerToTurn
    <2>2. OneRequest' BY <1>1, <2>1 DEF OneRequest
    <2>3. OfShim(r) BY <1>3 DEF Requests
    <2>4. \A t \in Turns : /\ Pregranted(t)' <=> Pregranted(t)
                           /\ shim'[t] = shim[t] \/ shim'[t] = "over"
      BY <2>1, <2>3 DEF Pregranted, OfShim
    <2>5. r.client => shim'[r.id] \in {"over", "running"} \/ r.verb # "release"
      BY <1>0, <2>1, <2>3 DEF OfShim, Rpc
    <2>6. Requests'
      BY <1>0, <1>1, <1>2, <1>3, <2>1, <2>3, <2>4 DEF Requests, OfCall, OfShim, RequestType
    <2>7. TurnsSettle' BY <1>0, <2>1, <2>4 DEF TurnsSettle, Settled
    <2> QED BY <2>2, <2>6, <2>7
  <1>4. CASE r.by = "call"
    <2>1. /\ UNCHANGED <<shim, pregrant>>
          /\ \/ /\ call[r.id] \in {"asking", "polling", "adopting"}
                /\ call' = [call EXCEPT ![r.id] = "releasing"]
                /\ reqs' = rest \cup {Request(r.id, "call", "release", "bad")}
             \/ /\ call[r.id] = "renewing" /\ reqs' = rest
                /\ call' = [call EXCEPT ![r.id] = "forwarding"]
             \/ /\ call[r.id] \notin {"asking", "polling", "adopting", "renewing"}
                /\ reqs' = rest /\ call' = [call EXCEPT ![r.id] = "over"]
      BY <1>4 DEF NoAnswer, NoAnswerToCall
    <2>2. OfCall(r) BY <1>4 DEF Requests
    <2>3. \A q \in reqs : q.client /\ q.by = "call" /\ q.id = r.id => q = r
      <3>1. CASE r.client BY <1>4, <3>1 DEF OneRequest
      <3>2. CASE ~r.client
        <4>1. call[r.id] = "over" BY <2>2, <3>2 DEF OfCall
        <4> QED BY <1>0, <4>1 DEF Requests, OfCall, RequestType
      <3> QED BY <3>1, <3>2
    <2>4. \A t \in Turns : Pregranted(t)' <=> Pregranted(t) BY <2>1 DEF Pregranted
    <2>5. \A t \in Tickets : t # r.id => call'[t] = call[t] BY <2>1
    <2>6. /\ call'[r.id] # "new" /\ call[r.id] # "new"
          /\ call'[r.id] \notin {"asking", "waiting", "polling"}
          /\ call[r.id] = "over" => call'[r.id] = "over"
          /\ call[r.id] = "releasing" => call'[r.id] = "over"
      BY <1>0, <2>1, <2>2 DEF OfCall, RequestType
    <2>7. CASE /\ call[r.id] \in {"asking", "polling", "adopting"}
               /\ call'[r.id] = "releasing"
               /\ reqs' = rest \cup {Request(r.id, "call", "release", "bad")}
      <3> DEFINE new == Request(r.id, "call", "release", "bad")
      <3>1. /\ new.id = r.id /\ new.by = "call" /\ new.verb = "release" /\ new.client
            /\ new.pc = "count" /\ reqs' = rest \cup {new}
        BY <2>7 DEF Request
      <3> HIDE DEF new
      <3>2. OneRequest' BY <1>1, <1>4, <2>3, <3>1 DEF OneRequest
      <3>3. \A q \in reqs : q.by = "call" /\ q.id = r.id => q.verb # "release"
        BY <2>7 DEF Requests, OfCall
      <3>4. r.pc # "cut" \/ r.client BY <2>2, <2>7 DEF OfCall
      <3>5. ASSUME NEW q \in reqs, q.by = "call", q.id = r.id PROVE q.pc # "cut" \/ q.client
        BY <2>7, <3>5 DEF Requests, OfCall
      <3>6. Requests'
        BY <1>0, <1>1, <1>2, <1>4, <2>1, <2>3, <2>4, <2>5, <2>7, <3>1, <3>3, <3>5
           DEF Requests, OfCall, OfShim, RequestType
      <3>7. TurnsSettle' BY <1>0, <2>1, <2>4, <2>5, <2>6, <2>7 DEF TurnsSettle, Settled
      <3> QED BY <3>2, <3>6, <3>7
    <2>8. CASE reqs' = rest
      <3>1. OneRequest' BY <1>1, <2>8 DEF OneRequest
      <3>2. Requests'
        BY <1>0, <1>1, <1>2, <1>4, <2>1, <2>2, <2>3, <2>4, <2>5, <2>6, <2>8
           DEF Requests, OfCall, OfShim, RequestType
      <3>3. TurnsSettle' BY <1>0, <2>1, <2>4, <2>5, <2>6, <2>8 DEF TurnsSettle, Settled
      <3> QED BY <3>1, <3>2, <3>3
    <2> QED BY <1>0, <2>1, <2>7, <2>8 DEF RequestType
  <1> QED BY <1>0, <1>3, <1>4 DEF RequestType

LEMMA RestartProtocol == ASSUME ClientTypes, Protocol, LlmdRestarts PROVE Protocol'
  <1> USE DEF Protocol, ClientTypes
  <1>0. \A u \in Turns : u \in Tickets BY PlaneAssumption
  <1>1. UNCHANGED <<call, shim, pregrant>> BY DEF LlmdRestarts, cellVars
  <1>2. ASSUME NEW q \in reqs'
        PROVE  \E r \in reqs : /\ r.client /\ q.client
                               /\ q.pc = "cut" /\ q = [r EXCEPT !.pc = "cut"]
                               /\ q.id = r.id /\ q.by = r.by /\ q.verb = r.verb
    <2>1. PICK r \in reqs : r.client /\ q = [r EXCEPT !.pc = "cut"] BY <1>2 DEF LlmdRestarts
    <2>2. r \in RequestType OBVIOUS
    <2> QED BY <2>1, <2>2 DEF RequestType
  <1>3. OneRequest' BY <1>2 DEF OneRequest
  <1>4. \A r \in reqs : r.client => r.id \in lost'
    BY <1>0 DEF LlmdRestarts, Requests, OfCall, OfShim, RequestType
  <1>5. Requests'
    BY <1>1, <1>2, <1>4 DEF Requests, OfCall, OfShim, Pregranted
  <1>6. TurnsSettle' BY <1>1 DEF TurnsSettle, Settled, Pregranted
  <1> QED BY <1>3, <1>5, <1>6

LEMMA CellEndsProtocol ==
  ASSUME ClientTypes, Protocol, NEW p \in Principals, CellEnds(p) PROVE Protocol'
  <1> USE DEF Protocol, ClientTypes
  <1>0. \A u \in Turns : u \in Tickets /\ u # "nobody" /\ Owner[u] \in Principals
    BY PlaneAssumption, QueueAssumption
  <1>1. /\ \A t \in Tickets : call'[t] = IF Owner[t] = p /\ call[t] # "new" THEN "over"
                                         ELSE call[t]
        /\ \A t \in Turns : shim'[t] = IF Owner[t] = p /\ shim[t] # "new" THEN "over"
                                       ELSE shim[t]
        /\ pregrant' = [pregrant EXCEPT ![p] = Nobody] /\ lost' = lost
    BY <1>0 DEF CellEnds
  <1>2. ASSUME NEW q \in reqs'
        PROVE  \E r \in reqs :
                 /\ q.id = r.id /\ q.by = r.by /\ q.verb = r.verb /\ q.pc = r.pc
                 /\ \/ q = r /\ Owner[r.id] # p
                    \/ q = [r EXCEPT !.client = FALSE] /\ ~q.client /\ Owner[r.id] = p
    <2>1. PICK r \in reqs : \/ q = r /\ Owner[r.id] # p
                            \/ q = [r EXCEPT !.client = FALSE] /\ Owner[r.id] = p
      BY <1>2 DEF CellEnds, RequestType
    <2>2. r \in RequestType OBVIOUS
    <2>3. CASE q = r /\ Owner[r.id] # p BY <2>3
    <2>4. CASE q = [r EXCEPT !.client = FALSE] /\ Owner[r.id] = p
      <3>1. /\ q.id = r.id /\ q.by = r.by /\ q.verb = r.verb /\ q.pc = r.pc
            /\ q.client = FALSE
        BY <2>2, <2>4 DEF RequestType
      <3> QED BY <2>4, <3>1
    <2> QED BY <2>1, <2>3, <2>4
  <1>3. \A t \in Turns : Pregranted(t)' => Pregranted(t) /\ Owner[t] # p
    BY <1>0, <1>1 DEF Pregranted, Nobody
  <1>4. OneRequest' BY <1>2 DEF OneRequest
  <1>5. Requests'
    <2> SUFFICES ASSUME NEW q \in reqs'
                 PROVE /\ q.pc \in {"turn", "set"} => q.verb = "release"
                       /\ q.pc = "cut" => q.id \in lost'
                       /\ q.by = "call" => OfCall(q)'
                       /\ q.by = "shim" => OfShim(q)'
      BY DEF Requests, OfCall, OfShim, Pregranted
    <2>1. PICK r \in reqs :
            /\ q.id = r.id /\ q.by = r.by /\ q.verb = r.verb /\ q.pc = r.pc
            /\ \/ q = r /\ Owner[r.id] # p
               \/ q = [r EXCEPT !.client = FALSE] /\ ~q.client /\ Owner[r.id] = p
      BY <1>2
    <2>2. r.id \in Tickets BY DEF RequestType
    <2>3. q.by = "call" => OfCall(q)'
      <3> SUFFICES ASSUME q.by = "call" PROVE OfCall(q)' OBVIOUS
      <3>1. OfCall(r) BY <2>1 DEF Requests
      <3>2. call'[q.id] = IF Owner[r.id] = p THEN "over" ELSE call[r.id]
        BY <1>1, <2>1, <2>2, <3>1 DEF OfCall
      <3>3. q.client => r.client /\ Owner[r.id] # p BY <2>1
      <3>4. ~q.client => ~r.client \/ Owner[r.id] = p BY <2>1
      <3> QED BY <2>1, <3>1, <3>2, <3>3, <3>4 DEF OfCall
    <2>4. q.by = "shim" => OfShim(q)'
      BY <1>0, <1>1, <1>2, <1>3, <2>1, <2>2 DEF Requests, OfShim
    <2> QED BY <1>1, <2>1, <2>3, <2>4 DEF Requests
  <1>6. TurnsSettle' BY <1>0, <1>1, <1>3 DEF TurnsSettle, Settled
  <1> QED BY <1>4, <1>5, <1>6

LEMMA NextProtocol == ASSUME ClientTypes, Protocol, [Next]_vars PROVE Protocol'
  <1>0. reqs \subseteq RequestType BY DEF ClientTypes
  <1>1. CASE Broker BY <1>1, BrokerProtocol
  <1>2. CASE Shim BY <1>2, ShimProtocol
  <1>3. ASSUME NEW r \in reqs, Handle(r) PROVE Protocol'
    <2>1. CASE Couple(r)
      <3>1. CASE r.verb = "release" /\ r.out = "none"
        <4>1. Answer(r, FALSE) /\ lost' = lost BY <2>1, <3>1 DEF Couple, history
        <4> QED BY <4>1, AnswerProtocol
      <3>2. CASE ~(r.verb = "release" /\ r.out = "none")
        <4> DEFINE s == [r EXCEPT !.pc = IF r.verb = "release" THEN "turn" ELSE "act"]
        <4>1. Advance(r, s) /\ UNCHANGED <<cellVars, lost>>
          BY <2>1, <3>2 DEF Couple, history
        <4>2. /\ s.id = r.id /\ s.by = r.by /\ s.verb = r.verb /\ s.client = r.client
              /\ s.pc = (IF r.verb = "release" THEN "turn" ELSE "act")
          BY <1>0 DEF RequestType
        <4> HIDE DEF s
        <4> QED BY <4>1, <4>2, AdvanceProtocol
      <3> QED BY <3>1, <3>2
    <2>2. CASE HandleAdmit(r) \/ HandlePoll(r)
      <3>1. Answer(r, r.id \in granted') /\ lost' = lost
        BY <2>2 DEF HandleAdmit, HandlePoll, history
      <3> QED BY <3>1, AnswerProtocol
    <2>3. CASE CountWaiting(r)
      <3> DEFINE s == [r EXCEPT !.pc = "act", !.demand = waiting # {}]
      <3>1. Advance(r, s) /\ UNCHANGED <<cellVars, lost>>
        BY <2>3 DEF CountWaiting, history
      <3>2. /\ s.id = r.id /\ s.by = r.by /\ s.verb = r.verb /\ s.client = r.client
            /\ s.pc = "act"
        BY <1>0 DEF RequestType
      <3> HIDE DEF s
      <3> QED BY <3>1, <3>2, AdvanceProtocol
    <2>4. CASE HandleRelease(r)
      <3> DEFINE s == [r EXCEPT !.pc = "couple"]
      <3>1. Advance(r, s) /\ UNCHANGED <<cellVars, lost>>
        BY <2>4 DEF HandleRelease, history
      <3>2. /\ s.id = r.id /\ s.by = r.by /\ s.verb = r.verb /\ s.client = r.client
            /\ s.pc = "couple"
        BY <1>0 DEF RequestType
      <3> HIDE DEF s
      <3> QED BY <3>1, <3>2, AdvanceProtocol
    <2>5. CASE Shrink(r) \/ Grow(r) \/ Ignore(r)
      <3>1. r.pc = "turn" /\ lost' = lost BY <2>5 DEF Shrink, Grow, Ignore, history
      <3>2. CASE Answer(r, FALSE) BY <3>1, <3>2, AnswerProtocol
      <3>3. ASSUME NEW n, Decide(r, n) PROVE Protocol'
        <4> DEFINE s == [r EXCEPT !.pc = "set"]
        <4>1. Advance(r, s) /\ UNCHANGED <<cellVars, lost>> BY <3>1, <3>3 DEF Decide
        <4>2. /\ s.id = r.id /\ s.by = r.by /\ s.verb = r.verb /\ s.client = r.client
              /\ s.pc = "set" /\ r.verb = "release"
          BY <1>0, <3>1 DEF RequestType, Protocol, Requests
        <4> HIDE DEF s
        <4> QED BY <4>1, <4>2, AdvanceProtocol
      <3> QED BY <2>5, <3>2, <3>3 DEF Shrink, Grow, Ignore
    <2>7. CASE SetBudget(r)
      BY <2>7, AnswerProtocol DEF SetBudget, history
    <2>6. CASE Cut(r)
      <3>1. CASE Answer(r, FALSE) /\ UNCHANGED <<queueVars, aimdVars, lost, swept>>
        BY <3>1, AnswerProtocol
      <3>2. CASE NoAnswer(r, reqs \ {r}) BY <2>6, <3>2, NoAnswerProtocol DEF Cut
      <3> QED BY <2>6, <3>1, <3>2 DEF Cut
    <2> QED BY <1>3, <2>1, <2>2, <2>3, <2>4, <2>5, <2>6, <2>7 DEF Handle
  <1>4. CASE CooldownOver \/ Sweep \/ TimePasses
    <2>1. UNCHANGED <<reqs, call, shim, pregrant, lost>>
      BY <1>4 DEF CooldownOver, Sweep, TimePasses, cellVars, history
    <2> QED BY <2>1 DEF Protocol, OneRequest, Requests, OfCall, OfShim, TurnsSettle,
            Settled, Pregranted
  <1>5. CASE \E t \in Turns : LoseBroker(t) BY <1>5, ShimProtocol
  <1>6. ASSUME NEW r \in reqs, GiveUp(r) PROVE Protocol'
    BY <1>6, NoAnswerProtocol DEF GiveUp
  <1>7. ASSUME NEW r \in reqs, TurnedAway(r) PROVE Protocol'
    <2>1. r.client BY <1>7 DEF TurnedAway, Request
    <2> QED BY <1>7, <2>1, NoAnswerProtocol DEF TurnedAway
  <1>8. CASE LlmdRestarts BY <1>8, RestartProtocol
  <1>9. CASE \E p \in Principals : CellEnds(p) BY <1>9, CellEndsProtocol
  <1>10. CASE UNCHANGED vars
    BY <1>10 DEF vars, cellVars, history, Protocol, OneRequest, Requests, OfCall, OfShim,
       TurnsSettle, Settled, Pregranted
  <1> QED BY <1>1, <1>2, <1>3, <1>4, <1>5, <1>6, <1>7, <1>8, <1>9, <1>10
          DEF Next, Llmd, World

-----------------------------------------------------------------------------
(* What the queue does to tickets. *)

(* The tickets outside T keep their places, or get better ones. *)
Gentle(T) ==
  /\ granted \ T \subseteq granted'
  /\ Q!Live \ T \subseteq Q!Live'
  /\ \A t \in Tickets \ T : age'[t] = 0 \/ age'[t] = age[t]

LEMMA PumpGentle ==
  ASSUME NEW w, NEW g, NEW a, Q!Pump(w, g, a)
  PROVE  /\ g \subseteq granted' /\ waiting' \cup granted' = w \cup g
         /\ \A t \in Tickets : age'[t] = 0 \/ age'[t] = a[t]
  <1>1. PICK H \in SUBSET w :
          /\ waiting' = w \ H /\ granted' = g \cup H
          /\ age' = [t \in Tickets |-> IF t \in H THEN 0 ELSE a[t]]
    BY Zenon DEF Q!Pump
  <1> QED BY <1>1

LEMMA MethodsGentle ==
  ASSUME Q!TypeOK
  PROVE  /\ SameQueue => Gentle({})
         /\ \A t \in Tickets :
              /\ Q!Admit(t) => Gentle({}) /\ t \in Q!Live' /\ age'[t] = 0
              /\ Q!AdmitAgain(t) => Gentle({}) /\ t \in Q!Live' /\ age'[t] = 0
              /\ Q!Poll(t) => Gentle({}) /\ (t \in Q!Live => age'[t] = 0)
              /\ Q!Release(t) => Gentle({t})
         /\ Q!Sweep => Gentle(Q!Expired)
         /\ \A n : Q!SetSlots(n) => Gentle({})
         /\ \A n : Q!SetExternalUsed(n) => Gentle({})
  <1> USE DEF Gentle, Q!Live
  <1>1. SameQueue => Gentle({}) BY DEF SameQueue, queueVars
  <1>2. ASSUME NEW t \in Tickets
        PROVE  /\ Q!Admit(t) => Gentle({}) /\ t \in Q!Live' /\ age'[t] = 0
               /\ Q!AdmitAgain(t) => Gentle({}) /\ t \in Q!Live' /\ age'[t] = 0
               /\ Q!Poll(t) => Gentle({}) /\ (t \in Q!Live => age'[t] = 0)
               /\ Q!Release(t) => Gentle({t})
    <2>0. /\ Q!Renewed(t)[t] = 0
          /\ \A u \in Tickets : u # t => Q!Renewed(t)[u] = age[u]
      BY DEF Q!Renewed, Q!TypeOK
    <2>1. Q!Admit(t) => Gentle({}) /\ t \in Q!Live' /\ age'[t] = 0
      <3> SUFFICES ASSUME Q!Admit(t) PROVE Gentle({}) /\ t \in Q!Live' /\ age'[t] = 0
        OBVIOUS
      <3>1. Q!Pump(waiting \cup {t}, granted, Q!Renewed(t)) BY DEF Q!Admit
      <3> QED BY <2>0, <3>1, PumpGentle
    <2>2. Q!AdmitAgain(t) => Gentle({}) /\ t \in Q!Live' /\ age'[t] = 0
      BY <2>0 DEF Q!AdmitAgain
    <2>3. Q!Poll(t) => Gentle({}) /\ (t \in Q!Live => age'[t] = 0)
      <3> SUFFICES ASSUME Q!Poll(t) PROVE Gentle({}) /\ (t \in Q!Live => age'[t] = 0)
        OBVIOUS
      <3> DEFINE a == IF t \in Q!Live THEN Q!Renewed(t) ELSE age
      <3>1. Q!Pump(waiting, granted, a) BY DEF Q!Poll
      <3>2. \A u \in Tickets : a[u] = 0 \/ a[u] = age[u] BY <2>0
      <3>3. t \in Q!Live => a[t] = 0 BY <2>0
      <3> HIDE DEF a
      <3> QED BY <3>1, <3>2, <3>3, PumpGentle
    <2>4. Q!Release(t) => Gentle({t})
      <3> SUFFICES ASSUME Q!Release(t) PROVE Gentle({t}) OBVIOUS
      <3>1. Q!Pump(waiting \ {t}, granted \ {t}, Q!AgesWithout({t})) BY DEF Q!Release
      <3>2. \A u \in Tickets : u # t => Q!AgesWithout({t})[u] = age[u]
        BY DEF Q!AgesWithout
      <3> QED BY <3>1, <3>2, PumpGentle
    <2> QED BY <2>1, <2>2, <2>3, <2>4
  <1>3. Q!Sweep => Gentle(Q!Expired)
    <2> SUFFICES ASSUME Q!Sweep PROVE Gentle(Q!Expired) OBVIOUS
    <2>1. Q!Pump(waiting \ Q!Expired, granted \ Q!Expired, Q!AgesWithout(Q!Expired))
      BY DEF Q!Sweep
    <2>2. \A u \in Tickets \ Q!Expired : Q!AgesWithout(Q!Expired)[u] = age[u]
      BY DEF Q!AgesWithout
    <2> QED BY <2>1, <2>2, PumpGentle
  <1>4. ASSUME NEW n, Q!SetSlots(n) PROVE Gentle({})
    <2>1. Q!Pump(waiting, granted, age) BY <1>4 DEF Q!SetSlots
    <2> QED BY <2>1, PumpGentle
  <1>5. ASSUME NEW n, Q!SetExternalUsed(n) PROVE Gentle({})
    <2>1. Q!Pump(waiting, granted, age) BY <1>5 DEF Q!SetExternalUsed
    <2> QED BY <2>1, PumpGentle
  <1> QED BY <1>1, <1>2, <1>3, <1>4, <1>5

-----------------------------------------------------------------------------
(* Tickets in use are kept, step by step.                                    *)

(* A ticket stays if its client stays where it is, or goes on without it. *)
LEMMA KeptStays ==
  ASSUME Q!TypeOK, Kept, NEW T, Gentle(T), lost \subseteq lost', swept \subseteq swept',
         \A t \in Tickets \ lost' :
           /\ InLoop(t)' => InLoop(t) /\ t \notin T /\ (t \in polled' => t \in polled)
           /\ t \notin swept' /\ Entitled(t)' => Entitled(t) /\ t \notin T
  PROVE  Kept'
  <1> SUFFICES ASSUME NEW t \in Tickets \ lost'
               PROVE /\ InLoop(t)' => /\ t \in Q!Live' /\ age'[t] <= 1
                                      /\ t \in polled' => age'[t] = 0
                     /\ t \notin swept' /\ Entitled(t)' => t \in granted'
    BY DEF Kept, InLoop, Entitled, Pregranted, Q!Live
  <1>1. ASSUME InLoop(t)'
        PROVE  t \in Q!Live' /\ age'[t] <= 1 /\ (t \in polled' => age'[t] = 0)
    <2>1. InLoop(t) /\ t \notin T /\ (t \in polled' => t \in polled) BY <1>1
    <2>2. t \in Q!Live /\ age[t] <= 1 /\ (t \in polled => age[t] = 0) BY <2>1 DEF Kept
    <2>3. t \in Q!Live' /\ (age'[t] = 0 \/ age'[t] = age[t]) BY <2>1, <2>2 DEF Gentle
    <2> QED BY <2>1, <2>2, <2>3
  <1>2. ASSUME t \notin swept', Entitled(t)' PROVE t \in granted'
    <2>1. Entitled(t) /\ t \notin T /\ t \notin swept BY <1>2
    <2>2. t \in granted BY <2>1 DEF Kept
    <2> QED BY <2>1, <2>2 DEF Gentle
  <1> QED BY <1>1, <1>2

LEMMA ClientKept ==
  ASSUME Q!TypeOK, ClientTypes, Protocol, Kept,
         Broker \/ Shim \/ (\E t \in Turns : LoseBroker(t))
  PROVE  Kept'
  <1> USE DEF ClientTypes, InLoop, Entitled, Loops, Forwarding
  <1>0. \A u \in Turns : u \in Tickets /\ u # "nobody" /\ Owner[u] \in Principals
    BY PlaneAssumption, QueueAssumption
  <1> DEFINE Fine == /\ UNCHANGED <<queueVars, polled, lost, swept>>
                     /\ \A t \in Tickets : InLoop(t)' => InLoop(t)
                     /\ \A t \in Tickets : Entitled(t)' => Entitled(t)
  <1>1. ASSUME NEW c \in Calls, Arrive(c) PROVE Fine
    BY <1>1 DEF Arrive, history, Calls, Pregranted
  <1>2. ASSUME NEW c \in Calls, PollCall(c) PROVE Fine
    BY <1>2 DEF PollCall, history, Calls, Pregranted
  <1>3. ASSUME NEW t \in Tickets, NEW out, Finally(t, out) PROVE Fine
    BY <1>3 DEF Finally, history, Pregranted
  <1>4. ASSUME NEW t \in Tickets, Renew(t) PROVE Fine
    BY <1>4 DEF Renew, history, Pregranted
  <1>5. ASSUME NEW t \in Turns, Adopt(t) PROVE Fine
    <2>1. Pregranted(t) BY <1>5 DEF Adopt, Pregranted
    <2>2. \A u \in Turns : Pregranted(u)' => Pregranted(u)
      BY <1>0, <1>5 DEF Adopt, Pregranted, Nobody
    <2> QED BY <1>0, <1>5, <2>1, <2>2 DEF Adopt, history
  <1>6. ASSUME NEW t \in Turns, Acquire(t) PROVE Fine
    BY <1>6 DEF Acquire, history, Pregranted
  <1>7. ASSUME NEW t \in Turns, PollTurn(t) PROVE Fine
    BY <1>7 DEF PollTurn, history, Pregranted
  <1>8. ASSUME NEW t \in Turns, NEW reaches \in BOOLEAN, Done(t, reaches) PROVE Fine
    <2>1. \A u \in Turns : Pregranted(u)' => Pregranted(u)
      BY <1>0, <1>8 DEF Done, Pregranted, Nobody
    <2>2. \A u \in Turns : shim'[u] \in Loops => shim[u] \in Loops
      BY <1>8 DEF Done
    <2> QED BY <1>8, <2>1, <2>2 DEF Done, history
  <1>9. ASSUME NEW p \in Principals, PregrantExpires(p) PROVE Fine
    <2>1. \A u \in Turns : Pregranted(u)' <=> Pregranted(u)
      BY <1>0, <1>9 DEF PregrantExpires, Pregranted, Adoptable, Nobody
    <2> QED BY <1>9, <2>1 DEF PregrantExpires, history
  <1>10. ASSUME NEW t \in Turns, LoseBroker(t) PROVE Fine
    BY <1>10 DEF LoseBroker, history, Pregranted
  <1>11. Fine
    BY <1>1, <1>2, <1>3, <1>4, <1>5, <1>6, <1>7, <1>8, <1>9, <1>10
       DEF Broker, Shim, Cap, UpstreamEnds, Calls
  <1>12. Gentle({}) BY <1>11, MethodsGentle DEF SameQueue
  <1> HIDE DEF Fine
  <1>13. /\ UNCHANGED <<polled, lost, swept>>
         /\ \A t \in Tickets : InLoop(t)' => InLoop(t)
         /\ \A t \in Tickets : Entitled(t)' => Entitled(t)
    BY <1>11 DEF Fine
  <1> HIDE DEF InLoop, Entitled
  <1> QED BY <1>12, <1>13, KeptStays

(* A release is on its way only when nobody uses the ticket. *)
LEMMA ReleaseIsFree ==
  ASSUME ClientTypes, Protocol, NEW r \in reqs, r.verb = "release"
  PROVE  ~InLoop(r.id) /\ ~Entitled(r.id)
  <1>1. r \in RequestType /\ r.id \in Tickets /\ r.by \in {"call", "shim"}
    BY DEF ClientTypes, RequestType
  <1>2. CASE r.by = "call"
    <2>1. call[r.id] \in {"releasing", "over"}
      BY <1>2 DEF Protocol, Requests, OfCall
    <2>2. r.id \in Turns => Settled(r.id) /\ ~Pregranted(r.id)
      BY <2>1 DEF Protocol, TurnsSettle
    <2> QED BY <2>1, <2>2 DEF InLoop, Entitled, Loops, Forwarding, Settled
  <1>3. CASE r.by = "shim"
    <2>1. /\ call[r.id] = "new" /\ ~Pregranted(r.id)
          /\ shim[r.id] \in {"releasing", "over"}
      BY <1>3 DEF Protocol, Requests, OfShim
    <2> QED BY <2>1 DEF InLoop, Entitled, Loops, Forwarding
  <1> QED BY <1>1, <1>2, <1>3

(* What an answer to a client that asks for its ticket must be. *)
LEMMA AnswerKept ==
  ASSUME Q!TypeOK, ClientTypes, Protocol, Kept, NEW r \in reqs, NEW g, Answer(r, g),
         Gentle({}), UNCHANGED <<lost, swept>>,
         r.client /\ r.verb # "release" /\ r.id \notin lost =>
           /\ r.id \in Q!Live => r.id \in Q!Live' /\ age'[r.id] = 0
           /\ r.verb = "admit" => r.id \in Q!Live' /\ age'[r.id] = 0
           /\ g => r.id \in granted'
  PROVE  Kept'
  <1> DEFINE t == r.id
  <1>0. /\ \A u \in Turns : u \in Tickets /\ u # "nobody" /\ Owner[u] \in Principals
        /\ r \in RequestType /\ t \in Tickets /\ r.by \in {"call", "shim"}
    BY PlaneAssumption, QueueAssumption DEF ClientTypes, RequestType
  <1>1. \A u \in Tickets : u # t =>
          /\ InLoop(u)' => InLoop(u)
          /\ Entitled(u)' => Entitled(u)
          /\ u \in polled' => u \in polled
    BY <1>0 DEF Answer, InLoop, Entitled, Pregranted, ClientTypes
  <1>2. CASE ~r.client
    <2>1. UNCHANGED <<call, shim, pregrant, polled>> BY <1>2 DEF Answer
    <2> QED BY <2>1, KeptStays DEF InLoop, Entitled, Pregranted
  <1>3. CASE r.client /\ r.verb = "release"
    <2>1. ~InLoop(t)' /\ ~Entitled(t)'
      BY <1>0, <1>3, ReleaseIsFree DEF Answer, InLoop, Entitled, Pregranted, ClientTypes,
         Loops, Forwarding
    <2> HIDE DEF t
    <2> QED BY <1>1, <2>1, KeptStays
  <1>4. CASE r.client /\ r.verb # "release" /\ t \in lost
    <2> HIDE DEF t
    <2> QED BY <1>1, <1>4, KeptStays
  <1>5. CASE r.client /\ r.verb # "release" /\ t \notin lost
    <2>1. /\ t \in Q!Live => t \in Q!Live' /\ age'[t] = 0
          /\ r.verb = "admit" => t \in Q!Live' /\ age'[t] = 0
          /\ g => t \in granted'
          /\ r.verb \in {"admit", "poll"}
      BY <1>0, <1>5 DEF RequestType
    <2>2. /\ InLoop(t)' => t \in Q!Live' /\ age'[t] = 0
          /\ t \notin swept /\ Entitled(t)' => t \in granted'
      <3>1. CASE r.by = "call"
        <4>1. OfCall(r) BY <3>1 DEF Protocol, Requests
        <4>2. /\ UNCHANGED <<shim, pregrant>>
              /\ call'[t] = IF call[t] \in {"adopting", "renewing"} \/ g
                            THEN "forwarding" ELSE "waiting"
          BY <1>0, <1>5, <3>1 DEF Answer, ClientTypes
        <4>3. /\ t \in Turns => shim[t] \notin Loops /\ ~Pregranted(t)
              /\ Pregranted(t)' <=> Pregranted(t)
          BY <1>0, <4>1, <4>2
             DEF Protocol, TurnsSettle, Settled, OfCall, Pregranted, Loops
        <4>4. InLoop(t)' => ~g /\ call[t] \notin {"adopting", "renewing"}
          BY <4>2, <4>3 DEF InLoop, Loops
        <4>5. InLoop(t)' /\ r.verb = "poll" => t \in Q!Live
          BY <1>0, <1>5, <4>1, <4>4 DEF OfCall, Kept, InLoop, Loops
        <4>6. Entitled(t)' => g \/ call[t] \in {"adopting", "renewing"}
          BY <4>2, <4>3 DEF Entitled, Forwarding
        <4>7. t \notin swept /\ call[t] \in {"adopting", "renewing"} => t \in granted'
          BY <1>0, <1>5 DEF Kept, Entitled, Forwarding, Gentle
        <4> QED BY <2>1, <4>5, <4>6, <4>7
      <3>2. CASE r.by = "shim"
        <4>1. OfShim(r) BY <3>2 DEF Protocol, Requests
        <4>2. /\ call' = call /\ call[t] = "new" /\ ~Pregranted(t) /\ t \in Turns
              /\ shim'[t] = IF shim[t] \notin Rpc THEN shim[t]
                            ELSE IF g THEN "running" ELSE "waiting"
              /\ Pregranted(t)' => g
          BY <1>0, <1>5, <3>2, <4>1 DEF Answer, ClientTypes, OfShim, Pregranted
        <4>3. Entitled(t)' => g BY <4>2 DEF Entitled, Forwarding
        <4>4. InLoop(t)' => shim'[t] \in Loops BY <4>2 DEF InLoop, Loops
        <4>5. InLoop(t)' /\ r.verb = "poll" => shim[t] \in Loops
          BY <1>5, <2>1, <4>1, <4>2, <4>4 DEF OfShim, Loops, Rpc
        <4>6. InLoop(t)' /\ r.verb = "poll" => t \in Q!Live
          BY <1>0, <1>5, <4>2, <4>5 DEF Kept, InLoop
        <4> QED BY <2>1, <4>3, <4>6
      <3> QED BY <1>0, <3>1, <3>2
    <2>3. \A u \in Tickets : u # t =>
            /\ u \in Q!Live => u \in Q!Live'
            /\ age'[u] = 0 \/ age'[u] = age[u]
            /\ u \in granted => u \in granted'
      BY DEF Gentle
    <2> HIDE DEF t
    <2>4. ASSUME NEW u \in Tickets \ lost', u # t
          PROVE  /\ InLoop(u)' => /\ u \in Q!Live' /\ age'[u] <= 1
                                  /\ u \in polled' => age'[u] = 0
                 /\ u \notin swept' /\ Entitled(u)' => u \in granted'
      BY <1>1, <2>3, <2>4 DEF Kept
    <2> QED BY <1>0, <2>2, <2>4 DEF Kept, InLoop, Entitled, Pregranted, Q!Live
  <1> QED BY <1>2, <1>3, <1>4, <1>5

(* A client without an answer leaves its loop or keeps what it had. *)
LEMMA NoAnswerKept ==
  ASSUME Q!TypeOK, ClientTypes, Protocol, Kept, NEW r \in reqs, NEW rest, NoAnswer(r, rest)
  PROVE  Kept'
  <1> DEFINE t == r.id
  <1>0. /\ \A u \in Turns : u \in Tickets
        /\ t \in Tickets /\ r.by \in {"call", "shim"}
    BY PlaneAssumption DEF ClientTypes, RequestType
  <1>1. UNCHANGED <<queueVars, lost, swept, pregrant>>
    BY NoAnswerStays DEF NoAnswer, NoAnswerToCall, NoAnswerToTurn
  <1>2. Gentle({}) BY <1>1, MethodsGentle DEF SameQueue
  <1>3. CASE r.by = "call"
    <2>1. OfCall(r) /\ NoAnswerToCall(t, rest) BY <1>3 DEF Protocol, Requests, NoAnswer
    <2>2. /\ \A u \in Tickets : u # t => call'[u] = call[u]
          /\ shim' = shim /\ polled' = polled \cup {t}
          /\ call'[t] \in {"releasing", "forwarding", "over"}
          /\ call'[t] = "forwarding" => call[t] = "renewing"
      BY <1>0, <2>1 DEF NoAnswerToCall, ClientTypes
    <2>3. t \in Turns => shim[t] \notin Loops
      BY <2>1 DEF Protocol, TurnsSettle, Settled, OfCall, Loops
    <2>4. \A u \in Tickets : /\ InLoop(u)' => InLoop(u) /\ u # t
                             /\ Entitled(u)' => Entitled(u)
      BY <1>1, <2>2, <2>3 DEF InLoop, Entitled, Pregranted, Loops, Forwarding
    <2> HIDE DEF t
    <2> QED BY <1>1, <1>2, <2>2, <2>4, KeptStays
  <1>4. CASE r.by = "shim"
    <2>1. NoAnswerToTurn(t, rest) /\ t \in Turns
      BY <1>4 DEF Protocol, Requests, OfShim, NoAnswer
    <2>2. /\ call' = call /\ polled' = polled
          /\ \A u \in Turns : shim'[u] \in Loops => shim[u] \in Loops
      BY <2>1 DEF NoAnswerToTurn, ClientTypes, Loops
    <2>3. \A u \in Tickets : /\ InLoop(u)' => InLoop(u)
                             /\ Entitled(u)' => Entitled(u)
      BY <1>1, <2>2 DEF InLoop, Entitled, Pregranted
    <2> HIDE DEF t
    <2> QED BY <1>1, <1>2, <2>2, <2>3, KeptStays
  <1> QED BY <1>0, <1>3, <1>4

(* A step of pn-llmd that no client notices. *)
LEMMA QuietKept ==
  ASSUME Q!TypeOK, Kept, NEW T, Gentle(T), UNCHANGED <<cellVars, lost, swept>>,
         \A t \in T : ~InLoop(t) /\ ~Entitled(t)
  PROVE  Kept'
  <1>1. /\ UNCHANGED polled
        /\ \A t \in Tickets : (InLoop(t)' <=> InLoop(t)) /\ (Entitled(t)' <=> Entitled(t))
    BY DEF cellVars, InLoop, Entitled, Pregranted
  <1> QED BY <1>1, KeptStays

LEMMA HandleKept ==
  ASSUME Q!TypeOK, ClientTypes, Protocol, Kept, NEW r \in reqs, Handle(r)
  PROVE  Kept'
  <1>0. r.id \in Tickets BY DEF ClientTypes, RequestType
  <1>1. CASE Couple(r)
    <2>1. Gentle({}) /\ UNCHANGED <<lost, swept>>
      BY <1>1, MethodsGentle DEF Couple, history
    <2>2. CASE r.verb = "release" /\ r.out = "none"
      <3>1. Answer(r, FALSE) BY <1>1, <2>2 DEF Couple
      <3> QED BY <2>1, <2>2, <3>1, AnswerKept
    <2>3. CASE ~(r.verb = "release" /\ r.out = "none")
      <3>1. UNCHANGED cellVars BY <1>1, <2>3 DEF Couple
      <3> QED BY <2>1, <3>1, QuietKept
    <2> QED BY <2>2, <2>3
  <1>2. CASE HandleAdmit(r)
    <2>1. /\ Gentle({}) /\ r.id \in Q!Live' /\ age'[r.id] = 0
          /\ Answer(r, r.id \in granted') /\ UNCHANGED <<lost, swept>>
      <3>1. ASSUME r.id \in waiting, Q!Poll(r.id)
            PROVE  Gentle({}) /\ r.id \in Q!Live' /\ age'[r.id] = 0
        BY <1>0, <3>1, MethodsGentle DEF Gentle, Q!Live
      <3> QED BY <1>0, <1>2, <3>1, MethodsGentle DEF HandleAdmit, history
    <2> QED BY <2>1, AnswerKept
  <1>3. CASE HandlePoll(r)
    <2>1. /\ Gentle({}) /\ (r.id \in Q!Live => age'[r.id] = 0)
          /\ Answer(r, r.id \in granted') /\ UNCHANGED <<lost, swept>>
          /\ r.verb # "admit"
      BY <1>0, <1>3, MethodsGentle DEF HandlePoll, history
    <2>2. r.id \in Q!Live => r.id \in Q!Live' BY <1>0, <2>1 DEF Gentle
    <2> QED BY <2>1, <2>2, AnswerKept
  <1>4. CASE CountWaiting(r)
    <2>1. Gentle({}) /\ UNCHANGED <<cellVars, lost, swept>>
      BY <1>4, MethodsGentle DEF CountWaiting, history, SameQueue
    <2> QED BY <2>1, QuietKept
  <1>5. CASE HandleRelease(r)
    <2>1. /\ Gentle({r.id}) /\ UNCHANGED <<cellVars, lost, swept>> /\ r.verb = "release"
      BY <1>0, <1>5, MethodsGentle DEF HandleRelease, history
    <2>2. ~InLoop(r.id) /\ ~Entitled(r.id) BY <2>1, ReleaseIsFree
    <2> QED BY <2>1, <2>2, QuietKept
  <1>6. CASE Shrink(r) \/ Grow(r) \/ Ignore(r)
    <2>1. /\ r.verb = "release" /\ UNCHANGED <<lost, swept>>
          /\ Answer(r, FALSE) \/ UNCHANGED cellVars
      BY <1>6 DEF Shrink, Grow, Ignore, Decide, history, Protocol, Requests
    <2>2. Gentle({}) BY <1>6, MethodsGentle DEF Shrink, Grow, Ignore, SameQueue
    <2> QED BY <2>1, <2>2, AnswerKept, QuietKept
  <1>7. CASE Cut(r)
    <2>1. CASE NoAnswer(r, reqs \ {r}) BY <2>1, NoAnswerKept
    <2>2. CASE Answer(r, FALSE) /\ UNCHANGED <<queueVars, aimdVars, lost, swept>>
      <3>1. r.id \in lost BY <1>7 DEF Cut, Protocol, Requests
      <3>2. Gentle({}) BY <2>2, MethodsGentle DEF SameQueue
      <3> QED BY <2>2, <3>1, <3>2, AnswerKept
    <2> QED BY <1>7, <2>1, <2>2 DEF Cut
  <1>8. CASE SetBudget(r)
    <2>1. r.verb = "release" /\ Answer(r, FALSE) /\ UNCHANGED <<lost, swept>>
      BY <1>8 DEF SetBudget, history, Protocol, Requests
    <2>2. Gentle({}) BY <1>8, MethodsGentle DEF SetBudget
    <2> QED BY <2>1, <2>2, AnswerKept
  <1> QED BY <1>1, <1>2, <1>3, <1>4, <1>5, <1>6, <1>7, <1>8 DEF Handle

(* A swept ticket is not in a loop: its client polls sooner. *)
LEMMA SweepKept == ASSUME Q!TypeOK, Kept, Sweep PROVE Kept'
  <1>1. /\ Gentle(Q!Expired) /\ swept' = swept \cup Q!Expired
        /\ UNCHANGED <<call, shim, pregrant, polled, lost>>
    BY MethodsGentle DEF Sweep, cellVars
  <1>2. \A t \in Tickets \ lost : InLoop(t) => t \notin Q!Expired
    BY QueueAssumption DEF Kept, Q!Expired, Q!TypeOK
  <1>3. \A t \in Tickets : (InLoop(t)' <=> InLoop(t)) /\ (Entitled(t)' <=> Entitled(t))
    BY <1>1 DEF InLoop, Entitled, Pregranted
  <1> QED BY <1>1, <1>2, <1>3, KeptStays

(* In a unit of time every client in a loop has polled. *)
LEMMA TimeKept == ASSUME Q!TypeOK, ClientTypes, Kept, TimePasses PROVE Kept'
  <1>0. \A u \in Turns : u \in Tickets BY PlaneAssumption
  <1>1. /\ UNCHANGED <<call, shim, pregrant, lost, swept, granted, waiting>> /\ polled' = {}
        /\ age' = [t \in Tickets |->
                     IF t \in Q!Live /\ age[t] <= Ttl THEN age[t] + 1 ELSE age[t]]
    BY DEF TimePasses, history, Q!TimePasses
  <1>2. ASSUME NEW t \in Tickets \ lost, InLoop(t) PROVE t \in Q!Live /\ age[t] = 0
    <2>1. t \in polled BY <1>2 DEF TimePasses, InLoop, Loops, Rpc
    <2> QED BY <1>2, <2>1 DEF Kept
  <1>3. \A t \in Tickets : (InLoop(t)' <=> InLoop(t)) /\ (Entitled(t)' <=> Entitled(t))
    BY <1>1 DEF InLoop, Entitled, Pregranted
  <1>4. \A t \in Tickets \ lost : InLoop(t) => age'[t] <= 1
    BY <1>1, <1>2, QueueAssumption DEF Q!TypeOK
  <1>5. ASSUME NEW t \in Tickets \ lost'
        PROVE  /\ InLoop(t)' => /\ t \in Q!Live' /\ age'[t] <= 1
                                /\ t \in polled' => age'[t] = 0
               /\ t \notin swept' /\ Entitled(t)' => t \in granted'
    BY <1>1, <1>2, <1>3, <1>4 DEF Kept, Q!Live
  <1> QED BY <1>5 DEF Kept, InLoop, Entitled, Pregranted, Q!Live

(* After a restart only ids that were never used count. *)
LEMMA RestartKept == ASSUME Q!TypeOK, ClientTypes, Protocol, LlmdRestarts PROVE Kept'
  <1>1. UNCHANGED <<call, shim, pregrant>> BY DEF LlmdRestarts, cellVars
  <1>2. ASSUME NEW t \in Tickets \ lost' PROVE ~InLoop(t)' /\ ~Entitled(t)'
    <2>1. call[t] = "new" /\ (t \in Turns => shim[t] = "new")
      BY DEF LlmdRestarts
    <2>2. t \in Turns => ~Pregranted(t) BY <2>1 DEF Protocol, TurnsSettle, Settled
    <2> QED BY <1>1, <2>1, <2>2 DEF InLoop, Entitled, Pregranted, Loops, Forwarding
  <1> QED BY <1>2 DEF Kept, InLoop, Entitled, Pregranted, Q!Live

LEMMA CellEndsKept ==
  ASSUME Q!TypeOK, ClientTypes, Kept, NEW p \in Principals, CellEnds(p) PROVE Kept'
  <1>0. \A u \in Turns : u \in Tickets /\ u # "nobody" /\ Owner[u] \in Principals
    BY PlaneAssumption, QueueAssumption
  <1>1. /\ UNCHANGED <<queueVars, polled, lost, swept>>
        /\ pregrant' = [pregrant EXCEPT ![p] = Nobody]
        /\ \A t \in Tickets : call'[t] \in {"over", call[t]}
        /\ \A t \in Turns : shim'[t] \in {"over", shim[t]}
    BY <1>0 DEF CellEnds, ClientTypes
  <1>2. \A t \in Turns : Pregranted(t)' => Pregranted(t)
    BY <1>0, <1>1 DEF Pregranted, Nobody, ClientTypes
  <1>3. \A t \in Tickets : (InLoop(t)' => InLoop(t)) /\ (Entitled(t)' => Entitled(t))
    BY <1>1, <1>2 DEF InLoop, Entitled, Loops, Forwarding
  <1>4. Gentle({}) BY <1>1, MethodsGentle DEF SameQueue
  <1> QED BY <1>1, <1>3, <1>4, KeptStays

LEMMA NextKept == ASSUME Q!TypeOK, ClientTypes, Protocol, Kept, [Next]_vars PROVE Kept'
  <1>1. CASE Broker BY <1>1, ClientKept
  <1>2. CASE Shim BY <1>2, ClientKept
  <1>3. CASE Llmd
    <2>1. CASE \E r \in reqs : Handle(r) BY <2>1, HandleKept
    <2>2. CASE CooldownOver
      <3>1. Gentle({}) /\ UNCHANGED <<cellVars, lost, swept>>
        BY <2>2, MethodsGentle DEF CooldownOver, history, SameQueue
      <3> QED BY <3>1, QuietKept
    <2>3. CASE Sweep BY <2>3, SweepKept
    <2> QED BY <1>3, <2>1, <2>2, <2>3 DEF Llmd
  <1>4. CASE World
    <2>1. CASE \E t \in Turns : LoseBroker(t) BY <2>1, ClientKept
    <2>2. CASE \E r \in reqs : GiveUp(r) \/ TurnedAway(r)
      BY <2>2, NoAnswerKept DEF GiveUp, TurnedAway
    <2>3. CASE TimePasses BY <2>3, TimeKept
    <2>4. CASE LlmdRestarts BY <2>4, RestartKept
    <2>5. CASE \E p \in Principals : CellEnds(p) BY <2>5, CellEndsKept
    <2> QED BY <1>4, <2>1, <2>2, <2>3, <2>4, <2>5 DEF World
  <1>5. CASE UNCHANGED vars
    <2>1. Gentle({}) /\ UNCHANGED <<cellVars, lost, swept>>
      BY <1>5, MethodsGentle DEF vars, history, SameQueue
    <2> QED BY <2>1, QuietKept
  <1> QED BY <1>1, <1>2, <1>3, <1>4, <1>5 DEF Next

(* A cell that waits or talks to the provider never loses its place: not by a   *)
(* lost answer, a request left behind, another cell's end, a budget that        *)
(* shrinks or the sweep; only a restart of pn-llmd or the time to live takes it. *)
THEOREM TicketsStay == Spec => []TicketKept
  <1>1. Init => Protocol /\ Kept
    <2>1. Init => Protocol
      BY PlaneAssumption, QueueAssumption
         DEF Init, Protocol, OneRequest, Requests, TurnsSettle, Pregranted, Nobody
    <2>2. Init => Kept
      BY PlaneAssumption, QueueAssumption
         DEF Init, Kept, InLoop, Entitled, Pregranted, Nobody, Loops, Forwarding
    <2> QED BY <2>1, <2>2
  <1>2. Sound /\ Protocol /\ Kept /\ [Next]_vars => Protocol' /\ Kept'
    <2>1. Sound => Q!TypeOK /\ ClientTypes
      BY TypeParts, PlaneParts DEF Sound
    <2> QED BY <2>1, NextProtocol, NextKept
  <1>3. Kept => TicketKept BY DEF Kept, TicketKept, InLoop, Entitled
  <1> QED BY <1>1, <1>2, <1>3, Soundness, PTL DEF Spec
=============================================================================
