------------------------------ MODULE LlmPlane ------------------------------
(***************************************************************************)
(* The LLM turns of the cells: the calls that a cell's broker holds until   *)
(* pn-llmd grants them (os/pn-vmm/pn_cell_http_broker.py), the shim that    *)
(* waits visibly in front of the client program (os/pn-vmm/                 *)
(* pn_claude_shim.py), and pn-llmd's admission queue with the additive-     *)
(* increase, multiplicative-decrease budget (engine/tools/pn-llmd).         *)
(*                                                                          *)
(* pn-llmd runs one thread per request, and a request takes its locks one   *)
(* after the other: a step here is one of them.  A client that gives up     *)
(* after its timeout leaves the request behind; it is handled all the same. *)
(***************************************************************************)
EXTENDS Integers, FiniteSets

CONSTANTS
  Tickets, Principals, Owner, Weight, Batch, StartSlots, MaxSlots,
  MaxExternal, Ttl, MaxAdmissions,     \* of AdmissionQueue
  Turns,        \* the ids made by shims; the others are made by brokers
  AimdMin,      \* AIMD_MIN
  AimdMax,      \* AIMD_MAX; the configured StartSlots may lie above it, or below
  GrowEvery,    \* AIMD_GROW_EVERY
  MaxFailures   \* bound: restarts of pn-llmd, ends of a cell,
                \* requests that time out or are turned away

ASSUME PlaneAssumption ==
  /\ Turns \subseteq Tickets /\ "nobody" \notin Tickets
  /\ AimdMin \in 1..AimdMax /\ AimdMax \in 1..MaxSlots
  /\ GrowEvery \in Nat \ {0} /\ MaxFailures \in Nat

(* What AdmissionQueue assumes.  A ticket outlives the time between two      *)
(* polls: DEFAULT_TTL_S is 120.                                              *)
ASSUME QueueAssumption ==
  /\ IsFiniteSet(Tickets)
  /\ Owner \in [Tickets -> Principals]
  /\ Weight \in [Tickets -> Nat \ {0}]
  /\ Batch \subseteq Tickets
  /\ MaxSlots \in Nat /\ StartSlots \in 1..MaxSlots
  /\ MaxExternal \in Nat /\ Ttl \in Nat \ {0} /\ MaxAdmissions \in Nat

VARIABLES
  slots, external, waiting, granted, tag, vtime, lastFinish, seq, age,
  cur, streak, cooling,   \* _Aimd
  reqs,         \* the requests in pn-llmd
  call,         \* what the broker's handler does with an id
  shim,         \* what the shim does with its turn
  pregrant,     \* _PREGRANT of each cell, and whether it may still be taken
  polled,       \* the ids polled since time last passed
  failures,
  lost, swept   \* history: ids used before a restart of pn-llmd; ids swept

Q == INSTANCE AdmissionQueue

queueVars == <<slots, external, waiting, granted, tag, vtime, lastFinish, seq, age>>
aimdVars == <<cur, streak, cooling>>
cellVars == <<call, shim, pregrant, polled>>
history == <<failures, lost, swept>>
vars == <<queueVars, aimdVars, reqs, cellVars, history>>

Calls == Tickets \ Turns
Nobody == [id |-> "nobody", fresh |-> FALSE]

(* What the release tells about the turn: served below 400 without a rate   *)
(* limit, congested or not served, served with another status; the shim     *)
(* tells nothing.                                                           *)
Outcomes == {"good", "bad", "plain", "none"}

RequestType ==
  [id : Tickets, by : {"call", "shim"}, verb : {"admit", "poll", "release"},
   pc : {"couple", "act", "count", "turn", "set", "cut"}, out : Outcomes, demand : BOOLEAN,
   client : BOOLEAN]

Loops == {"waiting", "polling"}              \* in the poll loop
Forwarding == {"forwarding", "renewing"}     \* talking to the provider
Rpc == {"asking", "polling", "adopting", "renewing", "releasing"}

TypeOK ==
  /\ Q!TypeOK
  /\ cur \in AimdMin..AimdMax
  /\ streak \in 0..GrowEvery
  /\ cooling \in BOOLEAN
  /\ reqs \subseteq RequestType
  /\ call \in [Tickets -> {"new", "waiting", "forwarding", "over"} \cup Rpc]
  /\ shim \in [Turns -> {"new", "asking", "waiting", "polling", "running",
                         "releasing", "over"}]
  /\ pregrant \in [Principals -> {Nobody} \cup [id : Turns, fresh : BOOLEAN]]
  /\ polled \subseteq Tickets
  /\ failures \in 0..MaxFailures
  /\ lost \subseteq Tickets
  /\ swept \subseteq Tickets

-----------------------------------------------------------------------------
(* Requests.                                                                *)

Request(t, by, verb, out) ==
  [id |-> t, by |-> by, verb |-> verb, out |-> out, demand |-> FALSE,
   pc |-> IF verb = "release" THEN "count" ELSE "couple", client |-> TRUE]

Send(t, by, verb, out) == reqs' = reqs \cup {Request(t, by, verb, out)}

(* The client still waits for the answer to r. *)
Mine(r, t, by) == r.client /\ r.id = t /\ r.by = by

Advance(r, s) == reqs' = (reqs \ {r}) \cup {s}

(* _Aimd starts from the slots it is given, brought into its range; the queue *)
(* starts from the slots as they are.                                       *)
StartCur ==
  IF StartSlots < AimdMin THEN AimdMin
  ELSE IF StartSlots > AimdMax THEN AimdMax ELSE StartSlots

Adoptable(p) == pregrant[p].id # "nobody" /\ pregrant[p].fresh

-----------------------------------------------------------------------------
(* The broker: handle, _admit_wait.                                         *)

(* A message of the cell arrives and there is no pre-grant to take. *)
Arrive(c) ==
  /\ call[c] = "new"
  /\ ~Adoptable(Owner[c])
  /\ call' = [call EXCEPT ![c] = "asking"]
  /\ Send(c, "call", "admit", "none")
  /\ UNCHANGED <<queueVars, aimdVars, shim, pregrant, polled, history>>

(* A message arrives and takes the pre-granted ticket, whoever left it. *)
Adopt(t) ==
  /\ call[t] = "new"
  /\ pregrant[Owner[t]] = [id |-> t, fresh |-> TRUE]
  /\ pregrant' = [pregrant EXCEPT ![Owner[t]] = Nobody]
  /\ call' = [call EXCEPT ![t] = "adopting"]
  /\ Send(t, "call", "poll", "none")
  /\ UNCHANGED <<queueVars, aimdVars, shim, polled, history>>

(* One poll per unit of time stands for the many of ADMIT_POLL_S: tickets   *)
(* stop ageing once they may be swept, so no order of events is lost.       *)
PollCall(c) ==
  /\ call[c] = "waiting" /\ c \notin polled
  /\ call' = [call EXCEPT ![c] = "polling"]
  /\ Send(c, "call", "poll", "none")
  /\ UNCHANGED <<queueVars, aimdVars, shim, pregrant, polled, history>>

(* The handler's finally: the release tells how the turn went. *)
Finally(t, out) ==
  /\ call' = [call EXCEPT ![t] = "releasing"]
  /\ Send(t, "call", "release", out)
  /\ UNCHANGED <<queueVars, aimdVars, shim, pregrant, polled, history>>

(* Mutant: no deadline. *)
CapNever(c) == call[c] = "waiting" /\ FALSE

(* ADMIT_MAX_WAIT_S is over: "cap", refused with 503, not served. *)
Cap(c) == call[c] = "waiting" /\ Finally(c, "bad")

(* The provider has answered, or every account failed. *)
UpstreamEnds(t) ==
  /\ call[t] = "forwarding"
  /\ \E out \in Outcomes \ {"none"} : Finally(t, out)

(* ADMIT_RENEW_S is over while the answer streams. *)
Renew(t) ==
  /\ call[t] = "forwarding" /\ t \notin polled
  /\ call' = [call EXCEPT ![t] = "renewing"]
  /\ Send(t, "call", "poll", "none")
  /\ UNCHANGED <<queueVars, aimdVars, shim, pregrant, polled, history>>

-----------------------------------------------------------------------------
(* The shim in front of the client program, through _handle_ctl.            *)

Acquire(t) ==
  /\ shim[t] = "new"
  /\ shim' = [shim EXCEPT ![t] = "asking"]
  /\ Send(t, "shim", "admit", "none")
  /\ UNCHANGED <<queueVars, aimdVars, call, pregrant, polled, history>>

PollTurn(t) ==
  /\ shim[t] = "waiting" /\ t \notin polled
  /\ shim' = [shim EXCEPT ![t] = "polling"]
  /\ Send(t, "shim", "poll", "none")
  /\ UNCHANGED <<queueVars, aimdVars, call, pregrant, polled, history>>

(* Mutant: "done" releases the ticket, taken or not. *)
DoneRegardless(t, reaches) ==
  /\ shim[t] = "running"
  /\ IF reaches
     THEN /\ shim' = [shim EXCEPT ![t] = "releasing"]
          /\ Send(t, "shim", "release", "none")
     ELSE shim' = [shim EXCEPT ![t] = "over"] /\ UNCHANGED reqs
  /\ UNCHANGED <<queueVars, aimdVars, call, pregrant, polled, history>>

(* The program has ended: "done" releases the ticket if nobody took it.  It  *)
(* may not reach the broker.                                                *)
Done(t, reaches) ==
  /\ shim[t] = "running"
  /\ IF reaches /\ pregrant[Owner[t]].id = t
     THEN /\ pregrant' = [pregrant EXCEPT ![Owner[t]] = Nobody]
          /\ shim' = [shim EXCEPT ![t] = "releasing"]
          /\ Send(t, "shim", "release", "none")
     ELSE /\ shim' = [shim EXCEPT ![t] = "over"]
          /\ UNCHANGED <<pregrant, reqs>>
  /\ UNCHANGED <<queueVars, aimdVars, call, polled, history>>

(* A pre-grant older than ADMIT_MAX_WAIT_S is not taken. *)
PregrantExpires(p) ==
  /\ Adoptable(p)
  /\ pregrant' = [pregrant EXCEPT ![p].fresh = FALSE]
  /\ UNCHANGED <<queueVars, aimdVars, reqs, call, shim, polled, history>>

-----------------------------------------------------------------------------
(* Answers.                                                                 *)

(* The client of r, if it is still there, reads whether it is granted. *)
Answer(r, isGranted) ==
  /\ reqs' = reqs \ {r}
  /\ polled' = IF r.client THEN polled \cup {r.id} ELSE polled
  /\ call' = IF ~(r.client /\ r.by = "call") THEN call
             ELSE [call EXCEPT ![r.id] =
               CASE r.verb = "release" -> "over"
                 [] call[r.id] \in {"adopting", "renewing"} -> "forwarding"
                 [] OTHER -> IF isGranted THEN "forwarding" ELSE "waiting"]
  /\ shim' = IF ~(r.client /\ r.by = "shim" /\ shim[r.id] \in Rpc) THEN shim
             ELSE [shim EXCEPT ![r.id] =
               CASE r.verb = "release" -> "over"
                 [] OTHER -> IF isGranted THEN "running" ELSE "waiting"]
  /\ pregrant' = IF r.client /\ r.by = "shim" /\ r.verb # "release" /\ isGranted
                 THEN [pregrant EXCEPT ![Owner[r.id]] =
                         [id |-> r.id, fresh |-> TRUE]]
                 ELSE pregrant

(* _unix_rpc returns None to the handler, and the requests rest remain.  A   *)
(* handler that was not let in refuses with 503, "not served"; a renewal is  *)
(* not missed.                                                              *)
NoAnswerToCall(t, rest) ==
  /\ IF call[t] \in {"asking", "polling", "adopting"}
     THEN /\ call' = [call EXCEPT ![t] = "releasing"]
          /\ reqs' = rest \cup {Request(t, "call", "release", "bad")}
     ELSE /\ call' = [call EXCEPT ![t] =
                        IF call[t] = "renewing" THEN "forwarding" ELSE "over"]
          /\ reqs' = rest
  /\ polled' = polled \cup {t}
  /\ UNCHANGED <<queueVars, aimdVars, shim, pregrant, lost, swept>>

(* The same for the shim, which runs the program without a ticket. *)
NoAnswerToTurn(t, rest) ==
  /\ shim' = IF shim[t] \in Rpc THEN [shim EXCEPT ![t] = "over"] ELSE shim
  /\ reqs' = rest
  /\ UNCHANGED <<queueVars, aimdVars, call, pregrant, polled, lost, swept>>

NoAnswer(r, rest) ==
  IF r.by = "call" THEN NoAnswerToCall(r.id, rest) ELSE NoAnswerToTurn(r.id, rest)

(* No answer in time: the request stays behind. *)
GiveUp(r) ==
  /\ failures < MaxFailures
  /\ failures' = failures + 1
  /\ r.client /\ r.pc # "cut"
  /\ NoAnswer(r, (reqs \ {r}) \cup {[r EXCEPT !.client = FALSE]})

(* ipc.Server has no thread for the request, or pn-llmd is not there: the     *)
(* connection is reset or refused.                                          *)
TurnedAway(r) ==
  /\ failures < MaxFailures
  /\ failures' = failures + 1
  /\ r = Request(r.id, r.by, r.verb, r.out)
  /\ NoAnswer(r, reqs \ {r})

(* pn-llmd has ended.  Of a request it had read, the client reads an empty    *)
(* object, which is not granted; the others are reset.                      *)
Cut(r) ==
  /\ r.pc = "cut"
  /\ \/ Answer(r, FALSE) /\ UNCHANGED <<queueVars, aimdVars, lost, swept>>
     \/ NoAnswer(r, reqs \ {r})
  /\ UNCHANGED failures

(* The shim gives up on the broker, which goes on with the request. *)
LoseBroker(t) ==
  /\ shim[t] \in Rpc
  /\ shim' = [shim EXCEPT ![t] = "over"]
  /\ UNCHANGED <<queueVars, aimdVars, reqs, call, pregrant, polled, history>>

-----------------------------------------------------------------------------
(* pn-llmd: v_admit, v_admit_poll, v_admit_release, _Aimd.on_turn.          *)

(* _admit_couple_batch.  The leases of jobs are another module's; the value  *)
(* may be stale when it is set.                                             *)
Couple(r) ==
  /\ r.pc = "couple"
  /\ \E n \in 0..MaxExternal : Q!SetExternalUsed(n)
  /\ IF r.verb = "release" /\ r.out = "none"
     THEN Answer(r, FALSE)
     ELSE /\ Advance(r, [r EXCEPT !.pc = IF r.verb = "release" THEN "turn" ELSE "act"])
          /\ UNCHANGED cellVars
  /\ UNCHANGED <<aimdVars, history>>

HandleAdmit(r) ==
  /\ r.pc = "act" /\ r.verb = "admit"
  /\ \/ Q!Admit(r.id)
     \/ Q!AdmitAgain(r.id)
     \/ r.id \in waiting /\ Q!Poll(r.id)
  /\ Answer(r, r.id \in granted')
  /\ UNCHANGED <<aimdVars, history>>

HandlePoll(r) ==
  /\ r.pc = "act" /\ r.verb = "poll"
  /\ Q!Poll(r.id)
  /\ Answer(r, r.id \in granted')
  /\ UNCHANGED <<aimdVars, history>>

(* waiting_now is read before the release. *)
CountWaiting(r) ==
  /\ r.pc = "count"
  /\ Advance(r, [r EXCEPT !.pc = "act", !.demand = waiting # {}])
  /\ UNCHANGED <<queueVars, aimdVars, cellVars, history>>

HandleRelease(r) ==
  /\ r.pc = "act" /\ r.verb = "release"
  /\ Q!Release(r.id)
  /\ Advance(r, [r EXCEPT !.pc = "couple"])
  /\ UNCHANGED <<aimdVars, cellVars, history>>

(* Mutant: no floor. *)
HalvedToNothing == cur \div 2

Halved == IF cur \div 2 < AimdMin THEN AimdMin ELSE cur \div 2

(* No thread holds the lock of _Aimd, which changes its budget first and tells *)
(* the queue, which has a lock of its own, after it.                         *)
Unlocked == \A r \in reqs : r.pc # "set"

Decide(r, n) ==
  /\ cur' = n
  /\ Advance(r, [r EXCEPT !.pc = "set"])
  /\ UNCHANGED cellVars

(* Mutant: the queue is not told. *)
ShrinkSilently(r) ==
  /\ r.pc = "turn" /\ r.out = "bad" /\ Unlocked
  /\ streak' = 0
  /\ cooling' = TRUE
  /\ cur' = IF cooling THEN cur ELSE Halved
  /\ Answer(r, FALSE)
  /\ UNCHANGED <<queueVars, history>>

(* on_turn of a turn that was congested or not served *)
Shrink(r) ==
  /\ r.pc = "turn" /\ r.out = "bad" /\ Unlocked
  /\ streak' = 0
  /\ cooling' = TRUE
  /\ IF ~cooling /\ Halved # cur
     THEN Decide(r, Halved)
     ELSE Answer(r, FALSE) /\ UNCHANGED cur
  /\ UNCHANGED <<queueVars, history>>

(* on_turn of a good turn; counting stops where the code's test is settled *)
Grow(r) ==
  /\ r.pc = "turn" /\ r.out = "good" /\ Unlocked
  /\ IF streak + 1 >= GrowEvery /\ ~cooling /\ r.demand /\ cur < AimdMax
     THEN streak' = 0 /\ Decide(r, cur + 1)
     ELSE /\ streak' = IF streak < GrowEvery THEN streak + 1 ELSE streak
          /\ Answer(r, FALSE) /\ UNCHANGED cur
  /\ UNCHANGED <<queueVars, cooling, history>>

(* on_turn of any other turn changes nothing *)
Ignore(r) ==
  /\ r.pc = "turn" /\ r.out = "plain" /\ Unlocked
  /\ Answer(r, FALSE)
  /\ UNCHANGED <<queueVars, aimdVars, history>>

(* ADMIT.set_slots, still under the lock of _Aimd *)
SetBudget(r) ==
  /\ r.pc = "set"
  /\ Q!SetSlots(cur)
  /\ Answer(r, FALSE)
  /\ UNCHANGED <<aimdVars, history>>

CooldownOver ==
  /\ cooling
  /\ cooling' = FALSE
  /\ UNCHANGED <<queueVars, cur, streak, reqs, cellVars, history>>

(* Mutant: the slots of the dead go to nobody. *)
SweepLazily ==
  /\ Q!Expired # {}
  /\ waiting' = waiting \ Q!Expired
  /\ granted' = granted \ Q!Expired
  /\ tag' = Q!Forgotten(Q!Expired)
  /\ age' = Q!AgesWithout(Q!Expired)
  /\ swept' = swept \cup Q!Expired
  /\ UNCHANGED <<slots, external, vtime, lastFinish, seq>>
  /\ UNCHANGED <<aimdVars, reqs, cellVars, failures, lost>>

(* _lease_sweep_loop *)
Sweep ==
  /\ Q!Sweep
  /\ swept' = swept \cup Q!Expired
  /\ UNCHANGED <<aimdVars, reqs, cellVars, failures, lost>>

-----------------------------------------------------------------------------
(* Time and failures.                                                       *)

(* Polls come every quarter of a second and requests time out after two, so  *)
(* no client sits in its loop through a unit of time without a poll.        *)
TimePasses ==
  /\ \A t \in Tickets : call[t] \notin Rpc /\ (call[t] = "waiting" => t \in polled)
  /\ \A t \in Turns : shim[t] \notin Rpc /\ (shim[t] = "waiting" => t \in polled)
  /\ Q!TimePasses
  /\ polled' = {}
  /\ UNCHANGED <<aimdVars, reqs, call, shim, pregrant, history>>

(* pn-llmd ends and is started again; its clients lose their connections. *)
LlmdRestarts ==
  /\ failures < MaxFailures
  /\ failures' = failures + 1
  /\ Q!Restart
  /\ cur' = StartCur /\ streak' = 0 /\ cooling' = FALSE
  /\ reqs' = {[r EXCEPT !.pc = "cut"] : r \in {q \in reqs : q.client}}
  /\ lost' = lost \cup {t \in Tickets : call[t] # "new" \/ (t \in Turns /\ shim[t] # "new")}
  /\ UNCHANGED <<cellVars, swept>>

(* The cell ends: its broker and shims are gone, its tickets stay. *)
CellEnds(p) ==
  LET theirs == {t \in Tickets : Owner[t] = p}
      gone(f) == [t \in DOMAIN f |-> IF t \in theirs /\ f[t] # "new" THEN "over" ELSE f[t]]
      left == {[r EXCEPT !.client = FALSE] : r \in {q \in reqs : q.id \in theirs}}
  IN  /\ failures < MaxFailures
      /\ failures' = failures + 1
      /\ call' = gone(call)
      /\ shim' = gone(shim)
      /\ pregrant' = [pregrant EXCEPT ![p] = Nobody]
      /\ reqs' = {r \in reqs : r.id \notin theirs} \cup left
      /\ UNCHANGED <<queueVars, aimdVars, polled, lost, swept>>

-----------------------------------------------------------------------------
Init ==
  /\ Q!Init
  /\ cur = StartCur /\ streak = 0 /\ cooling = FALSE
  /\ reqs = {}
  /\ call = [t \in Tickets |-> "new"]
  /\ shim = [t \in Turns |-> "new"]
  /\ pregrant = [p \in Principals |-> Nobody]
  /\ polled = {}
  /\ failures = 0 /\ lost = {} /\ swept = {}

Broker ==
  \/ \E c \in Calls : Arrive(c) \/ PollCall(c) \/ Cap(c)
  \/ \E t \in Tickets : UpstreamEnds(t) \/ Renew(t)
  \/ \E t \in Turns : Adopt(t)

Shim ==
  \/ \E t \in Turns : Acquire(t) \/ PollTurn(t) \/ Done(t, TRUE) \/ Done(t, FALSE)
  \/ \E p \in Principals : PregrantExpires(p)

Handle(r) ==
  \/ Couple(r) \/ HandleAdmit(r) \/ HandlePoll(r)
  \/ CountWaiting(r) \/ HandleRelease(r)
  \/ Shrink(r) \/ Grow(r) \/ Ignore(r) \/ SetBudget(r)
  \/ Cut(r)

Llmd == \/ \E r \in reqs : Handle(r)
        \/ CooldownOver
        \/ Sweep

World ==
  \/ \E t \in Turns : LoseBroker(t)
  \/ \E r \in reqs : GiveUp(r) \/ TurnedAway(r)
  \/ TimePasses
  \/ LlmdRestarts
  \/ \E p \in Principals : CellEnds(p)

Next == Broker \/ Shim \/ Llmd \/ World

Spec == Init /\ [][Next]_vars

(* Threads of pn-llmd run, connections that are cut are noticed, loops poll, *)
(* time passes; the deadline of a held call is tested whenever the loop comes *)
(* round.                                                                   *)
Fairness ==
  /\ \A t \in Tickets : WF_vars(\E r \in reqs : r.id = t /\ Handle(r))
  /\ \A c \in Calls : WF_vars(PollCall(c)) /\ SF_vars(Cap(c))
  /\ \A t \in Turns : WF_vars(PollTurn(t))
  /\ WF_vars(TimePasses) /\ WF_vars(Sweep)

FairSpec == Spec /\ Fairness

-----------------------------------------------------------------------------
(* Properties.                                                              *)

(* Every step of pn-llmd is a method of the queue or none: what is shown of  *)
(* AdmissionQueue holds here.                                               *)
KeepsQueue == Q!Spec

(* Between two turns the queue works with the budget that AIMD has decided on, *)
(* whatever admissions, sweeps and restarts came between the decision and its *)
(* telling.  Only until the first decision after a start may they differ, if  *)
(* the configured slots lie outside AIMD's range.                            *)
BudgetIsSlots ==
  Unlocked => slots = cur \/ (slots = StartSlots /\ cur = StartCur)

(* A client never loses its ticket by itself: while it polls it has one, and *)
(* while it talks to the provider the ticket is granted, unless pn-llmd was   *)
(* restarted or it went unrenewed for the time to live.                      *)
TicketKept ==
  /\ \A t \in Tickets \ lost :
       call[t] \in Loops \/ (t \in Turns /\ shim[t] \in Loops) => t \in Q!Live
  /\ \A t \in Tickets \ (lost \cup swept) :
       call[t] \in Forwarding => t \in granted

(* A held call is decided: it is let through or refused, even when pn-llmd   *)
(* has forgotten it.                                                        *)
HeldIsDecided ==
  \A c \in Calls : call[c] \in Loops ~> call[c] \notin Loops

Abandoned(t) == call[t] \in {"new", "over"} /\ (t \in Turns => shim[t] = "over")

(* A ticket nobody will release does not keep its slot: the sweep frees it.  *)
TicketsAreFreed ==
  \A t \in Tickets :
    (t \in Q!Live /\ Abandoned(t)) ~> (t \notin Q!Live \/ ~Abandoned(t))
=============================================================================
