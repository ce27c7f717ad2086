----------------------------- MODULE NodeCells -----------------------------
(***************************************************************************)
(* The cells of a worker node: pn_node_agentd boots a virtual machine for a *)
(* cell, stops it, and finds its machines again after a restart of its own  *)
(* (os/node-agent/pn_node_agentd.py).                                       *)
(*                                                                          *)
(* Every request has a thread.  The table of cells has a lock, a start and  *)
(* a stop as a whole have none: they are here the sequence of their         *)
(* accesses to the table, the disk and the process table.  A machine stands *)
(* for its process (pid and start time); lanes and their shims are left out.*)
(***************************************************************************)
EXTENDS Naturals, FiniteSets

CONSTANTS
  Cells,       \* cell ids
  Cids,        \* guest CIDs
  Vms,         \* bound: machines that are ever started
  Handlers,    \* bound: requests at the same time
  MaxFaults    \* bound: calls to the system that fail, ends of the agent

NoVm == "no vm"      \* no entry, no card
Gone == "gone vm"    \* a card names a process of an earlier boot
NoCell == "no cell"
NoCid == 0

ASSUME NodeAssumption ==
  /\ Cids \subseteq Nat \ {0} /\ MaxFaults \in Nat
  /\ NoVm \notin Vms /\ Gone \notin Vms /\ NoCell \notin Cells

VARIABLES
  live, told,      \* machines that run; machines that got a SIGTERM
  cell, cid,       \* what a machine was started with
  born,            \* machines that were started
  doomed,          \* machines with a thread that waits to kill them
  table, used,     \* _CELLS and _CID_USED
  rundir, card,    \* cells with a run directory; the machine its card names
  old, vol,        \* the delta in the run directory, the one in VOL_DIR
  up,              \* the agent: down, cards or procs while it recovers, up
  seen,            \* run directories that the recovery has met
  pc, hc, hv, hk,  \* a request: its place, its cell, machine and CID
  starts,          \* the requests that are starts
  faults,
  had,             \* history: cells whose delta has held work
  raced,           \* history: cells with two starts at once, with a stop that
                   \* a crash cut off before its signal, or of which the
                   \* recovery took a machine that was about to end
  dropped,         \* history: cells whose old delta a start could not move
  twice,           \* history: CIDs that a recovery took for two machines
  orphaned         \* history: machines that run and a recovery could not adopt

machines == <<live, told, cell, cid, born, doomed>>
memory == <<table, used>>
disk == <<rundir, card, old, vol>>
agent == <<up, seen>>
requests == <<pc, hc, hv, hk, starts>>
history == <<had, raced, dropped, twice, orphaned>>
vars == <<machines, memory, disk, agent, requests, faults, history>>

Deltas == {"none", "raw", "new", "work"}

TypeOK ==
  /\ live \subseteq born /\ told \subseteq born /\ doomed \subseteq told
  /\ born \subseteq Vms
  /\ cell \in [Vms -> Cells \cup {NoCell}]
  /\ cid \in [Vms -> Cids \cup {NoCid}]
  /\ table \in [Cells -> born \cup {NoVm}]
  /\ used \subseteq Cids
  /\ rundir \subseteq Cells
  /\ card \in [Cells -> born \cup {NoVm, Gone}]
  /\ old \in [Cells -> {"none", "work"}]
  /\ vol \in [Cells -> Deltas]
  /\ \A c \in Cells \ rundir : card[c] = NoVm /\ old[c] = "none"
  /\ up \in {"down", "cards", "procs", "up"}
  /\ seen \subseteq Cells
  /\ pc \in [Handlers -> {"idle", "move", "mkdir", "delta", "format", "cid", "lanes",
                          "spawn", "register", "card", "pop", "signal", "rescue", "rmtree"}]
  /\ hc \in [Handlers -> Cells \cup {NoCell}]
  /\ hv \in [Handlers -> born \cup {NoVm}]
  /\ hk \in [Handlers -> Cids \cup {NoCid}]
  /\ starts \subseteq Handlers
  /\ faults \in 0..MaxFaults
  /\ had \subseteq Cells /\ raced \subseteq Cells /\ dropped \subseteq Cells
  /\ twice \subseteq Cids /\ orphaned \subseteq live

-----------------------------------------------------------------------------
Step(h, from, to) ==
  /\ pc[h] = from
  /\ pc' = [pc EXCEPT ![h] = to]
  /\ UNCHANGED <<hc, starts>>

(* The request is answered. *)
Answer(h) ==
  /\ pc' = [pc EXCEPT ![h] = "idle"]
  /\ hc' = [hc EXCEPT ![h] = NoCell]
  /\ hv' = [hv EXCEPT ![h] = NoVm]
  /\ hk' = [hk EXCEPT ![h] = NoCid]
  /\ starts' = starts \ {h}

Fail == faults < MaxFaults /\ faults' = faults + 1

(* Another start of the cell has looked into the table already. *)
Meets(c) == \E g \in starts : hc[g] = c

(* A start of a cell that runs is answered at once; one of a cell whose     *)
(* machine is over cleans up first.                                         *)
Start(h, c) ==
  /\ up = "up" /\ pc[h] = "idle" /\ table[c] \notin live
  /\ pc' = [pc EXCEPT ![h] = IF table[c] = NoVm THEN "move" ELSE "pop"]
  /\ hc' = [hc EXCEPT ![h] = c]
  /\ starts' = starts \cup {h}
  /\ raced' = IF Meets(c) THEN raced \cup {c} ELSE raced
  /\ UNCHANGED <<machines, memory, disk, agent, hv, hk, faults, had, dropped, twice, orphaned>>

(* A start without lanes or without the box's address ends here. *)
Refuse(h) ==
  /\ pc[h] = "move"
  /\ Answer(h)
  /\ UNCHANGED <<machines, memory, disk, agent, faults, history>>

(* The delta of a cell has a place of its own; an earlier version of the    *)
(* agent kept it in the run directory.                                      *)
Adoptable(c) == vol[c] = "none" /\ old[c] = "work"

MoveDelta(c) ==
  IF Adoptable(c)
  THEN vol' = [vol EXCEPT ![c] = old[c]] /\ old' = [old EXCEPT ![c] = "none"]
  ELSE UNCHANGED <<vol, old>>

Move(h) ==
  /\ Step(h, "move", "mkdir")
  /\ \/ MoveDelta(hc[h]) /\ UNCHANGED <<faults, dropped>>
     \/ Fail /\ Adoptable(hc[h]) /\ dropped' = dropped \cup {hc[h]} /\ UNCHANGED <<vol, old>>
  /\ UNCHANGED <<machines, memory, rundir, card, agent, hv, hk, had, raced, twice, orphaned>>

(* The run directory is removed with all that is in it, and made again. *)
MkDir(h) ==
  /\ pc[h] = "mkdir"
  /\ \/ Step(h, "mkdir", "delta") /\ rundir' = rundir \cup {hc[h]} /\ UNCHANGED <<hv, hk, faults>>
     \/ Fail /\ Answer(h) /\ rundir' = rundir \ {hc[h]}
  /\ card' = [card EXCEPT ![hc[h]] = NoVm]
  /\ old' = [old EXCEPT ![hc[h]] = "none"]
  /\ UNCHANGED <<machines, memory, vol, agent, history>>

(* A delta that is there is used again; otherwise a file of its size is     *)
(* made, and then formatted.                                                *)
Delta(h) ==
  /\ Step(h, "delta", IF vol[hc[h]] = "none" THEN "format" ELSE "cid")
  /\ vol' = [vol EXCEPT ![hc[h]] = IF @ = "none" THEN "raw" ELSE @]
  /\ UNCHANGED <<machines, memory, rundir, card, old, agent, hv, hk, faults, history>>

Format(h) ==
  /\ pc[h] = "format"
  /\ \/ Step(h, "format", "cid") /\ vol' = [vol EXCEPT ![hc[h]] = "new"]
        /\ UNCHANGED <<hv, hk, faults>>
     \/ Fail /\ Answer(h) /\ UNCHANGED vol
  /\ UNCHANGED <<machines, memory, rundir, card, old, agent, history>>

(* The first CID that is free; without one the request fails. *)
Cid(h) ==
  /\ pc[h] = "cid"
  /\ \/ Cids \subseteq used /\ Answer(h) /\ UNCHANGED used
     \/ /\ \E k \in Cids \ used :
             /\ \A i \in Cids \ used : k <= i
             /\ used' = used \cup {k}
             /\ hk' = [hk EXCEPT ![h] = k]
        /\ Step(h, "cid", "lanes")
        /\ UNCHANGED hv
  /\ UNCHANGED <<machines, table, disk, agent, faults, history>>

GiveUp(h) == used' = used \ {hk[h]} /\ Answer(h)

(* The sockets of the lanes are made in the run directory, if a stop has    *)
(* not taken it away.                                                       *)
Lanes(h) ==
  /\ pc[h] = "lanes"
  /\ \/ hc[h] \in rundir /\ Step(h, "lanes", "spawn") /\ UNCHANGED <<used, hv, hk>>
     \/ hc[h] \notin rundir /\ GiveUp(h)
  /\ UNCHANGED <<machines, table, disk, agent, faults, history>>

(* From here on the machine runs, whatever becomes of the agent. *)
Spawn(h, v) ==
  /\ v \notin born
  /\ Step(h, "spawn", "register")
  /\ live' = live \cup {v} /\ born' = born \cup {v}
  /\ cell' = [cell EXCEPT ![v] = hc[h]]
  /\ cid' = [cid EXCEPT ![v] = hk[h]]
  /\ hv' = [hv EXCEPT ![h] = v] /\ hk' = [hk EXCEPT ![h] = NoCid]
  /\ UNCHANGED <<told, doomed, memory, disk, agent, faults, history>>

SpawnFails(h) ==
  /\ pc[h] = "spawn" /\ Fail
  /\ GiveUp(h)
  /\ UNCHANGED <<machines, table, disk, agent, history>>

Register(h) ==
  /\ Step(h, "register", "card")
  /\ table' = [table EXCEPT ![hc[h]] = hv[h]]
  /\ UNCHANGED <<machines, used, disk, agent, hv, hk, faults, history>>

(* Mutant of Card: the card makes the run directory again.  *)
CardAnywhere(h) ==
  /\ pc[h] = "card"
  /\ card' = [card EXCEPT ![hc[h]] = hv[h]]
  /\ Answer(h)
  /\ UNCHANGED <<machines, memory, rundir, old, vol, agent, faults, history>>

(* The card cannot be written if the run directory has gone meanwhile. *)
Card(h) ==
  /\ pc[h] = "card"
  /\ card' = IF hc[h] \in rundir THEN [card EXCEPT ![hc[h]] = hv[h]] ELSE card
  /\ Answer(h)
  /\ UNCHANGED <<machines, memory, rundir, old, vol, agent, faults, history>>

-----------------------------------------------------------------------------
(* _cell_cleanup, of a stop or of a start that found a dead machine.        *)

CleanedUp(h) ==
  IF h \in starts
  THEN pc' = [pc EXCEPT ![h] = "move"] /\ UNCHANGED <<hc, hv, hk, starts>>
  ELSE Answer(h)

(* The entry goes, and its CID is free at once. *)
TakeOut(h, c) ==
  /\ hv' = [hv EXCEPT ![h] = table[c]]
  /\ table' = [table EXCEPT ![c] = NoVm]
  /\ used' = used \ {cid[table[c]]}

Stop(h, c) ==
  /\ up = "up" /\ pc[h] = "idle" /\ table[c] # NoVm
  /\ pc' = [pc EXCEPT ![h] = "signal"]
  /\ hc' = [hc EXCEPT ![h] = c]
  /\ TakeOut(h, c)
  /\ UNCHANGED <<machines, disk, agent, hk, starts, faults, history>>

(* A stop may have been faster. *)
Pop(h) ==
  /\ pc[h] = "pop"
  /\ IF table[hc[h]] = NoVm
     THEN Step(h, "pop", "move") /\ UNCHANGED <<memory, hv, hk>>
     ELSE Step(h, "pop", "signal") /\ TakeOut(h, hc[h]) /\ UNCHANGED hk
  /\ UNCHANGED <<machines, disk, agent, faults, history>>

(* SIGTERM now, and a thread for a SIGKILL after KILL_GRACE_S. *)
Signal(h) ==
  /\ Step(h, "signal", "rescue")
  /\ told' = told \cup ({hv[h]} \cap live)
  /\ doomed' = doomed \cup ({hv[h]} \cap live)
  /\ hv' = [hv EXCEPT ![h] = NoVm]
  /\ UNCHANGED <<live, cell, cid, born, memory, disk, agent, hk, faults, history>>

(* Mutant of Rescue: the run directory goes even so. *)
RescueGoesOn(h) ==
  /\ Step(h, "rescue", "rmtree")
  /\ \/ MoveDelta(hc[h]) /\ UNCHANGED faults
     \/ Fail /\ Adoptable(hc[h]) /\ UNCHANGED <<vol, old>>
  /\ UNCHANGED <<machines, memory, rundir, card, agent, hv, hk, history>>

(* A delta that cannot be moved keeps the run directory. *)
Rescue(h) ==
  /\ pc[h] = "rescue"
  /\ \/ Step(h, "rescue", "rmtree") /\ MoveDelta(hc[h]) /\ UNCHANGED <<hv, hk, faults>>
     \/ Fail /\ Adoptable(hc[h]) /\ CleanedUp(h) /\ UNCHANGED <<vol, old>>
  /\ UNCHANGED <<machines, memory, rundir, card, agent, history>>

RmTree(h) ==
  /\ pc[h] = "rmtree"
  /\ rundir' = rundir \ {hc[h]}
  /\ card' = [card EXCEPT ![hc[h]] = NoVm]
  /\ old' = [old EXCEPT ![hc[h]] = "none"]
  /\ CleanedUp(h)
  /\ UNCHANGED <<machines, memory, vol, agent, faults, history>>

-----------------------------------------------------------------------------
(* The machines.                                                            *)

Exit(v) ==
  /\ v \in live
  /\ live' = live \ {v} /\ doomed' = doomed \ {v} /\ orphaned' = orphaned \ {v}
  /\ UNCHANGED <<told, cell, cid, born, memory, disk, agent, requests, faults,
                 had, raced, dropped, twice>>

(* The grace is over. *)
HardKill(v) == v \in doomed /\ Exit(v)

(* The guest puts its work onto a delta that it can mount. *)
Write(v) ==
  /\ v \in live /\ vol[cell[v]] = "new"
  /\ vol' = [vol EXCEPT ![cell[v]] = "work"]
  /\ had' = had \cup {cell[v]}
  /\ UNCHANGED <<machines, memory, rundir, card, old, agent, requests, faults,
                 raced, dropped, twice, orphaned>>

-----------------------------------------------------------------------------
(* The agent ends; its threads and its tables end with it.                  *)

Crash ==
  /\ up # "down" /\ Fail
  /\ up' = "down" /\ seen' = {}
  /\ table' = [c \in Cells |-> NoVm] /\ used' = {}
  /\ doomed' = {}
  /\ pc' = [h \in Handlers |-> "idle"] /\ hc' = [h \in Handlers |-> NoCell]
  /\ hv' = [h \in Handlers |-> NoVm] /\ hk' = [h \in Handlers |-> NoCid]
  /\ starts' = {}
  /\ raced' = raced \cup {hc[h] : h \in {g \in Handlers : pc[g] = "signal"}}
  /\ UNCHANGED <<live, told, cell, cid, born, disk, had, dropped, twice, orphaned>>

Restart ==
  /\ up = "down"
  /\ up' = "cards"
  /\ UNCHANGED <<machines, memory, disk, seen, requests, faults, history>>

(* Mutant of Adopt: the CID of a machine that is found is not taken. *)
AdoptWithoutCid(c, v) ==
  /\ table' = [table EXCEPT ![c] = v]
  /\ UNCHANGED <<used, twice>>

Adopt(c, v) ==
  /\ table' = [table EXCEPT ![c] = v]
  /\ used' = used \cup {cid[v]}
  /\ twice' = IF cid[v] \in used THEN twice \cup {cid[v]} ELSE twice

(* A card whose machine runs puts the cell back into the table; one whose   *)
(* machine is over has its delta saved.                                     *)
AdoptCard(c) ==
  /\ up = "cards" /\ c \in rundir \ seen /\ card[c] # NoVm
  /\ seen' = seen \cup {c}
  /\ \/ card[c] \in live /\ Adopt(c, card[c]) /\ UNCHANGED <<vol, old, faults>>
     \/ card[c] \notin live /\ MoveDelta(c) /\ UNCHANGED <<memory, faults, twice>>
     \/ card[c] \notin live /\ Adoptable(c) /\ Fail /\ UNCHANGED <<memory, vol, old, twice>>
  /\ UNCHANGED <<machines, rundir, card, up, requests, had, raced, dropped, orphaned>>

(* Mutant of CardsRead: machines without a card are not looked for. *)
CardsReadIsAll ==
  /\ up = "cards"
  /\ \A c \in rundir : card[c] = NoVm \/ c \in seen
  /\ up' = "up" /\ seen' = {}
  /\ UNCHANGED <<machines, memory, disk, requests, faults, history>>

CardsRead ==
  /\ up = "cards"
  /\ \A c \in rundir : card[c] = NoVm \/ c \in seen
  /\ up' = "procs"
  /\ UNCHANGED <<machines, memory, disk, seen, requests, faults, history>>

(* A machine without a card: its environment says which cell it is, if it   *)
(* can be read (pn-vmm makes itself undumpable, which closes it even to its *)
(* own user).  One machine is taken for each run directory; it is taken     *)
(* even if its card cannot be written.                                      *)
AdoptProc(v) ==
  /\ up = "procs" /\ v \in live \ orphaned /\ cell[v] \notin seen
  /\ seen' = seen \cup {cell[v]}
  /\ \/ rundir' = rundir \cup {cell[v]} /\ card' = [card EXCEPT ![cell[v]] = v]
        /\ UNCHANGED faults
     \/ Fail /\ UNCHANGED <<rundir, card>>
  /\ Adopt(cell[v], v)
  /\ raced' = IF v \in told /\ \E w \in live \ (told \cup orphaned) : cell[w] = cell[v]
              THEN raced \cup {cell[v]} ELSE raced
  /\ UNCHANGED <<machines, old, vol, up, requests, had, dropped, orphaned>>

(* One whose environment is closed is left running: in no table, its CID    *)
(* free for others, and its cell for a start.  It stays closed.             *)
Unreadable(v) ==
  /\ up = "procs" /\ v \in live \ orphaned /\ cell[v] \notin seen
  /\ orphaned' = orphaned \cup {v}
  /\ UNCHANGED <<machines, memory, disk, agent, requests, faults, had, raced, dropped, twice>>

(* Every machine was looked at. *)
Recovered ==
  /\ up = "procs"
  /\ \A v \in live : cell[v] \in seen \/ v \in orphaned
  /\ up' = "up" /\ seen' = {}
  /\ UNCHANGED <<machines, memory, disk, requests, faults, history>>

-----------------------------------------------------------------------------
(* A node at the start of this version of the agent: a cell of the version  *)
(* before may have its delta in its run directory, with a machine that      *)
(* still runs, with the card of one that is over, or alone.                 *)
Init ==
  /\ up = "down" /\ seen = {}
  /\ table = [c \in Cells |-> NoVm] /\ used = {}
  /\ told = {} /\ doomed = {}
  /\ vol = [c \in Cells |-> "none"]
  /\ \/ /\ old = [c \in Cells |-> "none"]
        /\ born = {} /\ card = [c \in Cells |-> NoVm]
        /\ cell = [v \in Vms |-> NoCell] /\ cid = [v \in Vms |-> NoCid]
     \/ \E c \in Cells :
          /\ old = [d \in Cells |-> IF d = c THEN "work" ELSE "none"]
          /\ \/ /\ born = {}
                /\ \E g \in {NoVm, Gone} : card = [d \in Cells |-> IF d = c THEN g ELSE NoVm]
                /\ cell = [v \in Vms |-> NoCell] /\ cid = [v \in Vms |-> NoCid]
             \/ \E w \in Vms, k \in Cids :
                  /\ born = {w}
                  /\ card = [d \in Cells |-> NoVm]
                  /\ cell = [v \in Vms |-> IF v = w THEN c ELSE NoCell]
                  /\ cid = [v \in Vms |-> IF v = w THEN k ELSE NoCid]
  /\ live = born
  /\ rundir = {c \in Cells : old[c] = "work"} /\ had = rundir
  /\ pc = [h \in Handlers |-> "idle"] /\ hc = [h \in Handlers |-> NoCell]
  /\ hv = [h \in Handlers |-> NoVm] /\ hk = [h \in Handlers |-> NoCid]
  /\ starts = {}
  /\ faults = 0 /\ raced = {} /\ dropped = {} /\ twice = {} /\ orphaned = {}

Handler(h) ==
  \/ Refuse(h) \/ Move(h) \/ MkDir(h) \/ Delta(h) \/ Format(h) \/ Cid(h)
  \/ Lanes(h) \/ SpawnFails(h) \/ Register(h) \/ Card(h)
  \/ Pop(h) \/ Signal(h) \/ Rescue(h) \/ RmTree(h)
  \/ \E v \in Vms : Spawn(h, v)

Recovery ==
  \/ Restart \/ CardsRead \/ Recovered
  \/ \E c \in Cells : AdoptCard(c)
  \/ \E v \in Vms : AdoptProc(v) \/ Unreadable(v)

Next ==
  \/ \E h \in Handlers : Handler(h)
  \/ \E h \in Handlers, c \in Cells : Start(h, c) \/ Stop(h, c)
  \/ \E v \in Vms : Exit(v) \/ Write(v)
  \/ Crash \/ Recovery

Spec == Init /\ [][Next]_vars

(* Threads go on, systemd starts the agent again, a SIGKILL works.          *)
Fairness ==
  /\ \A h \in Handlers : WF_vars(Handler(h))
  /\ WF_vars(Recovery)
  /\ \A v \in Vms : WF_vars(HardKill(v))

FairSpec == Spec /\ Fairness

-----------------------------------------------------------------------------
(* Properties.                                                              *)

(* Machines that run, were not told to stop and are not about to be, and    *)
(* that the agent has not given up finding again.                           *)
Serving(c) ==
  {v \in live \ (told \cup orphaned) :
     cell[v] = c /\ \A h \in Handlers : pc[h] = "signal" => hv[h] # v}

(* A cell has one machine on its delta, apart from those that were told to  *)
(* stop and those that a recovery could not adopt (a start boots a second   *)
(* one beside such a machine): through stops and starts that overlap,       *)
(* restarts of the agent, and a start that was cut off, unless starts met   *)
(* or a stop was cut off.                                                   *)
OneMachine == \A c \in Cells \ raced : Cardinality(Serving(c)) <= 1

(* No two cells that run share a guest CID, unless a recovery has taken it  *)
(* for two machines, or could not adopt one of the two (a cell that is      *)
(* still ending has given its CID away already): whichever of them stops    *)
(* first frees it under the other.                                          *)
CidsDistinct ==
  \A c, d \in Cells \ raced : c # d =>
    \A v \in Serving(c), w \in Serving(d) : cid[v] = cid[w] => cid[v] \in twice

(* The work of a cell is on the disk, whatever is cut off or fails, unless  *)
(* a start could not move an old delta (it then removes it with the run     *)
(* directory) or starts met.                                                *)
WorkKept ==
  \A c \in had \ (raced \cup dropped) : "work" \in {vol[c], old[c]}

(* The machine of a cell is in the table, or will be, unless a recovery     *)
(* could not adopt it: however a start was cut off, the agent can answer    *)
(* for the machine again, and stop it.                                      *)
MachinesAreKnown ==
  \A c \in Cells : []<>(Serving(c) \subseteq {table[c]} \/ c \in raced)

=============================================================================
