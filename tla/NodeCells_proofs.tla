--------------------------- MODULE NodeCells_proofs ---------------------------
(***************************************************************************)
(* Proofs about NodeCells, for any cells, CIDs, machines, requests and      *)
(* bounds.                                                                  *)
(*                                                                          *)
(* No lock spans a start or a stop.  What holds is held up by what a        *)
(* request finds at its place in the code (Places), by the entry, the card  *)
(* and the machine of a cell agreeing as long as its starts do not meet     *)
(* (OneStart, Known, Carded), by CIDs having one holder as long as no       *)
(* recovery finds one twice (Held), and by a delta being in one place only  *)
(* (OneDelta).                                                                *)
(***************************************************************************)
EXTENDS NodeCells, FiniteSetTheorems, TLAPS

Booting == {"move", "mkdir", "delta", "format", "cid", "lanes", "spawn", "register"}
Emptied == {"delta", "format", "cid", "lanes", "spawn", "register", "card"}

(* The types, by what they are about. *)
MachineTypes ==
  /\ live \subseteq born /\ told \subseteq born /\ doomed \subseteq told
  /\ born \subseteq Vms
  /\ cell \in [Vms -> Cells \cup {NoCell}]
  /\ cid \in [Vms -> Cids \cup {NoCid}]
  /\ table \in [Cells -> born \cup {NoVm}]
  /\ used \subseteq Cids

DiskTypes ==
  /\ rundir \subseteq Cells
  /\ card \in [Cells -> born \cup {NoVm, Gone}]
  /\ old \in [Cells -> {"none", "work"}]
  /\ vol \in [Cells -> Deltas]
  /\ \A c \in Cells \ rundir : card[c] = NoVm /\ old[c] = "none"

RequestTypes ==
  /\ pc \in [Handlers -> {"idle", "move", "mkdir", "delta", "format", "cid", "lanes",
                          "spawn", "register", "card", "pop", "signal", "rescue", "rmtree"}]
  /\ hc \in [Handlers -> Cells \cup {NoCell}]
  /\ hv \in [Handlers -> born \cup {NoVm}]
  /\ hk \in [Handlers -> Cids \cup {NoCid}]
  /\ starts \subseteq Handlers

OtherTypes ==
  /\ up \in {"down", "cards", "procs", "up"}
  /\ seen \subseteq Cells
  /\ faults \in 0..MaxFaults
  /\ had \subseteq Cells /\ raced \subseteq Cells /\ dropped \subseteq Cells
  /\ twice \subseteq Cids /\ orphaned \subseteq live

(* What a machine, an entry, a card and a request say of their cell. *)
Places ==
  /\ \A v \in born : cell[v] \in Cells /\ cid[v] \in Cids
  /\ \A c \in Cells : table[c] # NoVm => cell[table[c]] = c
  /\ \A c \in Cells : card[c] \in born => cell[card[c]] = c
  /\ \A h \in Handlers :
       /\ pc[h] = "idle" <=> hc[h] = NoCell
       /\ pc[h] \in Booting \cup {"card", "pop"} => h \in starts
       /\ h \in starts => pc[h] # "idle"
       /\ pc[h] \in {"lanes", "spawn"} => hk[h] \in Cids
       /\ pc[h] \in {"register", "card", "signal"} => hv[h] \in born /\ cell[hv[h]] = hc[h]
  /\ up # "up" => \A h \in Handlers : pc[h] = "idle"
  /\ up = "down" => seen = {}

(* The starts of a cell that never met. *)
OneStart ==
  \A c \in Cells \ raced : \A h \in starts : hc[h] = c =>
    /\ \A g \in starts : hc[g] = c => g = h
    /\ pc[h] \notin {"pop", "card"} => table[c] = NoVm
    /\ pc[h] = "card" => table[c] \in {NoVm, hv[h]}
    /\ pc[h] \in Emptied => card[c] = NoVm

(* The entry, or the request that is about to make it, has the machine. *)
Known ==
  \A c \in Cells \ raced : \A v \in Serving(c) :
    /\ up = "up" \/ c \in seen =>
         \/ table[c] = v
         \/ \E h \in starts : pc[h] = "register" /\ hc[h] = c /\ hv[h] = v
    /\ card[c] \in {NoVm, v}
    /\ \A w \in Serving(c) : v = w

(* Who has a CID: an entry, or a start before its entry. *)
HasCid(h) == pc[h] \in {"lanes", "spawn", "register"}
CidOf(h) == IF pc[h] = "register" THEN cid[hv[h]] ELSE hk[h]

Held ==
  /\ \A c \in Cells : table[c] # NoVm => cid[table[c]] \in used \cup twice
  /\ \A h \in Handlers : HasCid(h) => CidOf(h) \in used \cup twice
  /\ \A c, d \in Cells : c # d /\ table[c] # NoVm /\ table[d] # NoVm =>
       (cid[table[c]] = cid[table[d]] => cid[table[c]] \in twice)
  /\ \A g, h \in Handlers : g # h /\ HasCid(g) /\ HasCid(h) =>
       (CidOf(g) = CidOf(h) => CidOf(g) \in twice)
  /\ \A c \in Cells, h \in Handlers : table[c] # NoVm /\ HasCid(h) =>
       (cid[table[c]] = CidOf(h) => CidOf(h) \in twice)

(* The delta of a cell is in one place. *)
OneDelta ==
  \A c \in Cells \ (raced \cup dropped) :
    /\ c \in had => "work" \in {vol[c], old[c]}
    /\ old[c] = "work" => vol[c] = "none"
    /\ \A h \in Handlers : hc[h] = c =>
         /\ pc[h] \in {"mkdir", "delta", "format", "rmtree"} => old[c] = "none"
         /\ pc[h] = "format" => vol[c] = "raw"

(* While the agent recovers, no request can give a CID away. *)
Apart == up # "up" => CidsDistinct

Inv == TypeOK /\ Places /\ OneStart /\ Known /\ Held /\ OneDelta /\ Apart

-----------------------------------------------------------------------------
(* What Inv gives: the machine of a cell that serves has an entry or a      *)
(* request of its own, and these hold different CIDs.                       *)
LEMMA InvDistinct == Inv => CidsDistinct
  <1> SUFFICES ASSUME Inv, up = "up",
                      NEW c \in Cells \ raced, NEW d \in Cells \ raced, c # d,
                      NEW v \in Serving(c), NEW w \in Serving(d), cid[v] = cid[w]
               PROVE  cid[v] \in twice
    BY DEF Inv, Apart, CidsDistinct
  <1> USE DEF Inv, TypeOK, Held, HasCid, CidOf
  <1>k. v # NoVm /\ w # NoVm BY NodeAssumption DEF Serving
  <1>1. \/ table[c] = v
        \/ \E h \in Handlers : pc[h] = "register" /\ hc[h] = c /\ hv[h] = v
    BY DEF Known
  <1>2. \/ table[d] = w
        \/ \E h \in Handlers : pc[h] = "register" /\ hc[h] = d /\ hv[h] = w
    BY DEF Known
  <1>3. CASE table[c] = v /\ table[d] = w BY <1>k, <1>3
  <1>4. CASE table[c] # v \/ table[d] # w BY <1>k, <1>1, <1>2, <1>4
  <1> QED BY <1>3, <1>4

LEMMA InvAtFirst == Init => Inv
  <1> SUFFICES ASSUME Init PROVE Inv OBVIOUS
  <1> USE NodeAssumption DEF Init
  <1>1. TypeOK
    <2>1. MachineTypes BY DEF MachineTypes
    <2>2. DiskTypes BY DEF DiskTypes, Deltas
    <2>3. RequestTypes BY DEF RequestTypes
    <2>4. OtherTypes BY DEF OtherTypes
    <2> QED BY <2>1, <2>2, <2>3, <2>4
      DEF TypeOK, MachineTypes, DiskTypes, RequestTypes, OtherTypes
  <1>2. Places BY DEF Places, Booting
  <1>3. OneStart BY DEF OneStart
  <1>4. Known BY DEF Known, Serving
  <1>5. Held BY DEF Held, HasCid, CidOf
  <1>6. OneDelta BY DEF OneDelta
  <1>7. Apart BY DEF Apart, CidsDistinct, Serving
  <1> QED BY <1>1, <1>2, <1>3, <1>4, <1>5, <1>6, <1>7 DEF Inv

LEMMA InvIfStill == Inv /\ UNCHANGED vars => Inv'
  <1> SUFFICES ASSUME Inv, UNCHANGED vars PROVE Inv' OBVIOUS
  <1> USE DEF Inv, vars, machines, memory, disk, agent, requests, history
  <1>1. TypeOK' BY DEF TypeOK
  <1>2. Places' /\ OneStart' BY DEF Places, OneStart
  <1>3. Known' /\ Apart' BY DEF Known, Apart, CidsDistinct, Serving
  <1>4. Held' /\ OneDelta' BY DEF Held, HasCid, CidOf, OneDelta
  <1> QED BY <1>1, <1>2, <1>3, <1>4

(* CIDs keep their holders in a step that changes no entry and lets at most *)
(* some requests go on without theirs.                                      *)
LEMMA HeldStays ==
  ASSUME Held, UNCHANGED <<table, used, twice, cid>>,
         \A h \in Handlers : HasCid(h)' => HasCid(h) /\ CidOf(h)' = CidOf(h)
  PROVE  Held'
  BY DEF Held

(* So do machines and entries, if besides cards only go and no request that *)
(* is about to make an entry or to signal a machine takes a step.           *)
LEMMA KnownStays ==
  ASSUME Known, UNCHANGED <<live, told, orphaned, cell, table, up, seen, raced>>,
         \A c \in Cells : card'[c] \in {card[c], NoVm},
         \A g \in Handlers : pc[g] = "signal" => pc'[g] = "signal" /\ hv'[g] = hv[g],
         \A g \in starts : pc[g] = "register" =>
           g \in starts' /\ pc'[g] = "register" /\ hc'[g] = hc[g] /\ hv'[g] = hv[g]
  PROVE  Known'
  <1>1. \A c \in Cells : Serving(c)' \subseteq Serving(c) BY DEF Serving
  <1> SUFFICES ASSUME NEW c \in Cells \ raced, NEW v \in Serving(c)'
               PROVE  (/\ up = "up" \/ c \in seen =>
                            \/ table[c] = v
                            \/ \E h \in starts : pc[h] = "register" /\ hc[h] = c /\ hv[h] = v
                       /\ card[c] \in {NoVm, v}
                       /\ \A w \in Serving(c) : v = w)'
    BY DEF Known
  <1> QED BY <1>1 DEF Known

-----------------------------------------------------------------------------
(* The steps of a start. *)

LEMMA StartKeeps ==
  ASSUME Inv, NEW h \in Handlers, NEW c \in Cells, Start(h, c)
  PROVE  Inv'
  <1> USE NodeAssumption DEF Inv, Start, Meets,
             machines, memory, disk, agent, requests, history
  <1>1. TypeOK'
    <2>1. MachineTypes' BY DEF TypeOK, Places, MachineTypes
    <2>2. DiskTypes' BY DEF TypeOK, Deltas, DiskTypes
    <2>3. RequestTypes' BY DEF TypeOK, Places, RequestTypes
    <2>4. OtherTypes' BY DEF TypeOK, Places, OtherTypes
    <2> QED BY <2>1, <2>2, <2>3, <2>4
      DEF TypeOK, MachineTypes, DiskTypes, RequestTypes, OtherTypes
  <1>2. Places' BY DEF TypeOK, Places, Booting
  <1>3. OneStart' BY DEF TypeOK, Places, OneStart, Booting, Emptied
  <1>4. Known' BY DEF TypeOK, Places, OneStart, Known, Serving, Booting, Emptied
  <1>5. Held'
    <2>1. \A g \in Handlers : HasCid(g)' => HasCid(g) /\ CidOf(g)' = CidOf(g)
      BY DEF TypeOK, Places, HasCid, CidOf, Booting
    <2> QED BY <2>1, HeldStays
  <1>6. OneDelta' BY DEF TypeOK, Places, OneStart, OneDelta, Booting, Deltas
  <1>7. Apart' BY DEF TypeOK, Places, Apart, Booting, CidsDistinct, Serving
  <1> QED BY <1>1, <1>2, <1>3, <1>4, <1>5, <1>6, <1>7

LEMMA RefuseKeeps ==
  ASSUME Inv, NEW h \in Handlers, Refuse(h)
  PROVE  Inv'
  <1> USE NodeAssumption DEF Inv, Refuse, Answer,
             machines, memory, disk, agent, requests, history
  <1>1. TypeOK'
    <2>1. MachineTypes' BY DEF TypeOK, Places, MachineTypes
    <2>2. DiskTypes' BY DEF TypeOK, Deltas, DiskTypes
    <2>3. RequestTypes' BY DEF TypeOK, Places, RequestTypes
    <2>4. OtherTypes' BY DEF TypeOK, Places, OtherTypes
    <2> QED BY <2>1, <2>2, <2>3, <2>4
      DEF TypeOK, MachineTypes, DiskTypes, RequestTypes, OtherTypes
  <1>2. Places' BY DEF TypeOK, Places, Booting
  <1>3. OneStart' BY DEF TypeOK, Places, OneStart, Booting, Emptied
  <1>4. Known' BY DEF TypeOK, Places, OneStart, Known, Serving, Booting, Emptied
  <1>5. Held'
    <2>1. \A g \in Handlers : HasCid(g)' => HasCid(g) /\ CidOf(g)' = CidOf(g)
      BY DEF TypeOK, Places, HasCid, CidOf, Booting
    <2> QED BY <2>1, HeldStays
  <1>6. OneDelta' BY DEF TypeOK, Places, OneStart, OneDelta, Booting, Deltas
  <1>7. Apart' BY DEF TypeOK, Places, Apart, Booting, CidsDistinct, Serving
  <1> QED BY <1>1, <1>2, <1>3, <1>4, <1>5, <1>6, <1>7

LEMMA MoveKeeps ==
  ASSUME Inv, NEW h \in Handlers, Move(h)
  PROVE  Inv'
  <1> USE NodeAssumption DEF Inv, Move, Step, MoveDelta, Adoptable, Fail,
             machines, memory, disk, agent, requests, history
  <1>1. TypeOK'
    <2>1. MachineTypes' BY DEF TypeOK, Places, MachineTypes
    <2>2. DiskTypes' BY DEF TypeOK, Deltas, DiskTypes
    <2>3. RequestTypes' BY DEF TypeOK, Places, RequestTypes
    <2>4. OtherTypes' BY DEF TypeOK, Places, OtherTypes
    <2> QED BY <2>1, <2>2, <2>3, <2>4
      DEF TypeOK, MachineTypes, DiskTypes, RequestTypes, OtherTypes
  <1>2. Places' BY DEF TypeOK, Places, Booting
  <1>3. OneStart' BY DEF TypeOK, Places, OneStart, Booting, Emptied
  <1>4. Known' BY DEF TypeOK, Places, OneStart, Known, Serving, Booting, Emptied
  <1>5. Held'
    <2>1. \A g \in Handlers : HasCid(g)' => HasCid(g) /\ CidOf(g)' = CidOf(g)
      BY DEF TypeOK, Places, HasCid, CidOf, Booting
    <2> QED BY <2>1, HeldStays
  <1>6. OneDelta' BY DEF TypeOK, Places, OneStart, OneDelta, Booting, Deltas
  <1>7. Apart' BY DEF TypeOK, Places, Apart, Booting, CidsDistinct, Serving
  <1> QED BY <1>1, <1>2, <1>3, <1>4, <1>5, <1>6, <1>7

LEMMA MkDirKeeps ==
  ASSUME Inv, NEW h \in Handlers, MkDir(h)
  PROVE  Inv'
  <1> USE NodeAssumption DEF Inv, MkDir, Step, Fail, Answer,
             machines, memory, disk, agent, requests, history
  <1>k. hc[h] \in Cells BY DEF TypeOK, Places, Booting
  <1>1. TypeOK'
    <2>1. MachineTypes' BY DEF TypeOK, Places, MachineTypes
    <2>2. DiskTypes'
      <3>1. (rundir \subseteq Cells)' BY <1>k DEF TypeOK, Deltas
      <3>2. (card \in [Cells -> born \cup {NoVm, Gone}])' BY DEF TypeOK, Deltas
      <3>3. (old \in [Cells -> {"none", "work"}])' BY DEF TypeOK, Deltas
      <3>4. (vol \in [Cells -> Deltas])' BY DEF TypeOK, Deltas
      <3>5. (\A c \in Cells \ rundir : card[c] = NoVm /\ old[c] = "none")' BY DEF TypeOK, Deltas
      <3> QED BY <3>1, <3>2, <3>3, <3>4, <3>5 DEF DiskTypes
    <2>3. RequestTypes' BY DEF TypeOK, Places, RequestTypes
    <2>4. OtherTypes' BY DEF TypeOK, Places, OtherTypes
    <2> QED BY <2>1, <2>2, <2>3, <2>4
      DEF TypeOK, MachineTypes, DiskTypes, RequestTypes, OtherTypes
  <1>2. Places' BY DEF TypeOK, Places, Booting
  <1>3. OneStart' BY DEF TypeOK, Places, OneStart, Booting, Emptied
  <1>4. Known'
    <2>1. \A c \in Cells : card'[c] \in {card[c], NoVm} BY DEF TypeOK
    <2>2. \A g \in Handlers : pc[g] = "signal" => pc'[g] = "signal" /\ hv'[g] = hv[g]
      BY DEF TypeOK
    <2>3. \A g \in starts : pc[g] = "register" =>
            g \in starts' /\ pc'[g] = "register" /\ hc'[g] = hc[g] /\ hv'[g] = hv[g]
      BY DEF TypeOK
    <2> QED BY <2>1, <2>2, <2>3, KnownStays
  <1>5. Held'
    <2>1. \A g \in Handlers : HasCid(g)' => HasCid(g) /\ CidOf(g)' = CidOf(g)
      BY DEF TypeOK, Places, HasCid, CidOf, Booting
    <2> QED BY <2>1, HeldStays
  <1>6. OneDelta' BY DEF TypeOK, Places, OneStart, OneDelta, Booting, Deltas
  <1>7. Apart' BY DEF TypeOK, Places, Apart, Booting, CidsDistinct, Serving
  <1> QED BY <1>1, <1>2, <1>3, <1>4, <1>5, <1>6, <1>7

LEMMA DeltaKeeps ==
  ASSUME Inv, NEW h \in Handlers, Delta(h)
  PROVE  Inv'
  <1> USE NodeAssumption DEF Inv, Delta, Step,
             machines, memory, disk, agent, requests, history
  <1>1. TypeOK'
    <2>1. MachineTypes' BY DEF TypeOK, Places, MachineTypes
    <2>2. DiskTypes'
      <3>1. (rundir \subseteq Cells)' BY DEF TypeOK, Deltas
      <3>2. (card \in [Cells -> born \cup {NoVm, Gone}])' BY DEF TypeOK, Deltas
      <3>3. (old \in [Cells -> {"none", "work"}])' BY DEF TypeOK, Deltas
      <3>4. (vol \in [Cells -> Deltas])' BY DEF TypeOK, Deltas
      <3>5. (\A c \in Cells \ rundir : card[c] = NoVm /\ old[c] = "none")' BY DEF TypeOK, Deltas
      <3> QED BY <3>1, <3>2, <3>3, <3>4, <3>5 DEF DiskTypes
    <2>3. RequestTypes' BY DEF TypeOK, Places, RequestTypes
    <2>4. OtherTypes' BY DEF TypeOK, Places, OtherTypes
    <2> QED BY <2>1, <2>2, <2>3, <2>4
      DEF TypeOK, MachineTypes, DiskTypes, RequestTypes, OtherTypes
  <1>2. Places' BY DEF TypeOK, Places, Booting
  <1>3. OneStart' BY DEF TypeOK, Places, OneStart, Booting, Emptied
  <1>4. Known' BY DEF TypeOK, Places, OneStart, Known, Serving, Booting, Emptied
  <1>5. Held'
    <2>1. \A g \in Handlers : HasCid(g)' => HasCid(g) /\ CidOf(g)' = CidOf(g)
      BY DEF TypeOK, Places, HasCid, CidOf, Booting
    <2> QED BY <2>1, HeldStays
  <1>6. OneDelta' BY DEF TypeOK, Places, OneStart, OneDelta, Booting, Deltas
  <1>7. Apart' BY DEF TypeOK, Places, Apart, Booting, CidsDistinct, Serving
  <1> QED BY <1>1, <1>2, <1>3, <1>4, <1>5, <1>6, <1>7

LEMMA FormatKeeps ==
  ASSUME Inv, NEW h \in Handlers, Format(h)
  PROVE  Inv'
  <1> USE NodeAssumption DEF Inv, Format, Step, Fail, Answer,
             machines, memory, disk, agent, requests, history
  <1>1. TypeOK'
    <2>1. MachineTypes' BY DEF TypeOK, Places, MachineTypes
    <2>2. DiskTypes' BY DEF TypeOK, Deltas, DiskTypes
    <2>3. RequestTypes' BY DEF TypeOK, Places, RequestTypes
    <2>4. OtherTypes' BY DEF TypeOK, Places, OtherTypes
    <2> QED BY <2>1, <2>2, <2>3, <2>4
      DEF TypeOK, MachineTypes, DiskTypes, RequestTypes, OtherTypes
  <1>2. Places' BY DEF TypeOK, Places, Booting
  <1>3. OneStart' BY DEF TypeOK, Places, OneStart, Booting, Emptied
  <1>4. Known' BY DEF TypeOK, Places, OneStart, Known, Serving, Booting, Emptied
  <1>5. Held'
    <2>1. \A g \in Handlers : HasCid(g)' => HasCid(g) /\ CidOf(g)' = CidOf(g)
      BY DEF TypeOK, Places, HasCid, CidOf, Booting
    <2> QED BY <2>1, HeldStays
  <1>6. OneDelta' BY DEF TypeOK, Places, OneStart, OneDelta, Booting, Deltas
  <1>7. Apart' BY DEF TypeOK, Places, Apart, Booting, CidsDistinct, Serving
  <1> QED BY <1>1, <1>2, <1>3, <1>4, <1>5, <1>6, <1>7

LEMMA CidKeeps ==
  ASSUME Inv, NEW h \in Handlers, Cid(h)
  PROVE  Inv'
  <1> USE NodeAssumption DEF Inv, Cid, Step, Answer,
             machines, memory, disk, agent, requests, history
  <1>k. used' \subseteq used \cup Cids BY DEF TypeOK
  <1>1. TypeOK'
    <2>1. MachineTypes'
      <3>1. (/\ live \subseteq born /\ told \subseteq born
             /\ doomed \subseteq told /\ born \subseteq Vms)'
        BY DEF TypeOK, Places
      <3>2. (/\ cell \in [Vms -> Cells \cup {NoCell}]
             /\ cid \in [Vms -> Cids \cup {NoCid}])'
        BY DEF TypeOK, Places
      <3>3. (table \in [Cells -> born \cup {NoVm}])' BY DEF TypeOK, Places
      <3>4. (used \subseteq Cids)' BY <1>k DEF TypeOK, Places
      <3> QED BY <3>1, <3>2, <3>3, <3>4 DEF MachineTypes
    <2>2. DiskTypes' BY DEF TypeOK, Deltas, DiskTypes
    <2>3. RequestTypes' BY DEF TypeOK, Places, RequestTypes
    <2>4. OtherTypes' BY DEF TypeOK, Places, OtherTypes
    <2> QED BY <2>1, <2>2, <2>3, <2>4
      DEF TypeOK, MachineTypes, DiskTypes, RequestTypes, OtherTypes
  <1>2. Places' BY DEF TypeOK, Places, Booting
  <1>3. OneStart' BY DEF TypeOK, Places, OneStart, Booting, Emptied
  <1>4. Known' BY DEF TypeOK, Places, OneStart, Known, Serving, Booting, Emptied
  <1>5. Held' BY DEF TypeOK, Places, Held, HasCid, CidOf, Booting
  <1>6. OneDelta' BY DEF TypeOK, Places, OneStart, OneDelta, Booting, Deltas
  <1>7. Apart' BY DEF TypeOK, Places, Apart, Booting, CidsDistinct, Serving
  <1> QED BY <1>1, <1>2, <1>3, <1>4, <1>5, <1>6, <1>7

LEMMA LanesKeeps ==
  ASSUME Inv, NEW h \in Handlers, Lanes(h)
  PROVE  Inv'
  <1> USE NodeAssumption DEF Inv, Lanes, Step, GiveUp, Answer,
             machines, memory, disk, agent, requests, history
  <1>1. TypeOK'
    <2>1. MachineTypes'
      <3>1. (/\ live \subseteq born /\ told \subseteq born
             /\ doomed \subseteq told /\ born \subseteq Vms)'
        BY DEF TypeOK, Places
      <3>2. (/\ cell \in [Vms -> Cells \cup {NoCell}]
             /\ cid \in [Vms -> Cids \cup {NoCid}])'
        BY DEF TypeOK, Places
      <3>3. (table \in [Cells -> born \cup {NoVm}])' BY DEF TypeOK, Places
      <3>4. (used \subseteq Cids)' BY DEF TypeOK, Places
      <3> QED BY <3>1, <3>2, <3>3, <3>4 DEF MachineTypes
    <2>2. DiskTypes' BY DEF TypeOK, Deltas, DiskTypes
    <2>3. RequestTypes' BY DEF TypeOK, Places, RequestTypes
    <2>4. OtherTypes' BY DEF TypeOK, Places, OtherTypes
    <2> QED BY <2>1, <2>2, <2>3, <2>4
      DEF TypeOK, MachineTypes, DiskTypes, RequestTypes, OtherTypes
  <1>2. Places' BY DEF TypeOK, Places, Booting
  <1>3. OneStart' BY DEF TypeOK, Places, OneStart, Booting, Emptied
  <1>4. Known'
    <2>1. \A c \in Cells : card'[c] \in {card[c], NoVm} BY DEF TypeOK
    <2>2. \A g \in Handlers : pc[g] = "signal" => pc'[g] = "signal" /\ hv'[g] = hv[g]
      BY DEF TypeOK
    <2>3. \A g \in starts : pc[g] = "register" =>
            g \in starts' /\ pc'[g] = "register" /\ hc'[g] = hc[g] /\ hv'[g] = hv[g]
      BY DEF TypeOK
    <2> QED BY <2>1, <2>2, <2>3, KnownStays
  <1>5. Held' BY DEF TypeOK, Places, Held, HasCid, CidOf, Booting
  <1>6. OneDelta' BY DEF TypeOK, Places, OneStart, OneDelta, Booting, Deltas
  <1>7. Apart' BY DEF TypeOK, Places, Apart, Booting, CidsDistinct, Serving
  <1> QED BY <1>1, <1>2, <1>3, <1>4, <1>5, <1>6, <1>7

LEMMA SpawnKeeps ==
  ASSUME Inv, NEW h \in Handlers, NEW v \in Vms, Spawn(h, v)
  PROVE  Inv'
  <1> USE NodeAssumption DEF Inv, Spawn, Step,
             machines, memory, disk, agent, requests, history
  <1>1. TypeOK'
    <2>1. MachineTypes' BY DEF TypeOK, Places, MachineTypes
    <2>2. DiskTypes' BY DEF TypeOK, Deltas, DiskTypes
    <2>3. RequestTypes' BY DEF TypeOK, Places, RequestTypes
    <2>4. OtherTypes' BY DEF TypeOK, Places, OtherTypes
    <2> QED BY <2>1, <2>2, <2>3, <2>4
      DEF TypeOK, MachineTypes, DiskTypes, RequestTypes, OtherTypes
  <1>2. Places' BY DEF TypeOK, Places, Booting
  <1>3. OneStart' BY DEF TypeOK, Places, OneStart, Booting, Emptied
  <1>4. Known' BY SMTT(20) DEF TypeOK, Places, OneStart, Known, Serving, Booting, Emptied
  <1>5. Held' BY DEF TypeOK, Places, Held, HasCid, CidOf, Booting
  <1>6. OneDelta' BY DEF TypeOK, Places, OneStart, OneDelta, Booting, Deltas
  <1>7. Apart' BY DEF TypeOK, Places, Apart, Booting, CidsDistinct, Serving
  <1> QED BY <1>1, <1>2, <1>3, <1>4, <1>5, <1>6, <1>7

LEMMA SpawnFailsKeeps ==
  ASSUME Inv, NEW h \in Handlers, SpawnFails(h)
  PROVE  Inv'
  <1> USE NodeAssumption DEF Inv, SpawnFails, GiveUp, Answer, Fail,
             machines, memory, disk, agent, requests, history
  <1>1. TypeOK'
    <2>1. MachineTypes'
      <3>1. (/\ live \subseteq born /\ told \subseteq born
             /\ doomed \subseteq told /\ born \subseteq Vms)'
        BY DEF TypeOK, Places
      <3>2. (/\ cell \in [Vms -> Cells \cup {NoCell}]
             /\ cid \in [Vms -> Cids \cup {NoCid}])'
        BY DEF TypeOK, Places
      <3>3. (table \in [Cells -> born \cup {NoVm}])' BY DEF TypeOK, Places
      <3>4. (used \subseteq Cids)' BY DEF TypeOK, Places
      <3> QED BY <3>1, <3>2, <3>3, <3>4 DEF MachineTypes
    <2>2. DiskTypes' BY DEF TypeOK, Deltas, DiskTypes
    <2>3. RequestTypes' BY DEF TypeOK, Places, RequestTypes
    <2>4. OtherTypes' BY DEF TypeOK, Places, OtherTypes
    <2> QED BY <2>1, <2>2, <2>3, <2>4
      DEF TypeOK, MachineTypes, DiskTypes, RequestTypes, OtherTypes
  <1>2. Places' BY DEF TypeOK, Places, Booting
  <1>3. OneStart' BY DEF TypeOK, Places, OneStart, Booting, Emptied
  <1>4. Known' BY DEF TypeOK, Places, OneStart, Known, Serving, Booting, Emptied
  <1>5. Held' BY DEF TypeOK, Places, Held, HasCid, CidOf, Booting
  <1>6. OneDelta' BY DEF TypeOK, Places, OneStart, OneDelta, Booting, Deltas
  <1>7. Apart' BY DEF TypeOK, Places, Apart, Booting, CidsDistinct, Serving
  <1> QED BY <1>1, <1>2, <1>3, <1>4, <1>5, <1>6, <1>7

LEMMA RegisterKeeps ==
  ASSUME Inv, NEW h \in Handlers, Register(h)
  PROVE  Inv'
  <1> USE NodeAssumption DEF Inv, Register, Step,
             machines, memory, disk, agent, requests, history
  <1>1. TypeOK'
    <2>1. MachineTypes' BY DEF TypeOK, Places, MachineTypes
    <2>2. DiskTypes' BY DEF TypeOK, Deltas, DiskTypes
    <2>3. RequestTypes' BY DEF TypeOK, Places, RequestTypes
    <2>4. OtherTypes' BY DEF TypeOK, Places, OtherTypes
    <2> QED BY <2>1, <2>2, <2>3, <2>4
      DEF TypeOK, MachineTypes, DiskTypes, RequestTypes, OtherTypes
  <1>2. Places' BY DEF TypeOK, Places, Booting
  <1>3. OneStart' BY DEF TypeOK, Places, OneStart, Booting, Emptied
  <1>4. Known' BY DEF TypeOK, Places, OneStart, Known, Serving, Booting, Emptied
  <1>5. Held' BY DEF TypeOK, Places, Held, HasCid, CidOf, Booting
  <1>6. OneDelta' BY DEF TypeOK, Places, OneStart, OneDelta, Booting, Deltas
  <1>7. Apart' BY DEF TypeOK, Places, Apart, Booting, CidsDistinct, Serving
  <1> QED BY <1>1, <1>2, <1>3, <1>4, <1>5, <1>6, <1>7

LEMMA CardKeeps ==
  ASSUME Inv, NEW h \in Handlers, Card(h)
  PROVE  Inv'
  <1> USE NodeAssumption DEF Inv, Card, Answer,
             machines, memory, disk, agent, requests, history
  <1>1. TypeOK'
    <2>1. MachineTypes' BY DEF TypeOK, Places, MachineTypes
    <2>2. DiskTypes' BY DEF TypeOK, Deltas, DiskTypes
    <2>3. RequestTypes' BY DEF TypeOK, Places, RequestTypes
    <2>4. OtherTypes' BY DEF TypeOK, Places, OtherTypes
    <2> QED BY <2>1, <2>2, <2>3, <2>4
      DEF TypeOK, MachineTypes, DiskTypes, RequestTypes, OtherTypes
  <1>2. Places' BY DEF TypeOK, Places, Booting
  <1>3. OneStart' BY DEF TypeOK, Places, OneStart, Booting, Emptied
  <1>4. Known' BY DEF TypeOK, Places, OneStart, Known, Serving, Booting, Emptied
  <1>5. Held'
    <2>1. \A g \in Handlers : HasCid(g)' => HasCid(g) /\ CidOf(g)' = CidOf(g)
      BY DEF TypeOK, Places, HasCid, CidOf, Booting
    <2> QED BY <2>1, HeldStays
  <1>6. OneDelta' BY DEF TypeOK, Places, OneStart, OneDelta, Booting, Deltas
  <1>7. Apart' BY DEF TypeOK, Places, Apart, Booting, CidsDistinct, Serving
  <1> QED BY <1>1, <1>2, <1>3, <1>4, <1>5, <1>6, <1>7

-----------------------------------------------------------------------------
(* The steps of a stop, and of a start that cleans up first. *)

LEMMA StopKeeps ==
  ASSUME Inv, NEW h \in Handlers, NEW c \in Cells, Stop(h, c)
  PROVE  Inv'
  <1> USE NodeAssumption DEF Inv, Stop, TakeOut,
             machines, memory, disk, agent, requests, history
  <1>1. TypeOK'
    <2>1. MachineTypes'
      <3>1. (/\ live \subseteq born /\ told \subseteq born
             /\ doomed \subseteq told /\ born \subseteq Vms)'
        BY DEF TypeOK, Places
      <3>2. (/\ cell \in [Vms -> Cells \cup {NoCell}]
             /\ cid \in [Vms -> Cids \cup {NoCid}])'
        BY DEF TypeOK, Places
      <3>3. (table \in [Cells -> born \cup {NoVm}])' BY DEF TypeOK, Places
      <3>4. (used \subseteq Cids)' BY DEF TypeOK, Places
      <3> QED BY <3>1, <3>2, <3>3, <3>4 DEF MachineTypes
    <2>2. DiskTypes' BY DEF TypeOK, Deltas, DiskTypes
    <2>3. RequestTypes' BY DEF TypeOK, Places, RequestTypes
    <2>4. OtherTypes' BY DEF TypeOK, Places, OtherTypes
    <2> QED BY <2>1, <2>2, <2>3, <2>4
      DEF TypeOK, MachineTypes, DiskTypes, RequestTypes, OtherTypes
  <1>2. Places' BY DEF TypeOK, Places, Booting
  <1>3. OneStart' BY DEF TypeOK, Places, OneStart, Booting, Emptied
  <1>4. Known' BY DEF TypeOK, Places, OneStart, Known, Serving, Booting, Emptied
  <1>5. Held' BY DEF TypeOK, Places, Held, HasCid, CidOf, Booting
  <1>6. OneDelta' BY DEF TypeOK, Places, OneStart, OneDelta, Booting, Deltas
  <1>7. Apart' BY DEF TypeOK, Places, Apart, Booting, CidsDistinct, Serving
  <1> QED BY <1>1, <1>2, <1>3, <1>4, <1>5, <1>6, <1>7

LEMMA PopKeeps ==
  ASSUME Inv, NEW h \in Handlers, Pop(h)
  PROVE  Inv'
  <1> USE NodeAssumption DEF Inv, Pop, Step, TakeOut,
             machines, memory, disk, agent, requests, history
  <1>1. TypeOK'
    <2>1. MachineTypes'
      <3>1. (/\ live \subseteq born /\ told \subseteq born
             /\ doomed \subseteq told /\ born \subseteq Vms)'
        BY DEF TypeOK, Places
      <3>2. (/\ cell \in [Vms -> Cells \cup {NoCell}]
             /\ cid \in [Vms -> Cids \cup {NoCid}])'
        BY DEF TypeOK, Places
      <3>3. (table \in [Cells -> born \cup {NoVm}])' BY DEF TypeOK, Places
      <3>4. (used \subseteq Cids)'
        <4>1. used' \subseteq used OBVIOUS
        <4> QED BY <4>1 DEF TypeOK
      <3> QED BY <3>1, <3>2, <3>3, <3>4 DEF MachineTypes
    <2>2. DiskTypes' BY DEF TypeOK, Deltas, DiskTypes
    <2>3. RequestTypes' BY DEF TypeOK, Places, RequestTypes
    <2>4. OtherTypes' BY DEF TypeOK, Places, OtherTypes
    <2> QED BY <2>1, <2>2, <2>3, <2>4
      DEF TypeOK, MachineTypes, DiskTypes, RequestTypes, OtherTypes
  <1>2. Places' BY DEF TypeOK, Places, Booting
  <1>3. OneStart' BY DEF TypeOK, Places, OneStart, Booting, Emptied
  <1>4. Known' BY DEF TypeOK, Places, OneStart, Known, Serving, Booting, Emptied
  <1>5. Held'
    <2> USE DEF TypeOK, Places, Held, HasCid, CidOf, Booting
    <2>1. CASE table[hc[h]] = NoVm BY <2>1
    <2>2. CASE table[hc[h]] # NoVm
      <3>1. hc[h] \in Cells OBVIOUS
      <3>2. \A c \in Cells : table'[c] # NoVm => c # hc[h] /\ table'[c] = table[c]
        BY <2>2, <3>1
      <3>3. \A g \in Handlers : HasCid(g)' => g # h /\ HasCid(g) /\ CidOf(g)' = CidOf(g)
        BY <2>2
      <3>4. \A k \in used : k # cid[table[hc[h]]] => k \in used' BY <2>2
      <3>5. \A c \in Cells, g \in Handlers : table[c] # NoVm /\ HasCid(g) =>
              (cid[table[c]] = CidOf(g) => CidOf(g) \in twice)
        OBVIOUS
      <3> HIDE DEF Pop, Step, TakeOut, TypeOK, Places, HasCid, CidOf
      <3>6. twice' = twice /\ cid' = cid BY DEF Pop, Step, TakeOut
      <3> QED BY <2>2, <3>1, <3>2, <3>3, <3>4, <3>5, <3>6
    <2> QED BY <2>1, <2>2
  <1>6. OneDelta' BY DEF TypeOK, Places, OneStart, OneDelta, Booting, Deltas
  <1>7. Apart' BY DEF TypeOK, Places, Apart, Booting, CidsDistinct, Serving
  <1> QED BY <1>1, <1>2, <1>3, <1>4, <1>5, <1>6, <1>7

LEMMA SignalKeeps ==
  ASSUME Inv, NEW h \in Handlers, Signal(h)
  PROVE  Inv'
  <1> USE NodeAssumption DEF Inv, Signal, Step,
             machines, memory, disk, agent, requests, history
  <1>1. TypeOK'
    <2>1. MachineTypes' BY DEF TypeOK, Places, MachineTypes
    <2>2. DiskTypes' BY DEF TypeOK, Deltas, DiskTypes
    <2>3. RequestTypes' BY DEF TypeOK, Places, RequestTypes
    <2>4. OtherTypes' BY DEF TypeOK, Places, OtherTypes
    <2> QED BY <2>1, <2>2, <2>3, <2>4
      DEF TypeOK, MachineTypes, DiskTypes, RequestTypes, OtherTypes
  <1>2. Places' BY DEF TypeOK, Places, Booting
  <1>3. OneStart' BY DEF TypeOK, Places, OneStart, Booting, Emptied
  <1>4. Known' BY DEF TypeOK, Places, OneStart, Known, Serving, Booting, Emptied
  <1>5. Held'
    <2>1. \A g \in Handlers : HasCid(g)' => HasCid(g) /\ CidOf(g)' = CidOf(g)
      BY DEF TypeOK, Places, HasCid, CidOf, Booting
    <2> QED BY <2>1, HeldStays
  <1>6. OneDelta' BY DEF TypeOK, Places, OneStart, OneDelta, Booting, Deltas
  <1>7. Apart' BY DEF TypeOK, Places, Apart, Booting, CidsDistinct, Serving
  <1> QED BY <1>1, <1>2, <1>3, <1>4, <1>5, <1>6, <1>7

LEMMA RescueKeeps ==
  ASSUME Inv, NEW h \in Handlers, Rescue(h)
  PROVE  Inv'
  <1> USE NodeAssumption DEF Inv, Rescue, Step, MoveDelta, Adoptable, Fail, CleanedUp, Answer,
             machines, memory, disk, agent, requests, history
  <1>1. TypeOK'
    <2>1. MachineTypes' BY DEF TypeOK, Places, MachineTypes
    <2>2. DiskTypes' BY DEF TypeOK, Deltas, DiskTypes
    <2>3. RequestTypes' BY DEF TypeOK, Places, RequestTypes
    <2>4. OtherTypes' BY DEF TypeOK, Places, OtherTypes
    <2> QED BY <2>1, <2>2, <2>3, <2>4
      DEF TypeOK, MachineTypes, DiskTypes, RequestTypes, OtherTypes
  <1>2. Places' BY DEF TypeOK, Places, Booting
  <1>3. OneStart' BY DEF TypeOK, Places, OneStart, Booting, Emptied
  <1>4. Known' BY DEF TypeOK, Places, OneStart, Known, Serving, Booting, Emptied
  <1>5. Held'
    <2>1. \A g \in Handlers : HasCid(g)' => HasCid(g) /\ CidOf(g)' = CidOf(g)
      BY DEF TypeOK, Places, HasCid, CidOf, Booting
    <2> QED BY <2>1, HeldStays
  <1>6. OneDelta' BY DEF TypeOK, Places, OneStart, OneDelta, Booting, Deltas
  <1>7. Apart' BY DEF TypeOK, Places, Apart, Booting, CidsDistinct, Serving
  <1> QED BY <1>1, <1>2, <1>3, <1>4, <1>5, <1>6, <1>7

LEMMA RmTreeKeeps ==
  ASSUME Inv, NEW h \in Handlers, RmTree(h)
  PROVE  Inv'
  <1> USE NodeAssumption DEF Inv, RmTree, CleanedUp, Answer,
             machines, memory, disk, agent, requests, history
  <1>1. TypeOK'
    <2>1. MachineTypes' BY DEF TypeOK, Places, MachineTypes
    <2>2. DiskTypes'
      <3>1. (rundir \subseteq Cells)' BY DEF TypeOK, Deltas
      <3>2. (card \in [Cells -> born \cup {NoVm, Gone}])' BY DEF TypeOK, Deltas
      <3>3. (old \in [Cells -> {"none", "work"}])' BY DEF TypeOK, Deltas
      <3>4. (vol \in [Cells -> Deltas])' BY DEF TypeOK, Deltas
      <3>5. (\A c \in Cells \ rundir : card[c] = NoVm /\ old[c] = "none")' BY DEF TypeOK, Deltas
      <3> QED BY <3>1, <3>2, <3>3, <3>4, <3>5 DEF DiskTypes
    <2>3. RequestTypes' BY DEF TypeOK, Places, RequestTypes
    <2>4. OtherTypes' BY DEF TypeOK, Places, OtherTypes
    <2> QED BY <2>1, <2>2, <2>3, <2>4
      DEF TypeOK, MachineTypes, DiskTypes, RequestTypes, OtherTypes
  <1>2. Places' BY DEF TypeOK, Places, Booting
  <1>3. OneStart' BY DEF TypeOK, Places, OneStart, Booting, Emptied
  <1>4. Known' BY DEF TypeOK, Places, OneStart, Known, Serving, Booting, Emptied
  <1>5. Held'
    <2>1. \A g \in Handlers : HasCid(g)' => HasCid(g) /\ CidOf(g)' = CidOf(g)
      BY DEF TypeOK, Places, HasCid, CidOf, Booting
    <2> QED BY <2>1, HeldStays
  <1>6. OneDelta' BY DEF TypeOK, Places, OneStart, OneDelta, Booting, Deltas
  <1>7. Apart' BY DEF TypeOK, Places, Apart, Booting, CidsDistinct, Serving
  <1> QED BY <1>1, <1>2, <1>3, <1>4, <1>5, <1>6, <1>7

-----------------------------------------------------------------------------
(* The machines, and the end of the agent. *)

LEMMA ExitKeeps ==
  ASSUME Inv, NEW v \in Vms, Exit(v)
  PROVE  Inv'
  <1> USE NodeAssumption DEF Inv, Exit,
             machines, memory, disk, agent, requests, history
  <1>1. TypeOK'
    <2>1. MachineTypes' BY DEF TypeOK, Places, MachineTypes
    <2>2. DiskTypes' BY DEF TypeOK, Deltas, DiskTypes
    <2>3. RequestTypes' BY DEF TypeOK, Places, RequestTypes
    <2>4. OtherTypes' BY DEF TypeOK, Places, OtherTypes
    <2> QED BY <2>1, <2>2, <2>3, <2>4
      DEF TypeOK, MachineTypes, DiskTypes, RequestTypes, OtherTypes
  <1>2. Places' BY DEF TypeOK, Places, Booting
  <1>3. OneStart' BY DEF TypeOK, Places, OneStart, Booting, Emptied
  <1>4. Known' BY DEF TypeOK, Places, OneStart, Known, Serving, Booting, Emptied
  <1>5. Held'
    <2>1. \A g \in Handlers : HasCid(g)' => HasCid(g) /\ CidOf(g)' = CidOf(g)
      BY DEF TypeOK, Places, HasCid, CidOf, Booting
    <2> QED BY <2>1, HeldStays
  <1>6. OneDelta' BY DEF TypeOK, Places, OneStart, OneDelta, Booting, Deltas
  <1>7. Apart' BY DEF TypeOK, Places, Apart, Booting, CidsDistinct, Serving
  <1> QED BY <1>1, <1>2, <1>3, <1>4, <1>5, <1>6, <1>7

LEMMA WriteKeeps ==
  ASSUME Inv, NEW v \in Vms, Write(v)
  PROVE  Inv'
  <1> USE NodeAssumption DEF Inv, Write,
             machines, memory, disk, agent, requests, history
  <1>1. TypeOK'
    <2>1. MachineTypes' BY DEF TypeOK, Places, MachineTypes
    <2>2. DiskTypes'
      <3>1. (rundir \subseteq Cells)' BY DEF TypeOK, Deltas
      <3>2. (card \in [Cells -> born \cup {NoVm, Gone}])' BY DEF TypeOK, Deltas
      <3>3. (old \in [Cells -> {"none", "work"}])' BY DEF TypeOK, Deltas
      <3>4. (vol \in [Cells -> Deltas])' BY DEF TypeOK, Deltas
      <3>5. (\A c \in Cells \ rundir : card[c] = NoVm /\ old[c] = "none")' BY DEF TypeOK, Deltas
      <3> QED BY <3>1, <3>2, <3>3, <3>4, <3>5 DEF DiskTypes
    <2>3. RequestTypes' BY DEF TypeOK, Places, RequestTypes
    <2>4. OtherTypes' BY DEF TypeOK, Places, OtherTypes
    <2> QED BY <2>1, <2>2, <2>3, <2>4
      DEF TypeOK, MachineTypes, DiskTypes, RequestTypes, OtherTypes
  <1>2. Places' BY DEF TypeOK, Places, Booting
  <1>3. OneStart' BY DEF TypeOK, Places, OneStart, Booting, Emptied
  <1>4. Known' BY DEF TypeOK, Places, OneStart, Known, Serving, Booting, Emptied
  <1>5. Held'
    <2>1. \A g \in Handlers : HasCid(g)' => HasCid(g) /\ CidOf(g)' = CidOf(g)
      BY DEF TypeOK, Places, HasCid, CidOf, Booting
    <2> QED BY <2>1, HeldStays
  <1>6. OneDelta' BY DEF TypeOK, Places, OneStart, OneDelta, Booting, Deltas
  <1>7. Apart' BY DEF TypeOK, Places, Apart, Booting, CidsDistinct, Serving
  <1> QED BY <1>1, <1>2, <1>3, <1>4, <1>5, <1>6, <1>7

LEMMA CrashKeeps ==
  ASSUME Inv, Crash
  PROVE  Inv'
  <1> USE NodeAssumption DEF Inv, Crash, Fail,
             machines, memory, disk, agent, requests, history
  <1>1. TypeOK'
    <2>1. MachineTypes' BY DEF TypeOK, Places, MachineTypes
    <2>2. DiskTypes' BY DEF TypeOK, Deltas, DiskTypes
    <2>3. RequestTypes' BY DEF TypeOK, Places, RequestTypes
    <2>4. OtherTypes' BY DEF TypeOK, Places, OtherTypes
    <2> QED BY <2>1, <2>2, <2>3, <2>4
      DEF TypeOK, MachineTypes, DiskTypes, RequestTypes, OtherTypes
  <1>2. Places' BY DEF TypeOK, Places, Booting
  <1>3. OneStart' BY DEF TypeOK, Places, OneStart, Booting, Emptied
  <1>4. Known' BY DEF TypeOK, Places, OneStart, Known, Serving, Booting, Emptied
  <1>5. Held' BY DEF TypeOK, Places, Held, HasCid, CidOf, Booting
  <1>6. OneDelta' BY DEF TypeOK, Places, OneStart, OneDelta, Booting, Deltas
  <1>7. Apart'
    <2>1. \A c \in Cells \ raced' : Serving(c)' \subseteq Serving(c)
      BY DEF TypeOK, Places, Serving
    <2>2. raced \subseteq raced' /\ twice' = twice /\ cid' = cid OBVIOUS
    <2> QED BY <2>1, <2>2, InvDistinct DEF Apart, CidsDistinct
  <1> QED BY <1>1, <1>2, <1>3, <1>4, <1>5, <1>6, <1>7

-----------------------------------------------------------------------------
(* The recovery. *)

LEMMA RestartKeeps ==
  ASSUME Inv, Restart
  PROVE  Inv'
  <1> USE NodeAssumption DEF Inv, Restart,
             machines, memory, disk, agent, requests, history
  <1>1. TypeOK'
    <2>1. MachineTypes' BY DEF TypeOK, Places, MachineTypes
    <2>2. DiskTypes' BY DEF TypeOK, Deltas, DiskTypes
    <2>3. RequestTypes' BY DEF TypeOK, Places, RequestTypes
    <2>4. OtherTypes' BY DEF TypeOK, Places, OtherTypes
    <2> QED BY <2>1, <2>2, <2>3, <2>4
      DEF TypeOK, MachineTypes, DiskTypes, RequestTypes, OtherTypes
  <1>2. Places' BY DEF TypeOK, Places, Booting
  <1>3. OneStart' BY DEF TypeOK, Places, OneStart, Booting, Emptied
  <1>4. Known' BY DEF TypeOK, Places, OneStart, Known, Serving, Booting, Emptied
  <1>5. Held'
    <2>1. \A g \in Handlers : HasCid(g)' => HasCid(g) /\ CidOf(g)' = CidOf(g)
      BY DEF TypeOK, Places, HasCid, CidOf, Booting
    <2> QED BY <2>1, HeldStays
  <1>6. OneDelta' BY DEF TypeOK, Places, OneStart, OneDelta, Booting, Deltas
  <1>7. Apart' BY DEF TypeOK, Places, Apart, Booting, CidsDistinct, Serving
  <1> QED BY <1>1, <1>2, <1>3, <1>4, <1>5, <1>6, <1>7

LEMMA AdoptCardKeeps ==
  ASSUME Inv, NEW c \in Cells, AdoptCard(c)
  PROVE  Inv'
  <1> USE NodeAssumption DEF Inv, AdoptCard, Adopt, MoveDelta, Adoptable, Fail,
             machines, memory, disk, agent, requests, history
  <1>k. used' \subseteq used \cup Cids /\ twice' \subseteq twice \cup Cids
    <2>1. CASE card[c] \in live
      <3>1. cid[card[c]] \in Cids BY <2>1 DEF TypeOK, Places
      <3> QED BY <2>1, <3>1
    <2>2. CASE card[c] \notin live BY <2>2
    <2> QED BY <2>1, <2>2
  <1>1. TypeOK'
    <2>1. MachineTypes'
      <3>1. (/\ live \subseteq born /\ told \subseteq born
             /\ doomed \subseteq told /\ born \subseteq Vms)'
        BY DEF TypeOK, Places
      <3>2. (/\ cell \in [Vms -> Cells \cup {NoCell}]
             /\ cid \in [Vms -> Cids \cup {NoCid}])'
        BY DEF TypeOK, Places
      <3>3. (table \in [Cells -> born \cup {NoVm}])' BY DEF TypeOK, Places
      <3>4. (used \subseteq Cids)' BY <1>k DEF TypeOK, Places
      <3> QED BY <3>1, <3>2, <3>3, <3>4 DEF MachineTypes
    <2>2. DiskTypes' BY DEF TypeOK, Deltas, DiskTypes
    <2>3. RequestTypes' BY DEF TypeOK, Places, RequestTypes
    <2>4. OtherTypes'
      <3>1. (up \in {"down", "cards", "procs", "up"} /\ seen \subseteq Cells)' BY DEF TypeOK, Places
      <3>2. (faults \in 0..MaxFaults)' BY DEF TypeOK, Places
      <3>3. (had \subseteq Cells /\ raced \subseteq Cells /\ dropped \subseteq Cells)'
        BY DEF TypeOK, Places
      <3>4. (twice \subseteq Cids /\ orphaned \subseteq live)' BY <1>k DEF TypeOK, Places
      <3> QED BY <3>1, <3>2, <3>3, <3>4 DEF OtherTypes
    <2> QED BY <2>1, <2>2, <2>3, <2>4
      DEF TypeOK, MachineTypes, DiskTypes, RequestTypes, OtherTypes
  <1>2. Places' BY DEF TypeOK, Places, Booting
  <1>3. OneStart' BY DEF TypeOK, Places, OneStart, Booting, Emptied
  <1>4. Known' BY DEF TypeOK, Places, OneStart, Known, Serving, Booting, Emptied
  <1>5. Held' BY DEF TypeOK, Places, Held, HasCid, CidOf, Booting
  <1>6. OneDelta' BY DEF TypeOK, Places, OneStart, OneDelta, Booting, Deltas
  <1>7. Apart' BY DEF TypeOK, Places, Apart, Booting, CidsDistinct, Serving
  <1> QED BY <1>1, <1>2, <1>3, <1>4, <1>5, <1>6, <1>7

LEMMA CardsReadKeeps ==
  ASSUME Inv, CardsRead
  PROVE  Inv'
  <1> USE NodeAssumption DEF Inv, CardsRead,
             machines, memory, disk, agent, requests, history
  <1>1. TypeOK'
    <2>1. MachineTypes' BY DEF TypeOK, Places, MachineTypes
    <2>2. DiskTypes' BY DEF TypeOK, Deltas, DiskTypes
    <2>3. RequestTypes' BY DEF TypeOK, Places, RequestTypes
    <2>4. OtherTypes' BY DEF TypeOK, Places, OtherTypes
    <2> QED BY <2>1, <2>2, <2>3, <2>4
      DEF TypeOK, MachineTypes, DiskTypes, RequestTypes, OtherTypes
  <1>2. Places' BY DEF TypeOK, Places, Booting
  <1>3. OneStart' BY DEF TypeOK, Places, OneStart, Booting, Emptied
  <1>4. Known' BY DEF TypeOK, Places, OneStart, Known, Serving, Booting, Emptied
  <1>5. Held'
    <2>1. \A g \in Handlers : HasCid(g)' => HasCid(g) /\ CidOf(g)' = CidOf(g)
      BY DEF TypeOK, Places, HasCid, CidOf, Booting
    <2> QED BY <2>1, HeldStays
  <1>6. OneDelta' BY DEF TypeOK, Places, OneStart, OneDelta, Booting, Deltas
  <1>7. Apart' BY DEF TypeOK, Places, Apart, Booting, CidsDistinct, Serving
  <1> QED BY <1>1, <1>2, <1>3, <1>4, <1>5, <1>6, <1>7

LEMMA AdoptProcKeeps ==
  ASSUME Inv, NEW v \in Vms, AdoptProc(v)
  PROVE  Inv'
  <1> USE NodeAssumption DEF Inv, AdoptProc, Adopt, Fail,
             machines, memory, disk, agent, requests, history
  <1>k. cell[v] \in Cells /\ cid[v] \in Cids BY DEF TypeOK, Places
  <1>t. twice' \subseteq twice \cup Cids BY <1>k
  <1>1. TypeOK'
    <2>1. MachineTypes'
      <3>1. (/\ live \subseteq born /\ told \subseteq born
             /\ doomed \subseteq told /\ born \subseteq Vms)'
        BY DEF TypeOK, Places
      <3>2. (/\ cell \in [Vms -> Cells \cup {NoCell}]
             /\ cid \in [Vms -> Cids \cup {NoCid}])'
        BY DEF TypeOK, Places
      <3>3. (table \in [Cells -> born \cup {NoVm}])' BY DEF TypeOK, Places
      <3>4. (used \subseteq Cids)' BY <1>k DEF TypeOK, Places
      <3> QED BY <3>1, <3>2, <3>3, <3>4 DEF MachineTypes
    <2>2. DiskTypes'
      <3>1. (rundir \subseteq Cells)' BY <1>k DEF TypeOK, Deltas
      <3>2. (card \in [Cells -> born \cup {NoVm, Gone}])' BY DEF TypeOK, Deltas
      <3>3. (old \in [Cells -> {"none", "work"}])' BY DEF TypeOK, Deltas
      <3>4. (vol \in [Cells -> Deltas])' BY DEF TypeOK, Deltas
      <3>5. (\A c \in Cells \ rundir : card[c] = NoVm /\ old[c] = "none")' BY DEF TypeOK, Deltas
      <3> QED BY <3>1, <3>2, <3>3, <3>4, <3>5 DEF DiskTypes
    <2>3. RequestTypes' BY DEF TypeOK, Places, RequestTypes
    <2>4. OtherTypes'
      <3>1. (up \in {"down", "cards", "procs", "up"} /\ seen \subseteq Cells)' BY DEF TypeOK, Places
      <3>2. (faults \in 0..MaxFaults)' BY DEF TypeOK, Places
      <3>3. (had \subseteq Cells /\ raced \subseteq Cells /\ dropped \subseteq Cells)'
        BY DEF TypeOK, Places
      <3>4. (twice \subseteq Cids /\ orphaned \subseteq live)' BY <1>t DEF TypeOK, Places
      <3> QED BY <3>1, <3>2, <3>3, <3>4 DEF OtherTypes
    <2> QED BY <2>1, <2>2, <2>3, <2>4
      DEF TypeOK, MachineTypes, DiskTypes, RequestTypes, OtherTypes
  <1>2. Places' BY DEF TypeOK, Places, Booting
  <1>3. OneStart' BY DEF TypeOK, Places, OneStart, Booting, Emptied
  <1>4. Known' BY DEF TypeOK, Places, OneStart, Known, Serving, Booting, Emptied
  <1>5. Held' BY DEF TypeOK, Places, Held, HasCid, CidOf, Booting
  <1>6. OneDelta' BY DEF TypeOK, Places, OneStart, OneDelta, Booting, Deltas
  <1>7. Apart' BY DEF TypeOK, Places, Apart, Booting, CidsDistinct, Serving
  <1> QED BY <1>1, <1>2, <1>3, <1>4, <1>5, <1>6, <1>7

LEMMA UnreadableKeeps ==
  ASSUME Inv, NEW v \in Vms, Unreadable(v)
  PROVE  Inv'
  <1> USE NodeAssumption DEF Inv, Unreadable,
             machines, memory, disk, agent, requests, history
  <1>1. TypeOK'
    <2>1. MachineTypes' BY DEF TypeOK, Places, MachineTypes
    <2>2. DiskTypes' BY DEF TypeOK, Deltas, DiskTypes
    <2>3. RequestTypes' BY DEF TypeOK, Places, RequestTypes
    <2>4. OtherTypes' BY DEF TypeOK, Places, OtherTypes
    <2> QED BY <2>1, <2>2, <2>3, <2>4
      DEF TypeOK, MachineTypes, DiskTypes, RequestTypes, OtherTypes
  <1>2. Places' BY DEF TypeOK, Places, Booting
  <1>3. OneStart' BY DEF TypeOK, Places, OneStart, Booting, Emptied
  <1>4. Known' BY DEF TypeOK, Places, OneStart, Known, Serving, Booting, Emptied
  <1>5. Held'
    <2>1. \A g \in Handlers : HasCid(g)' => HasCid(g) /\ CidOf(g)' = CidOf(g)
      BY DEF TypeOK, Places, HasCid, CidOf, Booting
    <2> QED BY <2>1, HeldStays
  <1>6. OneDelta' BY DEF TypeOK, Places, OneStart, OneDelta, Booting, Deltas
  <1>7. Apart' BY DEF TypeOK, Places, Apart, Booting, CidsDistinct, Serving
  <1> QED BY <1>1, <1>2, <1>3, <1>4, <1>5, <1>6, <1>7

LEMMA RecoveredKeeps ==
  ASSUME Inv, Recovered
  PROVE  Inv'
  <1> USE NodeAssumption DEF Inv, Recovered,
             machines, memory, disk, agent, requests, history
  <1>1. TypeOK'
    <2>1. MachineTypes' BY DEF TypeOK, Places, MachineTypes
    <2>2. DiskTypes' BY DEF TypeOK, Deltas, DiskTypes
    <2>3. RequestTypes' BY DEF TypeOK, Places, RequestTypes
    <2>4. OtherTypes' BY DEF TypeOK, Places, OtherTypes
    <2> QED BY <2>1, <2>2, <2>3, <2>4
      DEF TypeOK, MachineTypes, DiskTypes, RequestTypes, OtherTypes
  <1>2. Places' BY DEF TypeOK, Places, Booting
  <1>3. OneStart' BY DEF TypeOK, Places, OneStart, Booting, Emptied
  <1>4. Known' BY DEF TypeOK, Places, OneStart, Known, Serving, Booting, Emptied
  <1>5. Held'
    <2>1. \A g \in Handlers : HasCid(g)' => HasCid(g) /\ CidOf(g)' = CidOf(g)
      BY DEF TypeOK, Places, HasCid, CidOf, Booting
    <2> QED BY <2>1, HeldStays
  <1>6. OneDelta' BY DEF TypeOK, Places, OneStart, OneDelta, Booting, Deltas
  <1>7. Apart' BY DEF TypeOK, Places, Apart, Booting, CidsDistinct, Serving
  <1> QED BY <1>1, <1>2, <1>3, <1>4, <1>5, <1>6, <1>7

-----------------------------------------------------------------------------
LEMMA InvKept == Inv /\ [Next]_vars => Inv'
  <1> SUFFICES ASSUME Inv, [Next]_vars PROVE Inv' OBVIOUS
  <1>1. ASSUME NEW h \in Handlers, Handler(h) PROVE Inv'
    BY <1>1, RefuseKeeps, MoveKeeps, MkDirKeeps, DeltaKeeps, FormatKeeps, CidKeeps, LanesKeeps,
       SpawnKeeps, SpawnFailsKeeps, RegisterKeeps, CardKeeps, PopKeeps, SignalKeeps,
       RescueKeeps, RmTreeKeeps
    DEF Handler
  <1>2. ASSUME NEW h \in Handlers, NEW c \in Cells, Start(h, c) \/ Stop(h, c) PROVE Inv'
    BY <1>2, StartKeeps, StopKeeps
  <1>3. ASSUME NEW v \in Vms, Exit(v) \/ Write(v) PROVE Inv' BY <1>3, ExitKeeps, WriteKeeps
  <1>4. CASE Recovery
    BY <1>4, RestartKeeps, AdoptCardKeeps, CardsReadKeeps, AdoptProcKeeps,
       UnreadableKeeps, RecoveredKeeps
    DEF Recovery
  <1> QED BY <1>1, <1>2, <1>3, <1>4, CrashKeeps, InvIfStill DEF Next

LEMMA AlwaysInv == Spec => []Inv
  BY InvAtFirst, InvKept, PTL DEF Spec

(* The types of NodeCells: the agent's tables, the run directories, cards   *)
(* and deltas, and where each request thread is (pn_node_agentd.py).        *)
THEOREM TypeCorrect == Spec => []TypeOK
  <1>1. Inv => TypeOK BY DEF Inv
  <1> QED BY <1>1, AlwaysInv, PTL

(* A cell whose starts do not meet has one machine on its delta: whatever   *)
(* stops overlap with, wherever a start was cut off, and however often the  *)
(* agent finds its machines again (_wiederaufnahme).  A machine whose       *)
(* environment was closed to a recovery may run beside it.                  *)
THEOREM OneMachineAlways == Spec => []OneMachine
  <1>1. Inv => OneMachine
    <2> SUFFICES ASSUME Inv, NEW c \in Cells \ raced PROVE Cardinality(Serving(c)) <= 1
      BY DEF OneMachine
    <2>1. \A v, w \in Serving(c) : v = w BY DEF Inv, Known
    <2>2. CASE Serving(c) = {} BY <2>2, FS_EmptySet
    <2>3. ASSUME NEW v \in Serving(c) PROVE Cardinality(Serving(c)) <= 1
      <3>1. Serving(c) = {v} BY <2>1, <2>3
      <3>2. Cardinality({v}) = 1 BY FS_Singleton, Zenon
      <3> QED BY <3>1, <3>2
    <2> QED BY <2>2, <2>3
  <1> QED BY <1>1, AlwaysInv, PTL

(* Guest CIDs: _alloc_node_cid and _cell_cleanup keep the CIDs of the cells *)
(* that serve apart, but for those that a recovery has found twice and      *)
(* those of machines that it could not adopt.                               *)
THEOREM CidsStayDistinct == Spec => []CidsDistinct
  BY InvDistinct, AlwaysInv, PTL

(* The work of a cell is never off the disk: each start, stop and recovery  *)
(* moves the delta before anything removes the directory it was in.         *)
THEOREM WorkIsKept == Spec => []WorkKept
  <1>1. Inv => WorkKept BY DEF Inv, OneDelta, WorkKept, TypeOK
  <1> QED BY <1>1, AlwaysInv, PTL

=============================================================================
