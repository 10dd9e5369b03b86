---------------------------- MODULE AdapterProofs ----------------------------
(***************************************************************************)
(* One adapter, for every table size, ring size, set of ids and sequence   *)
(* of frames: probing, accounting, the order of what is staged, the record *)
(* store it implements, and what observe mode predicts.                    *)
(***************************************************************************)
EXTENDS RolloutModes, NumberFacts, FiniteSetTheorems

(***************************************************************************)
(* Probing, on any table t.                                                *)
(***************************************************************************)
IdAt(t, i, s) == t[i] # Free /\ t[i].subscriber_id = s

OneSlotEach(t) ==
    \A i, j \in Slots : t[i] # Free /\ t[j] # Free
                        /\ t[i].subscriber_id = t[j].subscriber_id => i = j

PathFull(t) ==
    \A i \in Slots : t[i] # Free =>
        \A k \in 0 .. (i - (t[i].subscriber_id % RecordCap)) % RecordCap :
            t[((t[i].subscriber_id % RecordCap) + k) % RecordCap] # Free

Tables == [Slots -> Records \cup {Free}]

LEMMA ReachableParts == SlotsReachable <=> OneSlotEach(table) /\ PathFull(table)
BY DEF SlotsReachable, OneSlotEach, PathFull

LEMMA SlotArithmetic ==
    /\ Slots \subseteq Nat /\ RecordCap \in Nat \ {0}
    /\ \A s \in Subscribers : s \in Nat /\ s % RecordCap \in Slots
    /\ \A s \in Subscribers, k \in Slots :
          Probe(s, k) \in Slots /\ (Probe(s, k) - (s % RecordCap)) % RecordCap = k
    /\ \A s \in Subscribers, i \in Slots :
          /\ (i - (s % RecordCap)) % RecordCap \in Slots
          /\ Probe(s, (i - (s % RecordCap)) % RecordCap) = i
<1>1. /\ Slots \subseteq Nat /\ RecordCap \in Nat \ {0}
      /\ \A s \in Subscribers : s \in Nat /\ s % RecordCap \in 0 .. RecordCap - 1
  BY CapacityAssumption, SubscribersAssumption DEF Slots
<1>. QED
  BY <1>1, OffsetReaches, OffsetIsUnique DEF Slots, Probe

(* lookup_slot stops at the first slot that is free or holds the id.       *)
LEMMA ProbeStops ==
    ASSUME NEW s \in Subscribers, HasSlot(s)
    PROVE  \E k \in Slots : /\ SlotOf(s) = Probe(s, k) /\ Stops(s, k)
                            /\ \A j \in 0 .. k - 1 : ~Stops(s, j)
<1>. DEFINE stops == {k \in Slots : Stops(s, k)}
<1>1. stops \in SUBSET Nat /\ stops # {}
  BY SlotArithmetic DEF HasSlot
<1>2. PICK m \in stops : \A n \in stops : m <= n
  BY <1>1, SmallestExists
<1>3. m \in Slots /\ Stops(s, m)
  BY <1>2
<1>4. ASSUME NEW j \in 0 .. m - 1 PROVE ~Stops(s, j)
  <2>1. j \in Slots /\ j < m
    BY <1>3, CapacityAssumption DEF Slots
  <2>. QED
    BY <1>2, <2>1, SlotArithmetic
<1>. DEFINE k == CHOOSE k \in Slots : Stops(s, k) /\ \A j \in 0 .. k - 1 : ~Stops(s, j)
<1>5. k \in Slots /\ Stops(s, k) /\ \A j \in 0 .. k - 1 : ~Stops(s, j)
  BY <1>3, <1>4
<1>. QED
  BY <1>5 DEF SlotOf

(* The slot it finds is the only one that may hold the id, and it lies on  *)
(* a full path from where the id hashes to.                                *)
LEMMA FoundSlot ==
    ASSUME SlotsReachable, NEW s \in Subscribers, HasSlot(s)
    PROVE  /\ SlotOf(s) \in Slots
           /\ table[SlotOf(s)] # Free => table[SlotOf(s)].subscriber_id = s
           /\ \A i \in Slots : IdAt(table, i, s) => i = SlotOf(s)
           /\ \A k \in 0 .. (SlotOf(s) - (s % RecordCap)) % RecordCap :
                 Probe(s, k) = SlotOf(s) \/ table[Probe(s, k)] # Free
<1>. DEFINE p == SlotOf(s)
            home == s % RecordCap
<1>1. PICK k \in Slots : /\ p = Probe(s, k) /\ Stops(s, k)
                         /\ \A j \in 0 .. k - 1 : ~Stops(s, j)
  BY ProbeStops
<1>2. p \in Slots /\ (p - home) % RecordCap = k
  BY <1>1, SlotArithmetic
<1>3. k \in Nat
  BY <1>1, SlotArithmetic
<1>. HIDE DEF p
<1>4. table[p] # Free => table[p].subscriber_id = s
  BY <1>1 DEF Stops
<1>5. ASSUME NEW i \in Slots, IdAt(table, i, s) PROVE i = p
  <2>1. CASE table[p] # Free
    BY <1>2, <1>4, <1>5, <2>1, ReachableParts DEF OneSlotEach, IdAt
  <2>2. CASE table[p] = Free
    <3>. DEFINE d == (i - home) % RecordCap
    <3>1. d \in Slots /\ Probe(s, d) = i /\ d \in Nat
      BY SlotArithmetic
    <3>2. \A j \in 0 .. d : table[Probe(s, j)] # Free
      <4>1. \A j \in 0 .. d : table[(home + j) % RecordCap] # Free
        BY <1>5, ReachableParts DEF PathFull, IdAt
      <4>. QED
        BY <4>1 DEF Probe
    <3>. HIDE DEF d
    <3>3. Stops(s, d)
      BY <1>5, <3>1 DEF Stops, IdAt
    <3>4. ~(d < k)
      BY <1>1, <1>3, <3>1, <3>3
    <3>5. k \in 0 .. d
      BY <1>3, <3>1, <3>4
    <3>. QED
      BY <1>1, <2>2, <3>2, <3>5
  <2>. QED
    BY <2>1, <2>2
<1>6. ASSUME NEW j \in 0 .. k PROVE Probe(s, j) = p \/ table[Probe(s, j)] # Free
  <2>1. CASE j = k
    BY <1>1, <2>1
  <2>2. CASE j # k
    <3>1. j \in 0 .. k - 1
      BY <1>3, <2>2
    <3>. QED
      BY <1>1, <3>1 DEF Stops
  <2>. QED
    BY <2>1, <2>2
<1>. QED
  BY <1>2, <1>4, <1>5, <1>6 DEF p

(***************************************************************************)
(* Storing a record of the subscriber that was looked up.                  *)
(***************************************************************************)
LEMMA StoreReachable ==
    ASSUME table \in Tables, SlotsReachable, NEW s \in Subscribers, HasSlot(s),
           NEW r \in Records, r.subscriber_id = s, Store(s, r)
    PROVE  /\ table' \in Tables /\ SlotsReachable'
           /\ table'[SlotOf(s)] = r
           /\ \A i \in Slots : i # SlotOf(s) => table'[i] = table[i]
<1>. DEFINE p == SlotOf(s)
            home == s % RecordCap
<1>1. /\ p \in Slots
      /\ table[p] # Free => table[p].subscriber_id = s
      /\ \A i \in Slots : IdAt(table, i, s) => i = p
      /\ \A k \in 0 .. (p - home) % RecordCap : Probe(s, k) = p \/ table[Probe(s, k)] # Free
  BY FoundSlot
<1>. HIDE DEF p
<1>2. /\ table' \in Tables /\ table'[p] = r
      /\ \A i \in Slots : i # p => table'[i] = table[i]
  BY <1>1 DEF Store, Tables, p
<1>3. r # Free
  BY FreeAssumption
<1>4. \A i \in Slots : table[i] # Free => table'[i] # Free
  BY <1>1, <1>2, <1>3
<1>5. OneSlotEach(table')
  <2>. SUFFICES ASSUME NEW i \in Slots, NEW j \in Slots, table'[i] # Free, table'[j] # Free,
                       table'[i].subscriber_id = table'[j].subscriber_id
                PROVE  i = j
    BY DEF OneSlotEach
  <2>. QED
    BY <1>1, <1>2, ReachableParts DEF OneSlotEach, IdAt
<1>6. PathFull(table')
  <2>. SUFFICES ASSUME NEW i \in Slots, table'[i] # Free,
                       NEW k \in 0 .. (i - (table'[i].subscriber_id % RecordCap)) % RecordCap
                PROVE  table'[((table'[i].subscriber_id % RecordCap) + k) % RecordCap] # Free
    BY DEF PathFull
  <2>1. CASE i = p
    <3>1. table'[i].subscriber_id = s
      BY <1>2, <2>1
    <3>2. k \in 0 .. (p - home) % RecordCap
      BY <2>1, <3>1
    <3>3. k \in Slots
      BY <1>1, <3>2, SlotArithmetic, CapacityAssumption DEF Slots
    <3>4. Probe(s, k) \in Slots
      BY <3>3, SlotArithmetic
    <3>5. table'[Probe(s, k)] # Free
      BY <1>1, <1>2, <1>3, <1>4, <3>2, <3>4
    <3>. QED
      BY <3>1, <3>5 DEF Probe
  <2>2. CASE i # p
    <3>1. table'[i] = table[i]
      BY <1>2, <2>2
    <3>2. table[i] \in Records
      BY <3>1 DEF Tables
    <3>. DEFINE t == table[i].subscriber_id
    <3>3. t \in Subscribers
      BY <3>2 DEF Records
    <3>. HIDE DEF t
    <3>4. table[Probe(t, k)] # Free
      BY <3>1, ReachableParts DEF PathFull, Probe, t
    <3>5. (i - (t % RecordCap)) % RecordCap \in Slots
      BY <3>3, SlotArithmetic
    <3>6. k \in Slots
      BY <3>1, <3>5, CapacityAssumption DEF Slots, t
    <3>7. Probe(t, k) \in Slots
      BY <3>3, <3>6, SlotArithmetic
    <3>8. table'[Probe(t, k)] # Free
      BY <1>4, <3>4, <3>7
    <3>. QED
      BY <3>1, <3>8 DEF Probe, t
  <2>. QED
    BY <2>1, <2>2
<1>7. SlotsReachable'
  BY <1>5, <1>6 DEF SlotsReachable, OneSlotEach, PathFull
<1>. QED
  BY <1>2, <1>7 DEF p

LEMMA SweptFacts ==
    ASSUME NEW r \in Records
    PROVE  /\ Swept(r) \in Records
           /\ Swept(r).subscriber_id = r.subscriber_id
           /\ Swept(r).owner_epoch = r.owner_epoch
           /\ Swept(r).generation = r.generation
           /\ Swept(r).owner_box = Unowned
<1>1. Unowned \in Owners /\ "UNOWNED" \in OwnershipState
  BY DEF Owners, OwnershipState
<1>. QED
  BY <1>1 DEF Swept, Records

(* A sweep changes neither which slots are used nor for whom.              *)
LEMMA SweepReachable ==
    ASSUME table \in Tables, SlotsReachable, OnPeerDown
    PROVE  /\ table' \in Tables /\ SlotsReachable'
           /\ \A i \in Slots : /\ table'[i] = Free <=> table[i] = Free
                               /\ table[i] # Free =>
                                      table'[i].subscriber_id = table[i].subscriber_id
<1>1. \A r \in Records : /\ Swept(r) \in Records /\ Swept(r) # Free
                         /\ Swept(r).subscriber_id = r.subscriber_id
  BY SweptFacts, FreeAssumption
<1>2. table' = [i \in Slots |-> IF table[i] # Free /\ table[i].owner_box = Peer
                                THEN Swept(table[i]) ELSE table[i]]
  BY DEF OnPeerDown
<1>3. table' \in Tables
  BY <1>1, <1>2 DEF Tables
<1>4. \A i \in Slots : /\ table'[i] = Free <=> table[i] = Free
                       /\ table[i] # Free =>
                              table'[i].subscriber_id = table[i].subscriber_id
  BY <1>1, <1>2 DEF Tables
<1>5. OneSlotEach(table')
  BY <1>4, ReachableParts DEF OneSlotEach
<1>6. PathFull(table')
  <2>. SUFFICES ASSUME NEW i \in Slots, table'[i] # Free,
                       NEW k \in 0 .. (i - (table'[i].subscriber_id % RecordCap)) % RecordCap
                PROVE  table'[((table'[i].subscriber_id % RecordCap) + k) % RecordCap] # Free
    BY DEF PathFull
  <2>. DEFINE t == table[i].subscriber_id
  <2>1. table[i] # Free /\ table'[i].subscriber_id = t /\ t \in Subscribers
    BY <1>4 DEF Tables, Records
  <2>. HIDE DEF t
  <2>2. table[Probe(t, k)] # Free
    BY <2>1, ReachableParts DEF PathFull, Probe, t
  <2>3. (i - (t % RecordCap)) % RecordCap \in Slots
    BY <2>1, SlotArithmetic
  <2>4. k \in Slots
    BY <2>1, <2>3, CapacityAssumption DEF Slots
  <2>5. table'[Probe(t, k)] # Free
    BY <1>4, <2>1, <2>2, <2>4, SlotArithmetic
  <2>. QED
    BY <2>1, <2>5 DEF Probe
<1>7. SlotsReachable'
  BY <1>5, <1>6 DEF SlotsReachable, OneSlotEach, PathFull
<1>. QED
  BY <1>3, <1>4, <1>7

-----------------------------------------------------------------------------
(***************************************************************************)
(* The table as one record for every subscriber.                           *)
(***************************************************************************)
ViewOf(t) == [s \in Subscribers |->
                 LET own == {i \in Slots : t[i] # Free /\ t[i].subscriber_id = s}
                 IN  IF own = {} THEN NewRecord(s) ELSE t[CHOOSE i \in own : TRUE]]

LEMMA ViewIsOfTable == View = ViewOf(table) /\ View' = ViewOf(table')
BY DEF View, ViewOf

LEMMA ViewIsFunction ==
    ASSUME NEW t
    PROVE  ViewOf(t) = [s \in Subscribers |-> ViewOf(t)[s]]
BY DEF ViewOf

LEMMA NewRecordFacts ==
    ASSUME NEW s \in Subscribers
    PROVE  /\ NewRecord(s) \in Records /\ NewRecord(s).subscriber_id = s
           /\ NewRecord(s).owner_box = Unowned /\ NewRecord(s).generation = 0
<1>1. Unowned \in Owners /\ "UNOWNED" \in OwnershipState /\ 0 \in Generations
  BY GenerationModAssumption DEF Owners, OwnershipState, Generations
<1>. QED
  BY <1>1 DEF NewRecord, Records

LEMMA ViewOfTable ==
    ASSUME NEW t \in Tables, OneSlotEach(t), NEW s \in Subscribers
    PROVE  /\ \A i \in Slots : IdAt(t, i, s) => ViewOf(t)[s] = t[i]
           /\ (\A i \in Slots : ~IdAt(t, i, s)) => ViewOf(t)[s] = NewRecord(s)
           /\ ViewOf(t)[s] \in Records /\ ViewOf(t)[s].subscriber_id = s
<1>. DEFINE own == {i \in Slots : t[i] # Free /\ t[i].subscriber_id = s}
<1>1. ViewOf(t)[s] = IF own = {} THEN NewRecord(s) ELSE t[CHOOSE i \in own : TRUE]
  BY DEF ViewOf
<1>2. CASE own = {}
  BY <1>1, <1>2, NewRecordFacts DEF IdAt
<1>3. CASE own # {}
  <2>. DEFINE c == CHOOSE i \in own : TRUE
  <2>1. c \in own
    BY <1>3
  <2>2. ViewOf(t)[s] = t[c]
    BY <1>1, <1>3
  <2>. HIDE DEF c
  <2>3. c \in Slots /\ IdAt(t, c, s) /\ t[c] \in Records
    BY <2>1 DEF IdAt, Tables
  <2>4. \A i \in Slots : IdAt(t, i, s) => i = c
    BY <2>3 DEF OneSlotEach, IdAt
  <2>. QED
    BY <2>2, <2>3, <2>4 DEF IdAt
<1>. QED
  BY <1>2, <1>3

LEMMA RecordIsView ==
    ASSUME table \in Tables, SlotsReachable, NEW s \in Subscribers
    PROVE  /\ HasSlot(s) => RecordAt(s) = View[s]
           /\ View[s] \in Records /\ View[s].subscriber_id = s
<1>1. OneSlotEach(table)
  BY ReachableParts
<1>2. View[s] \in Records /\ View[s].subscriber_id = s
  BY <1>1, ViewIsOfTable, ViewOfTable
<1>3. ASSUME HasSlot(s) PROVE RecordAt(s) = View[s]
  <2>1. /\ SlotOf(s) \in Slots
        /\ table[SlotOf(s)] # Free => table[SlotOf(s)].subscriber_id = s
        /\ \A i \in Slots : IdAt(table, i, s) => i = SlotOf(s)
    BY <1>3, FoundSlot
  <2>2. CASE table[SlotOf(s)] = Free
    <3>1. \A i \in Slots : ~IdAt(table, i, s)
      BY <2>1, <2>2 DEF IdAt
    <3>. QED
      BY <1>1, <2>2, <3>1, ViewIsOfTable, ViewOfTable DEF RecordAt
  <2>3. CASE table[SlotOf(s)] # Free
    <3>1. IdAt(table, SlotOf(s), s)
      BY <2>1, <2>3 DEF IdAt
    <3>. QED
      BY <1>1, <2>1, <2>3, <3>1, ViewIsOfTable, ViewOfTable DEF RecordAt
  <2>. QED
    BY <2>2, <2>3
<1>. QED
  BY <1>2, <1>3

LEMMA StoreView ==
    ASSUME table \in Tables, SlotsReachable, NEW s \in Subscribers, HasSlot(s),
           NEW r \in Records, r.subscriber_id = s, Store(s, r)
    PROVE  View' = [View EXCEPT ![s] = r]
<1>. DEFINE p == SlotOf(s)
<1>1. /\ p \in Slots
      /\ table[p] # Free => table[p].subscriber_id = s
      /\ \A i \in Slots : IdAt(table, i, s) => i = p
  BY FoundSlot
<1>2. /\ table' \in Tables /\ SlotsReachable' /\ table'[p] = r
      /\ \A i \in Slots : i # p => table'[i] = table[i]
  BY StoreReachable
<1>. HIDE DEF p
<1>3. OneSlotEach(table) /\ OneSlotEach(table')
  BY <1>2, ReachableParts DEF SlotsReachable, OneSlotEach
<1>4. IdAt(table', p, s)
  BY <1>2, FreeAssumption DEF IdAt
<1>5. ViewOf(table')[s] = r
  BY <1>1, <1>2, <1>3, <1>4, ViewOfTable
<1>6. ASSUME NEW t \in Subscribers, t # s
      PROVE  ViewOf(table')[t] = ViewOf(table)[t]
  <2>1. \A i \in Slots : IdAt(table', i, t) <=> IdAt(table, i, t)
    BY <1>1, <1>2, <1>4, <1>6 DEF IdAt
  <2>2. CASE \E i \in Slots : IdAt(table, i, t)
    <3>1. PICK i \in Slots : IdAt(table, i, t)
      BY <2>2
    <3>2. IdAt(table', i, t) /\ i # p
      BY <1>4, <1>6, <2>1, <3>1 DEF IdAt
    <3>3. ViewOf(table)[t] = table[i] /\ ViewOf(table')[t] = table'[i]
      BY <1>2, <1>3, <3>1, <3>2, ViewOfTable
    <3>. QED
      BY <1>2, <3>2, <3>3
  <2>3. CASE \A i \in Slots : ~IdAt(table, i, t)
    <3>1. \A i \in Slots : ~IdAt(table', i, t)
      BY <2>1, <2>3
    <3>. QED
      BY <1>2, <1>3, <2>3, <3>1, ViewOfTable
  <2>. QED
    BY <2>2, <2>3
<1>7. /\ ViewOf(table) = [t \in Subscribers |-> ViewOf(table)[t]]
      /\ ViewOf(table') = [t \in Subscribers |-> ViewOf(table')[t]]
  BY ViewIsFunction
<1>. DEFINE v == ViewOf(table)
            w == ViewOf(table')
<1>8. /\ View = v /\ View' = w /\ w[s] = r
      /\ v = [t \in Subscribers |-> v[t]] /\ w = [t \in Subscribers |-> w[t]]
      /\ \A t \in Subscribers : t # s => w[t] = v[t]
  BY <1>5, <1>6, <1>7, ViewIsOfTable
<1>. HIDE DEF v, w
<1>. QED
  BY <1>8

LEMMA SweepView ==
    ASSUME table \in Tables, SlotsReachable, OnPeerDown
    PROVE  View' = [s \in Subscribers |-> IF View[s].owner_box = Peer THEN Swept(View[s])
                                          ELSE View[s]]
<1>1. /\ table' \in Tables /\ SlotsReachable'
      /\ \A i \in Slots : /\ table'[i] = Free <=> table[i] = Free
                          /\ table[i] # Free =>
                                 table'[i].subscriber_id = table[i].subscriber_id
  BY SweepReachable
<1>2. OneSlotEach(table) /\ OneSlotEach(table')
  BY <1>1, ReachableParts DEF SlotsReachable, OneSlotEach
<1>3. \A i \in Slots : table[i] # Free =>
          table'[i] = IF table[i].owner_box = Peer THEN Swept(table[i]) ELSE table[i]
  BY DEF OnPeerDown
<1>4. Peer # Unowned
  BY LocalBoxAssumption DEF Peer, Other, Boxes, Unowned
<1>5. ASSUME NEW s \in Subscribers
      PROVE  ViewOf(table')[s] = IF ViewOf(table)[s].owner_box = Peer
                                 THEN Swept(ViewOf(table)[s]) ELSE ViewOf(table)[s]
  <2>1. \A i \in Slots : IdAt(table', i, s) <=> IdAt(table, i, s)
    BY <1>1 DEF IdAt
  <2>2. CASE \E i \in Slots : IdAt(table, i, s)
    <3>1. PICK i \in Slots : IdAt(table, i, s)
      BY <2>2
    <3>2. ViewOf(table)[s] = table[i] /\ ViewOf(table')[s] = table'[i]
      BY <1>1, <1>2, <2>1, <3>1, ViewOfTable
    <3>. QED
      BY <1>3, <3>1, <3>2 DEF IdAt
  <2>3. CASE \A i \in Slots : ~IdAt(table, i, s)
    <3>1. ViewOf(table)[s] = NewRecord(s) /\ ViewOf(table')[s] = NewRecord(s)
      BY <1>1, <1>2, <2>1, <2>3, ViewOfTable
    <3>. QED
      BY <1>4, <3>1, NewRecordFacts
  <2>. QED
    BY <2>2, <2>3
<1>. DEFINE v == ViewOf(table)
            w == ViewOf(table')
<1>6. /\ View = v /\ View' = w
      /\ w = [s \in Subscribers |-> w[s]]
      /\ \A s \in Subscribers : w[s] = IF v[s].owner_box = Peer THEN Swept(v[s]) ELSE v[s]
  BY <1>5, ViewIsFunction, ViewIsOfTable
<1>. HIDE DEF v, w
<1>. QED
  BY <1>6

-----------------------------------------------------------------------------
(***************************************************************************)
(* What is stored and staged, counted and pushed.                          *)
(***************************************************************************)
LEMMA MisroutedFacts ==
    ASSUME NEW r \in Records
    PROVE  /\ Misrouted(r, MigrationThreshold) \in Records
           /\ Misrouted(r, MigrationThreshold).subscriber_id = r.subscriber_id
           /\ Misrouted(r, MigrationThreshold).owner_epoch = r.owner_epoch
           /\ Misrouted(r, MigrationThreshold).generation = r.generation
           /\ Misrouted(r, MigrationThreshold).owner_box = r.owner_box
<1>. DEFINE n == IF ReachesThreshold(r, MigrationThreshold) THEN 0
                ELSE r.remote_packet_counter + 1
<1>1. n \in Nat /\ Misrouted(r, MigrationThreshold) = [r EXCEPT !.remote_packet_counter = n]
  BY DEF Misrouted, Records
<1>. HIDE DEF n
<1>. QED
  BY <1>1 DEF Records

LEMMA ClaimedFacts ==
    ASSUME NEW r \in Records, NEW now \in Clock
    PROVE  /\ Claimed(r, LocalBox, now) \in Records
           /\ Claimed(r, LocalBox, now).subscriber_id = r.subscriber_id
           /\ Claimed(r, LocalBox, now).owner_epoch = r.owner_epoch
           /\ Claimed(r, LocalBox, now).generation = (r.generation + 1) % GenerationMod
           /\ Claimed(r, LocalBox, now).owner_box = LocalBox
<1>1. r.generation \in Nat
  BY GenerationModAssumption DEF Records, Generations
<1>2. PICK g \in Generations : g = (r.generation + 1) % GenerationMod
  BY <1>1, GenerationModAssumption DEF Generations
<1>3. LocalBox \in Owners /\ now \in Nat /\ "LOCAL" \in OwnershipState
  BY LocalBoxAssumption, ClockAssumption DEF Owners, OwnershipState
<1>4. Claimed(r, LocalBox, now) = [r EXCEPT !.owner_box = LocalBox, !.generation = g,
                                            !.activation_ts = now,
                                            !.remote_packet_counter = 0, !.state = "LOCAL"]
  BY <1>2 DEF Claimed, Records
<1>5. Claimed(r, LocalBox, now) \in Records
  <2>1. g \in Generations
    BY <1>2
  <2>2. \A h \in Generations :
           [r EXCEPT !.owner_box = LocalBox, !.generation = h, !.activation_ts = now,
                     !.remote_packet_counter = 0, !.state = "LOCAL"] \in Records
    BY <1>3 DEF Records
  <2>. QED
    BY <1>4, <2>1, <2>2
<1>6. /\ Claimed(r, LocalBox, now).subscriber_id = r.subscriber_id
      /\ Claimed(r, LocalBox, now).owner_epoch = r.owner_epoch
      /\ Claimed(r, LocalBox, now).generation = g
      /\ Claimed(r, LocalBox, now).owner_box = LocalBox
  BY <1>4 DEF Records
<1>. QED
  BY <1>2, <1>5, <1>6

LEMMA StagedFacts ==
    ASSUME NEW r \in Records
    PROVE  /\ Encode(UpdateOf(r)) \in Frames
           /\ Encode(UpdateOf(r)).subscriber_id = r.subscriber_id
           /\ Encode(UpdateOf(r)).owner_epoch = r.owner_epoch
           /\ Encode(UpdateOf(r)).generation = r.generation
           /\ Encode(UpdateOf(r)).owner_box = r.owner_box
BY DEF Encode, UpdateOf, NormalizeTs, Records, Frames

LEMMA AppliedFacts ==
    ASSUME NEW r \in Records, NEW f \in Frames, f.subscriber_id = r.subscriber_id
    PROVE  LET u == ApplyRemoteUpdate(r, Decode(f))
           IN  /\ u \in Records /\ u.subscriber_id = r.subscriber_id
               /\ \/ u = r
                  \/ /\ Beats(f, r) /\ u.owner_epoch = f.owner_epoch
                     /\ u.generation = f.generation /\ u.owner_box = f.owner_box
<1>. DEFINE c == Announced(Decode(f))
<1>1. /\ c.owner_epoch = f.owner_epoch /\ c.generation = f.generation
      /\ c.owner_box = f.owner_box /\ c.activation_ts = f.activation_ts
  BY DEF Announced, Decode, NormalizeOwner, NormalizeTs, Frames
<1>. HIDE DEF c
<1>2. ApplyRemoteUpdate(r, Decode(f)) = IF Beats(c, r) THEN Adopt(r, c) ELSE r
  BY DEF ApplyRemoteUpdate, Valid, Decode, c
<1>3. Beats(c, r) <=> Beats(f, r)
  BY <1>1 DEF Beats
<1>4. "REMOTE" \in OwnershipState /\ "UNOWNED" \in OwnershipState
  BY DEF OwnershipState
<1>5. /\ Adopt(r, c) \in Records /\ Adopt(r, c).subscriber_id = r.subscriber_id
      /\ Adopt(r, c).owner_epoch = f.owner_epoch /\ Adopt(r, c).generation = f.generation
      /\ Adopt(r, c).owner_box = f.owner_box
  BY <1>1, <1>4 DEF Adopt, Records, Frames
<1>. QED
  BY <1>2, <1>3, <1>5

LEMMA BumpFacts ==
    ASSUME NEW m \in [Metrics -> Nat], NEW names
    PROVE  /\ Bump(m, names) \in [Metrics -> Nat]
           /\ \A n \in Metrics : Bump(m, names)[n] = IF n \in names THEN m[n] + 1 ELSE m[n]
BY DEF Bump

(***************************************************************************)
(* A call of the API, by itself or together with the second adapter's.     *)
(***************************************************************************)
Call ==
    \/ \E s \in Subscribers : \E now \in Clock : OnPacket(s, now)
    \/ \E f \in PeerFrames : OnRemoteMsg(f)
    \/ OnPeerDown
    \/ \E e \in DirectEvents : PushDirect(e)
    \/ PopEvent
    \/ FlushOutbound
    \/ UNCHANGED adapterVars

Tick == /\ mode' = mode
        /\ calls' = calls \/ (calls < MaxCalls /\ calls' = calls + 1)

LEMMA StepsAreCalls ==
    /\ [Next]_vars => Tick /\ Call
    /\ [RolloutNext]_<<vars, observeVars>> => Tick /\ Call
<1>1. [Next]_vars => Tick /\ Call
  BY DEF Next, Tick, Call, vars, adapterVars
<1>2. [RolloutNext]_<<vars, observeVars>> => Tick /\ Call
  BY DEF RolloutNext, Tick, Call, vars, adapterVars, PopEvents, FlushBoth
<1>. QED
  BY <1>1, <1>2

(* What a call does to the table.                                          *)
Stores(s, r) ==
    /\ HasSlot(s) /\ r.subscriber_id = s /\ Store(s, r)
    /\ \/ /\ View[s].owner_box = Peer
          /\ r = Misrouted(View[s], MigrationThreshold)
       \/ /\ View[s].owner_box = Unowned /\ View[s].generation < MaxGeneration
          /\ \E now \in Clock : r = Claimed(View[s], LocalBox, now)
       \/ \E f \in PeerFrames : /\ Decodable(f) /\ f.subscriber_id = s
                                /\ r = ApplyRemoteUpdate(View[s], Decode(f))

LEMMA TableChanges ==
    ASSUME table \in Tables, SlotsReachable, Call
    PROVE  \/ UNCHANGED table
           \/ \E s \in Subscribers : \E r \in Records : Stores(s, r)
           \/ OnPeerDown
<1>1. \A s \in Subscribers : /\ HasSlot(s) => RecordAt(s) = View[s]
                             /\ View[s] \in Records /\ View[s].subscriber_id = s
  BY RecordIsView
<1>2. ASSUME NEW s \in Subscribers, NEW now \in Clock, OnPacket(s, now)
      PROVE  \/ UNCHANGED table
             \/ \E r \in Records : Stores(s, r)
  <2>1. CASE PacketForwarded(s) \/ PacketTriggers(s)
    <3>1. Stores(s, Misrouted(View[s], MigrationThreshold))
      BY <1>1, <2>1, MisroutedFacts DEF PacketForwarded, PacketTriggers, Stores
    <3>. QED
      BY <1>1, <3>1, MisroutedFacts
  <2>2. CASE PacketClaimFails(s, now) \/ PacketClaims(s, now)
    <3>1. Stores(s, Claimed(View[s], LocalBox, now))
      BY <1>1, <2>2, ClaimedFacts DEF PacketClaimFails, PacketClaims, Stores
    <3>. QED
      BY <1>1, <3>1, ClaimedFacts
  <2>. QED
    BY <1>2, <2>1, <2>2 DEF OnPacket, PacketDisabled, PacketNoSlot, PacketLocal
<1>3. ASSUME NEW f \in PeerFrames, OnRemoteMsg(f)
      PROVE  \/ UNCHANGED table
             \/ \E s \in Subscribers : \E r \in Records : Stores(s, r)
  <2>1. CASE MsgApplied(f)
    <3>1. Decodable(f) /\ HasSlot(f.subscriber_id)
          /\ Store(f.subscriber_id, ApplyRemoteUpdate(RecordAt(f.subscriber_id), Decode(f)))
      BY <2>1 DEF MsgApplied
    <3>2. f \in Frames /\ f.subscriber_id \in Subscribers
      BY <3>1, PeerFramesAssumption DEF Frames
    <3>. DEFINE s == f.subscriber_id
                r == ApplyRemoteUpdate(View[s], Decode(f))
    <3>3. r \in Records /\ r.subscriber_id = s
      BY <1>1, <3>2, AppliedFacts
    <3>4. Store(s, r)
      BY <1>1, <3>1, <3>2
    <3>. HIDE DEF r
    <3>5. Stores(s, r)
      BY <3>1, <3>3, <3>4 DEF Stores, r
    <3>. QED
      BY <3>2, <3>3, <3>5
  <2>. QED
    BY <1>3, <2>1 DEF OnRemoteMsg, MsgGarbled, MsgNoSlot
<1>. QED
  BY <1>2, <1>3 DEF Call, PushDirect, PushDirectTaken, PushDirectRefused, PopEvent,
                          FlushOutbound, adapterVars

LEMMA CallKeepsSlots ==
    ASSUME table \in Tables, SlotsReachable, Call
    PROVE  table' \in Tables /\ SlotsReachable'
<1>1. CASE UNCHANGED table
  BY <1>1 DEF SlotsReachable
<1>2. ASSUME NEW s \in Subscribers, NEW r \in Records, Stores(s, r)
      PROVE  table' \in Tables /\ SlotsReachable'
  BY <1>2, StoreReachable DEF Stores
<1>3. CASE OnPeerDown
  BY <1>3, SweepReachable
<1>. QED
  BY <1>1, <1>2, <1>3, TableChanges

-----------------------------------------------------------------------------
(***************************************************************************)
(* Counting the events of a type in a ring.                                *)
(***************************************************************************)
Places(e, t) == {i \in 1 .. Len(e) : e[i].event_type = t}
Count(e, t) == Cardinality(Places(e, t))

LEMMA PlacesFinite ==
    ASSUME NEW e \in Seq(Events), NEW t
    PROVE  IsFiniteSet(Places(e, t)) /\ Count(e, t) \in Nat
<1>1. IsFiniteSet(1 .. Len(e))
  BY FS_Interval
<1>2. Places(e, t) \in SUBSET (1 .. Len(e))
  BY DEF Places
<1>. QED
  BY <1>1, <1>2, FS_Subset, FS_CardinalityType DEF Count

LEMMA CountAppend ==
    ASSUME NEW e \in Seq(Events), NEW x \in Events, NEW t
    PROVE  Count(Append(e, x), t) = IF x.event_type = t THEN Count(e, t) + 1 ELSE Count(e, t)
<1>. DEFINE n == Len(e) + 1
            a == Append(e, x)
<1>1. /\ Len(e) \in Nat /\ Len(a) = n /\ a[n] = x
      /\ \A i \in 1 .. Len(e) : a[i] = e[i]
  OBVIOUS
<1>. HIDE DEF a
<1>2. n \notin Places(e, t)
  BY <1>1 DEF Places
<1>3. Places(a, t) = IF x.event_type = t THEN Places(e, t) \cup {n} ELSE Places(e, t)
  BY <1>1 DEF Places
<1>. QED
  BY <1>2, <1>3, PlacesFinite, FS_AddElement DEF Count, a

LEMMA CountTail ==
    ASSUME NEW e \in Seq(Events), e # <<>>, NEW t
    PROVE  Count(e, t) = IF Head(e).event_type = t THEN Count(Tail(e), t) + 1
                         ELSE Count(Tail(e), t)
<1>. DEFINE d == Tail(e)
            later == Places(e, t) \ {1}
            shift == [i \in later |-> i - 1]
<1>1. /\ Len(e) \in Nat \ {0} /\ d \in Seq(Events) /\ Len(d) = Len(e) - 1
      /\ Head(e) = e[1] /\ \A i \in 1 .. Len(d) : d[i] = e[i + 1]
  OBVIOUS
<1>. HIDE DEF d
<1>2. IsFiniteSet(Places(e, t)) /\ IsFiniteSet(later)
  BY PlacesFinite, FS_RemoveElement
<1>3. \A i \in later : i - 1 \in Places(d, t) /\ i \in Nat
  BY <1>1 DEF Places
<1>4. \A j \in Places(d, t) : j + 1 \in later /\ j \in Nat
  BY <1>1 DEF Places
<1>. HIDE DEF later
<1>5. shift \in Bijection(later, Places(d, t))
  <2>1. shift \in [later -> Places(d, t)]
    BY <1>3
  <2>2. \A i, j \in later : shift[i] = shift[j] => i = j
    BY <1>3
  <2>3. \A j \in Places(d, t) : \E i \in later : shift[i] = j
    BY <1>4
  <2>. QED
    BY <2>1, <2>2, <2>3 DEF Bijection, Injection, Surjection, IsInjective
<1>6. Cardinality(later) = Count(d, t)
  BY <1>2, <1>5, FS_Bijection DEF ExistsBijection, Count
<1>7. 1 \in Places(e, t) <=> Head(e).event_type = t
  BY <1>1 DEF Places
<1>8. Cardinality(later) = IF 1 \in Places(e, t) THEN Count(e, t) - 1 ELSE Count(e, t)
  BY <1>2, FS_RemoveElement DEF later, Count
<1>. QED
  BY <1>6, <1>7, <1>8, PlacesFinite DEF d

LEMMA SeenIsCount ==
    ASSUME NEW t
    PROVE  Seen(t) = popped[t] + Count(events, t)
BY DEF Seen, Count, Places

LEMMA SeenNextIsCount ==
    ASSUME NEW t
    PROVE  Seen(t)' = popped'[t] + Count(events', t)
BY DEF Seen, Count, Places

(***************************************************************************)
(* The rings, metrics and histories, apart from the table.                 *)
(***************************************************************************)
RingsTyped ==
    /\ events \in Seq(Events) /\ Len(events) < EventCap
    /\ outbound \in Seq(Frames) /\ Len(outbound) < OutboundCap
    /\ metrics \in [Metrics -> Nat]
    /\ result \in [rc : {0, -1}, action : Actions]
    /\ claims \in Nat /\ flushed \in Nat /\ popped \in [EventTypes -> Nat]
    /\ direct \in [EventTypes -> Nat] /\ refused \in Nat

LEMMA TypeParts ==
    AdapterTypeOK <=> /\ mode \in Modes /\ calls \in 0 .. MaxCalls
                      /\ table \in Tables /\ RingsTyped
BY DEF AdapterTypeOK, RingsTyped, Tables, Events

LEMMA PushFacts ==
    ASSUME RingsTyped, NEW s \in Subscribers, NEW type \in EventTypes,
           NEW counted \in SUBSET Metrics, PushEvent(s, type, counted),
           popped' = popped, direct' = direct
    PROVE  /\ events' \in Seq(Events) /\ Len(events') < EventCap
           /\ metrics' \in [Metrics -> Nat]
           /\ \A n \in Metrics :
                 metrics'[n] =
                    IF n \in counted \/ n = IF EventFits THEN "own_worker_events_total"
                                            ELSE "own_worker_ring_drop_total"
                    THEN metrics[n] + 1 ELSE metrics[n]
           /\ \A t \in EventTypes :
                 FromPackets(t)' = IF EventFits /\ t = type THEN FromPackets(t) + 1
                                   ELSE FromPackets(t)
<1>. DEFINE x == [subscriber_id |-> s, event_type |-> type]
            name == IF EventFits THEN "own_worker_events_total"
                    ELSE "own_worker_ring_drop_total"
<1>1. /\ events' = IF EventFits THEN Append(events, x) ELSE events
      /\ metrics' = Bump(metrics, counted \cup {name})
  BY DEF PushEvent
<1>2. x \in Events /\ x.event_type = type
  BY DEF Events
<1>. HIDE DEF x
<1>3. events' \in Seq(Events) /\ Len(events') < EventCap
  BY <1>1, <1>2, CapacityAssumption DEF RingsTyped, EventFits
<1>4. /\ metrics' \in [Metrics -> Nat]
      /\ \A n \in Metrics : metrics'[n] = IF n \in counted \/ n = name
                                          THEN metrics[n] + 1 ELSE metrics[n]
  <2>1. metrics \in [Metrics -> Nat]
    BY DEF RingsTyped
  <2>2. metrics' = Bump(metrics, counted \cup {name})
    BY <1>1
  <2>. HIDE DEF name
  <2>. QED
    BY <2>1, <2>2, BumpFacts
<1>5. ASSUME NEW t \in EventTypes
      PROVE  FromPackets(t)' = IF EventFits /\ t = type THEN FromPackets(t) + 1
                               ELSE FromPackets(t)
  <2>1. Count(events, t) \in Nat /\ popped[t] \in Nat /\ direct[t] \in Nat
    BY PlacesFinite DEF RingsTyped
  <2>2. Count(events', t) = IF EventFits /\ t = type THEN Count(events, t) + 1
                            ELSE Count(events, t)
    BY <1>1, <1>2, CountAppend DEF RingsTyped
  <2>. QED
    BY <2>1, <2>2, SeenIsCount, SeenNextIsCount DEF FromPackets
<1>. QED
  BY <1>3, <1>4, <1>5

LEMMA PopFacts ==
    ASSUME RingsTyped, PopEvent
    PROVE  /\ events' \in Seq(Events) /\ Len(events') < EventCap
           /\ popped' \in [EventTypes -> Nat]
           /\ \A t \in EventTypes : FromPackets(t)' = FromPackets(t)
<1>. DEFINE h == Head(events).event_type
<1>1. /\ events # <<>> /\ events' = Tail(events)
      /\ popped' = [popped EXCEPT ![h] = popped[h] + 1]
  BY DEF PopEvent
<1>2. events' \in Seq(Events) /\ Len(events') < EventCap
  BY <1>1, CapacityAssumption DEF RingsTyped
<1>3. h \in EventTypes
  <2>1. Len(events) \in Nat \ {0} /\ Head(events) = events[1] /\ events \in Seq(Events)
    BY <1>1 DEF RingsTyped
  <2>2. Head(events) \in Events
    BY <2>1
  <2>. QED
    BY <2>2 DEF Events
<1>4. popped' \in [EventTypes -> Nat]
  BY <1>1, <1>3 DEF RingsTyped
<1>5. ASSUME NEW t \in EventTypes PROVE FromPackets(t)' = FromPackets(t)
  <2>1. Count(Tail(events), t) \in Nat /\ popped[t] \in Nat
    BY <1>1, <1>2, PlacesFinite DEF RingsTyped
  <2>2. Count(events, t) = IF h = t THEN Count(events', t) + 1 ELSE Count(events', t)
    BY <1>1, CountTail DEF RingsTyped
  <2>3. popped'[t] = IF h = t THEN popped[t] + 1 ELSE popped[t]
    BY <1>1, <1>3 DEF RingsTyped
  <2>4. Count(events', t) \in Nat /\ direct[t] \in Nat /\ direct' = direct
    BY <1>1, <2>1 DEF RingsTyped, PopEvent
  <2>5. popped'[t] + Count(events', t) = popped[t] + Count(events, t)
    <3>. HIDE DEF h
    <3>. QED
      BY <2>1, <2>2, <2>3, <2>4
  <2>6. Seen(t)' = Seen(t)
    BY <2>5, SeenIsCount, SeenNextIsCount
  <2>. QED
    BY <2>4, <2>6 DEF FromPackets
<1>. QED
  BY <1>2, <1>4, <1>5

-----------------------------------------------------------------------------
(***************************************************************************)
(* Every call keeps the rings, metrics and histories in their types, and   *)
(* the two accounts balanced.                                              *)
(***************************************************************************)
Accounts == ClaimsAccounted /\ EventsAccounted

LEMMA AccountNumbers ==
    ASSUME RingsTyped
    PROVE  /\ Len(outbound) \in Nat /\ Len(events) \in Nat
           /\ \A n \in Metrics : metrics[n] \in Nat
           /\ \A t \in EventTypes : FromPackets(t) \in Int
<1>1. \A t \in EventTypes : FromPackets(t) \in Int
  BY SeenIsCount, PlacesFinite DEF RingsTyped, FromPackets
<1>. QED
  BY <1>1 DEF RingsTyped

\* EventsAccounted as a statement about numbers: direct calls refused, events,
\* drops, triggers, claims, send errors, and packets' events of the three types.
Balanced(w, e, d, t, c, x, m, u, h) ==
    e = m + u + h /\ d >= w + (t - h) + (c - x - u)

LEMMA AccountsAsNumbers ==
    /\ ClaimsAccounted <=>
          claims = flushed + Len(outbound) + metrics["own_zmq_send_err_total"]
    /\ EventsAccounted <=>
          Balanced(refused, metrics["own_worker_events_total"],
                   metrics["own_worker_ring_drop_total"],
                   metrics["own_migration_trigger_total"], claims,
                   metrics["own_zmq_send_err_total"],
                   FromPackets("MISROUTE"), FromPackets("UNOWNED_CLAIM"),
                   FromPackets("MIGRATION_HINT"))
BY DEF ClaimsAccounted, EventsAccounted, Balanced

LEMMA AccountsNextAsNumbers ==
    /\ ClaimsAccounted' <=>
          claims' = flushed' + Len(outbound') + metrics'["own_zmq_send_err_total"]
    /\ EventsAccounted' <=>
          Balanced(refused', metrics'["own_worker_events_total"],
                   metrics'["own_worker_ring_drop_total"],
                   metrics'["own_migration_trigger_total"], claims',
                   metrics'["own_zmq_send_err_total"],
                   FromPackets("MISROUTE")', FromPackets("UNOWNED_CLAIM")',
                   FromPackets("MIGRATION_HINT")')
BY DEF ClaimsAccounted, EventsAccounted, Balanced

\* What keeps the balance: an event seen or dropped, and the reason for it.
LEMMA BalanceKept ==
    ASSUME NEW w \in Nat, NEW e \in Nat, NEW d \in Nat, NEW t \in Nat, NEW c \in Nat,
           NEW x \in Nat, NEW m \in Int, NEW u \in Int, NEW h \in Int,
           Balanced(w, e, d, t, c, x, m, u, h)
    PROVE  /\ Balanced(w, e + 1, d, t, c, x, m + 1, u, h)
           /\ Balanced(w, e, d + 1, t, c, x, m, u, h)
           /\ Balanced(w, e + 1, d, t + 1, c, x, m, u, h + 1)
           /\ Balanced(w, e, d + 1, t + 1, c, x, m, u, h)
           /\ Balanced(w, e + 1, d, t, c + 1, x, m, u + 1, h)
           /\ Balanced(w, e, d + 1, t, c + 1, x, m, u, h)
           /\ Balanced(w, e, d, t, c + 1, x + 1, m, u, h)
           /\ Balanced(w + 1, e, d + 1, t, c, x, m, u, h)
BY DEF Balanced

LEMMA BalanceNumbers ==
    ASSUME RingsTyped
    PROVE  /\ metrics["own_worker_events_total"] \in Nat
           /\ metrics["own_worker_ring_drop_total"] \in Nat
           /\ metrics["own_migration_trigger_total"] \in Nat
           /\ metrics["own_zmq_send_err_total"] \in Nat
           /\ FromPackets("MISROUTE") \in Int /\ FromPackets("UNOWNED_CLAIM") \in Int
           /\ FromPackets("MIGRATION_HINT") \in Int
           /\ claims \in Nat /\ flushed \in Nat /\ refused \in Nat /\ Len(outbound) \in Nat
BY AccountNumbers DEF RingsTyped, Metrics, EventTypes

LEMMA ReturnsTyped ==
    ASSUME NEW rc \in {0, -1}, NEW action \in Actions, Returns(rc, action)
    PROVE  result' \in [rc : {0, -1}, action : Actions]
BY DEF Returns

LEMMA SteeredTyped == \A a \in Actions : Steered(a) \in Actions
BY DEF Steered, Actions

(* A packet that changes no ring and no account.                           *)
LEMMA SameRings ==
    ASSUME RingsTyped, Accounts,
           UNCHANGED <<events, outbound, metrics, claims, flushed, popped, direct,
                       refused>>,
           result' \in [rc : {0, -1}, action : Actions]
    PROVE  RingsTyped' /\ Accounts'
BY DEF RingsTyped, Accounts, ClaimsAccounted, EventsAccounted, FromPackets, Seen

(* The event counters after a push, by whether the event fits.             *)
LEMMA PushNumbers ==
    ASSUME RingsTyped, NEW s \in Subscribers, NEW type \in EventTypes,
           NEW counted \in SUBSET {"own_migration_trigger_total"},
           PushEvent(s, type, counted), popped' = popped, direct' = direct
    PROVE  /\ metrics'["own_zmq_send_err_total"] = metrics["own_zmq_send_err_total"]
           /\ metrics'["own_migration_trigger_total"] =
                 metrics["own_migration_trigger_total"] + (IF counted = {} THEN 0 ELSE 1)
           /\ EventFits =>
                 /\ metrics'["own_worker_events_total"] =
                        metrics["own_worker_events_total"] + 1
                 /\ metrics'["own_worker_ring_drop_total"] =
                        metrics["own_worker_ring_drop_total"]
                 /\ FromPackets(type)' = FromPackets(type) + 1
                 /\ \A t \in EventTypes \ {type} : FromPackets(t)' = FromPackets(t)
           /\ ~EventFits =>
                 /\ metrics'["own_worker_events_total"] = metrics["own_worker_events_total"]
                 /\ metrics'["own_worker_ring_drop_total"] =
                        metrics["own_worker_ring_drop_total"] + 1
                 /\ \A t \in EventTypes : FromPackets(t)' = FromPackets(t)
<1>1. counted \in SUBSET Metrics
  BY DEF Metrics
<1>2. \A n \in Metrics :
         metrics'[n] = IF n \in counted \/ n = IF EventFits THEN "own_worker_events_total"
                                               ELSE "own_worker_ring_drop_total"
                       THEN metrics[n] + 1 ELSE metrics[n]
  BY <1>1, PushFacts
<1>3. \A t \in EventTypes :
         FromPackets(t)' = IF EventFits /\ t = type THEN FromPackets(t) + 1 ELSE FromPackets(t)
  BY <1>1, PushFacts
<1>4. \A n \in Metrics : metrics[n] \in Nat
  BY AccountNumbers
<1>5. counted = {} \/ counted = {"own_migration_trigger_total"}
  OBVIOUS
<1>. QED
  BY <1>2, <1>3, <1>4, <1>5 DEF Metrics

(* A packet that only pushes an event of a type that no claim makes.       *)
LEMMA PushKeepsAccounts ==
    ASSUME RingsTyped, Accounts, NEW s \in Subscribers,
           UNCHANGED <<outbound, claims, flushed, popped, direct, refused>>,
           result' \in [rc : {0, -1}, action : Actions],
           \/ PushEvent(s, "MISROUTE", {})
           \/ PushEvent(s, "MIGRATION_HINT", {"own_migration_trigger_total"})
    PROVE  RingsTyped' /\ Accounts'
<1>1. "MISROUTE" \in EventTypes /\ "MIGRATION_HINT" \in EventTypes
  BY DEF EventTypes
<1>2. {"own_migration_trigger_total"} \in SUBSET Metrics /\ {} \in SUBSET Metrics
  BY DEF Metrics
<1>3. /\ events' \in Seq(Events) /\ Len(events') < EventCap
      /\ metrics' \in [Metrics -> Nat]
  BY <1>1, <1>2, PushFacts
<1>4. RingsTyped'
  BY <1>3 DEF RingsTyped
<1>5. CASE PushEvent(s, "MISROUTE", {})
  <2>1. /\ metrics'["own_zmq_send_err_total"] = metrics["own_zmq_send_err_total"]
        /\ metrics'["own_migration_trigger_total"] =
              metrics["own_migration_trigger_total"]
        /\ claims' = claims /\ flushed' = flushed /\ outbound' = outbound
    BY <1>1, <1>5, PushNumbers, BalanceNumbers
  <2>2. ClaimsAccounted'
    BY <2>1, AccountsAsNumbers, AccountsNextAsNumbers DEF Accounts
  <2>3. CASE EventFits
    <3>1. /\ metrics'["own_worker_events_total"] = metrics["own_worker_events_total"] + 1
          /\ metrics'["own_worker_ring_drop_total"] = metrics["own_worker_ring_drop_total"]
          /\ FromPackets("MISROUTE")' = FromPackets("MISROUTE") + 1
          /\ FromPackets("UNOWNED_CLAIM")' = FromPackets("UNOWNED_CLAIM")
          /\ FromPackets("MIGRATION_HINT")' = FromPackets("MIGRATION_HINT")
      BY <1>1, <1>5, <2>3, PushNumbers DEF EventTypes
    <3>2. Balanced(refused, metrics["own_worker_events_total"] + 1,
                   metrics["own_worker_ring_drop_total"],
                   metrics["own_migration_trigger_total"], claims,
                   metrics["own_zmq_send_err_total"], FromPackets("MISROUTE") + 1,
                   FromPackets("UNOWNED_CLAIM"), FromPackets("MIGRATION_HINT"))
      BY BalanceNumbers, BalanceKept, AccountsAsNumbers DEF Accounts
    <3>. QED
      BY <1>4, <2>1, <2>2, <3>1, <3>2, AccountsNextAsNumbers DEF Accounts
  <2>4. CASE ~EventFits
    <3>1. /\ metrics'["own_worker_events_total"] = metrics["own_worker_events_total"]
          /\ metrics'["own_worker_ring_drop_total"] =
                metrics["own_worker_ring_drop_total"] + 1
          /\ FromPackets("MISROUTE")' = FromPackets("MISROUTE")
          /\ FromPackets("UNOWNED_CLAIM")' = FromPackets("UNOWNED_CLAIM")
          /\ FromPackets("MIGRATION_HINT")' = FromPackets("MIGRATION_HINT")
      BY <1>1, <1>5, <2>4, PushNumbers DEF EventTypes
    <3>2. Balanced(refused, metrics["own_worker_events_total"],
                   metrics["own_worker_ring_drop_total"] + 1,
                   metrics["own_migration_trigger_total"], claims,
                   metrics["own_zmq_send_err_total"], FromPackets("MISROUTE"),
                   FromPackets("UNOWNED_CLAIM"), FromPackets("MIGRATION_HINT"))
      BY BalanceNumbers, BalanceKept, AccountsAsNumbers DEF Accounts
    <3>. QED
      BY <1>4, <2>1, <2>2, <3>1, <3>2, AccountsNextAsNumbers DEF Accounts
  <2>. QED
    BY <2>3, <2>4
<1>6. CASE PushEvent(s, "MIGRATION_HINT", {"own_migration_trigger_total"})
  <2>1. /\ metrics'["own_zmq_send_err_total"] = metrics["own_zmq_send_err_total"]
        /\ metrics'["own_migration_trigger_total"] =
              metrics["own_migration_trigger_total"] + 1
        /\ claims' = claims /\ flushed' = flushed /\ outbound' = outbound
    BY <1>1, <1>6, PushNumbers, BalanceNumbers
  <2>2. ClaimsAccounted'
    BY <2>1, AccountsAsNumbers, AccountsNextAsNumbers DEF Accounts
  <2>3. CASE EventFits
    <3>1. /\ metrics'["own_worker_events_total"] = metrics["own_worker_events_total"] + 1
          /\ metrics'["own_worker_ring_drop_total"] = metrics["own_worker_ring_drop_total"]
          /\ FromPackets("MISROUTE")' = FromPackets("MISROUTE")
          /\ FromPackets("UNOWNED_CLAIM")' = FromPackets("UNOWNED_CLAIM")
          /\ FromPackets("MIGRATION_HINT")' = FromPackets("MIGRATION_HINT") + 1
      BY <1>1, <1>6, <2>3, PushNumbers DEF EventTypes
    <3>2. Balanced(refused, metrics["own_worker_events_total"] + 1,
                   metrics["own_worker_ring_drop_total"],
                   metrics["own_migration_trigger_total"] + 1, claims,
                   metrics["own_zmq_send_err_total"], FromPackets("MISROUTE"),
                   FromPackets("UNOWNED_CLAIM"), FromPackets("MIGRATION_HINT") + 1)
      BY BalanceNumbers, BalanceKept, AccountsAsNumbers DEF Accounts
    <3>. QED
      BY <1>4, <2>1, <2>2, <3>1, <3>2, AccountsNextAsNumbers DEF Accounts
  <2>4. CASE ~EventFits
    <3>1. /\ metrics'["own_worker_events_total"] = metrics["own_worker_events_total"]
          /\ metrics'["own_worker_ring_drop_total"] =
                metrics["own_worker_ring_drop_total"] + 1
          /\ FromPackets("MISROUTE")' = FromPackets("MISROUTE")
          /\ FromPackets("UNOWNED_CLAIM")' = FromPackets("UNOWNED_CLAIM")
          /\ FromPackets("MIGRATION_HINT")' = FromPackets("MIGRATION_HINT")
      BY <1>1, <1>6, <2>4, PushNumbers DEF EventTypes
    <3>2. Balanced(refused, metrics["own_worker_events_total"],
                   metrics["own_worker_ring_drop_total"] + 1,
                   metrics["own_migration_trigger_total"] + 1, claims,
                   metrics["own_zmq_send_err_total"], FromPackets("MISROUTE"),
                   FromPackets("UNOWNED_CLAIM"), FromPackets("MIGRATION_HINT"))
      BY BalanceNumbers, BalanceKept, AccountsAsNumbers DEF Accounts
    <3>. QED
      BY <1>4, <2>1, <2>2, <3>1, <3>2, AccountsNextAsNumbers DEF Accounts
  <2>. QED
    BY <2>3, <2>4
<1>. QED
  BY <1>5, <1>6

LEMMA ClaimFailsKeepsAccounts ==
    ASSUME RingsTyped, Accounts, NEW s \in Subscribers, NEW now \in Clock,
           PacketClaimFails(s, now)
    PROVE  RingsTyped' /\ Accounts'
<1>1. /\ claims' = claims + 1 /\ metrics' = Bump(metrics, {"own_zmq_send_err_total"})
      /\ UNCHANGED <<events, outbound, flushed, popped, direct, refused>>
      /\ result' \in [rc : {0, -1}, action : Actions]
  BY ReturnsTyped DEF PacketClaimFails, Actions
<1>2. /\ metrics' \in [Metrics -> Nat]
      /\ \A n \in Metrics : metrics'[n] = IF n = "own_zmq_send_err_total"
                                          THEN metrics[n] + 1 ELSE metrics[n]
  <2>1. metrics \in [Metrics -> Nat]
    BY DEF RingsTyped
  <2>2. metrics' = Bump(metrics, {"own_zmq_send_err_total"})
    BY <1>1
  <2>. QED
    BY <2>1, <2>2, BumpFacts
<1>3. RingsTyped'
  BY <1>1, <1>2 DEF RingsTyped
<1>4. \A t \in EventTypes : FromPackets(t)' = FromPackets(t)
  BY <1>1 DEF FromPackets, Seen
<1>5. /\ metrics'["own_zmq_send_err_total"] = metrics["own_zmq_send_err_total"] + 1
      /\ metrics'["own_worker_events_total"] = metrics["own_worker_events_total"]
      /\ metrics'["own_worker_ring_drop_total"] = metrics["own_worker_ring_drop_total"]
      /\ metrics'["own_migration_trigger_total"] = metrics["own_migration_trigger_total"]
  BY <1>2 DEF Metrics
<1>6. ClaimsAccounted'
  BY <1>1, <1>5, BalanceNumbers, AccountsAsNumbers, AccountsNextAsNumbers DEF Accounts
<1>7. Balanced(refused, metrics["own_worker_events_total"],
                   metrics["own_worker_ring_drop_total"],
                   metrics["own_migration_trigger_total"], claims + 1,
                   metrics["own_zmq_send_err_total"] + 1, FromPackets("MISROUTE"),
                   FromPackets("UNOWNED_CLAIM"), FromPackets("MIGRATION_HINT"))
  BY BalanceNumbers, BalanceKept, AccountsAsNumbers DEF Accounts
<1>8. EventsAccounted'
  BY <1>1, <1>4, <1>5, <1>7, AccountsNextAsNumbers DEF EventTypes
<1>. QED
  BY <1>3, <1>6, <1>8 DEF Accounts

LEMMA ClaimKeepsAccounts ==
    ASSUME RingsTyped, Accounts, table \in Tables, SlotsReachable,
           NEW s \in Subscribers, NEW now \in Clock, PacketClaims(s, now)
    PROVE  RingsTyped' /\ Accounts'
<1>. DEFINE f == Encode(UpdateOf(Claimed(RecordAt(s), LocalBox, now)))
<1>1. /\ claims' = claims + 1 /\ outbound' = Append(outbound, f) /\ OutboundFits
      /\ PushEvent(s, "UNOWNED_CLAIM", {}) /\ HasSlot(s)
      /\ UNCHANGED <<flushed, popped, direct, refused>>
      /\ result' \in [rc : {0, -1}, action : Actions]
  BY ReturnsTyped, SteeredTyped DEF PacketClaims, Actions
<1>2. f \in Frames
  BY <1>1, RecordIsView, ClaimedFacts, StagedFacts
<1>. HIDE DEF f
<1>3. /\ outbound' \in Seq(Frames) /\ Len(outbound') = Len(outbound) + 1
      /\ Len(outbound') < OutboundCap
  BY <1>1, <1>2, CapacityAssumption DEF RingsTyped, OutboundFits
<1>4. /\ "UNOWNED_CLAIM" \in EventTypes /\ {} \in SUBSET Metrics
      /\ events' \in Seq(Events) /\ Len(events') < EventCap
      /\ metrics' \in [Metrics -> Nat]
  <2>1. "UNOWNED_CLAIM" \in EventTypes /\ {} \in SUBSET Metrics
    BY DEF EventTypes
  <2>. QED
    BY <1>1, <2>1, PushFacts
<1>5. RingsTyped'
  BY <1>1, <1>3, <1>4 DEF RingsTyped
<1>6. /\ metrics'["own_zmq_send_err_total"] = metrics["own_zmq_send_err_total"]
      /\ metrics'["own_migration_trigger_total"] = metrics["own_migration_trigger_total"]
  <2>1. PushEvent(s, "UNOWNED_CLAIM", {}) /\ popped' = popped /\ direct' = direct
    BY <1>1
  <2>2. "UNOWNED_CLAIM" \in EventTypes /\ {} \in SUBSET {"own_migration_trigger_total"}
    BY <1>4
  <2>. QED
    BY <2>1, <2>2, PushNumbers, BalanceNumbers
<1>7. ClaimsAccounted'
  BY <1>1, <1>3, <1>6, BalanceNumbers, AccountsAsNumbers, AccountsNextAsNumbers DEF Accounts
<1>8. CASE EventFits
  <2>1. /\ metrics'["own_worker_events_total"] = metrics["own_worker_events_total"] + 1
        /\ metrics'["own_worker_ring_drop_total"] = metrics["own_worker_ring_drop_total"]
        /\ FromPackets("MISROUTE")' = FromPackets("MISROUTE")
        /\ FromPackets("UNOWNED_CLAIM")' = FromPackets("UNOWNED_CLAIM") + 1
        /\ FromPackets("MIGRATION_HINT")' = FromPackets("MIGRATION_HINT")
    BY <1>1, <1>4, <1>8, PushNumbers DEF EventTypes
  <2>2. Balanced(refused, metrics["own_worker_events_total"] + 1,
                   metrics["own_worker_ring_drop_total"],
                   metrics["own_migration_trigger_total"], claims + 1,
                   metrics["own_zmq_send_err_total"], FromPackets("MISROUTE"),
                   FromPackets("UNOWNED_CLAIM") + 1, FromPackets("MIGRATION_HINT"))
    BY BalanceNumbers, BalanceKept, AccountsAsNumbers DEF Accounts
  <2>. QED
    BY <1>1, <1>5, <1>6, <1>7, <2>1, <2>2, AccountsNextAsNumbers DEF Accounts
<1>9. CASE ~EventFits
  <2>1. /\ metrics'["own_worker_events_total"] = metrics["own_worker_events_total"]
        /\ metrics'["own_worker_ring_drop_total"] =
              metrics["own_worker_ring_drop_total"] + 1
        /\ FromPackets("MISROUTE")' = FromPackets("MISROUTE")
        /\ FromPackets("UNOWNED_CLAIM")' = FromPackets("UNOWNED_CLAIM")
        /\ FromPackets("MIGRATION_HINT")' = FromPackets("MIGRATION_HINT")
    BY <1>1, <1>4, <1>9, PushNumbers DEF EventTypes
  <2>2. Balanced(refused, metrics["own_worker_events_total"],
                   metrics["own_worker_ring_drop_total"] + 1,
                   metrics["own_migration_trigger_total"], claims + 1,
                   metrics["own_zmq_send_err_total"], FromPackets("MISROUTE"),
                   FromPackets("UNOWNED_CLAIM"), FromPackets("MIGRATION_HINT"))
    BY BalanceNumbers, BalanceKept, AccountsAsNumbers DEF Accounts
  <2>. QED
    BY <1>1, <1>5, <1>6, <1>7, <2>1, <2>2, AccountsNextAsNumbers DEF Accounts
<1>. QED
  BY <1>8, <1>9

(* An event pushed directly is counted by the histories that take it out   *)
(* of the account again, or by the drops.                                  *)
LEMMA DirectKeepsAccounts ==
    ASSUME RingsTyped, Accounts, NEW e \in DirectEvents, PushDirect(e)
    PROVE  RingsTyped' /\ Accounts'
<1>1. CASE PushDirectTaken(e)
  <2>1. /\ EventFits /\ events' = Append(events, e)
        /\ direct' = [direct EXCEPT ![e.event_type] = direct[e.event_type] + 1]
        /\ UNCHANGED <<outbound, metrics, result, claims, flushed, popped, refused>>
    BY <1>1 DEF PushDirectTaken
  <2>2. e \in Events /\ e.event_type \in EventTypes
    BY DirectEventsAssumption DEF Events
  <2>3. events' \in Seq(Events) /\ Len(events') < EventCap
    BY <2>1, <2>2, CapacityAssumption DEF RingsTyped, EventFits
  <2>4. /\ direct' \in [EventTypes -> Nat]
        /\ \A t \in EventTypes :
              direct'[t] = IF t = e.event_type THEN direct[t] + 1 ELSE direct[t]
    BY <2>1, <2>2 DEF RingsTyped
  <2>5. ASSUME NEW t \in EventTypes PROVE FromPackets(t)' = FromPackets(t)
    <3>1. Count(events, t) \in Nat /\ popped[t] \in Nat /\ direct[t] \in Nat
      BY PlacesFinite DEF RingsTyped
    <3>2. Count(events', t) = IF e.event_type = t THEN Count(events, t) + 1
                              ELSE Count(events, t)
      BY <2>1, <2>2, CountAppend DEF RingsTyped
    <3>3. popped'[t] = popped[t]
      BY <2>1
    <3>4. direct'[t] = IF t = e.event_type THEN direct[t] + 1 ELSE direct[t]
      BY <2>4
    <3>. QED
      BY <3>1, <3>2, <3>3, <3>4, SeenIsCount, SeenNextIsCount DEF FromPackets
  <2>6. RingsTyped'
    BY <2>1, <2>3, <2>4 DEF RingsTyped
  <2>7. Accounts'
    BY <2>1, <2>5, AccountsAsNumbers, AccountsNextAsNumbers DEF Accounts, EventTypes
  <2>. QED
    BY <2>6, <2>7
<1>2. CASE PushDirectRefused
  <2>1. /\ metrics' = Bump(metrics, {"own_worker_ring_drop_total"})
        /\ refused' = refused + 1
        /\ UNCHANGED <<events, outbound, result, claims, flushed, popped, direct>>
    BY <1>2 DEF PushDirectRefused
  <2>2. /\ metrics' \in [Metrics -> Nat]
        /\ \A n \in Metrics : metrics'[n] = IF n = "own_worker_ring_drop_total"
                                            THEN metrics[n] + 1 ELSE metrics[n]
    BY <2>1, BumpFacts DEF RingsTyped
  <2>3. RingsTyped'
    BY <2>1, <2>2 DEF RingsTyped
  <2>4. \A t \in EventTypes : FromPackets(t)' = FromPackets(t)
    BY <2>1 DEF FromPackets, Seen
  <2>5. /\ metrics'["own_worker_ring_drop_total"] = metrics["own_worker_ring_drop_total"] + 1
        /\ metrics'["own_worker_events_total"] = metrics["own_worker_events_total"]
        /\ metrics'["own_zmq_send_err_total"] = metrics["own_zmq_send_err_total"]
        /\ metrics'["own_migration_trigger_total"] = metrics["own_migration_trigger_total"]
    BY <2>2 DEF Metrics
  <2>6. ClaimsAccounted'
    BY <2>1, <2>5, AccountsAsNumbers, AccountsNextAsNumbers DEF Accounts
  <2>7. Balanced(refused + 1, metrics["own_worker_events_total"],
                 metrics["own_worker_ring_drop_total"] + 1,
                 metrics["own_migration_trigger_total"], claims,
                 metrics["own_zmq_send_err_total"], FromPackets("MISROUTE"),
                 FromPackets("UNOWNED_CLAIM"), FromPackets("MIGRATION_HINT"))
    BY BalanceNumbers, BalanceKept, AccountsAsNumbers DEF Accounts
  <2>8. EventsAccounted'
    BY <2>1, <2>4, <2>5, <2>7, AccountsNextAsNumbers DEF EventTypes
  <2>. QED
    BY <2>3, <2>6, <2>8 DEF Accounts
<1>. QED
  BY <1>1, <1>2 DEF PushDirect

LEMMA CallKeepsAccounts ==
    ASSUME RingsTyped, Accounts, table \in Tables, SlotsReachable, Call
    PROVE  RingsTyped' /\ Accounts'
<1>1. ASSUME NEW s \in Subscribers, NEW now \in Clock, OnPacket(s, now)
      PROVE  RingsTyped' /\ Accounts'
  <2>1. CASE PacketDisabled(s) \/ PacketNoSlot(s) \/ PacketLocal(s)
    <3>1. /\ UNCHANGED <<events, outbound, metrics, claims, flushed, popped,
                         direct, refused>>
          /\ result' \in [rc : {0, -1}, action : Actions]
      BY <2>1, ReturnsTyped DEF PacketDisabled, PacketNoSlot, PacketLocal, Actions
    <3>. QED
      BY <3>1, SameRings
  <2>2. CASE PacketForwarded(s)
    <3>1. /\ UNCHANGED <<outbound, claims, flushed, popped, direct, refused>>
          /\ UNCHANGED <<events, metrics>> \/ PushEvent(s, "MISROUTE", {})
          /\ result' \in [rc : {0, -1}, action : Actions]
      BY <2>2, ReturnsTyped, SteeredTyped DEF PacketForwarded, Actions
    <3>. QED
      BY <3>1, SameRings, PushKeepsAccounts
  <2>3. CASE PacketTriggers(s)
    <3>1. /\ UNCHANGED <<outbound, claims, flushed, popped, direct, refused>>
          /\ PushEvent(s, "MIGRATION_HINT", {"own_migration_trigger_total"})
          /\ result' \in [rc : {0, -1}, action : Actions]
      BY <2>3, ReturnsTyped, SteeredTyped DEF PacketTriggers, Actions
    <3>. QED
      BY <3>1, PushKeepsAccounts
  <2>. QED
    BY <1>1, <2>1, <2>2, <2>3, ClaimFailsKeepsAccounts, ClaimKeepsAccounts DEF OnPacket
<1>2. ASSUME NEW f \in PeerFrames, OnRemoteMsg(f)
      PROVE  RingsTyped' /\ Accounts'
  <2>1. PICK names \in SUBSET (Metrics \ {"own_worker_events_total",
                  "own_worker_ring_drop_total", "own_migration_trigger_total",
                  "own_zmq_send_err_total"}) : metrics' = Bump(metrics, names)
    <3>1. CASE MsgGarbled(f)
      BY <3>1 DEF MsgGarbled, Metrics
    <3>2. CASE MsgNoSlot(f)
      <4>1. metrics' = Bump(metrics, {})
        BY <3>2 DEF MsgNoSlot, Bump, RingsTyped
      <4>. QED
        BY <4>1
    <3>3. CASE MsgApplied(f)
      BY <3>3 DEF MsgApplied, Verdict, Metrics
    <3>. QED
      BY <1>2, <3>1, <3>2, <3>3 DEF OnRemoteMsg
  <2>2. UNCHANGED <<events, outbound, result, claims, flushed, popped, direct, refused>>
    BY <1>2 DEF OnRemoteMsg, MsgGarbled, MsgNoSlot, MsgApplied
  <2>3. /\ metrics' \in [Metrics -> Nat]
        /\ \A n \in {"own_worker_events_total", "own_worker_ring_drop_total",
                     "own_migration_trigger_total", "own_zmq_send_err_total"} :
              metrics'[n] = metrics[n]
    BY <2>1, BumpFacts DEF RingsTyped, Metrics
  <2>4. \A t \in EventTypes : FromPackets(t)' = FromPackets(t)
    BY <2>2 DEF FromPackets, Seen
  <2>5. RingsTyped'
    BY <2>2, <2>3 DEF RingsTyped
  <2>6. Accounts'
    BY <2>2, <2>3, <2>4, AccountsAsNumbers, AccountsNextAsNumbers DEF Accounts, EventTypes
  <2>. QED
    BY <2>5, <2>6
<1>3. CASE OnPeerDown \/ UNCHANGED adapterVars
  <2>1. UNCHANGED <<events, outbound, metrics, result, claims, flushed, popped,
                    direct, refused>>
    BY <1>3 DEF OnPeerDown, adapterVars
  <2>. QED
    BY <2>1, SameRings DEF RingsTyped
<1>4. CASE PopEvent
  <2>1. /\ events' \in Seq(Events) /\ Len(events') < EventCap
        /\ popped' \in [EventTypes -> Nat]
        /\ \A t \in EventTypes : FromPackets(t)' = FromPackets(t)
    BY <1>4, PopFacts
  <2>2. UNCHANGED <<outbound, metrics, result, claims, flushed, direct, refused>>
    BY <1>4 DEF PopEvent
  <2>3. RingsTyped'
    BY <2>1, <2>2 DEF RingsTyped
  <2>4. Accounts'
    BY <2>1, <2>2, AccountsAsNumbers, AccountsNextAsNumbers DEF Accounts, EventTypes
  <2>. QED
    BY <2>3, <2>4
<1>5. CASE FlushOutbound
  <2>1. /\ outbound' = <<>> /\ flushed' = flushed + Len(outbound)
        /\ UNCHANGED <<events, metrics, result, claims, popped, direct, refused>>
    BY <1>5 DEF FlushOutbound
  <2>2. /\ outbound' \in Seq(Frames) /\ Len(outbound') = 0 /\ 0 < OutboundCap
    BY <2>1, CapacityAssumption
  <2>3. \A t \in EventTypes : FromPackets(t)' = FromPackets(t)
    BY <2>1 DEF FromPackets, Seen
  <2>4. RingsTyped'
    BY <2>1, <2>2, AccountNumbers DEF RingsTyped
  <2>5. Accounts'
    BY <2>1, <2>2, <2>3, BalanceNumbers, AccountsAsNumbers, AccountsNextAsNumbers
    DEF Accounts, EventTypes
  <2>. QED
    BY <2>4, <2>5
<1>. QED
  BY <1>1, <1>2, <1>3, <1>4, <1>5, DirectKeepsAccounts DEF Call

-----------------------------------------------------------------------------
(***************************************************************************)
(* The invariant the rest builds on: types, probing and the accounts.      *)
(***************************************************************************)
AdapterInv == AdapterTypeOK /\ SlotsReachable /\ Accounts

LEMMA InitAdapterInv ==
    ASSUME Init
    PROVE  AdapterInv
<1>1. /\ events = <<>> /\ outbound = <<>> /\ metrics = [m \in Metrics |-> 0]
      /\ result = [rc |-> 0, action |-> "NOOP"] /\ popped = [t \in EventTypes |-> 0]
      /\ claims = 0 /\ flushed = 0
      /\ direct = [t \in EventTypes |-> 0] /\ refused = 0
  BY DEF Init
<1>2. RingsTyped
  BY <1>1, CapacityAssumption DEF RingsTyped, Actions
<1>3. table \in Tables /\ SlotsReachable
  BY DEF Init, Tables, SlotsReachable
<1>4. mode \in Modes /\ calls \in 0 .. MaxCalls
  BY BoundsAssumption DEF Init
<1>5. \A t \in EventTypes : FromPackets(t) = 0
  <2>1. \A t : Places(events, t) = {}
    BY <1>1 DEF Places
  <2>2. \A t : Count(events, t) = 0
    BY <2>1, FS_EmptySet DEF Count
  <2>. QED
    BY <1>1, <2>2, SeenIsCount DEF FromPackets
<1>6. Accounts
  <2>1. Len(outbound) = 0
    BY <1>1
  <2>. QED
    BY <1>1, <1>5, <2>1, AccountsAsNumbers DEF Accounts, Metrics, EventTypes, Balanced
<1>. QED
  BY <1>2, <1>3, <1>4, <1>6, TypeParts DEF AdapterInv

LEMMA NextAdapterInv ==
    ASSUME AdapterInv, Tick, Call
    PROVE  AdapterInv'
<1>1. /\ mode \in Modes /\ calls \in 0 .. MaxCalls /\ table \in Tables /\ RingsTyped
      /\ SlotsReachable /\ Accounts
  BY TypeParts DEF AdapterInv
<1>2. table' \in Tables /\ SlotsReachable'
  BY <1>1, CallKeepsSlots
<1>3. RingsTyped' /\ Accounts'
  BY <1>1, CallKeepsAccounts
<1>4. mode' \in Modes /\ calls' \in 0 .. MaxCalls
  BY <1>1, BoundsAssumption DEF Tick
<1>5. AdapterTypeOK'
  BY <1>2, <1>3, <1>4 DEF AdapterTypeOK, Tables, RingsTyped, Events
<1>. QED
  BY <1>2, <1>3, <1>5 DEF AdapterInv

LEMMA AdapterInvHolds == (Spec => []AdapterInv) /\ (RolloutSpec => []AdapterInv)
<1>1. Init => AdapterInv
  BY InitAdapterInv
<1>2. RolloutInit => AdapterInv
  BY InitAdapterInv DEF RolloutInit
<1>3. AdapterInv /\ [Next]_vars => AdapterInv'
  BY NextAdapterInv, StepsAreCalls
<1>4. AdapterInv /\ [RolloutNext]_<<vars, observeVars>> => AdapterInv'
  BY NextAdapterInv, StepsAreCalls
<1>. QED
  BY <1>1, <1>2, <1>3, <1>4, PTL DEF Spec, RolloutSpec

(***************************************************************************)
(* Whatever the peer sends and however the calls interleave, the adapter's *)
(* rings never exceed their arrays and every record, frame and event is    *)
(* well formed (ownership_adapter.c:14-60).                                *)
(***************************************************************************)
THEOREM AdapterTypeCorrect ==
    (Spec => []AdapterTypeOK) /\ (RolloutSpec => []AdapterTypeOK)
<1>1. AdapterInv => AdapterTypeOK
  BY DEF AdapterInv
<1>. QED
  BY <1>1, AdapterInvHolds, PTL

(***************************************************************************)
(* Probing always finds the one record a subscriber has, in a table of any *)
(* size and for any ids (ownership_adapter.c:96-118).                      *)
(***************************************************************************)
THEOREM ProbingFindsTheRecord ==
    (Spec => []SlotsReachable) /\ (RolloutSpec => []SlotsReachable)
<1>1. AdapterInv => SlotsReachable
  BY DEF AdapterInv
<1>. QED
  BY <1>1, AdapterInvHolds, PTL

(***************************************************************************)
(* No claim goes missing unnoticed: it was flushed, is staged or is        *)
(* counted as a send error (ownership_adapter.c:67-77).                    *)
(***************************************************************************)
THEOREM NoClaimGoesMissing ==
    (Spec => []ClaimsAccounted) /\ (RolloutSpec => []ClaimsAccounted)
<1>1. AdapterInv => ClaimsAccounted
  BY DEF AdapterInv, Accounts
<1>. QED
  BY <1>1, AdapterInvHolds, PTL

(***************************************************************************)
(* No event goes missing unnoticed, whoever pushed it: with what direct    *)
(* calls pushed taken away, own_worker_events_total counts the events      *)
(* popped or waiting, and what was refused is among the counted drops, in  *)
(* rings of any size (ownership_adapter.c:193-213, 323-341).               *)
(***************************************************************************)
THEOREM NoEventGoesMissing ==
    (Spec => []EventsAccounted) /\ (RolloutSpec => []EventsAccounted)
<1>1. AdapterInv => EventsAccounted
  BY DEF AdapterInv, Accounts
<1>. QED
  BY <1>1, AdapterInvHolds, PTL

-----------------------------------------------------------------------------
(***************************************************************************)
(* The order of what is staged.  A frame o is behind a record v unless a   *)
(* sweep took away the owner that tied with it.                            *)
(***************************************************************************)
Behind(o, v) ==
    Beats(o, v) => v.owner_box = Unowned /\ Tied(o, v) /\ Peer < LocalBox

StagedInLine(q, v) ==
    \A i \in 1 .. Len(q) :
        /\ q[i].owner_box = LocalBox
        /\ Behind(q[i], v[q[i].subscriber_id])
        /\ \A j \in i + 1 .. Len(q) :
               q[j].subscriber_id = q[i].subscriber_id => Beats(q[j], q[i])

LEMMA OrderIsLine ==
    /\ OutboundInOrder <=> StagedInLine(outbound, View)
    /\ OutboundInOrder' <=> StagedInLine(outbound', View')
BY DEF OutboundInOrder, StagedInLine, Behind

LEMMA BoxNumbers ==
    /\ LocalBox \in {0, 1} /\ Peer = 1 - LocalBox /\ Unowned = 255
    /\ \A f \in Frames : /\ f.owner_epoch \in Nat /\ f.generation \in Nat
                         /\ f.owner_box \in {0, 1, 255} /\ f.subscriber_id \in Subscribers
    /\ \A r \in Records : /\ r.owner_epoch \in Nat /\ r.generation \in Nat
                          /\ r.owner_box \in {0, 1, 255}
BY LocalBoxAssumption, GenerationModAssumption
DEF Boxes, Peer, Other, Unowned, Owners, Frames, Records, Generations

(* A frame stays behind its subscriber's record whatever becomes of it.    *)
LEMMA StaysBehind ==
    ASSUME NEW o \in Frames, o.owner_box = LocalBox, NEW v \in Records, NEW w \in Records,
           Behind(o, v), w.owner_epoch \in Nat,
           \/ /\ w.owner_epoch = v.owner_epoch /\ w.generation = v.generation
              /\ w.owner_box = v.owner_box
           \/ /\ w.owner_epoch = v.owner_epoch /\ w.generation = v.generation + 1
              /\ v.owner_box = Unowned
           \/ Beats(w, v)
           \/ /\ w.owner_epoch = v.owner_epoch /\ w.generation = v.generation
              /\ v.owner_box = Peer /\ w.owner_box = Unowned
    PROVE  Behind(o, w)
BY BoxNumbers DEF Behind, Beats, Tied

(* A claim on an unowned record beats every frame behind that record.      *)
LEMMA ClaimLeads ==
    ASSUME NEW o \in Frames, o.owner_box = LocalBox, NEW v \in Records, Behind(o, v),
           v.owner_box = Unowned, NEW f \in Frames,
           f.owner_epoch = v.owner_epoch, f.generation = v.generation + 1
    PROVE  Beats(f, o)
BY BoxNumbers DEF Behind, Beats, Tied

LEMMA ClaimCounts ==
    ASSUME MaxGeneration < GenerationMod, NEW r \in Records, r.generation < MaxGeneration
    PROVE  (r.generation + 1) % GenerationMod = r.generation + 1
<1>1. r.generation \in Nat
  BY BoxNumbers
<1>2. r.generation + 1 \in 0 .. GenerationMod - 1
  BY <1>1, GenerationModAssumption, BoundsAssumption
<1>. QED
  BY <1>2, GenerationModAssumption

(* What a call makes of the record of a subscriber, as StaysBehind puts it *)
LEMMA RecordMoves ==
    ASSUME MaxGeneration < GenerationMod, table \in Tables, SlotsReachable, Call,
           NEW t \in Subscribers
    PROVE  LET v == View[t]
               w == View'[t]
           IN  /\ v \in Records /\ w \in Records
               /\ \/ /\ w.owner_epoch = v.owner_epoch /\ w.generation = v.generation
                     /\ w.owner_box = v.owner_box
                  \/ /\ w.owner_epoch = v.owner_epoch /\ w.generation = v.generation + 1
                     /\ v.owner_box = Unowned
                  \/ Beats(w, v)
                  \/ /\ w.owner_epoch = v.owner_epoch /\ w.generation = v.generation
                     /\ v.owner_box = Peer /\ w.owner_box = Unowned
<1>. DEFINE Moves(v, w) ==
              \/ /\ w.owner_epoch = v.owner_epoch /\ w.generation = v.generation
                 /\ w.owner_box = v.owner_box
              \/ /\ w.owner_epoch = v.owner_epoch /\ w.generation = v.generation + 1
                 /\ v.owner_box = Unowned
              \/ Beats(w, v)
              \/ /\ w.owner_epoch = v.owner_epoch /\ w.generation = v.generation
                 /\ v.owner_box = Peer /\ w.owner_box = Unowned
<1>1. \A s \in Subscribers : View[s] \in Records /\ View[s].subscriber_id = s
  BY RecordIsView
<1>2. CASE UNCHANGED table
  <2>1. View' = View
    BY <1>2 DEF View
  <2>. QED
    BY <1>1, <2>1
<1>3. ASSUME NEW s \in Subscribers, NEW r \in Records, Stores(s, r)
      PROVE  View'[t] \in Records /\ Moves(View[t], View'[t])
  <2>1. View' = [View EXCEPT ![s] = r]
    BY <1>3, StoreView DEF Stores
  <2>2. View = [u \in Subscribers |-> View[u]]
    BY DEF View
  <2>3. View'[t] = IF t = s THEN r ELSE View[t]
    BY <2>1, <2>2
  <2>4. CASE t # s
    BY <1>1, <2>3, <2>4
  <2>5. CASE t = s
    <3>1. CASE r = Misrouted(View[s], MigrationThreshold)
      <4>1. /\ r.owner_epoch = View[s].owner_epoch /\ r.generation = View[s].generation
            /\ r.owner_box = View[s].owner_box
        BY <1>1, <3>1, MisroutedFacts
      <4>. QED
        BY <1>3, <2>3, <2>5, <4>1
    <3>2. ASSUME NEW now \in Clock, r = Claimed(View[s], LocalBox, now),
                 View[s].owner_box = Unowned, View[s].generation < MaxGeneration
          PROVE  Moves(View[s], r)
      BY <1>1, <3>2, ClaimedFacts, ClaimCounts
    <3>3. ASSUME NEW f \in PeerFrames, Decodable(f), f.subscriber_id = s,
                 r = ApplyRemoteUpdate(View[s], Decode(f))
          PROVE  Moves(View[s], r)
      <4>1. f \in Frames
        BY <3>3, PeerFramesAssumption
      <4>2. \/ r = View[s]
            \/ /\ Beats(f, View[s]) /\ r.owner_epoch = f.owner_epoch
               /\ r.generation = f.generation /\ r.owner_box = f.owner_box
        BY <1>1, <3>3, <4>1, AppliedFacts
      <4>. QED
        BY <4>2 DEF Beats
    <3>. QED
      BY <1>3, <2>3, <2>5, <3>1, <3>2, <3>3 DEF Stores
  <2>. QED
    BY <2>4, <2>5
<1>4. CASE OnPeerDown
  <2>1. View'[t] = IF View[t].owner_box = Peer THEN Swept(View[t]) ELSE View[t]
    BY <1>4, SweepView
  <2>. QED
    BY <1>1, <2>1, SweptFacts
<1>. QED
  BY <1>1, <1>2, <1>3, <1>4, TableChanges

LEMMA OutboundChanges ==
    ASSUME Call
    PROVE  \/ outbound' = outbound
           \/ outbound' = <<>>
           \/ \E s \in Subscribers : \E now \in Clock : PacketClaims(s, now)
<1>1. ASSUME NEW s \in Subscribers, NEW now \in Clock, OnPacket(s, now)
      PROVE  outbound' = outbound \/ PacketClaims(s, now)
  BY <1>1 DEF OnPacket, PacketDisabled, PacketNoSlot, PacketLocal, PacketForwarded,
              PacketTriggers, PacketClaimFails
<1>2. ASSUME NEW f \in PeerFrames, OnRemoteMsg(f)
      PROVE  outbound' = outbound
  BY <1>2 DEF OnRemoteMsg, MsgGarbled, MsgNoSlot, MsgApplied
<1>. QED
  BY <1>1, <1>2 DEF Call, OnPeerDown, PushDirect, PushDirectTaken,
                          PushDirectRefused, PopEvent, FlushOutbound, adapterVars

LEMMA CallKeepsOrder ==
    ASSUME MaxGeneration < GenerationMod, AdapterInv, OutboundInOrder, Call
    PROVE  OutboundInOrder'
<1>1. table \in Tables /\ SlotsReachable /\ outbound \in Seq(Frames)
  BY TypeParts DEF AdapterInv, RingsTyped
<1>2. \A i \in 1 .. Len(outbound) : outbound[i] \in Frames
  BY <1>1
<1>3. StagedInLine(outbound, View)
  BY OrderIsLine
<1>4. StagedInLine(outbound, View')
  <2>1. ASSUME NEW i \in 1 .. Len(outbound)
        PROVE  Behind(outbound[i], View'[outbound[i].subscriber_id])
    <3>. DEFINE o == outbound[i]
                t == o.subscriber_id
    <3>1. o \in Frames /\ o.owner_box = LocalBox /\ t \in Subscribers /\ Behind(o, View[t])
      BY <1>2, <1>3, BoxNumbers DEF StagedInLine
    <3>. HIDE DEF o
    <3>2. View[t] \in Records /\ View'[t] \in Records
      BY <1>1, <3>1, RecordMoves
    <3>3. View'[t].owner_epoch \in Nat
      BY <3>2, BoxNumbers
    <3>. QED
      BY <1>1, <3>1, <3>2, <3>3, RecordMoves, StaysBehind DEF o
  <2>. QED
    BY <1>3, <2>1 DEF StagedInLine
<1>5. CASE outbound' = outbound
  BY <1>4, <1>5, OrderIsLine
<1>6. CASE outbound' = <<>>
  BY <1>6, OrderIsLine DEF StagedInLine
<1>7. ASSUME NEW s \in Subscribers, NEW now \in Clock, PacketClaims(s, now)
      PROVE  OutboundInOrder'
  <2>. DEFINE r == Claimed(View[s], LocalBox, now)
              f == Encode(UpdateOf(r))
              n == Len(outbound) + 1
  <2>1. HasSlot(s) /\ RecordAt(s) = View[s] /\ View[s] \in Records
        /\ View[s].subscriber_id = s
    BY <1>1, <1>7, RecordIsView DEF PacketClaims
  <2>2. /\ View[s].owner_box = Unowned /\ View[s].generation < MaxGeneration
        /\ Store(s, r) /\ outbound' = Append(outbound, f)
    BY <1>7, <2>1 DEF PacketClaims
  <2>3. /\ r \in Records /\ r.subscriber_id = s /\ r.owner_epoch = View[s].owner_epoch
        /\ r.generation = View[s].generation + 1 /\ r.owner_box = LocalBox
    BY <2>1, <2>2, ClaimedFacts, ClaimCounts
  <2>. HIDE DEF r
  <2>4. /\ f \in Frames /\ f.subscriber_id = s /\ f.owner_epoch = r.owner_epoch
        /\ f.generation = r.generation /\ f.owner_box = LocalBox
    BY <2>3, StagedFacts
  <2>. HIDE DEF f
  <2>5. View'[s] = r
    <3>1. View' = [View EXCEPT ![s] = r]
      BY <1>1, <2>1, <2>2, <2>3, StoreView
    <3>2. View = [u \in Subscribers |-> View[u]]
      BY DEF View
    <3>. QED
      BY <3>1, <3>2
  <2>6. /\ n \in Nat /\ Len(outbound') = n /\ outbound'[n] = f
        /\ \A i \in 1 .. Len(outbound) : outbound'[i] = outbound[i]
    BY <1>1, <2>2
  <2>. HIDE DEF n
  <2>7. Behind(f, r)
    BY <2>3, <2>4, BoxNumbers DEF Behind, Beats
  <2>8. \A i \in 1 .. Len(outbound) :
           outbound[i].subscriber_id = s => Beats(f, outbound[i])
    <3>. SUFFICES ASSUME NEW i \in 1 .. Len(outbound), outbound[i].subscriber_id = s
                  PROVE  Beats(f, outbound[i])
      OBVIOUS
    <3>1. /\ outbound[i] \in Frames /\ outbound[i].owner_box = LocalBox
          /\ Behind(outbound[i], View[s])
      BY <1>2, <1>3 DEF StagedInLine
    <3>. QED
      BY <2>1, <2>2, <2>3, <2>4, <3>1, ClaimLeads
  <2>9. StagedInLine(outbound', View')
    <3>. SUFFICES ASSUME NEW i \in 1 .. n
                  PROVE  /\ outbound'[i].owner_box = LocalBox
                         /\ Behind(outbound'[i], View'[outbound'[i].subscriber_id])
                         /\ \A j \in i + 1 .. n :
                               outbound'[j].subscriber_id = outbound'[i].subscriber_id
                                   => Beats(outbound'[j], outbound'[i])
      BY <2>6 DEF StagedInLine
    <3>1. CASE i = n
      <4>1. i + 1 .. n = {}
        BY <2>6, <3>1
      <4>. QED
        BY <2>4, <2>5, <2>6, <2>7, <3>1, <4>1
    <3>2. CASE i # n
      <4>1. i \in 1 .. Len(outbound) /\ outbound'[i] = outbound[i]
        BY <2>6, <3>2 DEF n
      <4>2. /\ outbound[i].owner_box = LocalBox
            /\ Behind(outbound[i], View'[outbound[i].subscriber_id])
            /\ \A j \in i + 1 .. Len(outbound) :
                  outbound[j].subscriber_id = outbound[i].subscriber_id
                      => Beats(outbound[j], outbound[i])
        BY <1>4, <4>1 DEF StagedInLine
      <4>3. ASSUME NEW j \in i + 1 .. n,
                   outbound'[j].subscriber_id = outbound'[i].subscriber_id
            PROVE  Beats(outbound'[j], outbound'[i])
        <5>1. CASE j = n
          BY <2>4, <2>6, <2>8, <4>1, <4>3, <5>1
        <5>2. CASE j # n
          <6>1. j \in i + 1 .. Len(outbound) /\ j \in 1 .. Len(outbound)
            BY <4>1, <5>2 DEF n
          <6>. QED
            BY <2>6, <4>1, <4>2, <4>3, <6>1
        <5>. QED
          BY <5>1, <5>2
      <4>. QED
        BY <4>1, <4>2, <4>3
    <3>. QED
      BY <3>1, <3>2
  <2>. QED
    BY <2>9, OrderIsLine
<1>. QED
  BY <1>5, <1>6, <1>7, OutboundChanges

(***************************************************************************)
(* As long as no generation wraps, the claims staged for a subscriber      *)
(* leave in the order of precedence and never ahead of the box's own       *)
(* record, but for the sweep's tie (ownership_adapter.c:302-306).          *)
(***************************************************************************)
THEOREM ClaimsLeaveInOrder ==
    ASSUME MaxGeneration < GenerationMod
    PROVE  (Spec => []OutboundInOrder) /\ (RolloutSpec => []OutboundInOrder)
<1>1. Init => OutboundInOrder
  BY DEF Init, OutboundInOrder
<1>2. RolloutInit => OutboundInOrder
  BY <1>1 DEF RolloutInit
<1>3. AdapterInv /\ OutboundInOrder /\ [Next]_vars => OutboundInOrder'
  BY CallKeepsOrder, StepsAreCalls
<1>4. AdapterInv /\ OutboundInOrder /\ [RolloutNext]_<<vars, observeVars>>
      => OutboundInOrder'
  BY CallKeepsOrder, StepsAreCalls
<1>. QED
  BY <1>1, <1>2, <1>3, <1>4, AdapterInvHolds, PTL DEF Spec, RolloutSpec

-----------------------------------------------------------------------------
(***************************************************************************)
(* The table implements a store with one record for every subscriber.      *)
(***************************************************************************)
LEMMA StoreOperators ==
    /\ \A s, now : RecordsOf!Claimed(s, LocalBox, now) = Claimed(s, LocalBox, now)
    /\ \A r : RecordsOf!Misrouted(r, MigrationThreshold) = Misrouted(r, MigrationThreshold)
    /\ \A f : RecordsOf!Decodable(f) <=> Decodable(f)
    /\ \A r, f : RecordsOf!ApplyRemoteUpdate(r, RecordsOf!Decode(f))
                     = ApplyRemoteUpdate(r, Decode(f))
    /\ RecordsOf!Unowned = Unowned /\ RecordsOf!Other(LocalBox) = Peer
BY DEF RecordsOf!Claimed, Claimed, RecordsOf!Misrouted, Misrouted,
       RecordsOf!ReachesThreshold, ReachesThreshold, RecordsOf!Decodable, Decodable,
       RecordsOf!ApplyRemoteUpdate, ApplyRemoteUpdate, RecordsOf!Decode, Decode,
       RecordsOf!Valid, Valid, RecordsOf!Announced, Announced, RecordsOf!Beats, Beats,
       RecordsOf!Adopt, Adopt, RecordsOf!NormalizeOwner, NormalizeOwner,
       RecordsOf!NormalizeTs, NormalizeTs, RecordsOf!Owners, Owners, RecordsOf!Boxes,
       Boxes, RecordsOf!Unowned, Unowned, RecordsOf!Other, Other, Peer

LEMMA CallIsStoreStep ==
    ASSUME AdapterInv, Call
    PROVE  RecordsOf!StoreNext \/ UNCHANGED View
<1>1. table \in Tables /\ SlotsReachable
  BY TypeParts DEF AdapterInv
<1>2. CASE UNCHANGED table
  BY <1>2 DEF View
<1>3. ASSUME NEW s \in Subscribers, NEW r \in Records, Stores(s, r)
      PROVE  RecordsOf!StoreNext
  <2>1. View' = [View EXCEPT ![s] = r]
    BY <1>1, <1>3, StoreView DEF Stores
  <2>2. CASE View[s].owner_box = Peer /\ r = Misrouted(View[s], MigrationThreshold)
    BY <2>1, <2>2, StoreOperators DEF RecordsOf!StoreNext, RecordsOf!CountMisroute
  <2>3. ASSUME View[s].owner_box = Unowned, NEW now \in Clock,
               r = Claimed(View[s], LocalBox, now)
        PROVE  RecordsOf!StoreNext
    BY <2>1, <2>3, StoreOperators DEF RecordsOf!StoreNext, RecordsOf!ClaimRecord
  <2>4. ASSUME NEW f \in PeerFrames, Decodable(f), f.subscriber_id = s,
               r = ApplyRemoteUpdate(View[s], Decode(f))
        PROVE  RecordsOf!StoreNext
    BY <2>1, <2>4, StoreOperators DEF RecordsOf!StoreNext, RecordsOf!HearPeer
  <2>. QED
    BY <1>3, <2>2, <2>3, <2>4 DEF Stores
<1>4. CASE OnPeerDown
  <2>1. View' = [s \in Subscribers |-> IF View[s].owner_box = Peer THEN Swept(View[s])
                                       ELSE View[s]]
    BY <1>1, <1>4, SweepView
  <2>2. RecordsOf!LosePeer
    BY <2>1, StoreOperators DEF RecordsOf!LosePeer, Swept
  <2>. QED
    BY <2>2 DEF RecordsOf!StoreNext
<1>. QED
  BY <1>1, <1>2, <1>3, <1>4, TableChanges

(***************************************************************************)
(* The table is invisible: whatever collides with what, the adapter does   *)
(* to each subscriber's record what the library makes of that record, and  *)
(* to no other's (ownership_adapter.c:87-122, 180-306).                    *)
(***************************************************************************)
THEOREM TableIsInvisible ==
    (Spec => ImplementsStore) /\ (RolloutSpec => ImplementsStore)
<1>1. Init => RecordsOf!StoreInit
  <2>. SUFFICES ASSUME Init PROVE View = [s \in Subscribers |-> NewRecord(s)]
    BY DEF RecordsOf!StoreInit
  <2>1. \A s \in Subscribers :
           {i \in Slots : table[i] # Free /\ table[i].subscriber_id = s} = {}
    BY DEF Init
  <2>. QED
    BY <2>1 DEF View
<1>2. RolloutInit => RecordsOf!StoreInit
  BY <1>1 DEF RolloutInit
<1>3. AdapterInv /\ [Next]_vars => [RecordsOf!StoreNext]_View
  BY CallIsStoreStep, StepsAreCalls
<1>4. AdapterInv /\ [RolloutNext]_<<vars, observeVars>> => [RecordsOf!StoreNext]_View
  BY CallIsStoreStep, StepsAreCalls
<1>. QED
  BY <1>1, <1>2, <1>3, <1>4, AdapterInvHolds, PTL
  DEF Spec, RolloutSpec, ImplementsStore, RecordsOf!StoreSpec

-----------------------------------------------------------------------------
(***************************************************************************)
(* The second adapter, looked up in a table of the first.                  *)
(***************************************************************************)
StopsIn(t, s, k) == t[Probe(s, k)] # Free => t[Probe(s, k)].subscriber_id = s
HasSlotIn(t, s) == \E k \in Slots : StopsIn(t, s, k)
SlotIn(t, s) ==
    Probe(s, CHOOSE k \in Slots : StopsIn(t, s, k) /\ \A j \in 0 .. k - 1 : ~StopsIn(t, s, j))
RecordIn(t, s) == IF t[SlotIn(t, s)] = Free THEN NewRecord(s) ELSE t[SlotIn(t, s)]

LEMMA LookupsIn ==
    /\ \A s : HasSlot(s) <=> HasSlotIn(table, s)
    /\ \A s : SlotOf(s) = SlotIn(table, s)
    /\ \A s : RecordAt(s) = RecordIn(table, s)
BY DEF HasSlot, HasSlotIn, SlotOf, SlotIn, RecordAt, RecordIn, Stops, StopsIn

LEMMA SeenLookupsIn ==
    /\ \A s : Observe!HasSlot(s) <=> HasSlotIn(seenTable, s)
    /\ \A s : Observe!SlotOf(s) = SlotIn(seenTable, s)
    /\ \A s : Observe!RecordAt(s) = RecordIn(seenTable, s)
<1>1. \A s, k : Observe!Stops(s, k) <=> StopsIn(seenTable, s, k)
  BY DEF Observe!Stops, StopsIn, Observe!Probe, Probe
<1>2. \A s : Observe!SlotOf(s) = SlotIn(seenTable, s)
  BY DEF Observe!SlotOf, SlotIn, Observe!Stops, StopsIn, Observe!Probe, Probe,
         Observe!Slots, Slots
<1>3. \A s : Observe!NewRecord(s) = NewRecord(s)
  BY DEF Observe!NewRecord, NewRecord, Observe!Unowned, Unowned
<1>. QED
  BY <1>1, <1>2, <1>3 DEF Observe!HasSlot, HasSlotIn, Observe!RecordAt, RecordIn,
                          Observe!Slots, Slots

LEMMA SameLookups ==
    ASSUME seenTable = table
    PROVE  /\ \A s : Observe!HasSlot(s) <=> HasSlot(s)
           /\ \A s : Observe!SlotOf(s) = SlotOf(s)
           /\ \A s : Observe!RecordAt(s) = RecordAt(s)
BY LookupsIn, SeenLookupsIn

LEMMA SameOperators ==
    /\ \A r, now : Observe!Claimed(r, LocalBox, now) = Claimed(r, LocalBox, now)
    /\ \A r : Observe!Misrouted(r, MigrationThreshold) = Misrouted(r, MigrationThreshold)
    /\ \A r : Observe!ReachesThreshold(r, MigrationThreshold)
                  <=> ReachesThreshold(r, MigrationThreshold)
    /\ \A r : Observe!Encode(Observe!UpdateOf(r)) = Encode(UpdateOf(r))
    /\ \A f : Observe!Decodable(f) <=> Decodable(f)
    /\ \A f : Observe!Decode(f) = Decode(f)
    /\ \A r, u : Observe!ApplyRemoteUpdate(r, u) = ApplyRemoteUpdate(r, u)
    /\ \A r, u : Observe!Verdict(Observe!Announced(u), r) = Verdict(Announced(u), r)
    /\ \A r : Observe!Swept(r) = Swept(r)
    /\ \A m, names : Observe!Bump(m, names) = Bump(m, names)
    /\ Observe!Unowned = Unowned /\ Observe!Peer = Peer /\ Observe!Slots = Slots
<1>1. \A c, d : Observe!Beats(c, d) <=> Beats(c, d)
  BY DEF Observe!Beats, Beats
<1>2. \A u : Observe!Announced(u) = Announced(u)
  BY DEF Observe!Announced, Announced, Observe!NormalizeOwner, NormalizeOwner,
         Observe!NormalizeTs, NormalizeTs, Observe!Owners, Owners, Observe!Boxes, Boxes,
         Observe!Unowned, Unowned
<1>3. \A r, u : Observe!ApplyRemoteUpdate(r, u) = ApplyRemoteUpdate(r, u)
  BY <1>1, <1>2 DEF Observe!ApplyRemoteUpdate, ApplyRemoteUpdate, Observe!Valid, Valid,
                    Observe!Adopt, Adopt, Observe!Unowned, Unowned
<1>4. \A c, r : Observe!Verdict(c, r) = Verdict(c, r)
  BY <1>1 DEF Observe!Verdict, Verdict, Observe!Tied, Tied
<1>5. \A m, names : Observe!Bump(m, names) = Bump(m, names)
  BY DEF Observe!Bump, Bump, Observe!Metrics, Metrics
<1>6. \A r : Observe!Encode(Observe!UpdateOf(r)) = Encode(UpdateOf(r))
  BY DEF Observe!Encode, Encode, Observe!UpdateOf, UpdateOf, Observe!NormalizeTs,
         NormalizeTs, Observe!Owners, Owners, Observe!Boxes, Boxes, Observe!Unowned, Unowned
<1>. QED
  BY <1>2, <1>3, <1>4, <1>5, <1>6
  DEF Observe!Claimed, Claimed, Observe!Misrouted, Misrouted, Observe!ReachesThreshold,
      ReachesThreshold, Observe!Decodable, Decodable, Observe!Decode, Decode,
      Observe!Owners, Owners, Observe!Boxes, Boxes, Observe!Unowned, Unowned,
      Observe!Peer, Peer, Observe!Other, Other, Observe!Slots, Slots,
      Observe!Swept, Swept

-----------------------------------------------------------------------------
(***************************************************************************)
(* What one call makes of the table, the frames, the metrics but for the   *)
(* two event counters, and the return code, as a function of the table and *)
(* the frames before it: the same for either mode.                         *)
(***************************************************************************)
Predicted == Metrics \ {"own_worker_events_total", "own_worker_ring_drop_total"}

Counted(m, n, names) == \A x \in Predicted : n[x] = IF x \in names THEN m[x] + 1 ELSE m[x]

Put(s, r) == [table EXCEPT ![SlotOf(s)] = r]

PacketOutcome(s, now, t, q, m, n, rc) ==
    LET r == RecordAt(s)
        c == Claimed(r, LocalBox, now)
    IN  \/ ~HasSlot(s) /\ t = table /\ q = outbound /\ Counted(m, n, {}) /\ rc = -1
        \/ /\ HasSlot(s) /\ r.owner_box = LocalBox
           /\ t = table /\ q = outbound /\ Counted(m, n, {}) /\ rc = 0
        \/ /\ HasSlot(s) /\ r.owner_box = Peer /\ ~ReachesThreshold(r, MigrationThreshold)
           /\ t = Put(s, Misrouted(r, MigrationThreshold)) /\ q = outbound
           /\ Counted(m, n, {}) /\ rc = 0
        \/ /\ HasSlot(s) /\ r.owner_box = Peer /\ ReachesThreshold(r, MigrationThreshold)
           /\ t = Put(s, Misrouted(r, MigrationThreshold)) /\ q = outbound
           /\ Counted(m, n, {"own_migration_trigger_total"}) /\ rc = 0
        \/ /\ HasSlot(s) /\ r.owner_box = Unowned /\ ~OutboundFits
           /\ t = Put(s, c) /\ q = outbound
           /\ Counted(m, n, {"own_zmq_send_err_total"}) /\ rc = -1
        \/ /\ HasSlot(s) /\ r.owner_box = Unowned /\ OutboundFits
           /\ t = Put(s, c) /\ q = Append(outbound, Encode(UpdateOf(c)))
           /\ Counted(m, n, {}) /\ rc = 0

MsgOutcome(f, t, q, m, n) ==
    LET r == RecordAt(f.subscriber_id)
        u == Decode(f)
    IN  /\ q = outbound
        /\ \/ ~Decodable(f) /\ t = table /\ Counted(m, n, {"own_zmq_recv_err_total"})
           \/ /\ Decodable(f) /\ ~HasSlot(f.subscriber_id)
              /\ t = table /\ Counted(m, n, {})
           \/ /\ Decodable(f) /\ HasSlot(f.subscriber_id)
              /\ t = Put(f.subscriber_id, ApplyRemoteUpdate(r, u))
              /\ Counted(m, n, Verdict(Announced(u), r) \cup {"own_apply_remote_total"})

LEMMA BumpCounts ==
    ASSUME NEW m, NEW n, NEW names, NEW x
    PROVE  /\ n = Bump(m, names) => Counted(m, n, names)
           /\ n = Bump(m, names \cup {x}) /\ x \notin Predicted => Counted(m, n, names)
           /\ n = m => Counted(m, n, {})
BY DEF Bump, Counted, Predicted

LEMMA PushCounts ==
    ASSUME NEW s, NEW type, NEW counted
    PROVE  /\ PushEvent(s, type, counted) => Counted(metrics, metrics', counted)
           /\ Observe!PushEvent(s, type, counted)
                  => Counted(seenMetrics, seenMetrics', counted)
<1>1. /\ "own_worker_events_total" \notin Predicted
      /\ "own_worker_ring_drop_total" \notin Predicted
  BY DEF Predicted
<1>2. ASSUME PushEvent(s, type, counted) PROVE Counted(metrics, metrics', counted)
  <2>1. PICK x \in {"own_worker_events_total", "own_worker_ring_drop_total"} :
            metrics' = Bump(metrics, counted \cup {x})
    BY <1>2 DEF PushEvent
  <2>. QED
    BY <1>1, <2>1, BumpCounts
<1>3. ASSUME Observe!PushEvent(s, type, counted)
      PROVE  Counted(seenMetrics, seenMetrics', counted)
  <2>1. PICK x \in {"own_worker_events_total", "own_worker_ring_drop_total"} :
            seenMetrics' = Bump(seenMetrics, counted \cup {x})
    BY <1>3, SameOperators DEF Observe!PushEvent
  <2>. QED
    BY <1>1, <2>1, BumpCounts
<1>. QED
  BY <1>2, <1>3

LEMMA DirectCounts ==
    ASSUME NEW e
    PROVE  /\ PushDirect(e) => \A x \in Predicted : metrics'[x] = metrics[x]
           /\ Observe!PushDirect(e) => \A x \in Predicted : seenMetrics'[x] = seenMetrics[x]
<1>1. "own_worker_ring_drop_total" \notin Predicted /\ Predicted \subseteq Metrics
  BY DEF Predicted
<1>2. \A m : \A x \in Predicted : Bump(m, {"own_worker_ring_drop_total"})[x] = m[x]
  BY <1>1 DEF Bump
<1>3. \A m : Observe!Bump(m, {"own_worker_ring_drop_total"})
                 = Bump(m, {"own_worker_ring_drop_total"})
  BY SameOperators
<1>. QED
  BY <1>2, <1>3 DEF PushDirect, PushDirectTaken, PushDirectRefused, Observe!PushDirect,
                    Observe!PushDirectTaken, Observe!PushDirectRefused

LEMMA PacketOutcomes ==
    ASSUME mode = "ENFORCE", seenTable = table, seenOutbound = outbound,
           NEW s \in Subscribers, NEW now \in Clock
    PROVE  /\ OnPacket(s, now) =>
                  PacketOutcome(s, now, table', outbound', metrics, metrics', result'.rc)
           /\ Observe!OnPacket(s, now) =>
                  /\ PacketOutcome(s, now, seenTable', seenOutbound', seenMetrics,
                                   seenMetrics', seenResult'.rc)
                  /\ seenResult'.action \in {"NOOP", "PROCESS_LOCAL"}
<1>1. ASSUME OnPacket(s, now)
      PROVE  PacketOutcome(s, now, table', outbound', metrics, metrics', result'.rc)
  <2>1. CASE PacketNoSlot(s) \/ PacketLocal(s)
    <3>1. table' = table /\ outbound' = outbound /\ metrics' = metrics
      BY <2>1 DEF PacketNoSlot, PacketLocal
    <3>2. Counted(metrics, metrics', {})
      BY <3>1 DEF Counted
    <3>. QED
      BY <2>1, <3>1, <3>2 DEF PacketNoSlot, PacketLocal, Returns, PacketOutcome
  <2>2. CASE PacketForwarded(s)
    BY <2>2, BumpCounts DEF PacketForwarded, Returns, Store, PacketOutcome, Put
  <2>3. CASE PacketTriggers(s)
    BY <2>3, PushCounts DEF PacketTriggers, Returns, Store, PacketOutcome, Put
  <2>4. CASE PacketClaimFails(s, now)
    BY <2>4, BumpCounts DEF PacketClaimFails, Returns, Store, PacketOutcome, Put
  <2>5. CASE PacketClaims(s, now)
    BY <2>5, PushCounts DEF PacketClaims, Returns, Store, PacketOutcome, Put
  <2>. QED
    BY <1>1, <2>1, <2>2, <2>3, <2>4, <2>5 DEF OnPacket, PacketDisabled
<1>2. ASSUME Observe!OnPacket(s, now)
      PROVE  /\ PacketOutcome(s, now, seenTable', seenOutbound', seenMetrics,
                              seenMetrics', seenResult'.rc)
             /\ seenResult'.action \in {"NOOP", "PROCESS_LOCAL"}
  <2>1. CASE Observe!PacketNoSlot(s) \/ Observe!PacketLocal(s)
    <3>1. /\ seenTable' = seenTable /\ seenOutbound' = seenOutbound
          /\ seenMetrics' = seenMetrics
      BY <2>1 DEF Observe!PacketNoSlot, Observe!PacketLocal
    <3>2. Counted(seenMetrics, seenMetrics', {})
      BY <3>1 DEF Counted
    <3>. QED
      BY <2>1, <3>1, <3>2, SameLookups
      DEF Observe!PacketNoSlot, Observe!PacketLocal, Observe!Returns, PacketOutcome
  <2>2. CASE Observe!PacketForwarded(s)
    BY <2>2, PushCounts, SameLookups, SameOperators
    DEF Observe!PacketForwarded, Observe!Returns, Observe!Steered, Observe!Store,
        PacketOutcome, Put
  <2>3. CASE Observe!PacketTriggers(s)
    BY <2>3, PushCounts, SameLookups, SameOperators
    DEF Observe!PacketTriggers, Observe!Returns, Observe!Steered, Observe!Store,
        PacketOutcome, Put
  <2>4. CASE Observe!PacketClaimFails(s, now)
    BY <2>4, BumpCounts, SameLookups, SameOperators
    DEF Observe!PacketClaimFails, Observe!Returns, Observe!Store, PacketOutcome, Put,
        Observe!OutboundFits, OutboundFits
  <2>5. CASE Observe!PacketClaims(s, now)
    BY <2>5, PushCounts, SameLookups, SameOperators
    DEF Observe!PacketClaims, Observe!Returns, Observe!Steered, Observe!Store,
        PacketOutcome, Put, Observe!OutboundFits, OutboundFits
  <2>. QED
    BY <1>2, <2>1, <2>2, <2>3, <2>4, <2>5 DEF Observe!OnPacket, Observe!PacketDisabled
<1>. QED
  BY <1>1, <1>2

LEMMA MsgOutcomes ==
    ASSUME seenTable = table, seenOutbound = outbound, NEW f \in PeerFrames
    PROVE  /\ OnRemoteMsg(f) =>
                  /\ MsgOutcome(f, table', outbound', metrics, metrics')
                  /\ result' = result
           /\ Observe!OnRemoteMsg(f) =>
                  /\ MsgOutcome(f, seenTable', seenOutbound', seenMetrics, seenMetrics')
                  /\ seenResult' = seenResult
<1>1. ASSUME OnRemoteMsg(f)
      PROVE  /\ MsgOutcome(f, table', outbound', metrics, metrics')
             /\ result' = result
  BY <1>1, BumpCounts DEF OnRemoteMsg, MsgGarbled, MsgNoSlot, MsgApplied, Store,
                          MsgOutcome, Put
<1>2. ASSUME Observe!OnRemoteMsg(f)
      PROVE  /\ MsgOutcome(f, seenTable', seenOutbound', seenMetrics, seenMetrics')
             /\ seenResult' = seenResult
  BY <1>2, BumpCounts, SameLookups, SameOperators
  DEF Observe!OnRemoteMsg, Observe!MsgGarbled, Observe!MsgNoSlot, Observe!MsgApplied,
      Observe!Store, MsgOutcome, Put
<1>. QED
  BY <1>1, <1>2

(* Two outcomes of the same call agree.                                    *)
LEMMA PacketOutcomesAgree ==
    ASSUME NEW t1, NEW t2, NEW q1, NEW q2, NEW m1, NEW m2, NEW n1, NEW n2,
           NEW rc1, NEW rc2, NEW s, NEW now,
           PacketOutcome(s, now, t1, q1, m1, n1, rc1),
           PacketOutcome(s, now, t2, q2, m2, n2, rc2),
           \A x \in Predicted : m1[x] = m2[x]
    PROVE  /\ t1 = t2 /\ q1 = q2 /\ rc1 = rc2
           /\ \A x \in Predicted : n1[x] = n2[x]
<1>1. \A names : Counted(m1, n1, names) /\ Counted(m2, n2, names)
                 => \A x \in Predicted : n1[x] = n2[x]
  BY DEF Counted
<1>2. LocalBox # Peer /\ LocalBox # Unowned /\ Peer # Unowned
  BY BoxNumbers
<1>. QED
  BY <1>1, <1>2 DEF PacketOutcome

LEMMA MsgOutcomesAgree ==
    ASSUME NEW t1, NEW t2, NEW q1, NEW q2, NEW m1, NEW m2, NEW n1, NEW n2, NEW f,
           MsgOutcome(f, t1, q1, m1, n1), MsgOutcome(f, t2, q2, m2, n2),
           \A x \in Predicted : m1[x] = m2[x]
    PROVE  t1 = t2 /\ q1 = q2 /\ \A x \in Predicted : n1[x] = n2[x]
<1>1. \A names : Counted(m1, n1, names) /\ Counted(m2, n2, names)
                 => \A x \in Predicted : n1[x] = n2[x]
  BY DEF Counted
<1>. QED
  BY <1>1 DEF MsgOutcome

LEMMA RolloutKeepsPrediction ==
    ASSUME ObservePredictsEnforce, [RolloutNext]_<<vars, observeVars>>
    PROVE  ObservePredictsEnforce'
<1>. SUFFICES ASSUME mode' = "ENFORCE"
              PROVE  /\ seenTable' = table' /\ seenOutbound' = outbound'
                     /\ \A x \in Predicted : seenMetrics'[x] = metrics'[x]
                     /\ seenResult'.rc = result'.rc
                     /\ seenResult'.action \in {"NOOP", "PROCESS_LOCAL"}
  BY DEF ObservePredictsEnforce, Predicted
<1>1. mode = "ENFORCE"
  BY DEF RolloutNext, vars
<1>2. /\ seenTable = table /\ seenOutbound = outbound
      /\ \A x \in Predicted : seenMetrics[x] = metrics[x]
      /\ seenResult.rc = result.rc
      /\ seenResult.action \in {"NOOP", "PROCESS_LOCAL"}
  BY <1>1 DEF ObservePredictsEnforce, Predicted
<1>3. ASSUME NEW s \in Subscribers, NEW now \in Clock, OnPacket(s, now),
             Observe!OnPacket(s, now)
      PROVE  /\ seenTable' = table' /\ seenOutbound' = outbound'
             /\ \A x \in Predicted : seenMetrics'[x] = metrics'[x]
             /\ seenResult'.rc = result'.rc
             /\ seenResult'.action \in {"NOOP", "PROCESS_LOCAL"}
  <2>1. /\ PacketOutcome(s, now, table', outbound', metrics, metrics', result'.rc)
        /\ PacketOutcome(s, now, seenTable', seenOutbound', seenMetrics, seenMetrics',
                         seenResult'.rc)
        /\ seenResult'.action \in {"NOOP", "PROCESS_LOCAL"}
    BY <1>1, <1>2, <1>3, PacketOutcomes
  <2>. QED
    BY <1>2, <2>1, PacketOutcomesAgree
<1>4. ASSUME NEW f \in PeerFrames, OnRemoteMsg(f), Observe!OnRemoteMsg(f)
      PROVE  /\ seenTable' = table' /\ seenOutbound' = outbound'
             /\ \A x \in Predicted : seenMetrics'[x] = metrics'[x]
             /\ seenResult'.rc = result'.rc
             /\ seenResult'.action \in {"NOOP", "PROCESS_LOCAL"}
  <2>1. /\ MsgOutcome(f, table', outbound', metrics, metrics')
        /\ MsgOutcome(f, seenTable', seenOutbound', seenMetrics, seenMetrics')
        /\ result' = result /\ seenResult' = seenResult
    BY <1>2, <1>4, MsgOutcomes
  <2>. QED
    BY <1>2, <2>1, MsgOutcomesAgree
<1>5. CASE OnPeerDown /\ Observe!OnPeerDown
  <2>1. /\ seenTable' = table'
        /\ UNCHANGED <<outbound, metrics, result, seenOutbound, seenMetrics,
                       seenResult>>
    BY <1>2, <1>5, SameOperators DEF OnPeerDown, Observe!OnPeerDown
  <2>. QED
    BY <1>2, <2>1
<1>6. CASE PopEvents
  <2>1. UNCHANGED <<table, outbound, metrics, result>>
    BY <1>6 DEF PopEvents, PopEvent, adapterVars
  <2>2. UNCHANGED <<seenTable, seenOutbound, seenMetrics, seenResult>>
    BY <1>6 DEF PopEvents, Observe!PopEvent, observeVars
  <2>. QED
    BY <1>2, <2>1, <2>2
<1>7. CASE FlushBoth
  <2>1. UNCHANGED <<table, metrics, result>> /\ outbound' = <<>>
    BY <1>2, <1>7 DEF FlushBoth, FlushOutbound
  <2>2. UNCHANGED <<seenTable, seenMetrics, seenResult>> /\ seenOutbound' = <<>>
    BY <1>2, <1>7 DEF FlushBoth, Observe!FlushOutbound
  <2>. QED
    BY <1>2, <2>1, <2>2
<1>8. ASSUME NEW e \in DirectEvents, PushDirect(e), Observe!PushDirect(e)
      PROVE  /\ seenTable' = table' /\ seenOutbound' = outbound'
             /\ \A x \in Predicted : seenMetrics'[x] = metrics'[x]
             /\ seenResult'.rc = result'.rc
             /\ seenResult'.action \in {"NOOP", "PROCESS_LOCAL"}
  <2>1. UNCHANGED <<table, outbound, result, seenTable, seenOutbound, seenResult>>
    BY <1>8 DEF PushDirect, PushDirectTaken, PushDirectRefused, Observe!PushDirect,
                Observe!PushDirectTaken, Observe!PushDirectRefused
  <2>2. \A x \in Predicted : metrics'[x] = metrics[x] /\ seenMetrics'[x] = seenMetrics[x]
    BY <1>8, DirectCounts
  <2>. QED
    BY <1>2, <2>1, <2>2
<1>9. CASE UNCHANGED <<vars, observeVars>>
  BY <1>2, <1>9 DEF vars, observeVars
<1>. QED
  BY <1>3, <1>4, <1>5, <1>6, <1>7, <1>8, <1>9 DEF RolloutNext

(***************************************************************************)
(* Observe mode predicts enforce mode: the same calls leave the same       *)
(* records, claims, conflicts, drops and errors, in any order and for any  *)
(* sizes (ownership_adapter.md:44-48, ownership_adapter.c:189-219).        *)
(***************************************************************************)
THEOREM ObserveModePredicts == RolloutSpec => []ObservePredictsEnforce
<1>1. RolloutInit => ObservePredictsEnforce
  BY DEF RolloutInit, Init, Observe!Init, ObservePredictsEnforce, Observe!Slots, Slots,
         Observe!Metrics, Metrics
<1>2. ObservePredictsEnforce /\ [RolloutNext]_<<vars, observeVars>>
      => ObservePredictsEnforce'
  BY RolloutKeepsPrediction
<1>. QED
  BY <1>1, <1>2, PTL DEF RolloutSpec

=============================================================================
