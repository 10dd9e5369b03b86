----------------------------- MODULE RssProofs -----------------------------
(***************************************************************************)
(* The RSS benchmark for every number of threads, packets and slots of a   *)
(* ring and in every mode: its figures add up, and a worker takes over at  *)
(* most once although every packet gives its record another subscriber.    *)
(***************************************************************************)
EXTENDS BenchRss, NumberFacts, SequenceTheorems

LEMMA Sizes ==
    /\ NumRss \in Nat \ {0} /\ NumWorkers \in Nat \ {0} /\ NumShards \in Nat \ {0}
    /\ RingSize \in Nat \ {0} /\ MaxPackets \in Nat
    /\ 1 \in Generations /\ 2 \in Generations /\ Generations \subseteq Nat
    /\ GenerationMod \in Nat \ {0} /\ Boxes = {0, 1}
BY RssAssumption, GenerationModAssumption DEF Generations, Boxes

Threads == Rss \cup Workers \cup Shards
Places == {"test", "push", "pop", "report", "count", "claim", "done"}

LEMMA ThreadFacts ==
    /\ IsFiniteSet(Rss) /\ IsFiniteSet(Workers) /\ IsFiniteSet(Shards)
    /\ Cardinality(Rss) = NumRss
    /\ Rss \cap Workers = {} /\ Rss \cap Shards = {} /\ Workers \cap Shards = {}
    /\ \A t \in Rss : t[2] \in 0 .. NumRss - 1
    /\ \A t \in Workers : t[2] \in 0 .. NumWorkers - 1
<1>1. /\ 0 \in Int /\ NumRss - 1 \in Int /\ NumWorkers - 1 \in Int /\ NumShards - 1 \in Int
      /\ ~(0 > NumRss - 1) /\ NumRss - 1 - 0 + 1 = NumRss
  BY Sizes
<1>2. /\ IsFiniteSet(0 .. NumRss - 1) /\ IsFiniteSet(0 .. NumWorkers - 1)
      /\ IsFiniteSet(0 .. NumShards - 1) /\ Cardinality(0 .. NumRss - 1) = NumRss
  BY <1>1, FS_Interval
<1>3. IsFiniteSet({"rss"}) /\ IsFiniteSet({"worker"}) /\ IsFiniteSet({"shard"})
      /\ Cardinality({"rss"}) = 1
  BY FS_Singleton
<1>4. IsFiniteSet(Rss) /\ IsFiniteSet(Workers) /\ IsFiniteSet(Shards)
      /\ Cardinality(Rss) = 1 * NumRss
  BY <1>2, <1>3, FS_Product DEF Rss, Workers, Shards
<1>. QED
  BY <1>4, Sizes DEF Rss, Workers, Shards

(* A packet's worker and its shard.                                        *)
LEMMA Destinations ==
    ASSUME NEW p \in Packets
    PROVE  /\ p \in Nat /\ <<"worker", p % NumWorkers>> \in Workers
           /\ <<"shard", p % NumShards>> \in Shards /\ p % 2 \in Boxes
<1>1. p \in Nat
  BY Sizes DEF Packets
<1>2. p % NumWorkers \in 0 .. NumWorkers - 1 /\ p % NumShards \in 0 .. NumShards - 1
      /\ p % 2 \in 0 .. 1
  BY <1>1, Sizes
<1>. QED
  BY <1>1, <1>2 DEF Workers, Shards, Boxes

-----------------------------------------------------------------------------
LEMMA PushTyped ==
    ASSUME RssTypeOK, NEW t \in Workers \cup Shards, NEW p \in Packets, ring_push(t, p)
    PROVE  /\ ring' \in [Workers \cup Shards -> Seq(Packets)]
           /\ drops' \in [Workers \cup Shards -> Nat]
           /\ \A x \in Workers \cup Shards : Len(ring'[x]) < RingSize
<1>1. /\ ring \in [Workers \cup Shards -> Seq(Packets)]
      /\ drops \in [Workers \cup Shards -> Nat]
      /\ \A x \in Workers \cup Shards : Len(ring[x]) < RingSize
  BY DEF RssTypeOK
<1>2. CASE ~Fits(t)
  <2>1. drops' = [drops EXCEPT ![t] = @ + 1] /\ ring' = ring
    BY <1>2 DEF ring_push
  <2>2. drops' \in [Workers \cup Shards -> Nat]
    BY <1>1, <2>1
  <2>. QED
    BY <1>1, <2>1, <2>2
<1>3. CASE Fits(t)
  <2>1. ring' = [ring EXCEPT ![t] = Append(@, p)] /\ drops' = drops
    BY <1>3 DEF ring_push
  <2>2. Append(ring[t], p) \in Seq(Packets) /\ Len(Append(ring[t], p)) = Len(ring[t]) + 1
        /\ Len(ring[t]) \in Nat
    BY <1>1, AppendProperties, LenProperties
  <2>3. Len(ring[t]) + 1 < RingSize
    BY <1>3 DEF Fits
  <2>. QED
    BY <1>1, <2>1, <2>2, <2>3
<1>. QED
  BY <1>2, <1>3

LEMMA PopTyped ==
    ASSUME RssTypeOK, NEW t \in Workers \cup Shards, ring_pop(t)
    PROVE  /\ ring' \in [Workers \cup Shards -> Seq(Packets)]
           /\ \A x \in Workers \cup Shards : Len(ring'[x]) < RingSize
           /\ Head(ring[t]) \in Packets /\ Len(ring'[t]) + 1 = Len(ring[t])
           /\ \A x \in (Workers \cup Shards) \ {t} : ring'[x] = ring[x]
<1>1. /\ ring \in [Workers \cup Shards -> Seq(Packets)]
      /\ \A x \in Workers \cup Shards : Len(ring[x]) < RingSize
  BY DEF RssTypeOK
<1>2. ring[t] # <<>> /\ ring' = [ring EXCEPT ![t] = Tail(@)]
  BY DEF ring_pop
<1>3. /\ Head(ring[t]) \in Packets /\ Tail(ring[t]) \in Seq(Packets)
      /\ Len(Tail(ring[t])) = Len(ring[t]) - 1 /\ Len(ring[t]) \in Nat
  BY <1>1, <1>2, HeadTailProperties, LenProperties
<1>4. /\ ring' \in [Workers \cup Shards -> Seq(Packets)] /\ ring'[t] = Tail(ring[t])
      /\ \A x \in (Workers \cup Shards) \ {t} : ring'[x] = ring[x]
  BY <1>1, <1>2, <1>3
<1>5. Len(ring'[t]) + 1 = Len(ring[t]) /\ Len(ring'[t]) < RingSize
  <2>1. Len(ring[t]) < RingSize
    BY <1>1
  <2>. QED
    BY <1>3, <1>4, <2>1, Sizes
<1>. QED
  BY <1>1, <1>3, <1>4, <1>5

(* What a shard makes of its record.                                       *)
LEMMA AppliedTyped ==
    ASSUME NEW r \in Records, NEW p \in Packets, NEW garbage \in Garbage
    PROVE  Applied(r, p, garbage) \in Records
<1>. DEFINE q == Followed(r, p)
            u == UpdateFor(r, p, garbage)
            c == Announced(u)
<1>1. q \in Records
  BY DEF Followed, Records
<1>. HIDE DEF q
<1>2. /\ u.owner_epoch = 1 /\ u.generation \in Generations /\ u.owner_box_id \in Boxes
      /\ u.activation_ts = garbage /\ u.timestamp = 1
  <2>1. r.owner_epoch = 1 /\ r.generation \in Nat
    BY Sizes DEF Records
  <2>2. (r.generation + 1) % GenerationMod \in Generations
    BY <2>1, Sizes DEF Generations
  <2>. QED
    BY <2>1, <2>2, Destinations DEF UpdateFor
<1>. HIDE DEF u
<1>3. /\ c.owner_epoch = 1 /\ c.generation \in Generations /\ c.owner_box \in Boxes
      /\ c.owner_box # Unowned /\ c.activation_ts \in Garbage \cup {0, 1}
  <2>1. NormalizeOwner(u.owner_box_id, u.owner_box) = u.owner_box_id
    BY <1>2 DEF NormalizeOwner, Owners
  <2>2. NormalizeTs(u.activation_ts, u.timestamp) \in Garbage \cup {0, 1}
    BY <1>2 DEF NormalizeTs
  <2>3. u.owner_box_id # Unowned
    BY <1>2 DEF Boxes, Unowned
  <2>. QED
    BY <1>2, <2>1, <2>2, <2>3 DEF Announced
<1>. HIDE DEF c
<1>4. Adopt(q, c) \in Records
  BY <1>1, <1>3 DEF Adopt, Records
<1>5. ApplyRemoteUpdate(q, u) \in Records
  BY <1>1, <1>4 DEF ApplyRemoteUpdate, c
<1>. QED
  BY <1>5 DEF Applied, q, u

(* What a worker makes of its record, for its own box b.                   *)
LEMMA ClaimedTyped ==
    ASSUME NEW r \in Records, NEW p \in Packets, NEW b \in Boxes
    PROVE  ClaimedFor(Followed(r, p), b) \in Records
<1>. DEFINE q == Followed(r, p)
<1>1. q \in Records
  BY DEF Followed, Records
<1>. HIDE DEF q
<1>2. (q.generation + 1) % GenerationMod \in Generations
  <2>1. q.generation \in Nat
    BY <1>1, Sizes DEF Records
  <2>. QED
    BY <2>1, Sizes DEF Generations
<1>3. Claimed(q, b, 1) \in Records
  BY <1>1, <1>2 DEF Claimed, Records
<1>4. ClaimedFor(q, b) \in Records
  BY <1>1, <1>3 DEF ClaimedFor
<1>. QED
  BY <1>4 DEF q

LEMMA StartTyped ==
    ASSUME Init
    PROVE  RssTypeOK
<1>1. StartRecord \in Records
  BY Sizes DEF StartRecord, Records
<1>2. <<>> \in Seq(Packets) /\ Len(<<>>) = 0
  OBVIOUS
<1>3. /\ ring \in [Workers \cup Shards -> Seq(Packets)]
      /\ \A t \in Workers \cup Shards : Len(ring[t]) < RingSize
  BY <1>2, Sizes DEF Init
<1>4. drops \in [Workers \cup Shards -> Nat] /\ rec \in [Workers \cup Shards -> Records]
  BY <1>1 DEF Init
<1>5. at \in [Rss \cup Workers \cup Shards ->
                  {"test", "push", "pop", "report", "count", "claim", "done"}]
  BY DEF Init
<1>6. seq \in [Rss -> Packets]
  <2>1. ASSUME NEW t \in Rss PROVE t[2] + 1 \in Packets
    <3>1. t[2] \in 0 .. NumRss - 1
      BY ThreadFacts
    <3>2. NumRss * (MaxPackets + 1) >= NumRss
      BY Sizes
    <3>3. NumRss * (MaxPackets + 1) \in Nat
      BY Sizes
    <3>. QED
      BY <3>1, <3>2, <3>3, Sizes DEF Packets
  <2>. QED
    BY <2>1 DEF Init
<1>7. pkt \in [Workers -> Packets \cup {0}]
  BY DEF Init
<1>8. /\ mode \in Modes /\ start_ready \in BOOLEAN /\ stop \in BOOLEAN
      /\ pkt_gen \in Nat /\ pkt_done \in Nat /\ own_evt_gen \in Nat /\ own_evt_done \in Nat
  BY DEF Init
<1>. QED
  BY <1>3, <1>4, <1>5, <1>6, <1>7, <1>8 DEF RssTypeOK

-----------------------------------------------------------------------------
(***************************************************************************)
(* What the invariant says of one thread t in place p: a receive thread    *)
(* about to see packet s, a worker with packet n and record r, a shard.    *)
(***************************************************************************)
ReceiverOK(t, p, s) ==
    /\ (s - t[2] - 1) \div NumRss \in 0 .. MaxPackets
    /\ s = t[2] + 1 + NumRss * ((s - t[2] - 1) \div NumRss)
    /\ p \in {"test", "push", "count", "done"}
    /\ p = "push" => s <= NumRss * MaxPackets

WorkerOK(t, p, n, r) ==
    /\ p # "push"
    /\ p \in {"report", "count", "claim"} => n # 0
    /\ r.state = "LOCAL"
    /\ r.owner_box = r.generation - 1
    /\ r.generation = IF t[2] % 2 = 1 /\ r.subscriber_id # 0 THEN 2 ELSE 1

ShardOK(p) == p \in {"test", "pop", "count", "done"}

LEMMA InvNow ==
    RssInv <=> /\ RssTypeOK
               /\ \A t \in Rss : ReceiverOK(t, at[t], seq[t])
               /\ \A t \in Workers : WorkerOK(t, at[t], pkt[t], rec[t])
               /\ \A t \in Shards : ShardOK(at[t])
BY DEF RssInv, ReceiverOK, WorkerOK, ShardOK, OneTakeover, Rounds

LEMMA InvNext ==
    RssInv' <=> /\ RssTypeOK'
                /\ \A t \in Rss : ReceiverOK(t, at'[t], seq'[t])
                /\ \A t \in Workers : WorkerOK(t, at'[t], pkt'[t], rec'[t])
                /\ \A t \in Shards : ShardOK(at'[t])
BY DEF RssInv, ReceiverOK, WorkerOK, ShardOK, OneTakeover, Rounds

(* A step of thread t is judged by what it makes of t.                     *)
LEMMA OneThreadMoves ==
    ASSUME RssInv, NEW t \in Threads, NEW p, at' = [at EXCEPT ![t] = p], RssTypeOK',
           \A x \in Rss \ {t} : seq'[x] = seq[x],
           \A x \in Workers \ {t} : pkt'[x] = pkt[x] /\ rec'[x] = rec[x],
           t \in Rss => ReceiverOK(t, p, seq'[t]),
           t \in Workers => WorkerOK(t, p, pkt'[t], rec'[t]),
           t \in Shards => ShardOK(p)
    PROVE  RssInv'
<1>1. at \in [Threads -> Places]
  BY DEF RssInv, RssTypeOK, Threads, Places
<1>2. at'[t] = p /\ \A x \in Threads \ {t} : at'[x] = at[x]
  BY <1>1
<1>3. ASSUME NEW x \in Rss PROVE ReceiverOK(x, at'[x], seq'[x])
  BY <1>2, <1>3, InvNow DEF Threads
<1>4. ASSUME NEW x \in Workers PROVE WorkerOK(x, at'[x], pkt'[x], rec'[x])
  BY <1>2, <1>4, InvNow DEF Threads
<1>5. ASSUME NEW x \in Shards PROVE ShardOK(at'[x])
  BY <1>2, <1>5, InvNow DEF Threads
<1>. QED
  BY <1>3, <1>4, <1>5, InvNext

LEMMA TestsKeepsInv ==
    ASSUME RssInv, NEW t \in Threads, Tests(t)
    PROVE  RssInv'
<1>. DEFINE p == IF stop THEN "done" ELSE IF t \in Rss THEN "push" ELSE "pop"
<1>1. /\ at[t] = "test" /\ at' = [at EXCEPT ![t] = p]
      /\ UNCHANGED <<config, pkt_gen, pkt_done, own_evt_gen, own_evt_done, ring, drops, seq, pkt, rec>>
      /\ t \in Rss => stop \/ seq[t] <= NumRss * MaxPackets
  BY DEF Tests, Goes
<1>2. RssTypeOK'
  <2>1. at' \in [Rss \cup Workers \cup Shards ->
                     {"test", "push", "pop", "report", "count", "claim", "done"}]
    BY <1>1 DEF RssInv, RssTypeOK
  <2>. QED
    BY <1>1, <2>1 DEF RssInv, RssTypeOK, config
<1>3. t \in Rss => ReceiverOK(t, p, seq[t])
  BY <1>1, InvNow DEF ReceiverOK
<1>4. t \in Workers => WorkerOK(t, p, pkt[t], rec[t])
  BY <1>1, InvNow, ThreadFacts DEF WorkerOK
<1>5. t \in Shards => ShardOK(p)
  BY ThreadFacts DEF ShardOK
<1>. HIDE DEF p
<1>. QED
  BY <1>1, <1>2, <1>3, <1>4, <1>5, OneThreadMoves

LEMMA FindsNothingKeepsInv ==
    ASSUME RssInv, NEW t \in Workers \cup Shards, FindsNothing(t)
    PROVE  RssInv'
<1>1. /\ at' = [at EXCEPT ![t] = "test"] /\ t \in Threads
      /\ UNCHANGED <<config, pkt_gen, pkt_done, own_evt_gen, own_evt_done, ring, drops, seq, pkt, rec>>
  BY DEF FindsNothing, Goes, Threads
<1>2. RssTypeOK'
  <2>1. at' \in [Rss \cup Workers \cup Shards ->
                     {"test", "push", "pop", "report", "count", "claim", "done"}]
    BY <1>1 DEF RssInv, RssTypeOK
  <2>. QED
    BY <1>1, <2>1 DEF RssInv, RssTypeOK, config
<1>3. t \notin Rss
  BY ThreadFacts
<1>4. t \in Workers => WorkerOK(t, "test", pkt[t], rec[t])
  BY InvNow DEF WorkerOK
<1>. QED
  BY <1>1, <1>2, <1>3, <1>4, OneThreadMoves DEF ShardOK

(* One round further.                                                      *)
LEMMA NextRound ==
    ASSUME NEW t \in Rss, NEW s \in Nat, ReceiverOK(t, "push", s)
    PROVE  /\ ReceiverOK(t, "count", s + NumRss) /\ ReceiverOK(t, "test", s + NumRss)
           /\ (s + NumRss - t[2] - 1) \div NumRss = ((s - t[2] - 1) \div NumRss) + 1
           /\ s + NumRss \in Packets
<1>. DEFINE k == (s - t[2] - 1) \div NumRss
<1>1. /\ k \in 0 .. MaxPackets /\ s = t[2] + 1 + NumRss * k /\ s <= NumRss * MaxPackets
      /\ t[2] \in 0 .. NumRss - 1
  BY ThreadFacts DEF ReceiverOK
<1>. HIDE DEF k
<1>2. s + NumRss - t[2] - 1 = NumRss * (k + 1)
  BY <1>1, Sizes
<1>3. (s + NumRss - t[2] - 1) \div NumRss = k + 1
  <2>1. (NumRss * (k + 1)) \div NumRss = k + 1
    BY <1>1, Sizes
  <2>. QED
    BY <1>2, <2>1
<1>4. k + 1 <= MaxPackets
  <2>. SUFFICES ASSUME k >= MaxPackets PROVE FALSE
    BY <1>1, Sizes
  <2>1. NumRss * k >= NumRss * MaxPackets
    BY <1>1, Sizes
  <2>. QED
    BY <1>1, <2>1, Sizes
<1>5. s + NumRss = t[2] + 1 + NumRss * (k + 1)
  BY <1>1, Sizes
<1>6. s + NumRss \in Packets
  <2>1. s + NumRss <= NumRss * (MaxPackets + 1) /\ s + NumRss >= 1
    BY <1>1, Sizes
  <2>. QED
    BY <2>1, Sizes DEF Packets
<1>7. k + 1 \in 0 .. MaxPackets
  BY <1>1, <1>4, Sizes
<1>8. ASSUME NEW n, n = s + NumRss, NEW p \in {"count", "test"} PROVE ReceiverOK(t, p, n)
  <2>1. (n - t[2] - 1) \div NumRss = k + 1
    BY <1>1, <1>3, <1>8, Sizes
  <2>2. n = t[2] + 1 + NumRss * (k + 1) /\ p # "push"
    BY <1>1, <1>5, <1>8, Sizes
  <2>. QED
    BY <1>7, <2>1, <2>2 DEF ReceiverOK
<1>. QED
  BY <1>3, <1>6, <1>8 DEF k

LEMMA ReceiverKeepsInv ==
    ASSUME RssInv, NEW t \in Rss, RssPushes(t) \/ RssCounts(t)
    PROVE  RssInv'
<1>1. RssTypeOK /\ t \in Threads /\ t \notin Workers /\ t \notin Shards
  BY ThreadFacts DEF RssInv, Threads
<1>2. CASE RssPushes(t)
  <2>. DEFINE w == <<"worker", seq[t] % NumWorkers>>
              p == IF Fits(w) THEN "count" ELSE "test"
  <2>1. /\ at[t] = "push" /\ ring_push(w, seq[t]) /\ seq' = [seq EXCEPT ![t] = @ + NumRss]
        /\ at' = [at EXCEPT ![t] = p]
        /\ UNCHANGED <<config, pkt_gen, pkt_done, own_evt_gen, own_evt_done, pkt, rec>>
    BY <1>2 DEF RssPushes, Goes
  <2>2. seq[t] \in Packets /\ seq \in [Rss -> Packets] /\ seq[t] \in Nat /\ w \in Workers
    BY <1>1, Destinations DEF RssTypeOK
  <2>3. /\ ReceiverOK(t, "count", seq[t] + NumRss) /\ ReceiverOK(t, "test", seq[t] + NumRss)
        /\ seq[t] + NumRss \in Packets
    BY <2>1, <2>2, NextRound, InvNow
  <2>4. /\ seq' \in [Rss -> Packets] /\ seq'[t] = seq[t] + NumRss
        /\ \A x \in Rss \ {t} : seq'[x] = seq[x]
    BY <2>1, <2>2, <2>3
  <2>5. /\ ring' \in [Workers \cup Shards -> Seq(Packets)]
        /\ drops' \in [Workers \cup Shards -> Nat]
        /\ \A x \in Workers \cup Shards : Len(ring'[x]) < RingSize
    BY <1>1, <2>1, <2>2, PushTyped
  <2>6. p \in {"count", "test"}
    OBVIOUS
  <2>. HIDE DEF p
  <2>7. RssTypeOK'
    <3>1. at' \in [Rss \cup Workers \cup Shards ->
                       {"test", "push", "pop", "report", "count", "claim", "done"}]
      BY <1>1, <2>1, <2>6 DEF RssTypeOK
    <3>. QED
      BY <1>1, <2>1, <2>4, <2>5, <3>1 DEF RssTypeOK, config
  <2>8. ReceiverOK(t, p, seq'[t])
    BY <2>3, <2>4, <2>6
  <2>. QED
    BY <1>1, <2>1, <2>4, <2>7, <2>8, OneThreadMoves
<1>3. CASE RssCounts(t)
  <2>1. /\ at[t] = "count" /\ at' = [at EXCEPT ![t] = "test"] /\ pkt_gen' = pkt_gen + 1
        /\ UNCHANGED <<config, pkt_done, own_evt_gen, own_evt_done, ring, drops, seq, pkt, rec>>
    BY <1>3 DEF RssCounts, Goes
  <2>2. RssTypeOK'
    <3>1. at' \in [Rss \cup Workers \cup Shards ->
                       {"test", "push", "pop", "report", "count", "claim", "done"}]
      BY <1>1, <2>1 DEF RssTypeOK
    <3>. QED
      BY <1>1, <2>1, <3>1 DEF RssTypeOK, config
  <2>3. ReceiverOK(t, "test", seq[t])
    BY InvNow DEF ReceiverOK
  <2>. QED
    BY <1>1, <2>1, <2>2, <2>3, OneThreadMoves
<1>. QED
  BY <1>2, <1>3

(* A worker takes over on its first packet if at all.                      *)
LEMMA ClaimTakesOverOnce ==
    ASSUME NEW t \in Workers, NEW r \in Records, NEW n \in Packets \cup {0}, n # 0,
           WorkerOK(t, "claim", n, r)
    PROVE  WorkerOK(t, "test", 0, ClaimedFor(Followed(r, n), t[2] % 2))
<1>. DEFINE b == t[2] % 2
            q == Followed(r, n)
<1>1. b \in {0, 1}
  <2>1. t[2] \in Nat
    BY ThreadFacts, Sizes
  <2>. QED
    BY <2>1
<1>2. /\ r.state = "LOCAL" /\ r.owner_box = r.generation - 1 /\ r.generation \in Nat
      /\ r.generation = IF b = 1 /\ r.subscriber_id # 0 THEN 2 ELSE 1
  BY Sizes DEF WorkerOK, Records
<1>3. /\ q \in Records /\ q.state = "LOCAL" /\ q.owner_box = r.owner_box
      /\ q.generation = r.generation /\ q.subscriber_id = n
  BY <1>2 DEF Followed, Records
<1>. HIDE DEF b, q
<1>4. CASE HoldsLocally(q, b)
  <2>1. ClaimedFor(q, b) = q /\ q.owner_box = b
    BY <1>4 DEF ClaimedFor, HoldsLocally
  <2>2. q.generation = IF b = 1 /\ n # 0 THEN 2 ELSE 1
    BY <1>1, <1>2, <1>3, <2>1
  <2>. QED
    BY <1>2, <1>3, <2>1, <2>2 DEF WorkerOK, b, q
<1>5. CASE ~HoldsLocally(q, b)
  <2>1. b = 1 /\ r.generation = 1
    BY <1>1, <1>2, <1>3, <1>5 DEF HoldsLocally
  <2>2. (q.generation + 1) % GenerationMod = 2
    <3>1. 2 \in 0 .. GenerationMod - 1
      BY Sizes DEF Generations
    <3>2. (GenerationMod * 0 + 2) % GenerationMod = 2
      BY <3>1, Sizes, RemainderUnique
    <3>3. GenerationMod * 0 + 2 = 2
      BY Sizes
    <3>. QED
      BY <1>3, <2>1, <3>2, <3>3
  <2>3. ClaimedFor(q, b) = Claimed(q, b, 1)
    BY <1>5 DEF ClaimedFor
  <2>4. /\ Claimed(q, b, 1).state = "LOCAL" /\ Claimed(q, b, 1).owner_box = 1
        /\ Claimed(q, b, 1).generation = 2 /\ Claimed(q, b, 1).subscriber_id = n
    BY <1>3, <2>1, <2>2 DEF Claimed, Records
  <2>. QED
    BY <2>1, <2>3, <2>4 DEF WorkerOK, b, q
<1>. QED
  BY <1>4, <1>5

LEMMA WorkerKeepsInv ==
    ASSUME RssInv, NEW t \in Workers,
           WorkerPops(t) \/ WorkerReports(t) \/ WorkerCounts(t) \/ WorkerClaims(t)
    PROVE  RssInv'
<1>1. /\ RssTypeOK /\ t \in Threads /\ t \notin Rss /\ t \notin Shards
      /\ WorkerOK(t, at[t], pkt[t], rec[t]) /\ rec[t] \in Records
      /\ pkt[t] \in Packets \cup {0} /\ pkt \in [Workers -> Packets \cup {0}]
      /\ rec \in [Workers \cup Shards -> Records]
  BY InvNow, ThreadFacts DEF RssTypeOK, Threads
<1>2. ASSUME NEW p \in Places, at' = [at EXCEPT ![t] = p]
      PROVE  at' \in [Rss \cup Workers \cup Shards ->
                         {"test", "push", "pop", "report", "count", "claim", "done"}]
  BY <1>1, <1>2 DEF RssTypeOK, Places
<1>3. CASE WorkerPops(t)
  <2>. DEFINE p == IF mode = "BASELINE" THEN "claim" ELSE "report"
  <2>1. /\ ring_pop(t) /\ pkt' = [pkt EXCEPT ![t] = Head(ring[t])]
        /\ at' = [at EXCEPT ![t] = p]
        /\ UNCHANGED <<config, pkt_gen, pkt_done, own_evt_gen, own_evt_done, drops, seq, rec>>
    BY <1>3 DEF WorkerPops, Goes
  <2>2. /\ ring' \in [Workers \cup Shards -> Seq(Packets)]
        /\ \A x \in Workers \cup Shards : Len(ring'[x]) < RingSize
        /\ Head(ring[t]) \in Packets
    BY <1>1, <2>1, PopTyped
  <2>3. Head(ring[t]) # 0
    BY <2>2, Sizes DEF Packets
  <2>4. /\ pkt' \in [Workers -> Packets \cup {0}] /\ pkt'[t] # 0
        /\ \A x \in Workers \ {t} : pkt'[x] = pkt[x]
    BY <1>1, <2>1, <2>2, <2>3
  <2>5. p \in {"claim", "report"}
    OBVIOUS
  <2>. HIDE DEF p
  <2>6. RssTypeOK'
    BY <1>1, <1>2, <2>1, <2>2, <2>4, <2>5 DEF RssTypeOK, config, Places
  <2>7. WorkerOK(t, p, pkt'[t], rec[t])
    BY <1>1, <2>4, <2>5 DEF WorkerOK
  <2>. QED
    BY <1>1, <2>1, <2>4, <2>6, <2>7, OneThreadMoves
<1>4. CASE WorkerReports(t)
  <2>. DEFINE s == <<"shard", pkt[t] % NumShards>>
              p == IF Fits(s) THEN "count" ELSE "claim"
  <2>1. /\ at[t] = "report" /\ ring_push(s, pkt[t]) /\ at' = [at EXCEPT ![t] = p]
        /\ UNCHANGED <<config, pkt_gen, pkt_done, own_evt_gen, own_evt_done, seq, pkt, rec>>
    BY <1>4 DEF WorkerReports, Goes
  <2>2. pkt[t] # 0 /\ pkt[t] \in Packets /\ s \in Shards
    BY <1>1, <2>1, Destinations DEF WorkerOK
  <2>3. /\ ring' \in [Workers \cup Shards -> Seq(Packets)]
        /\ drops' \in [Workers \cup Shards -> Nat]
        /\ \A x \in Workers \cup Shards : Len(ring'[x]) < RingSize
    BY <1>1, <2>1, <2>2, PushTyped
  <2>4. p \in {"count", "claim"}
    OBVIOUS
  <2>. HIDE DEF p, s
  <2>5. RssTypeOK'
    BY <1>1, <1>2, <2>1, <2>3, <2>4 DEF RssTypeOK, config, Places
  <2>6. WorkerOK(t, p, pkt[t], rec[t])
    BY <1>1, <2>2, <2>4 DEF WorkerOK
  <2>. QED
    BY <1>1, <2>1, <2>5, <2>6, OneThreadMoves
<1>5. CASE WorkerCounts(t)
  <2>1. /\ at[t] = "count" /\ own_evt_gen' = own_evt_gen + 1
        /\ at' = [at EXCEPT ![t] = "claim"]
        /\ UNCHANGED <<config, pkt_gen, pkt_done, own_evt_done, ring, drops, seq, pkt, rec>>
    BY <1>5 DEF WorkerCounts, Goes
  <2>2. RssTypeOK'
    BY <1>1, <1>2, <2>1 DEF RssTypeOK, config, Places
  <2>3. WorkerOK(t, "claim", pkt[t], rec[t])
    BY <1>1, <2>1 DEF WorkerOK
  <2>. QED
    BY <1>1, <2>1, <2>2, <2>3, OneThreadMoves
<1>6. CASE WorkerClaims(t)
  <2>. DEFINE r == ClaimedFor(Followed(rec[t], pkt[t]), t[2] % 2)
  <2>1. /\ at[t] = "claim" /\ rec' = [rec EXCEPT ![t] = r] /\ pkt' = [pkt EXCEPT ![t] = 0]
        /\ pkt_done' = pkt_done + 1 /\ at' = [at EXCEPT ![t] = "test"]
        /\ UNCHANGED <<config, pkt_gen, own_evt_gen, own_evt_done, ring, drops, seq>>
    BY <1>6 DEF WorkerClaims, Goes
  <2>2. pkt[t] # 0 /\ pkt[t] \in Packets
    BY <1>1, <2>1 DEF WorkerOK
  <2>3. t[2] % 2 \in Boxes
    <3>1. t[2] \in Nat
      BY ThreadFacts, Sizes
    <3>. QED
      BY <3>1 DEF Boxes
  <2>4. r \in Records
    BY <1>1, <2>2, <2>3, ClaimedTyped
  <2>5. WorkerOK(t, "test", 0, r)
    BY <1>1, <2>1, <2>2, ClaimTakesOverOnce
  <2>. HIDE DEF r
  <2>6. /\ rec' \in [Workers \cup Shards -> Records] /\ rec'[t] = r
        /\ \A x \in Workers \ {t} : rec'[x] = rec[x]
    BY <1>1, <2>1, <2>4
  <2>7. /\ pkt' \in [Workers -> Packets \cup {0}] /\ pkt'[t] = 0
        /\ \A x \in Workers \ {t} : pkt'[x] = pkt[x]
    BY <1>1, <2>1
  <2>8. RssTypeOK'
    BY <1>1, <1>2, <2>1, <2>6, <2>7 DEF RssTypeOK, config, Places
  <2>. QED
    BY <1>1, <2>1, <2>5, <2>6, <2>7, <2>8, OneThreadMoves
<1>. QED
  BY <1>3, <1>4, <1>5, <1>6

LEMMA ShardKeepsInv ==
    ASSUME RssInv, NEW t \in Shards, ShardPops(t) \/ ShardCounts(t)
    PROVE  RssInv'
<1>1. /\ RssTypeOK /\ t \in Threads /\ t \notin Rss /\ t \notin Workers /\ rec[t] \in Records
      /\ rec \in [Workers \cup Shards -> Records]
  BY ThreadFacts DEF RssInv, RssTypeOK, Threads
<1>2. ASSUME NEW p \in Places, at' = [at EXCEPT ![t] = p]
      PROVE  at' \in [Rss \cup Workers \cup Shards ->
                         {"test", "push", "pop", "report", "count", "claim", "done"}]
  BY <1>1, <1>2 DEF RssTypeOK, Places
<1>3. CASE ShardPops(t)
  <2>1. /\ ring_pop(t) /\ at' = [at EXCEPT ![t] = "count"]
        /\ UNCHANGED <<config, pkt_gen, pkt_done, own_evt_gen, own_evt_done, drops, seq, pkt>>
    BY <1>3 DEF ShardPops, Goes
  <2>2. PICK garbage \in Garbage : rec' = [rec EXCEPT ![t] = Applied(@, Head(ring[t]), garbage)]
    BY <1>3 DEF ShardPops
  <2>3. /\ ring' \in [Workers \cup Shards -> Seq(Packets)]
        /\ \A x \in Workers \cup Shards : Len(ring'[x]) < RingSize
        /\ Head(ring[t]) \in Packets
    BY <1>1, <2>1, PopTyped
  <2>4. Applied(rec[t], Head(ring[t]), garbage) \in Records
    BY <1>1, <2>3, AppliedTyped
  <2>5. /\ rec' \in [Workers \cup Shards -> Records]
        /\ \A x \in Workers : rec'[x] = rec[x]
    BY <1>1, <2>2, <2>4
  <2>6. RssTypeOK'
    BY <1>1, <1>2, <2>1, <2>3, <2>5 DEF RssTypeOK, config, Places
  <2>. QED
    BY <1>1, <2>1, <2>5, <2>6, OneThreadMoves DEF ShardOK
<1>4. CASE ShardCounts(t)
  <2>1. /\ own_evt_done' = own_evt_done + 1 /\ at' = [at EXCEPT ![t] = "test"]
        /\ UNCHANGED <<config, pkt_gen, pkt_done, own_evt_gen, ring, drops, seq, pkt, rec>>
    BY <1>4 DEF ShardCounts, Goes
  <2>2. RssTypeOK'
    BY <1>1, <1>2, <2>1 DEF RssTypeOK, config, Places
  <2>. QED
    BY <1>1, <2>1, <2>2, OneThreadMoves DEF ShardOK
<1>. QED
  BY <1>3, <1>4

(* The benchmark keeps its types, its threads keep to their loops, and a   *)
(* worker's record is never anything but its own                           *)
(* (bench_worker_rss_impact.c:116-236).                                    *)
THEOREM RssInvariant == Spec => []RssInv
<1>1. Init => RssInv
  <2>. SUFFICES ASSUME Init PROVE RssInv
    OBVIOUS
  <2>1. ASSUME NEW t \in Rss PROVE ReceiverOK(t, at[t], seq[t])
    <3>1. seq[t] = t[2] + 1 /\ at[t] = "test" /\ t[2] \in 0 .. NumRss - 1
      BY ThreadFacts DEF Init
    <3>2. (seq[t] - t[2] - 1) \div NumRss = 0
      <4>1. seq[t] - t[2] - 1 = 0
        BY <3>1, Sizes
      <4>2. 0 \div NumRss = 0
        BY Sizes
      <4>. QED
        BY <4>1, <4>2
    <3>. QED
      BY <3>1, <3>2, Sizes DEF ReceiverOK
  <2>2. ASSUME NEW t \in Workers PROVE WorkerOK(t, at[t], pkt[t], rec[t])
    BY DEF Init, WorkerOK, StartRecord
  <2>3. ASSUME NEW t \in Shards PROVE ShardOK(at[t])
    BY DEF Init, ShardOK
  <2>. QED
    BY <2>1, <2>2, <2>3, StartTyped, InvNow
<1>2. RssInv /\ [Next]_vars => RssInv'
  <2>. SUFFICES ASSUME RssInv, [Next]_vars PROVE RssInv'
    OBVIOUS
  <2>1. ASSUME NEW t \in Rss, RssStep(t) PROVE RssInv'
    BY <2>1, TestsKeepsInv, ReceiverKeepsInv DEF RssStep, Threads
  <2>2. ASSUME NEW t \in Workers, WorkerStep(t) PROVE RssInv'
    BY <2>2, TestsKeepsInv, FindsNothingKeepsInv, WorkerKeepsInv DEF WorkerStep, Threads
  <2>3. ASSUME NEW t \in Shards, ShardStep(t) PROVE RssInv'
    BY <2>3, TestsKeepsInv, FindsNothingKeepsInv, ShardKeepsInv DEF ShardStep, Threads
  <2>4. CASE MainStep \/ UNCHANGED vars
    <3>1. /\ at' = at /\ seq' = seq /\ pkt' = pkt /\ rec' = rec
      BY <2>4 DEF MainStep, vars, config
    <3>2. RssTypeOK'
      <4>1. start_ready' \in BOOLEAN /\ stop' \in BOOLEAN /\ mode' = mode
        BY <2>4 DEF RssInv, RssTypeOK, MainStep, vars, config
      <4>2. /\ pkt_gen' = pkt_gen /\ pkt_done' = pkt_done /\ own_evt_gen' = own_evt_gen
            /\ own_evt_done' = own_evt_done /\ ring' = ring /\ drops' = drops
        BY <2>4 DEF MainStep, vars, config
      <4>. QED
        BY <3>1, <4>1, <4>2 DEF RssInv, RssTypeOK
    <3>. QED
      BY <3>1, <3>2, InvNow, InvNext
  <2>. QED
    BY <2>1, <2>2, <2>3, <2>4 DEF Next
<1>. QED
  BY <1>1, <1>2, PTL DEF Spec

(* Rings never exceed their arrays, and whatever the uninitialized fields  *)
(* hold, records stay well formed (:81-96, 218-228).                       *)
THEOREM RssTypeCorrect == Spec => []RssTypeOK
<1>1. RssInv => RssTypeOK
  BY DEF RssInv
<1>. QED
  BY <1>1, RssInvariant, PTL

(* A worker takes over at most once, whatever its packets (:161-165,       *)
(* 182-183).                                                               *)
THEOREM WorkersTakeOverOnce == Spec => []OneTakeover
<1>1. RssInv => OneTakeover
  BY DEF RssInv
<1>. QED
  BY <1>1, RssInvariant, PTL

-----------------------------------------------------------------------------
(***************************************************************************)
(* The figures.  As long as no generation wraps, a shard's record counts   *)
(* the reports it was given; the packets add up in any case.               *)
(***************************************************************************)
NoWrap == NumRss * MaxPackets + 1 < GenerationMod

Counting == {"count"}
Claiming == {"claim"}
Busy == {"report", "count", "claim"}

RoundsOf(s) == [t \in Rss |-> (s[t] - t[2] - 1) \div NumRss]
Lens(q, threads) == [t \in threads |-> Len(q[t])]
Lost(d, threads) == [t \in threads |-> d[t]]
Gens(r) == [t \in Shards |-> r[t].generation - 1]

FiguresInv ==
    /\ PacketsAccounted
    /\ NoWrap => ReportsAccounted /\ \A t \in Shards : rec[t].generation >= 1

(* The balance, of numbers alone: packets seen, generated and done,        *)
(* reports made and done; receive threads about to count, workers busy,    *)
(* about to count and about to claim, shards about to count; what waits    *)
(* for and what was lost to workers and shards; updates applied.           *)
Balance(m, seen, gen, done, made, eaten, nr, nb, nc, nk, ns, qw, qs, lw, ls, gs) ==
    /\ seen = gen + nr + lw
    /\ gen + nr = done + qw + nb
    /\ NoWrap => /\ m # "BASELINE" => done + nk = made + ls
                 /\ made + nc = eaten + ns + qs
                 /\ m = "ENFORCE" => gs = eaten + ns

Figures(m, s, gen, done, made, eaten, places, q, d, r) ==
    Balance(m, Total(RoundsOf(s)), gen, done, made, eaten,
            Cardinality(Among(places, Rss, Counting)),
            Cardinality(Among(places, Workers, Busy)),
            Cardinality(Among(places, Workers, Counting)),
            Cardinality(Among(places, Workers, Claiming)),
            Cardinality(Among(places, Shards, Counting)),
            Total(Lens(q, Workers)), Total(Lens(q, Shards)),
            Total(Lost(d, Workers)), Total(Lost(d, Shards)), Total(Gens(r)))

LEMMA FiguresNow ==
    FiguresInv <=> /\ Figures(mode, seq, pkt_gen, pkt_done, own_evt_gen, own_evt_done,
                              at, ring, drops, rec)
                   /\ NoWrap => \A t \in Shards : rec[t].generation >= 1
BY DEF FiguresInv, PacketsAccounted, ReportsAccounted, Figures, Balance, NumAt, Among, Seen,
       Rounds, RoundsOf, Waiting, Lens, Dropped, Lost, Gens, Counting, Claiming, Busy

LEMMA FiguresNext ==
    FiguresInv' <=> /\ Figures(mode', seq', pkt_gen', pkt_done', own_evt_gen', own_evt_done',
                               at', ring', drops', rec')
                    /\ NoWrap => \A t \in Shards : rec'[t].generation >= 1
BY DEF FiguresInv, PacketsAccounted, ReportsAccounted, Figures, Balance, NumAt, Among, Seen,
       Rounds, RoundsOf, Waiting, Lens, Dropped, Lost, Gens, Counting, Claiming, Busy

LEMMA FigureNumbers ==
    ASSUME RssInv, FiguresInv
    PROVE  /\ RoundsOf(seq) \in [Rss -> Nat] /\ Total(RoundsOf(seq)) \in Nat
           /\ NoWrap => Gens(rec) \in [Shards -> Nat] /\ Total(Gens(rec)) \in Nat
           /\ pkt_gen \in Nat /\ pkt_done \in Nat /\ own_evt_gen \in Nat /\ own_evt_done \in Nat
           /\ \A C \in {Workers, Shards} :
                  /\ Lens(ring, C) \in [C -> Nat] /\ Lost(drops, C) \in [C -> Nat]
                  /\ Total(Lens(ring, C)) \in Nat /\ Total(Lost(drops, C)) \in Nat
           /\ \A C \in {Rss, Workers, Shards} : \A Q :
                  Cardinality(Among(at, C, Q)) \in Nat
<1>1. RssTypeOK
  BY DEF RssInv
<1>2. ASSUME NEW t \in Rss PROVE (seq[t] - t[2] - 1) \div NumRss \in Nat
  <2>1. (seq[t] - t[2] - 1) \div NumRss \in 0 .. MaxPackets
    BY InvNow DEF ReceiverOK
  <2>. QED
    BY <2>1, Sizes
<1>3. RoundsOf(seq) \in [Rss -> Nat]
  BY <1>2 DEF RoundsOf
<1>4. ASSUME NoWrap PROVE Gens(rec) \in [Shards -> Nat]
  <2>1. ASSUME NEW t \in Shards PROVE rec[t].generation - 1 \in Nat
    <3>1. rec[t].generation \in Nat /\ rec[t].generation >= 1
      BY <1>1, <1>4, FiguresNow, Sizes DEF RssTypeOK, Records
    <3>. QED
      BY <3>1
  <2>. QED
    BY <2>1 DEF Gens
<1>5. ASSUME NEW C \in {Workers, Shards}
      PROVE  /\ Lens(ring, C) \in [C -> Nat] /\ Lost(drops, C) \in [C -> Nat]
             /\ Total(Lens(ring, C)) \in Nat /\ Total(Lost(drops, C)) \in Nat
  <2>1. \A t \in C : Len(ring[t]) \in Nat /\ drops[t] \in Nat
    BY <1>1, LenProperties DEF RssTypeOK
  <2>2. Lens(ring, C) \in [C -> Nat] /\ Lost(drops, C) \in [C -> Nat]
    BY <2>1 DEF Lens, Lost
  <2>3. IsFiniteSet(C)
    BY ThreadFacts
  <2>. QED
    BY <2>2, <2>3, TotalFinite
<1>6. ASSUME NEW C \in {Rss, Workers, Shards}, NEW Q
      PROVE  Cardinality(Among(at, C, Q)) \in Nat
  BY ThreadFacts, AmongFacts
<1>7. Total(RoundsOf(seq)) \in Nat /\ (NoWrap => Total(Gens(rec)) \in Nat)
  BY <1>3, <1>4, ThreadFacts, TotalFinite
<1>. QED
  BY <1>1, <1>3, <1>4, <1>5, <1>6, <1>7 DEF RssTypeOK

(* A push into the ring of a thread of class C, and of none of class D.    *)
LEMMA PushFigures ==
    ASSUME RssTypeOK, NEW C \in SUBSET (Workers \cup Shards), IsFiniteSet(C), NEW x \in C,
           NEW p \in Packets, ring_push(x, p)
    PROVE  /\ Fits(x) => /\ Total(Lens(ring', C)) = Total(Lens(ring, C)) + 1
                         /\ Lost(drops', C) = Lost(drops, C)
           /\ ~Fits(x) => /\ Total(Lost(drops', C)) = Total(Lost(drops, C)) + 1
                          /\ Lens(ring', C) = Lens(ring, C)
           /\ \A D \in {Workers, Shards} :
                  x \notin D => /\ Lens(ring', D) = Lens(ring, D)
                                /\ Lost(drops', D) = Lost(drops, D)
<1>1. /\ ring \in [Workers \cup Shards -> Seq(Packets)]
      /\ drops \in [Workers \cup Shards -> Nat] /\ x \in Workers \cup Shards
      /\ C \subseteq Workers \cup Shards
  BY DEF RssTypeOK
<1>2. /\ ring' \in [Workers \cup Shards -> Seq(Packets)]
      /\ drops' \in [Workers \cup Shards -> Nat]
  BY <1>1, PushTyped
<1>3. /\ Lens(ring, C) \in [C -> Nat] /\ Lens(ring', C) \in [C -> Nat]
      /\ Lost(drops, C) \in [C -> Nat] /\ Lost(drops', C) \in [C -> Nat]
  BY <1>1, <1>2, LenProperties DEF Lens, Lost
<1>4. /\ \A y \in (Workers \cup Shards) \ {x} : ring'[y] = ring[y] /\ drops'[y] = drops[y]
      /\ Fits(x) => ring'[x] = Append(ring[x], p) /\ drops' = drops
      /\ ~Fits(x) => drops'[x] = drops[x] + 1 /\ ring' = ring
  BY <1>1 DEF ring_push
<1>5. CASE Fits(x)
  <2>1. Len(ring'[x]) = Len(ring[x]) + 1
    BY <1>1, <1>4, <1>5, AppendProperties
  <2>2. Lens(ring', C)[x] = Lens(ring, C)[x] + 1
        /\ \A y \in C \ {x} : Lens(ring', C)[y] = Lens(ring, C)[y]
    BY <1>1, <1>4, <2>1 DEF Lens
  <2>3. Total(Lens(ring', C)) = Total(Lens(ring, C)) + 1
    <3>. DEFINE f == Lens(ring, C)
                g == Lens(ring', C)
    <3>1. /\ f \in [C -> Nat] /\ g \in [C -> Nat] /\ g[x] = f[x] + 1
          /\ \A y \in C \ {x} : g[y] = f[y]
      BY <1>3, <2>2
    <3>. HIDE DEF f, g
    <3>2. Total(g) = Total(f) + 1
      BY <3>1, TotalGrows
    <3>. QED
      BY <3>2 DEF f, g
  <2>. QED
    BY <1>4, <1>5, <2>3 DEF Lens
<1>6. CASE ~Fits(x)
  <2>1. Lost(drops', C)[x] = Lost(drops, C)[x] + 1
        /\ \A y \in C \ {x} : Lost(drops', C)[y] = Lost(drops, C)[y]
    BY <1>1, <1>4, <1>6 DEF Lost
  <2>2. Total(Lost(drops', C)) = Total(Lost(drops, C)) + 1
    <3>. DEFINE f == Lost(drops, C)
                g == Lost(drops', C)
    <3>1. /\ f \in [C -> Nat] /\ g \in [C -> Nat] /\ g[x] = f[x] + 1
          /\ \A y \in C \ {x} : g[y] = f[y]
      BY <1>3, <2>1
    <3>. HIDE DEF f, g
    <3>2. Total(g) = Total(f) + 1
      BY <3>1, TotalGrows
    <3>. QED
      BY <3>2 DEF f, g
  <2>. QED
    BY <1>4, <1>6, <2>2 DEF Lost
<1>. QED
  BY <1>5, <1>6

LEMMA PopFigures ==
    ASSUME RssTypeOK, NEW C \in SUBSET (Workers \cup Shards), IsFiniteSet(C), NEW x \in C, ring_pop(x)
    PROVE  /\ Total(Lens(ring', C)) = Total(Lens(ring, C)) - 1
           /\ \A D \in {Workers, Shards} : x \notin D => Lens(ring', D) = Lens(ring, D)
<1>1. /\ ring \in [Workers \cup Shards -> Seq(Packets)] /\ x \in Workers \cup Shards
      /\ C \subseteq Workers \cup Shards
  BY DEF RssTypeOK
<1>2. /\ ring' \in [Workers \cup Shards -> Seq(Packets)] /\ Len(ring'[x]) + 1 = Len(ring[x])
      /\ \A y \in (Workers \cup Shards) \ {x} : ring'[y] = ring[y]
  BY <1>1, PopTyped
<1>3. Lens(ring, C) \in [C -> Nat] /\ Lens(ring', C) \in [C -> Nat]
  BY <1>1, <1>2, LenProperties DEF Lens
<1>4. Lens(ring', C)[x] + 1 = Lens(ring, C)[x]
      /\ \A y \in C \ {x} : Lens(ring', C)[y] = Lens(ring, C)[y]
  BY <1>1, <1>2 DEF Lens
<1>5. Total(Lens(ring', C)) = Total(Lens(ring, C)) - 1
  BY <1>1, <1>3, <1>4, TotalShrinks
<1>6. ASSUME NEW D \in {Workers, Shards}, x \notin D
      PROVE  Lens(ring', D) = Lens(ring, D)
  <2>1. \A y \in D : ring'[y] = ring[y]
    BY <1>2, <1>6
  <2>. QED
    BY <2>1 DEF Lens
<1>. QED
  BY <1>5, <1>6

(* A thread moves to p: what that changes in its own class and no other.   *)
LEMMA ClassMoves ==
    ASSUME NEW t \in Threads, NEW p, at'[t] = p, \A x \in Threads \ {t} : at'[x] = at[x],
           NEW C \in SUBSET Threads, IsFiniteSet(C), NEW Q
    PROVE  /\ t \in C => Cardinality(Among(at', C, Q)) =
                             Cardinality(Among(at, C, Q)) + (IF p \in Q THEN 1 ELSE 0)
                                                          - (IF at[t] \in Q THEN 1 ELSE 0)
           /\ t \notin C => Among(at', C, Q) = Among(at, C, Q)
<1>1. at'[t] = p /\ \A x \in C \ {t} : at'[x] = at[x]
  OBVIOUS
<1>2. Cardinality(Among(at, C, Q)) \in Nat
  BY AmongFacts
<1>3. ASSUME t \in C
      PROVE  Cardinality(Among(at', C, Q)) =
                 Cardinality(Among(at, C, Q)) + (IF p \in Q THEN 1 ELSE 0)
                                              - (IF at[t] \in Q THEN 1 ELSE 0)
  <2>1. CASE at[t] \notin Q /\ p \in Q
    <3>1. at[t] \notin Q /\ at'[t] \in Q
      BY <1>1, <2>1
    <3>2. Cardinality(Among(at', C, Q)) = Cardinality(Among(at, C, Q)) + 1
      BY <1>1, <1>3, <3>1, JoinsAmong
    <3>. QED
      BY <1>2, <2>1, <3>2
  <2>2. CASE at[t] \in Q /\ p \notin Q
    <3>1. at[t] \in Q /\ at'[t] \notin Q
      BY <1>1, <2>2
    <3>2. Cardinality(Among(at', C, Q)) = Cardinality(Among(at, C, Q)) - 1
      BY <1>1, <1>3, <3>1, LeavesAmong
    <3>. QED
      BY <1>2, <2>2, <3>2
  <2>3. CASE at[t] \in Q <=> p \in Q
    <3>1. Among(at', C, Q) = Among(at, C, Q)
      BY <1>1, <1>3, <2>3 DEF Among
    <3>. QED
      BY <1>2, <2>3, <3>1
  <2>. QED
    BY <2>1, <2>2, <2>3
<1>4. ASSUME t \notin C PROVE Among(at', C, Q) = Among(at, C, Q)
  BY <1>1, <1>4 DEF Among
<1>. QED
  BY <1>3, <1>4

LEMMA ReceiverMoves ==
    ASSUME NEW t \in Rss, NEW p, at'[t] = p, \A x \in Threads \ {t} : at'[x] = at[x]
    PROVE  /\ Cardinality(Among(at', Rss, Counting)) =
                  Cardinality(Among(at, Rss, Counting)) + (IF p = "count" THEN 1 ELSE 0)
                                                        - (IF at[t] = "count" THEN 1 ELSE 0)
           /\ \A Q : /\ Among(at', Workers, Q) = Among(at, Workers, Q)
                     /\ Among(at', Shards, Q) = Among(at, Shards, Q)
<1>1. /\ t \in Threads /\ t \notin Workers /\ t \notin Shards
      /\ IsFiniteSet(Rss) /\ IsFiniteSet(Workers) /\ IsFiniteSet(Shards)
      /\ Rss \in SUBSET Threads /\ Workers \in SUBSET Threads /\ Shards \in SUBSET Threads
  BY ThreadFacts DEF Threads
<1>2. Cardinality(Among(at', Rss, Counting)) =
          Cardinality(Among(at, Rss, Counting)) + (IF p \in Counting THEN 1 ELSE 0)
                                                - (IF at[t] \in Counting THEN 1 ELSE 0)
  BY <1>1, ClassMoves
<1>3. \A Q : /\ Among(at', Workers, Q) = Among(at, Workers, Q)
             /\ Among(at', Shards, Q) = Among(at, Shards, Q)
  BY <1>1 DEF Among
<1>. QED
  BY <1>2, <1>3 DEF Counting

LEMMA WorkerMoves ==
    ASSUME NEW t \in Workers, NEW p, at'[t] = p, \A x \in Threads \ {t} : at'[x] = at[x]
    PROVE  /\ Cardinality(Among(at', Workers, Counting)) =
                  Cardinality(Among(at, Workers, Counting))
                      + (IF p = "count" THEN 1 ELSE 0) - (IF at[t] = "count" THEN 1 ELSE 0)
           /\ Cardinality(Among(at', Workers, Claiming)) =
                  Cardinality(Among(at, Workers, Claiming))
                      + (IF p = "claim" THEN 1 ELSE 0) - (IF at[t] = "claim" THEN 1 ELSE 0)
           /\ Cardinality(Among(at', Workers, Busy)) =
                  Cardinality(Among(at, Workers, Busy))
                      + (IF p \in Busy THEN 1 ELSE 0) - (IF at[t] \in Busy THEN 1 ELSE 0)
           /\ \A Q : /\ Among(at', Rss, Q) = Among(at, Rss, Q)
                     /\ Among(at', Shards, Q) = Among(at, Shards, Q)
<1>1. /\ t \in Threads /\ t \notin Rss /\ t \notin Shards /\ IsFiniteSet(Workers)
      /\ Rss \in SUBSET Threads /\ Workers \in SUBSET Threads /\ Shards \in SUBSET Threads
  BY ThreadFacts DEF Threads
<1>2. \A Q : Cardinality(Among(at', Workers, Q)) =
                 Cardinality(Among(at, Workers, Q)) + (IF p \in Q THEN 1 ELSE 0)
                                                    - (IF at[t] \in Q THEN 1 ELSE 0)
  BY <1>1, ClassMoves
<1>3. \A Q : /\ Among(at', Rss, Q) = Among(at, Rss, Q)
             /\ Among(at', Shards, Q) = Among(at, Shards, Q)
  BY <1>1 DEF Among
<1>4. Cardinality(Among(at', Workers, Counting)) =
          Cardinality(Among(at, Workers, Counting)) + (IF p \in Counting THEN 1 ELSE 0)
                                                    - (IF at[t] \in Counting THEN 1 ELSE 0)
  BY <1>2
<1>5. Cardinality(Among(at', Workers, Claiming)) =
          Cardinality(Among(at, Workers, Claiming)) + (IF p \in Claiming THEN 1 ELSE 0)
                                                    - (IF at[t] \in Claiming THEN 1 ELSE 0)
  BY <1>2
<1>6. Cardinality(Among(at', Workers, Busy)) =
          Cardinality(Among(at, Workers, Busy)) + (IF p \in Busy THEN 1 ELSE 0)
                                                - (IF at[t] \in Busy THEN 1 ELSE 0)
  BY <1>2
<1>7. /\ p \in Counting <=> p = "count"
      /\ at[t] \in Counting <=> at[t] = "count"
      /\ p \in Claiming <=> p = "claim"
      /\ at[t] \in Claiming <=> at[t] = "claim"
  BY DEF Counting, Claiming
<1>. QED
  BY <1>3, <1>4, <1>5, <1>6, <1>7

LEMMA ShardMoves ==
    ASSUME NEW t \in Shards, NEW p, at'[t] = p, \A x \in Threads \ {t} : at'[x] = at[x]
    PROVE  /\ Cardinality(Among(at', Shards, Counting)) =
                  Cardinality(Among(at, Shards, Counting)) + (IF p = "count" THEN 1 ELSE 0)
                                                           - (IF at[t] = "count" THEN 1 ELSE 0)
           /\ \A Q : /\ Among(at', Rss, Q) = Among(at, Rss, Q)
                     /\ Among(at', Workers, Q) = Among(at, Workers, Q)
<1>1. /\ t \in Threads /\ t \notin Rss /\ t \notin Workers /\ IsFiniteSet(Shards)
      /\ Rss \in SUBSET Threads /\ Workers \in SUBSET Threads /\ Shards \in SUBSET Threads
  BY ThreadFacts DEF Threads
<1>2. Cardinality(Among(at', Shards, Counting)) =
          Cardinality(Among(at, Shards, Counting)) + (IF p \in Counting THEN 1 ELSE 0)
                                                   - (IF at[t] \in Counting THEN 1 ELSE 0)
  BY <1>1, ClassMoves
<1>3. \A Q : /\ Among(at', Rss, Q) = Among(at, Rss, Q)
             /\ Among(at', Workers, Q) = Among(at, Workers, Q)
  BY <1>1 DEF Among
<1>. QED
  BY <1>2, <1>3 DEF Counting

(* A report that waits for a shard has a packet behind it, so the shard's  *)
(* next generation does not wrap.                                          *)
LEMMA GenerationFits ==
    ASSUME NoWrap, RssInv, FiguresInv, mode = "ENFORCE", NEW t \in Shards, ring[t] # <<>>
    PROVE  rec[t].generation \in Nat /\ rec[t].generation + 1 < GenerationMod
<1>. DEFINE seen == Total(RoundsOf(seq))
            nr == Cardinality(Among(at, Rss, Counting))
            nb == Cardinality(Among(at, Workers, Busy))
            nc == Cardinality(Among(at, Workers, Counting))
            nk == Cardinality(Among(at, Workers, Claiming))
            ns == Cardinality(Among(at, Shards, Counting))
            qw == Total(Lens(ring, Workers))
            qs == Total(Lens(ring, Shards))
            lw == Total(Lost(drops, Workers))
            ls == Total(Lost(drops, Shards))
            gs == Total(Gens(rec))
<1>1. RssTypeOK /\ \A x \in Shards : rec[x].generation >= 1
  BY FiguresNow DEF RssInv
<1>2. Balance(mode, seen, pkt_gen, pkt_done, own_evt_gen, own_evt_done,
              nr, nb, nc, nk, ns, qw, qs, lw, ls, gs)
  BY FiguresNow DEF Figures
<1>3. /\ seen \in Nat /\ gs \in Nat /\ pkt_gen \in Nat /\ pkt_done \in Nat
      /\ own_evt_gen \in Nat /\ own_evt_done \in Nat
      /\ nr \in Nat /\ nb \in Nat /\ nc \in Nat /\ nk \in Nat /\ ns \in Nat
      /\ qw \in Nat /\ qs \in Nat /\ lw \in Nat /\ ls \in Nat
  BY <1>1, FigureNumbers
<1>4. seen <= NumRss * MaxPackets
  <2>1. \A x \in Rss : RoundsOf(seq)[x] <= MaxPackets
    <3>. SUFFICES ASSUME NEW x \in Rss PROVE RoundsOf(seq)[x] <= MaxPackets
      OBVIOUS
    <3>1. (seq[x] - x[2] - 1) \div NumRss \in 0 .. MaxPackets
      BY InvNow DEF ReceiverOK
    <3>. QED
      BY <3>1, Sizes DEF RoundsOf
  <2>2. Total(RoundsOf(seq)) <= Cardinality(Rss) * MaxPackets
    BY <1>1, <2>1, FigureNumbers, ThreadFacts, Sizes, TotalWithin
  <2>. QED
    BY <2>2, ThreadFacts
<1>5. nc + nk <= nb
  <2>. DEFINE A == Among(at, Workers, Counting)
              B == Among(at, Workers, Claiming)
              C == Among(at, Workers, Busy)
  <2>1. A \cap B = {} /\ A \cup B \subseteq C
    BY DEF Among, Counting, Claiming, Busy
  <2>2. IsFiniteSet(A) /\ IsFiniteSet(B) /\ IsFiniteSet(C)
    BY ThreadFacts, AmongFacts
  <2>. HIDE DEF A, B, C
  <2>3. Cardinality(A \cup B) = Cardinality(A) + Cardinality(B) - Cardinality(A \cap B)
    BY <2>2, FS_Union
  <2>4. Cardinality(A \cup B) <= Cardinality(C)
    BY <2>1, <2>2, FS_Subset
  <2>5. Cardinality(A \cap B) = 0
    BY <2>1, FS_EmptySet
  <2>6. Cardinality(A) \in Nat /\ Cardinality(B) \in Nat /\ Cardinality(C) \in Nat
    BY <2>2, FS_CardinalityType
  <2>7. Cardinality(A) + Cardinality(B) <= Cardinality(C)
    <3>. DEFINE u == Cardinality(A \cup B)
    <3>. HIDE DEF u
    <3>1. u = Cardinality(A) + Cardinality(B)
      BY <2>3, <2>5, <2>6 DEF u
    <3>. QED
      BY <2>4, <3>1 DEF u
  <2>. QED
    BY <2>7 DEF A, B, C
<1>6. rec[t].generation - 1 <= gs /\ rec[t].generation \in Nat
  <2>1. Gens(rec)[t] <= Total(Gens(rec))
    BY <1>1, FigureNumbers, ThreadFacts, TotalIsMost
  <2>2. rec[t].generation \in Nat
    BY <1>1, Sizes DEF RssTypeOK, Records
  <2>. QED
    BY <2>1, <2>2 DEF Gens
<1>7. qs >= 1
  <2>1. Len(ring[t]) \in Nat /\ Len(ring[t]) # 0
    <3>1. ring[t] \in Seq(Packets)
      BY <1>1 DEF RssTypeOK
    <3>. QED
      BY <3>1, LenProperties, EmptySeq
  <2>2. Lens(ring, Shards) \in [Shards -> Nat] /\ Lens(ring, Shards)[t] = Len(ring[t])
    BY <1>1, FigureNumbers DEF Lens
  <2>3. Len(ring[t]) <= Total(Lens(ring, Shards))
    BY <2>2, ThreadFacts, TotalIsMost
  <2>. QED
    BY <1>3, <2>1, <2>3
<1>. HIDE DEF seen, nr, nb, nc, nk, ns, qw, qs, lw, ls, gs
<1>8. gs + 1 <= NumRss * MaxPackets
  <2>1. /\ seen = pkt_gen + nr + lw /\ pkt_gen + nr = pkt_done + qw + nb
        /\ pkt_done + nk = own_evt_gen + ls
        /\ own_evt_gen + nc = own_evt_done + ns + qs /\ gs = own_evt_done + ns
    BY <1>2 DEF Balance
  <2>2. NumRss * MaxPackets \in Nat
    BY Sizes
  <2>3. gs + qs <= seen
    BY <1>3, <1>5, <2>1
  <2>. QED
    BY <1>3, <1>4, <1>7, <2>2, <2>3
<1>9. NumRss * MaxPackets \in Nat
  BY Sizes
<1>. QED
  BY <1>3, <1>6, <1>8, <1>9, Sizes DEF NoWrap

LEMMA Moved ==
    ASSUME RssInv, NEW t \in Threads, NEW p, at' = [at EXCEPT ![t] = p]
    PROVE  at'[t] = p /\ \A x \in Threads \ {t} : at'[x] = at[x]
<1>1. at \in [Threads -> Places]
  BY DEF RssInv, RssTypeOK, Threads, Places
<1>. QED
  BY <1>1

(* In ENFORCE mode every report moves its shard's record on.               *)
LEMMA AppliedCountsOn ==
    ASSUME mode = "ENFORCE", NEW r \in Records, NEW p \in Packets, NEW garbage \in Garbage,
           r.generation + 1 < GenerationMod
    PROVE  Applied(r, p, garbage).generation = r.generation + 1
<1>. DEFINE q == Followed(r, p)
            u == UpdateFor(r, p, garbage)
            c == Announced(u)
<1>1. /\ q \in Records /\ q.generation = r.generation /\ q.subscriber_id = p
      /\ q.owner_epoch = r.owner_epoch /\ r.generation \in Nat
  BY Sizes DEF Followed, Records
<1>. HIDE DEF q
<1>2. /\ u.owner_epoch = q.owner_epoch /\ u.generation = r.generation + 1
      /\ u.msg_version = 1 /\ u.subscriber_id = q.subscriber_id
  <2>1. (r.generation + 1) % GenerationMod = r.generation + 1
    <3>1. (GenerationMod * 0 + (r.generation + 1)) % GenerationMod = r.generation + 1
      BY <1>1, Sizes, RemainderUnique
    <3>. QED
      BY <1>1, <3>1, Sizes
  <2>. QED
    BY <1>1, <2>1 DEF UpdateFor
<1>3. Valid(q, u)
  BY <1>2 DEF Valid
<1>. HIDE DEF u
<1>4. c.owner_epoch = q.owner_epoch /\ c.generation = r.generation + 1
  BY <1>2 DEF Announced
<1>. HIDE DEF c
<1>5. Beats(c, q)
  BY <1>1, <1>4 DEF Beats
<1>6. Adopt(q, c).generation = r.generation + 1
  BY <1>1, <1>4 DEF Adopt, Records
<1>7. ApplyRemoteUpdate(q, u) = Adopt(q, c)
  BY <1>3, <1>5 DEF ApplyRemoteUpdate, c
<1>. QED
  BY <1>6, <1>7 DEF Applied, q, u

-----------------------------------------------------------------------------
(* A packet is seen: generated or lost.                                    *)
LEMMA ReceiverFigures ==
    ASSUME RssInv, FiguresInv, NEW t \in Rss, RssPushes(t) \/ RssCounts(t)
    PROVE  FiguresInv'
<1>1. /\ RssTypeOK /\ t \in Threads
      /\ NoWrap => \A x \in Shards : rec[x].generation >= 1
      /\ Workers \in SUBSET (Workers \cup Shards) /\ IsFiniteSet(Workers)
  BY FiguresNow, ThreadFacts DEF RssInv, Threads
<1>2. Figures(mode, seq, pkt_gen, pkt_done, own_evt_gen, own_evt_done, at, ring, drops, rec)
  BY FiguresNow
<1>3. CASE RssPushes(t)
  <2>. DEFINE w == <<"worker", seq[t] % NumWorkers>>
              p == IF Fits(w) THEN "count" ELSE "test"
  <2>1. /\ at[t] = "push" /\ ring_push(w, seq[t]) /\ seq' = [seq EXCEPT ![t] = @ + NumRss]
        /\ UNCHANGED <<config, pkt_gen, pkt_done, own_evt_gen, own_evt_done, pkt, rec>>
    BY <1>3 DEF RssPushes
  <2>2. /\ seq[t] \in Packets /\ seq \in [Rss -> Packets] /\ seq[t] \in Nat
        /\ w \in Workers /\ w \notin Shards
    BY <1>1, Destinations, ThreadFacts DEF RssTypeOK
  <2>3. Total(RoundsOf(seq')) = Total(RoundsOf(seq)) + 1
    <3>1. seq'[t] = seq[t] + NumRss /\ \A x \in Rss \ {t} : seq'[x] = seq[x]
      BY <2>1, <2>2
    <3>2. (seq[t] + NumRss - t[2] - 1) \div NumRss = ((seq[t] - t[2] - 1) \div NumRss) + 1
      BY <2>1, <2>2, NextRound, InvNow
    <3>3. RoundsOf(seq')[t] = RoundsOf(seq)[t] + 1
          /\ \A x \in Rss \ {t} : RoundsOf(seq')[x] = RoundsOf(seq)[x]
      <4>1. seq[t] + NumRss \in Nat /\ t[2] \in Nat
        BY <2>2, ThreadFacts, Sizes
      <4>2. (seq'[t] - t[2] - 1) \div NumRss = ((seq[t] - t[2] - 1) \div NumRss) + 1
        BY <2>2, <3>1, <3>2, <4>1, Sizes
      <4>. QED
        BY <3>1, <4>2 DEF RoundsOf
    <3>4. RoundsOf(seq) \in [Rss -> Nat]
      BY <1>1, FigureNumbers
    <3>5. RoundsOf(seq') \in [Rss -> Nat]
      <4>1. \A x \in Rss : RoundsOf(seq')[x] \in Nat
        BY <3>3, <3>4
      <4>. QED
        BY <4>1 DEF RoundsOf
    <3>. QED
      BY <3>3, <3>4, <3>5, ThreadFacts, TotalGrows
  <2>4. /\ Fits(w) => /\ Total(Lens(ring', Workers)) = Total(Lens(ring, Workers)) + 1
                      /\ Lost(drops', Workers) = Lost(drops, Workers)
        /\ ~Fits(w) => /\ Total(Lost(drops', Workers)) = Total(Lost(drops, Workers)) + 1
                       /\ Lens(ring', Workers) = Lens(ring, Workers)
        /\ Lens(ring', Shards) = Lens(ring, Shards) /\ Lost(drops', Shards) = Lost(drops, Shards)
    BY <1>1, <2>1, <2>2, PushFigures
  <2>5. at'[t] = p /\ \A x \in Threads \ {t} : at'[x] = at[x]
    BY <1>1, <1>3, Moved DEF RssPushes, Goes
  <2>. HIDE DEF w
  <2>6. /\ Cardinality(Among(at', Rss, Counting)) =
               Cardinality(Among(at, Rss, Counting)) + (IF Fits(w) THEN 1 ELSE 0)
        /\ \A Q : /\ Among(at', Workers, Q) = Among(at, Workers, Q)
                  /\ Among(at', Shards, Q) = Among(at, Shards, Q)
    <3>1. Cardinality(Among(at, Rss, Counting)) \in Nat
      BY <1>1, FigureNumbers
    <3>2. Cardinality(Among(at', Rss, Counting)) =
              Cardinality(Among(at, Rss, Counting)) + (IF p = "count" THEN 1 ELSE 0)
                                                    - (IF at[t] = "count" THEN 1 ELSE 0)
          /\ \A Q : /\ Among(at', Workers, Q) = Among(at, Workers, Q)
                    /\ Among(at', Shards, Q) = Among(at, Shards, Q)
      BY <2>5, ReceiverMoves
    <3>. QED
      BY <2>1, <3>1, <3>2
  <2>7. /\ mode' = mode /\ pkt_gen' = pkt_gen /\ pkt_done' = pkt_done
        /\ own_evt_gen' = own_evt_gen /\ own_evt_done' = own_evt_done /\ rec' = rec
    BY <2>1 DEF config
  <2>8. Figures(mode', seq', pkt_gen', pkt_done', own_evt_gen', own_evt_done',
                at', ring', drops', rec')
    BY <1>1, <1>2, <2>3, <2>4, <2>6, <2>7, FigureNumbers DEF Figures, Balance
  <2>. QED
    BY <1>1, <2>7, <2>8, FiguresNext
<1>4. CASE RssCounts(t)
  <2>1. /\ at[t] = "count" /\ pkt_gen' = pkt_gen + 1
        /\ UNCHANGED <<config, pkt_done, own_evt_gen, own_evt_done, ring, drops, seq, pkt, rec>>
    BY <1>4 DEF RssCounts
  <2>2. at'[t] = "test" /\ \A x \in Threads \ {t} : at'[x] = at[x]
    BY <1>1, <1>4, Moved DEF RssCounts, Goes
  <2>3. /\ Cardinality(Among(at', Rss, Counting)) = Cardinality(Among(at, Rss, Counting)) - 1
        /\ \A Q : /\ Among(at', Workers, Q) = Among(at, Workers, Q)
                  /\ Among(at', Shards, Q) = Among(at, Shards, Q)
    <3>1. Cardinality(Among(at, Rss, Counting)) \in Nat
      BY <1>1, FigureNumbers
    <3>. QED
      BY <2>1, <2>2, <3>1, ReceiverMoves
  <2>4. Figures(mode', seq', pkt_gen', pkt_done', own_evt_gen', own_evt_done',
                at', ring', drops', rec')
    BY <1>1, <1>2, <2>1, <2>3, FigureNumbers DEF Figures, Balance, config
  <2>. QED
    BY <1>1, <2>1, <2>4, FiguresNext
<1>. QED
  BY <1>3, <1>4

(* A packet is taken, reported or lost, and done.                          *)
LEMMA WorkerFigures ==
    ASSUME RssInv, FiguresInv, NEW t \in Workers,
           WorkerPops(t) \/ WorkerReports(t) \/ WorkerCounts(t) \/ WorkerClaims(t)
    PROVE  FiguresInv'
<1>1. /\ RssTypeOK /\ t \in Threads /\ t \in Workers \cup Shards /\ t \notin Shards
      /\ NoWrap => \A x \in Shards : rec[x].generation >= 1
      /\ Workers \in SUBSET (Workers \cup Shards) /\ IsFiniteSet(Workers)
      /\ Shards \in SUBSET (Workers \cup Shards) /\ IsFiniteSet(Shards)
  BY FiguresNow, ThreadFacts DEF RssInv, Threads
<1>2. Figures(mode, seq, pkt_gen, pkt_done, own_evt_gen, own_evt_done, at, ring, drops, rec)
  BY FiguresNow
<1>3. /\ \A Q : Cardinality(Among(at, Workers, Q)) \in Nat
      /\ "count" \in Busy /\ "report" \in Busy /\ "claim" \in Busy
      /\ "pop" \notin Busy /\ "test" \notin Busy
  BY <1>1, FigureNumbers DEF Busy
<1>4. CASE WorkerPops(t)
  <2>. DEFINE p == IF mode = "BASELINE" THEN "claim" ELSE "report"
  <2>1. /\ at[t] = "pop" /\ ring_pop(t)
        /\ UNCHANGED <<config, pkt_gen, pkt_done, own_evt_gen, own_evt_done, drops, seq, rec>>
    BY <1>4 DEF WorkerPops
  <2>2. at'[t] = p /\ \A x \in Threads \ {t} : at'[x] = at[x]
    BY <1>1, <1>4, Moved DEF WorkerPops, Goes
  <2>3. /\ Total(Lens(ring', Workers)) = Total(Lens(ring, Workers)) - 1
        /\ Lens(ring', Shards) = Lens(ring, Shards)
    BY <1>1, <2>1, PopFigures
  <2>4. /\ p \in Busy /\ p # "count"
        /\ (p = "claim") <=> (mode = "BASELINE")
    BY <1>3
  <2>. HIDE DEF p
  <2>5. /\ Cardinality(Among(at', Workers, Counting)) = Cardinality(Among(at, Workers, Counting))
        /\ mode # "BASELINE" => Cardinality(Among(at', Workers, Claiming)) =
                                    Cardinality(Among(at, Workers, Claiming))
        /\ Cardinality(Among(at', Workers, Busy)) = Cardinality(Among(at, Workers, Busy)) + 1
        /\ \A Q : /\ Among(at', Rss, Q) = Among(at, Rss, Q)
                  /\ Among(at', Shards, Q) = Among(at, Shards, Q)
    BY <1>3, <2>1, <2>2, <2>4, WorkerMoves
  <2>6. /\ mode' = mode /\ pkt_gen' = pkt_gen /\ pkt_done' = pkt_done /\ drops' = drops
        /\ own_evt_gen' = own_evt_gen /\ own_evt_done' = own_evt_done /\ rec' = rec /\ seq' = seq
    BY <2>1 DEF config
  <2>7. Figures(mode', seq', pkt_gen', pkt_done', own_evt_gen', own_evt_done',
                at', ring', drops', rec')
    BY <1>1, <1>2, <2>3, <2>5, <2>6, FigureNumbers DEF Figures, Balance
  <2>. QED
    BY <1>1, <2>6, <2>7, FiguresNext
<1>5. CASE WorkerReports(t)
  <2>. DEFINE s == <<"shard", pkt[t] % NumShards>>
              p == IF Fits(s) THEN "count" ELSE "claim"
  <2>1. /\ at[t] = "report" /\ ring_push(s, pkt[t])
        /\ UNCHANGED <<config, pkt_gen, pkt_done, own_evt_gen, own_evt_done, seq, pkt, rec>>
    BY <1>5 DEF WorkerReports
  <2>2. at'[t] = p /\ \A x \in Threads \ {t} : at'[x] = at[x]
    BY <1>1, <1>5, Moved DEF WorkerReports, Goes
  <2>3. pkt[t] \in Packets /\ s \in Shards /\ s \notin Workers
    <3>1. pkt[t] \in Packets \cup {0} /\ pkt[t] # 0
      BY <1>1, <2>1, InvNow DEF WorkerOK, RssTypeOK
    <3>. QED
      BY <3>1, Destinations, ThreadFacts
  <2>4. /\ Fits(s) => /\ Total(Lens(ring', Shards)) = Total(Lens(ring, Shards)) + 1
                      /\ Lost(drops', Shards) = Lost(drops, Shards)
        /\ ~Fits(s) => /\ Total(Lost(drops', Shards)) = Total(Lost(drops, Shards)) + 1
                       /\ Lens(ring', Shards) = Lens(ring, Shards)
        /\ Lens(ring', Workers) = Lens(ring, Workers) /\ Lost(drops', Workers) = Lost(drops, Workers)
    BY <1>1, <2>1, <2>3, PushFigures
  <2>. HIDE DEF s
  <2>5. p \in Busy /\ (p = "count" <=> Fits(s)) /\ (p = "claim" <=> ~Fits(s))
    BY <1>3
  <2>. HIDE DEF p
  <2>6. /\ Cardinality(Among(at', Workers, Counting)) =
               Cardinality(Among(at, Workers, Counting)) + (IF Fits(s) THEN 1 ELSE 0)
        /\ Cardinality(Among(at', Workers, Claiming)) =
               Cardinality(Among(at, Workers, Claiming)) + (IF Fits(s) THEN 0 ELSE 1)
        /\ Cardinality(Among(at', Workers, Busy)) = Cardinality(Among(at, Workers, Busy))
        /\ \A Q : /\ Among(at', Rss, Q) = Among(at, Rss, Q)
                  /\ Among(at', Shards, Q) = Among(at, Shards, Q)
    BY <1>3, <2>1, <2>2, <2>5, WorkerMoves
  <2>7. /\ mode' = mode /\ pkt_gen' = pkt_gen /\ pkt_done' = pkt_done
        /\ own_evt_gen' = own_evt_gen /\ own_evt_done' = own_evt_done /\ rec' = rec /\ seq' = seq
    BY <2>1 DEF config
  <2>8. Figures(mode', seq', pkt_gen', pkt_done', own_evt_gen', own_evt_done',
                at', ring', drops', rec')
    BY <1>1, <1>2, <2>4, <2>6, <2>7, FigureNumbers DEF Figures, Balance
  <2>. QED
    BY <1>1, <2>7, <2>8, FiguresNext
<1>6. CASE WorkerCounts(t)
  <2>1. /\ at[t] = "count" /\ own_evt_gen' = own_evt_gen + 1
        /\ UNCHANGED <<config, pkt_gen, pkt_done, own_evt_done, ring, drops, seq, pkt, rec>>
    BY <1>6 DEF WorkerCounts
  <2>2. at'[t] = "claim" /\ \A x \in Threads \ {t} : at'[x] = at[x]
    BY <1>1, <1>6, Moved DEF WorkerCounts, Goes
  <2>3. /\ Cardinality(Among(at', Workers, Counting)) =
               Cardinality(Among(at, Workers, Counting)) - 1
        /\ Cardinality(Among(at', Workers, Claiming)) =
               Cardinality(Among(at, Workers, Claiming)) + 1
        /\ Cardinality(Among(at', Workers, Busy)) = Cardinality(Among(at, Workers, Busy))
        /\ \A Q : /\ Among(at', Rss, Q) = Among(at, Rss, Q)
                  /\ Among(at', Shards, Q) = Among(at, Shards, Q)
    BY <1>3, <2>1, <2>2, WorkerMoves
  <2>4. /\ mode' = mode /\ pkt_gen' = pkt_gen /\ pkt_done' = pkt_done /\ drops' = drops
        /\ own_evt_done' = own_evt_done /\ rec' = rec /\ seq' = seq /\ ring' = ring
    BY <2>1 DEF config
  <2>5. Figures(mode', seq', pkt_gen', pkt_done', own_evt_gen', own_evt_done',
                at', ring', drops', rec')
    BY <1>1, <1>2, <2>1, <2>3, <2>4, FigureNumbers DEF Figures, Balance
  <2>. QED
    BY <1>1, <2>4, <2>5, FiguresNext
<1>7. CASE WorkerClaims(t)
  <2>1. /\ at[t] = "claim" /\ pkt_done' = pkt_done + 1
        /\ rec' = [rec EXCEPT ![t] = ClaimedFor(Followed(@, pkt[t]), t[2] % 2)]
        /\ UNCHANGED <<config, pkt_gen, own_evt_gen, own_evt_done, ring, drops, seq>>
    BY <1>7 DEF WorkerClaims
  <2>2. at'[t] = "test" /\ \A x \in Threads \ {t} : at'[x] = at[x]
    BY <1>1, <1>7, Moved DEF WorkerClaims, Goes
  <2>3. /\ Cardinality(Among(at', Workers, Counting)) =
               Cardinality(Among(at, Workers, Counting))
        /\ Cardinality(Among(at', Workers, Claiming)) =
               Cardinality(Among(at, Workers, Claiming)) - 1
        /\ Cardinality(Among(at', Workers, Busy)) = Cardinality(Among(at, Workers, Busy)) - 1
        /\ \A Q : /\ Among(at', Rss, Q) = Among(at, Rss, Q)
                  /\ Among(at', Shards, Q) = Among(at, Shards, Q)
    BY <1>3, <2>1, <2>2, WorkerMoves
  <2>4. /\ mode' = mode /\ pkt_gen' = pkt_gen /\ drops' = drops /\ own_evt_gen' = own_evt_gen
        /\ own_evt_done' = own_evt_done /\ seq' = seq /\ ring' = ring
    BY <2>1 DEF config
  <2>5. (\A x \in Shards : rec'[x] = rec[x]) /\ Gens(rec') = Gens(rec)
    <3>1. \A x \in Shards : rec'[x] = rec[x]
      BY <1>1, <2>1 DEF RssTypeOK
    <3>. QED
      BY <3>1 DEF Gens
  <2>6. Figures(mode', seq', pkt_gen', pkt_done', own_evt_gen', own_evt_done',
                at', ring', drops', rec')
    <3>1. pkt_done' = pkt_done + 1
      BY <2>1
    <3>. QED
      BY <1>1, <1>2, <2>3, <2>4, <2>5, <3>1, FigureNumbers DEF Figures, Balance
  <2>. QED
    BY <1>1, <2>5, <2>6, FiguresNext
<1>. QED
  BY <1>4, <1>5, <1>6, <1>7

(* A report is taken and done.                                             *)
LEMMA ShardFigures ==
    ASSUME RssInv, FiguresInv, NEW t \in Shards, ShardPops(t) \/ ShardCounts(t)
    PROVE  FiguresInv'
<1>1. /\ RssTypeOK /\ t \in Threads /\ t \in Workers \cup Shards /\ t \notin Workers
      /\ NoWrap => \A x \in Shards : rec[x].generation >= 1
      /\ rec \in [Workers \cup Shards -> Records]
      /\ Shards \in SUBSET (Workers \cup Shards) /\ IsFiniteSet(Shards)
  BY FiguresNow, ThreadFacts DEF RssInv, RssTypeOK, Threads
<1>2. Figures(mode, seq, pkt_gen, pkt_done, own_evt_gen, own_evt_done, at, ring, drops, rec)
  BY FiguresNow
<1>3. Cardinality(Among(at, Shards, Counting)) \in Nat
  BY <1>1, FigureNumbers
<1>4. CASE ShardPops(t)
  <2>1. /\ at[t] = "pop" /\ ring_pop(t) /\ ring[t] # <<>>
        /\ UNCHANGED <<config, pkt_gen, pkt_done, own_evt_gen, own_evt_done, drops, seq, pkt>>
    BY <1>4 DEF ShardPops, ring_pop
  <2>2. at'[t] = "count" /\ \A x \in Threads \ {t} : at'[x] = at[x]
    BY <1>1, <1>4, Moved DEF ShardPops, Goes
  <2>3. /\ Total(Lens(ring', Shards)) = Total(Lens(ring, Shards)) - 1
        /\ Lens(ring', Workers) = Lens(ring, Workers)
    BY <1>1, <2>1, PopFigures
  <2>4. /\ Cardinality(Among(at', Shards, Counting)) =
               Cardinality(Among(at, Shards, Counting)) + 1
        /\ \A Q : /\ Among(at', Rss, Q) = Among(at, Rss, Q)
                  /\ Among(at', Workers, Q) = Among(at, Workers, Q)
    BY <1>3, <2>1, <2>2, ShardMoves
  <2>5. /\ mode' = mode /\ pkt_gen' = pkt_gen /\ pkt_done' = pkt_done /\ drops' = drops
        /\ own_evt_gen' = own_evt_gen /\ own_evt_done' = own_evt_done /\ seq' = seq
    BY <2>1 DEF config
  <2>. DEFINE p == Head(ring[t])
  <2>6. PICK garbage \in Garbage : rec' = [rec EXCEPT ![t] = Applied(@, p, garbage)]
    BY <1>4 DEF ShardPops
  <2>7. p \in Packets /\ rec[t] \in Records /\ rec[t].generation \in Nat
    <3>1. p \in Packets
      BY <1>1, <2>1, PopTyped
    <3>2. rec[t] \in Records
      BY <1>1
    <3>. QED
      BY <3>1, <3>2, Sizes DEF Records
  <2>. HIDE DEF p
  <2>8. rec'[t] = Applied(rec[t], p, garbage) /\ \A x \in Shards \ {t} : rec'[x] = rec[x]
    BY <1>1, <2>6
  <2>9. /\ NoWrap /\ mode = "ENFORCE" => rec'[t].generation = rec[t].generation + 1
        /\ mode # "ENFORCE" => rec'[t] = rec[t]
    <3>1. CASE NoWrap /\ mode = "ENFORCE"
      BY <2>1, <2>7, <2>8, <3>1, GenerationFits, AppliedCountsOn
    <3>2. CASE mode # "ENFORCE"
      BY <2>8, <3>2 DEF Applied
    <3>. QED
      BY <3>1, <3>2
  <2>10. NoWrap => \A x \in Shards : rec'[x].generation >= 1
    <3>1. NoWrap => rec'[t].generation >= 1
      BY <1>1, <2>7, <2>9
    <3>. QED
      BY <1>1, <2>8, <3>1
  <2>11. NoWrap /\ mode = "ENFORCE" => Total(Gens(rec')) = Total(Gens(rec)) + 1
    <3>. SUFFICES ASSUME NoWrap, mode = "ENFORCE" PROVE Total(Gens(rec')) = Total(Gens(rec)) + 1
      OBVIOUS
    <3>. DEFINE f == Gens(rec)
                g == Gens(rec')
    <3>1. f \in [Shards -> Nat]
      BY <1>1, FigureNumbers
    <3>2. g[t] = f[t] + 1 /\ \A x \in Shards \ {t} : g[x] = f[x]
      BY <2>7, <2>8, <2>9 DEF Gens
    <3>3. g \in [Shards -> Nat]
      <4>1. g = [x \in Shards |-> g[x]]
        BY DEF Gens
      <4>2. \A x \in Shards : g[x] \in Nat
        BY <3>1, <3>2
      <4>. HIDE DEF g
      <4>. QED
        BY <4>1, <4>2
    <3>. HIDE DEF f, g
    <3>4. Total(g) = Total(f) + 1
      BY <3>1, <3>2, <3>3, ThreadFacts, TotalGrows
    <3>. QED
      BY <3>4 DEF f, g
  <2>12. Figures(mode', seq', pkt_gen', pkt_done', own_evt_gen', own_evt_done',
                 at', ring', drops', rec')
    BY <1>1, <1>2, <2>3, <2>4, <2>5, <2>11, FigureNumbers DEF Figures, Balance
  <2>. QED
    BY <2>10, <2>12, FiguresNext
<1>5. CASE ShardCounts(t)
  <2>1. /\ at[t] = "count" /\ own_evt_done' = own_evt_done + 1
        /\ UNCHANGED <<config, pkt_gen, pkt_done, own_evt_gen, ring, drops, seq, pkt, rec>>
    BY <1>5 DEF ShardCounts
  <2>2. at'[t] = "test" /\ \A x \in Threads \ {t} : at'[x] = at[x]
    BY <1>1, <1>5, Moved DEF ShardCounts, Goes
  <2>3. /\ Cardinality(Among(at', Shards, Counting)) =
               Cardinality(Among(at, Shards, Counting)) - 1
        /\ \A Q : /\ Among(at', Rss, Q) = Among(at, Rss, Q)
                  /\ Among(at', Workers, Q) = Among(at, Workers, Q)
    BY <1>3, <2>1, <2>2, ShardMoves
  <2>4. Figures(mode', seq', pkt_gen', pkt_done', own_evt_gen', own_evt_done',
                at', ring', drops', rec')
    BY <1>1, <1>2, <2>1, <2>3, FigureNumbers DEF Figures, Balance, config
  <2>. QED
    BY <1>1, <2>1, <2>4, FiguresNext
<1>. QED
  BY <1>4, <1>5

(* A thread looks at `stop' or finds its ring empty: no figure moves.      *)
LEMMA IdleFigures ==
    ASSUME RssInv, FiguresInv, NEW t \in Threads, Tests(t) \/ FindsNothing(t)
    PROVE  FiguresInv'
<1>. DEFINE p == IF FindsNothing(t) THEN "test"
                 ELSE IF stop THEN "done" ELSE IF t \in Rss THEN "push" ELSE "pop"
<1>1. /\ at[t] \in {"test", "pop"} /\ at' = [at EXCEPT ![t] = p]
      /\ UNCHANGED <<config, pkt_gen, pkt_done, own_evt_gen, own_evt_done, ring, drops, seq, pkt, rec>>
  BY DEF Tests, FindsNothing, Goes
<1>2. p \in {"test", "done", "push", "pop"}
  OBVIOUS
<1>. HIDE DEF p
<1>3. at'[t] = p /\ \A x \in Threads \ {t} : at'[x] = at[x]
  BY <1>1, Moved
<1>4. ASSUME NEW Q \in {Counting, Claiming, Busy}, NEW C \in {Rss, Workers, Shards}
      PROVE  Among(at', C, Q) = Among(at, C, Q)
  <2>1. C \subseteq Threads
    BY DEF Threads
  <2>2. at[t] \notin Q /\ at'[t] \notin Q
    BY <1>1, <1>2, <1>3 DEF Counting, Claiming, Busy
  <2>3. \A x \in C : at'[x] \in Q <=> at[x] \in Q
    BY <1>3, <2>1, <2>2
  <2>. QED
    BY <2>3 DEF Among
<1>5. /\ Among(at', Rss, Counting) = Among(at, Rss, Counting)
      /\ Among(at', Workers, Counting) = Among(at, Workers, Counting)
      /\ Among(at', Workers, Claiming) = Among(at, Workers, Claiming)
      /\ Among(at', Workers, Busy) = Among(at, Workers, Busy)
      /\ Among(at', Shards, Counting) = Among(at, Shards, Counting)
  BY <1>4
<1>6. /\ mode' = mode /\ pkt_gen' = pkt_gen /\ pkt_done' = pkt_done
      /\ own_evt_gen' = own_evt_gen /\ own_evt_done' = own_evt_done
      /\ ring' = ring /\ drops' = drops /\ seq' = seq /\ rec' = rec
  BY <1>1 DEF config
<1>. QED
  BY <1>5, <1>6, FiguresNow, FiguresNext DEF Figures

LEMMA FiguresStart ==
    ASSUME Init
    PROVE  FiguresInv
<1>1. RssTypeOK
  BY StartTyped
<1>2. \A t \in Workers \cup Shards :
          rec[t].generation = 1 /\ Len(ring[t]) = 0 /\ drops[t] = 0
  BY DEF Init, StartRecord
<1>3. ASSUME NEW C \in {Workers, Shards}
      PROVE  Total(Lens(ring, C)) = 0 /\ Total(Lost(drops, C)) = 0
  <2>1. /\ Lens(ring, C) \in [C -> Nat] /\ \A t \in C : Lens(ring, C)[t] = 0
        /\ Lost(drops, C) \in [C -> Nat] /\ \A t \in C : Lost(drops, C)[t] = 0
    BY <1>2 DEF Lens, Lost
  <2>. QED
    BY <2>1, TotalOfNothing
<1>4. Total(Gens(rec)) = 0
  <2>1. Gens(rec) \in [Shards -> Nat] /\ \A t \in Shards : Gens(rec)[t] = 0
    BY <1>2 DEF Gens
  <2>. QED
    BY <2>1, TotalOfNothing
<1>5. Total(RoundsOf(seq)) = 0
  <2>1. ASSUME NEW t \in Rss PROVE (seq[t] - t[2] - 1) \div NumRss = 0
    <3>1. seq[t] = t[2] + 1 /\ t[2] \in Int
      BY ThreadFacts DEF Init
    <3>. QED
      BY <3>1, Sizes
  <2>2. RoundsOf(seq) \in [Rss -> Nat] /\ \A t \in Rss : RoundsOf(seq)[t] = 0
    BY <2>1 DEF RoundsOf
  <2>. QED
    BY <2>2, TotalOfNothing
<1>6. ASSUME NEW Q \in {Counting, Claiming, Busy}, NEW C \in {Rss, Workers, Shards}
      PROVE  Cardinality(Among(at, C, Q)) = 0
  <2>1. Among(at, C, Q) = {}
    BY DEF Init, Among, Counting, Claiming, Busy
  <2>. QED
    BY <2>1, FS_EmptySet
<1>7. /\ Cardinality(Among(at, Rss, Counting)) = 0
      /\ Cardinality(Among(at, Workers, Counting)) = 0
      /\ Cardinality(Among(at, Workers, Claiming)) = 0
      /\ Cardinality(Among(at, Workers, Busy)) = 0
      /\ Cardinality(Among(at, Shards, Counting)) = 0
  BY <1>6
<1>8. pkt_gen = 0 /\ pkt_done = 0 /\ own_evt_gen = 0 /\ own_evt_done = 0
  BY DEF Init
<1>9. Figures(mode, seq, pkt_gen, pkt_done, own_evt_gen, own_evt_done, at, ring, drops, rec)
  BY <1>3, <1>4, <1>5, <1>7, <1>8 DEF Figures, Balance
<1>. QED
  BY <1>2, <1>9, FiguresNow

LEMMA FiguresInvariant == Spec => []FiguresInv
<1>1. Init => FiguresInv
  BY FiguresStart
<1>2. RssInv /\ FiguresInv /\ [Next]_vars => FiguresInv'
  <2>. SUFFICES ASSUME RssInv, FiguresInv, [Next]_vars PROVE FiguresInv'
    OBVIOUS
  <2>1. ASSUME NEW t \in Rss, RssStep(t) PROVE FiguresInv'
    BY <2>1, IdleFigures, ReceiverFigures DEF RssStep, Threads
  <2>2. ASSUME NEW t \in Workers, WorkerStep(t) PROVE FiguresInv'
    BY <2>2, IdleFigures, WorkerFigures DEF WorkerStep, Threads
  <2>3. ASSUME NEW t \in Shards, ShardStep(t) PROVE FiguresInv'
    BY <2>3, IdleFigures, ShardFigures DEF ShardStep, Threads
  <2>4. CASE MainStep \/ UNCHANGED vars
    <3>1. /\ mode' = mode /\ pkt_gen' = pkt_gen /\ pkt_done' = pkt_done
          /\ own_evt_gen' = own_evt_gen /\ own_evt_done' = own_evt_done
          /\ at' = at /\ ring' = ring /\ drops' = drops /\ seq' = seq /\ rec' = rec
      BY <2>4 DEF MainStep, vars, config
    <3>. QED
      BY <3>1, FiguresNow, FiguresNext
  <2>. QED
    BY <2>1, <2>2, <2>3, <2>4 DEF Next
<1>. QED
  BY <1>1, <1>2, RssInvariant, PTL DEF Spec

(* Every packet seen was counted as generated or as a drop, and every      *)
(* generated packet is done, waiting or being worked on, whatever the      *)
(* number of threads (:137, 298).                                          *)
THEOREM PacketsAddUp == Spec => []PacketsAccounted
<1>1. FiguresInv => PacketsAccounted
  BY DEF FiguresInv
<1>. QED
  BY <1>1, FiguresInvariant, PTL

(* Every packet done was reported or dropped by a shard's ring, and in     *)
(* ENFORCE mode every report moved its shard's record on (:174-180, 227).  *)
THEOREM ReportsAddUp == NoWrap => (Spec => []ReportsAccounted)
<1>. SUFFICES ASSUME NoWrap PROVE Spec => []ReportsAccounted
  OBVIOUS
<1>1. FiguresInv => ReportsAccounted
  BY DEF FiguresInv
<1>. QED
  BY <1>1, FiguresInvariant, PTL

=============================================================================
