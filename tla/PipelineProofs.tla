--------------------------- MODULE PipelineProofs ---------------------------
(***************************************************************************)
(* The pipeline benchmark for every number of workers, shards, events and  *)
(* slots of a ring: a case that ends has lost at most one event per        *)
(* worker, although its shards read the two counters without a lock and    *)
(* leave while events may still wait.                                      *)
(***************************************************************************)
EXTENDS BenchPipeline, NumberFacts, SequenceTheorems

LEMMA Sizes ==
    /\ NumWorkers \in Nat \ {0} /\ NumShards \in Nat \ {0} /\ RingSize \in Nat \ {0}
    /\ MaxEvents \in Nat /\ 1 \in Generations
    /\ Generations \subseteq Nat /\ GenerationMod \in Nat \ {0} /\ Boxes = {0, 1}
BY PipelineAssumption, GenerationModAssumption DEF Generations, Boxes

(* Workers with an event in their hands: at most all of them.              *)
LEMMA UncountedFacts ==
    ASSUME NEW S \in SUBSET Workers
    PROVE  IsFiniteSet(S) /\ Cardinality(S) \in Nat /\ Cardinality(S) <= NumWorkers
<1>1. IsFiniteSet(Workers) /\ Cardinality(Workers) = NumWorkers
  <2>1. 0 \in Int /\ NumWorkers - 1 \in Int /\ ~(0 > NumWorkers - 1)
        /\ (NumWorkers - 1) - 0 + 1 = NumWorkers
    BY Sizes
  <2>. QED
    BY <2>1, FS_Interval DEF Workers
<1>2. IsFiniteSet(S) /\ Cardinality(S) <= Cardinality(Workers)
  BY <1>1, FS_Subset
<1>. QED
  BY <1>1, <1>2, FS_CardinalityType

(* What the update with its uninitialized fields makes of a record.        *)
LEMMA AppliedRecord ==
    ASSUME NEW r \in Records, NEW e \in Events, NEW garbage \in Garbage
    PROVE  ApplyRemoteUpdate([r EXCEPT !.subscriber_id = e.subscriber_id],
                             UpdateFor([r EXCEPT !.subscriber_id = e.subscriber_id], e, garbage))
               \in Records
<1>. DEFINE q == [r EXCEPT !.subscriber_id = e.subscriber_id]
            u == UpdateFor(q, e, garbage)
            c == Announced(u)
<1>1. q \in Records
  BY DEF Records, Events
<1>. HIDE DEF q
<1>2. /\ u.owner_epoch = 1 /\ u.generation \in Generations /\ u.owner_box_id \in Boxes
      /\ u.activation_ts = garbage /\ u.timestamp = 1
  <2>1. q.owner_epoch = 1 /\ q.generation \in Nat
    BY <1>1, Sizes DEF Records
  <2>2. (q.generation + 1) % GenerationMod \in Generations
    BY <2>1, Sizes DEF Generations
  <2>. QED
    BY <2>1, <2>2 DEF UpdateFor, Events
<1>. HIDE DEF u
<1>3. /\ c.owner_epoch = 1 /\ c.generation \in Generations /\ c.owner_box \in Boxes
      /\ c.owner_box # Unowned /\ c.activation_ts \in Garbage \cup {0, 1}
  <2>1. NormalizeOwner(u.owner_box_id, u.owner_box) = u.owner_box_id
    BY <1>2 DEF NormalizeOwner, Owners
  <2>2. NormalizeTs(u.activation_ts, u.timestamp) \in Garbage \cup {0, 1}
    BY <1>2 DEF NormalizeTs
  <2>3. u.owner_box_id # Unowned
    BY <1>2 DEF Boxes, Unowned
  <2>. QED
    BY <1>2, <2>1, <2>2, <2>3 DEF Announced
<1>. HIDE DEF c
<1>4. Adopt(q, c) \in Records
  BY <1>1, <1>3 DEF Adopt, Records
<1>. QED
  BY <1>1, <1>4 DEF ApplyRemoteUpdate, q, u, c

-----------------------------------------------------------------------------
LEMMA PushTyped ==
    ASSUME PipelineTypeOK, NEW s \in Shards, NEW e \in Events, ring_push(s, e)
    PROVE  /\ rings' \in [Shards -> Seq(Events)] /\ dropped' \in [Shards -> Nat]
           /\ \A t \in Shards : Len(rings'[t]) < RingSize
<1>1. /\ rings \in [Shards -> Seq(Events)] /\ dropped \in [Shards -> Nat]
      /\ \A t \in Shards : Len(rings[t]) < RingSize
  BY DEF PipelineTypeOK
<1>2. CASE Len(rings[s]) + 1 = RingSize
  <2>1. dropped' = [dropped EXCEPT ![s] = @ + 1] /\ rings' = rings
    BY <1>2 DEF ring_push
  <2>2. dropped' \in [Shards -> Nat]
    BY <1>1, <2>1
  <2>. QED
    BY <1>1, <2>1, <2>2
<1>3. CASE Len(rings[s]) + 1 # RingSize
  <2>1. rings' = [rings EXCEPT ![s] = Append(@, e)] /\ dropped' = dropped
    BY <1>3 DEF ring_push
  <2>2. Append(rings[s], e) \in Seq(Events) /\ Len(Append(rings[s], e)) = Len(rings[s]) + 1
        /\ Len(rings[s]) \in Nat
    BY <1>1, AppendProperties, LenProperties
  <2>3. Len(rings[s]) + 1 < RingSize
    BY <1>1, <1>3, <2>2, Sizes
  <2>. QED
    BY <1>1, <2>1, <2>2, <2>3
<1>. QED
  BY <1>2, <1>3

LEMMA ShardOfEvent ==
    ASSUME NEW e \in Events
    PROVE  e.subscriber_id % NumShards \in Shards
<1>1. e.subscriber_id \in Nat
  BY Sizes DEF Events
<1>. QED
  BY <1>1, Sizes DEF Shards

LEMMA WorkerTyped ==
    ASSUME PipelineTypeOK, NEW w \in Workers, WorkerStep(w)
    PROVE  PipelineTypeOK'
<1>1. CASE WorkerStarts(w)
  BY <1>1 DEF WorkerStarts, PipelineTypeOK, shared
<1>2. CASE WorkerLeaves(w)
  BY <1>2 DEF WorkerLeaves, PipelineTypeOK, shared
<1>3. CASE WorkerHasEvent(w)
  <2>1. /\ global_seq' = global_seq + 1 /\ global_seq < MaxEvents
        /\ hand' = [hand EXCEPT ![w] = [subscriber_id |-> global_seq', owner_box_id |-> w % 2]]
        /\ worker' = [worker EXCEPT ![w] = "push"]
        /\ UNCHANGED <<start_ready, stop, produced, consumed, rings, dropped, rec, shard, saw, main>>
    BY <1>3 DEF WorkerHasEvent
  <2>2. global_seq \in 0 .. MaxEvents /\ global_seq' \in 0 .. MaxEvents
    BY <2>1, Sizes DEF PipelineTypeOK
  <2>3. w % 2 \in Boxes
    BY Sizes DEF Workers, Boxes
  <2>4. [subscriber_id |-> global_seq', owner_box_id |-> w % 2] \in Events
    BY <2>2, <2>3 DEF Events
  <2>. QED
    BY <2>1, <2>2, <2>4 DEF PipelineTypeOK
<1>4. CASE WorkerPushes(w)
  <2>1. hand[w] \in Events /\ hand[w].subscriber_id % NumShards \in Shards
    BY ShardOfEvent DEF PipelineTypeOK
  <2>2. /\ rings' \in [Shards -> Seq(Events)] /\ dropped' \in [Shards -> Nat]
        /\ \A t \in Shards : Len(rings'[t]) < RingSize
    BY <1>4, <2>1, PushTyped DEF WorkerPushes
  <2>3. None \in Events
    BY Sizes DEF None, Events
  <2>. QED
    BY <1>4, <2>2, <2>3 DEF WorkerPushes, PipelineTypeOK, shared
<1>5. CASE WorkerCounts(w)
  BY <1>5 DEF WorkerCounts, PipelineTypeOK
<1>. QED
  BY <1>1, <1>2, <1>3, <1>4, <1>5 DEF WorkerStep

(* What a shard has read, once it has read the counter c.                  *)
Seen(s, c) == [saw[s] EXCEPT ![c] = IF c = "consumed" THEN consumed ELSE produced]

LEMMA SeenFacts ==
    ASSUME PipelineTypeOK, NEW s \in Shards, NEW c \in {"consumed", "produced"},
           saw[s][c] = -1
    PROVE  LET v == Seen(s, c)
           IN  /\ v \in [consumed : Nat \cup {-1}, produced : Nat \cup {-1}]
               /\ v.consumed = saw[s].consumed \/ v.consumed = consumed
               /\ v.produced = saw[s].produced \/ v.produced = produced
<1>1. /\ saw[s] \in [consumed : Nat \cup {-1}, produced : Nat \cup {-1}]
      /\ consumed \in Nat /\ produced \in Nat
  BY DEF PipelineTypeOK
<1>2. CASE c = "consumed"
  BY <1>1, <1>2 DEF Seen
<1>3. CASE c = "produced"
  BY <1>1, <1>3 DEF Seen
<1>. QED
  BY <1>2, <1>3

(* A shard reads a counter, the first or the second of the two.            *)
LEMMA ShardReadsFacts ==
    ASSUME NEW s \in Shards, ShardReads(s)
    PROVE  \E c \in {"consumed", "produced"} :
               LET v == Seen(s, c)
                   both == v.consumed # -1 /\ v.produced # -1
               IN  /\ shard[s] = "compare" /\ saw[s][c] = -1
                   /\ saw' = [saw EXCEPT ![s] = IF both THEN Unread ELSE v]
                   /\ shard' = [shard EXCEPT ![s] =
                                   IF ~both THEN "compare"
                                   ELSE IF v.consumed < v.produced THEN "pop" ELSE "done"]
                   /\ UNCHANGED <<shared, rings, dropped, rec, worker, hand, main>>
BY DEF ShardReads, Seen, MoreToCome

LEMMA ShardTyped ==
    ASSUME PipelineTypeOK, NEW s \in Shards, ShardStep(s)
    PROVE  PipelineTypeOK'
<1>1. CASE ShardStarts(s)
  BY <1>1 DEF ShardStarts, PipelineTypeOK, shared
<1>2. CASE ShardTests(s)
  BY <1>2 DEF ShardTests, PipelineTypeOK, shared
<1>3. CASE ShardReads(s)
  <2>1. PICK c \in {"consumed", "produced"} :
            LET v == Seen(s, c)
                both == v.consumed # -1 /\ v.produced # -1
            IN  /\ shard[s] = "compare" /\ saw[s][c] = -1
                /\ saw' = [saw EXCEPT ![s] = IF both THEN Unread ELSE v]
                /\ shard' = [shard EXCEPT ![s] =
                                IF ~both THEN "compare"
                                ELSE IF v.consumed < v.produced THEN "pop" ELSE "done"]
                /\ UNCHANGED <<shared, rings, dropped, rec, worker, hand, main>>
    BY <1>3, ShardReadsFacts
  <2>2. Seen(s, c) \in [consumed : Nat \cup {-1}, produced : Nat \cup {-1}]
    BY <2>1, SeenFacts
  <2>3. Unread \in [consumed : Nat \cup {-1}, produced : Nat \cup {-1}]
    BY DEF Unread
  <2>4. saw' \in [Shards -> [consumed : Nat \cup {-1}, produced : Nat \cup {-1}]]
    BY <2>1, <2>2, <2>3 DEF PipelineTypeOK
  <2>5. shard' \in [Shards -> {"barrier", "test", "compare", "pop", "count", "done"}]
    BY <2>1 DEF PipelineTypeOK
  <2>. QED
    BY <2>1, <2>4, <2>5 DEF PipelineTypeOK, shared
<1>4. CASE ShardPops(s)
  <2>1. /\ shard' = [shard EXCEPT ![s] = "count"] /\ rings[s] # <<>>
        /\ rings' = [rings EXCEPT ![s] = Tail(@)]
        /\ UNCHANGED <<shared, dropped, worker, hand, saw, main>>
    BY <1>4 DEF ShardPops
  <2>2. /\ rings \in [Shards -> Seq(Events)] /\ rec \in [Shards -> Records]
        /\ \A t \in Shards : Len(rings[t]) < RingSize
    BY DEF PipelineTypeOK
  <2>3. /\ Head(rings[s]) \in Events /\ Tail(rings[s]) \in Seq(Events)
        /\ Len(Tail(rings[s])) = Len(rings[s]) - 1 /\ Len(rings[s]) \in Nat
    BY <2>1, <2>2, HeadTailProperties, LenProperties
  <2>4. rings' \in [Shards -> Seq(Events)]
    BY <2>1, <2>2, <2>3
  <2>5. ASSUME NEW t \in Shards PROVE Len(rings'[t]) < RingSize
    <3>1. CASE t = s
      BY <2>1, <2>2, <2>3, <3>1, Sizes
    <3>2. CASE t # s
      BY <2>1, <2>2, <3>2
    <3>. QED
      BY <3>1, <3>2
  <2>6. rec' \in [Shards -> Records]
    <3>. DEFINE e == Head(rings[s])
                r == [rec[s] EXCEPT !.subscriber_id = e.subscriber_id]
    <3>1. PICK garbage \in Garbage :
              rec' = [rec EXCEPT ![s] = ApplyRemoteUpdate(r, UpdateFor(r, e, garbage))]
      BY <1>4 DEF ShardPops
    <3>2. ApplyRemoteUpdate(r, UpdateFor(r, e, garbage)) \in Records
      BY <2>2, <2>3, AppliedRecord
    <3>. HIDE DEF r, e
    <3>. QED
      BY <2>2, <3>1, <3>2
  <2>. QED
    BY <2>1, <2>4, <2>5, <2>6 DEF PipelineTypeOK, shared
<1>5. CASE ShardFindsNothing(s)
  BY <1>5 DEF ShardFindsNothing, PipelineTypeOK, shared
<1>6. CASE ShardCounts(s)
  BY <1>6 DEF ShardCounts, PipelineTypeOK
<1>. QED
  BY <1>1, <1>2, <1>3, <1>4, <1>5, <1>6 DEF ShardStep

LEMMA MainTyped ==
    ASSUME PipelineTypeOK, MainStep
    PROVE  PipelineTypeOK'
BY DEF PipelineTypeOK, MainStep, MainStarts, MainStops, MainJoins, shared

LEMMA StartTyped ==
    ASSUME Init
    PROVE  PipelineTypeOK
<1>1. StartRecord \in Records /\ None \in Events
  BY Sizes DEF StartRecord, Records, None, Events
<1>2. <<>> \in Seq(Events) /\ Len(<<>>) = 0
  OBVIOUS
<1>3. Unread \in [consumed : Nat \cup {-1}, produced : Nat \cup {-1}]
  BY DEF Unread
<1>4. /\ rings \in [Shards -> Seq(Events)] /\ \A s \in Shards : Len(rings[s]) < RingSize
      /\ dropped \in [Shards -> Nat]
  BY <1>2, Sizes DEF Init
<1>5. rec \in [Shards -> Records] /\ hand \in [Workers -> Events]
  BY <1>1 DEF Init
<1>6. saw \in [Shards -> [consumed : Nat \cup {-1}, produced : Nat \cup {-1}]]
  BY <1>3 DEF Init
<1>7. /\ start_ready \in BOOLEAN /\ stop \in BOOLEAN
      /\ produced \in Nat /\ consumed \in Nat /\ global_seq \in 0 .. MaxEvents
      /\ worker \in [Workers -> {"barrier", "loop", "push", "count", "done"}]
      /\ shard \in [Shards -> {"barrier", "test", "compare", "pop", "count", "done"}]
      /\ main \in {"create", "sleep", "join", "done"}
  <2>1. start_ready \in BOOLEAN /\ stop \in BOOLEAN
    BY DEF Init
  <2>2. produced \in Nat /\ consumed \in Nat /\ global_seq \in 0 .. MaxEvents
    BY Sizes DEF Init
  <2>3. worker \in [Workers -> {"barrier", "loop", "push", "count", "done"}]
    BY DEF Init
  <2>4. shard \in [Shards -> {"barrier", "test", "compare", "pop", "count", "done"}]
    BY DEF Init
  <2>5. main \in {"create", "sleep", "join", "done"}
    BY DEF Init
  <2>. QED
    BY <2>1, <2>2, <2>3, <2>4, <2>5
<1>. QED
  BY <1>4, <1>5, <1>6, <1>7 DEF PipelineTypeOK

-----------------------------------------------------------------------------
(***************************************************************************)
(* What a shard in place `at' has seen, against the true number c of       *)
(* events consumed and the number b produced or about to be.               *)
(***************************************************************************)
Recent(at, seen, b, c) ==
    /\ at # "compare" => seen = Unread
    /\ seen.consumed <= c
    /\ seen.produced # -1 => b <= seen.produced + NumWorkers
    /\ at = "done" => b <= c + NumWorkers

LEMMA RecentNow ==
    ReadsAreRecent <=>
        \A s \in Shards : /\ Recent(shard[s], saw[s], Pushed, consumed)
                          /\ shard[s] \in {"compare", "done"} => stop
BY DEF ReadsAreRecent, Recent, Pushed

LEMMA RecentNext ==
    ReadsAreRecent' <=>
        \A s \in Shards : /\ Recent(shard'[s], saw'[s], Pushed', consumed')
                          /\ shard'[s] \in {"compare", "done"} => stop'
BY DEF ReadsAreRecent, Recent, Pushed

(* Nothing gets less recent while fewer events are about to be counted or  *)
(* more are consumed.                                                      *)
LEMMA RecentStays ==
    ASSUME NEW at, NEW seen, NEW b \in Int, NEW c \in Int, NEW b1 \in Int, NEW c1 \in Int,
           b1 <= b, c <= c1, Recent(at, seen, b, c),
           seen \in [consumed : Nat \cup {-1}, produced : Nat \cup {-1}]
    PROVE  Recent(at, seen, b1, c1)
<1>1. seen.consumed \in Int /\ seen.produced \in Int
  OBVIOUS
<1>. QED
  BY <1>1, Sizes DEF Recent

LEMMA BalanceFacts ==
    ASSUME PipelineTypeOK
    PROVE  /\ Pushed \in Int /\ consumed \in Int /\ produced \in Int
           /\ Pushed <= produced + NumWorkers
           /\ \A s \in Shards : saw[s] \in [consumed : Nat \cup {-1}, produced : Nat \cup {-1}]
<1>1. Cardinality(Uncounted) \in Nat /\ Cardinality(Uncounted) <= NumWorkers
  <2>1. Uncounted \in SUBSET Workers
    BY DEF Uncounted
  <2>. QED
    BY <2>1, UncountedFacts
<1>. QED
  BY <1>1, Sizes DEF Pushed, PipelineTypeOK

LEMMA WorkerKeepsReads ==
    ASSUME PipelineTypeOK, ReadsAreRecent, NEW w \in Workers, WorkerStep(w)
    PROVE  ReadsAreRecent' /\ shard' = shard /\ main' = main
<1>1. worker \in [Workers -> {"barrier", "loop", "push", "count", "done"}]
  BY DEF PipelineTypeOK
<1>2. shard' = shard /\ saw' = saw /\ stop' = stop /\ consumed' = consumed /\ main' = main
  BY DEF WorkerStep, WorkerStarts, WorkerLeaves, WorkerHasEvent, WorkerPushes, WorkerCounts,
         shared
<1>3. ASSUME Pushed' \in Int, Pushed' <= Pushed
      PROVE  ReadsAreRecent'
  BY <1>2, <1>3, BalanceFacts, RecentStays, RecentNow, RecentNext
<1>4. CASE WorkerStarts(w) \/ WorkerLeaves(w) \/ WorkerPushes(w)
  <2>1. Uncounted' = Uncounted
    BY <1>1, <1>4 DEF Uncounted, WorkerStarts, WorkerLeaves, WorkerPushes
  <2>2. produced' = produced
    BY <1>4 DEF WorkerStarts, WorkerLeaves, WorkerPushes, shared
  <2>. QED
    BY <1>2, <1>3, <2>1, <2>2, BalanceFacts DEF Pushed
<1>5. CASE WorkerCounts(w)
  <2>1. Uncounted' = Uncounted \ {w} /\ w \in Uncounted
    BY <1>1, <1>5 DEF Uncounted, WorkerCounts
  <2>2. IsFiniteSet(Uncounted) /\ Cardinality(Uncounted) \in Nat
    <3>1. Uncounted \in SUBSET Workers
      BY DEF Uncounted
    <3>. QED
      BY <3>1, UncountedFacts
  <2>3. Cardinality(Uncounted') = Cardinality(Uncounted) - 1
    BY <2>1, <2>2, FS_RemoveElement
  <2>4. produced' = produced + 1 /\ produced \in Int
    BY <1>5, BalanceFacts DEF WorkerCounts
  <2>. QED
    BY <1>2, <1>3, <2>2, <2>3, <2>4 DEF Pushed
<1>6. CASE WorkerHasEvent(w)
  <2>1. ~stop
    BY <1>6 DEF WorkerHasEvent
  <2>2. \A s \in Shards : shard[s] \notin {"compare", "done"} /\ saw[s] = Unread
    BY <2>1, RecentNow DEF Recent
  <2>. QED
    BY <1>2, <2>2, RecentNow, RecentNext DEF Recent, Unread
<1>. QED
  BY <1>2, <1>4, <1>5, <1>6 DEF WorkerStep

LEMMA ShardKeepsReads ==
    ASSUME PipelineTypeOK, ReadsAreRecent, NEW s \in Shards, ShardStep(s)
    PROVE  ReadsAreRecent' /\ shard[s] # "done" /\ main' = main
<1>1. /\ shard \in [Shards -> {"barrier", "test", "compare", "pop", "count", "done"}]
      /\ saw \in [Shards -> [consumed : Nat \cup {-1}, produced : Nat \cup {-1}]]
  BY DEF PipelineTypeOK
<1>2. Pushed' = Pushed /\ main' = main /\ stop' = stop
  BY DEF ShardStep, ShardStarts, ShardTests, ShardReads, ShardPops, ShardFindsNothing,
         ShardCounts, shared, Pushed, Uncounted
<1>3. consumed' \in Int /\ consumed <= consumed' /\ Pushed \in Int /\ consumed \in Int
  BY BalanceFacts DEF ShardStep, ShardStarts, ShardTests, ShardReads, ShardPops,
     ShardFindsNothing, ShardCounts, shared
<1>4. \A t \in Shards : /\ Recent(shard[t], saw[t], Pushed, consumed)
                        /\ Recent(shard[t], saw[t], Pushed, consumed')
                        /\ shard[t] \in {"compare", "done"} => stop
  BY <1>1, <1>3, RecentStays, RecentNow
<1>5. ASSUME NEW at, NEW v, shard' = [shard EXCEPT ![s] = at], saw' = [saw EXCEPT ![s] = v],
             Recent(at, v, Pushed, consumed'), at \in {"compare", "done"} => stop
      PROVE  ReadsAreRecent'
  <2>. SUFFICES ASSUME NEW t \in Shards
                PROVE  /\ Recent(shard'[t], saw'[t], Pushed, consumed')
                       /\ shard'[t] \in {"compare", "done"} => stop
    BY <1>2, RecentNext
  <2>1. CASE t = s
    BY <1>1, <1>5, <2>1
  <2>2. CASE t # s
    BY <1>1, <1>4, <1>5, <2>2
  <2>. QED
    BY <2>1, <2>2
<1>6. CASE ShardReads(s)
  <2>1. PICK c \in {"consumed", "produced"} :
            LET v == Seen(s, c)
                both == v.consumed # -1 /\ v.produced # -1
            IN  /\ shard[s] = "compare" /\ saw[s][c] = -1
                /\ saw' = [saw EXCEPT ![s] = IF both THEN Unread ELSE v]
                /\ shard' = [shard EXCEPT ![s] =
                                IF ~both THEN "compare"
                                ELSE IF v.consumed < v.produced THEN "pop" ELSE "done"]
                /\ UNCHANGED <<shared, rings, dropped, rec, worker, hand, main>>
    BY <1>6, ShardReadsFacts
  <2>. DEFINE v == Seen(s, c)
              both == v.consumed # -1 /\ v.produced # -1
  <2>2. /\ v \in [consumed : Nat \cup {-1}, produced : Nat \cup {-1}]
        /\ v.consumed = saw[s].consumed \/ v.consumed = consumed
        /\ v.produced = saw[s].produced \/ v.produced = produced
    BY <2>1, SeenFacts
  <2>3. /\ stop /\ saw[s].consumed <= consumed
        /\ saw[s].produced # -1 => Pushed <= saw[s].produced + NumWorkers
    BY <1>4, <2>1 DEF Recent
  <2>4. consumed' = consumed /\ shard[s] = "compare"
    BY <2>1 DEF shared
  <2>5. /\ saw' = [saw EXCEPT ![s] = IF both THEN Unread ELSE v]
        /\ shard' = [shard EXCEPT ![s] = IF ~both THEN "compare"
                                         ELSE IF v.consumed < v.produced THEN "pop" ELSE "done"]
    BY <2>1
  <2>. HIDE DEF v
  <2>6. /\ v.consumed <= consumed
        /\ v.produced # -1 => Pushed <= v.produced + NumWorkers
        /\ v.consumed \in Int /\ v.produced \in Int
    BY <1>3, <2>2, <2>3, BalanceFacts
  <2>7. CASE ~both
    <3>1. Recent("compare", v, Pushed, consumed')
      BY <2>4, <2>6 DEF Recent
    <3>2. shard' = [shard EXCEPT ![s] = "compare"] /\ saw' = [saw EXCEPT ![s] = v]
      BY <2>5, <2>7
    <3>. QED
      BY <1>2, <1>5, <2>3, <2>4, <3>1, <3>2
  <2>8. CASE both /\ v.consumed < v.produced
    <3>1. Recent("pop", Unread, Pushed, consumed')
      BY <1>3, <2>4, BalanceFacts DEF Recent, Unread, PipelineTypeOK
    <3>2. shard' = [shard EXCEPT ![s] = "pop"] /\ saw' = [saw EXCEPT ![s] = Unread]
      BY <2>5, <2>8
    <3>. QED
      BY <1>2, <1>5, <2>4, <3>1, <3>2
  <2>9. CASE both /\ ~(v.consumed < v.produced)
    <3>1. Pushed <= consumed + NumWorkers
      BY <1>3, <2>6, <2>9, Sizes
    <3>2. Recent("done", Unread, Pushed, consumed')
      BY <1>3, <2>4, <3>1 DEF Recent, Unread, PipelineTypeOK
    <3>3. shard' = [shard EXCEPT ![s] = "done"] /\ saw' = [saw EXCEPT ![s] = Unread]
      BY <2>5, <2>9
    <3>. QED
      BY <1>2, <1>5, <2>3, <2>4, <3>2, <3>3
  <2>. QED
    BY <2>7, <2>8, <2>9
<1>7. ASSUME NEW at \in {"test", "pop", "count", "compare"}, shard[s] \notin {"compare", "done"},
             shard' = [shard EXCEPT ![s] = at], saw' = saw, at = "compare" => stop
      PROVE  ReadsAreRecent'
  <2>1. saw[s] = Unread /\ saw' = [saw EXCEPT ![s] = Unread]
    BY <1>1, <1>4, <1>7 DEF Recent
  <2>2. Recent(at, Unread, Pushed, consumed')
    BY <1>4, <1>7, <2>1 DEF Recent, Unread
  <2>. QED
    BY <1>5, <1>7, <2>1, <2>2
<1>8. CASE ShardStarts(s)
  BY <1>2, <1>7, <1>8 DEF ShardStarts
<1>9. CASE ShardTests(s)
  <2>1. CASE stop
    BY <1>2, <1>7, <1>9, <2>1 DEF ShardTests
  <2>2. CASE ~stop
    BY <1>2, <1>7, <1>9, <2>2 DEF ShardTests
  <2>. QED
    BY <2>1, <2>2
<1>10. CASE ShardPops(s)
  BY <1>2, <1>7, <1>10 DEF ShardPops
<1>11. CASE ShardFindsNothing(s)
  BY <1>2, <1>7, <1>11 DEF ShardFindsNothing
<1>12. CASE ShardCounts(s)
  BY <1>2, <1>7, <1>12 DEF ShardCounts
<1>. QED
  BY <1>6, <1>8, <1>9, <1>10, <1>11, <1>12 DEF ShardStep

(* An event is in a worker's hands from its number to its count.           *)
LEMMA WorkerKeepsSequence ==
    ASSUME PipelineTypeOK, Pushed = global_seq, NEW w \in Workers, WorkerStep(w)
    PROVE  Pushed' = global_seq'
<1>1. /\ worker \in [Workers -> {"barrier", "loop", "push", "count", "done"}]
      /\ produced \in Nat /\ global_seq \in Nat
  BY DEF PipelineTypeOK
<1>. DEFINE Q == {"push", "count"}
<1>2. Uncounted = Among(worker, Workers, Q) /\ Uncounted' = Among(worker', Workers, Q)
  BY DEF Uncounted, Among
<1>3. IsFiniteSet(Workers) /\ Cardinality(Uncounted) \in Nat
  <2>1. Workers \in SUBSET Workers /\ Uncounted \in SUBSET Workers
    BY DEF Uncounted
  <2>. QED
    BY <2>1, UncountedFacts
<1>4. CASE WorkerStarts(w) \/ WorkerLeaves(w) \/ WorkerPushes(w)
  <2>1. Uncounted' = Uncounted
    BY <1>1, <1>4 DEF Uncounted, WorkerStarts, WorkerLeaves, WorkerPushes
  <2>2. produced' = produced /\ global_seq' = global_seq
    BY <1>4 DEF WorkerStarts, WorkerLeaves, WorkerPushes, shared
  <2>. QED
    BY <2>1, <2>2 DEF Pushed
<1>5. CASE WorkerHasEvent(w)
  <2>1. /\ worker[w] \notin Q /\ worker'[w] \in Q /\ \A x \in Workers \ {w} : worker'[x] = worker[x]
        /\ produced' = produced /\ global_seq' = global_seq + 1
    BY <1>1, <1>5 DEF WorkerHasEvent
  <2>2. Cardinality(Among(worker', Workers, Q)) = Cardinality(Among(worker, Workers, Q)) + 1
    <3>. HIDE DEF Q
    <3>. QED
      BY <1>3, <2>1, JoinsAmong
  <2>. QED
    BY <1>1, <1>2, <1>3, <2>1, <2>2 DEF Pushed
<1>6. CASE WorkerCounts(w)
  <2>1. /\ worker[w] \in Q /\ worker'[w] \notin Q /\ \A x \in Workers \ {w} : worker'[x] = worker[x]
        /\ produced' = produced + 1 /\ global_seq' = global_seq
    BY <1>1, <1>6 DEF WorkerCounts
  <2>2. Cardinality(Among(worker', Workers, Q)) = Cardinality(Among(worker, Workers, Q)) - 1
    <3>. HIDE DEF Q
    <3>. QED
      BY <1>3, <2>1, LeavesAmong
  <2>. QED
    BY <1>1, <1>2, <1>3, <2>1, <2>2 DEF Pushed
<1>. QED
  BY <1>4, <1>5, <1>6 DEF WorkerStep

LEMMA ShardKeepsSequence ==
    ASSUME Pushed = global_seq, NEW s \in Shards, ShardStep(s)
    PROVE  Pushed' = global_seq'
BY DEF ShardStep, ShardStarts, ShardTests, ShardReads, ShardPops, ShardFindsNothing,
       ShardCounts, shared, Pushed, Uncounted

LEMMA MainKeepsReads ==
    ASSUME PipelineTypeOK, ReadsAreRecent, Pushed = global_seq, MainStep
    PROVE  /\ ReadsAreRecent' /\ Pushed' = global_seq' /\ shard' = shard
           /\ main' = "done" => \A s \in Shards : shard[s] = "done"
<1>1. /\ shard' = shard /\ saw' = saw /\ produced' = produced /\ consumed' = consumed
      /\ worker' = worker /\ (stop => stop') /\ global_seq' = global_seq
      /\ main' = "done" => \A s \in Shards : shard[s] = "done"
  BY DEF MainStep, MainStarts, MainStops, MainJoins, shared
<1>2. Pushed' = Pushed
  BY <1>1 DEF Pushed, Uncounted
<1>. QED
  BY <1>1, <1>2, RecentNow, RecentNext

-----------------------------------------------------------------------------
(* The benchmark keeps its types, and what shards read is recent, at every *)
(* step (bench_pipeline_4k.c:125-215).                                     *)
THEOREM PipelineInvariant == Spec => []PipelineInv
<1>1. Init => PipelineInv
  <2>. SUFFICES ASSUME Init PROVE PipelineInv
    OBVIOUS
  <2>1. \A s \in Shards : Recent(shard[s], saw[s], Pushed, consumed)
                          /\ shard[s] \notin {"compare", "done"}
    BY DEF Init, Recent, Unread
  <2>2. main # "done"
    BY DEF Init
  <2>3. Pushed = global_seq
    <3>1. Uncounted = {}
      BY DEF Init, Uncounted
    <3>. QED
      BY <3>1, FS_EmptySet DEF Init, Pushed
  <2>. QED
    BY <2>1, <2>2, <2>3, StartTyped, RecentNow DEF PipelineInv
<1>2. PipelineInv /\ [Next]_vars => PipelineInv'
  <2>. SUFFICES ASSUME PipelineInv, [Next]_vars PROVE PipelineInv'
    OBVIOUS
  <2>1. /\ PipelineTypeOK /\ ReadsAreRecent /\ Pushed = global_seq
        /\ main = "done" => \A s \in Shards : shard[s] = "done"
    BY DEF PipelineInv
  <2>2. ASSUME NEW w \in Workers, WorkerStep(w) PROVE PipelineInv'
    BY <2>1, <2>2, WorkerTyped, WorkerKeepsReads, WorkerKeepsSequence DEF PipelineInv
  <2>3. ASSUME NEW s \in Shards, ShardStep(s) PROVE PipelineInv'
    <3>1. main' # "done"
      BY <2>1, <2>3, ShardKeepsReads
    <3>. QED
      BY <2>1, <2>3, <3>1, ShardTyped, ShardKeepsReads, ShardKeepsSequence DEF PipelineInv
  <2>4. ASSUME MainStep PROVE PipelineInv'
    BY <2>1, <2>4, MainTyped, MainKeepsReads DEF PipelineInv
  <2>5. CASE UNCHANGED vars
    <3>1. PipelineTypeOK'
      BY <2>1, <2>5 DEF vars, shared, PipelineTypeOK
    <3>2. /\ shard' = shard /\ saw' = saw /\ produced' = produced /\ consumed' = consumed
          /\ worker' = worker /\ stop' = stop /\ main' = main /\ global_seq' = global_seq
      BY <2>5 DEF vars, shared
    <3>3. ReadsAreRecent' /\ Pushed' = global_seq'
      BY <2>1, <3>2 DEF ReadsAreRecent, Uncounted, Pushed
    <3>. QED
      BY <2>1, <3>1, <3>2, <3>3 DEF PipelineInv
  <2>. QED
    BY <2>2, <2>3, <2>4, <2>5 DEF Next
<1>. QED
  BY <1>1, <1>2, PTL DEF Spec

(* Rings never exceed their arrays, and whatever the uninitialized fields  *)
(* hold, records stay well formed (:60-90, 194-209).                       *)
THEOREM PipelineTypeCorrect == Spec => []PipelineTypeOK
<1>1. PipelineInv => PipelineTypeOK
  BY DEF PipelineInv
<1>. QED
  BY <1>1, PipelineInvariant, PTL

(* A case that ends has lost at most one event per worker (:187).          *)
THEOREM OneEventPerWorker == Spec => []LossIsBounded
<1>1. PipelineInv => LossIsBounded
  <2>. SUFFICES ASSUME PipelineInv, main = "done" PROVE produced - consumed <= NumWorkers
    BY DEF LossIsBounded
  <2>1. 0 \in Shards
    BY Sizes DEF Shards
  <2>2. Pushed <= consumed + NumWorkers
    BY <2>1, RecentNow DEF PipelineInv, Recent
  <2>3. Cardinality(Uncounted) \in Nat /\ produced \in Nat /\ consumed \in Nat
    <3>1. Uncounted \in SUBSET Workers
      BY DEF Uncounted
    <3>. QED
      BY <3>1, UncountedFacts DEF PipelineInv, PipelineTypeOK
  <2>. QED
    BY <2>2, <2>3, Sizes DEF Pushed
<1>. QED
  BY <1>1, PipelineInvariant, PTL

-----------------------------------------------------------------------------
(***************************************************************************)
(* Where the events are.  No generation may wrap: it counts the events a   *)
(* shard has handled.                                                      *)
(***************************************************************************)
NoWrap == MaxEvents + 1 < GenerationMod

Gens(r) == [s \in Shards |-> r[s].generation - 1]
Lens(q) == [s \in Shards |-> Len(q[s])]

AccountsInv == PipelineAccounted /\ \A s \in Shards : rec[s].generation >= 1

(* The accounts of: produced and consumed events, the places of workers    *)
(* and shards, what waits, what was dropped, and the records.              *)
Accounts(made, eaten, workers, shards, waiting, lost, recs) ==
    /\ made + Cardinality(Among(workers, Workers, {"count"})) =
           Total(Gens(recs)) + Total(Lens(waiting)) + Total(lost)
    /\ eaten = Total(Gens(recs)) - Cardinality(Among(shards, Shards, {"count"}))
    /\ \A s \in Shards : recs[s].generation >= 1

LEMMA AccountsNow ==
    AccountsInv <=> Accounts(produced, consumed, worker, shard, rings, dropped, rec)
<1>1. /\ {w \in Workers : worker[w] = "count"} = Among(worker, Workers, {"count"})
      /\ {s \in Shards : shard[s] = "count"} = Among(shard, Shards, {"count"})
  BY DEF Among
<1>. QED
  BY <1>1 DEF AccountsInv, PipelineAccounted, Accounts, Handled, Waiting, Gens, Lens

LEMMA AccountsNext ==
    AccountsInv' <=> Accounts(produced', consumed', worker', shard', rings', dropped', rec')
<1>1. /\ {w \in Workers : worker'[w] = "count"} = Among(worker', Workers, {"count"})
      /\ {s \in Shards : shard'[s] = "count"} = Among(shard', Shards, {"count"})
  BY DEF Among
<1>. QED
  BY <1>1 DEF AccountsInv, PipelineAccounted, Accounts, Handled, Waiting, Gens, Lens

LEMMA ThreadsFinite == IsFiniteSet(Workers) /\ IsFiniteSet(Shards)
<1>1. 0 \in Int /\ NumWorkers - 1 \in Int /\ NumShards - 1 \in Int
  BY Sizes
<1>. QED
  BY <1>1, FS_Interval DEF Workers, Shards

(* One more, or one fewer, is about to count.                              *)
LEMMA JoinsCount ==
    ASSUME NEW D, IsFiniteSet(D), NEW f, NEW g, NEW t \in D,
           f[t] \notin {"count"}, g[t] \in {"count"}, \A x \in D \ {t} : g[x] = f[x]
    PROVE  Cardinality(Among(g, D, {"count"})) = Cardinality(Among(f, D, {"count"})) + 1
<1>. DEFINE Q == {"count"}
<1>1. f[t] \notin Q /\ g[t] \in Q
  OBVIOUS
<1>. HIDE DEF Q
<1>2. Cardinality(Among(g, D, Q)) = Cardinality(Among(f, D, Q)) + 1
  BY <1>1, JoinsAmong
<1>. QED
  BY <1>2 DEF Q

LEMMA LeavesCount ==
    ASSUME NEW D, IsFiniteSet(D), NEW f, NEW g, NEW t \in D,
           f[t] \in {"count"}, g[t] \notin {"count"}, \A x \in D \ {t} : g[x] = f[x]
    PROVE  Cardinality(Among(g, D, {"count"})) = Cardinality(Among(f, D, {"count"})) - 1
<1>. DEFINE Q == {"count"}
<1>1. f[t] \in Q /\ g[t] \notin Q
  OBVIOUS
<1>. HIDE DEF Q
<1>2. Cardinality(Among(g, D, Q)) = Cardinality(Among(f, D, Q)) - 1
  BY <1>1, LeavesAmong
<1>. QED
  BY <1>2 DEF Q

(* The numbers the accounts are made of.                                   *)
LEMMA AccountNumbers ==
    ASSUME PipelineTypeOK, AccountsInv
    PROVE  /\ Gens(rec) \in [Shards -> Nat] /\ Lens(rings) \in [Shards -> Nat]
           /\ dropped \in [Shards -> Nat]
           /\ Total(Gens(rec)) \in Nat /\ Total(Lens(rings)) \in Nat /\ Total(dropped) \in Nat
           /\ Cardinality(Among(worker, Workers, {"count"})) \in Nat
           /\ Cardinality(Among(shard, Shards, {"count"})) \in Nat
           /\ produced \in Nat /\ consumed \in Nat
<1>1. /\ rec \in [Shards -> Records] /\ rings \in [Shards -> Seq(Events)]
      /\ dropped \in [Shards -> Nat] /\ produced \in Nat /\ consumed \in Nat
  BY DEF PipelineTypeOK
<1>2. ASSUME NEW s \in Shards PROVE rec[s].generation - 1 \in Nat /\ Len(rings[s]) \in Nat
  <2>1. rec[s].generation \in Nat
    BY <1>1, Sizes DEF Records
  <2>2. rec[s].generation >= 1
    BY DEF AccountsInv
  <2>. QED
    BY <1>1, <2>1, <2>2, LenProperties
<1>3. Gens(rec) \in [Shards -> Nat] /\ Lens(rings) \in [Shards -> Nat]
  BY <1>2 DEF Gens, Lens
<1>. QED
  BY <1>1, <1>3, ThreadsFinite, TotalFinite, AmongFacts

(* A record has handled at most the events there were; if one more waits   *)
(* its next generation does not wrap.                                      *)
LEMMA GenerationFits ==
    ASSUME NoWrap, PipelineInv, AccountsInv, NEW s \in Shards, rings[s] # <<>>
    PROVE  rec[s].generation \in Nat /\ rec[s].generation + 1 < GenerationMod
<1>1. PipelineTypeOK /\ Pushed = global_seq /\ global_seq \in 0 .. MaxEvents
  BY DEF PipelineInv, PipelineTypeOK
<1>2. rec[s].generation - 1 <= Total(Gens(rec)) /\ Len(rings[s]) <= Total(Lens(rings))
  <2>1. Gens(rec)[s] = rec[s].generation - 1 /\ Lens(rings)[s] = Len(rings[s])
    BY DEF Gens, Lens
  <2>. QED
    BY <1>1, <2>1, AccountNumbers, ThreadsFinite, TotalIsMost
<1>3. Len(rings[s]) \in Nat /\ Len(rings[s]) >= 1
  <2>1. rings[s] \in Seq(Events)
    BY <1>1 DEF PipelineTypeOK
  <2>. QED
    BY <2>1, LenProperties, EmptySeq
<1>4. Cardinality(Among(worker, Workers, {"count"})) <= Cardinality(Uncounted)
      /\ Cardinality(Uncounted) \in Nat
  <2>1. Among(worker, Workers, {"count"}) \subseteq Uncounted /\ Uncounted \in SUBSET Workers
    BY DEF Among, Uncounted
  <2>. QED
    BY <2>1, UncountedFacts, FS_Subset
<1>5. produced + Cardinality(Among(worker, Workers, {"count"})) =
          Total(Gens(rec)) + Total(Lens(rings)) + Total(dropped)
  BY AccountsNow DEF Accounts
<1>6. rec[s].generation \in Nat
  BY <1>1, Sizes DEF PipelineTypeOK, Records
<1>7. produced + Cardinality(Among(worker, Workers, {"count"})) <= MaxEvents
  BY <1>1, <1>4, AccountNumbers, Sizes DEF Pushed
<1>8. Total(Gens(rec)) + 1 <= MaxEvents
  <2>. DEFINE made == produced + Cardinality(Among(worker, Workers, {"count"}))
              g == Total(Gens(rec))
              q == Total(Lens(rings))
              d == Total(dropped)
  <2>1. made = g + q + d /\ made <= MaxEvents /\ q >= 1
    <3>1. q \in Nat
      BY <1>1, AccountNumbers
    <3>. QED
      BY <1>2, <1>3, <1>5, <1>7, <3>1
  <2>2. g \in Nat /\ q \in Nat /\ d \in Nat
    BY <1>1, AccountNumbers
  <2>. HIDE DEF made, g, q, d
  <2>3. g + 1 <= MaxEvents
    BY <2>1, <2>2, Sizes
  <2>. QED
    BY <2>3 DEF g
<1>9. Total(Gens(rec)) \in Nat
  BY <1>1, AccountNumbers
<1>. QED
  BY <1>2, <1>6, <1>8, <1>9, Sizes DEF NoWrap

(* An update made from the record it is applied to always counts on.       *)
LEMMA AppliedCountsOn ==
    ASSUME NEW r \in Records, NEW e \in Events, NEW garbage \in Garbage,
           r.generation + 1 < GenerationMod
    PROVE  ApplyRemoteUpdate([r EXCEPT !.subscriber_id = e.subscriber_id],
                             UpdateFor([r EXCEPT !.subscriber_id = e.subscriber_id], e, garbage)
                             ).generation = r.generation + 1
<1>. DEFINE q == [r EXCEPT !.subscriber_id = e.subscriber_id]
            u == UpdateFor(q, e, garbage)
            c == Announced(u)
<1>1. /\ q \in Records /\ q.generation = r.generation /\ q.subscriber_id = e.subscriber_id
      /\ r.generation \in Nat
  BY Sizes DEF Records, Events
<1>. HIDE DEF q
<1>2. u.owner_epoch = q.owner_epoch /\ u.generation = r.generation + 1
  <2>1. (r.generation + 1) % GenerationMod = r.generation + 1
    <3>1. (GenerationMod * 0 + (r.generation + 1)) % GenerationMod = r.generation + 1
      BY <1>1, Sizes, RemainderUnique
    <3>. QED
      BY <1>1, <3>1, Sizes
  <2>. QED
    BY <1>1, <2>1 DEF UpdateFor
<1>3. Valid(q, u)
  BY <1>1 DEF Valid, UpdateFor
<1>. HIDE DEF u
<1>4. c.owner_epoch = q.owner_epoch /\ c.generation = r.generation + 1
  BY <1>2 DEF Announced
<1>. HIDE DEF c
<1>5. Beats(c, q)
  BY <1>1, <1>4 DEF Beats
<1>6. Adopt(q, c).generation = r.generation + 1
  BY <1>1, <1>4 DEF Adopt, Records
<1>7. ApplyRemoteUpdate(q, u) = Adopt(q, c)
  BY <1>3, <1>5 DEF ApplyRemoteUpdate, c
<1>. QED
  BY <1>6, <1>7 DEF q, u

(* A worker moves nothing but events of its own, one at a time.            *)
LEMMA PushAccounted ==
    ASSUME PipelineTypeOK, NEW s \in Shards, NEW e \in Events, ring_push(s, e)
    PROVE  Total(Lens(rings')) + Total(dropped') = Total(Lens(rings)) + Total(dropped) + 1
<1>1. rings \in [Shards -> Seq(Events)] /\ dropped \in [Shards -> Nat]
  BY DEF PipelineTypeOK
<1>2. rings' \in [Shards -> Seq(Events)] /\ dropped' \in [Shards -> Nat]
  BY PushTyped
<1>3. /\ Lens(rings) \in [Shards -> Nat] /\ Lens(rings') \in [Shards -> Nat]
      /\ Total(Lens(rings)) \in Nat /\ Total(dropped) \in Nat
  <2>1. Lens(rings) \in [Shards -> Nat] /\ Lens(rings') \in [Shards -> Nat]
    BY <1>1, <1>2, LenProperties DEF Lens
  <2>. QED
    BY <1>1, <2>1, ThreadsFinite, TotalFinite
<1>4. CASE Len(rings[s]) + 1 = RingSize
  <2>1. dropped' = [dropped EXCEPT ![s] = @ + 1] /\ rings' = rings
    BY <1>4 DEF ring_push
  <2>2. dropped'[s] = dropped[s] + 1 /\ \A x \in Shards \ {s} : dropped'[x] = dropped[x]
    BY <1>1, <2>1
  <2>3. Total(dropped') = Total(dropped) + 1
    BY <1>1, <1>2, <2>2, ThreadsFinite, TotalGrows
  <2>. QED
    BY <1>3, <2>1, <2>3
<1>5. CASE Len(rings[s]) + 1 # RingSize
  <2>1. rings' = [rings EXCEPT ![s] = Append(@, e)] /\ dropped' = dropped
    BY <1>5 DEF ring_push
  <2>2. rings'[s] = Append(rings[s], e) /\ \A x \in Shards \ {s} : rings'[x] = rings[x]
    BY <1>1, <2>1
  <2>3. Len(rings'[s]) = Len(rings[s]) + 1
    BY <1>1, <2>2, AppendProperties
  <2>4. Lens(rings')[s] = Lens(rings)[s] + 1 /\ \A x \in Shards \ {s} : Lens(rings')[x] = Lens(rings)[x]
    BY <2>2, <2>3 DEF Lens
  <2>5. Total(Lens(rings')) = Total(Lens(rings)) + 1
    BY <1>3, <2>4, ThreadsFinite, TotalGrows
  <2>. QED
    BY <1>3, <2>1, <2>5
<1>. QED
  BY <1>4, <1>5

LEMMA WorkerAccounts ==
    ASSUME PipelineTypeOK, AccountsInv, NEW w \in Workers, WorkerStep(w)
    PROVE  AccountsInv'
<1>1. worker \in [Workers -> {"barrier", "loop", "push", "count", "done"}]
  BY DEF PipelineTypeOK
<1>2. rec' = rec /\ shard' = shard /\ consumed' = consumed
  BY DEF WorkerStep, WorkerStarts, WorkerLeaves, WorkerHasEvent, WorkerPushes, WorkerCounts, shared
<1>3. Accounts(produced, consumed, worker, shard, rings, dropped, rec)
  BY AccountsNow
<1>4. CASE WorkerStarts(w) \/ WorkerLeaves(w) \/ WorkerHasEvent(w)
  <2>1. rings' = rings /\ dropped' = dropped /\ produced' = produced
    BY <1>4 DEF WorkerStarts, WorkerLeaves, WorkerHasEvent, shared
  <2>2. \A x \in Workers : worker'[x] \in {"count"} <=> worker[x] \in {"count"}
    BY <1>1, <1>4 DEF WorkerStarts, WorkerLeaves, WorkerHasEvent
  <2>3. Among(worker', Workers, {"count"}) = Among(worker, Workers, {"count"})
    BY <2>2 DEF Among
  <2>. QED
    BY <1>2, <1>3, <2>1, <2>3, AccountsNext DEF Accounts
<1>5. CASE WorkerPushes(w)
  <2>1. /\ ring_push(hand[w].subscriber_id % NumShards, hand[w]) /\ produced' = produced
        /\ worker[w] \notin {"count"} /\ worker'[w] \in {"count"}
        /\ \A x \in Workers \ {w} : worker'[x] = worker[x]
    BY <1>1, <1>5 DEF WorkerPushes, shared
  <2>2. hand[w] \in Events /\ hand[w].subscriber_id % NumShards \in Shards
    BY ShardOfEvent DEF PipelineTypeOK
  <2>3. Total(Lens(rings')) + Total(dropped') = Total(Lens(rings)) + Total(dropped) + 1
    BY <2>1, <2>2, PushAccounted
  <2>4. Cardinality(Among(worker', Workers, {"count"})) =
            Cardinality(Among(worker, Workers, {"count"})) + 1
    BY <2>1, ThreadsFinite, JoinsCount
  <2>5. Total(Lens(rings')) \in Nat /\ Total(dropped') \in Nat
    <3>1. rings' \in [Shards -> Seq(Events)] /\ dropped' \in [Shards -> Nat]
      BY <2>1, <2>2, PushTyped
    <3>2. Lens(rings') \in [Shards -> Nat]
      BY <3>1, LenProperties DEF Lens
    <3>. QED
      BY <3>1, <3>2, ThreadsFinite, TotalFinite
  <2>6. produced' + Cardinality(Among(worker', Workers, {"count"})) =
            Total(Gens(rec')) + Total(Lens(rings')) + Total(dropped')
    <3>. DEFINE a == Cardinality(Among(worker, Workers, {"count"}))
                g == Total(Gens(rec))
                q == Total(Lens(rings))
                d == Total(dropped)
                a1 == Cardinality(Among(worker', Workers, {"count"}))
                q1 == Total(Lens(rings'))
                d1 == Total(dropped')
    <3>1. produced + a = g + q + d /\ q1 + d1 = q + d + 1 /\ a1 = a + 1
      BY <1>3, <2>3, <2>4 DEF Accounts
    <3>2. a \in Nat /\ g \in Nat /\ q \in Nat /\ d \in Nat /\ q1 \in Nat /\ d1 \in Nat
          /\ produced \in Nat
      BY <2>5, AccountNumbers
    <3>. HIDE DEF a, g, q, d, a1, q1, d1
    <3>3. produced + a1 = g + q1 + d1
      BY <3>1, <3>2
    <3>. QED
      BY <1>2, <2>1, <3>3 DEF a1, g, q1, d1
  <2>. QED
    BY <1>2, <1>3, <2>6, AccountsNext DEF Accounts
<1>6. CASE WorkerCounts(w)
  <2>1. /\ rings' = rings /\ dropped' = dropped /\ produced' = produced + 1
        /\ worker[w] \in {"count"} /\ worker'[w] \notin {"count"}
        /\ \A x \in Workers \ {w} : worker'[x] = worker[x]
    BY <1>1, <1>6 DEF WorkerCounts
  <2>2. Cardinality(Among(worker', Workers, {"count"})) =
            Cardinality(Among(worker, Workers, {"count"})) - 1
    BY <2>1, ThreadsFinite, LeavesCount
  <2>3. produced' + Cardinality(Among(worker', Workers, {"count"})) =
            produced + Cardinality(Among(worker, Workers, {"count"}))
    BY <2>1, <2>2, AccountNumbers
  <2>. QED
    BY <1>2, <1>3, <2>1, <2>3, AccountsNext DEF Accounts
<1>. QED
  BY <1>4, <1>5, <1>6 DEF WorkerStep

(* A shard moves an event from its ring to its record and counts it.       *)
LEMMA ShardAccounts ==
    ASSUME NoWrap, PipelineInv, AccountsInv, NEW s \in Shards, ShardStep(s)
    PROVE  AccountsInv'
<1>1. /\ PipelineTypeOK
      /\ shard \in [Shards -> {"barrier", "test", "compare", "pop", "count", "done"}]
      /\ rings \in [Shards -> Seq(Events)] /\ rec \in [Shards -> Records]
  BY DEF PipelineInv, PipelineTypeOK
<1>2. worker' = worker /\ dropped' = dropped /\ produced' = produced
  BY DEF ShardStep, ShardStarts, ShardTests, ShardReads, ShardPops, ShardFindsNothing,
         ShardCounts, shared
<1>3. Accounts(produced, consumed, worker, shard, rings, dropped, rec)
  BY AccountsNow
<1>4. CASE ShardStarts(s) \/ ShardTests(s) \/ ShardReads(s) \/ ShardFindsNothing(s)
  <2>1. rings' = rings /\ rec' = rec /\ consumed' = consumed
    BY <1>4 DEF ShardStarts, ShardTests, ShardReads, ShardFindsNothing, shared
  <2>2. \A x \in Shards : shard'[x] \in {"count"} <=> shard[x] \in {"count"}
    BY <1>1, <1>4 DEF ShardStarts, ShardTests, ShardReads, ShardFindsNothing
  <2>3. Among(shard', Shards, {"count"}) = Among(shard, Shards, {"count"})
    BY <2>2 DEF Among
  <2>. QED
    BY <1>2, <1>3, <2>1, <2>3, AccountsNext DEF Accounts
<1>5. CASE ShardPops(s)
  <2>. DEFINE e == Head(rings[s])
              r == [rec[s] EXCEPT !.subscriber_id = e.subscriber_id]
  <2>1. PICK garbage \in Garbage :
            rec' = [rec EXCEPT ![s] = ApplyRemoteUpdate(r, UpdateFor(r, e, garbage))]
    BY <1>5 DEF ShardPops
  <2>2. /\ rings[s] # <<>> /\ rings' = [rings EXCEPT ![s] = Tail(@)] /\ consumed' = consumed
        /\ shard[s] \notin {"count"} /\ shard'[s] \in {"count"}
        /\ \A x \in Shards \ {s} : shard'[x] = shard[x]
    BY <1>1, <1>5 DEF ShardPops, shared
  <2>3. /\ e \in Events /\ Tail(rings[s]) \in Seq(Events)
        /\ Len(Tail(rings[s])) = Len(rings[s]) - 1 /\ Len(rings[s]) \in Nat
    BY <1>1, <2>2, HeadTailProperties, LenProperties
  <2>4. rec[s].generation \in Nat /\ rec[s].generation + 1 < GenerationMod
    BY <2>2, GenerationFits
  <2>5. /\ ApplyRemoteUpdate(r, UpdateFor(r, e, garbage)).generation = rec[s].generation + 1
        /\ ApplyRemoteUpdate(r, UpdateFor(r, e, garbage)) \in Records
    BY <1>1, <2>3, <2>4, AppliedCountsOn, AppliedRecord
  <2>. HIDE DEF e, r
  <2>6. /\ rec'[s].generation = rec[s].generation + 1
        /\ \A x \in Shards \ {s} : rec'[x] = rec[x]
        /\ rings'[s] = Tail(rings[s]) /\ \A x \in Shards \ {s} : rings'[x] = rings[x]
    BY <1>1, <2>1, <2>2, <2>5
  <2>7. /\ Gens(rec')[s] = Gens(rec)[s] + 1 /\ \A x \in Shards \ {s} : Gens(rec')[x] = Gens(rec)[x]
        /\ Lens(rings')[s] + 1 = Lens(rings)[s]
        /\ \A x \in Shards \ {s} : Lens(rings')[x] = Lens(rings)[x]
    <3>1. Gens(rec')[s] = Gens(rec)[s] + 1 /\ \A x \in Shards \ {s} : Gens(rec')[x] = Gens(rec)[x]
      BY <2>4, <2>6 DEF Gens
    <3>2. Len(rings'[s]) + 1 = Len(rings[s])
      BY <2>3, <2>6
    <3>3. /\ Lens(rings')[s] + 1 = Lens(rings)[s]
          /\ \A x \in Shards \ {s} : Lens(rings')[x] = Lens(rings)[x]
      BY <2>6, <3>2 DEF Lens
    <3>. QED
      BY <3>1, <3>3
  <2>8. /\ Gens(rec') \in [Shards -> Nat] /\ Lens(rings') \in [Shards -> Nat]
        /\ Gens(rec) \in [Shards -> Nat] /\ Lens(rings) \in [Shards -> Nat]
    <3>1. Gens(rec) \in [Shards -> Nat] /\ Lens(rings) \in [Shards -> Nat]
      BY <1>1, AccountNumbers
    <3>2. \A x \in Shards : Gens(rec')[x] \in Nat
      BY <2>7, <3>1
    <3>3. \A x \in Shards : Lens(rings')[x] \in Nat
      <4>1. Len(Tail(rings[s])) \in Nat
        BY <2>3, LenProperties
      <4>. QED
        BY <2>6, <2>7, <3>1, <4>1 DEF Lens
    <3>. QED
      BY <3>1, <3>2, <3>3 DEF Gens, Lens
  <2>9. Total(Gens(rec')) = Total(Gens(rec)) + 1
    BY <2>7, <2>8, ThreadsFinite, TotalGrows
  <2>10. Total(Lens(rings')) = Total(Lens(rings)) - 1
    BY <2>7, <2>8, ThreadsFinite, TotalShrinks
  <2>11. Cardinality(Among(shard', Shards, {"count"})) =
             Cardinality(Among(shard, Shards, {"count"})) + 1
    BY <2>2, ThreadsFinite, JoinsCount
  <2>12. \A x \in Shards : rec'[x].generation >= 1
    BY <1>3, <2>4, <2>6 DEF Accounts
  <2>. QED
    <3>. DEFINE a == Cardinality(Among(worker, Workers, {"count"}))
                k == Cardinality(Among(shard, Shards, {"count"}))
                g == Total(Gens(rec))
                q == Total(Lens(rings))
                d == Total(dropped)
    <3>1. a \in Nat /\ k \in Nat /\ g \in Nat /\ q \in Nat /\ d \in Nat
          /\ produced \in Nat /\ consumed \in Nat
      BY <1>1, AccountNumbers
    <3>2. produced + a = g + q + d /\ consumed = g - k
      BY <1>3 DEF Accounts
    <3>. HIDE DEF a, k, g, q, d
    <3>3. produced + a = (g + 1) + (q - 1) + d /\ consumed = (g + 1) - (k + 1)
      BY <3>1, <3>2
    <3>4. Accounts(produced', consumed', worker', shard', rings', dropped', rec')
      BY <1>2, <2>2, <2>9, <2>10, <2>11, <2>12, <3>3 DEF Accounts, a, k, g, q, d
    <3>. QED
      BY <3>4, AccountsNext
<1>6. CASE ShardCounts(s)
  <2>1. /\ rings' = rings /\ rec' = rec /\ consumed' = consumed + 1
        /\ shard[s] \in {"count"} /\ shard'[s] \notin {"count"}
        /\ \A x \in Shards \ {s} : shard'[x] = shard[x]
    BY <1>1, <1>6 DEF ShardCounts
  <2>2. Cardinality(Among(shard', Shards, {"count"})) =
            Cardinality(Among(shard, Shards, {"count"})) - 1
    BY <2>1, ThreadsFinite, LeavesCount
  <2>3. consumed' = Total(Gens(rec')) - Cardinality(Among(shard', Shards, {"count"}))
    <3>1. consumed = Total(Gens(rec)) - Cardinality(Among(shard, Shards, {"count"}))
      BY <1>3 DEF Accounts
    <3>. QED
      BY <1>1, <2>1, <2>2, <3>1, AccountNumbers
  <2>. QED
    BY <1>2, <1>3, <2>1, <2>3, AccountsNext DEF Accounts
<1>. QED
  BY <1>4, <1>5, <1>6 DEF ShardStep

(* Every event is in one place, and both counters say how far it has come  *)
(* (:154-156, 194-209).                                                    *)
THEOREM EventsStayAccounted == NoWrap => (Spec => []PipelineAccounted)
<1>. SUFFICES ASSUME NoWrap PROVE Spec => []PipelineAccounted
  OBVIOUS
<1>1. Init => AccountsInv
  <2>. SUFFICES ASSUME Init PROVE AccountsInv
    OBVIOUS
  <2>1. PipelineTypeOK
    BY StartTyped
  <2>2. \A s \in Shards : rec[s].generation = 1 /\ Len(rings[s]) = 0 /\ dropped[s] = 0
    BY DEF Init, StartRecord
  <2>3. /\ Gens(rec) \in [Shards -> Nat] /\ Lens(rings) \in [Shards -> Nat]
        /\ dropped \in [Shards -> Nat]
        /\ \A s \in Shards : Gens(rec)[s] = 0 /\ Lens(rings)[s] = 0 /\ dropped[s] = 0
    BY <2>1, <2>2 DEF Gens, Lens, PipelineTypeOK
  <2>4. Total(Gens(rec)) = 0 /\ Total(Lens(rings)) = 0 /\ Total(dropped) = 0
    BY <2>3, TotalOfNothing
  <2>5. Among(worker, Workers, {"count"}) = {} /\ Among(shard, Shards, {"count"}) = {}
    BY DEF Init, Among
  <2>6. produced = 0 /\ consumed = 0
    BY DEF Init
  <2>7. /\ Cardinality(Among(worker, Workers, {"count"})) = 0
        /\ Cardinality(Among(shard, Shards, {"count"})) = 0
    BY <2>5, FS_EmptySet
  <2>8. \A s \in Shards : rec[s].generation >= 1
    BY <2>2
  <2>. QED
    BY <2>4, <2>6, <2>7, <2>8, AccountsNow DEF Accounts
<1>2. PipelineInv /\ AccountsInv /\ [Next]_vars => AccountsInv'
  <2>. SUFFICES ASSUME PipelineInv, AccountsInv, [Next]_vars PROVE AccountsInv'
    OBVIOUS
  <2>1. ASSUME NEW w \in Workers, WorkerStep(w) PROVE AccountsInv'
    BY <2>1, WorkerAccounts DEF PipelineInv
  <2>2. ASSUME NEW s \in Shards, ShardStep(s) PROVE AccountsInv'
    BY <2>2, ShardAccounts
  <2>3. CASE MainStep \/ UNCHANGED vars
    <3>1. /\ produced' = produced /\ consumed' = consumed /\ worker' = worker
          /\ shard' = shard /\ rings' = rings /\ dropped' = dropped /\ rec' = rec
      BY <2>3 DEF MainStep, MainStarts, MainStops, MainJoins, vars, shared
    <3>. QED
      BY <3>1, AccountsNow, AccountsNext
  <2>. QED
    BY <2>1, <2>2, <2>3 DEF Next
<1>3. AccountsInv => PipelineAccounted
  BY DEF AccountsInv
<1>. QED
  BY <1>1, <1>2, <1>3, PipelineInvariant, PTL DEF Spec
=============================================================================
