--------------------------- MODULE BenchPipeline ---------------------------
(***************************************************************************)
(* One case of the pipeline benchmark (bench/bench_pipeline_4k.c,          *)
(* run_case): worker threads push events into the rings of shard threads,  *)
(* each of which applies its events to one record of its own through the   *)
(* library.  The main thread lets them start, raises `stop' after a while  *)
(* and joins them.  A worker leaves when it sees `stop'; a shard leaves    *)
(* when it sees `stop' and, of two shared counters read one after the      *)
(* other, `consumed' has caught up with `produced'.                        *)
(*                                                                         *)
(* A push or a pop holds the ring's mutex and is one step; the counters    *)
(* are atomic.  Latencies and CPU pinning are left out.                    *)
(***************************************************************************)
EXTENDS Subown, Sequences, FiniteSets, Totals

CONSTANTS
    NumWorkers,  \* cfg.workers
    NumShards,   \* cfg.shards
    RingSize,    \* RING_SIZE, 65536 in the code
    Garbage,     \* what the update's uninitialized activation_ts may hold
    MaxEvents    \* bound: events the workers find time for before `stop'

ASSUME PipelineAssumption ==
    /\ {NumWorkers, NumShards, RingSize} \subseteq Nat \ {0}
    /\ MaxEvents \in Nat /\ 1 \in Generations

Workers == 0 .. NumWorkers - 1
Shards == 0 .. NumShards - 1

VARIABLES
    start_ready, stop, produced, consumed, global_seq,   \* ctx_t
    rings,     \* rings[s]: the events waiting for shard s
    dropped,   \* dropped[s]: events that found its ring full
    rec,       \* rec[s]: the record of shard s
    worker,    \* worker[w]: where worker w is
    hand,      \* hand[w]: the event it is about to push
    shard,     \* shard[s]: where shard s is
    saw,       \* saw[s]: the counters it has read for its loop condition
    main       \* where the main thread is

shared == <<start_ready, stop, produced, consumed, global_seq>>
vars == <<shared, rings, dropped, rec, worker, hand, shard, saw, main>>

None == [subscriber_id |-> 0, owner_box_id |-> 0]
Unread == [consumed |-> -1, produced |-> -1]

Events == [subscriber_id : 0 .. MaxEvents, owner_box_id : Boxes]

Records == [subscriber_id : 0 .. MaxEvents, owner_epoch : {1}, generation : Generations,
            owner_box : Boxes, activation_ts : Garbage \cup {0, 1},
            remote_packet_counter : {0}, state : {"LOCAL", "REMOTE"}]

PipelineTypeOK ==
    /\ start_ready \in BOOLEAN /\ stop \in BOOLEAN
    /\ produced \in Nat /\ consumed \in Nat /\ global_seq \in 0 .. MaxEvents
    /\ rings \in [Shards -> Seq(Events)]
    /\ \A s \in Shards : Len(rings[s]) < RingSize
    /\ dropped \in [Shards -> Nat]
    /\ rec \in [Shards -> Records]
    /\ worker \in [Workers -> {"barrier", "loop", "push", "count", "done"}]
    /\ hand \in [Workers -> Events]
    /\ shard \in [Shards -> {"barrier", "test", "compare", "pop", "count", "done"}]
    /\ saw \in [Shards -> [consumed : Nat \cup {-1}, produced : Nat \cup {-1}]]
    /\ main \in {"create", "sleep", "join", "done"}

\* Cleared with memset, then claimed locally.
StartRecord ==
    [subscriber_id |-> 0, owner_epoch |-> 1, generation |-> 1, owner_box |-> 0,
     activation_ts |-> 0, remote_packet_counter |-> 0, state |-> "LOCAL"]

Init ==
    /\ start_ready = FALSE /\ stop = FALSE
    /\ produced = 0 /\ consumed = 0 /\ global_seq = 0
    /\ rings = [s \in Shards |-> <<>>]
    /\ dropped = [s \in Shards |-> 0]
    /\ rec = [s \in Shards |-> StartRecord]
    /\ worker = [w \in Workers |-> "barrier"]
    /\ hand = [w \in Workers |-> None]
    /\ shard = [s \in Shards |-> "barrier"]
    /\ saw = [s \in Shards |-> Unread]
    /\ main = "create"

-----------------------------------------------------------------------------
(***************************************************************************)
(* The threads wait for start_ready under a condition variable.            *)
(***************************************************************************)
WorkerStarts(w) ==
    /\ worker[w] = "barrier" /\ start_ready
    /\ worker' = [worker EXCEPT ![w] = "loop"]
    /\ UNCHANGED <<shared, rings, dropped, rec, hand, shard, saw, main>>

ShardStarts(s) ==
    /\ shard[s] = "barrier" /\ start_ready
    /\ shard' = [shard EXCEPT ![s] = "test"]
    /\ UNCHANGED <<shared, rings, dropped, rec, worker, hand, saw, main>>

(***************************************************************************)
(* worker_thread.  An event is due at any time; which shard it goes to     *)
(* follows from its sequence number.  `produced' counts it after the push, *)
(* and whether or not the ring took it.                                    *)
(***************************************************************************)
WorkerLeaves(w) ==
    /\ worker[w] = "loop" /\ stop
    /\ worker' = [worker EXCEPT ![w] = "done"]
    /\ UNCHANGED <<shared, rings, dropped, rec, hand, shard, saw, main>>

WorkerHasEvent(w) ==
    /\ worker[w] = "loop" /\ ~stop
    /\ global_seq < MaxEvents
    /\ global_seq' = global_seq + 1
    /\ hand' = [hand EXCEPT ![w] = [subscriber_id |-> global_seq', owner_box_id |-> w % 2]]
    /\ worker' = [worker EXCEPT ![w] = "push"]
    /\ UNCHANGED <<start_ready, stop, produced, consumed, rings, dropped, rec, shard, saw, main>>

\* Deviation: a push into a full ring is not counted as dropped.
ring_push_silent(s, e) ==
    /\ rings' = IF Len(rings[s]) + 1 = RingSize THEN rings
                ELSE [rings EXCEPT ![s] = Append(@, e)]
    /\ UNCHANGED dropped
\* Deviation: the ring is filled to the last slot.
ring_push_tight(s, e) ==
    IF Len(rings[s]) = RingSize
    THEN dropped' = [dropped EXCEPT ![s] = @ + 1] /\ UNCHANGED rings
    ELSE rings' = [rings EXCEPT ![s] = Append(@, e)] /\ UNCHANGED dropped

ring_push(s, e) ==
    IF Len(rings[s]) + 1 = RingSize
    THEN dropped' = [dropped EXCEPT ![s] = @ + 1] /\ UNCHANGED rings
    ELSE rings' = [rings EXCEPT ![s] = Append(@, e)] /\ UNCHANGED dropped

WorkerPushes(w) ==
    /\ worker[w] = "push"
    /\ ring_push(hand[w].subscriber_id % NumShards, hand[w])
    /\ hand' = [hand EXCEPT ![w] = None]
    /\ worker' = [worker EXCEPT ![w] = "count"]
    /\ UNCHANGED <<shared, rec, shard, saw, main>>

WorkerCounts(w) ==
    /\ worker[w] = "count"
    /\ produced' = produced + 1
    /\ worker' = [worker EXCEPT ![w] = "loop"]
    /\ UNCHANGED <<start_ready, stop, consumed, global_seq, rings, dropped, rec, hand,
                   shard, saw, main>>

(***************************************************************************)
(* shard_thread.  The loop condition reads stop, then the two counters in  *)
(* an order the language leaves open.                                      *)
(***************************************************************************)
ShardTests(s) ==
    /\ shard[s] = "test"
    /\ shard' = [shard EXCEPT ![s] = IF stop THEN "compare" ELSE "pop"]
    /\ UNCHANGED <<shared, rings, dropped, rec, worker, hand, saw, main>>

\* Deviations: one comparison off; stop alone ends the loop.
MoreToComeOffByOne(seen) == seen.consumed <= seen.produced
MoreToComeNever(seen) == FALSE

MoreToCome(seen) == seen.consumed < seen.produced

ShardReads(s) ==
    \E counter \in {"consumed", "produced"} :
        LET now == IF counter = "consumed" THEN consumed ELSE produced
            seen == [saw[s] EXCEPT ![counter] = now]
            both == -1 \notin {seen.consumed, seen.produced}
        IN  /\ shard[s] = "compare"
            /\ saw[s][counter] = -1
            /\ saw' = [saw EXCEPT ![s] = IF both THEN Unread ELSE seen]
            /\ shard' = [shard EXCEPT ![s] = IF ~both THEN "compare"
                                             ELSE IF MoreToCome(seen) THEN "pop" ELSE "done"]
            /\ UNCHANGED <<shared, rings, dropped, rec, worker, hand, main>>

\* The record takes on the event's subscriber, then an update that names only
\* the owner id; owner_box, activation_ts and policy_mask are uninitialized.
UpdateFor(r, e, garbage) ==
    [msg_version |-> 1, subscriber_id |-> e.subscriber_id,
     generation |-> (r.generation + 1) % GenerationMod,
     owner_box |-> garbage, owner_box_id |-> e.owner_box_id,
     activation_ts |-> garbage, timestamp |-> 1, owner_epoch |-> r.owner_epoch]

ShardPops(s) ==
    /\ shard[s] = "pop" /\ rings[s] # <<>>
    /\ rings' = [rings EXCEPT ![s] = Tail(@)]
    /\ \E garbage \in Garbage :
          LET e == Head(rings[s])
              r == [rec[s] EXCEPT !.subscriber_id = e.subscriber_id]
          IN  rec' = [rec EXCEPT ![s] = ApplyRemoteUpdate(r, UpdateFor(r, e, garbage))]
    /\ shard' = [shard EXCEPT ![s] = "count"]
    /\ UNCHANGED <<shared, dropped, worker, hand, saw, main>>

ShardFindsNothing(s) ==
    /\ shard[s] = "pop" /\ rings[s] = <<>>
    /\ shard' = [shard EXCEPT ![s] = "test"]
    /\ UNCHANGED <<shared, rings, dropped, rec, worker, hand, saw, main>>

ShardCounts(s) ==
    /\ shard[s] = "count"
    /\ consumed' = consumed + 1
    /\ shard' = [shard EXCEPT ![s] = "test"]
    /\ UNCHANGED <<start_ready, stop, produced, global_seq, rings, dropped, rec, worker,
                   hand, saw, main>>

(***************************************************************************)
(* run_case.                                                               *)
(***************************************************************************)
MainStarts ==
    /\ main = "create"
    /\ start_ready' = TRUE
    /\ main' = "sleep"
    /\ UNCHANGED <<stop, produced, consumed, global_seq, rings, dropped, rec, worker,
                   hand, shard, saw>>

MainStops ==
    /\ main = "sleep"
    /\ stop' = TRUE
    /\ main' = "join"
    /\ UNCHANGED <<start_ready, produced, consumed, global_seq, rings, dropped, rec,
                   worker, hand, shard, saw>>

MainJoins ==
    /\ main = "join"
    /\ \A w \in Workers : worker[w] = "done"
    /\ \A s \in Shards : shard[s] = "done"
    /\ main' = "done"
    /\ UNCHANGED <<shared, rings, dropped, rec, worker, hand, shard, saw>>

WorkerStep(w) ==
    \/ WorkerStarts(w) \/ WorkerLeaves(w) \/ WorkerHasEvent(w)
    \/ WorkerPushes(w) \/ WorkerCounts(w)

ShardStep(s) ==
    \/ ShardStarts(s) \/ ShardTests(s) \/ ShardReads(s)
    \/ ShardPops(s) \/ ShardFindsNothing(s) \/ ShardCounts(s)

MainStep == MainStarts \/ MainStops \/ MainJoins

Next == (\E w \in Workers : WorkerStep(w)) \/ (\E s \in Shards : ShardStep(s)) \/ MainStep

Spec == Init /\ [][Next]_vars

\* Every thread is scheduled, and none starves at a mutex.
Fairness ==
    /\ \A w \in Workers : WF_vars(WorkerStep(w))
    /\ \A s \in Shards : WF_vars(ShardStep(s))
    /\ WF_vars(MainStep)

FairSpec == Spec /\ Fairness

-----------------------------------------------------------------------------
(***************************************************************************)
(* Every event is in one place: what the workers have pushed, counted or   *)
(* not, is waiting, was dropped, or has moved its shard's record on by one *)
(* generation; and `consumed' is the generations of all shards but for the *)
(* events about to be counted.  (bench_pipeline_4k.c:154-156, 194-209.)    *)
(***************************************************************************)
Handled == Total([s \in Shards |-> rec[s].generation - 1])
Waiting == Total([s \in Shards |-> Len(rings[s])])

PipelineAccounted ==
    /\ produced + Cardinality({w \in Workers : worker[w] = "count"}) =
           Handled + Waiting + Total(dropped)
    /\ consumed = Handled - Cardinality({s \in Shards : shard[s] = "count"})

(***************************************************************************)
(* A case that ends has lost at most one event per worker, although a      *)
(* shard may leave with its ring not empty: only events pushed and not yet *)
(* counted while the last shard made up its mind can go missing (:187).    *)
(***************************************************************************)
LossIsBounded == main = "done" => produced - consumed <= NumWorkers

(***************************************************************************)
(* Why: after `stop' each worker counts at most the one event it has in    *)
(* its hands, and a shard reads the counters after `stop' only.  What a    *)
(* shard has read stays within a step of each worker of the truth, and so  *)
(* the counters do once a shard has left.                                  *)
(***************************************************************************)
Uncounted == {w \in Workers : worker[w] \in {"push", "count"}}
Pushed == produced + Cardinality(Uncounted)

ReadsAreRecent ==
    \A s \in Shards :
        /\ shard[s] # "compare" => saw[s] = Unread
        /\ shard[s] \in {"compare", "done"} => stop
        /\ saw[s].consumed <= consumed
        /\ saw[s].produced # -1 => Pushed <= saw[s].produced + NumWorkers
        /\ shard[s] = "done" => Pushed <= consumed + NumWorkers

PipelineInv ==
    /\ PipelineTypeOK
    /\ ReadsAreRecent
    /\ Pushed = global_seq
    /\ main = "done" => \A s \in Shards : shard[s] = "done"

(***************************************************************************)
(* A case ends, unless an event was dropped or a shard left with an event  *)
(* still to come: then `consumed' never catches up, and the shards that    *)
(* are still running never leave (:187, 281-282).                          *)
(***************************************************************************)
EndsUnlessLost ==
    <>(\/ main = "done"
       \/ \E s \in Shards : dropped[s] > 0 \/ (shard[s] = "done" /\ rings[s] # <<>>))
=============================================================================
