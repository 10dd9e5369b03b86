------------------------------ MODULE BenchRss ------------------------------
(***************************************************************************)
(* One run of the RSS benchmark (bench/bench_worker_rss_impact.c,          *)
(* run_once): receive threads spread packets over the rings of the         *)
(* workers; each worker reports its packets to the rings of the shards     *)
(* (unless the mode is BASELINE) and claims them for a record of its own;  *)
(* each shard counts the reports and, in ENFORCE mode, applies them.  All  *)
(* threads leave as soon as they see `stop', whatever is still waiting.    *)
(*                                                                         *)
(* A thread is its kind and number.  A push or a pop holds the ring's      *)
(* mutex and is one step, together with what its thread then does to its   *)
(* own record; the counters are atomic.                                    *)
(***************************************************************************)
EXTENDS Subown, Sequences, FiniteSets, Totals

CONSTANTS
    Modes,       \* the modes a run may be configured with
    NumRss,      \* cfg.rss
    NumWorkers,  \* cfg.workers
    NumShards,   \* cfg.shards
    RingSize,    \* RING_SIZE, 16384 in the code
    Garbage,     \* what the update's uninitialized fields may hold
    MaxPackets   \* bound: packets a receive thread sees before `stop'

ASSUME RssAssumption ==
    /\ Modes \subseteq {"BASELINE", "OBSERVE", "ENFORCE"}
    /\ {NumRss, NumWorkers, NumShards, RingSize} \subseteq Nat \ {0}
    /\ MaxPackets \in Nat /\ {1, 2} \subseteq Generations

Rss == {"rss"} \X (0 .. NumRss - 1)
Workers == {"worker"} \X (0 .. NumWorkers - 1)
Shards == {"shard"} \X (0 .. NumShards - 1)

VARIABLES
    mode,                \* cfg.mode, set once
    start_ready, stop,   \* ctx_t
    pkt_gen, pkt_done, own_evt_gen, own_evt_done,   \* ctx_t
    ring,    \* ring[t]: the ids of the packets waiting for worker or shard t
    drops,   \* drops[t]: how many found it full
    at,      \* at[t]: where thread t is
    seq,     \* seq[t]: the next packet of receive thread t
    pkt,     \* pkt[t]: the packet worker t is working on, 0 for none
    rec      \* rec[t]: the record of worker or shard t

config == <<mode, start_ready, stop>>
vars == <<config, pkt_gen, pkt_done, own_evt_gen, own_evt_done, ring, drops, at, seq, pkt, rec>>

Packets == 1 .. NumRss * (MaxPackets + 1)

Records == [subscriber_id : Packets \cup {0}, owner_epoch : {1}, generation : Generations,
            owner_box : Boxes, activation_ts : Garbage \cup {0, 1},
            remote_packet_counter : {0}, state : {"LOCAL", "REMOTE"}]

RssTypeOK ==
    /\ mode \in Modes /\ start_ready \in BOOLEAN /\ stop \in BOOLEAN
    /\ pkt_gen \in Nat /\ pkt_done \in Nat /\ own_evt_gen \in Nat /\ own_evt_done \in Nat
    /\ ring \in [Workers \cup Shards -> Seq(Packets)]
    /\ drops \in [Workers \cup Shards -> Nat]
    /\ \A t \in Workers \cup Shards : Len(ring[t]) < RingSize
    /\ at \in [Rss \cup Workers \cup Shards ->
                  {"test", "push", "pop", "report", "count", "claim", "done"}]
    /\ seq \in [Rss -> Packets] /\ pkt \in [Workers -> Packets \cup {0}]
    /\ rec \in [Workers \cup Shards -> Records]

\* Cleared with memset, so that owner_box is 0 whatever owner_box_id says.
StartRecord ==
    [subscriber_id |-> 0, owner_epoch |-> 1, generation |-> 1, owner_box |-> 0,
     activation_ts |-> 0, remote_packet_counter |-> 0, state |-> "LOCAL"]

Init ==
    /\ mode \in Modes /\ start_ready = FALSE /\ stop = FALSE
    /\ pkt_gen = 0 /\ pkt_done = 0 /\ own_evt_gen = 0 /\ own_evt_done = 0
    /\ ring = [t \in Workers \cup Shards |-> <<>>]
    /\ drops = [t \in Workers \cup Shards |-> 0]
    /\ at = [t \in Rss \cup Workers \cup Shards |-> "test"]
    /\ seq = [t \in Rss |-> t[2] + 1]
    /\ pkt = [t \in Workers |-> 0]
    /\ rec = [t \in Workers \cup Shards |-> StartRecord]

-----------------------------------------------------------------------------
Goes(t, place) == at' = [at EXCEPT ![t] = place]

Fits(t) == Len(ring[t]) + 1 < RingSize

\* Deviations: a full ring drops unnoticed; the ring is filled to the last slot.
ring_push_silent(t, p) ==
    /\ ring' = IF Fits(t) THEN [ring EXCEPT ![t] = Append(@, p)] ELSE ring
    /\ UNCHANGED drops
ring_push_always(t, p) == ring' = [ring EXCEPT ![t] = Append(@, p)] /\ UNCHANGED drops

ring_push(t, p) ==
    IF Fits(t) THEN ring' = [ring EXCEPT ![t] = Append(@, p)] /\ UNCHANGED drops
    ELSE drops' = [drops EXCEPT ![t] = @ + 1] /\ UNCHANGED ring

ring_pop(t) == ring[t] # <<>> /\ ring' = [ring EXCEPT ![t] = Tail(@)]

(***************************************************************************)
(* The loop of every thread: it starts once start_ready is set and leaves  *)
(* when it sees `stop'.  A receive thread has a packet at any time.        *)
(***************************************************************************)
Tests(t) ==
    /\ at[t] = "test" /\ start_ready
    /\ t \in Rss => stop \/ seq[t] <= NumRss * MaxPackets
    /\ Goes(t, IF stop THEN "done" ELSE IF t \in Rss THEN "push" ELSE "pop")
    /\ UNCHANGED <<config, pkt_gen, pkt_done, own_evt_gen, own_evt_done, ring, drops, seq, pkt, rec>>

\* Deviation: a thread waits at an empty ring until there is something in it.
FindsNothingBlocks(t) ==
    /\ at[t] = "pop" /\ ring[t] = <<>> /\ ~stop
    /\ UNCHANGED vars

FindsNothing(t) ==
    /\ at[t] = "pop" /\ ring[t] = <<>>
    /\ Goes(t, "test")
    /\ UNCHANGED <<config, pkt_gen, pkt_done, own_evt_gen, own_evt_done, ring, drops, seq, pkt, rec>>

\* rss_thread: only a packet the ring took is counted.
RssPushes(t) ==
    LET w == <<"worker", seq[t] % NumWorkers>>
    IN  /\ at[t] = "push"
        /\ ring_push(w, seq[t])
        /\ seq' = [seq EXCEPT ![t] = @ + NumRss]
        /\ Goes(t, IF Fits(w) THEN "count" ELSE "test")
        /\ UNCHANGED <<config, pkt_gen, pkt_done, own_evt_gen, own_evt_done, pkt, rec>>

RssCounts(t) ==
    /\ at[t] = "count"
    /\ pkt_gen' = pkt_gen + 1
    /\ Goes(t, "test")
    /\ UNCHANGED <<config, pkt_done, own_evt_gen, own_evt_done, ring, drops, seq, pkt, rec>>

(***************************************************************************)
(* worker_thread.  The record follows the packet's subscriber and is then  *)
(* claimed for the box of the worker's own parity.                         *)
(***************************************************************************)
WorkerPops(t) ==
    /\ at[t] = "pop" /\ ring_pop(t)
    /\ pkt' = [pkt EXCEPT ![t] = Head(ring[t])]
    /\ Goes(t, IF mode = "BASELINE" THEN "claim" ELSE "report")
    /\ UNCHANGED <<config, pkt_gen, pkt_done, own_evt_gen, own_evt_done, drops, seq, rec>>

WorkerReports(t) ==
    LET s == <<"shard", pkt[t] % NumShards>>
    IN  /\ at[t] = "report"
        /\ ring_push(s, pkt[t])
        /\ Goes(t, IF Fits(s) THEN "count" ELSE "claim")
        /\ UNCHANGED <<config, pkt_gen, pkt_done, own_evt_gen, own_evt_done, seq, pkt, rec>>

WorkerCounts(t) ==
    /\ at[t] = "count"
    /\ own_evt_gen' = own_evt_gen + 1
    /\ Goes(t, "claim")
    /\ UNCHANGED <<config, pkt_gen, pkt_done, own_evt_done, ring, drops, seq, pkt, rec>>

\* Deviation: the record starts afresh with every subscriber.
FollowedAfresh(r, p) == [StartRecord EXCEPT !.subscriber_id = p, !.generation = r.generation]

Followed(r, p) == [r EXCEPT !.subscriber_id = p]

ClaimedFor(r, box) == IF HoldsLocally(r, box) THEN r ELSE Claimed(r, box, 1)

WorkerClaims(t) ==
    /\ at[t] = "claim"
    /\ rec' = [rec EXCEPT ![t] = ClaimedFor(Followed(@, pkt[t]), t[2] % 2)]
    /\ pkt' = [pkt EXCEPT ![t] = 0]
    /\ pkt_done' = pkt_done + 1
    /\ Goes(t, "test")
    /\ UNCHANGED <<config, pkt_gen, own_evt_gen, own_evt_done, ring, drops, seq>>

(***************************************************************************)
(* shard_thread.  The update names its owner by owner_box_id only;         *)
(* owner_box, activation_ts and policy_mask are uninitialized.             *)
(***************************************************************************)
\* Deviation: the update carries the generation the record already has.
UpdateForSame(r, p, garbage) ==
    [msg_version |-> 1, subscriber_id |-> p, generation |-> r.generation,
     owner_box |-> garbage, owner_box_id |-> p % 2,
     activation_ts |-> garbage, timestamp |-> 1, owner_epoch |-> r.owner_epoch]

UpdateFor(r, p, garbage) ==
    [msg_version |-> 1, subscriber_id |-> p, generation |-> (r.generation + 1) % GenerationMod,
     owner_box |-> garbage, owner_box_id |-> p % 2,
     activation_ts |-> garbage, timestamp |-> 1, owner_epoch |-> r.owner_epoch]

Applied(r, p, garbage) ==
    IF mode = "ENFORCE" THEN ApplyRemoteUpdate(Followed(r, p), UpdateFor(r, p, garbage)) ELSE r

ShardPops(t) ==
    /\ at[t] = "pop" /\ ring_pop(t)
    /\ \E garbage \in Garbage :
           rec' = [rec EXCEPT ![t] = Applied(@, Head(ring[t]), garbage)]
    /\ Goes(t, "count")
    /\ UNCHANGED <<config, pkt_gen, pkt_done, own_evt_gen, own_evt_done, drops, seq, pkt>>

ShardCounts(t) ==
    /\ at[t] = "count"
    /\ own_evt_done' = own_evt_done + 1
    /\ Goes(t, "test")
    /\ UNCHANGED <<config, pkt_gen, pkt_done, own_evt_gen, ring, drops, seq, pkt, rec>>

RssStep(t) == Tests(t) \/ RssPushes(t) \/ RssCounts(t)

WorkerStep(t) ==
    \/ Tests(t) \/ FindsNothing(t) \/ WorkerPops(t) \/ WorkerReports(t)
    \/ WorkerCounts(t) \/ WorkerClaims(t)

ShardStep(t) == Tests(t) \/ FindsNothing(t) \/ ShardPops(t) \/ ShardCounts(t)

\* run_once: the threads may start, and after a while must stop.
MainStep ==
    /\ ~stop
    /\ start_ready' = TRUE
    /\ stop' = start_ready
    /\ UNCHANGED <<mode, pkt_gen, pkt_done, own_evt_gen, own_evt_done, ring, drops, at, seq, pkt, rec>>

Next ==
    \/ \E t \in Rss : RssStep(t)
    \/ \E t \in Workers : WorkerStep(t)
    \/ \E t \in Shards : ShardStep(t)
    \/ MainStep

Spec == Init /\ [][Next]_vars

\* Every thread is scheduled, and none starves at a mutex.
Fairness ==
    /\ \A t \in Rss : WF_vars(RssStep(t))
    /\ \A t \in Workers : WF_vars(WorkerStep(t))
    /\ \A t \in Shards : WF_vars(ShardStep(t))
    /\ WF_vars(MainStep)

FairSpec == Spec /\ Fairness

-----------------------------------------------------------------------------
NumAt(places, threads) == Cardinality({t \in threads : at[t] \in places})
Waiting(threads) == Total([t \in threads |-> Len(ring[t])])
Dropped(threads) == Total([t \in threads |-> drops[t]])

(***************************************************************************)
(* What the benchmark prints adds up: every packet seen was counted as     *)
(* generated or as a drop of a worker's ring (:137, 298), and every        *)
(* generated packet is done, waiting or being worked on.                   *)
(***************************************************************************)
Rounds(t) == (seq[t] - t[2] - 1) \div NumRss
Seen == Total([t \in Rss |-> Rounds(t)])

PacketsAccounted ==
    LET taken == pkt_gen + NumAt({"count"}, Rss)
    IN  /\ Seen = taken + Dropped(Workers)
        /\ taken = pkt_done + Waiting(Workers) + NumAt({"report", "count", "claim"}, Workers)

(***************************************************************************)
(* Unless the mode is BASELINE every packet done was reported to a shard,  *)
(* or is a drop of a shard's ring, which no figure printed includes; and   *)
(* in ENFORCE mode every report moves a shard's record on (:174-180, 227). *)
(***************************************************************************)
ReportsAccounted ==
    LET handled == own_evt_done + NumAt({"count"}, Shards)
    IN  /\ mode # "BASELINE" =>
               pkt_done + NumAt({"claim"}, Workers) =
                   own_evt_gen + Dropped(Shards)
        /\ own_evt_gen + NumAt({"count"}, Workers) = handled + Waiting(Shards)
        /\ mode = "ENFORCE" =>
               Total([t \in Shards |-> rec[t].generation - 1]) = handled

(***************************************************************************)
(* Although its record changes subscriber with every packet, a worker      *)
(* takes over at most once: an odd worker on its first packet, because     *)
(* owner_box is 0 then, an even one never.  All other claims only refresh  *)
(* (:161-165, 182-183).                                                    *)
(***************************************************************************)
OneTakeover ==
    \A t \in Workers :
        rec[t].generation = IF t[2] % 2 = 1 /\ rec[t].subscriber_id # 0 THEN 2 ELSE 1

(***************************************************************************)
(* Why: a worker's record is never anything but LOCAL, and no packet has   *)
(* the number 0 of a cleared record.  A receive thread has seen every      *)
(* NumRss-th packet from its own number on.                                *)
(***************************************************************************)
RssInv ==
    /\ RssTypeOK
    /\ \A t \in Rss : /\ Rounds(t) \in 0 .. MaxPackets
                      /\ seq[t] = t[2] + 1 + NumRss * Rounds(t)
                      /\ at[t] \in {"test", "push", "count", "done"}
                      /\ at[t] = "push" => seq[t] <= NumRss * MaxPackets
    /\ \A t \in Workers : /\ at[t] # "push"
                          /\ at[t] \in {"report", "count", "claim"} => pkt[t] # 0
                          /\ rec[t].state = "LOCAL"
                          /\ rec[t].owner_box = rec[t].generation - 1
    /\ \A t \in Shards : at[t] \in {"test", "pop", "count", "done"}
    /\ OneTakeover

(***************************************************************************)
(* The run ends, whatever is dropped or left waiting (compare              *)
(* BenchPipeline): run_once joins every thread (:288-290).                 *)
(***************************************************************************)
RunEnds == <>(\A t \in Rss \cup Workers \cup Shards : at[t] = "done")
=============================================================================
