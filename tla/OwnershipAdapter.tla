-------------------------- MODULE OwnershipAdapter --------------------------
(***************************************************************************)
(* One box's ownership adapter (adapter/src/ownership_adapter.c): a table  *)
(* of records with open addressing, a ring of worker events for the        *)
(* control thread, a ring of encoded claims on their way out, and the      *)
(* metrics.  Each action is one call of the API, by a worker (on_packet)   *)
(* or by the control thread (the rest; push_event is anyone's), run to its *)
(* end before the next: the contract allows one writer                     *)
(* (ownership_adapter.md:59-60).                                           *)
(*                                                                         *)
(* The two rings are sequences that hold one entry less than their arrays; *)
(* an event is its subscriber and type (its box id is a constant and tsc   *)
(* an opaque stamp).  on_aging_tick does nothing and is left out, as are   *)
(* null arguments.                                                         *)
(***************************************************************************)
EXTENDS SubownWire, Sequences, FiniteSets

CONSTANTS
    LocalBox,            \* cfg.local_box_id
    Modes,               \* the modes an adapter may be configured with
    MigrationThreshold,  \* cfg.migration_threshold
    RecordCap,           \* OWN_RECORD_CAP, 4096 in the code
    EventCap,            \* OWN_EVENT_Q_CAP, 2048 in the code
    OutboundCap,         \* OWN_OUTBOUND_CAP, 512 in the code
    Subscribers,         \* the subscriber ids that occur
    Clock,               \* the times packets arrive at
    PeerFrames,          \* what the peer may send, garbled frames included
    DirectEvents,        \* the events push_event may be called with directly
    Free,                \* an unused slot of the table
    MaxGeneration,       \* bound: no claim from a record at this generation
    MaxCalls             \* bound: calls of the API

ASSUME LocalBoxAssumption == LocalBox \in Boxes
ASSUME ModesAssumption == Modes \subseteq {"DISABLED", "OBSERVE", "ENFORCE"}
ASSUME CapacityAssumption ==
    RecordCap \in Nat \ {0} /\ EventCap \in Nat \ {0} /\ OutboundCap \in Nat \ {0}
ASSUME SubscribersAssumption == Subscribers \subseteq Nat
ASSUME ClockAssumption == Clock \subseteq Nat
ASSUME BoundsAssumption ==
    MigrationThreshold \in Nat /\ MaxGeneration \in Nat /\ MaxCalls \in Nat

Records == [subscriber_id : Subscribers, owner_epoch : Nat, generation : Generations,
            owner_box : Owners, activation_ts : Nat,
            remote_packet_counter : Nat, state : OwnershipState]

Frames == [header : {"V1"}, subscriber_id : Subscribers, generation : Generations,
           owner_box : Owners, activation_ts : Nat, owner_epoch : Nat]

ASSUME FreeAssumption == Free \notin Records
ASSUME PeerFramesAssumption == \A f \in PeerFrames : Decodable(f) => f \in Frames

VARIABLES
    mode,       \* cfg.mode, set once
    table,      \* table[i]: the record in slot i, or Free
    events,     \* events pushed and not yet popped
    outbound,   \* frames staged and not yet flushed
    metrics,    \* own_adapter_metrics_t
    result,     \* what the last on_packet returned
    claims,     \* takeovers by this box (history)
    flushed,    \* frames flushed (history)
    popped,     \* popped[t]: events of type t popped (history)
    direct,     \* direct[t]: events of type t the ring took from calls of
                \* push_event other than on_packet's (history)
    refused,    \* such calls that found the ring full (history)
    calls       \* calls of the API so far

vars == <<mode, table, events, outbound, metrics, result, claims, flushed, popped,
          direct, refused, calls>>

Peer == Other(LocalBox)
Slots == 0 .. RecordCap - 1

EventTypes == {"MISROUTE", "UNOWNED_CLAIM", "MIGRATION_HINT"}
Events == [subscriber_id : Subscribers, event_type : EventTypes]

ASSUME DirectEventsAssumption == DirectEvents \subseteq Events

Actions == {"NOOP", "PROCESS_LOCAL", "FORWARD_REMOTE", "TRIGGER_MIGRATION", "CLAIM_EMITTED"}

Metrics == {"own_worker_events_total", "own_worker_ring_drop_total",
            "own_apply_remote_total", "own_conflict_total", "own_stale_drop_total",
            "own_dup_drop_total", "own_migration_trigger_total",
            "own_zmq_recv_err_total", "own_zmq_send_err_total"}

AdapterTypeOK ==
    /\ mode \in Modes
    /\ table \in [Slots -> Records \cup {Free}]
    /\ events \in Seq(Events)
    /\ Len(events) < EventCap
    /\ outbound \in Seq(Frames)
    /\ Len(outbound) < OutboundCap
    /\ metrics \in [Metrics -> Nat]
    /\ result \in [rc : {0, -1}, action : Actions]
    /\ claims \in Nat /\ flushed \in Nat /\ popped \in [EventTypes -> Nat]
    /\ direct \in [EventTypes -> Nat] /\ refused \in Nat
    /\ calls \in 0 .. MaxCalls

Init ==
    /\ mode \in Modes
    /\ table = [i \in Slots |-> Free]
    /\ events = <<>> /\ outbound = <<>>
    /\ metrics = [m \in Metrics |-> 0]
    /\ result = [rc |-> 0, action |-> "NOOP"]
    /\ claims = 0 /\ flushed = 0 /\ calls = 0
    /\ popped = [t \in EventTypes |-> 0]
    /\ direct = [t \in EventTypes |-> 0] /\ refused = 0

-----------------------------------------------------------------------------
(***************************************************************************)
(* lookup_slot: linear probing from id % RecordCap to the first slot that  *)
(* is free or holds the id.  Slots are never freed.                        *)
(***************************************************************************)
Probe(s, k) == ((s % RecordCap) + k) % RecordCap

\* Deviation: probing does not compare ids before it takes a free slot.
StopsWhenFree(s, k) == table[Probe(s, k)] = Free

Stops(s, k) ==
    table[Probe(s, k)] # Free => table[Probe(s, k)].subscriber_id = s

HasSlot(s) == \E k \in Slots : Stops(s, k)

SlotOf(s) ==
    Probe(s, CHOOSE k \in Slots : Stops(s, k) /\ \A j \in 0 .. k - 1 : ~Stops(s, j))

NewRecord(s) ==
    [subscriber_id |-> s, owner_epoch |-> 1, generation |-> 0, owner_box |-> Unowned,
     activation_ts |-> 0, remote_packet_counter |-> 0, state |-> "UNOWNED"]

RecordAt(s) == IF table[SlotOf(s)] = Free THEN NewRecord(s) ELSE table[SlotOf(s)]

\* Deviation: the record goes where its id hashes to.
StoreAtHome(s, r) == table' = [table EXCEPT ![s % RecordCap] = r]

Store(s, r) == table' = [table EXCEPT ![SlotOf(s)] = r]

(***************************************************************************)
(* The rings.  One slot stays empty to tell a full ring from an empty one. *)
(***************************************************************************)
\* Deviation: the ring is filled to the last slot.
EventFitsTight == Len(events) < EventCap

EventFits == Len(events) < EventCap - 1
OutboundFits == Len(outbound) < OutboundCap - 1

Bump(m, names) == [n \in Metrics |-> IF n \in names THEN m[n] + 1 ELSE m[n]]

\* Deviation: the caller counts the event whether or not it was pushed.
PushEventCounted(s, type, counted) ==
    /\ events' = IF EventFits
                 THEN Append(events, [subscriber_id |-> s, event_type |-> type])
                 ELSE events
    /\ metrics' = Bump(metrics,
                       counted \cup {"own_worker_events_total"}
                           \cup IF EventFits THEN {} ELSE {"own_worker_ring_drop_total"})

\* push_event by on_packet, and the metrics it and its caller count.
PushEvent(s, type, counted) ==
    /\ events' = IF EventFits
                 THEN Append(events, [subscriber_id |-> s, event_type |-> type])
                 ELSE events
    /\ metrics' = Bump(metrics,
                       counted \cup {IF EventFits THEN "own_worker_events_total"
                                     ELSE "own_worker_ring_drop_total"})

\* In observe mode every packet is processed where it arrived.
Steered(action) == IF mode = "ENFORCE" THEN action ELSE "PROCESS_LOCAL"

Returns(rc, action) == result' = [rc |-> rc, action |-> action]

-----------------------------------------------------------------------------
(***************************************************************************)
(* ownership_adapter_on_packet, one action per way through it.             *)
(***************************************************************************)
PacketDisabled(s) ==
    /\ mode = "DISABLED"
    /\ Returns(0, "NOOP")
    /\ UNCHANGED <<table, events, outbound, metrics, claims, flushed, popped,
                   direct, refused>>

\* The table is full of other subscribers.
PacketNoSlot(s) ==
    /\ mode # "DISABLED"
    /\ ~HasSlot(s)
    /\ Returns(-1, "NOOP")
    /\ UNCHANGED <<table, events, outbound, metrics, claims, flushed, popped,
                   direct, refused>>

PacketLocal(s) ==
    /\ mode # "DISABLED" /\ HasSlot(s)
    /\ RecordAt(s).owner_box = LocalBox
    /\ Returns(0, "PROCESS_LOCAL")
    /\ UNCHANGED <<table, events, outbound, metrics, claims, flushed, popped,
                   direct, refused>>

\* Deviation: observe mode only reports the misroute.
PacketForwardedIdle(s) ==
    /\ mode # "DISABLED" /\ HasSlot(s)
    /\ RecordAt(s).owner_box = Peer
    /\ ~ReachesThreshold(RecordAt(s), MigrationThreshold)
    /\ IF mode = "ENFORCE"
       THEN /\ Store(s, Misrouted(RecordAt(s), MigrationThreshold))
            /\ UNCHANGED <<events, metrics>>
       ELSE UNCHANGED table /\ PushEvent(s, "MISROUTE", {})
    /\ Returns(0, Steered("FORWARD_REMOTE"))
    /\ UNCHANGED <<outbound, claims, flushed, popped, direct, refused>>

\* The misroute event is for observe mode only.
PacketForwarded(s) ==
    /\ mode # "DISABLED" /\ HasSlot(s)
    /\ RecordAt(s).owner_box = Peer
    /\ ~ReachesThreshold(RecordAt(s), MigrationThreshold)
    /\ Store(s, Misrouted(RecordAt(s), MigrationThreshold))
    /\ IF mode = "ENFORCE" THEN UNCHANGED <<events, metrics>>
       ELSE PushEvent(s, "MISROUTE", {})
    /\ Returns(0, Steered("FORWARD_REMOTE"))
    /\ UNCHANGED <<outbound, claims, flushed, popped, direct, refused>>

\* The counter restarts and the trigger is counted even if the hint is lost.
PacketTriggers(s) ==
    /\ mode # "DISABLED" /\ HasSlot(s)
    /\ RecordAt(s).owner_box = Peer
    /\ ReachesThreshold(RecordAt(s), MigrationThreshold)
    /\ Store(s, Misrouted(RecordAt(s), MigrationThreshold))
    /\ PushEvent(s, "MIGRATION_HINT", {"own_migration_trigger_total"})
    /\ Returns(0, Steered("TRIGGER_MIGRATION"))
    /\ UNCHANGED <<outbound, claims, flushed, popped, direct, refused>>

\* Deviation: a claim that cannot be staged leaves no trace in the metrics.
PacketClaimUncounted(s, now) ==
    /\ mode # "DISABLED" /\ HasSlot(s)
    /\ RecordAt(s).owner_box = Unowned /\ RecordAt(s).generation < MaxGeneration
    /\ ~OutboundFits
    /\ Store(s, Claimed(RecordAt(s), LocalBox, now))
    /\ claims' = claims + 1
    /\ Returns(-1, "NOOP")
    /\ UNCHANGED <<events, outbound, metrics, flushed, popped, direct, refused>>

\* The emitter finds the outbound ring full: the claim stands all the same.
PacketClaimFails(s, now) ==
    /\ mode # "DISABLED" /\ HasSlot(s)
    /\ RecordAt(s).owner_box = Unowned /\ RecordAt(s).generation < MaxGeneration
    /\ ~OutboundFits
    /\ Store(s, Claimed(RecordAt(s), LocalBox, now))
    /\ claims' = claims + 1
    /\ metrics' = Bump(metrics, {"own_zmq_send_err_total"})
    /\ Returns(-1, "NOOP")
    /\ UNCHANGED <<events, outbound, flushed, popped, direct, refused>>

PacketClaims(s, now) ==
    LET r == Claimed(RecordAt(s), LocalBox, now)
    IN  /\ mode # "DISABLED" /\ HasSlot(s)
        /\ RecordAt(s).owner_box = Unowned /\ RecordAt(s).generation < MaxGeneration
        /\ OutboundFits
        /\ Store(s, r)
        /\ claims' = claims + 1
        /\ outbound' = Append(outbound, Encode(UpdateOf(r)))
        /\ PushEvent(s, "UNOWNED_CLAIM", {})
        /\ Returns(0, Steered("CLAIM_EMITTED"))
        /\ UNCHANGED <<flushed, popped, direct, refused>>

OnPacket(s, now) ==
    \/ PacketDisabled(s) \/ PacketNoSlot(s)
    \/ PacketLocal(s) \/ PacketForwarded(s) \/ PacketTriggers(s)
    \/ PacketClaimFails(s, now) \/ PacketClaims(s, now)

(***************************************************************************)
(* ownership_adapter_on_remote_msg.  A frame for a subscriber the full     *)
(* table has no room for is dropped and counted nowhere.                   *)
(***************************************************************************)
Tied(c, r) == c.owner_epoch = r.owner_epoch /\ c.generation = r.generation

Verdict(c, r) ==
    IF Tied(c, r)
    THEN IF c.owner_box = r.owner_box THEN {"own_dup_drop_total"} ELSE {"own_conflict_total"}
    ELSE IF Beats(r, c) THEN {"own_stale_drop_total"} ELSE {}

MsgGarbled(f) ==
    /\ ~Decodable(f)
    /\ metrics' = Bump(metrics, {"own_zmq_recv_err_total"})
    /\ UNCHANGED <<table, events, outbound, result, claims, flushed, popped,
                   direct, refused>>

MsgNoSlot(f) ==
    /\ Decodable(f)
    /\ ~HasSlot(f.subscriber_id)
    /\ UNCHANGED <<table, events, outbound, metrics, result, claims, flushed,
                   popped, direct, refused>>

MsgApplied(f) ==
    LET r == RecordAt(f.subscriber_id)
        u == Decode(f)
    IN  /\ Decodable(f)
        /\ HasSlot(f.subscriber_id)
        /\ Store(f.subscriber_id, ApplyRemoteUpdate(r, u))
        /\ metrics' = Bump(metrics, Verdict(Announced(u), r) \cup {"own_apply_remote_total"})
        /\ UNCHANGED <<events, outbound, result, claims, flushed, popped, direct,
                       refused>>

OnRemoteMsg(f) == MsgGarbled(f) \/ MsgNoSlot(f) \/ MsgApplied(f)

(***************************************************************************)
(* The control thread's other calls: it learns that the peer is down, pops *)
(* an event, flushes what is staged (the frames go nowhere yet:            *)
(* README.md:158 leaves the connection to ZMQ to do).                      *)
(***************************************************************************)
\* Deviation: the sweep starts the record afresh.
SweptAfresh(r) == NewRecord(r.subscriber_id)

Swept(r) == [r EXCEPT !.owner_box = Unowned, !.state = "UNOWNED",
                      !.remote_packet_counter = 0]

OnPeerDown ==
    /\ table' = [i \in Slots |-> IF table[i] # Free /\ table[i].owner_box = Peer
                                 THEN Swept(table[i]) ELSE table[i]]
    /\ UNCHANGED <<events, outbound, metrics, result, claims, flushed, popped,
                   direct, refused>>

(***************************************************************************)
(* ownership_adapter_push_event called by anyone but on_packet, as the     *)
(* header offers it for integration in stages (ownership_adapter.h:88).    *)
(* It works in every mode; own_worker_events_total is on_packet's to       *)
(* count, so a direct call counts only the event it cannot place.          *)
(***************************************************************************)
PushDirectTaken(e) ==
    /\ EventFits
    /\ events' = Append(events, e)
    /\ direct' = [direct EXCEPT ![e.event_type] = @ + 1]
    /\ UNCHANGED <<table, outbound, metrics, result, claims, flushed, popped, refused>>

PushDirectRefused ==
    /\ ~EventFits
    /\ metrics' = Bump(metrics, {"own_worker_ring_drop_total"})
    /\ refused' = refused + 1
    /\ UNCHANGED <<table, events, outbound, result, claims, flushed, popped, direct>>

PushDirect(e) == PushDirectTaken(e) \/ PushDirectRefused

PopEvent ==
    /\ events # <<>>
    /\ events' = Tail(events)
    /\ popped' = [popped EXCEPT ![Head(events).event_type] = @ + 1]
    /\ UNCHANGED <<table, outbound, metrics, result, claims, flushed, direct, refused>>

FlushOutbound ==
    /\ outbound # <<>>
    /\ outbound' = <<>>
    /\ flushed' = flushed + Len(outbound)
    /\ UNCHANGED <<table, events, metrics, result, claims, popped, direct, refused>>

Next ==
    /\ calls < MaxCalls
    /\ calls' = calls + 1
    /\ UNCHANGED mode
    /\ \/ \E s \in Subscribers : \E now \in Clock : OnPacket(s, now)
       \/ \E f \in PeerFrames : OnRemoteMsg(f)
       \/ OnPeerDown
       \/ \E e \in DirectEvents : PushDirect(e)
       \/ PopEvent
       \/ FlushOutbound

Spec == Init /\ [][Next]_vars

-----------------------------------------------------------------------------
(***************************************************************************)
(* Every record in the table is the one lookup_slot finds: no subscriber   *)
(* has two slots, and no free slot lies between a record and the slot its  *)
(* id hashes to, where probing would stop (ownership_adapter.c:96-118).    *)
(***************************************************************************)
SlotsReachable ==
    \A i \in Slots : table[i] # Free =>
        LET home == table[i].subscriber_id % RecordCap
        IN  /\ \A k \in 0 .. (i - home) % RecordCap :
                   table[(home + k) % RecordCap] # Free
            /\ \A j \in Slots \ {i} :
                   table[j] # Free => table[j].subscriber_id # table[i].subscriber_id

(***************************************************************************)
(* No claim goes missing unnoticed: each was flushed, is staged, or is     *)
(* counted as a send error, although the record does not show which        *)
(* (ownership_adapter.c:67-77, subown.c:155).                              *)
(***************************************************************************)
ClaimsAccounted ==
    claims = flushed + Len(outbound) + metrics.own_zmq_send_err_total

(***************************************************************************)
(* What is staged for a subscriber leaves in the order of precedence, so   *)
(* that a peer that applies it in order drops none of it.  It is never     *)
(* ahead of the box's own record, unless a sweep has just taken away the   *)
(* peer that had beaten it by its lower id (ownership_adapter.c:302-306).  *)
(***************************************************************************)
View == [s \in Subscribers |->
            LET own == {i \in Slots : table[i] # Free /\ table[i].subscriber_id = s}
            IN  IF own = {} THEN NewRecord(s) ELSE table[CHOOSE i \in own : TRUE]]

OutboundInOrder ==
    \A i \in 1 .. Len(outbound) :
        /\ outbound[i].owner_box = LocalBox
        /\ Beats(outbound[i], View[outbound[i].subscriber_id]) =>
               /\ View[outbound[i].subscriber_id].owner_box = Unowned
               /\ Tied(outbound[i], View[outbound[i].subscriber_id])
               /\ Peer < LocalBox
        /\ \A j \in i + 1 .. Len(outbound) :
               outbound[j].subscriber_id = outbound[i].subscriber_id =>
                   Beats(outbound[j], outbound[i])

(***************************************************************************)
(* No event goes missing unnoticed, whoever pushed it.  Take away what     *)
(* direct calls put in the ring, and own_worker_events_total counts the    *)
(* events popped or waiting; every direct call the ring refused, every     *)
(* migration trigger and every announced claim that left no event is       *)
(* among the counted drops (ownership_adapter.c:193-213, 323-341).         *)
(***************************************************************************)
Seen(t) == popped[t] + Cardinality({i \in 1 .. Len(events) : events[i].event_type = t})

FromPackets(t) == Seen(t) - direct[t]

EventsAccounted ==
    /\ metrics.own_worker_events_total =
           FromPackets("MISROUTE") + FromPackets("UNOWNED_CLAIM")
               + FromPackets("MIGRATION_HINT")
    /\ metrics.own_worker_ring_drop_total >=
           refused + (metrics.own_migration_trigger_total - FromPackets("MIGRATION_HINT"))
               + (claims - metrics.own_zmq_send_err_total - FromPackets("UNOWNED_CLAIM"))

(***************************************************************************)
(* The table is invisible: collisions, wrap-around and a full table never  *)
(* make one subscriber's packet, frame or claim change another's record,   *)
(* and what changes is what the library makes of the subscriber's own.     *)
(***************************************************************************)
RecordsOf == INSTANCE RecordStore WITH
                 Threshold <- MigrationThreshold,
                 Births <- [s \in Subscribers |-> NewRecord(s)],
                 store <- View

ImplementsStore == RecordsOf!StoreSpec
=============================================================================
