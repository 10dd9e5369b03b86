---------------------------- MODULE RecordAccess ----------------------------
(***************************************************************************)
(* One record of the adapter's table, used by two threads without a lock,  *)
(* field by field: a worker in ownership_adapter_on_packet and the control *)
(* thread in ownership_adapter_on_remote_msg and _on_peer_down, as         *)
(* ownership_adapter.md:16-38 divides the calls.  OwnershipAdapter takes   *)
(* each call as one step; this module shows when that is right.            *)
(*                                                                         *)
(* A call reads the fields it decides on one after the other, each once as *)
(* an optimised build does.  What it then writes reaches the record one    *)
(* field at a time, in any order: the stores are plain.  A packet of a     *)
(* subscriber the box owns writes nothing modelled and is left out.        *)
(***************************************************************************)
EXTENDS Subown

CONSTANTS
    LocalBox,            \* cfg.local_box_id
    MigrationThreshold,  \* cfg.migration_threshold
    PeerClaims,          \* the claims the peer's frames carry
    MaxGeneration        \* bound: no claim from a record at this generation

ASSUME LocalBoxAssumption == LocalBox \in Boxes
ASSUME BoundsAssumption == MigrationThreshold \in Nat /\ MaxGeneration \in Nat
ASSUME PeerClaimsAssumption ==
    \A c \in PeerClaims : /\ c.owner_epoch \in Nat /\ c.generation \in Generations
                          /\ c.owner_box \in Owners /\ c.activation_ts \in Nat

VARIABLES
    rec,        \* the record
    worker,     \* the worker's call: where it is, and what it has still to write
    control,    \* the control thread's, and the claim it is applying
    announced,  \* what the worker's last claim handed to the emitter
    serial,     \* what the record could be if each call so far, and any of
                \* those under way, were one step (history)
    raced       \* calls that do not commute were under way at once (history)

vars == <<rec, worker, control, announced, serial, raced>>

Peer == Other(LocalBox)

Counts == IF MigrationThreshold = 0 THEN Nat ELSE 0 .. MigrationThreshold

FieldTypes ==
    [owner_epoch |-> Nat, generation |-> Generations, owner_box |-> Owners,
     activation_ts |-> Nat, state |-> OwnershipState,
     remote_packet_counter |-> Counts]

Fields == DOMAIN FieldTypes

FreshRecord ==
    [owner_epoch |-> 1, generation |-> 0, owner_box |-> Unowned, activation_ts |-> 0,
     remote_packet_counter |-> 0, state |-> "UNOWNED"]

Nothing == [f \in {} |-> 0]
IdleWorker  == [at |-> "idle", writes |-> Nothing]
IdleControl == [at |-> "idle", claim |-> Replicated(FreshRecord), writes |-> Nothing]

\* Some fields and their values: a whole record, or writes on their way to it.
WellTyped(r) == DOMAIN r \subseteq Fields /\ \A f \in DOMAIN r : r[f] \in FieldTypes[f]

AccessTypeOK ==
    /\ DOMAIN rec = Fields /\ WellTyped(rec)
    /\ worker.at \in {"idle", "count", "counted", "claim", "claimed"}
    /\ control.at \in {"idle", "generation", "owner", "adopt", "sweep"}
    /\ WellTyped(worker.writes) /\ WellTyped(control.writes)
    /\ raced \in BOOLEAN

Init ==
    /\ rec = FreshRecord
    /\ worker = IdleWorker /\ control = IdleControl
    /\ announced = Replicated(FreshRecord)
    /\ serial = {[record |-> FreshRecord, packet |-> FALSE, message |-> FALSE]}
    /\ raced = FALSE

-----------------------------------------------------------------------------
(***************************************************************************)
(* The calls as single steps, and the records they can lead to: in a member*)
(* of `serial', `packet' and `message' say that the worker's and the       *)
(* control thread's call under way is still to take effect.                *)
(***************************************************************************)
Swept(r) == [r EXCEPT !.owner_box = Unowned, !.state = "UNOWNED",
                      !.remote_packet_counter = 0]

OnPacket(r) ==
    CASE r.owner_box = Peer    -> Misrouted(r, MigrationThreshold)
      [] r.owner_box = Unowned -> Claimed(r, LocalBox, 1)
      [] OTHER                 -> r

OnControl(r, call) ==
    CASE call.at = "sweep" /\ r.owner_box = Peer    -> Swept(r)
      [] call.at # "sweep" /\ Beats(call.claim, r) -> Adopt(r, call.claim)
      [] OTHER                                     -> r

WithPacket(S) ==
    S \cup {[s EXCEPT !.record = OnPacket(@), !.packet = FALSE] : s \in {t \in S : t.packet}}
WithControl(S, call) ==
    S \cup {[s EXCEPT !.record = OnControl(@, call), !.message = FALSE] :
               s \in {t \in S : t.message}}

\* Either call first.
Orders(S, call) == WithPacket(WithControl(S, call)) \cup WithControl(WithPacket(S), call)

\* Calls under way that do not commute: a claim with any call of the control
\* thread, a count with a sweep.
Clash ==
    \/ worker.at \in {"claim", "claimed"} /\ control.at # "idle"
    \/ worker.at \in {"count", "counted"} /\ control.at = "sweep"

Races == raced' = (raced \/ Clash)

\* After a race there is nothing left to compare with.
Becomes(S) == serial' = IF raced' THEN {} ELSE S

PacketStarts == Becomes(Orders({[s EXCEPT !.packet = TRUE] : s \in serial}, control))
PacketEnds == Becomes({s \in serial : ~s.packet})

ControlStarts == Becomes(Orders({[s EXCEPT !.message = TRUE] : s \in serial}, control'))
ControlEnds == Becomes({s \in serial : ~s.message})

(***************************************************************************)
(* A step of one thread: what the call does next, and nothing else.        *)
(***************************************************************************)
WorkerGoes(at, writes) ==
    /\ Races
    /\ worker' = [at |-> at, writes |-> writes]
    /\ UNCHANGED <<rec, control, announced>>

ControlGoes(at, claim, writes) ==
    /\ Races
    /\ control' = [at |-> at, claim |-> claim, writes |-> writes]
    /\ UNCHANGED <<rec, worker, announced>>

ControlReturns == Races /\ control' = IdleControl /\ UNCHANGED <<rec, worker, announced>>

\* The fields of r a call is about to write.
Values(r, fields) == [f \in fields |-> r[f]]

(***************************************************************************)
(* on_packet: subown_process_packet_event reads the owner, then counts the *)
(* packet against the peer or claims.                                      *)
(***************************************************************************)
PacketReadsOwner ==
    /\ worker.at = "idle"
    /\ \/ rec.owner_box = Peer /\ WorkerGoes("count", Nothing)
       \/ /\ rec.owner_box = Unowned /\ rec.generation < MaxGeneration
          /\ WorkerGoes("claim", Nothing)
    /\ PacketStarts

PacketCounts ==
    /\ worker.at = "count"
    /\ WorkerGoes("counted",
                  Values(Misrouted(rec, MigrationThreshold), {"remote_packet_counter"}))
    /\ UNCHANGED serial

\* claim_local looks again whether the box holds the record; no one else
\* makes it LOCAL.
PacketClaims ==
    /\ worker.at = "claim"
    /\ WorkerGoes("claimed", Values(Claimed(rec, LocalBox, 1), Fields \ {"owner_epoch"}))
    /\ UNCHANGED serial

(***************************************************************************)
(* on_remote_msg: subown_apply_remote_update compares the epoch, then the  *)
(* generation, then the owner, and writes on the first that wins.          *)
(***************************************************************************)
MessageReadsEpoch(c) ==
    /\ control.at = "idle"
    /\ \/ /\ c.owner_epoch > rec.owner_epoch
          /\ ControlGoes("adopt", c, Values(Adopt(rec, c), Fields \ {"remote_packet_counter"}))
          /\ ControlStarts
       \/ /\ c.owner_epoch = rec.owner_epoch
          /\ ControlGoes("generation", c, Nothing) /\ ControlStarts
       \/ c.owner_epoch < rec.owner_epoch /\ UNCHANGED vars

MessageReadsGeneration ==
    LET c == control.claim
    IN  /\ control.at = "generation"
        /\ \/ /\ c.generation > rec.generation
              /\ ControlGoes("adopt", c,
                     Values(Adopt(rec, c), {"owner_box", "generation", "activation_ts", "state"}))
              /\ UNCHANGED serial
           \/ c.generation = rec.generation /\ ControlGoes("owner", c, Nothing) /\ UNCHANGED serial
           \/ c.generation < rec.generation /\ ControlReturns /\ ControlEnds

\* Deviation: winning a tie leaves the state as it was.
TieWritesNoState == {"owner_box", "activation_ts"}

TieWrites == {"owner_box", "activation_ts", "state"}

MessageReadsOwner ==
    LET c == control.claim
    IN  /\ control.at = "owner"
        /\ \/ /\ c.owner_box < rec.owner_box
              /\ ControlGoes("adopt", c, Values(Adopt(rec, c), TieWrites))
              /\ UNCHANGED serial
           \/ c.owner_box >= rec.owner_box /\ ControlReturns /\ ControlEnds

\* on_peer_down, for this record.
SweepReadsOwner ==
    /\ control.at = "idle"
    /\ rec.owner_box = Peer
    /\ ControlGoes("sweep", Replicated(rec),
                   Values(Swept(rec), {"owner_box", "state", "remote_packet_counter"}))
    /\ ControlStarts

(***************************************************************************)
(* A write reaches the record; the last one ends the call.  A claim then   *)
(* builds its update from the record and hands it to the emitter.          *)
(***************************************************************************)
Remaining(writes, f) == [g \in DOMAIN writes \ {f} |-> writes[g]]

\* Deviation: the update is built before the last write.
AnnouncesOld == announced' = Replicated(rec)

Announces == announced' = Replicated(rec')

WorkerWrites == \E f \in DOMAIN worker.writes :
    LET rest == Remaining(worker.writes, f)
    IN  /\ Races
        /\ rec' = [rec EXCEPT ![f] = worker.writes[f]]
        /\ IF DOMAIN rest = {}
           THEN /\ worker' = IdleWorker /\ PacketEnds
                /\ IF worker.at = "claimed" THEN Announces ELSE UNCHANGED announced
           ELSE worker' = [worker EXCEPT !.writes = rest] /\ UNCHANGED <<announced, serial>>
        /\ UNCHANGED control

ControlWrites == \E f \in DOMAIN control.writes :
    LET rest == Remaining(control.writes, f)
    IN  /\ Races
        /\ rec' = [rec EXCEPT ![f] = control.writes[f]]
        /\ IF DOMAIN rest = {}
           THEN control' = IdleControl /\ ControlEnds
           ELSE control' = [control EXCEPT !.writes = rest] /\ UNCHANGED serial
        /\ UNCHANGED <<worker, announced>>

Next ==
    \/ PacketReadsOwner \/ PacketCounts \/ PacketClaims \/ WorkerWrites
    \/ \E c \in PeerClaims : MessageReadsEpoch(c)
    \/ MessageReadsGeneration \/ MessageReadsOwner \/ SweepReadsOwner \/ ControlWrites

Spec == Init /\ [][Next]_vars

-----------------------------------------------------------------------------
(***************************************************************************)
(* With both threads between calls the record is one that the same calls,  *)
(* taken one after the other, could have left, unless a claim overlapped a *)
(* call of the control thread or a count overlapped a sweep.  So counting  *)
(* a packet needs no lock against a message, although the two share the    *)
(* record: this is what lets OwnershipAdapter take a call as one step, and *)
(* where a lock would be needed.                                           *)
(***************************************************************************)
SerialUnlessRaced ==
    ~raced /\ worker.at = "idle" /\ control.at = "idle"
        => rec \in {s.record : s \in serial}

(***************************************************************************)
(* The update a claim hands to the emitter names this box, under a         *)
(* generation the record never falls behind, as long as no such calls have *)
(* overlapped: the peer is told of the claim that was made, not of a record*)
(* half written.                                                           *)
(***************************************************************************)
AnnouncesOwnClaim ==
    ~raced /\ announced # Replicated(FreshRecord)
        => /\ announced.owner_box = LocalBox /\ announced.activation_ts = 1
           /\ control.at = "idle" => ~Beats([announced EXCEPT !.owner_box = rec.owner_box], rec)
=============================================================================
