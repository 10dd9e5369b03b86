--------------------------- MODULE AccessInvariant ---------------------------
(***************************************************************************)
(* Why calls on one record that overlap look like calls one after the      *)
(* other: the inductive invariant behind RecordAccess.  Outcome is what    *)
(* the record will be once both calls under way have ended; the invariant  *)
(* says that some order of the calls leads there, at every step.           *)
(***************************************************************************)
EXTENDS RecordAccess

\* Record r once the writes w have reached it.
Over(r, w) == [f \in Fields |-> IF f \in DOMAIN w THEN w[f] ELSE r[f]]

AfterWorker(r, call) ==
    CASE call.at = "count" -> Misrouted(r, MigrationThreshold)
      [] call.at = "claim" -> Claimed(r, LocalBox, 1)
      [] OTHER             -> Over(r, call.writes)

AfterControl(r, call) ==
    IF call.at \in {"generation", "owner"} THEN OnControl(r, call) ELSE Over(r, call.writes)

Outcome == AfterControl(AfterWorker(rec, worker), control)

(***************************************************************************)
(* Which fields a call may still write, and that all have their types.     *)
(***************************************************************************)
IsRecord(r) == DOMAIN r = Fields /\ r = [f \in Fields |-> r[f]] /\ WellTyped(r)

IsClaim(c) == /\ c.owner_epoch \in Nat /\ c.generation \in Generations
              /\ c.owner_box \in Owners /\ c.activation_ts \in Nat

WorkerFits(call) ==
    /\ call = [at |-> call.at, writes |-> call.writes] /\ WellTyped(call.writes)
    /\ \/ call.at \in {"idle", "count", "claim"} /\ DOMAIN call.writes = {}
       \/ call.at = "counted" /\ DOMAIN call.writes = {"remote_packet_counter"}
       \/ call.at = "claimed" /\ DOMAIN call.writes \subseteq Fields \ {"owner_epoch"}

ControlFits(call) ==
    /\ call = [at |-> call.at, claim |-> call.claim, writes |-> call.writes]
    /\ IsClaim(call.claim) /\ WellTyped(call.writes)
    /\ \/ call.at \in {"idle", "generation", "owner"} /\ DOMAIN call.writes = {}
       \/ call.at = "adopt" /\ DOMAIN call.writes \subseteq Fields \ {"remote_packet_counter"}
       \/ /\ call.at = "sweep"
          /\ DOMAIN call.writes \subseteq {"owner_box", "state", "remote_packet_counter"}

WritesFit ==
    /\ AccessTypeOK
    /\ IsRecord(rec) /\ WorkerFits(worker) /\ ControlFits(control)

(***************************************************************************)
(* What a call has read is still so, as long as nothing clashes.           *)
(***************************************************************************)
Quiet == ~raced /\ ~Clash

ControlReadingsHold ==
    /\ control.at \in {"generation", "owner"} => control.claim.owner_epoch = rec.owner_epoch
    /\ control.at = "owner" => control.claim.generation = rec.generation

(***************************************************************************)
(* Some order of the calls leads to the outcome.  And while the control    *)
(* thread may still replace the peer as the owner, the calls so far could  *)
(* have left a record of the peer's on which its message comes last: a     *)
(* packet that is counted now was then there first.                        *)
(***************************************************************************)
Case(r, packet, message) == [record |-> r, packet |-> packet, message |-> message]
Done(r) == Case(r, FALSE, FALSE)
MessageAwaits(r) == Case(r, FALSE, TRUE)

MayReplaceOwner ==
    \/ control.at \in {"generation", "owner"}
    \/ control.at = "adopt" /\ "owner_box" \in DOMAIN control.writes

OutcomeIsSerial == Done(Outcome) \in serial

PacketMayComeFirst ==
    MayReplaceOwner /\ rec.owner_box = Peer =>
        \E m \in serial :
            /\ m = MessageAwaits(m.record)
            /\ IsRecord(m.record) /\ m.record.owner_box = Peer
            /\ OnControl(m.record, control) = Outcome

SerialInv ==
    /\ WritesFit
    /\ Quiet => ControlReadingsHold /\ OutcomeIsSerial /\ PacketMayComeFirst

(***************************************************************************)
(* The claim announced is this box's own, and the record it was made on is *)
(* not behind it, nor will be when the control thread's call has ended.    *)
(***************************************************************************)
Ahead(c, r) ==
    \/ c.owner_epoch > r.owner_epoch
    \/ c.owner_epoch = r.owner_epoch /\ c.generation > r.generation

ClaimReadingsHold ==
    /\ worker.at = "claim" => rec.generation < MaxGeneration
    /\ worker.at = "claimed" =>
           /\ Outcome.owner_box = LocalBox /\ Outcome.activation_ts = 1
           /\ Outcome.generation >= rec.generation

AnnouncedIsOwn ==
    announced # Replicated(FreshRecord) =>
        announced.owner_box = LocalBox /\ announced.activation_ts = 1

AnnouncedIsCovered ==
    announced # Replicated(FreshRecord) => ~Ahead(announced, AfterControl(rec, control))

AnnounceInv ==
    /\ announced = Replicated(announced) /\ IsClaim(announced)
    /\ ~raced => AnnouncedIsOwn
    /\ Quiet => ClaimReadingsHold /\ AnnouncedIsCovered

AccessInv == SerialInv /\ AnnounceInv
=============================================================================
