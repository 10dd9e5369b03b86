------------------------------- MODULE Subown -------------------------------
(***************************************************************************)
(* The ownership core of libsubown (src/subown.c, include/subown.h) as     *)
(* operators on one ownership record.  The library keeps no state of its   *)
(* own: every entry point takes a record and changes it, so each is an     *)
(* operator from the record before the call to the record after it, and    *)
(* the modules that own records use them in their actions.                 *)
(*                                                                         *)
(* Left out of the record: owner_box_id and timestamp, which every         *)
(* assignment keeps equal to owner_box and activation_ts and which no      *)
(* function of the library reads; last_seen_ts, which is only written; and *)
(* policy_mask, an opaque word copied along with the claim.                *)
(***************************************************************************)
EXTENDS Integers

CONSTANTS
    GenerationMod   \* generation is a uint32_t: 2^32 in the code, scaled down for TLC

ASSUME GenerationModAssumption == GenerationMod \in Nat \ {0}

Boxes == {0, 1}
Unowned == 255
Owners == Boxes \cup {Unowned}

Other(b) == 1 - b

Generations == 0 .. GenerationMod - 1

OwnershipState == {"UNOWNED", "LOCAL", "REMOTE"}

(***************************************************************************)
(* What a record or an update says about ownership: the four fields that   *)
(* replication carries.  `Replicated' takes them from a record, `Announced'*)
(* from an update, through the library's normalisation of the duplicated   *)
(* owner and time fields.                                                  *)
(***************************************************************************)
Replicated(r) == [owner_epoch   |-> r.owner_epoch,
                  generation    |-> r.generation,
                  owner_box     |-> r.owner_box,
                  activation_ts |-> r.activation_ts]

NormalizeOwner(owner_box_id, owner_box) ==
    IF owner_box_id \in Owners THEN owner_box_id
    ELSE IF owner_box \in Owners THEN owner_box
    ELSE Unowned

NormalizeTs(activation_ts, timestamp) ==
    IF activation_ts # 0 THEN activation_ts ELSE timestamp

Announced(u) == [owner_epoch   |-> u.owner_epoch,
                 generation    |-> u.generation,
                 owner_box     |-> NormalizeOwner(u.owner_box_id, u.owner_box),
                 activation_ts |-> NormalizeTs(u.activation_ts, u.timestamp)]

\* Deviations of Beats that the properties must catch: no tie-break, a
\* tie-break for either owner, any other generation.
BeatsNoTieBreak(c, d) ==
    \/ c.owner_epoch > d.owner_epoch
    \/ c.owner_epoch = d.owner_epoch /\ c.generation > d.generation
BeatsOnAnyTie(c, d) ==
    \/ BeatsNoTieBreak(c, d)
    \/ /\ c.owner_epoch = d.owner_epoch
       /\ c.generation = d.generation
       /\ c.owner_box # d.owner_box
BeatsOtherGeneration(c, d) ==
    \/ c.owner_epoch > d.owner_epoch
    \/ c.owner_epoch = d.owner_epoch /\ c.generation # d.generation

(***************************************************************************)
(* Precedence: higher epoch, then higher generation, then lower box id.    *)
(* It compares whatever carries those three fields: records, claims and    *)
(* frames alike.                                                           *)
(***************************************************************************)
Beats(c, d) ==
    \/ c.owner_epoch > d.owner_epoch
    \/ /\ c.owner_epoch = d.owner_epoch
       /\ \/ c.generation > d.generation
          \/ /\ c.generation = d.generation
             /\ c.owner_box < d.owner_box

(***************************************************************************)
(* subown_apply_remote_update.  A winning update replaces the claim the    *)
(* record holds and leaves its counter alone; the state it sets depends on *)
(* the owner only through "nobody" or "somebody", even when that somebody  *)
(* is the box itself.                                                      *)
(***************************************************************************)
Valid(r, u) == u.msg_version = 1 /\ u.subscriber_id = r.subscriber_id

\* Deviations: the adopted claim's generation, or its epoch, is forgotten.
AdoptNoGeneration(r, c) ==
    [r EXCEPT !.owner_epoch = c.owner_epoch, !.owner_box = c.owner_box,
              !.activation_ts = c.activation_ts, !.state = "REMOTE"]
AdoptNoEpoch(r, c) ==
    [r EXCEPT !.generation = c.generation, !.owner_box = c.owner_box,
              !.activation_ts = c.activation_ts, !.state = "REMOTE"]

Adopt(r, c) == [r EXCEPT !.owner_epoch   = c.owner_epoch,
                         !.generation    = c.generation,
                         !.owner_box     = c.owner_box,
                         !.activation_ts = c.activation_ts,
                         !.state = IF c.owner_box = Unowned THEN "UNOWNED" ELSE "REMOTE"]

ApplyRemoteUpdate(r, u) ==
    IF Valid(r, u) /\ Beats(Announced(u), r) THEN Adopt(r, Announced(u)) ELSE r

(***************************************************************************)
(* subown_claim_local: a box that already holds the subscriber only        *)
(* refreshes last_seen_ts; any other claim takes the record over, under    *)
(* the next generation (uint32_t: it wraps), BEFORE the emitter runs.      *)
(***************************************************************************)
HoldsLocally(r, box) == r.owner_box = box /\ r.state = "LOCAL"

\* Deviations: the counter survives a claim; the generation does not move.
ClaimedKeepsCounter(r, box, now) ==
    [r EXCEPT !.owner_box = box, !.generation = (@ + 1) % GenerationMod,
              !.activation_ts = now, !.state = "LOCAL"]
ClaimedSameGeneration(r, box, now) ==
    [r EXCEPT !.owner_box = box, !.activation_ts = now,
              !.remote_packet_counter = 0, !.state = "LOCAL"]

Claimed(r, box, now) == [r EXCEPT !.owner_box     = box,
                                  !.generation    = (@ + 1) % GenerationMod,
                                  !.activation_ts = now,
                                  !.remote_packet_counter = 0,
                                  !.state         = "LOCAL"]

UpdateOf(r) == [msg_version   |-> 1,
                subscriber_id |-> r.subscriber_id,
                generation    |-> r.generation,
                owner_box     |-> r.owner_box,
                owner_box_id  |-> r.owner_box,
                activation_ts |-> r.activation_ts,
                timestamp     |-> r.activation_ts,
                owner_epoch   |-> r.owner_epoch]

(***************************************************************************)
(* subown_process_packet_event on a packet the peer owns: count it, and    *)
(* once the count exceeds a non-zero threshold ask for a migration and     *)
(* start counting again.                                                   *)
(***************************************************************************)
\* Deviation: the comparison forgets the packet in hand.
ReachesThresholdLate(r, threshold) ==
    threshold > 0 /\ r.remote_packet_counter > threshold

ReachesThreshold(r, threshold) ==
    threshold > 0 /\ r.remote_packet_counter + 1 > threshold

Misrouted(r, threshold) ==
    [r EXCEPT !.remote_packet_counter =
                 IF ReachesThreshold(r, threshold) THEN 0 ELSE @ + 1]
=============================================================================
