---------------------------- MODULE Replication ----------------------------
(***************************************************************************)
(* Two boxes replicate the ownership of one subscriber: each keeps a       *)
(* record, changes it through the library (module Subown) when it claims,  *)
(* sees a packet or receives a frame, and publishes every claim it makes   *)
(* to the other box (module SubownWire).  Nothing else is shared.  The     *)
(* records of different subscribers never touch, so one is enough.         *)
(*                                                                         *)
(* The transport delays, reorders and duplicates frames but loses none;    *)
(* boxes do not fail, and the emitter always accepts a claim.  Those       *)
(* faults are in ReplicationFaults.                                        *)
(***************************************************************************)
EXTENDS SubownWire, FiniteSets

CONSTANTS
    Subscriber,          \* the subscriber's id
    StartEpochs,         \* the owner_epochs a box may be started under
    MigrationThreshold,  \* misrouted packets before a migration is asked for; 0: never
    Clock,               \* the times a claim may be stamped with
    MaxGeneration,       \* bound: no claim from a record at this generation
    MaxMisroutes         \* bound: misrouted packets a box counts per ownership

ASSUME StartEpochsAssumption == StartEpochs \subseteq Nat
ASSUME ThresholdAssumption == MigrationThreshold \in Nat
ASSUME ClockAssumption == Clock \subseteq Nat
ASSUME BoundsAssumption == MaxGeneration \in Nat /\ MaxMisroutes \in Nat

VARIABLES
    rec,        \* rec[b]: box b's record of the subscriber
    sent,       \* sent[b]: every frame box b has published (history)
    inflight,   \* inflight[b]: frames on their way to box b for the first time
    misroutes   \* misroutes[b]: packets box b sent on to the owner since it
                \* last changed its mind about who that is (history)

vars == <<rec, sent, inflight, misroutes>>

Records == [subscriber_id : {Subscriber},
            owner_epoch   : Nat,
            generation    : Generations,
            owner_box     : Owners,
            activation_ts : Nat,
            remote_packet_counter : Nat,
            state         : OwnershipState]

\* A published frame always names its sender, never "nobody".
Frames == [header        : {"V1"},
           subscriber_id : {Subscriber},
           generation    : Generations,
           owner_box     : Boxes,
           activation_ts : Nat,
           owner_epoch   : Nat]

TypeOK ==
    /\ rec \in [Boxes -> Records]
    /\ sent \in [Boxes -> SUBSET Frames]
    /\ inflight \in [Boxes -> SUBSET Frames]
    /\ misroutes \in [Boxes -> Nat]

(***************************************************************************)
(* A record is born unowned, at generation 0 (lookup_slot).                *)
(***************************************************************************)
\* Deviation: the owner of a new record is the simulator's UINT16_MAX.
FreshRecordNoOwner(epoch) ==
    [subscriber_id |-> Subscriber, owner_epoch |-> epoch, generation |-> 0,
     owner_box |-> 65535, activation_ts |-> 0, remote_packet_counter |-> 0,
     state |-> "UNOWNED"]

FreshRecord(epoch) ==
    [subscriber_id |-> Subscriber,
     owner_epoch   |-> epoch,
     generation    |-> 0,
     owner_box     |-> Unowned,
     activation_ts |-> 0,
     remote_packet_counter |-> 0,
     state         |-> "UNOWNED"]

Init ==
    /\ rec \in [Boxes -> {FreshRecord(e) : e \in StartEpochs}]
    /\ sent = [b \in Boxes |-> {}]
    /\ inflight = [b \in Boxes |-> {}]
    /\ misroutes = [b \in Boxes |-> 0]

-----------------------------------------------------------------------------
(***************************************************************************)
(* Claims.  subown_claim_local changes nothing that is modelled when the   *)
(* box holds the subscriber already (LOCAL_REFRESH); otherwise it takes    *)
(* the record over and hands the update to the emitter, which encodes and  *)
(* publishes it.                                                           *)
(***************************************************************************)
TakeOver(b, now) ==
    /\ rec[b].generation < MaxGeneration
    /\ rec' = [rec EXCEPT ![b] = Claimed(@, b, now)]
    /\ misroutes' = [misroutes EXCEPT ![b] = 0]

Publish(b) ==
    LET f == Encode(UpdateOf(rec'[b]))
    IN  /\ sent' = [sent EXCEPT ![b] = @ \cup {f}]
        /\ inflight' = [inflight EXCEPT ![Other(b)] = @ \cup {f}]

Claim(b, now) ==
    /\ ~HoldsLocally(rec[b], b)
    /\ TakeOver(b, now)
    /\ Publish(b)

(***************************************************************************)
(* Packets (subown_process_packet_event).  The packet of a box that owns   *)
(* the subscriber is processed in place and changes nothing modelled.      *)
(***************************************************************************)
\* Deviation: the first packet's claim is not emitted.
PacketClaimsSilently(b, now) ==
    /\ rec[b].owner_box = Unowned
    /\ TakeOver(b, now)
    /\ UNCHANGED <<sent, inflight>>

PacketClaims(b, now) ==
    /\ rec[b].owner_box = Unowned
    /\ TakeOver(b, now)
    /\ Publish(b)

PacketMisrouted(b) ==
    /\ rec[b].owner_box = Other(b)
    /\ misroutes[b] < MaxMisroutes
    /\ rec' = [rec EXCEPT ![b] = Misrouted(@, MigrationThreshold)]
    /\ misroutes' = [misroutes EXCEPT ![b] = @ + 1]
    /\ UNCHANGED <<sent, inflight>>

(***************************************************************************)
(* Frames.  Deliver is a frame's first arrival at the other box, Redeliver *)
(* any later or repeated one.                                              *)
(***************************************************************************)
Received(r, f) == IF Decodable(f) THEN ApplyRemoteUpdate(r, Decode(f)) ELSE r

Receive(b, f) ==
    /\ rec' = [rec EXCEPT ![b] = Received(@, f)]
    /\ misroutes' = [misroutes EXCEPT ![b] =
                        IF Replicated(rec'[b]) = Replicated(rec[b]) THEN @ ELSE 0]

Deliver(b, f) ==
    /\ f \in inflight[b]
    /\ Receive(b, f)
    /\ inflight' = [inflight EXCEPT ![b] = @ \ {f}]
    /\ UNCHANGED sent

Redeliver(b, f) ==
    /\ f \in sent[Other(b)]
    /\ Receive(b, f)
    /\ UNCHANGED <<sent, inflight>>

Next ==
    \E b \in Boxes :
        \/ \E now \in Clock : Claim(b, now) \/ PacketClaims(b, now)
        \/ PacketMisrouted(b)
        \/ \E f \in inflight[b] : Deliver(b, f)
        \/ \E f \in sent[Other(b)] : Redeliver(b, f)

Spec == Init /\ [][Next]_vars

(***************************************************************************)
(* A receiver drains whatever has arrived (the loop of sim/box_sim.c, the  *)
(* control thread of ownership_adapter.md), so a frame that stays on its   *)
(* way is delivered.  Nothing obliges a box to claim or to see a packet.   *)
(***************************************************************************)
Fairness == \A b \in Boxes : WF_vars(\E f \in inflight[b] : Deliver(b, f))

FairSpec == Spec /\ Fairness

-----------------------------------------------------------------------------
Quiet == \A b \in Boxes : inflight[b] = {}

Agree == Replicated(rec[0]) = Replicated(rec[1])

\* Box b was started under a later epoch than anything its peer has heard of
\* and has not claimed yet: it drops all the peer says as stale.
SilentNewcomer(b) ==
    /\ rec[b].owner_box = Unowned
    /\ rec[b].owner_epoch > rec[Other(b)].owner_epoch

(***************************************************************************)
(* Once every frame has arrived, in whatever order and however often, the  *)
(* boxes hold the same claim: epoch, generation, owner and activation      *)
(* time.  The one exception is a box started under a later epoch that has  *)
(* yet to claim.  (subown_apply_remote_update, the rules at subown.c:51,   *)
(* 72 and 98: last-writer-wins only if no two claims tie.)                 *)
(***************************************************************************)
QuiescentAgreement == Quiet => Agree \/ \E b \in Boxes : SilentNewcomer(b)

(***************************************************************************)
(* A box that forwards packets to its peer (FORWARD_REMOTE, subown.c:197)  *)
(* forwards them to a box that holds the subscriber locally, under the     *)
(* very claim the forwarder believes: never to a box that would forward    *)
(* them back.  True in every state, not only in quiet ones.                *)
(***************************************************************************)
ForwardTargetOwns ==
    \A b \in Boxes : rec[b].owner_box = Other(b) =>
        HoldsLocally(rec[Other(b)], Other(b)) /\ Agree

(***************************************************************************)
(* Both boxes may process a subscriber locally at once (two concurrent     *)
(* claims), but only while a stronger claim is on its way to the one that  *)
(* will yield: a split brain always has the frame that ends it in flight.  *)
(***************************************************************************)
SplitBrainIsEnding ==
    (\A b \in Boxes : HoldsLocally(rec[b], b)) =>
        \E b \in Boxes : \E f \in inflight[b] : Beats(f, rec[b])

(***************************************************************************)
(* remote_packet_counter counts the packets misrouted under the present    *)
(* ownership only, although subown_apply_remote_update installs a new      *)
(* owner without clearing it: packets counted against one owner never      *)
(* bring a migration away from the next one nearer (subown.c:190).         *)
(***************************************************************************)
CounterCountsThisOwnership ==
    \A b \in Boxes :
        rec[b].remote_packet_counter =
            IF MigrationThreshold = 0 THEN misroutes[b]
            ELSE misroutes[b] % (MigrationThreshold + 1)

(***************************************************************************)
(* The generation a box accepts never decreases within an epoch, and the   *)
(* epoch never decreases.  A later epoch may bring a lower generation      *)
(* (subown.c:51-58).                                                       *)
(***************************************************************************)
GenerationNeverDrops ==
    [][\A b \in Boxes :
          /\ rec'[b].owner_epoch >= rec[b].owner_epoch
          /\ rec'[b].owner_epoch = rec[b].owner_epoch =>
                rec'[b].generation >= rec[b].generation]_vars

(***************************************************************************)
(* Every published claim takes effect at the peer or is overtaken there by *)
(* a stronger one: no claim is lost on a transport that loses no frame.    *)
(***************************************************************************)
ClaimsReachPeer ==
    \A b \in Boxes : \A g \in 1 .. MaxGeneration :
        (\E f \in sent[b] : f.generation = g)
            ~> \A f \in sent[b] : f.generation = g => ~Beats(f, rec[Other(b)])

(***************************************************************************)
(* When the boxes stop claiming (here: at the bound MaxGeneration) they    *)
(* come to agree for good.                                                 *)
(***************************************************************************)
EventualAgreement == <>[](Agree \/ \E b \in Boxes : SilentNewcomer(b))
=============================================================================
