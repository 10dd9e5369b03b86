-------------------------- MODULE ReplicationFaults --------------------------
(***************************************************************************)
(* Replication when things go wrong: the emitter refuses a claim, the      *)
(* transport loses a frame, a box is told its peer is down (rightly or     *)
(* not), a box restarts and forgets everything.  `Faults' selects which    *)
(* of them may happen, so that a run asks what one of them can break.      *)
(* The library has no retransmission, no acknowledgement and no            *)
(* anti-entropy: what a fault drops, only a stronger claim repairs, and    *)
(* a box that holds the subscriber already cannot make one.                *)
(***************************************************************************)
EXTENDS Replication

CONSTANTS
    Faults,        \* subset of FaultKinds
    MaxRestarts    \* bound: restarts of either box

FaultKinds == {"emit", "loss", "peer_down", "restart_same", "restart_later"}

ASSUME FaultsAssumption == Faults \subseteq FaultKinds /\ MaxRestarts \in Nat

VARIABLES
    gaps,      \* gaps[b]: claims a fault kept from box b, or made it forget (history)
    restarts,  \* restarts so far
    reused     \* a box has restarted under an epoch not later than
               \* those in use (history)

faultVars == <<rec, sent, inflight, misroutes, gaps, restarts, reused>>

Claims == [owner_epoch   : Nat,
           generation    : Generations,
           owner_box     : Boxes,
           activation_ts : Nat]

FaultsTypeOK ==
    /\ TypeOK
    /\ gaps \in [Boxes -> SUBSET Claims]
    /\ restarts \in 0 .. MaxRestarts
    /\ reused \in BOOLEAN

FaultsInit ==
    /\ Init
    /\ gaps = [b \in Boxes |-> {}]
    /\ restarts = 0
    /\ reused = FALSE

(***************************************************************************)
(* The emitter fails (zmq_send would block, the outbound ring is full):    *)
(* subown_claim_local has changed the record by then, and returns          *)
(* SUBOWN_ERR_CALLBACK_FAILED without undoing it.                          *)
(***************************************************************************)
EmitFails(b, now) ==
    /\ "emit" \in Faults
    /\ ~HoldsLocally(rec[b], b)
    /\ TakeOver(b, now)
    /\ gaps' = [gaps EXCEPT ![Other(b)] = @ \cup {Replicated(rec'[b])}]
    /\ UNCHANGED <<sent, inflight, restarts, reused>>

Lose(b, f) ==
    /\ "loss" \in Faults
    /\ f \in inflight[b]
    /\ inflight' = [inflight EXCEPT ![b] = @ \ {f}]
    /\ gaps' = [gaps EXCEPT ![b] = @ \cup {Replicated(f)}]
    /\ UNCHANGED <<rec, sent, misroutes, restarts, reused>>

(***************************************************************************)
(* ownership_adapter_on_peer_down: whatever the peer owned is unowned,     *)
(* under the epoch and generation of the peer's own claim.  The adapter    *)
(* does not tell anyone, and the caller's verdict may be wrong.            *)
(***************************************************************************)
\* Deviation: the sweep takes away whatever has an owner.
PeerDownAnyOwner(b) ==
    /\ "peer_down" \in Faults
    /\ rec[b].owner_box # Unowned
    /\ rec' = [rec EXCEPT ![b] = [@ EXCEPT !.owner_box = Unowned,
                                           !.state = "UNOWNED",
                                           !.remote_packet_counter = 0]]
    /\ misroutes' = [misroutes EXCEPT ![b] = 0]
    /\ gaps' = [gaps EXCEPT ![b] = @ \cup {Replicated(rec[b])}]
    /\ UNCHANGED <<sent, inflight, restarts, reused>>

PeerDown(b) ==
    /\ "peer_down" \in Faults
    /\ rec[b].owner_box = Other(b)
    /\ rec' = [rec EXCEPT ![b] = [@ EXCEPT !.owner_box = Unowned,
                                           !.state = "UNOWNED",
                                           !.remote_packet_counter = 0]]
    /\ misroutes' = [misroutes EXCEPT ![b] = 0]
    /\ gaps' = [gaps EXCEPT ![b] = @ \cup {Replicated(rec[b])}]
    /\ UNCHANGED <<sent, inflight, restarts, reused>>

(***************************************************************************)
(* A box restarts: records are in memory only.  It comes back under an     *)
(* epoch it started with (the adapter's is always 1) or under one later    *)
(* than any in use (the simulator's --owner-epoch).  Frames on their way   *)
(* to it may or may not outlive the connection.                            *)
(***************************************************************************)
EpochsInUse == {rec[b].owner_epoch : b \in Boxes}

RestartEpochs ==
    (IF "restart_same" \in Faults THEN StartEpochs ELSE {})
        \cup (IF "restart_later" \in Faults
              THEN {1 + CHOOSE e \in EpochsInUse : \A d \in EpochsInUse : d <= e}
              ELSE {})

Restart(b, epoch) ==
    /\ restarts < MaxRestarts
    /\ restarts' = restarts + 1
    /\ reused' = (reused \/ \E e \in EpochsInUse : epoch <= e)
    /\ rec' = [rec EXCEPT ![b] = FreshRecord(epoch)]
    /\ misroutes' = [misroutes EXCEPT ![b] = 0]
    /\ \E kept \in SUBSET inflight[b] : inflight' = [inflight EXCEPT ![b] = kept]
    /\ gaps' = [gaps EXCEPT ![b] =
                   @ \cup {Replicated(f) : f \in sent[b] \cup sent[Other(b)]}]
    /\ UNCHANGED sent

NoFault == Next /\ UNCHANGED <<gaps, restarts, reused>>

FaultsNext ==
    \/ NoFault
    \/ \E b \in Boxes :
          \/ \E now \in Clock : EmitFails(b, now)
          \/ \E f \in inflight[b] : Lose(b, f)
          \/ PeerDown(b)
          \/ \E epoch \in RestartEpochs : Restart(b, epoch)

FaultsSpec == FaultsInit /\ [][FaultsNext]_faultVars

-----------------------------------------------------------------------------
AgreeOnOwner ==
    /\ rec[0].owner_epoch = rec[1].owner_epoch
    /\ rec[0].generation = rec[1].generation
    /\ rec[0].owner_box = rec[1].owner_box

(***************************************************************************)
(* Disagreement always has a cause: with nothing in flight, boxes that do  *)
(* not agree on the owner include one that a fault deprived of a claim it  *)
(* would still adopt, or a newcomer of a later epoch.  A claim stronger    *)
(* than both records would settle it, but there need not be one: see       *)
(* StandingSplit.                                                          *)
(***************************************************************************)
DisagreementIsAGap ==
    Quiet =>
        \/ AgreeOnOwner
        \/ \E b \in Boxes : SilentNewcomer(b) \/ \E c \in gaps[b] : Beats(c, rec[b])

(***************************************************************************)
(* Both boxes own the subscriber, nothing is in flight, and no frame that  *)
(* either of them ever published would make the other yield.  It takes two *)
(* claims, the stronger of which was never emitted: subown_claim_local has *)
(* set the record to LOCAL by the time the emitter refuses the update      *)
(* (subown.c:136-157).                                                     *)
(***************************************************************************)
StandingSplit ==
    /\ Quiet
    /\ \A b \in Boxes :
          /\ HoldsLocally(rec[b], b)
          /\ \A f \in sent[Other(b)] : ~Beats(f, rec[b])

(***************************************************************************)
(* Such a split is for good.  Both boxes only refresh when they claim      *)
(* (subown.c:129-134), so neither ever publishes again; a repeated frame   *)
(* changes nothing; and a peer-down verdict finds no record of the peer's. *)
(* Only a restart ends it.                                                 *)
(***************************************************************************)
StandingSplitStays ==
    [][StandingSplit => StandingSplit' \/ restarts' > restarts]_faultVars

(***************************************************************************)
(* The two boxes never each take the other for the owner: a subscriber's   *)
(* packets are not forwarded to and fro (subown.c:189-200 on both boxes).  *)
(***************************************************************************)
NoForwardingLoop == ~\A b \in Boxes : rec[b].owner_box = Other(b)

(* A forwarding loop does not outlast the frames in flight: Tasks.md:71,   *)
(* "`owner_epoch` prevents stale peer resurrection after                   *)
(* restart/split-brain".                                                   *)
NoStandingLoop == Quiet => NoForwardingLoop

(***************************************************************************)
(* As long as every restarted box takes a later epoch, a forwarded packet  *)
(* goes to the owner, or to a box that has restarted since and will claim  *)
(* it under its new epoch, whatever else fails.                            *)
(***************************************************************************)
ForwardTargetOwnsOrRestarted ==
    \A b \in Boxes : ~reused /\ rec[b].owner_box = Other(b) =>
        \/ HoldsLocally(rec[Other(b)], Other(b)) /\ Agree
        \/ rec[Other(b)].owner_epoch > rec[b].owner_epoch

(***************************************************************************)
(* Whoever a box takes for the remote owner did claim the subscriber       *)
(* under that epoch and generation: no fault makes up an owner.            *)
(***************************************************************************)
RemoteOwnerClaimed ==
    \A b \in Boxes : rec[b].owner_box = Other(b) =>
        \E f \in sent[Other(b)] : Replicated(f) = Replicated(rec[b])

(***************************************************************************)
(* A claim a box dropped because its owner went down does not come back by *)
(* itself (Tasks.md:71, "stale peer resurrection").                        *)
(***************************************************************************)
DownPeerStaysDown ==
    \A b \in Boxes : Replicated(rec[b]) \notin gaps[b]
=============================================================================
