------------------------------- MODULE BoxSim -------------------------------
(***************************************************************************)
(* The two-box simulator (sim/box_sim.c): two processes that each run a    *)
(* loop of claim, drain, sleep for a number of iterations, one ZMQ         *)
(* connection in each direction.  A connection keeps the order of its      *)
(* frames; how long they take is open, so the drain of an iteration may    *)
(* end with frames under way.  Two faults can be switched on: a box sends  *)
(* every claim several times over (--emit-dup), or throws every n-th frame *)
(* it receives away (--drop-incoming-every).                               *)
(*                                                                         *)
(* Both boxes are subscribed before either claims; frames a late           *)
(* subscriber misses are the losses of ReplicationFaults.                  *)
(***************************************************************************)
EXTENDS SubownWire, Sequences

CONSTANTS
    Subscriber,   \* cfg.subscriber_id of both boxes
    Iterations,   \* cfg.iterations of both boxes
    BoxConfigs    \* BoxConfigs[b]: the command lines of box b

ASSUME IterationsAssumption == Iterations \in Nat
ASSUME ConfigsAssumption ==
    \A b \in Boxes : \A c \in BoxConfigs[b] :
        {c.owner_epoch, c.emit_dup_count, c.drop_incoming_every} \subseteq Nat

VARIABLES
    cfg,            \* cfg[b]: sim_cfg_t, set once
    rec,            \* rec[b]: box b's record
    iter,           \* iter[b]: the loop variable i; Iterations + 1: finished
    claimed_once,   \* claimed_once[b]
    claims_total,   \* st.claims_total
    recv_total,     \* st.recv_total
    link,           \* link[b]: frames under way to box b, in order
    orderly,        \* every claim was made with nothing under way (history)
    claimant        \* the box that claimed last (history)

vars == <<cfg, rec, iter, claimed_once, claims_total, recv_total, link, orderly, claimant>>

Records == [subscriber_id : {Subscriber}, owner_epoch : Nat, generation : Generations,
            owner_box : Boxes, activation_ts : Nat,
            remote_packet_counter : {0}, state : OwnershipState]

Frames == [header : {"V1"}, subscriber_id : {Subscriber}, generation : Generations,
           owner_box : Boxes, activation_ts : Nat, owner_epoch : Nat]

SimTypeOK ==
    /\ \A b \in Boxes : cfg[b] \in BoxConfigs[b]
    /\ rec \in [Boxes -> Records]
    /\ iter \in [Boxes -> 0 .. Iterations + 1]
    /\ claimed_once \in [Boxes -> BOOLEAN]
    /\ claims_total \in [Boxes -> 0 .. Iterations]
    /\ recv_total \in [Boxes -> Nat]
    /\ link \in [Boxes -> Seq(Frames)]
    /\ orderly \in BOOLEAN /\ claimant \in Owners

\* Deviation: the owner is the UINT16_MAX that owner_box_id starts with.
StartRecordNoOwner(epoch) ==
    [subscriber_id |-> Subscriber, owner_epoch |-> epoch, generation |-> 0,
     owner_box |-> 65535, activation_ts |-> 0, remote_packet_counter |-> 0,
     state |-> "UNOWNED"]

\* Cleared with memset: unowned, though owner_box is box 0's id.
StartRecord(epoch) ==
    [subscriber_id |-> Subscriber, owner_epoch |-> epoch, generation |-> 0,
     owner_box |-> 0, activation_ts |-> 0, remote_packet_counter |-> 0,
     state |-> "UNOWNED"]

Init ==
    /\ cfg \in {c \in [Boxes -> BoxConfigs[0] \cup BoxConfigs[1]] :
                   \A b \in Boxes : c[b] \in BoxConfigs[b]}
    /\ rec = [b \in Boxes |-> StartRecord(cfg[b].owner_epoch)]
    /\ iter = [b \in Boxes |-> 0]
    /\ claimed_once = [b \in Boxes |-> FALSE]
    /\ claims_total = [b \in Boxes |-> 0]
    /\ recv_total = [b \in Boxes |-> 0]
    /\ link = [b \in Boxes |-> <<>>]
    /\ orderly = TRUE /\ claimant = Unowned

-----------------------------------------------------------------------------
should_claim_on_iter(c, i, once) ==
    IF c.claim_at # {} THEN i \in c.claim_at
    ELSE \/ c.claim_mode = "periodic" /\ i % c.claim_every = 0
         \/ c.claim_mode = "once" /\ ~once /\ i = c.claim_every

\* The repeated update names only owner_box_id and timestamp; owner_box and
\* activation_ts are left zero, and it is owner_box that goes on the wire.
Repeated(u) == [u EXCEPT !.owner_box = 0, !.activation_ts = 0]

Emitted(b, r) ==
    <<Encode(UpdateOf(r))>>
        \o [d \in 1 .. cfg[b].emit_dup_count |-> Encode(Repeated(UpdateOf(r)))]

(***************************************************************************)
(* An iteration begins: i is incremented, and the box claims if it is due  *)
(* to.  A claim while it holds the subscriber (LOCAL_REFRESH) sends        *)
(* nothing, and no frame but a claim's is ever sent.                       *)
(***************************************************************************)
Due(b) ==
    /\ iter[b] < Iterations
    /\ should_claim_on_iter(cfg[b], iter[b] + 1, claimed_once[b])
    /\ ~HoldsLocally(rec[b], b)

IterateIdle(b) ==
    /\ ~Due(b)
    /\ iter[b] <= Iterations
    /\ iter' = [iter EXCEPT ![b] = @ + 1]
    /\ UNCHANGED <<cfg, rec, claimed_once, claims_total, recv_total, link, orderly, claimant>>

IterateClaim(b) ==
    /\ Due(b)
    /\ iter' = [iter EXCEPT ![b] = @ + 1]
    /\ rec' = [rec EXCEPT ![b] = Claimed(@, b, iter'[b])]
    /\ link' = [link EXCEPT ![Other(b)] = @ \o Emitted(b, rec'[b])]
    /\ claimed_once' = [claimed_once EXCEPT ![b] = TRUE]
    /\ claims_total' = [claims_total EXCEPT ![b] = @ + 1]
    /\ orderly' = (orderly /\ \A a \in Boxes : link[a] = <<>>)
    /\ claimant' = b
    /\ UNCHANGED <<cfg, recv_total>>

(***************************************************************************)
(* One round of the drain loop that finds a frame.  What is still under    *)
(* way after the last iteration is never read.                             *)
(***************************************************************************)
ThrowsAway(b) ==
    LET n == cfg[b].drop_incoming_every IN n > 0 /\ (recv_total[b] + 1) % n = 0

\* Deviation: a frame that is thrown away is not counted.
CountKept(b) ==
    recv_total' = IF ThrowsAway(b) THEN recv_total ELSE [recv_total EXCEPT ![b] = @ + 1]

CountReceived(b) == recv_total' = [recv_total EXCEPT ![b] = @ + 1]

Recv(b) ==
    /\ iter[b] \in 1 .. Iterations /\ link[b] # <<>>
    /\ CountReceived(b)
    /\ link' = [link EXCEPT ![b] = Tail(@)]
    /\ rec' = IF ThrowsAway(b) THEN rec
              ELSE [rec EXCEPT ![b] = ApplyRemoteUpdate(@, Decode(Head(link[b])))]
    /\ UNCHANGED <<cfg, iter, claimed_once, claims_total, orderly, claimant>>

Next == \E b \in Boxes : IterateIdle(b) \/ IterateClaim(b) \/ Recv(b)

Spec == Init /\ [][Next]_vars

-----------------------------------------------------------------------------
Drained == \A b \in Boxes : link[b] = <<>>

\* At least one copy of every claim gets past the drop fault of box b.
Hears(b) ==
    LET n == cfg[b].drop_incoming_every
    IN  n = 0 \/ (n > 1 /\ cfg[Other(b)].emit_dup_count > 0)

\* Box b starts under a later epoch and has not claimed: it drops the peer's
\* claims as stale.
Newcomer(b) == rec[b].generation = 0 /\ rec[b].owner_epoch > rec[Other(b)].owner_epoch

Comparable == Drained /\ \A b \in Boxes : Hears(b) /\ ~Newcomer(b)

(***************************************************************************)
(* Repeating every claim makes up for a receiver that drops every n-th     *)
(* frame (scripts/test_it_fault_drop.sh): with the links drained the boxes *)
(* hold claims of the same epoch and generation.                           *)
(***************************************************************************)
RepeatingMakesUpForDrops ==
    Comparable =>
        /\ rec[0].owner_epoch = rec[1].owner_epoch
        /\ rec[0].generation = rec[1].generation

(***************************************************************************)
(* Boxes that are drained hold the same owner, with one exception: box 1   *)
(* repeats its claims.  Its repetitions name box 0 as the owner, which     *)
(* wins the tie on box 0, while box 1 keeps its own claim: two owners, and *)
(* only a new claim ends it.                                               *)
(***************************************************************************)
SplitsOnlyByRepetition ==
    Comparable /\ rec[0].owner_box # rec[1].owner_box =>
        /\ cfg[1].emit_dup_count > 0
        /\ rec[1].owner_box = 1 /\ rec[1].state = "LOCAL"
        /\ rec[0].owner_box = 0 /\ rec[0].state = "REMOTE"

(***************************************************************************)
(* The timeline of scripts/test_it_mobility.sh ("final: owner=0 gen=3"     *)
(* after three claims): as long as every claim is made with nothing under  *)
(* way, each counts, so the generation is their number, and the box that   *)
(* claimed last holds the subscriber.                                      *)
(***************************************************************************)
TimelineHolds ==
    Comparable /\ orderly /\ cfg[0].owner_epoch = cfg[1].owner_epoch =>
        /\ rec[0].generation = claims_total[0] + claims_total[1]
        /\ claimant # Unowned => HoldsLocally(rec[claimant], claimant)

(***************************************************************************)
(* A repetition is only that: box_sim.c:66, "--emit-dup <u32>              *)
(* duplicate sends per claim", leaves drained boxes agreed on the owner,   *)
(* as scripts/test_it_fault_duplicate.sh asserts of box 0's.               *)
(***************************************************************************)
RepetitionsChangeNothing ==
    Comparable => rec[0].owner_box = rec[1].owner_box
=============================================================================
