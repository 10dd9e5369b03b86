---------------------------- MODULE SimInvariant ----------------------------
(***************************************************************************)
(* What holds at every step of two simulators: the inductive invariant     *)
(* behind the properties of BoxSim.  Ahead compares epoch and generation   *)
(* only; which owner wins a tie is not the same question, because box 1's  *)
(* repetitions name box 0.                                                 *)
(***************************************************************************)
EXTENDS BoxSim

Ahead(c, d) ==
    \/ c.owner_epoch > d.owner_epoch
    \/ c.owner_epoch = d.owner_epoch /\ c.generation > d.generation

Claims == claims_total[0] + claims_total[1]

\* The k-th frame under way to box b will not be thrown away.
Kept(b, k) ==
    LET n == cfg[b].drop_incoming_every IN n = 0 \/ (recv_total[b] + k) % n # 0

(***************************************************************************)
(* Every generation takes a claim of its own.                              *)
(***************************************************************************)
GenerationsAreClaimed ==
    /\ \A b \in Boxes : claims_total[b] <= iter[b]
    /\ \A b \in Boxes : rec[b].generation <= Claims
    /\ \A b \in Boxes : \A k \in 1 .. Len(link[b]) : link[b][k].generation \in 1 .. Claims

(***************************************************************************)
(* What the frames under way to box b say.  They are not ahead of their    *)
(* sender's record; those of box 0 do not beat it either.                  *)
(***************************************************************************)
FramesFollowSender ==
    \A b \in Boxes : \A k \in 1 .. Len(link[b]) :
        LET f == link[b][k]
        IN  /\ ~Ahead(f, rec[Other(b)])
            /\ b = 1 => f.owner_box = 0 /\ ~Beats(f, rec[0])
            /\ b = 0 /\ f.owner_box = 0 => cfg[1].emit_dup_count > 0

(***************************************************************************)
(* How a record came by its owner.                                         *)
(***************************************************************************)
OwnersAreExplained ==
    /\ \A b \in Boxes : rec[b].state = "UNOWNED" => rec[b].generation = 0 /\ rec[b].owner_box = 0
    /\ \A b \in Boxes : rec[b].state # "UNOWNED" => rec[b].generation > 0
    /\ \A b \in Boxes : rec[b].state = "LOCAL" => rec[b].owner_box = b
    /\ rec[1].owner_box = 1 => rec[1].state = "LOCAL"
    /\ rec[1].owner_box = 0 /\ rec[1].generation > 0 => ~Beats(rec[1], rec[0])
    /\ rec[0].owner_box = 0 /\ rec[0].state = "REMOTE" => cfg[1].emit_dup_count > 0

(***************************************************************************)
(* A box that gets a copy of every claim knows of its peer's, or will: of  *)
(* their epoch and generation, and, if the peer is box 0, of their owner.  *)
(***************************************************************************)
ClaimsGetThrough ==
    \A b \in Boxes : Hears(b) /\ rec[Other(b)].generation > 0 =>
        \/ ~Ahead(rec[Other(b)], rec[b])
        \/ \E k \in 1 .. Len(link[b]) : Kept(b, k) /\ ~Ahead(rec[Other(b)], link[b][k])

BoxZeroGetsThrough ==
    Hears(1) /\ rec[0].state = "LOCAL" =>
        \/ ~Beats(rec[0], rec[1])
        \/ \E k \in 1 .. Len(link[1]) : Kept(1, k) /\ ~Beats(rec[0], link[1][k])

(***************************************************************************)
(* Epochs do not change; and while every claim is made with nothing under  *)
(* way the last one stands.                                                *)
(***************************************************************************)
SameEpochs ==
    cfg[0].owner_epoch = cfg[1].owner_epoch =>
        \A b \in Boxes :
            /\ rec[b].owner_epoch = cfg[0].owner_epoch
            /\ \A k \in 1 .. Len(link[b]) : link[b][k].owner_epoch = cfg[0].owner_epoch

LastClaimStands ==
    /\ claimant \in Boxes \cup {Unowned}
    /\ claimant = Unowned => Claims = 0
    /\ orderly /\ cfg[0].owner_epoch = cfg[1].owner_epoch /\ (\A b \in Boxes : Hears(b))
           /\ claimant # Unowned =>
           /\ link[claimant] = <<>> /\ HoldsLocally(rec[claimant], claimant)
           /\ rec[claimant].generation = Claims

SimInv ==
    /\ SimTypeOK
    /\ GenerationsAreClaimed
    /\ FramesFollowSender
    /\ OwnersAreExplained
    /\ ClaimsGetThrough
    /\ BoxZeroGetsThrough
    /\ SameEpochs
    /\ LastClaimStands
=============================================================================
