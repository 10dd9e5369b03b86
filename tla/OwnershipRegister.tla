-------------------------- MODULE OwnershipRegister --------------------------
(***************************************************************************)
(* What replication promises, without records, frames or a network: each   *)
(* box believes one claim, and what any box ever claimed is public.  A box *)
(* that does not believe itself the owner may claim, under the next        *)
(* generation of the epoch it believes in; and a box may at any time learn *)
(* a public claim that is stronger than the one it believes.  Nothing else *)
(* ever changes a belief.                                                  *)
(***************************************************************************)
EXTENDS Subown

CONSTANT Births   \* what a box may believe before anyone claims

VARIABLES belief, claims

registerVars == <<belief, claims>>

RegisterInit == belief \in [Boxes -> Births] /\ claims = {}

ClaimOwnership(b) ==
    LET c == belief'[b]
    IN  /\ belief[b].owner_box # b
        /\ c.owner_box = b
        /\ c.owner_epoch = belief[b].owner_epoch
        /\ c.generation = belief[b].generation + 1
        /\ belief' = [belief EXCEPT ![b] = c]
        /\ claims' = claims \cup {c}

Learn(b) ==
    /\ \E c \in claims : /\ Beats(c, belief[b])
                         /\ belief' = [belief EXCEPT ![b] = c]
    /\ UNCHANGED claims

RegisterNext == \E b \in Boxes : ClaimOwnership(b) \/ Learn(b)

RegisterSpec == RegisterInit /\ [][RegisterNext]_registerVars
=============================================================================
