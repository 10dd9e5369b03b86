--------------------------- MODULE FaultsInvariant ---------------------------
(***************************************************************************)
(* The inductive strengthening of ReplicationFaults' safety properties.    *)
(* Most of what ReplicationInvariant says is false once things go wrong;   *)
(* what is left falls into three parts: what no fault can break, where the *)
(* claims are that a box lacks, and what holds as long as every restarted  *)
(* box has taken a later epoch.                                            *)
(***************************************************************************)
EXTENDS ReplicationFaults, ReplicationInvariant

\* Part one: no fault forges a frame, delivers what was not sent, or makes
\* up an owner.
SentNamesSender == \A b \in Boxes : \A f \in sent[b] : f.owner_box = b

HonestInv ==
    /\ FaultsTypeOK
    /\ InflightWasSent
    /\ SentNamesSender
    /\ StateMatchesOwner
    /\ RemoteOwnerClaimed

\* Part two.  A fault withheld from box b a claim at least as strong as c.
Withheld(b, c) == \E g \in gaps[b] : ~Beats(c, g)

\* What a box has yet to adopt of its peer's claims is on its way, or withheld.
PendingOrWithheld ==
    \A b \in Boxes : \A f \in sent[Other(b)] :
        Beats(f, rec[b]) => \/ \E g \in inflight[b] : ~Beats(f, g)
                            \/ Withheld(b, f)

\* What a box no longer holds to of its own claims, a fault made it forget.
ForgottenIsWithheld ==
    \A b \in Boxes : \A f \in sent[b] : Beats(f, rec[b]) => Withheld(b, f)

\* A claim a box holds to was published, or withheld from its peer.
HeldIsPublishedOrWithheld ==
    \A b \in Boxes : rec[b].owner_box = b =>
        \/ \E f \in sent[b] : Replicated(f) = Replicated(rec[b])
        \/ Replicated(rec[b]) \in gaps[Other(b)]

\* A box that knows no owner was born so, or was made to drop one.
UnownedIsNewOrSwept ==
    \A b \in Boxes : rec[b].owner_box = Unowned =>
        \/ rec[b].generation = 0
        \/ \E c \in gaps[b] : Beats(c, rec[b])

GapInv ==
    /\ PendingOrWithheld
    /\ ForgottenIsWithheld
    /\ HeldIsPublishedOrWithheld
    /\ UnownedIsNewOrSwept

\* Part three.  What box b's record r stood for before a sweep: that takes
\* away the owner only, and only when it is the peer.
Floor(r, b) == [r EXCEPT !.owner_box = IF @ = Unowned THEN Other(b) ELSE @]

OwnClaimsBelowFloor == \A b \in Boxes : \A f \in sent[b] : ~Beats(f, Floor(rec[b], b))

\* The only claims of a box its peer may have to adopt are the one it holds
\* at this moment and those it made before it restarted.
OnlyLatestOrEarlierEpochIsNews ==
    \A b \in Boxes : \A f \in sent[b] :
        Beats(f, rec[Other(b)]) => \/ Replicated(f) = Replicated(rec[b])
                                   \/ rec[b].owner_epoch > f.owner_epoch

OrderlyRestarts ==
    /\ OwnClaimsBelowFloor
    /\ ClaimsAreDistinct
    /\ OnlyLatestOrEarlierEpochIsNews
    /\ ForwardTargetOwnsOrRestarted

EpochInv == ~reused => OrderlyRestarts

(***************************************************************************)
(* The inductive invariant.  HonestInv is inductive by itself; the other   *)
(* two parts need it, and generations that do not wrap.                    *)
(***************************************************************************)
FaultsInv == HonestInv /\ GapInv /\ EpochInv
=============================================================================
