------------------------ MODULE ReplicationInvariant ------------------------
(***************************************************************************)
(* The inductive strengthening of Replication's safety properties.  None   *)
(* of them is inductive alone: that a forwarded packet reaches the owner   *)
(* depends on what may still be in flight, and what may be in flight       *)
(* depends on which box was entitled to claim.                             *)
(***************************************************************************)
EXTENDS Replication

(* No generation a box may reach wraps.  With 32 bits and a claim every    *)
(* millisecond that holds for 49 days of uninterrupted takeovers.          *)
NoWrap == MaxGeneration < GenerationMod

\* Everything a box published names it, is a real claim, and is covered by
\* what the box believes now.
OwnClaimsCovered ==
    \A b \in Boxes : \A f \in sent[b] :
        f.owner_box = b /\ f.generation > 0 /\ ~Beats(f, rec[b])

\* What a box may believe before anyone claims.
Newborn == {Replicated(FreshRecord(e)) : e \in StartEpochs}

\* A box believes what it was born with or something that was published.
BeliefsWerePublished ==
    \A b \in Boxes :
        \/ Replicated(rec[b]) \in Newborn
        \/ \E a \in Boxes : \E f \in sent[a] : Replicated(f) = Replicated(rec[b])

\* LOCAL is exactly ownership by the box itself, UNOWNED by nobody.
StateMatchesOwner ==
    \A b \in Boxes :
        /\ rec[b].state = "LOCAL" <=> rec[b].owner_box = b
        /\ rec[b].state = "UNOWNED" <=> rec[b].owner_box = Unowned

\* A box never publishes two claims of equal precedence.
ClaimsAreDistinct ==
    \A b \in Boxes : \A f, g \in sent[b] :
        f.owner_epoch = g.owner_epoch /\ f.generation = g.generation => f = g

InflightWasSent == \A b \in Boxes : inflight[b] \subseteq sent[Other(b)]

\* A published claim the peer still has to adopt is on its way there, or
\* something at least as strong is.
PendingOrSeen ==
    \A b \in Boxes : \A f \in sent[Other(b)] :
        Beats(f, rec[b]) => \E g \in inflight[b] : ~Beats(f, g)

\* The only claim of a box its peer may still have to adopt is the one the
\* box holds at this moment.
OnlyLatestIsNews ==
    \A b \in Boxes : \A f \in sent[b] :
        Beats(f, rec[Other(b)]) => Replicated(f) = Replicated(rec[b])

IInv ==
    /\ TypeOK
    /\ OwnClaimsCovered
    /\ BeliefsWerePublished
    /\ StateMatchesOwner
    /\ ClaimsAreDistinct
    /\ InflightWasSent
    /\ PendingOrSeen
    /\ OnlyLatestIsNews
    /\ ForwardTargetOwns

\* A box that forwards nothing has counted nothing: a new owner is only ever
\* adopted with a clear counter.
CounterIsFresh ==
    \A b \in Boxes : rec[b].owner_box # Other(b) =>
        rec[b].remote_packet_counter = 0 /\ misroutes[b] = 0

CounterInv == CounterIsFresh /\ CounterCountsThisOwnership

-----------------------------------------------------------------------------
(***************************************************************************)
(* Replication implements the ownership register: the boxes' beliefs are   *)
(* what their records say, the public claims are what their frames say.    *)
(* (subown.c as a whole: a frame never changes a record except to the      *)
(* claim it carries, and a takeover publishes the claim it makes.)         *)
(***************************************************************************)
Beliefs == [b \in Boxes |-> Replicated(rec[b])]
PublicClaims == {Replicated(f) : f \in sent[0] \cup sent[1]}

Register == INSTANCE OwnershipRegister WITH
                Births <- Newborn,
                belief <- Beliefs,
                claims <- PublicClaims

ImplementsRegister == Register!RegisterSpec
=============================================================================
