------------------------- MODULE ReplicationProofs -------------------------
(***************************************************************************)
(* Machine-checked proofs about the library's rules and the replication    *)
(* built on them: what precedence makes of updates that are repeated or    *)
(* reordered and what the wire keeps of them; the safety properties of     *)
(* Replication, for every clock, threshold, pair of starting epochs and    *)
(* generation bound that does not wrap; and what replication keeps when    *)
(* emits fail, frames are lost, boxes are swept and restart, for every     *)
(* selection of faults and every number of restarts.                       *)
(***************************************************************************)
EXTENDS FaultsInvariant, NumberFacts, TLAPS

(***************************************************************************)
(* Precedence is a strict total order on the keys.                         *)
(***************************************************************************)
HasKey(c) == c.owner_epoch \in Nat /\ c.generation \in Nat /\ c.owner_box \in Nat

SameKey(c, d) == /\ c.owner_epoch = d.owner_epoch
                 /\ c.generation = d.generation
                 /\ c.owner_box = d.owner_box

(* If c does not beat d and d does not beat e then c does not beat e.      *)
LEMMA WeakerTransitive ==
    ASSUME NEW c, NEW d, NEW e, HasKey(c), HasKey(d), HasKey(e),
           ~Beats(c, d), ~Beats(d, e)
    PROVE  ~Beats(c, e)
BY DEF Beats, HasKey

(* Two claims never beat each other.                                       *)
LEMMA BeatsAsymmetric ==
    ASSUME NEW c, NEW d, HasKey(c), HasKey(d), Beats(c, d)
    PROVE  ~Beats(d, c)
BY DEF Beats, HasKey

(* Of two claims one beats the other unless their keys are the same.       *)
LEMMA BeatsTotal ==
    ASSUME NEW c, NEW d, HasKey(c), HasKey(d), ~Beats(c, d), ~Beats(d, c)
    PROVE  SameKey(c, d)
BY DEF Beats, HasKey, SameKey

-----------------------------------------------------------------------------
(***************************************************************************)
(* The library: what its rules make of updates that are repeated, delayed  *)
(* or reordered, for every record and every update, and what the wire      *)
(* keeps of an update.  None of it needs a bound on epochs or generations. *)
(***************************************************************************)

(* The records and updates there may be.                                   *)
AnyRecord == [subscriber_id : Nat, owner_epoch : Nat, generation : Generations,
              owner_box : Owners, activation_ts : Nat,
              remote_packet_counter : Nat, state : OwnershipState]

Bytes == 0 .. 255
HalfWords == 0 .. 65535

\* The owner fields may hold anything that fits them.
AnyUpdate == [msg_version : Nat, subscriber_id : Nat, generation : Generations,
              owner_box : Bytes, owner_box_id : HalfWords,
              activation_ts : Nat, timestamp : Nat, owner_epoch : Nat]

(* The claim an update announces is well formed, whatever its owner fields.*)
LEMMA AnnouncedFacts ==
    ASSUME NEW u \in AnyUpdate
    PROVE  /\ HasKey(Announced(u)) /\ Announced(u).owner_box \in Owners
           /\ Announced(u).generation \in Generations /\ Announced(u).activation_ts \in Nat
<1>1. Generations \subseteq Nat /\ Owners = {0, 1, 255} /\ Owners \subseteq Nat
  BY GenerationModAssumption DEF Generations, Owners, Boxes, Unowned
<1>2. NormalizeTs(u.activation_ts, u.timestamp) \in Nat
  BY DEF NormalizeTs, AnyUpdate
<1>3. NormalizeOwner(u.owner_box_id, u.owner_box) \in Owners
  BY <1>1 DEF NormalizeOwner, Unowned
<1>4. u.owner_epoch \in Nat /\ u.generation \in Generations
  BY DEF AnyUpdate
<1>5. /\ Announced(u).owner_epoch = u.owner_epoch
      /\ Announced(u).generation = u.generation
      /\ Announced(u).owner_box = NormalizeOwner(u.owner_box_id, u.owner_box)
      /\ Announced(u).activation_ts = NormalizeTs(u.activation_ts, u.timestamp)
  BY DEF Announced
<1>6. /\ Announced(u).owner_epoch \in Nat /\ Announced(u).generation \in Generations
      /\ Announced(u).owner_box \in Owners /\ Announced(u).activation_ts \in Nat
  BY <1>2, <1>3, <1>4, <1>5
<1>. QED
  BY <1>1, <1>6 DEF HasKey

LEMMA RecordKey ==
    ASSUME NEW r \in AnyRecord
    PROVE  HasKey(r)
<1>1. Generations \subseteq Nat /\ Owners \subseteq Nat
  BY GenerationModAssumption DEF Generations, Owners, Boxes, Unowned
<1>. QED
  BY <1>1 DEF HasKey, AnyRecord

LEMMA AdoptFacts ==
    ASSUME NEW r \in AnyRecord, NEW u \in AnyUpdate
    PROVE  LET c == Announced(u)
           IN  /\ Adopt(r, c) \in AnyRecord
               /\ Adopt(r, c).subscriber_id = r.subscriber_id
               /\ SameKey(Adopt(r, c), c)
               /\ \A d : Adopt(Adopt(r, c), d) = Adopt(r, d)
<1>. DEFINE c == Announced(u)
<1>1. /\ c.owner_epoch \in Nat /\ c.generation \in Generations /\ c.owner_box \in Owners
      /\ c.activation_ts \in Nat
  BY AnnouncedFacts DEF HasKey
<1>2. "UNOWNED" \in OwnershipState /\ "REMOTE" \in OwnershipState
  BY DEF OwnershipState
<1>. HIDE DEF c
<1>3. /\ Adopt(r, c) \in AnyRecord /\ Adopt(r, c).subscriber_id = r.subscriber_id
      /\ SameKey(Adopt(r, c), c)
  BY <1>1, <1>2 DEF Adopt, AnyRecord, SameKey
<1>4. \A d : Adopt(Adopt(r, c), d) = Adopt(r, d)
  BY DEF Adopt, AnyRecord
<1>. QED
  BY <1>3, <1>4 DEF c

(* Applying an update either adopts its claim or changes nothing.          *)
LEMMA AppliedCases ==
    ASSUME NEW r \in AnyRecord, NEW u \in AnyUpdate
    PROVE  /\ ApplyRemoteUpdate(r, u) \in AnyRecord
           /\ ApplyRemoteUpdate(r, u).subscriber_id = r.subscriber_id
           /\ Valid(r, u) /\ Beats(Announced(u), r) =>
                  ApplyRemoteUpdate(r, u) = Adopt(r, Announced(u))
           /\ ~(Valid(r, u) /\ Beats(Announced(u), r)) => ApplyRemoteUpdate(r, u) = r
BY AdoptFacts DEF ApplyRemoteUpdate

(***************************************************************************)
(* Precedence is a strict total order on epoch, generation and owner       *)
(* (src/subown.c:51-113): no claim beats itself or a claim that beats it,  *)
(* it is transitive, and of two claims that differ one beats the other.    *)
(***************************************************************************)
THEOREM PrecedenceIsTotal ==
    ASSUME NEW c, NEW d, NEW e, HasKey(c), HasKey(d), HasKey(e)
    PROVE  /\ ~(Beats(c, d) /\ Beats(d, c))
           /\ Beats(c, d) /\ Beats(d, e) => Beats(c, e)
           /\ Beats(c, d) \/ Beats(d, c) \/ SameKey(c, d)
BY DEF Beats, HasKey, SameKey

(***************************************************************************)
(* "Duplicate messages must be idempotent" (spec_conflict_resolution.md:16)*)
(* however late the second arrival and whatever was applied in between:    *)
(* once u has been applied, u changes nothing after any further update.    *)
(***************************************************************************)
THEOREM RepeatedUpdateIsIgnored ==
    ASSUME NEW r \in AnyRecord, NEW u \in AnyUpdate, NEW v \in AnyUpdate
    PROVE  LET once  == ApplyRemoteUpdate(r, u)
               later == ApplyRemoteUpdate(once, v)
           IN  /\ ApplyRemoteUpdate(once, u) = once
               /\ ApplyRemoteUpdate(later, u) = later
<1>. DEFINE c == Announced(u)
            d == Announced(v)
            once == ApplyRemoteUpdate(r, u)
            later == ApplyRemoteUpdate(once, v)
<1>1. HasKey(c) /\ HasKey(d)
  BY AnnouncedFacts
<1>2. /\ once \in AnyRecord /\ once.subscriber_id = r.subscriber_id
      /\ Valid(r, u) => ~Beats(c, once)
  <2>1. CASE Valid(r, u) /\ Beats(c, r)
    <3>1. once = Adopt(r, c)
      BY <2>1, AppliedCases
    <3>. HIDE DEF once, c
    <3>2. SameKey(once, c)
      BY <3>1, AdoptFacts DEF c
    <3>3. ~Beats(c, once)
      BY <1>1, <3>2 DEF Beats, SameKey, HasKey
    <3>. QED
      BY <3>3, AppliedCases DEF once
  <2>2. CASE ~(Valid(r, u) /\ Beats(c, r))
    BY <2>2, AppliedCases
  <2>. QED
    BY <2>1, <2>2
<1>3. /\ later \in AnyRecord /\ later.subscriber_id = r.subscriber_id
      /\ later = once \/ (later = Adopt(once, d) /\ Beats(d, once))
  BY <1>2, AppliedCases
<1>4. Valid(r, u) => ~Beats(c, later)
  <2>1. CASE later = once
    BY <1>2, <2>1
  <2>2. CASE later = Adopt(once, d) /\ Beats(d, once)
    <3>1. SameKey(later, d) /\ HasKey(once)
      BY <1>2, <2>2, AdoptFacts, RecordKey
    <3>. HIDE DEF later, once, c, d
    <3>. QED
      BY <1>1, <1>2, <2>2, <3>1 DEF Beats, SameKey, HasKey
  <2>. QED
    BY <1>3, <2>1, <2>2
<1>5. /\ Valid(once, u) <=> Valid(r, u)
      /\ Valid(later, u) <=> Valid(r, u)
  BY <1>2, <1>3 DEF Valid
<1>. QED
  BY <1>2, <1>3, <1>4, <1>5, AppliedCases

(***************************************************************************)
(* "Reordered delivery must still converge to one deterministic final      *)
(* owner" (spec_conflict_resolution.md:17): the order in which two updates *)
(* arrive does not matter, provided that claims of the same key  are the   *)
(* same claim, as they are while no box restarts under an epoch in use.    *)
(***************************************************************************)
THEOREM UpdateOrderDoesNotMatter ==
    ASSUME NEW r \in AnyRecord, NEW u \in AnyUpdate, NEW v \in AnyUpdate,
           SameKey(Announced(u), Announced(v)) => Announced(u) = Announced(v)
    PROVE  ApplyRemoteUpdate(ApplyRemoteUpdate(r, u), v)
               = ApplyRemoteUpdate(ApplyRemoteUpdate(r, v), u)
<1>. DEFINE c == Announced(u)
            d == Announced(v)
            ru == ApplyRemoteUpdate(r, u)
            rv == ApplyRemoteUpdate(r, v)
<1>1. HasKey(c) /\ HasKey(d) /\ HasKey(r)
  BY AnnouncedFacts, RecordKey
<1>2. /\ ru \in AnyRecord /\ ru.subscriber_id = r.subscriber_id
      /\ rv \in AnyRecord /\ rv.subscriber_id = r.subscriber_id
  BY AppliedCases
<1>3. /\ Valid(ru, v) <=> Valid(r, v)
      /\ Valid(rv, u) <=> Valid(r, u)
  BY <1>2 DEF Valid
<1>4. CASE ~(Valid(r, u) /\ Beats(c, r))
  <2>1. ru = r
    BY <1>4, AppliedCases
  <2>2. ApplyRemoteUpdate(rv, u) = rv
    <3>1. CASE ~(Valid(r, v) /\ Beats(d, r))
      <4>1. rv = r
        BY <3>1, AppliedCases
      <4>. QED
        BY <2>1, <4>1
    <3>2. CASE Valid(r, v) /\ Beats(d, r)
      <4>1. rv = Adopt(r, d)
        BY <3>2, AppliedCases
      <4>2. SameKey(rv, d)
        BY <4>1, AdoptFacts
      <4>3. Valid(r, u) => ~Beats(c, rv)
        <5>. HIDE DEF c, d, rv
        <5>. QED
          BY <1>1, <1>4, <3>2, <4>2 DEF Beats, SameKey, HasKey
      <4>. QED
        BY <1>2, <1>3, <4>3, AppliedCases
    <3>. QED
      BY <3>1, <3>2
  <2>. QED
    BY <2>1, <2>2
<1>5. CASE ~(Valid(r, v) /\ Beats(d, r))
  <2>1. rv = r
    BY <1>5, AppliedCases
  <2>2. ApplyRemoteUpdate(ru, v) = ru
    <3>1. CASE ~(Valid(r, u) /\ Beats(c, r))
      <4>1. ru = r
        BY <3>1, AppliedCases
      <4>. QED
        BY <2>1, <4>1
    <3>2. CASE Valid(r, u) /\ Beats(c, r)
      <4>1. ru = Adopt(r, c)
        BY <3>2, AppliedCases
      <4>2. SameKey(ru, c)
        BY <4>1, AdoptFacts
      <4>3. Valid(r, v) => ~Beats(d, ru)
        <5>. HIDE DEF c, d, ru
        <5>. QED
          BY <1>1, <1>5, <3>2, <4>2 DEF Beats, SameKey, HasKey
      <4>. QED
        BY <1>2, <1>3, <4>3, AppliedCases
    <3>. QED
      BY <3>1, <3>2
  <2>. QED
    BY <2>1, <2>2
<1>6. CASE Valid(r, u) /\ Beats(c, r) /\ Valid(r, v) /\ Beats(d, r)
  <2>1. ru = Adopt(r, c) /\ rv = Adopt(r, d)
    BY <1>6, AppliedCases
  <2>2. SameKey(ru, c) /\ SameKey(rv, d)
    BY <2>1, AdoptFacts
  <2>3. /\ Adopt(ru, d) = Adopt(r, d)
        /\ Adopt(rv, c) = Adopt(r, c)
    BY <2>1, AdoptFacts
  <2>4. /\ Beats(d, ru) <=> Beats(d, c)
        /\ Beats(c, rv) <=> Beats(c, d)
    BY <2>2 DEF Beats, SameKey
  <2>5. /\ ApplyRemoteUpdate(ru, v) = IF Beats(d, c) THEN Adopt(r, d) ELSE Adopt(r, c)
        /\ ApplyRemoteUpdate(rv, u) = IF Beats(c, d) THEN Adopt(r, c) ELSE Adopt(r, d)
    BY <1>2, <1>3, <1>6, <2>1, <2>3, <2>4, AppliedCases
  <2>6. /\ ~(Beats(c, d) /\ Beats(d, c))
        /\ Beats(c, d) \/ Beats(d, c) \/ c = d
    BY <1>1, PrecedenceIsTotal
  <2>. QED
    BY <2>5, <2>6
<1>. QED
  BY <1>4, <1>5, <1>6

(***************************************************************************)
(* What an update's owner fields must say for the wire to keep its claim:  *)
(* one of them names an owner and the other the same or none, or neither   *)
(* does and what is left of owner_box_id in a byte says "nobody".  The     *)
(* encoder prefers owner_box and the library owner_box_id, and the encoder *)
(* cuts owner_box_id to a byte before anyone has checked it.               *)
(***************************************************************************)
OwnerIsClear(u) ==
    \/ u.owner_box \in Owners /\ u.owner_box_id \in {u.owner_box} \cup (HalfWords \ Owners)
    \/ u.owner_box \notin Owners /\ u.owner_box_id \in Owners
    \/ u.owner_box \notin Owners /\ u.owner_box_id % 256 = Unowned

(***************************************************************************)
(* Just such updates survive the wire: the peer decodes them, and they     *)
(* announce the claim they announced before they were encoded              *)
(* (subown_zmq_adapter.c:71-152, subown.c:3-17).  The library's own        *)
(* updates do; repetitions by the simulator of box 1 do not.               *)
(***************************************************************************)
THEOREM WireKeepsTheClaim ==
    ASSUME NEW u \in AnyUpdate
    PROVE  /\ OwnerIsClear(u) <=>
                  /\ Decodable(Encode(u))
                  /\ Announced(Decode(Encode(u))) = Announced(u)
           /\ Decode(Encode(u)).subscriber_id = u.subscriber_id
<1>. DEFINE box == u.owner_box
            id == u.owner_box_id
            wire == IF box \in Owners THEN box ELSE id % 256
<1>1. /\ Encode(u).header = "V1" /\ Encode(u).subscriber_id = u.subscriber_id
      /\ Encode(u).generation = u.generation /\ Encode(u).owner_box = wire
      /\ Encode(u).activation_ts = NormalizeTs(u.activation_ts, u.timestamp)
      /\ Encode(u).owner_epoch = u.owner_epoch
  BY DEF Encode
<1>2. \A t : NormalizeTs(t, t) = t
  BY DEF NormalizeTs
<1>3. /\ box \in Bytes /\ id \in HalfWords
      /\ Owners = {0, 1, 255} /\ Unowned = 255 /\ 255 \in Owners
  BY DEF AnyUpdate, Owners, Boxes, Unowned
<1>. HIDE DEF box, id
<1>4. OwnerIsClear(u) <=> wire \in Owners /\ wire = NormalizeOwner(id, box)
  <2>1. CASE box \in Owners
    BY <1>3, <2>1 DEF OwnerIsClear, NormalizeOwner, box, id
  <2>2. CASE box \notin Owners /\ id \in Owners
    <3>1. id % 256 = id
      BY <1>3, <2>2
    <3>. QED
      BY <1>3, <2>2, <3>1 DEF OwnerIsClear, NormalizeOwner, box, id
  <2>3. CASE box \notin Owners /\ id \notin Owners
    BY <1>3, <2>3 DEF OwnerIsClear, NormalizeOwner, box, id
  <2>. QED
    BY <2>1, <2>2, <2>3
<1>. HIDE DEF wire
<1>5. Decodable(Encode(u)) <=> wire \in Owners
  BY <1>1 DEF Decodable
<1>6. ASSUME wire \in Owners
      PROVE  (Announced(Decode(Encode(u))) = Announced(u)) <=> (wire = NormalizeOwner(id, box))
  <2>1. NormalizeOwner(wire, wire) = wire
    BY <1>6 DEF NormalizeOwner
  <2>2. Announced(Decode(Encode(u))) =
            [owner_epoch |-> u.owner_epoch, generation |-> u.generation, owner_box |-> wire,
             activation_ts |-> NormalizeTs(u.activation_ts, u.timestamp)]
    BY <1>1, <1>2, <2>1 DEF Decode, Announced
  <2>3. Announced(u) =
            [owner_epoch |-> u.owner_epoch, generation |-> u.generation,
             owner_box |-> NormalizeOwner(id, box),
             activation_ts |-> NormalizeTs(u.activation_ts, u.timestamp)]
    BY DEF Announced, id, box
  <2>. QED
    BY <2>2, <2>3
<1>. QED
  BY <1>1, <1>4, <1>5, <1>6 DEF Decode

-----------------------------------------------------------------------------
(***************************************************************************)
(* Replication without faults.                                             *)
(***************************************************************************)

LEMMA BoxFacts ==
    /\ Boxes = {0, 1}
    /\ \A b \in Boxes : /\ Other(b) \in Boxes /\ Other(b) # b
                        /\ Other(Other(b)) = b
                        /\ b \in Owners /\ b # Unowned /\ b \in Nat
    /\ \A a, b \in Boxes : a = b \/ a = Other(b)
    /\ Unowned \in Owners /\ Unowned \in Nat
    /\ Owners \subseteq Nat
    /\ \A b \in Owners : b # Unowned => b \in Boxes
BY DEF Boxes, Other, Owners, Unowned

LEMMA KeyFacts ==
    /\ \A r \in Records : HasKey(r)
    /\ \A f \in Frames : HasKey(f)
<1>. Generations \subseteq Nat
  BY GenerationModAssumption DEF Generations
<1>. QED
  BY BoxFacts DEF Records, Frames, HasKey

(***************************************************************************)
(* The wire carries a claim faithfully: what a box publishes announces     *)
(* what its record says, and a receiver compares and adopts just that.     *)
(***************************************************************************)
LEMMA PublishedClaim ==
    ASSUME NEW r \in Records, r.owner_box \in Boxes
    PROVE  /\ Encode(UpdateOf(r)) \in Frames
           /\ Replicated(Encode(UpdateOf(r))) = Replicated(r)
BY BoxFacts DEF Encode, UpdateOf, Records, Frames, Replicated, NormalizeTs

LEMMA ReceivedClaim ==
    ASSUME NEW r \in Records, NEW f \in Frames
    PROVE  /\ Received(r, f) \in Records
           /\ Beats(f, r) =>
                /\ Replicated(Received(r, f)) = Replicated(f)
                /\ Received(r, f).state = "REMOTE"
                /\ Received(r, f).remote_packet_counter = r.remote_packet_counter
           /\ ~Beats(f, r) => Received(r, f) = r
<1>1. Decodable(f) /\ Valid(r, Decode(f))
  BY BoxFacts DEF Decodable, Decode, Valid, Frames, Records
<1>2. Announced(Decode(f)) = Replicated(f)
  BY BoxFacts DEF Announced, Decode, Replicated, NormalizeOwner, NormalizeTs, Frames
<1>3. Beats(Announced(Decode(f)), r) <=> Beats(f, r)
  BY <1>2 DEF Beats, Replicated
<1>4. Received(r, f) = IF Beats(f, r) THEN Adopt(r, Replicated(f)) ELSE r
  BY <1>1, <1>2, <1>3 DEF Received, ApplyRemoteUpdate
<1>5. ASSUME Beats(f, r)
      PROVE  /\ Adopt(r, Replicated(f)) \in Records
             /\ Replicated(Adopt(r, Replicated(f))) = Replicated(f)
             /\ Adopt(r, Replicated(f)).state = "REMOTE"
             /\ Adopt(r, Replicated(f)).remote_packet_counter = r.remote_packet_counter
  <2>1. f.owner_box # Unowned /\ f.owner_box \in Owners
    BY BoxFacts DEF Frames
  <2>2. Adopt(r, Replicated(f)) =
          [r EXCEPT !.owner_epoch = f.owner_epoch, !.generation = f.generation,
                    !.owner_box = f.owner_box, !.activation_ts = f.activation_ts,
                    !.state = "REMOTE"]
    BY <2>1 DEF Adopt, Replicated
  <2>. QED
    BY <2>1, <2>2 DEF Records, Frames, Replicated, OwnershipState
<1>. QED
  BY <1>4, <1>5

(***************************************************************************)
(* A takeover is a claim stronger than anything the box believed.          *)
(***************************************************************************)
LEMMA ClaimedIsStronger ==
    ASSUME NoWrap, NEW r \in Records, NEW b \in Boxes, NEW now \in Clock,
           r.generation < MaxGeneration
    PROVE  /\ Claimed(r, b, now) \in Records
           /\ Claimed(r, b, now).generation = r.generation + 1
           /\ Claimed(r, b, now).owner_epoch = r.owner_epoch
           /\ Claimed(r, b, now).owner_box = b
           /\ HoldsLocally(Claimed(r, b, now), b)
           /\ Beats(Claimed(r, b, now), r)
<1>1. r.generation + 1 \in Generations /\ r.generation \in Nat
  BY GenerationModAssumption, BoundsAssumption DEF NoWrap, Records, Generations
<1>2. (r.generation + 1) % GenerationMod = r.generation + 1
  BY <1>1, GenerationModAssumption DEF Generations
<1>3. Claimed(r, b, now) =
        [r EXCEPT !.owner_box = b, !.generation = r.generation + 1,
                  !.activation_ts = now, !.remote_packet_counter = 0,
                  !.state = "LOCAL"]
  BY <1>2 DEF Claimed
<1>4. Claimed(r, b, now) \in Records
  BY <1>1, <1>3, BoxFacts, ClockAssumption DEF Records, OwnershipState
<1>. QED
  BY <1>1, <1>3, <1>4 DEF HoldsLocally, Beats, Records

-----------------------------------------------------------------------------
(***************************************************************************)
(* The inductive invariant: initially, and across each kind of step.       *)
(***************************************************************************)
LEMMA InitInvariant == Init => IInv
<1>. SUFFICES ASSUME Init PROVE IInv
  OBVIOUS
<1>1. \A b \in Boxes : rec[b] \in Records /\ \E e \in StartEpochs : rec[b] = FreshRecord(e)
  <2>1. \A e \in StartEpochs : FreshRecord(e) \in Records
    BY StartEpochsAssumption, GenerationModAssumption
    DEF FreshRecord, Records, Owners, OwnershipState, Generations
  <2>. QED
    BY <2>1 DEF Init
<1>2. TypeOK
  BY <1>1 DEF Init, TypeOK
<1>3. \A b \in Boxes : sent[b] = {} /\ inflight[b] = {}
  BY DEF Init
<1>4. \A b \in Boxes : rec[b].owner_box = Unowned /\ rec[b].state = "UNOWNED"
  <2>1. \A e : FreshRecord(e).owner_box = Unowned /\ FreshRecord(e).state = "UNOWNED"
    BY DEF FreshRecord
  <2>. QED
    BY <1>1, <2>1
<1>5. OwnClaimsCovered /\ ClaimsAreDistinct /\ InflightWasSent
      /\ PendingOrSeen /\ OnlyLatestIsNews
  BY <1>3, BoxFacts
  DEF OwnClaimsCovered, ClaimsAreDistinct, InflightWasSent, PendingOrSeen,
      OnlyLatestIsNews
<1>6. BeliefsWerePublished
  BY <1>1 DEF BeliefsWerePublished, Newborn
<1>7. StateMatchesOwner /\ ForwardTargetOwns
  BY <1>4, BoxFacts DEF StateMatchesOwner, ForwardTargetOwns
<1>. QED
  BY <1>2, <1>5, <1>6, <1>7 DEF IInv

(* A box takes over a subscriber it does not hold and publishes the claim. *)
LEMMA TakeOverPreserves ==
    ASSUME NoWrap, IInv, NEW b \in Boxes, NEW now \in Clock,
           ~HoldsLocally(rec[b], b), TakeOver(b, now), Publish(b)
    PROVE  IInv'
<1>. DEFINE p == Other(b)
            s == Claimed(rec[b], b, now)
            f == Encode(UpdateOf(s))
<1>1. /\ p \in Boxes /\ p # b /\ Other(p) = b
      /\ \A a \in Boxes : a = b \/ a = p
  BY BoxFacts
<1>2. /\ rec \in [Boxes -> Records] /\ rec[b] \in Records /\ rec[p] \in Records
      /\ sent \in [Boxes -> SUBSET Frames] /\ inflight \in [Boxes -> SUBSET Frames]
      /\ misroutes \in [Boxes -> Nat]
  BY <1>1 DEF IInv, TypeOK
<1>3. /\ s \in Records /\ s.generation = rec[b].generation + 1
      /\ s.owner_epoch = rec[b].owner_epoch /\ s.owner_box = b
      /\ HoldsLocally(s, b) /\ Beats(s, rec[b])
  BY <1>2, ClaimedIsStronger DEF TakeOver
<1>4. /\ f \in Frames /\ Replicated(f) = Replicated(s)
      /\ f.owner_box = b /\ f.generation = rec[b].generation + 1
      /\ f.owner_epoch = rec[b].owner_epoch
  <2>1. f \in Frames /\ Replicated(f) = Replicated(s)
    BY <1>3, PublishedClaim
  <2>. QED
    BY <2>1, <1>3 DEF Replicated
<1>5. rec'[b] = s /\ rec'[p] = rec[p] /\ rec' \in [Boxes -> Records]
  BY <1>1, <1>2, <1>3 DEF TakeOver
<1>6. /\ sent'[b] = sent[b] \cup {f} /\ sent'[p] = sent[p]
      /\ inflight'[p] = inflight[p] \cup {f} /\ inflight'[b] = inflight[b]
      /\ sent' \in [Boxes -> SUBSET Frames] /\ inflight' \in [Boxes -> SUBSET Frames]
  BY <1>1, <1>2, <1>4, <1>5 DEF Publish
<1>7. \A g \in sent[b] \cup sent[p] \cup inflight[b] \cup inflight[p] : HasKey(g)
  BY <1>1, <1>2, KeyFacts
<1>8. HasKey(rec[b]) /\ HasKey(rec[p]) /\ HasKey(s) /\ HasKey(f)
  BY <1>2, <1>3, <1>4, KeyFacts
<1>9. ASSUME NEW g, HasKey(g), ~Beats(g, rec[b])
      PROVE  ~Beats(g, s)
  BY <1>3, <1>8, <1>9, BeatsAsymmetric, WeakerTransitive
<1>10. rec[p].owner_box # b
  BY <1>1 DEF IInv, ForwardTargetOwns
<1>11. \A g \in sent[b] : ~Beats(g, rec[p])
  <2>. SUFFICES ASSUME NEW g \in sent[b], Beats(g, rec[p]) PROVE FALSE
    OBVIOUS
  <2>1. Replicated(g) = Replicated(rec[b]) /\ g.owner_box = b
    BY DEF IInv, OnlyLatestIsNews, OwnClaimsCovered
  <2>2. rec[b].owner_box = b
    BY <2>1 DEF Replicated
  <2>. QED
    BY <2>2 DEF IInv, StateMatchesOwner, HoldsLocally
<1>12. TypeOK'
  BY <1>2, <1>5, <1>6 DEF TypeOK, TakeOver
<1>13. OwnClaimsCovered'
  <2>1. ~Beats(f, s) /\ f.generation > 0
    BY <1>2, <1>3, <1>4, <1>8 DEF Beats, HasKey
  <2>2. \A g \in sent[b] : g.owner_box = b /\ g.generation > 0 /\ ~Beats(g, s)
    BY <1>7, <1>9 DEF IInv, OwnClaimsCovered
  <2>3. \A g \in sent[p] : g.owner_box = p /\ g.generation > 0 /\ ~Beats(g, rec[p])
    BY <1>1 DEF IInv, OwnClaimsCovered
  <2>. QED
    BY <1>1, <1>4, <1>5, <1>6, <2>1, <2>2, <2>3 DEF OwnClaimsCovered
<1>14. BeliefsWerePublished'
  BY <1>1, <1>4, <1>5, <1>6 DEF IInv, BeliefsWerePublished
<1>15. StateMatchesOwner'
  BY <1>1, <1>3, <1>5, BoxFacts DEF IInv, StateMatchesOwner, HoldsLocally
<1>16. ClaimsAreDistinct'
  <2>1. \A g \in sent[b] : ~(g.owner_epoch = f.owner_epoch /\ g.generation = f.generation)
    BY <1>4, <1>7, <1>8 DEF IInv, OwnClaimsCovered, Beats, HasKey
  <2>. QED
    BY <1>1, <1>6, <2>1 DEF IInv, ClaimsAreDistinct
<1>17. InflightWasSent'
  BY <1>1, <1>6 DEF IInv, InflightWasSent
<1>18. PendingOrSeen'
  <2>1. ASSUME NEW g \in sent'[b], Beats(g, rec[p])
        PROVE  \E h \in inflight'[p] : ~Beats(g, h)
    <3>1. g = f
      BY <1>6, <1>11, <2>1
    <3>. QED
      BY <1>6, <1>8, <3>1 DEF Beats, HasKey
  <2>2. ASSUME NEW g \in sent[p], Beats(g, s)
        PROVE  \E h \in inflight[b] : ~Beats(g, h)
    BY <1>7, <1>9, <2>2 DEF IInv, PendingOrSeen
  <2>. QED
    BY <1>1, <1>5, <1>6, <2>1, <2>2 DEF PendingOrSeen
<1>19. OnlyLatestIsNews'
  <2>1. ASSUME NEW g \in sent[p], Beats(g, s)
        PROVE  Replicated(g) = Replicated(rec[p])
    BY <1>1, <1>7, <1>9, <2>1 DEF IInv, OnlyLatestIsNews
  <2>. QED
    BY <1>1, <1>4, <1>5, <1>6, <1>11, <2>1 DEF OnlyLatestIsNews
<1>20. ForwardTargetOwns'
  BY <1>1, <1>3, <1>5, <1>10 DEF ForwardTargetOwns
<1>. QED
  BY <1>12, <1>13, <1>14, <1>15, <1>16, <1>17, <1>18, <1>19, <1>20 DEF IInv

(* Counting a misrouted packet touches no claim.                           *)
LEMMA MisroutePreserves ==
    ASSUME IInv, NEW b \in Boxes, PacketMisrouted(b)
    PROVE  IInv'
<1>1. /\ rec \in [Boxes -> Records] /\ rec[b] \in Records
      /\ sent \in [Boxes -> SUBSET Frames] /\ inflight \in [Boxes -> SUBSET Frames]
      /\ misroutes \in [Boxes -> Nat]
  BY DEF IInv, TypeOK
<1>. DEFINE n == IF ReachesThreshold(rec[b], MigrationThreshold) THEN 0
                ELSE rec[b].remote_packet_counter + 1
<1>2. /\ n \in Nat
      /\ Misrouted(rec[b], MigrationThreshold)
            = [rec[b] EXCEPT !.remote_packet_counter = n]
  BY <1>1 DEF Misrouted, Records
<1>. HIDE DEF n
<1>. DEFINE k == [rec[b] EXCEPT !.remote_packet_counter = n]
<1>3. k \in Records /\ Replicated(k) = Replicated(rec[b]) /\ k.state = rec[b].state
  BY <1>1, <1>2 DEF Records, Replicated
<1>. HIDE DEF k
<1>4. rec' = [rec EXCEPT ![b] = k]
  BY <1>2 DEF PacketMisrouted, k
<1>5. rec' \in [Boxes -> Records]
  BY <1>1, <1>3, <1>4
<1>6. \A a \in Boxes :
        /\ Replicated(rec'[a]) = Replicated(rec[a])
        /\ rec'[a].state = rec[a].state
  BY <1>1, <1>3, <1>4
<1>7. \A a \in Boxes :
        /\ rec'[a].owner_box = rec[a].owner_box
        /\ rec'[a].generation = rec[a].generation
        /\ rec'[a].owner_epoch = rec[a].owner_epoch
  BY <1>6 DEF Replicated
<1>8. sent' = sent /\ inflight' = inflight /\ misroutes' \in [Boxes -> Nat]
  BY <1>1 DEF PacketMisrouted
<1>9. TypeOK'
  BY <1>1, <1>5, <1>8 DEF TypeOK
<1>10. \A a \in Boxes : \A g : Beats(g, rec[a])' <=> Beats(g, rec[a])
  BY <1>7 DEF Beats
<1>11. OwnClaimsCovered' /\ PendingOrSeen' /\ OnlyLatestIsNews'
  BY <1>6, <1>8, <1>10, BoxFacts
  DEF IInv, OwnClaimsCovered, PendingOrSeen, OnlyLatestIsNews
<1>12. BeliefsWerePublished' /\ StateMatchesOwner'
  BY <1>6, <1>7, <1>8 DEF IInv, BeliefsWerePublished, StateMatchesOwner
<1>13. ClaimsAreDistinct' /\ InflightWasSent'
  BY <1>8 DEF IInv, ClaimsAreDistinct, InflightWasSent
<1>14. ForwardTargetOwns'
  BY <1>6, <1>7, BoxFacts DEF IInv, ForwardTargetOwns, HoldsLocally, Agree
<1>. QED
  BY <1>9, <1>11, <1>12, <1>13, <1>14 DEF IInv

(* A frame arrives, for the first time or again: whatever the precedence   *)
(* rule decides, the boxes stay consistent.                                *)
LEMMA ReceivePreserves ==
    ASSUME IInv, NEW b \in Boxes, NEW f \in sent[Other(b)], Receive(b, f),
           sent' = sent,
           \/ inflight' = inflight
           \/ inflight' = [inflight EXCEPT ![b] = @ \ {f}]
    PROVE  IInv'
<1>. DEFINE p == Other(b)
            s == Received(rec[b], f)
<1>1. /\ p \in Boxes /\ p # b /\ Other(p) = b
      /\ \A a \in Boxes : a = b \/ a = p
  BY BoxFacts
<1>2. /\ rec \in [Boxes -> Records] /\ rec[b] \in Records /\ rec[p] \in Records
      /\ sent \in [Boxes -> SUBSET Frames] /\ inflight \in [Boxes -> SUBSET Frames]
      /\ misroutes \in [Boxes -> Nat] /\ f \in Frames
  BY <1>1 DEF IInv, TypeOK
<1>3. /\ s \in Records
      /\ Beats(f, rec[b]) => Replicated(s) = Replicated(f) /\ s.state = "REMOTE"
      /\ ~Beats(f, rec[b]) => s = rec[b]
  BY <1>2, ReceivedClaim
<1>4. rec'[b] = s /\ rec'[p] = rec[p] /\ rec' \in [Boxes -> Records]
  BY <1>1, <1>2, <1>3 DEF Receive
<1>5. /\ inflight'[p] = inflight[p]
      /\ inflight'[b] \subseteq inflight[b] /\ inflight[b] \subseteq inflight'[b] \cup {f}
      /\ inflight' \in [Boxes -> SUBSET Frames]
  BY <1>1, <1>2
<1>6. \A g \in sent[b] \cup sent[p] \cup inflight[b] \cup inflight[p] : HasKey(g)
  BY <1>1, <1>2, KeyFacts
<1>7. HasKey(rec[b]) /\ HasKey(rec[p]) /\ HasKey(s) /\ HasKey(f)
  BY <1>2, <1>3, KeyFacts
<1>8. ~Beats(f, s)
  BY <1>3, <1>7 DEF Beats, Replicated, HasKey
<1>9. ASSUME NEW g, HasKey(g), ~Beats(g, rec[b])
      PROVE  ~Beats(g, s)
  <2>1. ~Beats(rec[b], s)
    BY <1>3, <1>7 DEF Beats, Replicated, HasKey
  <2>. QED
    BY <1>7, <1>9, <2>1, WeakerTransitive
<1>10. f.owner_box = p /\ ~Beats(f, rec[p])
  BY <1>1 DEF IInv, OwnClaimsCovered
<1>11. TypeOK'
  BY <1>2, <1>4, <1>5 DEF TypeOK, Receive
<1>12. OwnClaimsCovered'
  <2>1. \A g \in sent[b] : ~Beats(g, s)
    BY <1>6, <1>9 DEF IInv, OwnClaimsCovered
  <2>. QED
    BY <1>1, <1>4, <2>1 DEF IInv, OwnClaimsCovered
<1>13. BeliefsWerePublished'
  BY <1>1, <1>3, <1>4 DEF IInv, BeliefsWerePublished
<1>14. StateMatchesOwner'
  <2>1. CASE Beats(f, rec[b])
    <3>1. s.owner_box = p /\ s.state = "REMOTE"
      BY <1>3, <1>10, <2>1 DEF Replicated
    <3>. QED
      BY <1>1, <1>4, <3>1, BoxFacts DEF IInv, StateMatchesOwner
  <2>2. CASE ~Beats(f, rec[b])
    BY <1>1, <1>3, <1>4, <2>2 DEF IInv, StateMatchesOwner
  <2>. QED
    BY <2>1, <2>2
<1>15. ClaimsAreDistinct' /\ InflightWasSent'
  BY <1>1, <1>5 DEF IInv, ClaimsAreDistinct, InflightWasSent
<1>16. PendingOrSeen'
  <2>1. ASSUME NEW g \in sent[p], Beats(g, s)
        PROVE  \E h \in inflight'[b] : ~Beats(g, h)
    <3>1. PICK h \in inflight[b] : ~Beats(g, h)
      BY <1>6, <1>9, <2>1 DEF IInv, PendingOrSeen
    <3>2. h # f
      BY <1>6, <1>7, <1>8, <2>1, <3>1, WeakerTransitive
    <3>. QED
      BY <1>5, <3>1, <3>2
  <2>. QED
    BY <1>1, <1>4, <1>5, <2>1 DEF IInv, PendingOrSeen
<1>17. OnlyLatestIsNews'
  <2>1. \A g \in sent[p] : Beats(g, s) => Replicated(g) = Replicated(rec[p])
    BY <1>1, <1>6, <1>9 DEF IInv, OnlyLatestIsNews
  <2>2. ASSUME NEW g \in sent[b], Beats(g, rec[p])
        PROVE  Replicated(g) = Replicated(s)
    <3>1. Replicated(g) = Replicated(rec[b])
      BY <2>2 DEF IInv, OnlyLatestIsNews
    <3>2. ASSUME Beats(f, rec[b]) PROVE FALSE
      <4>1. ~Beats(g, f)
        BY <1>7, <3>1, <3>2 DEF Beats, Replicated, HasKey
      <4>. QED
        BY <1>6, <1>7, <1>10, <2>2, <4>1, WeakerTransitive
    <3>. QED
      BY <1>3, <3>1, <3>2
  <2>. QED
    BY <1>1, <1>4, <2>1, <2>2 DEF OnlyLatestIsNews
<1>18. ForwardTargetOwns'
  <2>1. CASE ~Beats(f, rec[b])
    BY <1>1, <1>3, <1>4, <2>1, BoxFacts
    DEF IInv, ForwardTargetOwns, HoldsLocally, Agree
  <2>2. CASE Beats(f, rec[b])
    <3>1. Replicated(f) = Replicated(rec[p])
      BY <1>1, <2>2 DEF IInv, OnlyLatestIsNews
    <3>2. rec[p].owner_box = p
      BY <1>10, <3>1 DEF Replicated
    <3>3. HoldsLocally(rec[p], p)
      BY <1>1, <3>2 DEF IInv, StateMatchesOwner, HoldsLocally
    <3>4. Replicated(rec'[b]) = Replicated(rec'[p])
      BY <1>3, <1>4, <2>2, <3>1
    <3>5. Agree'
      BY <1>1, <3>4, BoxFacts DEF Agree
    <3>. QED
      BY <1>1, <1>4, <3>2, <3>3, <3>5 DEF ForwardTargetOwns, HoldsLocally
  <2>. QED
    BY <2>1, <2>2
<1>. QED
  BY <1>11, <1>12, <1>13, <1>14, <1>15, <1>16, <1>17, <1>18 DEF IInv

-----------------------------------------------------------------------------
LEMMA NextPreserves ==
    ASSUME NoWrap, IInv, [Next]_vars
    PROVE  IInv'
<1>1. CASE UNCHANGED vars
  BY <1>1
  DEF vars, IInv, TypeOK, OwnClaimsCovered, BeliefsWerePublished, StateMatchesOwner,
      ClaimsAreDistinct, InflightWasSent, PendingOrSeen, OnlyLatestIsNews,
      ForwardTargetOwns, Agree
<1>2. ASSUME NEW b \in Boxes, NEW now \in Clock, Claim(b, now)
      PROVE  IInv'
  BY <1>2, TakeOverPreserves DEF Claim
<1>3. ASSUME NEW b \in Boxes, NEW now \in Clock, PacketClaims(b, now)
      PROVE  IInv'
  <2>1. ~HoldsLocally(rec[b], b)
    BY <1>3, BoxFacts DEF PacketClaims, HoldsLocally
  <2>. QED
    BY <1>3, <2>1, TakeOverPreserves DEF PacketClaims
<1>4. ASSUME NEW b \in Boxes, PacketMisrouted(b)
      PROVE  IInv'
  BY <1>4, MisroutePreserves
<1>5. ASSUME NEW b \in Boxes, NEW f \in inflight[b], Deliver(b, f)
      PROVE  IInv'
  BY <1>5, ReceivePreserves DEF Deliver, IInv, InflightWasSent
<1>6. ASSUME NEW b \in Boxes, NEW f \in sent[Other(b)], Redeliver(b, f)
      PROVE  IInv'
  BY <1>6, ReceivePreserves DEF Redeliver
<1>. QED
  BY <1>1, <1>2, <1>3, <1>4, <1>5, <1>6 DEF Next

(***************************************************************************)
(* IInv holds in every reachable state.                                    *)
(***************************************************************************)
THEOREM Invariant == NoWrap => (Spec => []IInv)
<1>. SUFFICES ASSUME NoWrap PROVE Spec => []IInv
  OBVIOUS
<1>1. IInv /\ [Next]_vars => IInv'
  BY NextPreserves
<1>. QED
  BY InitInvariant, <1>1, PTL DEF Spec

(* Every record, frame and counter keeps its type.                         *)
THEOREM TypeCorrect == NoWrap => (Spec => []TypeOK)
<1>1. IInv => TypeOK
  BY DEF IInv
<1>. QED
  BY <1>1, Invariant, PTL

(***************************************************************************)
(* A box forwards packets only to a box that holds the subscriber, however *)
(* frames are delayed, reordered and repeated (subown.c:189-200).          *)
(***************************************************************************)
THEOREM ForwardingIsSafe == NoWrap => (Spec => []ForwardTargetOwns)
<1>1. IInv => ForwardTargetOwns
  BY DEF IInv
<1>. QED
  BY <1>1, Invariant, PTL

-----------------------------------------------------------------------------
(***************************************************************************)
(* With nothing in flight every published claim is covered by both         *)
(* records.  So neither record beats the other, unless one of them is a    *)
(* birth record of a later epoch; and records of equal precedence come     *)
(* from the same frame.                                                    *)
(***************************************************************************)
LEMMA QuietRecordsCover ==
    ASSUME IInv, Quiet, NEW a \in Boxes, NEW f \in sent[a], NEW b \in Boxes
    PROVE  ~Beats(f, rec[b])
<1>1. CASE a = b
  BY <1>1 DEF IInv, OwnClaimsCovered
<1>2. CASE a = Other(b)
  BY <1>2 DEF IInv, PendingOrSeen, Quiet
<1>. QED
  BY <1>1, <1>2, BoxFacts

(* Two boxes that believe published claims of the same key believe the     *)
(* same claim.                                                             *)
LEMMA SameKeySameClaim ==
    ASSUME IInv, NEW a \in Boxes, NEW b \in Boxes,
           NEW f \in sent[a], NEW g \in sent[b], SameKey(f, g)
    PROVE  f = g
<1>1. a = b
  BY DEF IInv, OwnClaimsCovered, SameKey
<1>. QED
  BY <1>1 DEF IInv, ClaimsAreDistinct, SameKey

LEMMA QuietAgreement == IInv => QuiescentAgreement
<1>. SUFFICES ASSUME IInv, Quiet, \A b \in Boxes : ~SilentNewcomer(b)
              PROVE  Agree
  BY DEF QuiescentAgreement
<1>. DEFINE Untouched(b) == Replicated(rec[b]) \in Newborn
<1>1. \A b \in Boxes : rec[b] \in Records /\ HasKey(rec[b])
  BY KeyFacts DEF IInv, TypeOK
<1>2. \A a \in Boxes : \A f \in sent[a] : HasKey(f) /\ f.generation > 0
  BY KeyFacts DEF IInv, TypeOK, OwnClaimsCovered
<1>3. \A b \in Boxes : Untouched(b) =>
        /\ rec[b].generation = 0 /\ rec[b].owner_box = Unowned
        /\ rec[b].activation_ts = 0
  <2>1. \A e : Replicated(FreshRecord(e)) =
                 [owner_epoch |-> e, generation |-> 0,
                  owner_box |-> Unowned, activation_ts |-> 0]
    BY DEF Replicated, FreshRecord
  <2>. QED
    BY <2>1 DEF Replicated, Newborn
<1>4. \A b \in Boxes : ~Untouched(b) =>
        \E a \in Boxes : \E f \in sent[a] : Replicated(f) = Replicated(rec[b])
  BY DEF IInv, BeliefsWerePublished
<1>5. ASSUME NEW b \in Boxes, ~Untouched(b)
      PROVE  \A d \in Boxes : ~Beats(rec[b], rec[d])
  <2>1. PICK a \in Boxes : \E f \in sent[a] : Replicated(f) = Replicated(rec[b])
    BY <1>4, <1>5
  <2>2. PICK f \in sent[a] : Replicated(f) = Replicated(rec[b])
    BY <2>1
  <2>. QED
    BY <2>2, QuietRecordsCover DEF Beats, Replicated
<1>6. ASSUME NEW b \in Boxes, ~Untouched(b)
      PROVE  ~Untouched(Other(b))
  <2>. SUFFICES ASSUME Untouched(Other(b)) PROVE FALSE
    OBVIOUS
  <2>. DEFINE p == Other(b)
  <2>1. p \in Boxes /\ Other(p) = b
    BY BoxFacts
  <2>2. ~Beats(rec[b], rec[p])
    BY <1>5, <1>6, <2>1
  <2>3. rec[b].generation > 0
    BY <1>2, <1>4, <1>6 DEF Replicated
  <2>4. rec[p].generation = 0 /\ rec[p].owner_box = Unowned
    BY <1>3, <2>1
  <2>5. rec[p].owner_epoch > rec[b].owner_epoch
    BY <1>1, <2>1, <2>2, <2>3, <2>4 DEF Beats, HasKey
  <2>. QED
    BY <2>1, <2>4, <2>5 DEF SilentNewcomer
<1>7. CASE \A b \in Boxes : Untouched(b)
  <2>1. rec[0].owner_epoch = rec[1].owner_epoch
    BY <1>1, <1>3, <1>7 DEF SilentNewcomer, Boxes, Other, HasKey
  <2>. QED
    BY <1>3, <1>7, <2>1 DEF Boxes, Agree, Replicated
<1>8. CASE \A b \in Boxes : ~Untouched(b)
  <2>1. SameKey(rec[0], rec[1])
    BY <1>1, <1>5, <1>8, BeatsTotal DEF Boxes
  <2>2. PICK a0 \in Boxes : \E f \in sent[a0] : Replicated(f) = Replicated(rec[0])
    BY <1>4, <1>8 DEF Boxes
  <2>3. PICK a1 \in Boxes : \E f \in sent[a1] : Replicated(f) = Replicated(rec[1])
    BY <1>4, <1>8 DEF Boxes
  <2>4. PICK f \in sent[a0] : Replicated(f) = Replicated(rec[0])
    BY <2>2
  <2>5. PICK g \in sent[a1] : Replicated(g) = Replicated(rec[1])
    BY <2>3
  <2>6. SameKey(f, g)
    BY <2>1, <2>4, <2>5 DEF SameKey, Replicated
  <2>7. f = g
    BY <2>6, SameKeySameClaim
  <2>. QED
    BY <2>4, <2>5, <2>7 DEF Agree
<1>. QED
  BY <1>6, <1>7, <1>8, BoxFacts

(***************************************************************************)
(* Convergence: whatever order the frames arrived in, once none is left    *)
(* the boxes believe the same claim (spec B4, C1, C2 and D1).              *)
(***************************************************************************)
THEOREM Convergence == NoWrap => (Spec => []QuiescentAgreement)
BY QuietAgreement, Invariant, PTL

(***************************************************************************)
(* Two boxes never process the same subscriber locally without the frame   *)
(* that will make one of them yield being on its way.                      *)
(***************************************************************************)
THEOREM SplitBrainEnds == NoWrap => (Spec => []SplitBrainIsEnding)
<1>1. ASSUME IInv, NEW a \in Boxes, rec[a].owner_box = a, Beats(rec[a], rec[Other(a)])
      PROVE  \E f \in inflight[Other(a)] : Beats(f, rec[Other(a)])
  <2>. DEFINE p == Other(a)
  <2>1. p \in Boxes /\ Other(p) = a
    BY BoxFacts
  <2>2. Replicated(rec[a]) \notin Newborn
    BY <1>1, BoxFacts DEF Newborn, Replicated, FreshRecord
  <2>3. PICK c \in Boxes : \E f \in sent[c] : Replicated(f) = Replicated(rec[a])
    BY <1>1, <2>2 DEF IInv, BeliefsWerePublished
  <2>4. PICK f \in sent[c] : Replicated(f) = Replicated(rec[a])
    BY <2>3
  <2>5. c = a
    BY <1>1, <2>4 DEF IInv, OwnClaimsCovered, Replicated
  <2>6. Beats(f, rec[p])
    BY <1>1, <2>4 DEF Beats, Replicated
  <2>7. PICK g \in inflight[p] : ~Beats(f, g)
    BY <1>1, <2>1, <2>4, <2>5, <2>6 DEF IInv, PendingOrSeen
  <2>8. HasKey(f) /\ HasKey(g) /\ HasKey(rec[p])
    BY <1>1, <2>1, KeyFacts DEF IInv, TypeOK
  <2>9. Beats(g, rec[p])
    BY <2>6, <2>7, <2>8, WeakerTransitive
  <2>. QED
    BY <2>9
<1>2. IInv => SplitBrainIsEnding
  <2>. SUFFICES ASSUME IInv, \A b \in Boxes : HoldsLocally(rec[b], b)
                PROVE  \E b \in Boxes : \E f \in inflight[b] : Beats(f, rec[b])
    BY DEF SplitBrainIsEnding
  <2>1. \A b \in Boxes : rec[b].owner_box = b /\ HasKey(rec[b])
    BY KeyFacts DEF HoldsLocally, IInv, TypeOK
  <2>2. PICK a \in Boxes : Beats(rec[a], rec[Other(a)])
    <3>1. ~SameKey(rec[0], rec[1])
      BY <2>1 DEF SameKey, Boxes
    <3>2. Beats(rec[0], rec[1]) \/ Beats(rec[1], rec[0])
      BY <2>1, <3>1, BeatsTotal DEF Boxes
    <3>. QED
      BY <3>2 DEF Boxes, Other
  <2>. QED
    BY <1>1, <2>1, <2>2, BoxFacts
<1>. QED
  BY <1>2, Invariant, PTL

-----------------------------------------------------------------------------
(***************************************************************************)
(* Epochs and generations only go up.                                      *)
(***************************************************************************)
RecordMovesUp(r, s) ==
    /\ s.owner_epoch >= r.owner_epoch
    /\ s.owner_epoch = r.owner_epoch => s.generation >= r.generation

LEMMA ReceivedMovesUp ==
    ASSUME NEW r \in Records, NEW f \in Frames
    PROVE  RecordMovesUp(r, Received(r, f))
<1>1. HasKey(r) /\ HasKey(f)
  BY KeyFacts
<1>2. CASE Beats(f, r)
  <2>1. Replicated(Received(r, f)) = Replicated(f)
    BY <1>2, ReceivedClaim
  <2>. QED
    BY <1>1, <1>2, <2>1 DEF RecordMovesUp, Replicated, Beats, HasKey
<1>3. CASE ~Beats(f, r)
  BY <1>1, <1>3, ReceivedClaim DEF RecordMovesUp, HasKey
<1>. QED
  BY <1>2, <1>3

LEMMA StepMovesUp ==
    ASSUME NoWrap, IInv, [Next]_vars, NEW a \in Boxes
    PROVE  RecordMovesUp(rec[a], rec'[a])
<1>1. /\ \A b \in Boxes : rec[b] \in Records /\ HasKey(rec[b])
      /\ rec \in [Boxes -> Records]
  BY KeyFacts DEF IInv, TypeOK
<1>2. RecordMovesUp(rec[a], rec[a])
  BY <1>1 DEF RecordMovesUp, HasKey
<1>3. ASSUME NEW b \in Boxes, NEW r, RecordMovesUp(rec[b], r),
             rec' = [rec EXCEPT ![b] = r]
      PROVE  RecordMovesUp(rec[a], rec'[a])
  BY <1>1, <1>2, <1>3
<1>4. CASE UNCHANGED vars
  BY <1>2, <1>4 DEF vars
<1>5. ASSUME NEW b \in Boxes, NEW now \in Clock, TakeOver(b, now)
      PROVE  RecordMovesUp(rec[a], rec'[a])
  <2>1. RecordMovesUp(rec[b], Claimed(rec[b], b, now))
    BY <1>1, <1>5, ClaimedIsStronger DEF TakeOver, RecordMovesUp, HasKey
  <2>. QED
    BY <1>3, <1>5, <2>1 DEF TakeOver
<1>6. ASSUME NEW b \in Boxes, PacketMisrouted(b)
      PROVE  RecordMovesUp(rec[a], rec'[a])
  <2>1. RecordMovesUp(rec[b], Misrouted(rec[b], MigrationThreshold))
    BY <1>1 DEF RecordMovesUp, Misrouted, Records, HasKey
  <2>. QED
    BY <1>3, <1>6, <2>1 DEF PacketMisrouted
<1>7. ASSUME NEW b \in Boxes, NEW f \in sent[Other(b)], Receive(b, f)
      PROVE  RecordMovesUp(rec[a], rec'[a])
  <2>1. f \in Frames
    BY <1>7, BoxFacts DEF IInv, TypeOK
  <2>. QED
    BY <1>1, <1>3, <1>7, <2>1, ReceivedMovesUp DEF Receive
<1>8. \A b \in Boxes : inflight[b] \subseteq sent[Other(b)]
  BY DEF IInv, InflightWasSent
<1>. QED
  BY <1>4, <1>5, <1>6, <1>7, <1>8 DEF Next, Claim, PacketClaims, Deliver, Redeliver

(***************************************************************************)
(* The accepted epoch never decreases, nor does the generation within an   *)
(* epoch, as long as no generation wraps.  A claim of a later epoch may    *)
(* carry a lower generation and is accepted (subown.c:51).                 *)
(***************************************************************************)
THEOREM GenerationMonotonic == NoWrap => (Spec => GenerationNeverDrops)
<1>. SUFFICES ASSUME NoWrap PROVE Spec => GenerationNeverDrops
  OBVIOUS
<1>1. IInv /\ [Next]_vars =>
        [\A b \in Boxes :
          /\ rec'[b].owner_epoch >= rec[b].owner_epoch
          /\ rec'[b].owner_epoch = rec[b].owner_epoch =>
                rec'[b].generation >= rec[b].generation]_vars
  BY StepMovesUp DEF RecordMovesUp
<1>. QED
  BY <1>1, Invariant, PTL DEF Spec, GenerationNeverDrops

-----------------------------------------------------------------------------
(***************************************************************************)
(* The misroute counter.                                                   *)
(***************************************************************************)
\* The counter c agrees with m misrouted packets.
Counts(c, m) ==
    c = IF MigrationThreshold = 0 THEN m ELSE m % (MigrationThreshold + 1)

LEMMA CountsFacts ==
    /\ Counts(0, 0)
    /\ \A r \in Records : \A m \in Nat : Counts(r.remote_packet_counter, m) =>
          Counts(Misrouted(r, MigrationThreshold).remote_packet_counter, m + 1)
<1>1. Counts(0, 0)
  BY ThresholdAssumption DEF Counts
<1>2. ASSUME NEW r \in Records, NEW m \in Nat, Counts(r.remote_packet_counter, m)
      PROVE  Counts(Misrouted(r, MigrationThreshold).remote_packet_counter, m + 1)
  <2>1. Misrouted(r, MigrationThreshold).remote_packet_counter =
          IF ReachesThreshold(r, MigrationThreshold) THEN 0
          ELSE r.remote_packet_counter + 1
    BY DEF Misrouted, Records
  <2>2. CASE MigrationThreshold = 0
    BY <1>2, <2>1, <2>2 DEF ReachesThreshold, Counts
  <2>3. CASE MigrationThreshold # 0
    <3>. DEFINE N == MigrationThreshold + 1
    <3>1. N \in Nat \ {0}
      BY ThresholdAssumption
    <3>2. r.remote_packet_counter = m % N
      BY <1>2, <2>3 DEF Counts
    <3>3. m % N \in 0 .. N - 1
      BY <3>1
    <3>4. (m + 1) % N = IF (m % N) + 1 = N THEN 0 ELSE (m % N) + 1
      BY <3>1, SuccRemainder
    <3>5. ReachesThreshold(r, MigrationThreshold) <=> (m % N) + 1 = N
      BY <2>3, <3>2, <3>3, ThresholdAssumption DEF ReachesThreshold
    <3>6. Misrouted(r, MigrationThreshold).remote_packet_counter = (m + 1) % N
      BY <2>1, <3>2, <3>4, <3>5
    <3>. QED
      BY <2>3, <3>6 DEF Counts
  <2>. QED
    BY <2>2, <2>3
<1>. QED
  BY <1>1, <1>2

LEMMA CounterPreserved ==
    ASSUME NoWrap, IInv, CounterInv, [Next]_vars
    PROVE  CounterInv'
<1>. USE BoxFacts
<1>1. /\ rec \in [Boxes -> Records] /\ misroutes \in [Boxes -> Nat]
      /\ \A b \in Boxes : HasKey(rec[b]) /\ rec[b] \in Records
  BY KeyFacts DEF IInv, TypeOK
<1>2. CounterInv <=>
        \A b \in Boxes :
          /\ Counts(rec[b].remote_packet_counter, misroutes[b])
          /\ rec[b].owner_box # Other(b) =>
                rec[b].remote_packet_counter = 0 /\ misroutes[b] = 0
  BY DEF CounterInv, CounterIsFresh, CounterCountsThisOwnership, Counts
<1>3. ASSUME NEW b \in Boxes, NEW r, NEW m,
             rec' = [rec EXCEPT ![b] = r], misroutes' = [misroutes EXCEPT ![b] = m],
             Counts(r.remote_packet_counter, m),
             r.owner_box # Other(b) => r.remote_packet_counter = 0 /\ m = 0
      PROVE  CounterInv'
  <2>1. \A a \in Boxes :
          /\ Counts(rec'[a].remote_packet_counter, misroutes'[a])
          /\ rec'[a].owner_box # Other(a) =>
                rec'[a].remote_packet_counter = 0 /\ misroutes'[a] = 0
    BY <1>1, <1>2, <1>3
  <2>. QED
    BY <2>1 DEF CounterInv, CounterIsFresh, CounterCountsThisOwnership, Counts
<1>4. CASE UNCHANGED vars
  BY <1>4 DEF vars, CounterInv, CounterIsFresh, CounterCountsThisOwnership
<1>5. ASSUME NEW b \in Boxes, NEW now \in Clock, TakeOver(b, now)
      PROVE  CounterInv'
  <2>1. Claimed(rec[b], b, now).remote_packet_counter = 0
    BY <1>1 DEF Claimed, Records
  <2>. QED
    BY <1>3, <1>5, <2>1, CountsFacts DEF TakeOver
<1>6. ASSUME NEW b \in Boxes, PacketMisrouted(b)
      PROVE  CounterInv'
  <2>. DEFINE r == Misrouted(rec[b], MigrationThreshold)
  <2>1. r.owner_box = Other(b)
    BY <1>1, <1>6 DEF PacketMisrouted, Misrouted, Records
  <2>2. Counts(r.remote_packet_counter, misroutes[b] + 1)
    BY <1>1, <1>2, CountsFacts
  <2>. QED
    BY <1>3, <1>6, <2>1, <2>2 DEF PacketMisrouted
<1>7. ASSUME NEW b \in Boxes, NEW f \in sent[Other(b)], Receive(b, f)
      PROVE  CounterInv'
  <2>. DEFINE p == Other(b)
              s == Received(rec[b], f)
  <2>1. f \in Frames /\ HasKey(f) /\ p \in Boxes /\ Other(p) = b
    BY <1>7, KeyFacts DEF IInv, TypeOK
  <2>2. rec' = [rec EXCEPT ![b] = s] /\ rec'[b] = s
    BY <1>1, <1>7 DEF Receive
  <2>3. CASE ~Beats(f, rec[b])
    <3>1. s = rec[b]
      BY <1>1, <2>1, <2>3, ReceivedClaim
    <3>2. misroutes' = [misroutes EXCEPT ![b] = misroutes[b]]
      BY <1>7, <2>2, <3>1 DEF Receive
    <3>. QED
      BY <1>2, <1>3, <2>2, <3>1, <3>2
  <2>4. CASE Beats(f, rec[b])
    <3>1. /\ Replicated(s) = Replicated(f)
          /\ s.remote_packet_counter = rec[b].remote_packet_counter
      BY <1>1, <2>1, <2>4, ReceivedClaim
    <3>2. rec[b].owner_box # p
      <4>. SUFFICES ASSUME rec[b].owner_box = p PROVE FALSE
        OBVIOUS
      <4>1. Agree
        BY DEF IInv, ForwardTargetOwns
      <4>2. Replicated(rec[b]) = Replicated(rec[p])
        BY <2>1, <4>1 DEF Agree
      <4>3. Beats(f, rec[p])
        BY <2>4, <4>2 DEF Beats, Replicated
      <4>. QED
        BY <2>1, <4>3 DEF IInv, OwnClaimsCovered
    <3>3. s.remote_packet_counter = 0
      BY <1>2, <3>1, <3>2
    <3>4. Replicated(s) # Replicated(rec[b])
      BY <1>1, <2>1, <2>4, <3>1 DEF Beats, Replicated, HasKey
    <3>5. misroutes' = [misroutes EXCEPT ![b] = 0]
      BY <1>7, <2>2, <3>4 DEF Receive
    <3>. QED
      BY <1>3, <2>2, <3>3, <3>5, CountsFacts
  <2>. QED
    BY <2>3, <2>4
<1>8. \A b \in Boxes : inflight[b] \subseteq sent[Other(b)]
  BY DEF IInv, InflightWasSent
<1>. QED
  BY <1>4, <1>5, <1>6, <1>7, <1>8 DEF Next, Claim, PacketClaims, Deliver, Redeliver

(***************************************************************************)
(* The counter of misrouted packets never carries over from one ownership  *)
(* to the next, although adopting a claim does not clear it                *)
(* (subown.c:51-109 leaves it alone, subown.c:190 counts on).              *)
(***************************************************************************)
THEOREM CounterIsPerOwnership == NoWrap => (Spec => []CounterCountsThisOwnership)
<1>. SUFFICES ASSUME NoWrap PROVE Spec => []CounterCountsThisOwnership
  OBVIOUS
<1>1. Init => CounterInv
  <2>. SUFFICES ASSUME Init PROVE CounterInv
    OBVIOUS
  <2>1. \A e : FreshRecord(e).remote_packet_counter = 0
    BY DEF FreshRecord
  <2>2. \A b \in Boxes : rec[b].remote_packet_counter = 0 /\ misroutes[b] = 0
    BY <2>1 DEF Init
  <2>. QED
    BY <2>2, CountsFacts
    DEF CounterInv, CounterIsFresh, CounterCountsThisOwnership, Counts
<1>2. IInv /\ CounterInv /\ [Next]_vars => CounterInv'
  BY CounterPreserved
<1>3. CounterInv => CounterCountsThisOwnership
  BY DEF CounterInv
<1>. QED
  BY <1>1, <1>2, <1>3, Invariant, PTL DEF Spec

-----------------------------------------------------------------------------
(***************************************************************************)
(* Replication implements OwnershipRegister: every step of the boxes is a  *)
(* claim, a lesson learnt, or nothing, of the abstract register.           *)
(***************************************************************************)
RegisterVars == <<Beliefs, PublicClaims>>

LEMMA ReplicatedFacts ==
    ASSUME NEW r
    PROVE  /\ Replicated(r).owner_epoch = r.owner_epoch
           /\ Replicated(r).generation = r.generation
           /\ Replicated(r).owner_box = r.owner_box
BY DEF Replicated

(* A takeover is a claim of the register, published as it is made.         *)
LEMMA TakeOverClaims ==
    ASSUME NoWrap, IInv, NEW b \in Boxes, NEW now \in Clock,
           rec[b].owner_box # b, TakeOver(b, now), Publish(b)
    PROVE  Register!ClaimOwnership(b)
<1>. DEFINE p == Other(b)
            s == Claimed(rec[b], b, now)
            f == Encode(UpdateOf(s))
            c == Replicated(s)
<1>1. /\ p \in Boxes /\ p # b /\ \A a \in Boxes : a = b \/ a = p
      /\ Boxes = {0, 1}
  BY BoxFacts
<1>2. /\ rec \in [Boxes -> Records] /\ rec[b] \in Records
      /\ sent \in [Boxes -> SUBSET Frames]
  BY DEF IInv, TypeOK
<1>3. /\ s \in Records /\ s.generation = rec[b].generation + 1
      /\ s.owner_epoch = rec[b].owner_epoch /\ s.owner_box = b
  BY <1>2, ClaimedIsStronger DEF TakeOver
<1>4. Replicated(f) = c
  BY <1>3, PublishedClaim
<1>5. rec' = [rec EXCEPT ![b] = s]
  BY DEF TakeOver
<1>6. rec'[b] = s
  BY <1>2, <1>5
<1>7. sent' = [sent EXCEPT ![b] = @ \cup {f}]
  BY <1>6 DEF Publish
<1>. HIDE DEF s, f
<1>8. Beliefs' = [Beliefs EXCEPT ![b] = c]
  <2>1. \A a \in Boxes : rec'[a] = IF a = b THEN s ELSE rec[a]
    BY <1>2, <1>5
  <2>. QED
    BY <2>1 DEF Beliefs
<1>9. PublicClaims' = PublicClaims \cup {c}
  <2>1. sent'[0] \cup sent'[1] = sent[0] \cup sent[1] \cup {f}
    BY <1>1, <1>2, <1>7
  <2>. QED
    BY <1>4, <2>1 DEF PublicClaims
<1>10. /\ Beliefs[b].owner_box = rec[b].owner_box
       /\ Beliefs[b].owner_epoch = rec[b].owner_epoch
       /\ Beliefs[b].generation = rec[b].generation
       /\ Beliefs'[b] = c
  BY <1>6, ReplicatedFacts DEF Beliefs
<1>11. /\ c.owner_box = b /\ c.owner_epoch = rec[b].owner_epoch
       /\ c.generation = rec[b].generation + 1
  BY <1>3, ReplicatedFacts
<1>. QED
  BY <1>8, <1>9, <1>10, <1>11 DEF Register!ClaimOwnership

(* A frame teaches its receiver the claim it carries, or nothing.          *)
LEMMA ReceiveLearns ==
    ASSUME IInv, NEW b \in Boxes, NEW f \in sent[Other(b)], Receive(b, f),
           sent' = sent
    PROVE  Register!Learn(b) \/ UNCHANGED RegisterVars
<1>. DEFINE s == Received(rec[b], f)
<1>1. rec \in [Boxes -> Records] /\ rec[b] \in Records /\ f \in Frames
  BY BoxFacts DEF IInv, TypeOK
<1>2. /\ Beats(f, rec[b]) => Replicated(s) = Replicated(f)
      /\ ~Beats(f, rec[b]) => s = rec[b]
  BY <1>1, ReceivedClaim
<1>3. \A a \in Boxes : rec'[a] = IF a = b THEN s ELSE rec[a]
  BY <1>1 DEF Receive
<1>4. PublicClaims' = PublicClaims
  BY DEF PublicClaims
<1>. HIDE DEF s
<1>5. CASE Beats(f, rec[b])
  <2>1. Beliefs' = [Beliefs EXCEPT ![b] = Replicated(f)]
    BY <1>2, <1>3, <1>5 DEF Beliefs
  <2>2. Replicated(f) \in PublicClaims
    BY BoxFacts DEF PublicClaims
  <2>3. Beats(Replicated(f), Beliefs[b])
    BY <1>5, ReplicatedFacts DEF Beats, Beliefs
  <2>. QED
    BY <1>4, <2>1, <2>2, <2>3 DEF Register!Learn, Register!Beats, Beats
<1>6. CASE ~Beats(f, rec[b])
  <2>1. Beliefs' = Beliefs
    BY <1>2, <1>3, <1>6 DEF Beliefs
  <2>. QED
    BY <1>4, <2>1 DEF RegisterVars
<1>. QED
  BY <1>5, <1>6

(* Counting a misrouted packet changes no belief.                          *)
LEMMA MisrouteIsSilent ==
    ASSUME IInv, NEW b \in Boxes, PacketMisrouted(b)
    PROVE  UNCHANGED RegisterVars
<1>1. rec \in [Boxes -> Records]
  BY DEF IInv, TypeOK
<1>2. Replicated(Misrouted(rec[b], MigrationThreshold)) = Replicated(rec[b])
  BY <1>1 DEF Misrouted, Replicated, Records
<1>3. rec' = [rec EXCEPT ![b] = Misrouted(rec[b], MigrationThreshold)] /\ sent' = sent
  BY DEF PacketMisrouted
<1>4. \A a \in Boxes : Replicated(rec'[a]) = Replicated(rec[a])
  BY <1>1, <1>2, <1>3
<1>. QED
  BY <1>3, <1>4 DEF RegisterVars, Beliefs, PublicClaims

(***************************************************************************)
(* The records and frames of Replication implement the register: a box     *)
(* changes its mind only by claiming or by learning a stronger claim that  *)
(* was really made (subown_claim_local and subown_apply_remote_update).    *)
(***************************************************************************)
THEOREM RegisterImplemented == NoWrap => (Spec => ImplementsRegister)
<1>. SUFFICES ASSUME NoWrap PROVE Spec => ImplementsRegister
  OBVIOUS
<1>1. Init => Register!RegisterInit
  <2>. SUFFICES ASSUME Init PROVE Register!RegisterInit
    OBVIOUS
  <2>1. \A b \in Boxes : Replicated(rec[b]) \in Newborn /\ sent[b] = {}
    BY DEF Init, Newborn
  <2>2. PublicClaims = {}
    BY <2>1, BoxFacts DEF PublicClaims
  <2>. QED
    BY <2>1, <2>2 DEF Register!RegisterInit, Register!Boxes, Boxes, Beliefs
<1>2. IInv /\ [Next]_vars => [Register!RegisterNext]_RegisterVars
  <2>. SUFFICES ASSUME IInv, [Next]_vars
                PROVE  (\E b \in Boxes : Register!ClaimOwnership(b) \/ Register!Learn(b))
                       \/ UNCHANGED RegisterVars
    BY DEF Register!RegisterNext, Register!Boxes, Boxes
  <2>1. CASE UNCHANGED vars
    BY <2>1 DEF vars, RegisterVars, Beliefs, PublicClaims
  <2>2. ASSUME NEW b \in Boxes, NEW now \in Clock, Claim(b, now)
        PROVE  Register!ClaimOwnership(b)
    <3>1. rec[b].owner_box # b
      BY <2>2 DEF Claim, IInv, StateMatchesOwner, HoldsLocally
    <3>. QED
      BY <2>2, <3>1, TakeOverClaims DEF Claim
  <2>3. ASSUME NEW b \in Boxes, NEW now \in Clock, PacketClaims(b, now)
        PROVE  Register!ClaimOwnership(b)
    <3>1. rec[b].owner_box # b
      BY <2>3, BoxFacts DEF PacketClaims
    <3>. QED
      BY <2>3, <3>1, TakeOverClaims DEF PacketClaims
  <2>4. ASSUME NEW b \in Boxes, NEW f \in inflight[b], Deliver(b, f)
        PROVE  Register!Learn(b) \/ UNCHANGED RegisterVars
    <3>1. f \in sent[Other(b)]
      BY DEF IInv, InflightWasSent
    <3>. QED
      BY <2>4, <3>1, ReceiveLearns DEF Deliver
  <2>5. ASSUME NEW b \in Boxes, NEW f \in sent[Other(b)], Redeliver(b, f)
        PROVE  Register!Learn(b) \/ UNCHANGED RegisterVars
    BY <2>5, ReceiveLearns DEF Redeliver
  <2>. QED
    BY <2>1, <2>2, <2>3, <2>4, <2>5, MisrouteIsSilent DEF Next
<1>. QED
  BY <1>1, <1>2, Invariant, PTL
  DEF Spec, ImplementsRegister, Register!RegisterSpec, Register!registerVars, RegisterVars

-----------------------------------------------------------------------------
(***************************************************************************)
(* Replication with faults.                                                *)
(***************************************************************************)

(***************************************************************************)
(* What a step does to one record, whatever caused it.                     *)
(***************************************************************************)
LEMMA ReplicatedFields ==
    ASSUME NEW r
    PROVE  /\ Replicated(r).owner_epoch = r.owner_epoch
           /\ Replicated(r).generation = r.generation
           /\ Replicated(r).owner_box = r.owner_box
BY DEF Replicated

(* Beats sees only what is replicated.                                     *)
LEMMA BeatsReplicated ==
    ASSUME NEW c, NEW d, NEW e, Replicated(c) = Replicated(d)
    PROVE  /\ Beats(c, e) <=> Beats(d, e)
           /\ Beats(e, c) <=> Beats(e, d)
           /\ Beats(Replicated(c), e) <=> Beats(c, e)
           /\ Beats(e, Replicated(c)) <=> Beats(e, c)
<1>1. /\ c.owner_epoch = d.owner_epoch /\ c.generation = d.generation
      /\ c.owner_box = d.owner_box
  BY ReplicatedFields
<1>. QED
  BY <1>1, ReplicatedFields DEF Beats

LEMMA ReplicatedTyped ==
    /\ \A r \in Records : r.owner_box \in Boxes => Replicated(r) \in Claims
    /\ \A f \in Frames : Replicated(f) \in Claims
    /\ \A c \in Claims : HasKey(c)
<1>1. Generations \subseteq Nat
  BY GenerationModAssumption DEF Generations
<1>. QED
  BY <1>1, BoxFacts DEF Records, Frames, Claims, Replicated, HasKey

(* A claim makes the box the owner, in its epoch, even if it wraps.        *)
LEMMA ClaimedTyped ==
    ASSUME NEW r \in Records, NEW b \in Boxes, NEW now \in Clock
    PROVE  /\ Claimed(r, b, now) \in Records
           /\ Claimed(r, b, now).owner_box = b
           /\ Claimed(r, b, now).state = "LOCAL"
<1>1. r.generation \in Nat
  BY GenerationModAssumption DEF Records, Generations
<1>2. PICK g \in Generations : g = (r.generation + 1) % GenerationMod
  BY <1>1, GenerationModAssumption DEF Generations
<1>3. Claimed(r, b, now) = [r EXCEPT !.owner_box = b, !.generation = g,
                                     !.activation_ts = now,
                                     !.remote_packet_counter = 0, !.state = "LOCAL"]
  BY <1>2 DEF Claimed
<1>4. Claimed(r, b, now) \in Records
  BY <1>1, <1>2, <1>3, BoxFacts, ClockAssumption DEF Records, OwnershipState
<1>. QED
  BY <1>3, <1>4 DEF Records

LEMMA MisroutedBelief ==
    ASSUME NEW r \in Records
    PROVE  /\ Misrouted(r, MigrationThreshold) \in Records
           /\ Replicated(Misrouted(r, MigrationThreshold)) = Replicated(r)
           /\ Misrouted(r, MigrationThreshold).state = r.state
<1>. DEFINE n == IF ReachesThreshold(r, MigrationThreshold) THEN 0
                ELSE r.remote_packet_counter + 1
<1>1. /\ n \in Nat
      /\ Misrouted(r, MigrationThreshold) = [r EXCEPT !.remote_packet_counter = n]
  BY DEF Misrouted, Records
<1>. HIDE DEF n
<1>. QED
  BY <1>1 DEF Records, Replicated

\* What a sweep leaves of the record of box b.
SweptRecord(b) == [rec[b] EXCEPT !.owner_box = Unowned, !.state = "UNOWNED",
                                 !.remote_packet_counter = 0]

LEMMA SweptFacts ==
    ASSUME NEW b \in Boxes, rec[b] \in Records
    PROVE  /\ SweptRecord(b) \in Records
           /\ SweptRecord(b).owner_box = Unowned
           /\ SweptRecord(b).state = "UNOWNED"
           /\ SweptRecord(b).owner_epoch = rec[b].owner_epoch
           /\ SweptRecord(b).generation = rec[b].generation
BY BoxFacts DEF SweptRecord, Records, OwnershipState

LEMMA FreshFacts ==
    ASSUME NEW epoch \in Nat
    PROVE  /\ FreshRecord(epoch) \in Records
           /\ FreshRecord(epoch).owner_box = Unowned
           /\ FreshRecord(epoch).state = "UNOWNED"
           /\ FreshRecord(epoch).owner_epoch = epoch
           /\ FreshRecord(epoch).generation = 0
BY GenerationModAssumption, BoxFacts DEF FreshRecord, Records, OwnershipState, Generations

(* A box restarts under a natural number, the later of two included.       *)
LEMMA RestartEpochsAreNat ==
    ASSUME rec \in [Boxes -> Records]
    PROVE  RestartEpochs \subseteq Nat
<1>1. EpochsInUse = {rec[0].owner_epoch, rec[1].owner_epoch}
  BY DEF EpochsInUse, Boxes
<1>2. EpochsInUse \subseteq Nat
  BY DEF EpochsInUse, Records
<1>3. \E e \in EpochsInUse : \A d \in EpochsInUse : d <= e
  BY <1>1, <1>2
<1>4. (CHOOSE e \in EpochsInUse : \A d \in EpochsInUse : d <= e) \in Nat
  BY <1>2, <1>3
<1>5. {1 + CHOOSE e \in EpochsInUse : \A d \in EpochsInUse : d <= e} \subseteq Nat
  <2>. DEFINE m == CHOOSE e \in EpochsInUse : \A d \in EpochsInUse : d <= e
  <2>1. m \in Nat
    BY <1>4
  <2>. HIDE DEF m
  <2>2. {1 + m} \subseteq Nat
    BY <2>1
  <2>. QED
    BY <2>2 DEF m
<1>. QED
  BY <1>5, StartEpochsAssumption DEF RestartEpochs

-----------------------------------------------------------------------------
(***************************************************************************)
(* Part one, HonestInv.  The network may gain frames that name their       *)
(* sender and lose frames on their way; one box's record may become s.     *)
(***************************************************************************)
HonestNetwork ==
    /\ sent' \in [Boxes -> SUBSET Frames]
    /\ inflight' \in [Boxes -> SUBSET Frames]
    /\ \A a \in Boxes : /\ sent[a] \subseteq sent'[a]
                        /\ inflight'[a] \subseteq sent'[Other(a)]
                        /\ \A f \in sent'[a] : f.owner_box = a

\* A record box b may come to hold: its state tells the owner, and a remote
\* owner is one that claimed.
HonestRecord(b, s) ==
    /\ s \in Records
    /\ s.state = "LOCAL" <=> s.owner_box = b
    /\ s.state = "UNOWNED" <=> s.owner_box = Unowned
    /\ s.owner_box = Other(b) =>
          \E f \in sent[Other(b)] : Replicated(f) = Replicated(s)

HistoryTypeOK ==
    /\ misroutes \in [Boxes -> Nat]
    /\ gaps \in [Boxes -> SUBSET Claims]
    /\ restarts \in 0 .. MaxRestarts
    /\ reused \in BOOLEAN

LEMMA HonestFacts ==
    ASSUME HonestInv
    PROVE  /\ rec \in [Boxes -> Records] /\ sent \in [Boxes -> SUBSET Frames]
           /\ inflight \in [Boxes -> SUBSET Frames] /\ HistoryTypeOK
           /\ \A b \in Boxes : /\ rec[b] \in Records /\ HasKey(rec[b])
                               /\ HonestRecord(b, rec[b])
                               /\ inflight[b] \subseteq sent[Other(b)]
                               /\ sent[b] \subseteq Frames /\ inflight[b] \subseteq Frames
                               /\ gaps[b] \subseteq Claims
           /\ \A b \in Boxes : \A f \in sent[b] :
                 f.owner_box = b /\ HasKey(f) /\ Replicated(f) \in Claims
           /\ \A b \in Boxes : \A f \in inflight[b] :
                 f.owner_box = Other(b) /\ HasKey(f) /\ Replicated(f) \in Claims
           /\ \A b \in Boxes : \A c \in gaps[b] : HasKey(c)
<1>1. /\ rec \in [Boxes -> Records] /\ sent \in [Boxes -> SUBSET Frames]
      /\ inflight \in [Boxes -> SUBSET Frames] /\ HistoryTypeOK
  BY DEF HonestInv, FaultsTypeOK, TypeOK, HistoryTypeOK
<1>2. \A b \in Boxes : inflight[b] \subseteq sent[Other(b)]
  BY DEF HonestInv, InflightWasSent
<1>3. \A b \in Boxes : HonestRecord(b, rec[b])
  BY <1>1 DEF HonestInv, StateMatchesOwner, RemoteOwnerClaimed, HonestRecord
<1>4. \A b \in Boxes : \A f \in sent[b] :
        f.owner_box = b /\ HasKey(f) /\ Replicated(f) \in Claims
  BY <1>1, KeyFacts, ReplicatedTyped DEF HonestInv, SentNamesSender
<1>5. \A b \in Boxes : \A c \in gaps[b] : HasKey(c)
  BY <1>1, ReplicatedTyped DEF HistoryTypeOK
<1>6. \A b \in Boxes : Other(b) \in Boxes
  BY BoxFacts
<1>7. \A b \in Boxes : rec[b] \in Records /\ HasKey(rec[b])
  BY <1>1, KeyFacts
<1>8. \A b \in Boxes : /\ sent[b] \subseteq Frames /\ inflight[b] \subseteq Frames
                       /\ gaps[b] \subseteq Claims
  BY <1>1 DEF HistoryTypeOK
<1>. QED
  BY <1>1, <1>2, <1>3, <1>4, <1>5, <1>6, <1>7, <1>8

LEMMA HonestStep ==
    ASSUME HonestInv, HonestNetwork, HistoryTypeOK',
           NEW b \in Boxes, NEW s, HonestRecord(b, s), rec' = [rec EXCEPT ![b] = s]
    PROVE  HonestInv'
<1>1. /\ rec \in [Boxes -> Records] /\ s \in Records
      /\ rec' \in [Boxes -> Records]
      /\ rec'[b] = s /\ \A a \in Boxes : a # b => rec'[a] = rec[a]
  BY HonestFacts DEF HonestRecord
<1>2. FaultsTypeOK'
  BY <1>1 DEF FaultsTypeOK, TypeOK, HonestNetwork, HistoryTypeOK
<1>3. InflightWasSent' /\ SentNamesSender'
  BY DEF HonestNetwork, InflightWasSent, SentNamesSender
<1>4. \A a \in Boxes : HonestRecord(a, rec'[a])
  BY <1>1, HonestFacts
<1>5. StateMatchesOwner'
  BY <1>4 DEF HonestRecord, StateMatchesOwner
<1>6. RemoteOwnerClaimed'
  BY <1>4, BoxFacts DEF HonestRecord, RemoteOwnerClaimed, HonestNetwork
<1>. QED
  BY <1>2, <1>3, <1>5, <1>6 DEF HonestInv

(* Publishing a claim and losing a frame both leave the network honest.    *)
LEMMA PublishIsHonest ==
    ASSUME HonestInv, NEW b \in Boxes, rec'[b] \in Records, rec'[b].owner_box = b,
           Publish(b)
    PROVE  /\ HonestNetwork
           /\ sent' = [sent EXCEPT ![b] = @ \cup {Encode(UpdateOf(rec'[b]))}]
           /\ inflight' = [inflight EXCEPT ![Other(b)] =
                                @ \cup {Encode(UpdateOf(rec'[b]))}]
           /\ Encode(UpdateOf(rec'[b])) \in Frames
           /\ Replicated(Encode(UpdateOf(rec'[b]))) = Replicated(rec'[b])
<1>. DEFINE f == Encode(UpdateOf(rec'[b]))
<1>1. /\ sent' = [sent EXCEPT ![b] = @ \cup {f}]
      /\ inflight' = [inflight EXCEPT ![Other(b)] = @ \cup {f}]
  BY DEF Publish
<1>2. f \in Frames /\ Replicated(f) = Replicated(rec'[b])
  BY PublishedClaim
<1>3. f.owner_box = b
  BY <1>2, ReplicatedFields
<1>. HIDE DEF f
<1>4. HonestNetwork
  BY <1>1, <1>2, <1>3, HonestFacts, BoxFacts DEF HonestNetwork
<1>. QED
  BY <1>1, <1>2, <1>4 DEF f

LEMMA ShrinkIsHonest ==
    ASSUME HonestInv, sent' = sent, inflight' \in [Boxes -> SUBSET Frames],
           \A a \in Boxes : inflight'[a] \subseteq inflight[a]
    PROVE  HonestNetwork
BY HonestFacts, BoxFacts DEF HonestNetwork

(* A takeover, announced or not.                                           *)
LEMMA TakeOverFacts ==
    ASSUME HonestInv, NEW b \in Boxes, NEW now \in Clock, TakeOver(b, now)
    PROVE  /\ rec' = [rec EXCEPT ![b] = Claimed(rec[b], b, now)]
           /\ rec'[b] = Claimed(rec[b], b, now)
           /\ rec'[b] \in Records /\ rec'[b].owner_box = b
           /\ HonestRecord(b, Claimed(rec[b], b, now))
           /\ misroutes' \in [Boxes -> Nat]
<1>1. rec \in [Boxes -> Records] /\ misroutes \in [Boxes -> Nat] /\ rec[b] \in Records
  BY HonestFacts DEF HistoryTypeOK
<1>2. /\ rec' = [rec EXCEPT ![b] = Claimed(rec[b], b, now)]
      /\ misroutes' = [misroutes EXCEPT ![b] = 0]
  BY DEF TakeOver
<1>3. rec'[b] = Claimed(rec[b], b, now) /\ misroutes' \in [Boxes -> Nat]
  BY <1>1, <1>2
<1>. QED
  BY <1>1, <1>2, <1>3, ClaimedTyped, BoxFacts DEF HonestRecord

LEMMA ClaimIsHonest ==
    ASSUME HonestInv, NEW b \in Boxes, NEW now \in Clock, TakeOver(b, now),
           Publish(b), UNCHANGED <<gaps, restarts, reused>>
    PROVE  HonestInv'
<1>1. HistoryTypeOK'
  BY TakeOverFacts, HonestFacts DEF HistoryTypeOK
<1>. QED
  BY <1>1, TakeOverFacts, PublishIsHonest, HonestStep

LEMMA EmitFailsIsHonest ==
    ASSUME HonestInv, NEW b \in Boxes, NEW now \in Clock, EmitFails(b, now)
    PROVE  HonestInv'
<1>1. TakeOver(b, now) /\ UNCHANGED <<sent, inflight, restarts, reused>>
  BY DEF EmitFails
<1>2. rec'[b] \in Records /\ rec'[b].owner_box = b
  BY <1>1, TakeOverFacts
<1>3. Replicated(rec'[b]) \in Claims
  BY <1>2, ReplicatedTyped
<1>4. gaps' \in [Boxes -> SUBSET Claims]
  BY <1>3, HonestFacts DEF EmitFails, HistoryTypeOK
<1>5. HistoryTypeOK'
  BY <1>1, <1>4, TakeOverFacts, HonestFacts DEF HistoryTypeOK
<1>6. HonestNetwork
  BY <1>1, HonestFacts, ShrinkIsHonest
<1>. QED
  BY <1>1, <1>5, <1>6, TakeOverFacts, HonestStep

LEMMA MisrouteIsHonest ==
    ASSUME HonestInv, NEW b \in Boxes, PacketMisrouted(b),
           UNCHANGED <<gaps, restarts, reused>>
    PROVE  HonestInv'
<1>. DEFINE s == Misrouted(rec[b], MigrationThreshold)
<1>1. /\ rec' = [rec EXCEPT ![b] = s] /\ UNCHANGED <<sent, inflight>>
      /\ misroutes' = [misroutes EXCEPT ![b] = misroutes[b] + 1]
  BY DEF PacketMisrouted
<1>2. HistoryTypeOK'
  BY <1>1, HonestFacts DEF HistoryTypeOK
<1>3. HonestNetwork
  BY <1>1, HonestFacts, ShrinkIsHonest
<1>4. HonestRecord(b, s)
  BY HonestFacts, MisroutedBelief, ReplicatedFields DEF HonestRecord
<1>. QED
  BY <1>1, <1>2, <1>3, <1>4, HonestStep

LEMMA ReceiveFacts ==
    ASSUME HonestInv, NEW b \in Boxes, NEW f \in sent[Other(b)], Receive(b, f)
    PROVE  /\ rec' = [rec EXCEPT ![b] = Received(rec[b], f)]
           /\ rec'[b] = Received(rec[b], f)
           /\ HonestRecord(b, Received(rec[b], f))
           /\ misroutes' \in [Boxes -> Nat]
<1>. DEFINE s == Received(rec[b], f)
<1>1. /\ rec \in [Boxes -> Records] /\ rec[b] \in Records /\ f \in Frames
      /\ misroutes \in [Boxes -> Nat] /\ f.owner_box = Other(b)
      /\ HonestRecord(b, rec[b])
  BY HonestFacts, BoxFacts DEF HistoryTypeOK
<1>2. rec' = [rec EXCEPT ![b] = s] /\ rec'[b] = s /\ misroutes' \in [Boxes -> Nat]
  BY <1>1 DEF Receive
<1>3. CASE Beats(f, rec[b])
  <2>1. s \in Records /\ Replicated(s) = Replicated(f) /\ s.state = "REMOTE"
    BY <1>1, <1>3, ReceivedClaim
  <2>2. s.owner_box = Other(b)
    BY <1>1, <2>1, ReplicatedFields
  <2>. QED
    BY <1>2, <2>1, <2>2, BoxFacts DEF HonestRecord
<1>4. CASE ~Beats(f, rec[b])
  BY <1>1, <1>2, <1>4, ReceivedClaim
<1>. QED
  BY <1>3, <1>4

LEMMA ReceiveIsHonest ==
    ASSUME HonestInv, NEW b \in Boxes, NEW f \in sent[Other(b)], Receive(b, f),
           UNCHANGED <<sent, gaps, restarts, reused>>,
           \/ inflight' = inflight
           \/ inflight' = [inflight EXCEPT ![b] = @ \ {f}]
    PROVE  HonestInv'
<1>1. HistoryTypeOK'
  BY ReceiveFacts, HonestFacts DEF HistoryTypeOK
<1>2. /\ inflight' \in [Boxes -> SUBSET Frames]
      /\ \A a \in Boxes : inflight'[a] \subseteq inflight[a]
  BY HonestFacts
<1>3. HonestNetwork
  BY <1>2, ShrinkIsHonest
<1>. QED
  BY <1>1, <1>3, ReceiveFacts, HonestStep

LEMMA LoseIsHonest ==
    ASSUME HonestInv, NEW b \in Boxes, NEW f \in inflight[b], Lose(b, f)
    PROVE  HonestInv'
<1>1. /\ rec' = [rec EXCEPT ![b] = rec[b]] /\ HonestRecord(b, rec[b])
  BY HonestFacts DEF Lose
<1>2. Replicated(f) \in Claims
  BY HonestFacts
<1>3. gaps' \in [Boxes -> SUBSET Claims]
  BY <1>2, HonestFacts DEF Lose, HistoryTypeOK
<1>4. HistoryTypeOK'
  BY <1>3, HonestFacts DEF Lose, HistoryTypeOK
<1>5. /\ inflight' \in [Boxes -> SUBSET Frames] /\ sent' = sent
      /\ \A a \in Boxes : inflight'[a] \subseteq inflight[a]
  BY HonestFacts DEF Lose
<1>6. HonestNetwork
  BY <1>5, ShrinkIsHonest
<1>. QED
  BY <1>1, <1>4, <1>6, HonestStep

LEMMA PeerDownIsHonest ==
    ASSUME HonestInv, NEW b \in Boxes, PeerDown(b)
    PROVE  HonestInv'
<1>1. /\ rec[b].owner_box = Other(b)
      /\ rec' = [rec EXCEPT ![b] = SweptRecord(b)]
      /\ misroutes' = [misroutes EXCEPT ![b] = 0]
      /\ gaps' = [gaps EXCEPT ![b] = @ \cup {Replicated(rec[b])}]
      /\ UNCHANGED <<sent, inflight, restarts, reused>>
  BY DEF PeerDown, SweptRecord
<1>2. HonestRecord(b, SweptRecord(b))
  BY HonestFacts, SweptFacts, BoxFacts DEF HonestRecord
<1>3. Replicated(rec[b]) \in Claims
  BY <1>1, HonestFacts, ReplicatedTyped, BoxFacts
<1>4. gaps' \in [Boxes -> SUBSET Claims] /\ misroutes' \in [Boxes -> Nat]
  BY <1>1, <1>3, HonestFacts DEF HistoryTypeOK
<1>5. HistoryTypeOK'
  BY <1>1, <1>4, HonestFacts DEF HistoryTypeOK
<1>6. HonestNetwork
  BY <1>1, HonestFacts, ShrinkIsHonest
<1>. QED
  BY <1>1, <1>2, <1>5, <1>6, HonestStep

LEMMA RestartIsHonest ==
    ASSUME HonestInv, NEW b \in Boxes, NEW epoch \in RestartEpochs, Restart(b, epoch)
    PROVE  HonestInv'
<1>1. /\ restarts < MaxRestarts /\ restarts' = restarts + 1
      /\ reused' = (reused \/ \E e \in EpochsInUse : epoch <= e)
      /\ rec' = [rec EXCEPT ![b] = FreshRecord(epoch)]
      /\ misroutes' = [misroutes EXCEPT ![b] = 0]
      /\ gaps' = [gaps EXCEPT ![b] =
                      @ \cup {Replicated(f) : f \in sent[b] \cup sent[Other(b)]}]
      /\ sent' = sent
  BY DEF Restart
<1>2. PICK kept \in SUBSET inflight[b] : inflight' = [inflight EXCEPT ![b] = kept]
  BY DEF Restart
<1>3. epoch \in Nat
  BY HonestFacts, RestartEpochsAreNat
<1>4. HonestRecord(b, FreshRecord(epoch))
  BY <1>3, FreshFacts, BoxFacts DEF HonestRecord
<1>5. {Replicated(f) : f \in sent[b] \cup sent[Other(b)]} \subseteq Claims
  BY HonestFacts, BoxFacts
<1>6. gaps' \in [Boxes -> SUBSET Claims] /\ misroutes' \in [Boxes -> Nat]
  BY <1>1, <1>5, HonestFacts DEF HistoryTypeOK
<1>7. restarts' \in 0 .. MaxRestarts /\ reused' \in BOOLEAN
  BY <1>1, HonestFacts, FaultsAssumption DEF HistoryTypeOK
<1>8. HistoryTypeOK'
  BY <1>6, <1>7 DEF HistoryTypeOK
<1>9. /\ inflight' \in [Boxes -> SUBSET Frames]
      /\ \A a \in Boxes : inflight'[a] \subseteq inflight[a]
  BY <1>2, HonestFacts
<1>10. HonestNetwork
  BY <1>1, <1>9, ShrinkIsHonest
<1>. QED
  BY <1>1, <1>4, <1>8, <1>10, HonestStep

LEMMA FreshStart ==
    ASSUME FaultsInit
    PROVE  /\ rec \in [Boxes -> Records]
           /\ \A b \in Boxes : /\ rec[b].owner_box = Unowned /\ rec[b].state = "UNOWNED"
                               /\ rec[b].generation = 0
                               /\ sent[b] = {} /\ inflight[b] = {} /\ gaps[b] = {}
           /\ sent = [b \in Boxes |-> {}] /\ inflight = [b \in Boxes |-> {}]
           /\ gaps = [b \in Boxes |-> {}] /\ misroutes = [b \in Boxes |-> 0]
           /\ restarts = 0 /\ reused = FALSE
<1>1. rec \in [Boxes -> {FreshRecord(e) : e \in StartEpochs}]
  BY DEF FaultsInit, Init
<1>2. \A b \in Boxes : \E e \in Nat : rec[b] = FreshRecord(e)
  BY <1>1, StartEpochsAssumption
<1>3. \A b \in Boxes : rec[b] \in Records /\ rec[b].owner_box = Unowned
                       /\ rec[b].state = "UNOWNED" /\ rec[b].generation = 0
  BY <1>2, FreshFacts
<1>4. /\ sent = [b \in Boxes |-> {}] /\ inflight = [b \in Boxes |-> {}]
      /\ gaps = [b \in Boxes |-> {}] /\ misroutes = [b \in Boxes |-> 0]
      /\ restarts = 0 /\ reused = FALSE
  BY DEF FaultsInit, Init
<1>. QED
  BY <1>1, <1>3, <1>4

LEMMA HonestInitially == FaultsInit => HonestInv
<1>. SUFFICES ASSUME FaultsInit PROVE HonestInv
  OBVIOUS
<1>1. FaultsTypeOK
  BY FreshStart, FaultsAssumption DEF FaultsTypeOK, TypeOK
<1>2. InflightWasSent /\ SentNamesSender
  BY FreshStart, BoxFacts DEF InflightWasSent, SentNamesSender
<1>3. StateMatchesOwner /\ RemoteOwnerClaimed
  BY FreshStart, BoxFacts DEF StateMatchesOwner, RemoteOwnerClaimed
<1>. QED
  BY <1>1, <1>2, <1>3 DEF HonestInv

LEMMA HonestNext ==
    ASSUME HonestInv, [FaultsNext]_faultVars
    PROVE  HonestInv'
<1>1. CASE UNCHANGED faultVars
  BY <1>1
  DEF faultVars, HonestInv, FaultsTypeOK, TypeOK, InflightWasSent, SentNamesSender,
      StateMatchesOwner, RemoteOwnerClaimed
<1>2. ASSUME NEW b \in Boxes, NEW now \in Clock, Claim(b, now) \/ PacketClaims(b, now),
             UNCHANGED <<gaps, restarts, reused>>
      PROVE  HonestInv'
  BY <1>2, ClaimIsHonest DEF Claim, PacketClaims
<1>3. ASSUME NEW b \in Boxes, PacketMisrouted(b), UNCHANGED <<gaps, restarts, reused>>
      PROVE  HonestInv'
  BY <1>3, MisrouteIsHonest
<1>4. ASSUME NEW b \in Boxes, NEW f \in inflight[b], Deliver(b, f),
             UNCHANGED <<gaps, restarts, reused>>
      PROVE  HonestInv'
  <2>1. f \in sent[Other(b)]
    BY HonestFacts
  <2>. QED
    BY <1>4, <2>1, ReceiveIsHonest DEF Deliver
<1>5. ASSUME NEW b \in Boxes, NEW f \in sent[Other(b)], Redeliver(b, f),
             UNCHANGED <<gaps, restarts, reused>>
      PROVE  HonestInv'
  BY <1>5, ReceiveIsHonest DEF Redeliver
<1>. QED
  BY <1>1, <1>2, <1>3, <1>4, <1>5, EmitFailsIsHonest, LoseIsHonest, PeerDownIsHonest,
     RestartIsHonest
  DEF FaultsNext, NoFault, Next

(***************************************************************************)
(* Part one holds under every mix of faults, generations that wrap         *)
(* included.                                                               *)
(***************************************************************************)
THEOREM HonestInvariant == FaultsSpec => []HonestInv
<1>1. HonestInv /\ [FaultsNext]_faultVars => HonestInv'
  BY HonestNext
<1>. QED
  BY HonestInitially, <1>1, PTL DEF FaultsSpec

(* Every record, frame and history variable keeps its type under faults.   *)
THEOREM FaultsTypeCorrect == FaultsSpec => []FaultsTypeOK
<1>1. HonestInv => FaultsTypeOK
  BY DEF HonestInv
<1>. QED
  BY <1>1, HonestInvariant, PTL

(***************************************************************************)
(* No fault makes up an owner: whoever a box takes for the remote owner    *)
(* claimed the subscriber, under that epoch and generation, even if the    *)
(* claimant has restarted since (subown.c:51-109).                         *)
(***************************************************************************)
THEOREM NoOwnerIsMadeUp == FaultsSpec => []RemoteOwnerClaimed
<1>1. HonestInv => RemoteOwnerClaimed
  BY DEF HonestInv
<1>. QED
  BY <1>1, HonestInvariant, PTL

-----------------------------------------------------------------------------
(***************************************************************************)
(* Part two, GapInv.  What one record's change to s, a frame published     *)
(* with it and frames taken from the network must satisfy.                 *)
(***************************************************************************)
\* Nothing is unsent, no gap closes; only box b publishes, and what it
\* publishes is its new claim, on its way to the peer.
GapNetwork(b, s) ==
    \A a \in Boxes :
        /\ sent[a] \subseteq sent'[a] /\ gaps[a] \subseteq gaps'[a]
        /\ \A f \in sent'[a] \ sent[a] :
              a = b /\ Replicated(f) = Replicated(s) /\ f \in inflight'[Other(b)]
        /\ \A f \in inflight[a] \ inflight'[a] :
              \/ Replicated(f) \in gaps'[a]
              \/ a = b /\ ~Beats(f, s)

\* Box b accounts for its new record.
GapRecord(b, s) ==
    /\ \A f \in sent[b] \cup sent[Other(b)] :
          Beats(f, s) => Beats(f, rec[b]) \/ \E c \in gaps'[b] : ~Beats(f, c)
    /\ s.owner_box = b =>
          \/ Replicated(s) = Replicated(rec[b])
          \/ \E f \in sent'[b] : Replicated(f) = Replicated(s)
          \/ Replicated(s) \in gaps'[Other(b)]
    /\ s.owner_box = Unowned =>
          \/ Replicated(s) = Replicated(rec[b])
          \/ s.generation = 0
          \/ \E c \in gaps'[b] : Beats(c, s)

LEMMA GapStep ==
    ASSUME HonestInv, HonestInv', GapInv,
           NEW b \in Boxes, NEW s \in Records, rec' = [rec EXCEPT ![b] = s],
           GapNetwork(b, s), GapRecord(b, s)
    PROVE  GapInv'
<1>. DEFINE p == Other(b)
<1>1. p \in Boxes /\ p # b /\ Other(p) = b /\ \A a \in Boxes : a = b \/ a = p
  BY BoxFacts
<1>2. /\ rec'[b] = s /\ rec'[p] = rec[p] /\ HasKey(s) /\ HasKey(rec[b]) /\ HasKey(rec[p])
  BY <1>1, HonestFacts, KeyFacts
<1>3. \A a \in Boxes : \A f \in sent'[a] \cup inflight'[a] \cup gaps'[a] : HasKey(f)
  BY KeyFacts, ReplicatedTyped DEF HonestInv, FaultsTypeOK, TypeOK
<1>4. \A a \in Boxes : \A f \in inflight[a] : HasKey(f)
  BY HonestFacts
<1>5. \A a \in Boxes : \A f : Withheld(a, f) => Withheld(a, f)'
  BY DEF Withheld, GapNetwork
<1>6. PendingOrWithheld'
  <2>1. ASSUME NEW f \in sent'[p], Beats(f, s)
        PROVE  (\E g \in inflight'[b] : ~Beats(f, g)) \/ Withheld(b, f)'
    <3>1. f \in sent[p]
      BY <1>1, <2>1 DEF GapNetwork
    <3>2. CASE ~Beats(f, rec[b])
      BY <2>1, <3>1, <3>2 DEF GapRecord, Withheld
    <3>3. CASE Beats(f, rec[b])
      <4>1. CASE Withheld(b, f)
        BY <1>5, <4>1
      <4>2. CASE \E g \in inflight[b] : ~Beats(f, g)
        <5>1. PICK g \in inflight[b] : ~Beats(f, g)
          BY <4>2
        <5>2. ~(~Beats(g, s))
          BY <1>1, <1>2, <1>3, <1>4, <2>1, <5>1, WeakerTransitive
        <5>3. CASE g \in inflight'[b]
          BY <5>1, <5>3
        <5>4. CASE Replicated(g) \in gaps'[b]
          BY <5>1, <5>4, BeatsReplicated DEF Withheld
        <5>. QED
          BY <5>2, <5>3, <5>4 DEF GapNetwork
      <4>. QED
        BY <1>1, <3>1, <3>3, <4>1, <4>2 DEF GapInv, PendingOrWithheld
    <3>. QED
      BY <3>2, <3>3
  <2>2. ASSUME NEW f \in sent'[b], Beats(f, rec[p])
        PROVE  (\E g \in inflight'[p] : ~Beats(f, g)) \/ Withheld(p, f)'
    <3>1. CASE f \notin sent[b]
      <4>1. f \in inflight'[p]
        BY <2>2, <3>1 DEF GapNetwork
      <4>. QED
        BY <1>3, <2>2, <4>1, BeatsAsymmetric
    <3>2. CASE f \in sent[b] /\ Withheld(p, f)
      BY <1>1, <1>5, <3>2
    <3>3. CASE f \in sent[b] /\ \E g \in inflight[p] : ~Beats(f, g)
      <4>1. PICK g \in inflight[p] : ~Beats(f, g)
        BY <3>3
      <4>2. g \in inflight'[p] \/ Replicated(g) \in gaps'[p]
        BY <1>1 DEF GapNetwork
      <4>. QED
        BY <4>1, <4>2, BeatsReplicated DEF Withheld
    <3>. QED
      BY <1>1, <2>2, <3>1, <3>2, <3>3 DEF GapInv, PendingOrWithheld
  <2>. QED
    BY <1>1, <1>2, <2>1, <2>2 DEF PendingOrWithheld
<1>7. ForgottenIsWithheld'
  <2>1. ASSUME NEW f \in sent'[b], Beats(f, s)
        PROVE  Withheld(b, f)'
    <3>1. f \in sent[b]
      <4>1. ~Beats(s, s)
        BY <1>2, BeatsAsymmetric
      <4>. QED
        BY <2>1, <4>1, BeatsReplicated DEF GapNetwork
    <3>2. CASE Beats(f, rec[b])
      BY <1>5, <3>1, <3>2 DEF GapInv, ForgottenIsWithheld
    <3>3. CASE ~Beats(f, rec[b])
      BY <2>1, <3>1, <3>3 DEF GapRecord, Withheld
    <3>. QED
      BY <3>2, <3>3
  <2>2. ASSUME NEW f \in sent'[p], Beats(f, rec[p])
        PROVE  Withheld(p, f)'
    <3>1. f \in sent[p]
      BY <1>1, <2>2 DEF GapNetwork
    <3>. QED
      BY <1>1, <1>5, <2>2, <3>1 DEF GapInv, ForgottenIsWithheld
  <2>. QED
    BY <1>1, <1>2, <2>1, <2>2 DEF ForgottenIsWithheld
<1>8. HeldIsPublishedOrWithheld'
  <2>1. \A a \in Boxes : Replicated(rec'[a]) = Replicated(rec[a]) /\ rec'[a].owner_box = a =>
          \/ \E f \in sent'[a] : Replicated(f) = Replicated(rec'[a])
          \/ Replicated(rec'[a]) \in gaps'[Other(a)]
    <3>1. \A a \in Boxes : Replicated(rec'[a]) = Replicated(rec[a]) =>
                              rec'[a].owner_box = rec[a].owner_box
      BY ReplicatedFields
    <3>. QED
      BY <3>1, BoxFacts DEF GapInv, HeldIsPublishedOrWithheld, GapNetwork
  <2>2. s.owner_box = b /\ Replicated(s) # Replicated(rec[b]) =>
          \/ \E f \in sent'[b] : Replicated(f) = Replicated(s)
          \/ Replicated(s) \in gaps'[p]
    BY DEF GapRecord
  <2>. QED
    BY <1>1, <1>2, <2>1, <2>2 DEF HeldIsPublishedOrWithheld
<1>9. UnownedIsNewOrSwept'
  <2>1. \A a \in Boxes : Replicated(rec'[a]) = Replicated(rec[a]) /\ rec'[a].owner_box = Unowned =>
          \/ rec'[a].generation = 0
          \/ \E c \in gaps'[a] : Beats(c, rec'[a])
    <3>1. \A a \in Boxes : Replicated(rec'[a]) = Replicated(rec[a]) =>
            /\ rec'[a].owner_box = rec[a].owner_box
            /\ rec'[a].generation = rec[a].generation
            /\ \A c : Beats(c, rec'[a]) <=> Beats(c, rec[a])
      BY ReplicatedFields, BeatsReplicated
    <3>. QED
      BY <3>1 DEF GapInv, UnownedIsNewOrSwept, GapNetwork
  <2>2. s.owner_box = Unowned /\ Replicated(s) # Replicated(rec[b]) =>
          s.generation = 0 \/ \E c \in gaps'[b] : Beats(c, s)
    BY DEF GapRecord
  <2>. QED
    BY <1>1, <1>2, <2>1, <2>2 DEF UnownedIsNewOrSwept
<1>. QED
  BY <1>6, <1>7, <1>8, <1>9 DEF GapInv

(* A record that moves up, or stands for the same claim, forgets nothing.  *)
LEMMA NotWeakerForgetsNothing ==
    ASSUME NEW r, NEW s, HasKey(r), HasKey(s), ~Beats(r, s), NEW f, HasKey(f),
           Beats(f, s)
    PROVE  Beats(f, r)
BY WeakerTransitive

LEMMA ClaimKeepsGaps ==
    ASSUME NoWrap, HonestInv, HonestInv', GapInv, NEW b \in Boxes, NEW now \in Clock,
           TakeOver(b, now), Publish(b), UNCHANGED <<gaps, restarts, reused>>
    PROVE  GapInv'
<1>. DEFINE s == Claimed(rec[b], b, now)
            f == Encode(UpdateOf(s))
<1>1. /\ rec' = [rec EXCEPT ![b] = s] /\ rec'[b] = s /\ s \in Records /\ s.owner_box = b
      /\ rec[b] \in Records /\ rec[b].generation < MaxGeneration
  BY TakeOverFacts, HonestFacts DEF TakeOver
<1>2. Beats(s, rec[b])
  BY <1>1, ClaimedIsStronger
<1>3. ~Beats(rec[b], s)
  BY <1>1, <1>2, KeyFacts, BeatsAsymmetric
<1>4. /\ sent' = [sent EXCEPT ![b] = @ \cup {f}]
      /\ inflight' = [inflight EXCEPT ![Other(b)] = @ \cup {f}]
      /\ Replicated(f) = Replicated(s)
  BY <1>1, PublishIsHonest
<1>. HIDE DEF s, f
<1>5. GapNetwork(b, s)
  BY <1>4, HonestFacts, BoxFacts DEF GapNetwork
<1>6. \E g \in sent'[b] : Replicated(g) = Replicated(s)
  BY <1>4, HonestFacts
<1>7. \A g \in sent[b] \cup sent[Other(b)] : Beats(g, s) => Beats(g, rec[b])
  BY <1>1, <1>3, KeyFacts, HonestFacts, BoxFacts, NotWeakerForgetsNothing
<1>8. GapRecord(b, s)
  BY <1>1, <1>6, <1>7, BoxFacts DEF GapRecord
<1>. QED
  BY <1>1, <1>5, <1>8, GapStep

LEMMA EmitFailsKeepsGaps ==
    ASSUME NoWrap, HonestInv, HonestInv', GapInv, NEW b \in Boxes, NEW now \in Clock,
           EmitFails(b, now)
    PROVE  GapInv'
<1>. DEFINE s == Claimed(rec[b], b, now)
<1>1. TakeOver(b, now) /\ UNCHANGED <<sent, inflight, restarts, reused>>
  BY DEF EmitFails
<1>2. /\ rec' = [rec EXCEPT ![b] = s] /\ rec'[b] = s /\ s \in Records /\ s.owner_box = b
      /\ rec[b] \in Records /\ rec[b].generation < MaxGeneration
  BY <1>1, TakeOverFacts, HonestFacts DEF TakeOver
<1>3. Beats(s, rec[b])
  BY <1>2, ClaimedIsStronger
<1>4. ~Beats(rec[b], s)
  BY <1>2, <1>3, KeyFacts, BeatsAsymmetric
<1>5. gaps' = [gaps EXCEPT ![Other(b)] = @ \cup {Replicated(s)}]
  BY <1>2 DEF EmitFails
<1>. HIDE DEF s
<1>6. GapNetwork(b, s) /\ Replicated(s) \in gaps'[Other(b)]
  BY <1>1, <1>5, HonestFacts, BoxFacts DEF GapNetwork, HistoryTypeOK
<1>7. \A g \in sent[b] \cup sent[Other(b)] : Beats(g, s) => Beats(g, rec[b])
  BY <1>2, <1>4, KeyFacts, HonestFacts, BoxFacts, NotWeakerForgetsNothing
<1>8. GapRecord(b, s)
  BY <1>2, <1>6, <1>7, BoxFacts DEF GapRecord
<1>. QED
  BY <1>2, <1>6, <1>8, GapStep

LEMMA MisrouteKeepsGaps ==
    ASSUME HonestInv, HonestInv', GapInv, NEW b \in Boxes, PacketMisrouted(b),
           UNCHANGED <<gaps, restarts, reused>>
    PROVE  GapInv'
<1>. DEFINE s == Misrouted(rec[b], MigrationThreshold)
<1>1. rec' = [rec EXCEPT ![b] = s] /\ UNCHANGED <<sent, inflight, gaps>>
  BY DEF PacketMisrouted
<1>2. s \in Records /\ Replicated(s) = Replicated(rec[b])
  BY HonestFacts, MisroutedBelief
<1>3. s.owner_box = Other(b)
  BY <1>2, ReplicatedFields DEF PacketMisrouted
<1>. HIDE DEF s
<1>4. \A g : Beats(g, s) <=> Beats(g, rec[b])
  BY <1>2, BeatsReplicated
<1>5. GapNetwork(b, s) /\ GapRecord(b, s)
  BY <1>1, <1>2, <1>4 DEF GapNetwork, GapRecord
<1>. QED
  BY <1>1, <1>2, <1>5, GapStep

LEMMA ReceiveKeepsGaps ==
    ASSUME HonestInv, HonestInv', GapInv, NEW b \in Boxes, NEW f \in sent[Other(b)],
           Receive(b, f), UNCHANGED <<sent, gaps, restarts, reused>>,
           \/ inflight' = inflight
           \/ inflight' = [inflight EXCEPT ![b] = @ \ {f}]
    PROVE  GapInv'
<1>. DEFINE s == Received(rec[b], f)
<1>1. rec' = [rec EXCEPT ![b] = s] /\ s \in Records /\ rec[b] \in Records
  BY ReceiveFacts, HonestFacts DEF HonestRecord
<1>2. HasKey(f) /\ HasKey(s) /\ HasKey(rec[b]) /\ f.owner_box = Other(b) /\ f \in Frames
  BY <1>1, HonestFacts, KeyFacts, BoxFacts
<1>3. /\ Beats(f, rec[b]) => Replicated(s) = Replicated(f)
      /\ ~Beats(f, rec[b]) => s = rec[b]
  BY <1>1, <1>2, ReceivedClaim
<1>4. ~Beats(f, s) /\ ~Beats(rec[b], s)
  BY <1>2, <1>3, BeatsAsymmetric, BeatsReplicated
<1>5. Beats(f, rec[b]) => s.owner_box = Other(b)
  BY <1>2, <1>3, ReplicatedFields
<1>. HIDE DEF s
<1>6. GapNetwork(b, s)
  BY <1>4, HonestFacts DEF GapNetwork
<1>7. \A g \in sent[b] \cup sent[Other(b)] : Beats(g, s) => Beats(g, rec[b])
  BY <1>2, <1>4, HonestFacts, BoxFacts, NotWeakerForgetsNothing
<1>8. GapRecord(b, s)
  BY <1>3, <1>5, <1>7, BoxFacts DEF GapRecord
<1>. QED
  BY <1>1, <1>6, <1>8, GapStep

LEMMA LoseKeepsGaps ==
    ASSUME HonestInv, HonestInv', GapInv, NEW b \in Boxes, NEW f \in inflight[b],
           Lose(b, f)
    PROVE  GapInv'
<1>1. rec' = [rec EXCEPT ![b] = rec[b]] /\ rec[b] \in Records
  BY HonestFacts DEF Lose
<1>2. /\ sent' = sent /\ inflight' = [inflight EXCEPT ![b] = @ \ {f}]
      /\ gaps' = [gaps EXCEPT ![b] = @ \cup {Replicated(f)}]
  BY DEF Lose
<1>3. GapNetwork(b, rec[b])
  BY <1>2, HonestFacts DEF GapNetwork, HistoryTypeOK
<1>4. GapRecord(b, rec[b])
  BY DEF GapRecord
<1>. QED
  BY <1>1, <1>3, <1>4, GapStep

LEMMA PeerDownKeepsGaps ==
    ASSUME HonestInv, HonestInv', GapInv, NEW b \in Boxes, PeerDown(b)
    PROVE  GapInv'
<1>. DEFINE s == SweptRecord(b)
            c == Replicated(rec[b])
<1>1. /\ rec[b].owner_box = Other(b) /\ rec' = [rec EXCEPT ![b] = s]
      /\ gaps' = [gaps EXCEPT ![b] = @ \cup {c}]
      /\ UNCHANGED <<sent, inflight>>
  BY DEF PeerDown, SweptRecord
<1>2. /\ s \in Records /\ s.owner_box = Unowned /\ rec[b] \in Records
      /\ s.owner_epoch = rec[b].owner_epoch /\ s.generation = rec[b].generation
  BY HonestFacts, SweptFacts
<1>3. Beats(rec[b], s)
  BY <1>1, <1>2, BoxFacts DEF Beats, Unowned, Boxes, Other
<1>4. c \in gaps'[b] /\ Beats(c, s) /\ \A g : Beats(g, c) <=> Beats(g, rec[b])
  BY <1>1, <1>3, HonestFacts, BeatsReplicated DEF HistoryTypeOK
<1>. HIDE DEF s, c
<1>5. GapNetwork(b, s)
  BY <1>1, HonestFacts DEF GapNetwork, HistoryTypeOK
<1>6. GapRecord(b, s)
  BY <1>2, <1>4, BoxFacts DEF GapRecord
<1>. QED
  BY <1>1, <1>2, <1>5, <1>6, GapStep

LEMMA RestartKeepsGaps ==
    ASSUME HonestInv, HonestInv', GapInv, NEW b \in Boxes, NEW epoch \in RestartEpochs,
           Restart(b, epoch)
    PROVE  GapInv'
<1>. DEFINE s == FreshRecord(epoch)
            all == {Replicated(f) : f \in sent[b] \cup sent[Other(b)]}
<1>1. /\ rec' = [rec EXCEPT ![b] = s] /\ sent' = sent
      /\ gaps' = [gaps EXCEPT ![b] = @ \cup all]
  BY DEF Restart
<1>2. PICK kept \in SUBSET inflight[b] : inflight' = [inflight EXCEPT ![b] = kept]
  BY DEF Restart
<1>3. s \in Records /\ s.owner_box = Unowned /\ s.generation = 0
  BY HonestFacts, RestartEpochsAreNat, FreshFacts
<1>4. gaps'[b] = gaps[b] \cup all /\ \A a \in Boxes : gaps[a] \subseteq gaps'[a]
  BY <1>1, HonestFacts DEF HistoryTypeOK
<1>. HIDE DEF s
<1>5. \A g \in inflight[b] : Replicated(g) \in gaps'[b]
  BY <1>4, HonestFacts
<1>6. GapNetwork(b, s)
  BY <1>1, <1>2, <1>4, <1>5, HonestFacts DEF GapNetwork
<1>7. \A g \in sent[b] \cup sent[Other(b)] : \E c \in gaps'[b] : ~Beats(g, c)
  <2>. SUFFICES ASSUME NEW g \in sent[b] \cup sent[Other(b)]
                PROVE  \E c \in gaps'[b] : ~Beats(g, c)
    OBVIOUS
  <2>1. HasKey(g) /\ Replicated(g) \in gaps'[b]
    BY <1>4, HonestFacts, BoxFacts
  <2>2. ~Beats(g, g)
    BY <2>1, BeatsAsymmetric
  <2>. QED
    BY <2>1, <2>2, BeatsReplicated
<1>8. GapRecord(b, s)
  BY <1>3, <1>7, BoxFacts DEF GapRecord
<1>. QED
  BY <1>1, <1>3, <1>6, <1>8, GapStep

LEMMA GapNext ==
    ASSUME NoWrap, HonestInv, HonestInv', GapInv, [FaultsNext]_faultVars
    PROVE  GapInv'
<1>1. CASE UNCHANGED faultVars
  BY <1>1
  DEF faultVars, GapInv, PendingOrWithheld, ForgottenIsWithheld,
      HeldIsPublishedOrWithheld, UnownedIsNewOrSwept, Withheld
<1>2. ASSUME NEW b \in Boxes, NEW now \in Clock, Claim(b, now) \/ PacketClaims(b, now),
             UNCHANGED <<gaps, restarts, reused>>
      PROVE  GapInv'
  BY <1>2, ClaimKeepsGaps DEF Claim, PacketClaims
<1>3. ASSUME NEW b \in Boxes, PacketMisrouted(b), UNCHANGED <<gaps, restarts, reused>>
      PROVE  GapInv'
  BY <1>3, MisrouteKeepsGaps
<1>4. ASSUME NEW b \in Boxes, NEW f \in inflight[b], Deliver(b, f),
             UNCHANGED <<gaps, restarts, reused>>
      PROVE  GapInv'
  <2>1. f \in sent[Other(b)]
    BY HonestFacts
  <2>. QED
    BY <1>4, <2>1, ReceiveKeepsGaps DEF Deliver
<1>5. ASSUME NEW b \in Boxes, NEW f \in sent[Other(b)], Redeliver(b, f),
             UNCHANGED <<gaps, restarts, reused>>
      PROVE  GapInv'
  BY <1>5, ReceiveKeepsGaps DEF Redeliver
<1>. QED
  BY <1>1, <1>2, <1>3, <1>4, <1>5, EmitFailsKeepsGaps, LoseKeepsGaps, PeerDownKeepsGaps,
     RestartKeepsGaps
  DEF FaultsNext, NoFault, Next

(***************************************************************************)
(* Every claim a box lacks is in flight to it or was withheld by a fault,  *)
(* and what a box no longer holds to a fault made it drop.  Needs a        *)
(* generation that does not wrap: a wrapped claim is weaker than the one   *)
(* it replaces (subown.c:138).                                             *)
(***************************************************************************)
THEOREM GapInvariant == NoWrap => (FaultsSpec => []GapInv)
<1>. SUFFICES ASSUME NoWrap PROVE FaultsSpec => []GapInv
  OBVIOUS
<1>1. FaultsInit => GapInv
  <2>. SUFFICES ASSUME FaultsInit PROVE GapInv
    OBVIOUS
  <2>. QED
    BY FreshStart, BoxFacts
    DEF GapInv, PendingOrWithheld, ForgottenIsWithheld, HeldIsPublishedOrWithheld,
        UnownedIsNewOrSwept
<1>2. HonestInv /\ HonestInv' /\ GapInv /\ [FaultsNext]_faultVars => GapInv'
  BY GapNext
<1>. QED
  BY <1>1, <1>2, HonestInvariant, PTL DEF FaultsSpec

(***************************************************************************)
(* In a quiet state where no fault withholds a stronger claim from either  *)
(* box, a box that knows an owner believes nothing its peer would adopt.   *)
(***************************************************************************)
LEMMA QuietHolderIsNoNews ==
    ASSUME HonestInv, GapInv, Quiet, NEW b \in Boxes, rec[b].owner_box # Unowned,
           \A a \in Boxes : \A c \in gaps[a] : ~Beats(c, rec[a])
    PROVE  ~Beats(rec[b], rec[Other(b)])
<1>. DEFINE p == Other(b)
<1>1. /\ p \in Boxes /\ Other(p) = b /\ (rec[b].owner_box = b \/ rec[b].owner_box = p)
      /\ HasKey(rec[b]) /\ HasKey(rec[p])
  BY HonestFacts, BoxFacts DEF Records
<1>2. \A a \in Boxes : \A f \in sent[a] : HasKey(f)
  BY HonestFacts
<1>3. \A c \in gaps[p] : HasKey(c)
  BY <1>1, HonestFacts
<1>4. \A f : HasKey(f) /\ Withheld(p, f) => ~Beats(f, rec[p])
  BY <1>1, <1>3, WeakerTransitive DEF Withheld
<1>5. \A f \in sent[b] \cup sent[p] : ~Beats(f, rec[p])
  BY <1>1, <1>2, <1>4 DEF GapInv, PendingOrWithheld, ForgottenIsWithheld, Quiet
<1>6. CASE rec[b].owner_box = p
  BY <1>1, <1>5, <1>6, BeatsReplicated DEF HonestInv, RemoteOwnerClaimed
<1>7. CASE rec[b].owner_box = b
  BY <1>1, <1>5, <1>7, BeatsReplicated DEF GapInv, HeldIsPublishedOrWithheld
<1>. QED
  BY <1>1, <1>6, <1>7

LEMMA QuietDisagreement == HonestInv /\ GapInv => DisagreementIsAGap
<1>. SUFFICES ASSUME HonestInv, GapInv, Quiet, ~\E b \in Boxes : SilentNewcomer(b),
                     \A b \in Boxes : \A c \in gaps[b] : ~Beats(c, rec[b])
              PROVE  AgreeOnOwner
  BY DEF DisagreementIsAGap
<1>1. \A b \in Boxes : HasKey(rec[b])
  BY HonestFacts
<1>2. \A b \in Boxes : rec[b].owner_box # Unowned => ~Beats(rec[b], rec[Other(b)])
  BY QuietHolderIsNoNews
<1>3. \A b \in Boxes : rec[b].owner_box = Unowned => rec[b].generation = 0
  BY DEF GapInv, UnownedIsNewOrSwept
<1>4. \A b \in Boxes : rec[b].owner_box = Unowned =>
        rec[b].owner_epoch <= rec[Other(b)].owner_epoch
  BY <1>1, BoxFacts DEF SilentNewcomer, HasKey
<1>5. CASE \A b \in Boxes : rec[b].owner_box # Unowned
  <2>1. SameKey(rec[0], rec[1])
    BY <1>1, <1>2, <1>5, BeatsTotal DEF Boxes, Other
  <2>. QED
    BY <2>1 DEF SameKey, AgreeOnOwner
<1>6. ASSUME NEW b \in Boxes, rec[b].owner_box = Unowned, rec[Other(b)].owner_box # Unowned
      PROVE  FALSE
  <2>. DEFINE p == Other(b)
  <2>1. p \in Boxes /\ Other(p) = b /\ rec[p].owner_box \in Boxes /\ HasKey(rec[p])
        /\ HasKey(rec[b])
    BY <1>1, <1>6, HonestFacts, BoxFacts DEF Records
  <2>2. ~Beats(rec[p], rec[b]) /\ rec[b].owner_epoch <= rec[p].owner_epoch
        /\ rec[b].generation = 0
    BY <1>2, <1>3, <1>4, <1>6, <2>1
  <2>3. rec[p].owner_box < rec[b].owner_box
    BY <1>6, <2>1 DEF Boxes, Unowned
  <2>. QED
    BY <2>1, <2>2, <2>3 DEF Beats, HasKey
<1>7. CASE \A b \in Boxes : rec[b].owner_box = Unowned
  BY <1>1, <1>3, <1>4, <1>7 DEF Boxes, Other, AgreeOnOwner, HasKey
<1>. QED
  BY <1>5, <1>6, <1>7, BoxFacts

(***************************************************************************)
(* Whatever mix of faults there has been, quiet boxes disagree about the   *)
(* owner only while a fault still withholds a stronger claim from one of   *)
(* them, or a newcomer of a later epoch has yet to claim.                  *)
(***************************************************************************)
THEOREM DisagreementHasACause == NoWrap => (FaultsSpec => []DisagreementIsAGap)
BY QuietDisagreement, HonestInvariant, GapInvariant, PTL

(***************************************************************************)
(* A standing split comes of a claim that was never emitted: the stronger  *)
(* of the two owners holds the subscriber under a claim its emitter        *)
(* refused (subown.c:136-157).  A split left by a frame that was emitted   *)
(* and lost is not counted as standing: it lasts as long, unless a late    *)
(* copy of the frame turns up, which the receiver would still adopt.       *)
(***************************************************************************)
THEOREM StandingSplitIsUnannounced ==
    NoWrap => (FaultsSpec => [](StandingSplit =>
        \E b \in Boxes : /\ Beats(rec[b], rec[Other(b)])
                         /\ Replicated(rec[b]) \in gaps[Other(b)]
                         /\ \A f \in sent[b] : Replicated(f) # Replicated(rec[b])))
<1>1. HonestInv /\ GapInv /\ StandingSplit =>
        \E b \in Boxes : /\ Beats(rec[b], rec[Other(b)])
                         /\ Replicated(rec[b]) \in gaps[Other(b)]
                         /\ \A f \in sent[b] : Replicated(f) # Replicated(rec[b])
  <2>. SUFFICES ASSUME HonestInv, GapInv, StandingSplit
                PROVE  \E b \in Boxes : /\ Beats(rec[b], rec[Other(b)])
                                        /\ Replicated(rec[b]) \in gaps[Other(b)]
                                        /\ \A f \in sent[b] :
                                              Replicated(f) # Replicated(rec[b])
    OBVIOUS
  <2>1. \A b \in Boxes : HasKey(rec[b]) /\ rec[b].owner_box = b
    BY HonestFacts DEF StandingSplit, HoldsLocally
  <2>2. PICK b \in Boxes : Beats(rec[b], rec[Other(b)])
    <3>1. 0 \in Boxes /\ 1 \in Boxes /\ Other(0) = 1 /\ Other(1) = 0
      BY DEF Boxes, Other
    <3>2. ~SameKey(rec[0], rec[1])
      BY <2>1, <3>1 DEF SameKey
    <3>3. Beats(rec[0], rec[1]) \/ Beats(rec[1], rec[0])
      BY <2>1, <3>1, <3>2, BeatsTotal
    <3>. QED
      BY <3>1, <3>3
  <2>3. Other(b) \in Boxes /\ Other(Other(b)) = b
    BY <2>2, BoxFacts
  <2>4. \A f \in sent[b] : ~Beats(f, rec[Other(b)])
    BY <2>3 DEF StandingSplit
  <2>5. \A f \in sent[b] : Replicated(f) # Replicated(rec[b])
    BY <2>2, <2>4, BeatsReplicated
  <2>6. Replicated(rec[b]) \in gaps[Other(b)]
    BY <2>1, <2>2, <2>5 DEF GapInv, HeldIsPublishedOrWithheld
  <2>. QED
    BY <2>2, <2>5, <2>6
<1>. QED
  BY <1>1, HonestInvariant, GapInvariant, PTL

(***************************************************************************)
(* A standing split is for good: no claim, packet, repeated frame, loss or *)
(* peer-down verdict ends it, only a restart (subown.c:129-134).  Needs no *)
(* bound on the generation.                                                *)
(***************************************************************************)
THEOREM StandingSplitIsForGood == FaultsSpec => StandingSplitStays
<1>1. HonestInv /\ [FaultsNext]_faultVars =>
        [StandingSplit => StandingSplit' \/ restarts' > restarts]_faultVars
  <2>. SUFFICES ASSUME HonestInv, FaultsNext, StandingSplit
                PROVE  StandingSplit' \/ restarts' > restarts
    OBVIOUS
  <2>1. /\ \A b \in Boxes : /\ HoldsLocally(rec[b], b) /\ rec[b].owner_box = b
                             /\ inflight[b] = {}
                             /\ b # Unowned /\ b # Other(b)
        /\ \A b \in Boxes : \A f \in sent[Other(b)] : ~Beats(f, rec[b])
    BY BoxFacts DEF StandingSplit, Quiet, HoldsLocally
  <2>2. ASSUME NEW b \in Boxes, NEW f \in sent[Other(b)], Redeliver(b, f)
        PROVE  StandingSplit'
    <3>1. /\ rec \in [Boxes -> Records] /\ rec[b] \in Records /\ f \in Frames
          /\ Other(b) \in Boxes
      BY HonestFacts, BoxFacts
    <3>2. Received(rec[b], f) = rec[b]
      BY <2>1, <3>1, ReceivedClaim
    <3>3. rec' = rec /\ sent' = sent /\ inflight' = inflight
      BY <2>2, <3>1, <3>2 DEF Redeliver, Receive
    <3>. QED
      BY <3>3 DEF StandingSplit, Quiet
  <2>3. ASSUME NEW b \in Boxes, NEW epoch \in RestartEpochs, Restart(b, epoch)
        PROVE  restarts' > restarts
    BY <2>3 DEF Restart, HonestInv, FaultsTypeOK
  <2>4. ASSUME NEW b \in Boxes
        PROVE  /\ \A now \in Clock : /\ ~Claim(b, now) /\ ~PacketClaims(b, now)
                                     /\ ~EmitFails(b, now)
               /\ ~PacketMisrouted(b) /\ ~PeerDown(b) /\ inflight[b] = {}
    BY <2>1 DEF Claim, PacketClaims, EmitFails, PacketMisrouted, PeerDown
  <2>. QED
    BY <2>2, <2>3, <2>4 DEF FaultsNext, NoFault, Next
<1>. QED
  BY <1>1, HonestInvariant, PTL DEF FaultsSpec, StandingSplitStays

-----------------------------------------------------------------------------
(***************************************************************************)
(* Part three, EpochInv: restarted boxes have taken later epochs.          *)
(***************************************************************************)
LEMMA FloorFacts ==
    ASSUME NEW r \in Records, NEW b \in Boxes
    PROVE  /\ HasKey(Floor(r, b))
           /\ Floor(r, b).owner_epoch = r.owner_epoch
           /\ Floor(r, b).generation = r.generation
           /\ Floor(r, b).owner_box = IF r.owner_box = Unowned THEN Other(b) ELSE r.owner_box
<1>1. HasKey(r) /\ Other(b) \in Nat
  BY KeyFacts, BoxFacts
<1>2. /\ Floor(r, b).owner_epoch = r.owner_epoch
      /\ Floor(r, b).generation = r.generation
      /\ Floor(r, b).owner_box = IF r.owner_box = Unowned THEN Other(b) ELSE r.owner_box
  BY DEF Floor, Records
<1>. QED
  BY <1>1, <1>2 DEF HasKey

(* A frame at or below a record's floor is of no later epoch, and of no    *)
(* later generation in its epoch.                                          *)
LEMMA BelowFloor ==
    ASSUME NEW r \in Records, NEW b \in Boxes, NEW f, HasKey(f), ~Beats(f, Floor(r, b))
    PROVE  /\ f.owner_epoch <= r.owner_epoch
           /\ f.owner_epoch = r.owner_epoch => f.generation <= r.generation
BY FloorFacts DEF Beats, HasKey

LEMMA TakeOverIsOrderly ==
    ASSUME NoWrap, HonestInv, ~reused, OrderlyRestarts,
           NEW b \in Boxes, NEW now \in Clock, ~HoldsLocally(rec[b], b), TakeOver(b, now),
           sent'[Other(b)] = sent[Other(b)],
           NEW new \in SUBSET Frames, sent'[b] = sent[b] \cup new,
           \A f \in new : Replicated(f) = Replicated(rec'[b]),
           \A f, g \in new : f = g
    PROVE  OrderlyRestarts'
<1>. DEFINE p == Other(b)
            s == rec'[b]
<1>1. /\ p \in Boxes /\ p # b /\ Other(p) = b /\ \A a \in Boxes : a = b \/ a = p
      /\ b # Unowned
  BY BoxFacts
<1>2. /\ rec[b] \in Records /\ rec[p] \in Records /\ HasKey(rec[b]) /\ HasKey(rec[p])
      /\ rec'[p] = rec[p]
  BY <1>1, HonestFacts DEF TakeOver
<1>3. /\ s \in Records /\ s.owner_box = b /\ s.owner_epoch = rec[b].owner_epoch
      /\ s.generation = rec[b].generation + 1 /\ HasKey(s) /\ Beats(s, rec[b])
  <2>1. rec[b].generation < MaxGeneration /\ s = Claimed(rec[b], b, now)
    BY TakeOverFacts DEF TakeOver
  <2>. QED
    BY <1>2, <2>1, ClaimedIsStronger, KeyFacts
<1>4. \A a \in Boxes : \A f \in sent[a] : f.owner_box = a /\ HasKey(f)
  BY HonestFacts
<1>5. \A f \in new : /\ f.owner_epoch = s.owner_epoch /\ f.generation = s.generation
                     /\ f.owner_box = s.owner_box /\ HasKey(f)
  BY ReplicatedFields, KeyFacts
<1>6. \A f \in sent[b] : /\ f.owner_epoch <= rec[b].owner_epoch
                         /\ f.owner_epoch = rec[b].owner_epoch =>
                               f.generation <= rec[b].generation
  BY <1>2, <1>4, BelowFloor DEF OrderlyRestarts, OwnClaimsBelowFloor
<1>. HIDE DEF s
<1>7. OwnClaimsBelowFloor'
  <2>1. ASSUME NEW f \in sent[b] \cup new PROVE ~Beats(f, Floor(s, b))
    <3>1. /\ HasKey(f) /\ f.owner_epoch <= s.owner_epoch
          /\ f.owner_epoch = s.owner_epoch => f.generation <= s.generation
          /\ f.owner_box = s.owner_box
      BY <1>2, <1>3, <1>4, <1>5, <1>6 DEF HasKey
    <3>2. /\ HasKey(Floor(s, b)) /\ Floor(s, b).owner_epoch = s.owner_epoch
          /\ Floor(s, b).generation = s.generation /\ Floor(s, b).owner_box = s.owner_box
      BY <1>1, <1>3, FloorFacts
    <3>. QED
      BY <3>1, <3>2 DEF Beats, HasKey
  <2>2. \A f \in sent[p] : ~Beats(f, Floor(rec[p], p))
    BY <1>1 DEF OrderlyRestarts, OwnClaimsBelowFloor
  <2>. QED
    BY <1>1, <1>2, <2>1, <2>2 DEF OwnClaimsBelowFloor, s
<1>8. ClaimsAreDistinct'
  <2>1. \A f \in sent[b] : \A g \in new :
          ~(f.owner_epoch = g.owner_epoch /\ f.generation = g.generation)
    BY <1>2, <1>3, <1>4, <1>5, <1>6 DEF HasKey
  <2>. QED
    BY <1>1, <2>1 DEF OrderlyRestarts, ClaimsAreDistinct
<1>9. OnlyLatestOrEarlierEpochIsNews'
  <2>1. ASSUME NEW f \in sent[b], Beats(f, rec[p])
        PROVE  s.owner_epoch > f.owner_epoch
    <3>1. CASE Replicated(f) = Replicated(rec[b])
      <4>1. rec[b].owner_box = b
        BY <1>4, <3>1, ReplicatedFields
      <4>. QED
        BY <4>1 DEF HonestInv, StateMatchesOwner, HoldsLocally
    <3>. QED
      BY <1>3, <2>1, <3>1 DEF OrderlyRestarts, OnlyLatestOrEarlierEpochIsNews
  <2>2. \A f \in sent[p] : Beats(f, s) => Beats(f, rec[b])
    BY <1>1, <1>2, <1>3, <1>4, BeatsAsymmetric, NotWeakerForgetsNothing
  <2>3. \A f \in sent[p] : Beats(f, s) => \/ Replicated(f) = Replicated(rec[p])
                                          \/ rec[p].owner_epoch > f.owner_epoch
    BY <1>1, <2>2 DEF OrderlyRestarts, OnlyLatestOrEarlierEpochIsNews
  <2>. QED
    BY <1>1, <1>2, <2>1, <2>3 DEF OnlyLatestOrEarlierEpochIsNews, s
<1>10. ForwardTargetOwnsOrRestarted'
  <2>1. rec[p].owner_box = b => s.owner_epoch > rec[p].owner_epoch
    BY <1>1, <1>3 DEF OrderlyRestarts, ForwardTargetOwnsOrRestarted
  <2>. QED
    BY <1>1, <1>2, <1>3, <2>1 DEF ForwardTargetOwnsOrRestarted, s
<1>. QED
  BY <1>7, <1>8, <1>9, <1>10 DEF OrderlyRestarts

LEMMA ReceiveIsOrderly ==
    ASSUME HonestInv, ~reused, OrderlyRestarts, NEW b \in Boxes, NEW f \in sent[Other(b)],
           Receive(b, f), sent' = sent
    PROVE  OrderlyRestarts'
<1>. DEFINE p == Other(b)
            s == Received(rec[b], f)
<1>1. /\ p \in Boxes /\ p # b /\ Other(p) = b /\ \A a \in Boxes : a = b \/ a = p
      /\ b # Unowned /\ p # Unowned /\ b \in Nat /\ p \in Nat
  BY BoxFacts
<1>2. /\ rec[b] \in Records /\ rec[p] \in Records /\ HasKey(rec[b]) /\ HasKey(rec[p])
      /\ HonestRecord(p, rec[p]) /\ HonestRecord(b, rec[b])
  BY <1>1, HonestFacts
<1>3. /\ rec'[b] = s /\ rec'[p] = rec[p] /\ s \in Records /\ HasKey(s)
  BY <1>1, <1>2, ReceiveFacts, HonestFacts, KeyFacts DEF HonestRecord
<1>4. /\ f.owner_box = p /\ HasKey(f) /\ f \in Frames
      /\ \A a \in Boxes : \A g \in sent[a] : g.owner_box = a /\ HasKey(g)
  BY <1>1, HonestFacts
<1>5. CASE ~Beats(f, rec[b])
  <2>1. s = rec[b]
    BY <1>2, <1>4, <1>5, ReceivedClaim
  <2>2. \A a \in Boxes : rec'[a] = rec[a]
    BY <1>1, <1>3, <2>1
  <2>. QED
    BY <2>2, BoxFacts
    DEF OrderlyRestarts, OwnClaimsBelowFloor, ClaimsAreDistinct,
        OnlyLatestOrEarlierEpochIsNews, ForwardTargetOwnsOrRestarted, Agree, Boxes
<1>6. CASE Beats(f, rec[b])
  <2>1. /\ Replicated(s) = Replicated(f) /\ s.owner_epoch = f.owner_epoch
        /\ s.generation = f.generation /\ s.owner_box = p
    BY <1>2, <1>4, <1>6, ReceivedClaim, ReplicatedFields
  <2>2. ~Beats(rec[b], s)
    BY <1>2, <1>4, <1>6, <2>1, BeatsAsymmetric, BeatsReplicated
  <2>3. \A g \in sent[p] : Beats(g, s) => Beats(g, rec[b])
    BY <1>1, <1>2, <1>3, <1>4, <2>2, NotWeakerForgetsNothing
  <2>4. ~Beats(f, Floor(rec[p], p))
    BY <1>1 DEF OrderlyRestarts, OwnClaimsBelowFloor
  <2>. HIDE DEF s
  <2>5. OwnClaimsBelowFloor'
    <3>1. ~Beats(Floor(rec[b], b), Floor(s, b))
      <4>1. /\ HasKey(Floor(s, b)) /\ Floor(s, b).owner_epoch = f.owner_epoch
            /\ Floor(s, b).generation = f.generation /\ Floor(s, b).owner_box = p
        BY <1>1, <1>3, <2>1, FloorFacts
      <4>2. /\ HasKey(Floor(rec[b], b)) /\ Floor(rec[b], b).owner_epoch = rec[b].owner_epoch
            /\ Floor(rec[b], b).generation = rec[b].generation
            /\ Floor(rec[b], b).owner_box = IF rec[b].owner_box = Unowned THEN p
                                            ELSE rec[b].owner_box
        BY <1>2, FloorFacts
      <4>. QED
        BY <1>2, <1>4, <1>6, <4>1, <4>2 DEF Beats, HasKey
    <3>2. \A g \in sent[b] : ~Beats(g, Floor(s, b))
      BY <1>2, <1>3, <1>4, <3>1, FloorFacts, WeakerTransitive
      DEF OrderlyRestarts, OwnClaimsBelowFloor
    <3>. QED
      BY <1>1, <1>3, <3>2 DEF OrderlyRestarts, OwnClaimsBelowFloor
  <2>6. ClaimsAreDistinct'
    BY DEF OrderlyRestarts, ClaimsAreDistinct
  <2>7. OnlyLatestOrEarlierEpochIsNews'
    <3>1. \A g \in sent[p] : Beats(g, s) => \/ Replicated(g) = Replicated(rec[p])
                                            \/ rec[p].owner_epoch > g.owner_epoch
      BY <1>1, <2>3 DEF OrderlyRestarts, OnlyLatestOrEarlierEpochIsNews
    <3>2. ASSUME NEW g \in sent[b], Beats(g, rec[p])
          PROVE  s.owner_epoch > g.owner_epoch
      <4>1. HasKey(g) /\ g.owner_box = b
        BY <1>4
      <4>2. CASE Replicated(g) = Replicated(rec[b])
        <5>1. Beats(f, g)
          BY <1>6, <4>2, BeatsReplicated
        <5>2. /\ HasKey(Floor(rec[p], p)) /\ Floor(rec[p], p).owner_epoch = rec[p].owner_epoch
              /\ Floor(rec[p], p).generation = rec[p].generation
              /\ Floor(rec[p], p).owner_box = IF rec[p].owner_box = Unowned THEN b
                                              ELSE rec[p].owner_box
          BY <1>1, <1>2, FloorFacts
        <5>. QED
          BY <1>2, <1>4, <2>4, <3>2, <4>1, <5>1, <5>2 DEF Beats, HasKey
      <4>3. CASE rec[b].owner_epoch > g.owner_epoch
        BY <1>2, <1>4, <1>6, <2>1, <4>1, <4>3 DEF Beats, HasKey
      <4>. QED
        BY <3>2, <4>2, <4>3 DEF OrderlyRestarts, OnlyLatestOrEarlierEpochIsNews
    <3>. QED
      BY <1>1, <1>3, <3>1, <3>2 DEF OnlyLatestOrEarlierEpochIsNews
  <2>8. ForwardTargetOwnsOrRestarted'
    <3>1. CASE Replicated(f) = Replicated(rec[p])
      <4>1. rec[p].owner_box = p /\ HoldsLocally(rec[p], p)
        BY <1>2, <1>4, <3>1, ReplicatedFields DEF HonestRecord, HoldsLocally
      <4>2. Replicated(rec'[b]) = Replicated(rec'[p])
        BY <1>3, <2>1, <3>1
      <4>3. Agree'
        BY <1>1, <4>2, BoxFacts DEF Agree
      <4>. QED
        BY <1>1, <1>3, <4>1, <4>3 DEF ForwardTargetOwnsOrRestarted, HoldsLocally
    <3>2. CASE rec[p].owner_epoch > f.owner_epoch
      <4>1. ASSUME rec[p].owner_box = b
            PROVE  s.owner_epoch > rec[p].owner_epoch
        <5>1. CASE Agree
          <6>1. Replicated(rec[b]) = Replicated(rec[p])
            BY <1>1, <5>1 DEF Agree, Boxes
          <6>2. rec[b].owner_epoch = rec[p].owner_epoch
            BY <6>1, ReplicatedFields
          <6>. QED
            BY <1>2, <1>4, <1>6, <3>2, <6>2 DEF Beats, HasKey
        <5>2. CASE rec[b].owner_epoch > rec[p].owner_epoch
          BY <1>2, <1>4, <1>6, <3>2, <5>2 DEF Beats, HasKey
        <5>. QED
          BY <1>1, <4>1, <5>1, <5>2 DEF OrderlyRestarts, ForwardTargetOwnsOrRestarted
      <4>. QED
        BY <1>1, <1>3, <2>1, <3>2, <4>1 DEF ForwardTargetOwnsOrRestarted
    <3>. QED
      BY <1>1, <1>6, <3>1, <3>2 DEF OrderlyRestarts, OnlyLatestOrEarlierEpochIsNews
  <2>. QED
    BY <2>5, <2>6, <2>7, <2>8 DEF OrderlyRestarts
<1>. QED
  BY <1>5, <1>6

LEMMA PeerDownIsOrderly ==
    ASSUME HonestInv, ~reused, OrderlyRestarts, NEW b \in Boxes, PeerDown(b)
    PROVE  OrderlyRestarts'
<1>. DEFINE p == Other(b)
            s == SweptRecord(b)
<1>1. /\ p \in Boxes /\ p # b /\ Other(p) = b /\ \A a \in Boxes : a = b \/ a = p
      /\ p # Unowned
  BY BoxFacts
<1>2. /\ rec[b].owner_box = p /\ rec' = [rec EXCEPT ![b] = s] /\ sent' = sent
  BY DEF PeerDown, SweptRecord
<1>3. /\ rec[b] \in Records /\ rec[p] \in Records /\ HasKey(rec[b]) /\ HasKey(rec[p])
      /\ HonestRecord(p, rec[p]) /\ rec'[p] = rec[p] /\ rec'[b] = s
  BY <1>1, <1>2, HonestFacts
<1>4. /\ s \in Records /\ s.owner_box = Unowned /\ HasKey(s)
      /\ s.owner_epoch = rec[b].owner_epoch /\ s.generation = rec[b].generation
  BY <1>3, SweptFacts, KeyFacts
<1>5. \A a \in Boxes : \A f \in sent[a] : f.owner_box = a /\ HasKey(f)
  BY HonestFacts
<1>6. \/ HoldsLocally(rec[p], p) /\ Replicated(rec[p]) = Replicated(rec[b])
      \/ rec[p].owner_epoch > rec[b].owner_epoch
  BY <1>1, <1>2 DEF OrderlyRestarts, ForwardTargetOwnsOrRestarted, Agree, Boxes
<1>7. PICK h \in sent[p] : Replicated(h) = Replicated(rec[b])
  BY <1>1, <1>2 DEF HonestInv, RemoteOwnerClaimed
<1>. HIDE DEF s
<1>8. OwnClaimsBelowFloor'
  <2>1. SameKey(Floor(s, b), Floor(rec[b], b))
    BY <1>1, <1>2, <1>3, <1>4, FloorFacts DEF SameKey
  <2>2. \A f : Beats(f, Floor(s, b)) <=> Beats(f, Floor(rec[b], b))
    BY <2>1 DEF SameKey, Beats
  <2>. QED
    BY <1>1, <1>2, <1>3, <2>2 DEF OrderlyRestarts, OwnClaimsBelowFloor
<1>9. ClaimsAreDistinct'
  BY <1>2 DEF OrderlyRestarts, ClaimsAreDistinct
<1>10. OnlyLatestOrEarlierEpochIsNews'
  <2>1. ASSUME NEW f \in sent[p], Beats(f, s)
        PROVE  Replicated(f) = Replicated(rec[p]) \/ rec[p].owner_epoch > f.owner_epoch
    <3>1. CASE Beats(f, rec[b])
      BY <1>1, <3>1 DEF OrderlyRestarts, OnlyLatestOrEarlierEpochIsNews
    <3>2. CASE ~Beats(f, rec[b])
      <4>1. f.owner_epoch = rec[b].owner_epoch /\ f.generation = rec[b].generation
        BY <1>1, <1>2, <1>3, <1>4, <1>5, <2>1, <3>2 DEF Beats, HasKey
      <4>2. f.owner_epoch = h.owner_epoch /\ f.generation = h.generation
        BY <1>7, <4>1, ReplicatedFields
      <4>3. f = h
        BY <1>1, <1>7, <4>2 DEF OrderlyRestarts, ClaimsAreDistinct
      <4>. QED
        BY <1>6, <1>7, <4>1, <4>3
    <3>. QED
      BY <3>1, <3>2
  <2>2. ASSUME NEW f \in sent[b], Beats(f, rec[p])
        PROVE  s.owner_epoch > f.owner_epoch
    <3>1. Replicated(f) # Replicated(rec[b])
      BY <1>1, <1>2, <1>5, ReplicatedFields
    <3>. QED
      BY <1>4, <2>2, <3>1 DEF OrderlyRestarts, OnlyLatestOrEarlierEpochIsNews
  <2>. QED
    BY <1>1, <1>2, <1>3, <2>1, <2>2 DEF OnlyLatestOrEarlierEpochIsNews
<1>11. ForwardTargetOwnsOrRestarted'
  <2>1. ASSUME rec[p].owner_box = b PROVE rec[p].owner_epoch < s.owner_epoch
    <3>1. ~HoldsLocally(rec[b], b)
      BY <1>1, <1>2 DEF HoldsLocally
    <3>. QED
      BY <1>1, <1>4, <2>1, <3>1 DEF OrderlyRestarts, ForwardTargetOwnsOrRestarted
  <2>. QED
    BY <1>1, <1>3, <1>4, <2>1, BoxFacts DEF ForwardTargetOwnsOrRestarted, HasKey
<1>. QED
  BY <1>8, <1>9, <1>10, <1>11 DEF OrderlyRestarts

LEMMA RestartIsOrderly ==
    ASSUME HonestInv, ~reused, OrderlyRestarts, NEW b \in Boxes,
           NEW epoch \in RestartEpochs, Restart(b, epoch), ~reused'
    PROVE  OrderlyRestarts'
<1>. DEFINE p == Other(b)
            s == FreshRecord(epoch)
<1>1. /\ p \in Boxes /\ p # b /\ Other(p) = b /\ \A a \in Boxes : a = b \/ a = p
      /\ p # Unowned
  BY BoxFacts
<1>2. /\ rec' = [rec EXCEPT ![b] = s] /\ sent' = sent
      /\ \A e \in EpochsInUse : ~(epoch <= e)
  BY DEF Restart
<1>3. /\ rec[b] \in Records /\ rec[p] \in Records /\ HasKey(rec[b]) /\ HasKey(rec[p])
      /\ rec'[p] = rec[p] /\ rec'[b] = s
  BY <1>1, <1>2, HonestFacts
<1>4. epoch \in Nat
  BY HonestFacts, RestartEpochsAreNat
<1>5. /\ s \in Records /\ s.owner_box = Unowned /\ HasKey(s) /\ s.owner_epoch = epoch
  BY <1>4, FreshFacts, KeyFacts
<1>6. epoch > rec[b].owner_epoch /\ epoch > rec[p].owner_epoch
  <2>1. rec[b].owner_epoch \in EpochsInUse /\ rec[p].owner_epoch \in EpochsInUse
    BY <1>1 DEF EpochsInUse
  <2>2. ~(epoch <= rec[b].owner_epoch) /\ ~(epoch <= rec[p].owner_epoch)
    BY <1>2, <2>1
  <2>3. rec[b].owner_epoch \in Nat /\ rec[p].owner_epoch \in Nat
    BY <1>3 DEF HasKey
  <2>. QED
    BY <1>4, <2>2, <2>3
<1>7. \A a \in Boxes : \A f \in sent[a] : HasKey(f)
  BY HonestFacts
<1>8. \A a \in Boxes : \A f \in sent[a] : f.owner_epoch <= rec[a].owner_epoch
  BY <1>7, HonestFacts, BelowFloor DEF OrderlyRestarts, OwnClaimsBelowFloor
<1>9. \A f \in sent[b] \cup sent[p] : f.owner_epoch < epoch
  BY <1>1, <1>3, <1>4, <1>6, <1>7, <1>8 DEF HasKey
<1>. HIDE DEF s
<1>10. OwnClaimsBelowFloor'
  <2>1. \A f \in sent[b] : ~Beats(f, Floor(s, b))
    BY <1>5, <1>7, <1>9, FloorFacts DEF Beats, HasKey
  <2>. QED
    BY <1>1, <1>2, <1>3, <2>1 DEF OrderlyRestarts, OwnClaimsBelowFloor
<1>11. ClaimsAreDistinct'
  BY <1>2 DEF OrderlyRestarts, ClaimsAreDistinct
<1>12. OnlyLatestOrEarlierEpochIsNews'
  <2>1. \A f \in sent[p] : ~Beats(f, s)
    BY <1>1, <1>4, <1>5, <1>7, <1>9 DEF Beats, HasKey
  <2>2. \A f \in sent[b] : s.owner_epoch > f.owner_epoch
    BY <1>4, <1>5, <1>7, <1>9 DEF HasKey
  <2>. QED
    BY <1>1, <1>2, <1>3, <2>1, <2>2 DEF OnlyLatestOrEarlierEpochIsNews
<1>13. ForwardTargetOwnsOrRestarted'
  BY <1>1, <1>3, <1>5, <1>6 DEF ForwardTargetOwnsOrRestarted
<1>. QED
  BY <1>10, <1>11, <1>12, <1>13 DEF OrderlyRestarts

(* A misrouted packet, a lost frame: no belief changes.                    *)
LEMMA SameBeliefsAreOrderly ==
    ASSUME HonestInv, ~reused, OrderlyRestarts, sent' = sent,
           \A b \in Boxes : /\ rec'[b] \in Records
                            /\ Replicated(rec'[b]) = Replicated(rec[b])
                            /\ rec'[b].state = rec[b].state
    PROVE  OrderlyRestarts'
<1>1. \A b \in Boxes : /\ rec'[b].owner_epoch = rec[b].owner_epoch
                       /\ rec'[b].generation = rec[b].generation
                       /\ rec'[b].owner_box = rec[b].owner_box
                       /\ HoldsLocally(rec'[b], b) <=> HoldsLocally(rec[b], b)
  BY ReplicatedFields DEF HoldsLocally
<1>2. \A b \in Boxes : Other(b) \in Boxes
  BY BoxFacts
<1>3. OwnClaimsBelowFloor'
  <2>1. \A b \in Boxes : SameKey(Floor(rec'[b], b), Floor(rec[b], b))
    BY <1>1, HonestFacts, FloorFacts DEF SameKey
  <2>2. \A b \in Boxes : \A f : Beats(f, Floor(rec'[b], b)) <=> Beats(f, Floor(rec[b], b))
    BY <2>1 DEF SameKey, Beats
  <2>. QED
    BY <2>2 DEF OrderlyRestarts, OwnClaimsBelowFloor
<1>4. ClaimsAreDistinct'
  BY DEF OrderlyRestarts, ClaimsAreDistinct
<1>5. OnlyLatestOrEarlierEpochIsNews'
  BY <1>1, <1>2, BeatsReplicated DEF OrderlyRestarts, OnlyLatestOrEarlierEpochIsNews
<1>6. ForwardTargetOwnsOrRestarted'
  <2>1. Agree' <=> Agree
    BY DEF Agree, Boxes
  <2>2. SUFFICES ASSUME NEW b \in Boxes, ~reused', rec'[b].owner_box = Other(b)
                 PROVE  \/ HoldsLocally(rec'[Other(b)], Other(b)) /\ Agree'
                        \/ rec'[Other(b)].owner_epoch > rec'[b].owner_epoch
    BY DEF ForwardTargetOwnsOrRestarted
  <2>. QED
    BY <1>1, <1>2, <2>1, <2>2 DEF OrderlyRestarts, ForwardTargetOwnsOrRestarted
<1>. QED
  BY <1>3, <1>4, <1>5, <1>6 DEF OrderlyRestarts

LEMMA EpochNext ==
    ASSUME NoWrap, HonestInv, EpochInv, [FaultsNext]_faultVars
    PROVE  EpochInv'
<1>. SUFFICES ASSUME ~reused' PROVE OrderlyRestarts'
  BY DEF EpochInv
<1>1. ~reused
  BY DEF FaultsNext, NoFault, EmitFails, Lose, PeerDown, Restart, faultVars
<1>2. OrderlyRestarts
  BY <1>1 DEF EpochInv
<1>3. \A b \in Boxes : rec[b] \in Records
  BY HonestFacts
<1>4. CASE UNCHANGED faultVars
  BY <1>1, <1>2, <1>3, <1>4, SameBeliefsAreOrderly DEF faultVars
<1>5. ASSUME NEW b \in Boxes, NEW now \in Clock, Claim(b, now) \/ PacketClaims(b, now)
      PROVE  OrderlyRestarts'
  <2>1. ~HoldsLocally(rec[b], b) /\ TakeOver(b, now) /\ Publish(b)
    BY <1>5, BoxFacts DEF Claim, PacketClaims, HoldsLocally
  <2>2. rec'[b] \in Records /\ rec'[b].owner_box = b
    BY <2>1, TakeOverFacts
  <2>. DEFINE f == Encode(UpdateOf(rec'[b]))
  <2>3. /\ sent' = [sent EXCEPT ![b] = @ \cup {f}]
        /\ f \in Frames /\ Replicated(f) = Replicated(rec'[b])
    BY <2>1, <2>2, PublishIsHonest
  <2>. HIDE DEF f
  <2>. DEFINE new == {f}
  <2>4. sent'[b] = sent[b] \cup new /\ sent'[Other(b)] = sent[Other(b)]
    BY <2>3, HonestFacts, BoxFacts
  <2>5. /\ new \in SUBSET Frames /\ \A g \in new : Replicated(g) = Replicated(rec'[b])
        /\ \A g, h \in new : g = h
    BY <2>3
  <2>. HIDE DEF new
  <2>. QED
    BY <1>1, <1>2, <2>1, <2>4, <2>5, TakeOverIsOrderly
<1>6. ASSUME NEW b \in Boxes, PacketMisrouted(b)
      PROVE  OrderlyRestarts'
  <2>. DEFINE s == Misrouted(rec[b], MigrationThreshold)
  <2>1. rec' = [rec EXCEPT ![b] = s] /\ sent' = sent
    BY <1>6 DEF PacketMisrouted
  <2>2. s \in Records /\ Replicated(s) = Replicated(rec[b]) /\ s.state = rec[b].state
    BY <1>3, MisroutedBelief
  <2>. HIDE DEF s
  <2>. QED
    BY <1>1, <1>2, <1>3, <2>1, <2>2, HonestFacts, SameBeliefsAreOrderly
<1>7. ASSUME NEW b \in Boxes, NEW f \in inflight[b], Deliver(b, f)
      PROVE  OrderlyRestarts'
  BY <1>1, <1>2, <1>7, HonestFacts, ReceiveIsOrderly DEF Deliver
<1>8. ASSUME NEW b \in Boxes, NEW f \in sent[Other(b)], Redeliver(b, f)
      PROVE  OrderlyRestarts'
  BY <1>1, <1>2, <1>8, ReceiveIsOrderly DEF Redeliver
<1>9. ASSUME NEW b \in Boxes, NEW now \in Clock, EmitFails(b, now)
      PROVE  OrderlyRestarts'
  <2>1. ~HoldsLocally(rec[b], b) /\ TakeOver(b, now) /\ sent' = sent
    BY <1>9 DEF EmitFails
  <2>. DEFINE none == {}
  <2>2. none \in SUBSET Frames /\ sent'[b] = sent[b] \cup none
    BY <2>1
  <2>3. /\ \A f \in none : Replicated(f) = Replicated(rec'[b])
        /\ \A f, g \in none : f = g
    OBVIOUS
  <2>. HIDE DEF none
  <2>. QED
    BY <1>1, <1>2, <2>1, <2>2, <2>3, TakeOverIsOrderly
<1>10. ASSUME NEW b \in Boxes, NEW f \in inflight[b], Lose(b, f)
       PROVE  OrderlyRestarts'
  BY <1>1, <1>2, <1>3, <1>10, SameBeliefsAreOrderly DEF Lose
<1>11. ASSUME NEW b \in Boxes, PeerDown(b)
       PROVE  OrderlyRestarts'
  BY <1>1, <1>2, <1>11, PeerDownIsOrderly
<1>12. ASSUME NEW b \in Boxes, NEW epoch \in RestartEpochs, Restart(b, epoch)
       PROVE  OrderlyRestarts'
  BY <1>1, <1>2, <1>12, RestartIsOrderly
<1>. QED
  BY <1>4, <1>5, <1>6, <1>7, <1>8, <1>9, <1>10, <1>11, <1>12 DEF FaultsNext, NoFault, Next

(***************************************************************************)
(* As long as every restarted box has taken a later epoch, a box's claims  *)
(* stay within what its record stands for, and only its latest claim and   *)
(* those of its earlier epochs can still be news to its peer.              *)
(***************************************************************************)
THEOREM EpochInvariant == NoWrap => (FaultsSpec => []EpochInv)
<1>. SUFFICES ASSUME NoWrap PROVE FaultsSpec => []EpochInv
  OBVIOUS
<1>1. FaultsInit => EpochInv
  <2>. SUFFICES ASSUME FaultsInit PROVE OrderlyRestarts
    BY DEF EpochInv
  <2>. QED
    BY FreshStart, BoxFacts
    DEF OrderlyRestarts, OwnClaimsBelowFloor, ClaimsAreDistinct,
        OnlyLatestOrEarlierEpochIsNews, ForwardTargetOwnsOrRestarted
<1>2. HonestInv /\ EpochInv /\ [FaultsNext]_faultVars => EpochInv'
  BY EpochNext
<1>. QED
  BY <1>1, <1>2, HonestInvariant, PTL DEF FaultsSpec

(***************************************************************************)
(* The whole inductive invariant, as the run faults_all checks it.         *)
(***************************************************************************)
THEOREM FaultsInvariantHolds == NoWrap => (FaultsSpec => []FaultsInv)
<1>1. HonestInv /\ GapInv /\ EpochInv => FaultsInv
  BY DEF FaultsInv
<1>. QED
  BY <1>1, HonestInvariant, GapInvariant, EpochInvariant, PTL

(***************************************************************************)
(* Whatever else fails, a forwarded packet goes to the owner or to a box   *)
(* that has since restarted under a later epoch (subown.c:189-200, 45).    *)
(***************************************************************************)
THEOREM ForwardingUnderFaults == NoWrap => (FaultsSpec => []ForwardTargetOwnsOrRestarted)
<1>1. EpochInv => ForwardTargetOwnsOrRestarted
  BY DEF EpochInv, OrderlyRestarts, ForwardTargetOwnsOrRestarted
<1>. QED
  BY <1>1, EpochInvariant, PTL

(***************************************************************************)
(* So no packet is forwarded to and fro unless a box has come back under   *)
(* an epoch that was in use: what run restart_same_epoch shows to happen   *)
(* then, happens only then.                                                *)
(***************************************************************************)
THEOREM LoopsNeedAReusedEpoch ==
    NoWrap => (FaultsSpec => [](reused \/ NoForwardingLoop))
<1>1. HonestInv /\ EpochInv => reused \/ NoForwardingLoop
  <2>. SUFFICES ASSUME HonestInv, OrderlyRestarts, ~reused,
                       \A b \in Boxes : rec[b].owner_box = Other(b)
                PROVE  FALSE
    BY DEF EpochInv, NoForwardingLoop
  <2>1. 0 \in Boxes /\ 1 \in Boxes /\ Other(0) = 1 /\ Other(1) = 0
    BY DEF Boxes, Other
  <2>2. ~HoldsLocally(rec[0], 0) /\ ~HoldsLocally(rec[1], 1)
    BY <2>1 DEF HoldsLocally
  <2>3. rec[1].owner_epoch > rec[0].owner_epoch /\ rec[0].owner_epoch > rec[1].owner_epoch
    BY <2>1, <2>2 DEF OrderlyRestarts, ForwardTargetOwnsOrRestarted
  <2>4. rec[0].owner_epoch \in Nat /\ rec[1].owner_epoch \in Nat
    BY <2>1, HonestFacts DEF HasKey
  <2>. QED
    BY <2>3, <2>4
<1>. QED
  BY <1>1, HonestInvariant, EpochInvariant, PTL
=============================================================================
