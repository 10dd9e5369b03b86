---------------------------- MODULE AccessProofs ----------------------------
(***************************************************************************)
(* Calls of a worker and of the control thread on one record look like     *)
(* calls one after the other, for every threshold, every claim of the peer *)
(* and any number of calls, unless calls overlapped that do not commute.   *)
(***************************************************************************)
EXTENDS AccessInvariant, TLAPS

NoWrap == MaxGeneration < GenerationMod

-----------------------------------------------------------------------------
(* The fields of a record, one by one.                                     *)

LEMMA FieldFacts ==
    /\ Fields = {"owner_epoch", "generation", "owner_box", "activation_ts", "state",
                 "remote_packet_counter"}
    /\ FieldTypes["owner_epoch"] = Nat /\ FieldTypes["generation"] = Generations
    /\ FieldTypes["owner_box"] = Owners /\ FieldTypes["activation_ts"] = Nat
    /\ FieldTypes["state"] = OwnershipState
    /\ FieldTypes["remote_packet_counter"] = Counts
BY DEF Fields, FieldTypes

LEMMA ConstantFacts ==
    /\ Generations \subseteq Nat /\ Owners = {0, 1, 255} /\ Unowned = 255
    /\ LocalBox \in {0, 1} /\ Peer \in {0, 1} /\ Peer # LocalBox
    /\ MigrationThreshold \in Nat /\ MaxGeneration \in Nat /\ GenerationMod \in Nat \ {0}
    /\ Counts \subseteq Nat /\ 0 \in Counts
BY GenerationModAssumption, LocalBoxAssumption, BoundsAssumption
   DEF Generations, Owners, Unowned, Boxes, Peer, Other, Counts

(* Six values of the right types make a record ...                         *)
LEMMA RecordTyped ==
    ASSUME NEW r, DOMAIN r = Fields, r = [f \in Fields |-> r[f]],
           r.owner_epoch \in Nat, r.generation \in Generations, r.owner_box \in Owners,
           r.activation_ts \in Nat, r.state \in OwnershipState,
           r.remote_packet_counter \in Counts
    PROVE  IsRecord(r)
<1>1. ASSUME NEW f \in Fields PROVE r[f] \in FieldTypes[f]
  BY FieldFacts
<1>. QED
  BY <1>1 DEF IsRecord, WellTyped

(* ... and a record is six such values.                                    *)
LEMMA RecordFacts ==
    ASSUME NEW r, IsRecord(r)
    PROVE  /\ DOMAIN r = Fields /\ r = [f \in Fields |-> r[f]]
           /\ r.owner_epoch \in Nat /\ r.generation \in Generations
           /\ r.owner_box \in Owners /\ r.activation_ts \in Nat
           /\ r.state \in OwnershipState /\ r.remote_packet_counter \in Counts
           /\ r.generation \in Nat /\ r.owner_box \in Nat /\ r.remote_packet_counter \in Nat
<1>1. \A f \in Fields : r[f] \in FieldTypes[f]
  BY DEF IsRecord, WellTyped
<1>2. /\ r.owner_epoch \in Nat /\ r.generation \in Generations
      /\ r.owner_box \in Owners /\ r.activation_ts \in Nat
      /\ r.state \in OwnershipState /\ r.remote_packet_counter \in Counts
  BY <1>1, FieldFacts
<1>. QED
  BY <1>2, ConstantFacts DEF IsRecord

LEMMA SameRecord ==
    ASSUME NEW r, NEW s, IsRecord(r), IsRecord(s), \A f \in Fields : r[f] = s[f]
    PROVE  r = s
<1>1. r = [f \in Fields |-> r[f]] /\ s = [f \in Fields |-> s[f]]
  BY DEF IsRecord
<1>2. [f \in Fields |-> r[f]] = [f \in Fields |-> s[f]]
  OBVIOUS
<1>. QED
  BY <1>1, <1>2

(***************************************************************************)
(* What each call makes of a record.                                       *)
(***************************************************************************)
LEMMA MisroutedFacts ==
    ASSUME NEW r, IsRecord(r)
    PROVE  LET m == Misrouted(r, MigrationThreshold)
           IN  /\ IsRecord(m)
               /\ \A f \in Fields \ {"remote_packet_counter"} : m[f] = r[f]
               /\ m.remote_packet_counter =
                      IF MigrationThreshold > 0
                             /\ r.remote_packet_counter + 1 > MigrationThreshold
                      THEN 0 ELSE r.remote_packet_counter + 1
<1>. DEFINE m == Misrouted(r, MigrationThreshold)
            n == IF ReachesThreshold(r, MigrationThreshold)
                 THEN 0 ELSE r.remote_packet_counter + 1
<1>1. m = [r EXCEPT !.remote_packet_counter = n]
  BY DEF Misrouted
<1>2. n \in Counts
  BY RecordFacts, ConstantFacts DEF Counts, ReachesThreshold
<1>3. n = IF MigrationThreshold > 0 /\ r.remote_packet_counter + 1 > MigrationThreshold
          THEN 0 ELSE r.remote_packet_counter + 1
  BY DEF ReachesThreshold
<1>. HIDE DEF m, n
<1>4. /\ DOMAIN m = Fields /\ m = [f \in Fields |-> m[f]]
      /\ \A f \in Fields \ {"remote_packet_counter"} : m[f] = r[f]
      /\ m.remote_packet_counter = n
  BY <1>1, RecordFacts, FieldFacts
<1>5. IsRecord(m)
  BY <1>2, <1>4, RecordFacts, RecordTyped, FieldFacts
<1>. QED
  BY <1>3, <1>4, <1>5 DEF m

LEMMA AdoptFacts ==
    ASSUME NEW r, NEW c, IsRecord(r), IsClaim(c)
    PROVE  LET a == Adopt(r, c)
           IN  /\ IsRecord(a)
               /\ a.owner_epoch = c.owner_epoch /\ a.generation = c.generation
               /\ a.owner_box = c.owner_box /\ a.activation_ts = c.activation_ts
               /\ a.state = IF c.owner_box = Unowned THEN "UNOWNED" ELSE "REMOTE"
               /\ a.remote_packet_counter = r.remote_packet_counter
<1>. DEFINE a == Adopt(r, c)
            st == IF c.owner_box = Unowned THEN "UNOWNED" ELSE "REMOTE"
<1>1. a = [r EXCEPT !.owner_epoch = c.owner_epoch, !.generation = c.generation,
                    !.owner_box = c.owner_box, !.activation_ts = c.activation_ts,
                    !.state = st]
  BY DEF Adopt
<1>2. st \in OwnershipState
  BY DEF OwnershipState
<1>3. st = IF c.owner_box = Unowned THEN "UNOWNED" ELSE "REMOTE"
  OBVIOUS
<1>. HIDE DEF a, st
<1>4. /\ DOMAIN a = Fields /\ a = [f \in Fields |-> a[f]]
      /\ a.owner_epoch = c.owner_epoch /\ a.generation = c.generation
      /\ a.owner_box = c.owner_box /\ a.activation_ts = c.activation_ts /\ a.state = st
      /\ a.remote_packet_counter = r.remote_packet_counter
  BY <1>1, RecordFacts, FieldFacts
<1>5. IsRecord(a)
  BY <1>2, <1>4, RecordFacts, RecordTyped DEF IsClaim
<1>. QED
  BY <1>3, <1>4, <1>5 DEF a

LEMMA ClaimedFacts ==
    ASSUME NEW r, IsRecord(r)
    PROVE  LET d == Claimed(r, LocalBox, 1)
           IN  /\ IsRecord(d)
               /\ d.owner_epoch = r.owner_epoch
               /\ d.generation = (r.generation + 1) % GenerationMod
               /\ d.owner_box = LocalBox /\ d.activation_ts = 1 /\ d.state = "LOCAL"
               /\ d.remote_packet_counter = 0
<1>. DEFINE d == Claimed(r, LocalBox, 1)
            g == (r.generation + 1) % GenerationMod
<1>1. d = [r EXCEPT !.owner_box = LocalBox, !.generation = g, !.activation_ts = 1,
                    !.remote_packet_counter = 0, !.state = "LOCAL"]
  BY DEF Claimed
<1>2. g \in Generations
  BY RecordFacts, ConstantFacts DEF Generations
<1>3. LocalBox \in Owners /\ 1 \in Nat /\ "LOCAL" \in OwnershipState
  BY ConstantFacts DEF OwnershipState
<1>. HIDE DEF d, g
<1>4. /\ DOMAIN d = Fields /\ d = [f \in Fields |-> d[f]]
      /\ d.owner_epoch = r.owner_epoch /\ d.generation = g
      /\ d.owner_box = LocalBox /\ d.activation_ts = 1 /\ d.state = "LOCAL"
      /\ d.remote_packet_counter = 0
  BY <1>1, RecordFacts, FieldFacts
<1>5. IsRecord(d)
  BY <1>2, <1>3, <1>4, RecordFacts, RecordTyped, ConstantFacts
<1>. QED
  BY <1>4, <1>5 DEF d, g

LEMMA SweptFacts ==
    ASSUME NEW r, IsRecord(r)
    PROVE  LET w == Swept(r)
           IN  /\ IsRecord(w)
               /\ w.owner_epoch = r.owner_epoch /\ w.generation = r.generation
               /\ w.owner_box = Unowned /\ w.activation_ts = r.activation_ts
               /\ w.state = "UNOWNED" /\ w.remote_packet_counter = 0
<1>. DEFINE w == Swept(r)
<1>1. w = [r EXCEPT !.owner_box = Unowned, !.state = "UNOWNED", !.remote_packet_counter = 0]
  BY DEF Swept
<1>2. Unowned \in Owners /\ "UNOWNED" \in OwnershipState
  BY ConstantFacts DEF OwnershipState
<1>. HIDE DEF w
<1>3. /\ DOMAIN w = Fields /\ w = [f \in Fields |-> w[f]]
      /\ w.owner_epoch = r.owner_epoch /\ w.generation = r.generation
      /\ w.owner_box = Unowned /\ w.activation_ts = r.activation_ts
      /\ w.state = "UNOWNED" /\ w.remote_packet_counter = 0
  BY <1>1, RecordFacts, FieldFacts
<1>4. IsRecord(w)
  BY <1>2, <1>3, RecordFacts, RecordTyped, ConstantFacts
<1>. QED
  BY <1>3, <1>4 DEF w

(***************************************************************************)
(* Writes on their way.                                                    *)
(***************************************************************************)
LEMMA OverFacts ==
    ASSUME NEW r, NEW w, IsRecord(r), WellTyped(w)
    PROVE  /\ IsRecord(Over(r, w))
           /\ \A f \in Fields : Over(r, w)[f] = IF f \in DOMAIN w THEN w[f] ELSE r[f]
<1>. DEFINE o == Over(r, w)
<1>1. o = [f \in Fields |-> IF f \in DOMAIN w THEN w[f] ELSE r[f]]
  BY DEF Over
<1>. HIDE DEF o
<1>2. DOMAIN o = Fields /\ \A f \in Fields : o[f] = IF f \in DOMAIN w THEN w[f] ELSE r[f]
  BY <1>1
<1>3. o = [f \in Fields |-> o[f]]
  BY <1>1, <1>2
<1>4. \A f \in Fields : o[f] \in FieldTypes[f]
  BY <1>2 DEF IsRecord, WellTyped
<1>. QED
  BY <1>2, <1>3, <1>4 DEF o, IsRecord, WellTyped

LEMMA OverNothing ==
    ASSUME NEW r, NEW w, IsRecord(r), WellTyped(w), DOMAIN w = {}
    PROVE  Over(r, w) = r
<1>1. IsRecord(Over(r, w)) /\ \A f \in Fields : Over(r, w)[f] = r[f]
  BY OverFacts
<1>. QED
  BY <1>1, SameRecord

LEMMA NothingFacts == DOMAIN Nothing = {} /\ WellTyped(Nothing)
BY DEF Nothing, WellTyped

LEMMA ValuesFacts ==
    ASSUME NEW r, IsRecord(r), NEW S, S \subseteq Fields
    PROVE  /\ DOMAIN Values(r, S) = S /\ WellTyped(Values(r, S))
           /\ \A f \in S : Values(r, S)[f] = r[f]
<1>1. DOMAIN Values(r, S) = S /\ \A f \in S : Values(r, S)[f] = r[f]
  BY DEF Values
<1>. QED
  BY <1>1 DEF WellTyped, IsRecord

LEMMA RemainingFacts ==
    ASSUME NEW w, WellTyped(w), NEW f
    PROVE  /\ DOMAIN Remaining(w, f) = DOMAIN w \ {f} /\ WellTyped(Remaining(w, f))
           /\ \A g \in DOMAIN w \ {f} : Remaining(w, f)[g] = w[g]
<1>1. /\ DOMAIN Remaining(w, f) = DOMAIN w \ {f}
      /\ \A g \in DOMAIN w \ {f} : Remaining(w, f)[g] = w[g]
  BY DEF Remaining
<1>. QED
  BY <1>1 DEF WellTyped

(* A field that has been written.                                          *)
LEMMA StoreFacts ==
    ASSUME NEW r, NEW w, IsRecord(r), WellTyped(w), NEW f \in DOMAIN w
    PROVE  LET s == [r EXCEPT ![f] = w[f]]
           IN  /\ IsRecord(s) /\ s[f] = w[f]
               /\ \A g \in Fields \ {f} : s[g] = r[g]
               /\ Over(s, Remaining(w, f)) = Over(r, w)
<1>. DEFINE s == [r EXCEPT ![f] = w[f]]
<1>1. s = [r EXCEPT ![f] = w[f]]
  OBVIOUS
<1>. HIDE DEF s
<1>2. f \in Fields /\ w[f] \in FieldTypes[f]
  BY DEF WellTyped
<1>3. /\ DOMAIN s = Fields /\ s = [g \in Fields |-> s[g]] /\ s[f] = w[f]
      /\ \A g \in Fields \ {f} : s[g] = r[g]
  BY <1>1, <1>2, RecordFacts
<1>4. IsRecord(s)
  BY <1>2, <1>3 DEF IsRecord, WellTyped
<1>5. /\ IsRecord(Over(s, Remaining(w, f))) /\ IsRecord(Over(r, w))
      /\ \A g \in Fields : Over(s, Remaining(w, f))[g] = Over(r, w)[g]
  <2>. DEFINE v == Remaining(w, f)
  <2>1. /\ DOMAIN v = DOMAIN w \ {f} /\ WellTyped(v)
        /\ \A g \in DOMAIN w \ {f} : v[g] = w[g]
    BY RemainingFacts
  <2>. HIDE DEF v
  <2>2. /\ IsRecord(Over(s, v))
        /\ \A g \in Fields : Over(s, v)[g] = IF g \in DOMAIN v THEN v[g] ELSE s[g]
    BY <1>4, <2>1, OverFacts
  <2>3. /\ IsRecord(Over(r, w))
        /\ \A g \in Fields : Over(r, w)[g] = IF g \in DOMAIN w THEN w[g] ELSE r[g]
    BY OverFacts
  <2>4. ASSUME NEW g \in Fields PROVE Over(s, v)[g] = Over(r, w)[g]
    BY <1>3, <2>1, <2>2, <2>3
  <2>. QED
    BY <2>2, <2>3, <2>4 DEF v
<1>6. Over(s, Remaining(w, f)) = Over(r, w)
  BY <1>5, SameRecord
<1>. QED
  BY <1>3, <1>4, <1>6 DEF s
(***************************************************************************)
(* What a call under way will make of the record.                          *)
(***************************************************************************)
LEMMA OnControlFacts ==
    ASSUME NEW r, NEW call, IsRecord(r), IsClaim(call.claim)
    PROVE  /\ IsRecord(OnControl(r, call))
           /\ call.at = "sweep" /\ r.owner_box = Peer => OnControl(r, call) = Swept(r)
           /\ call.at # "sweep" /\ Beats(call.claim, r) =>
                  OnControl(r, call) = Adopt(r, call.claim)
           /\ call.at # "sweep" /\ ~Beats(call.claim, r) => OnControl(r, call) = r
<1>1. IsRecord(Swept(r)) /\ IsRecord(Adopt(r, call.claim))
  BY SweptFacts, AdoptFacts
<1>2. CASE call.at = "sweep"
  BY <1>1, <1>2 DEF OnControl
<1>3. CASE call.at # "sweep"
  BY <1>1, <1>3 DEF OnControl
<1>. QED
  BY <1>2, <1>3

LEMMA AfterControlFacts ==
    ASSUME NEW r, NEW call, IsRecord(r), ControlFits(call)
    PROVE  /\ IsRecord(AfterControl(r, call))
           /\ call.at = "idle" => AfterControl(r, call) = r
           /\ call.at \in {"generation", "owner"} => AfterControl(r, call) = OnControl(r, call)
           /\ call.at \in {"adopt", "sweep"} => AfterControl(r, call) = Over(r, call.writes)
<1>1. IsClaim(call.claim) /\ WellTyped(call.writes)
  BY DEF ControlFits
<1>2. IsRecord(OnControl(r, call)) /\ IsRecord(Over(r, call.writes))
  BY <1>1, OnControlFacts, OverFacts
<1>3. call.at = "idle" => Over(r, call.writes) = r
  BY <1>1, OverNothing DEF ControlFits
<1>. QED
  BY <1>2, <1>3 DEF AfterControl

LEMMA AfterWorkerFacts ==
    ASSUME NEW r, NEW call, IsRecord(r), WorkerFits(call)
    PROVE  /\ IsRecord(AfterWorker(r, call))
           /\ call.at = "idle" => AfterWorker(r, call) = r
           /\ call.at = "count" => AfterWorker(r, call) = Misrouted(r, MigrationThreshold)
           /\ call.at = "claim" => AfterWorker(r, call) = Claimed(r, LocalBox, 1)
           /\ call.at \in {"counted", "claimed"} => AfterWorker(r, call) = Over(r, call.writes)
           /\ call.at \in {"idle", "count", "counted"} =>
                  \A f \in Fields \ {"remote_packet_counter"} : AfterWorker(r, call)[f] = r[f]
<1>1. WellTyped(call.writes)
  BY DEF WorkerFits
<1>2. /\ IsRecord(Over(r, call.writes))
      /\ \A f \in Fields : Over(r, call.writes)[f] =
                             IF f \in DOMAIN call.writes THEN call.writes[f] ELSE r[f]
  BY <1>1, OverFacts
<1>3. CASE call.at = "idle"
  <2>1. Over(r, call.writes) = r
    BY <1>1, <1>3, OverNothing DEF WorkerFits
  <2>. QED
    BY <1>3, <2>1 DEF AfterWorker
<1>4. CASE call.at = "count"
  BY <1>4, MisroutedFacts DEF AfterWorker
<1>5. CASE call.at = "claim"
  BY <1>5, ClaimedFacts DEF AfterWorker
<1>6. CASE call.at = "counted"
  <2>1. DOMAIN call.writes = {"remote_packet_counter"}
    BY <1>6 DEF WorkerFits
  <2>. QED
    BY <1>2, <1>6, <2>1 DEF AfterWorker
<1>7. CASE call.at = "claimed"
  BY <1>2, <1>7 DEF AfterWorker
<1>. QED
  BY <1>3, <1>4, <1>5, <1>6, <1>7 DEF WorkerFits

(* The worker's steps do not change what its call will have done.          *)
LEMMA CountingWrites ==
    ASSUME NEW r, IsRecord(r)
    PROVE  LET writes == Values(Misrouted(r, MigrationThreshold), {"remote_packet_counter"})
               call   == [at |-> "counted", writes |-> writes]
           IN  /\ WorkerFits(call)
               /\ AfterWorker(r, call) = Misrouted(r, MigrationThreshold)
<1>. DEFINE m == Misrouted(r, MigrationThreshold)
            w == Values(m, {"remote_packet_counter"})
            call == [at |-> "counted", writes |-> w]
<1>1. IsRecord(m) /\ \A f \in Fields \ {"remote_packet_counter"} : m[f] = r[f]
  BY MisroutedFacts
<1>2. {"remote_packet_counter"} \subseteq Fields
  BY FieldFacts
<1>. HIDE DEF m
<1>3. /\ DOMAIN w = {"remote_packet_counter"} /\ WellTyped(w)
      /\ w["remote_packet_counter"] = m["remote_packet_counter"]
  BY <1>1, <1>2, ValuesFacts
<1>. HIDE DEF w
<1>4. WorkerFits(call) /\ call.at = "counted" /\ call.writes = w
  BY <1>3 DEF WorkerFits
<1>. HIDE DEF call
<1>5. /\ IsRecord(Over(r, w))
      /\ \A f \in Fields : Over(r, w)[f] = IF f \in DOMAIN w THEN w[f] ELSE r[f]
  BY <1>3, OverFacts
<1>6. \A f \in Fields : Over(r, w)[f] = m[f]
  BY <1>1, <1>3, <1>5
<1>7. Over(r, w) = m
  BY <1>1, <1>5, <1>6, SameRecord
<1>8. AfterWorker(r, call) = m
  BY <1>4, <1>7, AfterWorkerFacts
<1>. QED
  BY <1>4, <1>8 DEF call, w, m

LEMMA ClaimingWrites ==
    ASSUME NEW r, IsRecord(r)
    PROVE  LET writes == Values(Claimed(r, LocalBox, 1), Fields \ {"owner_epoch"})
               call   == [at |-> "claimed", writes |-> writes]
           IN  /\ WorkerFits(call)
               /\ AfterWorker(r, call) = Claimed(r, LocalBox, 1)
<1>. DEFINE m == Claimed(r, LocalBox, 1)
            S == Fields \ {"owner_epoch"}
            w == Values(m, S)
            call == [at |-> "claimed", writes |-> w]
<1>1. IsRecord(m) /\ m.owner_epoch = r.owner_epoch
  BY ClaimedFacts
<1>. HIDE DEF m
<1>3. DOMAIN w = S /\ WellTyped(w) /\ \A f \in S : w[f] = m[f]
  BY <1>1, ValuesFacts
<1>. HIDE DEF w
<1>4. WorkerFits(call) /\ call.at = "claimed" /\ call.writes = w
  BY <1>3 DEF WorkerFits
<1>. HIDE DEF call
<1>5. /\ IsRecord(Over(r, w))
      /\ \A f \in Fields : Over(r, w)[f] = IF f \in DOMAIN w THEN w[f] ELSE r[f]
  BY <1>3, OverFacts
<1>6. \A f \in Fields : Over(r, w)[f] = m[f]
  BY <1>1, <1>3, <1>5
<1>7. Over(r, w) = m
  BY <1>1, <1>5, <1>6, SameRecord
<1>8. AfterWorker(r, call) = m
  BY <1>4, <1>7, AfterWorkerFacts
<1>. QED
  BY <1>4, <1>8 DEF call, w, S, m

WorkerNext(call, rest) ==
    IF DOMAIN rest = {} THEN IdleWorker ELSE [call EXCEPT !.writes = rest]

LEMMA WorkerWrite ==
    ASSUME NEW r, NEW call, IsRecord(r), WorkerFits(call), NEW f \in DOMAIN call.writes
    PROVE  LET s    == [r EXCEPT ![f] = call.writes[f]]
               next == WorkerNext(call, Remaining(call.writes, f))
           IN  /\ IsRecord(s) /\ WorkerFits(next)
               /\ next.at \in {"idle", call.at}
               /\ next.at = "idle" <=> DOMAIN Remaining(call.writes, f) = {}
               /\ AfterWorker(s, next) = AfterWorker(r, call)
<1>. DEFINE w == call.writes
            v == Remaining(w, f)
            s == [r EXCEPT ![f] = w[f]]
            next == WorkerNext(call, v)
<1>1. WellTyped(w) /\ call.at \in {"counted", "claimed"}
  BY DEF WorkerFits
<1>2. IsRecord(s) /\ Over(s, v) = Over(r, w)
  BY <1>1, StoreFacts
<1>3. DOMAIN v = DOMAIN w \ {f} /\ WellTyped(v)
  BY <1>1, RemainingFacts
<1>4. AfterWorker(r, call) = Over(r, w)
  BY <1>1, AfterWorkerFacts
<1>. HIDE DEF v, s
<1>5. CASE DOMAIN v = {}
  <2>1. next = IdleWorker
    BY <1>5 DEF WorkerNext
  <2>2. WorkerFits(IdleWorker) /\ IdleWorker.at = "idle"
    BY NothingFacts DEF IdleWorker, WorkerFits
  <2>3. AfterWorker(s, IdleWorker) = s /\ Over(s, v) = s
    BY <1>2, <1>3, <1>5, <2>2, AfterWorkerFacts, OverNothing
  <2>. QED
    BY <1>2, <1>4, <1>5, <2>1, <2>2, <2>3 DEF v, s
<1>6. CASE DOMAIN v # {}
  <2>1. next = [call EXCEPT !.writes = v]
    BY <1>6 DEF WorkerNext
  <2>2. call = [at |-> call.at, writes |-> call.writes]
    BY DEF WorkerFits
  <2>3. next = [at |-> call.at, writes |-> v]
    BY <2>1, <2>2
  <2>. HIDE DEF next
  <2>4. next.at = call.at /\ next.writes = v
    BY <2>3
  <2>5. \/ call.at = "counted" /\ DOMAIN w = {"remote_packet_counter"}
        \/ call.at = "claimed" /\ DOMAIN w \subseteq Fields \ {"owner_epoch"}
    BY <1>1 DEF WorkerFits
  <2>6. WorkerFits(next)
    BY <1>3, <1>6, <2>3, <2>4, <2>5 DEF WorkerFits
  <2>7. AfterWorker(s, next) = Over(s, v)
    BY <1>1, <1>2, <2>4, <2>6, AfterWorkerFacts
  <2>8. next.at # "idle"
    BY <1>1, <2>4
  <2>. QED
    BY <1>2, <1>4, <1>6, <2>4, <2>6, <2>7, <2>8 DEF v, s, next
<1>. QED
  BY <1>5, <1>6
(***************************************************************************)
(* The control thread's steps do not change it either, on any record with  *)
(* the values it has read.                                                 *)
(***************************************************************************)
LEMMA IdleControlFits == ControlFits(IdleControl) /\ IdleControl.at = "idle"
<1>1. IsClaim(Replicated(FreshRecord))
  BY ConstantFacts DEF IsClaim, Replicated, FreshRecord, Generations
<1>. QED
  BY <1>1, NothingFacts DEF IdleControl, ControlFits

LEMMA AdoptingWrites ==
    ASSUME NEW r, NEW q, NEW c, IsRecord(r), IsRecord(q), IsClaim(c),
           NEW S, S \subseteq Fields \ {"remote_packet_counter"},
           {"owner_box", "activation_ts", "state"} \subseteq S,
           "owner_epoch" \in S \/ c.owner_epoch = r.owner_epoch,
           "generation" \in S \/ c.generation = r.generation
    PROVE  LET call == [at |-> "adopt", claim |-> c, writes |-> Values(Adopt(q, c), S)]
           IN  /\ ControlFits(call)
               /\ AfterControl(r, call) = Adopt(r, c)
<1>. DEFINE a == Adopt(r, c)
            b == Adopt(q, c)
            w == Values(b, S)
            call == [at |-> "adopt", claim |-> c, writes |-> w]
<1>1. /\ IsRecord(a) /\ a.remote_packet_counter = r.remote_packet_counter
      /\ a.owner_epoch = c.owner_epoch /\ a.generation = c.generation
      /\ a.owner_box = c.owner_box /\ a.activation_ts = c.activation_ts
      /\ a.state = IF c.owner_box = Unowned THEN "UNOWNED" ELSE "REMOTE"
  BY AdoptFacts
<1>2. /\ IsRecord(b)
      /\ b.owner_epoch = c.owner_epoch /\ b.generation = c.generation
      /\ b.owner_box = c.owner_box /\ b.activation_ts = c.activation_ts
      /\ b.state = IF c.owner_box = Unowned THEN "UNOWNED" ELSE "REMOTE"
  BY AdoptFacts
<1>. HIDE DEF a, b
<1>3. DOMAIN w = S /\ WellTyped(w) /\ \A f \in S : w[f] = b[f]
  BY <1>2, ValuesFacts
<1>. HIDE DEF w
<1>4. ControlFits(call) /\ call.at = "adopt" /\ call.writes = w
  BY <1>3 DEF ControlFits
<1>. HIDE DEF call
<1>5. /\ IsRecord(Over(r, w))
      /\ \A f \in Fields : Over(r, w)[f] = IF f \in DOMAIN w THEN w[f] ELSE r[f]
  BY <1>3, OverFacts
<1>6. ASSUME NEW f \in Fields PROVE Over(r, w)[f] = a[f]
  <2>1. CASE f \in S
    <3>1. Over(r, w)[f] = b[f] /\ f # "remote_packet_counter"
      BY <1>3, <1>5, <2>1
    <3>2. b[f] = a[f]
      BY <1>1, <1>2, <3>1, FieldFacts
    <3>. QED
      BY <3>1, <3>2
  <2>2. CASE f \notin S
    <3>1. Over(r, w)[f] = r[f] /\ f \in {"owner_epoch", "generation", "remote_packet_counter"}
      BY <1>3, <1>5, <2>2, FieldFacts
    <3>2. r[f] = a[f]
      BY <1>1, <2>2, <3>1
    <3>. QED
      BY <3>1, <3>2
  <2>. QED
    BY <2>1, <2>2
<1>7. Over(r, w) = a
  BY <1>1, <1>5, <1>6, SameRecord
<1>8. AfterControl(r, call) = a
  BY <1>4, <1>7, AfterControlFacts
<1>. QED
  BY <1>4, <1>8 DEF call, w, a, b

LEMMA AdoptingFits ==
    ASSUME NEW q, NEW c, IsRecord(q), IsClaim(c),
           NEW S, S \subseteq Fields \ {"remote_packet_counter"},
           {"owner_box", "activation_ts", "state"} \subseteq S
    PROVE  ControlFits([at |-> "adopt", claim |-> c, writes |-> Values(Adopt(q, c), S)])
<1>. DEFINE r == Adopt(q, c)
<1>1. IsRecord(r) /\ r.owner_epoch = c.owner_epoch /\ r.generation = c.generation
  BY AdoptFacts
<1>2. Values(Adopt(q, c), S) = Values(r, S)
  OBVIOUS
<1>. HIDE DEF r
<1>. QED
  BY <1>1, <1>2, AdoptingWrites

LEMMA SweepingWrites ==
    ASSUME NEW r, NEW c, IsRecord(r), IsClaim(c)
    PROVE  LET call == [at |-> "sweep", claim |-> c,
                        writes |-> Values(Swept(r),
                                          {"owner_box", "state", "remote_packet_counter"})]
           IN  /\ ControlFits(call)
               /\ AfterControl(r, call) = Swept(r)
<1>. DEFINE m == Swept(r)
            S == {"owner_box", "state", "remote_packet_counter"}
            w == Values(m, S)
            call == [at |-> "sweep", claim |-> c, writes |-> w]
<1>1. /\ IsRecord(m) /\ S \subseteq Fields
      /\ \A f \in Fields \ S : m[f] = r[f]
  BY SweptFacts, FieldFacts
<1>. HIDE DEF m
<1>3. DOMAIN w = S /\ WellTyped(w) /\ \A f \in S : w[f] = m[f]
  BY <1>1, ValuesFacts
<1>. HIDE DEF w
<1>4. ControlFits(call) /\ call.at = "sweep" /\ call.writes = w
  BY <1>3 DEF ControlFits
<1>. HIDE DEF call
<1>5. /\ IsRecord(Over(r, w))
      /\ \A f \in Fields : Over(r, w)[f] = IF f \in DOMAIN w THEN w[f] ELSE r[f]
  BY <1>3, OverFacts
<1>6. \A f \in Fields : Over(r, w)[f] = m[f]
  BY <1>1, <1>3, <1>5
<1>7. Over(r, w) = m
  BY <1>1, <1>5, <1>6, SameRecord
<1>8. AfterControl(r, call) = m
  BY <1>4, <1>7, AfterControlFacts
<1>. QED
  BY <1>4, <1>8 DEF call, w, S, m

ControlNext(call, rest) ==
    IF DOMAIN rest = {} THEN IdleControl ELSE [call EXCEPT !.writes = rest]

LEMMA ControlWrite ==
    ASSUME NEW r, NEW call, IsRecord(r), ControlFits(call), NEW f \in DOMAIN call.writes
    PROVE  LET s    == [r EXCEPT ![f] = call.writes[f]]
               next == ControlNext(call, Remaining(call.writes, f))
           IN  /\ IsRecord(s) /\ ControlFits(next)
               /\ next.at # "idle" =>
                      /\ next.at = call.at /\ next.claim = call.claim
                      /\ DOMAIN next.writes \subseteq DOMAIN call.writes \ {f}
               /\ AfterControl(s, next) = AfterControl(r, call)
<1>. DEFINE w == call.writes
            v == Remaining(w, f)
            s == [r EXCEPT ![f] = w[f]]
            next == ControlNext(call, v)
<1>1. WellTyped(w) /\ call.at \in {"adopt", "sweep"}
  BY DEF ControlFits
<1>2. IsRecord(s) /\ Over(s, v) = Over(r, w)
  BY <1>1, StoreFacts
<1>3. DOMAIN v = DOMAIN w \ {f} /\ WellTyped(v)
  BY <1>1, RemainingFacts
<1>4. AfterControl(r, call) = Over(r, w)
  BY <1>1, AfterControlFacts
<1>. HIDE DEF v, s
<1>5. CASE DOMAIN v = {}
  <2>1. next = IdleControl
    BY <1>5 DEF ControlNext
  <2>2. AfterControl(s, IdleControl) = s /\ Over(s, v) = s
    BY <1>2, <1>3, <1>5, IdleControlFits, AfterControlFacts, OverNothing
  <2>. QED
    BY <1>2, <1>4, <1>5, <2>1, <2>2, IdleControlFits DEF v, s
<1>6. CASE DOMAIN v # {}
  <2>1. next = [call EXCEPT !.writes = v]
    BY <1>6 DEF ControlNext
  <2>2. call = [at |-> call.at, claim |-> call.claim, writes |-> call.writes]
    BY DEF ControlFits
  <2>3. next = [at |-> call.at, claim |-> call.claim, writes |-> v]
    BY <2>1, <2>2
  <2>. HIDE DEF next
  <2>4. next.at = call.at /\ next.claim = call.claim /\ next.writes = v
    BY <2>3
  <2>5. /\ IsClaim(call.claim)
        /\ \/ /\ call.at = "adopt"
              /\ DOMAIN w \subseteq Fields \ {"remote_packet_counter"}
           \/ /\ call.at = "sweep"
              /\ DOMAIN w \subseteq {"owner_box", "state", "remote_packet_counter"}
    BY <1>1 DEF ControlFits
  <2>6. ControlFits(next)
    BY <1>3, <2>3, <2>4, <2>5 DEF ControlFits
  <2>7. AfterControl(s, next) = Over(s, v)
    BY <1>1, <1>2, <2>4, <2>6, AfterControlFacts
  <2>. QED
    BY <1>2, <1>3, <1>4, <1>6, <2>4, <2>6, <2>7 DEF v, s, next
<1>. QED
  BY <1>5, <1>6

(***************************************************************************)
(* A count commutes with a message: the one touches only the counter, the  *)
(* other everything but.                                                   *)
(***************************************************************************)
LEMMA CountCommutesWithMessage ==
    ASSUME NEW r, NEW call, IsRecord(r), IsClaim(call.claim), call.at # "sweep"
    PROVE  OnControl(Misrouted(r, MigrationThreshold), call)
               = Misrouted(OnControl(r, call), MigrationThreshold)
<1>. DEFINE m == Misrouted(r, MigrationThreshold)
            c == call.claim
<1>1. /\ IsRecord(m) /\ \A f \in Fields \ {"remote_packet_counter"} : m[f] = r[f]
      /\ m.remote_packet_counter =
             IF MigrationThreshold > 0 /\ r.remote_packet_counter + 1 > MigrationThreshold
             THEN 0 ELSE r.remote_packet_counter + 1
  BY MisroutedFacts
<1>. HIDE DEF m
<1>2. Beats(c, m) <=> Beats(c, r)
  BY <1>1, FieldFacts DEF Beats
<1>3. CASE ~Beats(c, r)
  BY <1>1, <1>2, <1>3, OnControlFacts DEF m
<1>4. CASE Beats(c, r)
  <2>. DEFINE a == Adopt(r, c)
              am == Adopt(m, c)
              ma == Misrouted(a, MigrationThreshold)
  <2>1. OnControl(m, call) = am /\ OnControl(r, call) = a
    BY <1>1, <1>2, <1>4, OnControlFacts
  <2>2. /\ IsRecord(a) /\ a.remote_packet_counter = r.remote_packet_counter
        /\ a.owner_epoch = c.owner_epoch /\ a.generation = c.generation
        /\ a.owner_box = c.owner_box /\ a.activation_ts = c.activation_ts
        /\ a.state = IF c.owner_box = Unowned THEN "UNOWNED" ELSE "REMOTE"
    BY AdoptFacts
  <2>3. /\ IsRecord(am) /\ am.remote_packet_counter = m.remote_packet_counter
        /\ am.owner_epoch = c.owner_epoch /\ am.generation = c.generation
        /\ am.owner_box = c.owner_box /\ am.activation_ts = c.activation_ts
        /\ am.state = IF c.owner_box = Unowned THEN "UNOWNED" ELSE "REMOTE"
    BY <1>1, AdoptFacts
  <2>. HIDE DEF a, am
  <2>4. /\ IsRecord(ma) /\ \A f \in Fields \ {"remote_packet_counter"} : ma[f] = a[f]
        /\ ma.remote_packet_counter =
               IF MigrationThreshold > 0 /\ a.remote_packet_counter + 1 > MigrationThreshold
               THEN 0 ELSE a.remote_packet_counter + 1
    BY <2>2, MisroutedFacts
  <2>. HIDE DEF ma
  <2>5. ma.remote_packet_counter = am.remote_packet_counter
    BY <1>1, <2>2, <2>3, <2>4
  <2>6. \A f \in Fields : ma[f] = am[f]
    BY <2>2, <2>3, <2>4, <2>5, FieldFacts
  <2>7. ma = am
    BY <2>3, <2>4, <2>6, SameRecord
  <2>. QED
    BY <2>1, <2>7 DEF m, a, am, ma
<1>. QED
  BY <1>3, <1>4

LEMMA CountCommutesWithWrites ==
    ASSUME NEW r, NEW w, IsRecord(r), WellTyped(w), "remote_packet_counter" \notin DOMAIN w
    PROVE  Over(Misrouted(r, MigrationThreshold), w) = Misrouted(Over(r, w), MigrationThreshold)
<1>. DEFINE m == Misrouted(r, MigrationThreshold)
            o == Over(r, w)
            om == Over(m, w)
            mo == Misrouted(o, MigrationThreshold)
<1>1. /\ IsRecord(m) /\ \A f \in Fields \ {"remote_packet_counter"} : m[f] = r[f]
      /\ m.remote_packet_counter =
             IF MigrationThreshold > 0 /\ r.remote_packet_counter + 1 > MigrationThreshold
             THEN 0 ELSE r.remote_packet_counter + 1
  BY MisroutedFacts
<1>2. /\ IsRecord(o)
      /\ \A f \in Fields : o[f] = IF f \in DOMAIN w THEN w[f] ELSE r[f]
  BY OverFacts
<1>. HIDE DEF m, o
<1>3. /\ IsRecord(om)
      /\ \A f \in Fields : om[f] = IF f \in DOMAIN w THEN w[f] ELSE m[f]
  BY <1>1, OverFacts
<1>4. /\ IsRecord(mo) /\ \A f \in Fields \ {"remote_packet_counter"} : mo[f] = o[f]
      /\ mo.remote_packet_counter =
             IF MigrationThreshold > 0 /\ o.remote_packet_counter + 1 > MigrationThreshold
             THEN 0 ELSE o.remote_packet_counter + 1
  BY <1>2, MisroutedFacts
<1>. HIDE DEF om, mo
<1>5. /\ o.remote_packet_counter = r.remote_packet_counter
      /\ om.remote_packet_counter = m.remote_packet_counter
  BY <1>2, <1>3, FieldFacts
<1>6. om.remote_packet_counter = mo.remote_packet_counter
  BY <1>1, <1>4, <1>5
<1>7. \A f \in Fields : om[f] = mo[f]
  BY <1>1, <1>2, <1>3, <1>4, <1>6
<1>8. om = mo
  BY <1>3, <1>4, <1>7, SameRecord
<1>. QED
  BY <1>8 DEF m, o, om, mo

LEMMA CountCommutesWithCall ==
    ASSUME NEW r, NEW call, IsRecord(r), ControlFits(call), call.at # "sweep"
    PROVE  AfterControl(Misrouted(r, MigrationThreshold), call)
               = Misrouted(AfterControl(r, call), MigrationThreshold)
<1>. DEFINE m == Misrouted(r, MigrationThreshold)
<1>1. IsRecord(m)
  BY MisroutedFacts
<1>2. IsClaim(call.claim) /\ WellTyped(call.writes)
  BY DEF ControlFits
<1>3. OnControl(m, call) = Misrouted(OnControl(r, call), MigrationThreshold)
  BY <1>2, CountCommutesWithMessage
<1>4. "remote_packet_counter" \notin DOMAIN call.writes
  BY DEF ControlFits
<1>5. Over(m, call.writes) = Misrouted(Over(r, call.writes), MigrationThreshold)
  BY <1>2, <1>4, CountCommutesWithWrites
<1>. HIDE DEF m
<1>6. QED
  BY <1>3, <1>5 DEF AfterControl, m

(* A store of the control thread, and a worker whose call it does not      *)
(* disturb.                                                                *)
LEMMA StoreUnderWorker ==
    ASSUME NEW r, NEW call, NEW w, IsRecord(r), WorkerFits(call), WellTyped(w),
           NEW f \in DOMAIN w,
           \/ call.at = "idle"
           \/ call.at \in {"count", "counted"} /\ f # "remote_packet_counter"
    PROVE  AfterWorker([r EXCEPT ![f] = w[f]], call)
               = [AfterWorker(r, call) EXCEPT ![f] = w[f]]
<1>. DEFINE s == [r EXCEPT ![f] = w[f]]
            a == AfterWorker(r, call)
            as == AfterWorker(s, call)
            sa == [a EXCEPT ![f] = w[f]]
<1>1. IsRecord(s) /\ s[f] = w[f] /\ \A g \in Fields \ {f} : s[g] = r[g]
  BY StoreFacts
<1>2. /\ IsRecord(a) /\ (call.at = "idle" => a = r)
      /\ call.at = "count" => a = Misrouted(r, MigrationThreshold)
      /\ call.at = "counted" => a = Over(r, call.writes)
      /\ call.at \in {"idle", "count", "counted"} =>
            \A g \in Fields \ {"remote_packet_counter"} : a[g] = r[g]
  BY AfterWorkerFacts
<1>. HIDE DEF s, a
<1>3. /\ IsRecord(as) /\ (call.at = "idle" => as = s)
      /\ call.at = "count" => as = Misrouted(s, MigrationThreshold)
      /\ call.at = "counted" => as = Over(s, call.writes)
      /\ call.at \in {"idle", "count", "counted"} =>
            \A g \in Fields \ {"remote_packet_counter"} : as[g] = s[g]
  BY <1>1, AfterWorkerFacts
<1>4. IsRecord(sa) /\ sa[f] = w[f] /\ \A g \in Fields \ {f} : sa[g] = a[g]
  BY <1>2, StoreFacts
<1>. HIDE DEF as, sa
<1>5. CASE call.at = "idle"
  <2>1. \A g \in Fields : as[g] = sa[g]
    BY <1>1, <1>2, <1>3, <1>4, <1>5
  <2>. QED
    BY <1>3, <1>4, <2>1, SameRecord DEF as, sa, s, a
<1>6. CASE call.at # "idle"
  <2>1. call.at \in {"count", "counted"} /\ f # "remote_packet_counter"
    BY <1>6
  <2>2. f \in Fields
    BY DEF WellTyped
  <2>3. s.remote_packet_counter = r.remote_packet_counter
    BY <1>1, <2>1, FieldFacts
  <2>4. as.remote_packet_counter = a.remote_packet_counter
    <3>1. CASE call.at = "count"
      <4>1. a.remote_packet_counter =
               IF MigrationThreshold > 0 /\ r.remote_packet_counter + 1 > MigrationThreshold
               THEN 0 ELSE r.remote_packet_counter + 1
        BY <1>2, <3>1, MisroutedFacts
      <4>2. as.remote_packet_counter =
               IF MigrationThreshold > 0 /\ s.remote_packet_counter + 1 > MigrationThreshold
               THEN 0 ELSE s.remote_packet_counter + 1
        BY <1>1, <1>3, <3>1, MisroutedFacts
      <4>. QED
        BY <2>3, <4>1, <4>2
    <3>2. CASE call.at = "counted"
      <4>1. DOMAIN call.writes = {"remote_packet_counter"} /\ WellTyped(call.writes)
        BY <3>2 DEF WorkerFits
      <4>2. "remote_packet_counter" \in Fields
        BY FieldFacts
      <4>3. a["remote_packet_counter"] = call.writes["remote_packet_counter"]
        BY <1>2, <3>2, <4>1, <4>2, OverFacts
      <4>4. as["remote_packet_counter"] = call.writes["remote_packet_counter"]
        BY <1>1, <1>3, <3>2, <4>1, <4>2, OverFacts
      <4>. QED
        BY <4>3, <4>4
    <3>. QED
      BY <2>1, <3>1, <3>2
  <2>5. \A g \in Fields \ {"remote_packet_counter"} : as[g] = s[g] /\ a[g] = r[g]
    BY <1>2, <1>3, <2>1
  <2>6. \A g \in Fields : as[g] = sa[g]
    BY <1>1, <1>4, <2>1, <2>4, <2>5
  <2>. QED
    BY <1>3, <1>4, <2>6, SameRecord DEF as, sa, s, a
<1>. QED
  BY <1>5, <1>6
-----------------------------------------------------------------------------
(***************************************************************************)
(* The history: what starts, takes effect and ends.                        *)
(***************************************************************************)
LEMMA CaseFacts ==
    \A r, p, m : /\ Case(r, p, m).record = r
                 /\ Case(r, p, m).packet = p /\ Case(r, p, m).message = m
BY DEF Case

LEMMA CaseAwaitsPacket == \A r, p, m, x : [Case(r, p, m) EXCEPT !.packet = x] = Case(r, x, m)
BY DEF Case

LEMMA CaseAwaitsMessage == \A r, p, m, x : [Case(r, p, m) EXCEPT !.message = x] = Case(r, p, x)
BY DEF Case

LEMMA IsCase ==
    ASSUME NEW t, NEW r, NEW p, NEW m, DOMAIN t = {"record", "packet", "message"},
           t = [f \in DOMAIN t |-> t[f]], t.record = r, t.packet = p, t.message = m
    PROVE  t = Case(r, p, m)
<1>1. t = [f \in {"record", "packet", "message"} |-> t[f]]
  OBVIOUS
<1>. QED
  BY <1>1, Zenon DEF Case

LEMMA PacketTakesEffect ==
    ASSUME NEW S, NEW r, NEW m, Case(r, TRUE, m) \in S
    PROVE  Case(OnPacket(r), FALSE, m) \in WithPacket(S)
<1>. DEFINE s == Case(r, TRUE, m)
            q == OnPacket(r)
            x == FALSE
            t == [s EXCEPT !.record = q, !.packet = x]
<1>1. /\ s \in S /\ DOMAIN s = {"record", "packet", "message"}
      /\ s.record = r /\ s.packet = TRUE /\ s.message = m
  BY DEF Case
<1>2. t = [s EXCEPT !.record = q, !.packet = x]
  OBVIOUS
<1>3. [s EXCEPT !.record = OnPacket(s.record), !.packet = FALSE] \in WithPacket(S)
  <2>. HIDE DEF s
  <2>. QED
    BY <1>1 DEF WithPacket
<1>4. [s EXCEPT !.record = OnPacket(s.record), !.packet = FALSE] = t
  BY <1>1, Zenon
<1>. HIDE DEF s, q, x, t
<1>5. /\ DOMAIN t = {"record", "packet", "message"} /\ t = [f \in DOMAIN t |-> t[f]]
      /\ t.record = q /\ t.packet = x /\ t.message = m
  BY <1>1, <1>2
<1>6. t = Case(q, x, m)
  BY <1>5, IsCase
<1>. QED
  BY <1>3, <1>4, <1>6, Zenon DEF q, x

LEMMA MessageTakesEffect ==
    ASSUME NEW S, NEW call, NEW r, NEW p, Case(r, p, TRUE) \in S
    PROVE  Case(OnControl(r, call), p, FALSE) \in WithControl(S, call)
<1>. DEFINE s == Case(r, p, TRUE)
            q == OnControl(r, call)
            x == FALSE
            t == [s EXCEPT !.record = q, !.message = x]
<1>1. /\ s \in S /\ DOMAIN s = {"record", "packet", "message"}
      /\ s.record = r /\ s.message = TRUE /\ s.packet = p
  BY DEF Case
<1>2. t = [s EXCEPT !.record = q, !.message = x]
  OBVIOUS
<1>3. [s EXCEPT !.record = OnControl(s.record, call), !.message = FALSE] \in WithControl(S, call)
  <2>. HIDE DEF s
  <2>. QED
    BY <1>1 DEF WithControl
<1>4. [s EXCEPT !.record = OnControl(s.record, call), !.message = FALSE] = t
  BY <1>1, Zenon
<1>. HIDE DEF s, q, x, t
<1>5. /\ DOMAIN t = {"record", "packet", "message"} /\ t = [f \in DOMAIN t |-> t[f]]
      /\ t.record = q /\ t.message = x /\ t.packet = p
  BY <1>1, <1>2
<1>6. t = Case(q, p, x)
  BY <1>5, IsCase
<1>. QED
  BY <1>3, <1>4, <1>6, Zenon DEF q, x

LEMMA PacketOrders ==
    ASSUME NEW S, NEW call, NEW r
    PROVE  LET T == Orders({[s EXCEPT !.packet = TRUE] : s \in S}, call)
           IN  /\ Done(r) \in S => Done(OnPacket(r)) \in T
               /\ MessageAwaits(r) \in S =>
                      /\ MessageAwaits(OnPacket(r)) \in T
                      /\ Done(OnControl(OnPacket(r), call)) \in T
<1>. DEFINE U == {[s EXCEPT !.packet = TRUE] : s \in S}
<1>1. ASSUME NEW m, Case(r, FALSE, m) \in S
      PROVE  Case(OnPacket(r), FALSE, m) \in WithPacket(U)
  <2>1. [Case(r, FALSE, m) EXCEPT !.packet = TRUE] = Case(r, TRUE, m)
    <3>1. \A x, y : [Case(r, y, m) EXCEPT !.packet = x] = Case(r, x, m)
      BY CaseAwaitsPacket
    <3>. QED
      BY <3>1, Zenon
  <2>2. Case(r, TRUE, m) \in U
    BY <1>1, <2>1
  <2>. QED
    BY <2>2, PacketTakesEffect
<1>. HIDE DEF U
<1>2. WithControl(WithPacket(U), call) \subseteq Orders(U, call)
  BY DEF Orders
<1>3. WithPacket(U) \subseteq WithControl(WithPacket(U), call)
  BY DEF WithControl
<1>4. Done(r) \in S => Done(OnPacket(r)) \in WithPacket(U)
  BY <1>1, Zenon DEF Done
<1>5. MessageAwaits(r) \in S => MessageAwaits(OnPacket(r)) \in WithPacket(U)
  BY <1>1, Zenon DEF MessageAwaits
<1>6. MessageAwaits(OnPacket(r)) \in WithPacket(U) =>
         Done(OnControl(OnPacket(r), call)) \in WithControl(WithPacket(U), call)
  BY MessageTakesEffect DEF Done, MessageAwaits
<1>. QED
  BY <1>2, <1>3, <1>4, <1>5, <1>6 DEF U

LEMMA MessageOrders ==
    ASSUME NEW S, NEW call, NEW r, Done(r) \in S
    PROVE  LET T == Orders({[s EXCEPT !.message = TRUE] : s \in S}, call)
           IN  MessageAwaits(r) \in T /\ Done(OnControl(r, call)) \in T
<1>. DEFINE U == {[s EXCEPT !.message = TRUE] : s \in S}
<1>1. [Done(r) EXCEPT !.message = TRUE] = MessageAwaits(r)
  <2>1. \A x, y, z : [Case(r, y, z) EXCEPT !.message = x] = Case(r, y, x)
    BY CaseAwaitsMessage
  <2>. QED
    BY <2>1, Zenon DEF Done, MessageAwaits
<1>2. MessageAwaits(r) \in U
  BY <1>1
<1>. HIDE DEF U
<1>3. Done(OnControl(r, call)) \in WithControl(U, call)
  BY <1>2, MessageTakesEffect DEF Done, MessageAwaits
<1>4. U \subseteq WithControl(U, call)
  BY DEF WithControl
<1>5. WithControl(U, call) \subseteq WithPacket(WithControl(U, call))
  BY DEF WithPacket
<1>6. WithPacket(WithControl(U, call)) \subseteq Orders(U, call)
  BY DEF Orders
<1>. QED
  BY <1>2, <1>3, <1>4, <1>5, <1>6 DEF U

(* What has ended stays when a call ends.                                  *)
LEMMA EndsKeep ==
    ASSUME NEW S, NEW r
    PROVE  /\ Done(r) \in S => /\ Done(r) \in {s \in S : ~s.packet}
                               /\ Done(r) \in {s \in S : ~s.message}
           /\ MessageAwaits(r) \in S => MessageAwaits(r) \in {s \in S : ~s.packet}
<1>1. /\ Done(r).packet = FALSE /\ Done(r).message = FALSE
      /\ MessageAwaits(r).packet = FALSE
  BY DEF Done, MessageAwaits, Case
<1>. QED
  BY <1>1

-----------------------------------------------------------------------------
LEMMA QuietBefore == Races /\ Quiet' => Quiet /\ ~raced'
BY DEF Races, Quiet

LEMMA NowFits ==
    ASSUME WritesFit
    PROVE  /\ IsRecord(rec) /\ WorkerFits(worker) /\ ControlFits(control)
           /\ IsClaim(control.claim) /\ raced \in BOOLEAN
           /\ IsRecord(AfterWorker(rec, worker)) /\ IsRecord(Outcome)
<1>1. /\ IsRecord(rec) /\ WorkerFits(worker) /\ ControlFits(control) /\ raced \in BOOLEAN
  BY DEF WritesFit, AccessTypeOK
<1>2. IsRecord(AfterWorker(rec, worker))
  BY <1>1, AfterWorkerFacts
<1>3. IsRecord(Outcome)
  BY <1>1, <1>2, AfterControlFacts DEF Outcome
<1>. QED
  BY <1>1, <1>2, <1>3 DEF ControlFits

LEMMA NextFits ==
    ASSUME IsRecord(rec'), WorkerFits(worker'), ControlFits(control'), raced' \in BOOLEAN
    PROVE  WritesFit'
BY DEF WritesFit, AccessTypeOK, IsRecord, WorkerFits, ControlFits

LEMMA RacesTyped == raced \in BOOLEAN /\ Races => raced' \in BOOLEAN
BY DEF Races, Clash

LEMMA MayComeFirst ==
    ASSUME NEW S, NEW call, NEW o, NEW r, MessageAwaits(r) \in S, IsRecord(r),
           r.owner_box = Peer, OnControl(r, call) = o
    PROVE  \E m \in S : /\ m = MessageAwaits(m.record)
                        /\ IsRecord(m.record) /\ m.record.owner_box = Peer
                        /\ OnControl(m.record, call) = o
<1>. DEFINE m == MessageAwaits(r)
<1>1. m.record = r
  BY CaseFacts, Zenon DEF MessageAwaits
<1>2. m \in S /\ m = MessageAwaits(m.record)
  BY <1>1, Zenon
<1>. HIDE DEF m
<1>. QED
  BY <1>1, <1>2, Zenon

LEMMA PacketReadsOwnerSafe ==
    ASSUME SerialInv, PacketReadsOwner
    PROVE  SerialInv'
<1>1. /\ IsRecord(rec) /\ WorkerFits(worker) /\ ControlFits(control)
      /\ IsClaim(control.claim) /\ raced \in BOOLEAN /\ IsRecord(Outcome)
  BY NowFits DEF SerialInv
<1>2. /\ rec' = rec /\ control' = control /\ Races /\ PacketStarts /\ worker.at = "idle"
      /\ \/ worker' = [at |-> "count", writes |-> Nothing] /\ rec.owner_box = Peer
         \/ worker' = [at |-> "claim", writes |-> Nothing] /\ rec.owner_box = Unowned
  BY DEF PacketReadsOwner, WorkerGoes
<1>3. WorkerFits(worker')
  BY <1>2, NothingFacts DEF WorkerFits
<1>4. WritesFit'
  BY <1>1, <1>2, <1>3, RacesTyped, NextFits
<1>5. ASSUME Quiet'
      PROVE  ControlReadingsHold' /\ OutcomeIsSerial' /\ PacketMayComeFirst'
  <2>. DEFINE T == Orders({[s EXCEPT !.packet = TRUE] : s \in serial}, control)
  <2>1. /\ ControlReadingsHold /\ OutcomeIsSerial /\ PacketMayComeFirst
        /\ ~Clash' /\ serial' = T
    BY <1>2, <1>5, QuietBefore DEF SerialInv, Quiet, PacketStarts, Becomes
  <2>2. ControlReadingsHold'
    BY <1>2, <2>1 DEF ControlReadingsHold
  <2>3. /\ Outcome = AfterControl(rec, control)
        /\ Outcome' = AfterControl(AfterWorker(rec, worker'), control)
    BY <1>1, <1>2, AfterWorkerFacts DEF Outcome
  <2>4. Done(Outcome) \in serial
    BY <2>1 DEF OutcomeIsSerial
  <2>5. Done(OnPacket(Outcome)) \in T
    BY <2>4, PacketOrders
  <2>. HIDE DEF T
  <2>6. CASE worker' = [at |-> "count", writes |-> Nothing] /\ rec.owner_box = Peer
    <3>1. worker'.at = "count" /\ control.at # "sweep"
      BY <1>2, <2>1, <2>6 DEF Clash
    <3>2. Outcome' = Misrouted(Outcome, MigrationThreshold)
      BY <1>1, <1>3, <2>3, <3>1, AfterWorkerFacts, CountCommutesWithCall
    <3>3. ASSUME NEW r, r.owner_box = Peer
          PROVE  OnPacket(r) = Misrouted(r, MigrationThreshold)
      BY <3>3, ConstantFacts DEF OnPacket
    <3>4. CASE MayReplaceOwner
      <4>1. PICK m \in serial : /\ m = MessageAwaits(m.record)
                                /\ IsRecord(m.record) /\ m.record.owner_box = Peer
                                /\ OnControl(m.record, control) = Outcome
        BY <2>1, <2>6, <3>4 DEF PacketMayComeFirst
      <4>. DEFINE b == m.record
                  mb == Misrouted(b, MigrationThreshold)
      <4>2. MessageAwaits(b) \in serial /\ OnPacket(b) = mb
        BY <3>3, <4>1
      <4>3. MessageAwaits(mb) \in serial'
        <5>1. MessageAwaits(OnPacket(b)) \in T
          BY <4>2, PacketOrders DEF T
        <5>. QED
          BY <2>1, <4>2, <5>1
      <4>4. Done(OnControl(mb, control)) \in serial'
        <5>1. Done(OnControl(OnPacket(b), control)) \in T
          BY <4>2, PacketOrders DEF T
        <5>. QED
          BY <2>1, <4>2, <5>1
      <4>5. OnControl(mb, control) = Outcome'
        BY <1>1, <3>1, <3>2, <4>1, CountCommutesWithMessage
      <4>6. IsRecord(mb) /\ mb.owner_box = Peer
        BY <4>1, MisroutedFacts, FieldFacts
      <4>7. OutcomeIsSerial'
        BY <4>4, <4>5 DEF OutcomeIsSerial
      <4>. HIDE DEF mb
      <4>8. PacketMayComeFirst'
        <5>1. \E n \in serial' : /\ n = MessageAwaits(n.record)
                                  /\ IsRecord(n.record) /\ n.record.owner_box = Peer
                                  /\ OnControl(n.record, control) = Outcome'
          BY <4>3, <4>5, <4>6, MayComeFirst
        <5>. QED
          BY <1>2, <5>1 DEF PacketMayComeFirst
      <4>. QED
        BY <2>2, <4>7, <4>8
    <3>5. CASE ~MayReplaceOwner
      <4>1. Outcome.owner_box = Peer
        <5>1. CASE control.at = "idle"
          BY <1>1, <2>3, <2>6, <5>1, AfterControlFacts
        <5>2. CASE control.at = "adopt"
          <6>1. "owner_box" \notin DOMAIN control.writes /\ WellTyped(control.writes)
            BY <1>1, <3>5, <5>2 DEF MayReplaceOwner, ControlFits
          <6>2. Outcome = Over(rec, control.writes)
            BY <1>1, <2>3, <5>2, AfterControlFacts
          <6>. QED
            BY <1>1, <2>6, <6>1, <6>2, OverFacts, FieldFacts
        <5>. QED
          BY <1>1, <3>1, <3>5, <5>1, <5>2 DEF MayReplaceOwner, ControlFits
      <4>2. OutcomeIsSerial'
        BY <2>1, <2>5, <3>2, <3>3, <4>1 DEF OutcomeIsSerial
      <4>3. PacketMayComeFirst'
        BY <1>2, <3>5 DEF PacketMayComeFirst, MayReplaceOwner
      <4>. QED
        BY <2>2, <4>2, <4>3
    <3>. QED
      BY <3>4, <3>5
  <2>7. CASE worker' = [at |-> "claim", writes |-> Nothing] /\ rec.owner_box = Unowned
    <3>1. worker'.at = "claim" /\ control.at = "idle"
      BY <1>2, <2>1, <2>7 DEF Clash
    <3>2. Outcome = rec
      BY <1>1, <2>3, <3>1, AfterControlFacts
    <3>3. Outcome' = Claimed(rec, LocalBox, 1)
      BY <1>1, <1>3, <2>3, <3>1, AfterWorkerFacts, AfterControlFacts, ClaimedFacts
    <3>4. OnPacket(rec) = Claimed(rec, LocalBox, 1)
      BY <2>7, ConstantFacts DEF OnPacket
    <3>5. OutcomeIsSerial'
      BY <2>1, <2>5, <3>2, <3>3, <3>4 DEF OutcomeIsSerial
    <3>6. PacketMayComeFirst'
      BY <1>2, <3>1 DEF PacketMayComeFirst, MayReplaceOwner
    <3>. QED
      BY <2>2, <3>5, <3>6
  <2>. QED
    BY <1>2, <2>6, <2>7
<1>. QED
  BY <1>4, <1>5 DEF SerialInv
(***************************************************************************)
(* A later step of the worker: what its call will have done is the same.   *)
(***************************************************************************)
LEMMA WorkerGoesOn ==
    ASSUME SerialInv, Races, IsRecord(rec'), WorkerFits(worker'), control' = control,
           AfterWorker(rec', worker') = AfterWorker(rec, worker),
           serial' = serial \/ PacketEnds,
           Quiet /\ control.at # "idle" =>
               /\ rec'.owner_epoch = rec.owner_epoch /\ rec'.generation = rec.generation
               /\ rec'.owner_box = rec.owner_box
    PROVE  SerialInv'
<1>1. ControlFits(control) /\ raced \in BOOLEAN
  BY NowFits DEF SerialInv
<1>2. WritesFit'
  BY <1>1, RacesTyped, NextFits
<1>3. Outcome' = Outcome
  BY DEF Outcome
<1>4. ASSUME Quiet'
      PROVE  ControlReadingsHold' /\ OutcomeIsSerial' /\ PacketMayComeFirst'
  <2>1. /\ Quiet /\ ControlReadingsHold /\ OutcomeIsSerial /\ PacketMayComeFirst
        /\ serial' = serial \/ serial' = {s \in serial : ~s.packet}
    BY <1>4, QuietBefore DEF SerialInv, PacketEnds, Becomes
  <2>2. ControlReadingsHold'
    BY <2>1 DEF ControlReadingsHold
  <2>3. OutcomeIsSerial'
    BY <1>3, <2>1, EndsKeep DEF OutcomeIsSerial
  <2>4. PacketMayComeFirst'
    <3>1. SUFFICES ASSUME MayReplaceOwner', rec'.owner_box = Peer
                   PROVE  \E m \in serial' : /\ m = MessageAwaits(m.record)
                                             /\ IsRecord(m.record) /\ m.record.owner_box = Peer
                                             /\ OnControl(m.record, control) = Outcome
      BY <1>3 DEF PacketMayComeFirst
    <3>2. MayReplaceOwner /\ control.at # "idle"
      BY <3>1 DEF MayReplaceOwner
    <3>3. PICK m \in serial : /\ m = MessageAwaits(m.record)
                              /\ IsRecord(m.record) /\ m.record.owner_box = Peer
                              /\ OnControl(m.record, control) = Outcome
      BY <2>1, <3>1, <3>2 DEF PacketMayComeFirst
    <3>4. m \in serial'
      BY <2>1, <3>3, EndsKeep
    <3>. QED
      BY <3>3, <3>4
  <2>. QED
    BY <2>2, <2>3, <2>4
<1>. QED
  BY <1>2, <1>4 DEF SerialInv

LEMMA PacketCountsSafe ==
    ASSUME SerialInv, PacketCounts
    PROVE  SerialInv'
<1>1. IsRecord(rec) /\ WorkerFits(worker)
  BY NowFits DEF SerialInv
<1>2. /\ rec' = rec /\ control' = control /\ serial' = serial /\ Races /\ worker.at = "count"
      /\ worker' = [at |-> "counted",
                    writes |-> Values(Misrouted(rec, MigrationThreshold),
                                      {"remote_packet_counter"})]
  BY DEF PacketCounts, WorkerGoes
<1>3. WorkerFits(worker') /\ AfterWorker(rec, worker') = AfterWorker(rec, worker)
  BY <1>1, <1>2, CountingWrites, AfterWorkerFacts
<1>. QED
  BY <1>1, <1>2, <1>3, WorkerGoesOn

LEMMA PacketClaimsSafe ==
    ASSUME SerialInv, PacketClaims
    PROVE  SerialInv'
<1>1. IsRecord(rec) /\ WorkerFits(worker)
  BY NowFits DEF SerialInv
<1>2. /\ rec' = rec /\ control' = control /\ serial' = serial /\ Races /\ worker.at = "claim"
      /\ worker' = [at |-> "claimed",
                    writes |-> Values(Claimed(rec, LocalBox, 1), Fields \ {"owner_epoch"})]
  BY DEF PacketClaims, WorkerGoes
<1>3. WorkerFits(worker') /\ AfterWorker(rec, worker') = AfterWorker(rec, worker)
  BY <1>1, <1>2, ClaimingWrites, AfterWorkerFacts
<1>. QED
  BY <1>1, <1>2, <1>3, WorkerGoesOn

LEMMA WorkerWritesSafe ==
    ASSUME SerialInv, WorkerWrites
    PROVE  SerialInv'
<1>1. IsRecord(rec) /\ WorkerFits(worker) /\ WellTyped(worker.writes)
  BY NowFits DEF SerialInv, WorkerFits
<1>2. PICK f \in DOMAIN worker.writes :
          /\ Races /\ control' = control
          /\ rec' = [rec EXCEPT ![f] = worker.writes[f]]
          /\ worker' = WorkerNext(worker, Remaining(worker.writes, f))
          /\ serial' = serial \/ PacketEnds
  BY DEF WorkerWrites, WorkerNext
<1>3. /\ IsRecord(rec') /\ WorkerFits(worker')
      /\ AfterWorker(rec', worker') = AfterWorker(rec, worker)
  BY <1>1, <1>2, WorkerWrite
<1>4. ASSUME Quiet, control.at # "idle"
      PROVE  /\ rec'.owner_epoch = rec.owner_epoch /\ rec'.generation = rec.generation
             /\ rec'.owner_box = rec.owner_box
  <2>1. f = "remote_packet_counter"
    BY <1>1, <1>2, <1>4 DEF Quiet, Clash, WorkerFits
  <2>2. \A g \in Fields \ {f} : rec'[g] = rec[g]
    BY <1>1, <1>2, StoreFacts
  <2>. QED
    BY <2>1, <2>2, FieldFacts
<1>. QED
  BY <1>2, <1>3, <1>4, WorkerGoesOn

(***************************************************************************)
(* A call of the control thread starts: both orders are possible.          *)
(***************************************************************************)
LEMMA ControlBegins ==
    ASSUME SerialInv, Races, rec' = rec, worker' = worker, ControlFits(control'),
           control.at = "idle", control'.at # "idle", ControlStarts, ControlReadingsHold',
           Quiet' => Outcome' = OnControl(AfterWorker(rec, worker), control')
    PROVE  SerialInv'
<1>1. /\ IsRecord(rec) /\ WorkerFits(worker) /\ ControlFits(control) /\ raced \in BOOLEAN
      /\ IsRecord(AfterWorker(rec, worker))
  BY NowFits DEF SerialInv
<1>2. WritesFit'
  BY <1>1, RacesTyped, NextFits
<1>3. ASSUME Quiet'
      PROVE  OutcomeIsSerial' /\ PacketMayComeFirst'
  <2>. DEFINE T == Orders({[s EXCEPT !.message = TRUE] : s \in serial}, control')
              o == AfterWorker(rec, worker)
  <2>1. OutcomeIsSerial /\ ~Clash' /\ serial' = T
    BY <1>3, QuietBefore DEF SerialInv, Quiet, ControlStarts, Becomes
  <2>2. Outcome = o
    BY <1>1, AfterControlFacts DEF Outcome
  <2>3. MessageAwaits(o) \in T /\ Done(OnControl(o, control')) \in T
    BY <2>1, <2>2, MessageOrders DEF OutcomeIsSerial
  <2>4. OutcomeIsSerial'
    BY <1>3, <2>1, <2>3 DEF OutcomeIsSerial
  <2>. HIDE DEF T
  <2>5. o.owner_box = rec.owner_box
    <3>1. worker.at \in {"idle", "count", "counted"}
      BY <1>1, <2>1 DEF Clash, WorkerFits
    <3>. QED
      BY <1>1, <3>1, AfterWorkerFacts, FieldFacts
  <2>. HIDE DEF o
  <2>6. ASSUME rec'.owner_box = Peer
        PROVE  \E m \in serial' : /\ m = MessageAwaits(m.record)
                                  /\ IsRecord(m.record) /\ m.record.owner_box = Peer
                                  /\ OnControl(m.record, control') = Outcome'
    <3>1. IsRecord(o) /\ o.owner_box = Peer /\ OnControl(o, control') = Outcome'
      BY <1>1, <1>3, <2>5, <2>6 DEF o
    <3>. QED
      BY <2>1, <2>3, <3>1, MayComeFirst
  <2>7. PacketMayComeFirst'
    BY <2>6 DEF PacketMayComeFirst
  <2>. QED
    BY <2>4, <2>7
<1>. QED
  BY <1>2, <1>3 DEF SerialInv
(***************************************************************************)
(* A later step of the control thread.                                     *)
(***************************************************************************)
LEMMA ControlGoesOn ==
    ASSUME SerialInv, Races, IsRecord(rec'), worker' = worker, ControlFits(control'),
           serial' = serial \/ ControlEnds,
           Quiet => Outcome' = Outcome /\ ControlReadingsHold',
           MayReplaceOwner' =>
               /\ MayReplaceOwner /\ serial' = serial /\ rec'.owner_box = rec.owner_box
               /\ control'.claim = control.claim
    PROVE  SerialInv'
<1>1. /\ WorkerFits(worker) /\ ControlFits(control) /\ raced \in BOOLEAN
  BY NowFits DEF SerialInv
<1>2. WritesFit'
  BY <1>1, RacesTyped, NextFits
<1>3. ASSUME Quiet'
      PROVE  ControlReadingsHold' /\ OutcomeIsSerial' /\ PacketMayComeFirst'
  <2>1. /\ Quiet /\ OutcomeIsSerial /\ PacketMayComeFirst
        /\ serial' = serial \/ serial' = {s \in serial : ~s.message}
    BY <1>3, QuietBefore DEF SerialInv, ControlEnds, Becomes
  <2>2. ControlReadingsHold' /\ Outcome' = Outcome
    BY <2>1
  <2>3. OutcomeIsSerial'
    BY <2>1, <2>2, EndsKeep DEF OutcomeIsSerial
  <2>4. PacketMayComeFirst'
    <3>1. SUFFICES ASSUME MayReplaceOwner', rec'.owner_box = Peer
                   PROVE  \E m \in serial' : /\ m = MessageAwaits(m.record)
                                             /\ IsRecord(m.record) /\ m.record.owner_box = Peer
                                             /\ OnControl(m.record, control') = Outcome
      BY <2>2 DEF PacketMayComeFirst
    <3>2. PICK m \in serial : /\ m = MessageAwaits(m.record)
                              /\ IsRecord(m.record) /\ m.record.owner_box = Peer
                              /\ OnControl(m.record, control) = Outcome
      BY <2>1, <3>1 DEF PacketMayComeFirst
    <3>3. control.at # "sweep" /\ control'.at # "sweep" /\ control'.claim = control.claim
      BY <3>1 DEF MayReplaceOwner
    <3>4. OnControl(m.record, control') = OnControl(m.record, control)
      BY <3>3 DEF OnControl
    <3>. QED
      BY <3>1, <3>2, <3>4
  <2>. QED
    BY <2>2, <2>3, <2>4
<1>. QED
  BY <1>2, <1>3 DEF SerialInv

(* What the control thread has read the worker does not change unnoticed.  *)
LEMMA WorkerKeepsReadings ==
    ASSUME WritesFit, worker.at \in {"idle", "count", "counted"}
    PROVE  LET o == AfterWorker(rec, worker)
           IN  /\ IsRecord(o) /\ o.owner_epoch = rec.owner_epoch
               /\ o.generation = rec.generation /\ o.owner_box = rec.owner_box
BY NowFits, AfterWorkerFacts, FieldFacts

LEMMA WorkerIsApart ==
    ASSUME WritesFit, ~Clash, control.at # "idle"
    PROVE  /\ worker.at \in {"idle", "count", "counted"}
           /\ control.at = "sweep" => worker.at = "idle"
BY NowFits DEF Clash, WorkerFits

LEMMA SerialStutter ==
    ASSUME SerialInv, UNCHANGED vars
    PROVE  SerialInv'
BY DEF SerialInv, vars, WritesFit, AccessTypeOK, Quiet, Clash, ControlReadingsHold,
       OutcomeIsSerial, PacketMayComeFirst, MayReplaceOwner, Outcome

(***************************************************************************)
(* What the steps of a message make of any record with the values read.    *)
(***************************************************************************)
LEMMA EpochRead ==
    ASSUME WritesFit, NEW c \in PeerClaims, MessageReadsEpoch(c), ~UNCHANGED vars,
           NEW r, IsRecord(r), r.owner_epoch = rec.owner_epoch
    PROVE  /\ Races /\ rec' = rec /\ worker' = worker /\ announced' = announced
           /\ control.at = "idle" /\ control'.at \in {"adopt", "generation"} /\ ControlStarts
           /\ ControlFits(control') /\ control'.claim = c /\ IsClaim(c)
           /\ control'.at = "generation" => c.owner_epoch = rec.owner_epoch
           /\ AfterControl(r, control') = OnControl(r, control')
<1>1. IsClaim(c) /\ IsRecord(rec)
  BY PeerClaimsAssumption, NowFits DEF IsClaim
<1>2. CASE /\ c.owner_epoch > rec.owner_epoch
           /\ ControlGoes("adopt", c, Values(Adopt(rec, c), Fields \ {"remote_packet_counter"}))
           /\ ControlStarts /\ control.at = "idle"
  <2>. DEFINE call == [at |-> "adopt", claim |-> c,
                       writes |-> Values(Adopt(rec, c), Fields \ {"remote_packet_counter"})]
  <2>1. ControlFits(call) /\ AfterControl(r, call) = Adopt(r, c)
    BY <1>1, AdoptingWrites, FieldFacts
  <2>2. call.at = "adopt" /\ call.claim = c
    OBVIOUS
  <2>3. Beats(c, r)
    BY <1>2 DEF Beats
  <2>4. control' = call /\ Races /\ rec' = rec /\ worker' = worker /\ announced' = announced
    BY <1>2 DEF ControlGoes
  <2>. HIDE DEF call
  <2>5. OnControl(r, call) = Adopt(r, c)
    BY <1>1, <2>2, <2>3, OnControlFacts
  <2>. QED
    BY <1>1, <1>2, <2>1, <2>2, <2>4, <2>5
<1>3. CASE /\ c.owner_epoch = rec.owner_epoch
           /\ ControlGoes("generation", c, Nothing) /\ ControlStarts /\ control.at = "idle"
  <2>1. /\ control' = [at |-> "generation", claim |-> c, writes |-> Nothing]
        /\ Races /\ rec' = rec /\ worker' = worker /\ announced' = announced
    BY <1>3 DEF ControlGoes
  <2>2. ControlFits(control')
    BY <1>1, <2>1, NothingFacts DEF ControlFits
  <2>. QED
    BY <1>1, <1>3, <2>1, <2>2, AfterControlFacts
<1>. QED
  BY <1>2, <1>3 DEF MessageReadsEpoch

LEMMA GenerationRead ==
    ASSUME WritesFit, MessageReadsGeneration, NEW r, IsRecord(r)
    PROVE  /\ Races /\ rec' = rec /\ worker' = worker /\ announced' = announced
           /\ control.at = "generation" /\ ControlFits(control')
           /\ \/ control'.at = "idle" /\ ControlEnds
              \/ /\ control'.at \in {"adopt", "owner"} /\ serial' = serial
                 /\ control'.claim = control.claim
           /\ control'.at = "owner" => control.claim.generation = rec.generation
           /\ r.owner_epoch = control.claim.owner_epoch /\ r.generation = rec.generation =>
                  AfterControl(r, control') = AfterControl(r, control)
<1>. DEFINE c == control.claim
            Same == r.owner_epoch = c.owner_epoch /\ r.generation = rec.generation
<1>1. /\ IsClaim(c) /\ IsRecord(rec) /\ ControlFits(control)
      /\ c.generation \in Nat /\ r.generation \in Nat /\ c.owner_epoch \in Nat
  BY NowFits, ConstantFacts, RecordFacts DEF IsClaim
<1>2. control.at = "generation" /\ AfterControl(r, control) = OnControl(r, control)
  BY <1>1, AfterControlFacts DEF MessageReadsGeneration
<1>3. CASE /\ c.generation > rec.generation /\ serial' = serial
           /\ ControlGoes("adopt", c,
                  Values(Adopt(rec, c), {"owner_box", "generation", "activation_ts", "state"}))
  <2>. DEFINE call == [at |-> "adopt", claim |-> c,
                       writes |-> Values(Adopt(rec, c),
                                         {"owner_box", "generation", "activation_ts", "state"})]
  <2>1. ControlFits(call) /\ (Same => AfterControl(r, call) = Adopt(r, c))
    BY <1>1, AdoptingWrites, AdoptingFits, FieldFacts
  <2>2. call.at = "adopt" /\ call.claim = c
    OBVIOUS
  <2>3. Same => Beats(c, r)
    BY <1>3 DEF Beats
  <2>4. control' = call /\ Races /\ rec' = rec /\ worker' = worker /\ announced' = announced
    BY <1>3 DEF ControlGoes
  <2>5. Same => OnControl(r, control) = Adopt(r, c)
    BY <1>1, <1>2, <2>3, OnControlFacts
  <2>. HIDE DEF call
  <2>. QED
    BY <1>2, <1>3, <2>1, <2>2, <2>4, <2>5
<1>4. CASE /\ c.generation = rec.generation /\ serial' = serial
           /\ ControlGoes("owner", c, Nothing)
  <2>1. /\ control' = [at |-> "owner", claim |-> c, writes |-> Nothing]
        /\ Races /\ rec' = rec /\ worker' = worker /\ announced' = announced
    BY <1>4 DEF ControlGoes
  <2>2. control'.at = "owner" /\ control'.claim = c
    BY <2>1
  <2>3. ControlFits(control')
    BY <1>1, <2>1, NothingFacts DEF ControlFits
  <2>4. AfterControl(r, control') = OnControl(r, control')
    BY <2>2, <2>3, AfterControlFacts
  <2>5. OnControl(r, control') = OnControl(r, control)
    BY <1>2, <2>2 DEF OnControl
  <2>. QED
    BY <1>2, <1>4, <2>1, <2>2, <2>3, <2>4, <2>5
<1>5. CASE c.generation < rec.generation /\ ControlReturns /\ ControlEnds
  <2>1. /\ control' = IdleControl /\ Races /\ rec' = rec /\ worker' = worker
        /\ announced' = announced
    BY <1>5 DEF ControlReturns
  <2>2. Same => ~Beats(c, r)
    BY <1>1, <1>5 DEF Beats
  <2>3. Same => OnControl(r, control) = r
    BY <1>1, <1>2, <2>2, OnControlFacts
  <2>. QED
    BY <1>2, <1>5, <2>1, <2>3, IdleControlFits, AfterControlFacts
<1>. QED
  BY <1>3, <1>4, <1>5 DEF MessageReadsGeneration

LEMMA OwnerRead ==
    ASSUME WritesFit, MessageReadsOwner, NEW r, IsRecord(r)
    PROVE  /\ Races /\ rec' = rec /\ worker' = worker /\ announced' = announced
           /\ control.at = "owner" /\ ControlFits(control')
           /\ \/ control'.at = "idle" /\ ControlEnds
              \/ /\ control'.at = "adopt" /\ serial' = serial
                 /\ control'.claim = control.claim
           /\ r.owner_epoch = control.claim.owner_epoch
                 /\ r.generation = control.claim.generation /\ r.owner_box = rec.owner_box =>
                  AfterControl(r, control') = AfterControl(r, control)
<1>. DEFINE c == control.claim
            Same == /\ r.owner_epoch = c.owner_epoch /\ r.generation = c.generation
                    /\ r.owner_box = rec.owner_box
<1>1. /\ IsClaim(c) /\ IsRecord(rec) /\ ControlFits(control)
      /\ c.owner_box \in Nat /\ r.owner_box \in Nat
      /\ c.generation \in Nat /\ c.owner_epoch \in Nat
  BY NowFits, ConstantFacts, RecordFacts DEF IsClaim
<1>2. control.at = "owner" /\ AfterControl(r, control) = OnControl(r, control)
  BY <1>1, AfterControlFacts DEF MessageReadsOwner
<1>3. CASE /\ c.owner_box < rec.owner_box /\ serial' = serial
           /\ ControlGoes("adopt", c, Values(Adopt(rec, c), TieWrites))
  <2>. DEFINE call == [at |-> "adopt", claim |-> c, writes |-> Values(Adopt(rec, c), TieWrites)]
  <2>1. ControlFits(call) /\ (Same => AfterControl(r, call) = Adopt(r, c))
    BY <1>1, AdoptingWrites, AdoptingFits, FieldFacts DEF TieWrites
  <2>2. call.at = "adopt" /\ call.claim = c
    OBVIOUS
  <2>3. Same => Beats(c, r)
    BY <1>3 DEF Beats
  <2>4. control' = call /\ Races /\ rec' = rec /\ worker' = worker /\ announced' = announced
    BY <1>3 DEF ControlGoes
  <2>5. Same => OnControl(r, control) = Adopt(r, c)
    BY <1>1, <1>2, <2>3, OnControlFacts
  <2>. HIDE DEF call
  <2>. QED
    BY <1>2, <1>3, <2>1, <2>2, <2>4, <2>5
<1>4. CASE c.owner_box >= rec.owner_box /\ ControlReturns /\ ControlEnds
  <2>1. /\ control' = IdleControl /\ Races /\ rec' = rec /\ worker' = worker
        /\ announced' = announced
    BY <1>4 DEF ControlReturns
  <2>2. Same => ~Beats(c, r)
    BY <1>1, <1>4 DEF Beats
  <2>3. Same => OnControl(r, control) = r
    BY <1>1, <1>2, <2>2, OnControlFacts
  <2>. QED
    BY <1>2, <1>4, <2>1, <2>3, IdleControlFits, AfterControlFacts
<1>. QED
  BY <1>3, <1>4 DEF MessageReadsOwner
LEMMA MessageReadsEpochSafe ==
    ASSUME SerialInv, NEW c \in PeerClaims, MessageReadsEpoch(c)
    PROVE  SerialInv'
<1>1. CASE UNCHANGED vars
  BY <1>1, SerialStutter
<1>2. CASE ~UNCHANGED vars
  <2>1. WritesFit /\ IsRecord(rec)
    BY NowFits DEF SerialInv
  <2>2. /\ Races /\ rec' = rec /\ worker' = worker /\ control.at = "idle"
        /\ control'.at \in {"adopt", "generation"} /\ ControlStarts /\ ControlFits(control')
        /\ control'.at = "generation" => control'.claim.owner_epoch = rec.owner_epoch
    BY <1>2, <2>1, EpochRead
  <2>3. ControlReadingsHold'
    BY <2>2 DEF ControlReadingsHold
  <2>4. ASSUME Quiet' PROVE Outcome' = OnControl(AfterWorker(rec, worker), control')
    <3>1. worker.at \in {"idle", "count", "counted"}
      BY <2>1, <2>2, <2>4, NowFits DEF Quiet, Clash, WorkerFits
    <3>. DEFINE o == AfterWorker(rec, worker)
    <3>2. IsRecord(o) /\ o.owner_epoch = rec.owner_epoch
      BY <2>1, <3>1, WorkerKeepsReadings
    <3>3. Outcome' = AfterControl(o, control')
      BY <2>2 DEF Outcome
    <3>. HIDE DEF o
    <3>4. AfterControl(o, control') = OnControl(o, control')
      BY <1>2, <2>1, <3>2, EpochRead
    <3>. QED
      BY <3>3, <3>4 DEF o
  <2>. QED
    BY <2>2, <2>3, <2>4, ControlBegins
<1>. QED
  BY <1>1, <1>2

LEMMA MessageReadsGenerationSafe ==
    ASSUME SerialInv, MessageReadsGeneration
    PROVE  SerialInv'
<1>. DEFINE o == AfterWorker(rec, worker)
<1>1. WritesFit /\ IsRecord(rec) /\ control.at = "generation"
  BY NowFits DEF SerialInv, MessageReadsGeneration
<1>2. ASSUME Quiet
      PROVE  /\ IsRecord(o) /\ o.owner_epoch = control.claim.owner_epoch
             /\ o.generation = rec.generation
             /\ rec.owner_epoch = control.claim.owner_epoch
  BY <1>1, <1>2, WorkerKeepsReadings, WorkerIsApart DEF SerialInv, Quiet, ControlReadingsHold
<1>3. /\ Races /\ rec' = rec /\ worker' = worker /\ ControlFits(control')
      /\ \/ control'.at = "idle" /\ ControlEnds
         \/ /\ control'.at \in {"adopt", "owner"} /\ serial' = serial
            /\ control'.claim = control.claim
      /\ control'.at = "owner" => control.claim.generation = rec.generation
  BY <1>1, GenerationRead
<1>4. ASSUME Quiet PROVE Outcome' = Outcome /\ ControlReadingsHold'
  <2>1. Outcome' = AfterControl(o, control') /\ Outcome = AfterControl(o, control)
    BY <1>3 DEF Outcome
  <2>. HIDE DEF o
  <2>2. AfterControl(o, control') = AfterControl(o, control)
    BY <1>1, <1>2, <1>4, GenerationRead
  <2>3. ControlReadingsHold'
    BY <1>2, <1>3, <1>4 DEF ControlReadingsHold
  <2>. QED
    BY <2>1, <2>2, <2>3
<1>5. MayReplaceOwner' => MayReplaceOwner /\ serial' = serial /\ control'.claim = control.claim
  BY <1>1, <1>3 DEF MayReplaceOwner
<1>. QED
  BY <1>1, <1>3, <1>4, <1>5, ControlGoesOn
LEMMA MessageReadsOwnerSafe ==
    ASSUME SerialInv, MessageReadsOwner
    PROVE  SerialInv'
<1>. DEFINE o == AfterWorker(rec, worker)
<1>1. WritesFit /\ IsRecord(rec) /\ control.at = "owner"
  BY NowFits DEF SerialInv, MessageReadsOwner
<1>2. ASSUME Quiet
      PROVE  /\ IsRecord(o) /\ o.owner_epoch = control.claim.owner_epoch
             /\ o.generation = control.claim.generation /\ o.owner_box = rec.owner_box
  BY <1>1, <1>2, WorkerKeepsReadings, WorkerIsApart DEF SerialInv, Quiet, ControlReadingsHold
<1>3. /\ Races /\ rec' = rec /\ worker' = worker /\ ControlFits(control')
      /\ \/ control'.at = "idle" /\ ControlEnds
         \/ /\ control'.at = "adopt" /\ serial' = serial
            /\ control'.claim = control.claim
  BY <1>1, OwnerRead
<1>4. ASSUME Quiet PROVE Outcome' = Outcome /\ ControlReadingsHold'
  <2>1. Outcome' = AfterControl(o, control') /\ Outcome = AfterControl(o, control)
    BY <1>3 DEF Outcome
  <2>. HIDE DEF o
  <2>2. AfterControl(o, control') = AfterControl(o, control)
    BY <1>1, <1>2, <1>4, OwnerRead
  <2>3. ControlReadingsHold'
    BY <1>3 DEF ControlReadingsHold
  <2>. QED
    BY <2>1, <2>2, <2>3
<1>5. MayReplaceOwner' => MayReplaceOwner /\ serial' = serial /\ control'.claim = control.claim
  BY <1>1, <1>3 DEF MayReplaceOwner
<1>. QED
  BY <1>1, <1>3, <1>4, <1>5, ControlGoesOn

LEMMA SweepRead ==
    ASSUME WritesFit, SweepReadsOwner
    PROVE  /\ Races /\ rec' = rec /\ worker' = worker /\ announced' = announced
           /\ control.at = "idle" /\ control'.at = "sweep" /\ ControlStarts
           /\ ControlFits(control') /\ AfterControl(rec, control') = Swept(rec)
           /\ OnControl(rec, control') = Swept(rec)
<1>. DEFINE call == [at |-> "sweep", claim |-> Replicated(rec),
                     writes |-> Values(Swept(rec),
                                       {"owner_box", "state", "remote_packet_counter"})]
<1>1. IsRecord(rec) /\ IsClaim(Replicated(rec))
  BY NowFits, RecordFacts DEF IsClaim, Replicated
<1>2. ControlFits(call) /\ AfterControl(rec, call) = Swept(rec)
  BY <1>1, SweepingWrites
<1>3. call.at = "sweep" /\ call.claim = Replicated(rec)
  OBVIOUS
<1>4. /\ control' = call /\ Races /\ rec' = rec /\ worker' = worker /\ announced' = announced
      /\ control.at = "idle" /\ rec.owner_box = Peer /\ ControlStarts
  BY DEF SweepReadsOwner, ControlGoes
<1>. HIDE DEF call
<1>5. OnControl(rec, call) = Swept(rec)
  BY <1>1, <1>3, <1>4, OnControlFacts
<1>. QED
  BY <1>2, <1>3, <1>4, <1>5

LEMMA SweepReadsOwnerSafe ==
    ASSUME SerialInv, SweepReadsOwner
    PROVE  SerialInv'
<1>1. WritesFit /\ IsRecord(rec) /\ WorkerFits(worker)
  BY NowFits DEF SerialInv
<1>2. /\ Races /\ rec' = rec /\ worker' = worker /\ control.at = "idle"
      /\ control'.at = "sweep" /\ ControlStarts /\ ControlFits(control')
      /\ AfterControl(rec, control') = OnControl(rec, control')
  BY <1>1, SweepRead
<1>3. ControlReadingsHold'
  BY <1>2 DEF ControlReadingsHold
<1>4. ASSUME Quiet' PROVE Outcome' = OnControl(AfterWorker(rec, worker), control')
  <2>1. worker.at = "idle"
    BY <1>1, <1>2, <1>4 DEF Quiet, Clash, WorkerFits
  <2>2. AfterWorker(rec, worker) = rec
    BY <1>1, <2>1, AfterWorkerFacts
  <2>. QED
    BY <1>2, <2>2 DEF Outcome
<1>. QED
  BY <1>2, <1>3, <1>4, ControlBegins

LEMMA ControlWritesSafe ==
    ASSUME SerialInv, ControlWrites
    PROVE  SerialInv'
<1>. DEFINE o == AfterWorker(rec, worker)
            w == control.writes
<1>1. /\ WritesFit /\ IsRecord(rec) /\ WorkerFits(worker) /\ ControlFits(control)
      /\ WellTyped(w) /\ IsRecord(o)
  BY NowFits DEF SerialInv, ControlFits
<1>2. PICK f \in DOMAIN w :
          /\ Races /\ worker' = worker
          /\ rec' = [rec EXCEPT ![f] = w[f]]
          /\ control' = ControlNext(control, Remaining(w, f))
          /\ IF DOMAIN Remaining(w, f) = {} THEN ControlEnds ELSE serial' = serial
  BY DEF ControlWrites, ControlNext
<1>3. /\ IsRecord(rec') /\ ControlFits(control')
      /\ control'.at # "idle" =>
             /\ control'.at = control.at /\ control'.claim = control.claim
             /\ DOMAIN control'.writes \subseteq DOMAIN w \ {f}
             /\ serial' = serial
  <2>1. f \in DOMAIN w
    BY <1>2
  <2>2. /\ IsRecord(rec') /\ ControlFits(control')
        /\ control'.at # "idle" =>
               /\ control'.at = control.at /\ control'.claim = control.claim
               /\ DOMAIN control'.writes \subseteq DOMAIN w \ {f}
    BY <1>1, <1>2, <2>1, ControlWrite
  <2>3. serial' = serial \/ control' = IdleControl
    BY <1>2 DEF ControlNext
  <2>. QED
    BY <2>2, <2>3, IdleControlFits
<1>4. control.at \in {"adopt", "sweep"}
  BY <1>1, <1>2 DEF ControlFits
<1>5. ASSUME Quiet PROVE Outcome' = Outcome /\ ControlReadingsHold'
  <2>1. \/ worker.at = "idle"
        \/ worker.at \in {"count", "counted"} /\ f # "remote_packet_counter"
    BY <1>1, <1>2, <1>4, <1>5, WorkerIsApart DEF Quiet, ControlFits
  <2>2. AfterWorker(rec', worker) = [o EXCEPT ![f] = w[f]]
    <3>1. f \in DOMAIN w
      BY <1>2
    <3>2. AfterWorker([rec EXCEPT ![f] = w[f]], worker) = [o EXCEPT ![f] = w[f]]
      BY <1>1, <2>1, <3>1, StoreUnderWorker
    <3>. QED
      BY <1>2, <3>2
  <2>3. Outcome' = AfterControl([o EXCEPT ![f] = w[f]], control')
    BY <1>2, <2>2 DEF Outcome
  <2>4. Outcome = AfterControl(o, control)
    BY DEF Outcome
  <2>. HIDE DEF o
  <2>5. AfterControl([o EXCEPT ![f] = w[f]], control') = AfterControl(o, control)
    BY <1>1, <1>2, ControlWrite
  <2>6. ControlReadingsHold'
    BY <1>3, <1>4 DEF ControlReadingsHold
  <2>. QED
    BY <2>3, <2>4, <2>5, <2>6
<1>6. ASSUME MayReplaceOwner'
      PROVE  /\ MayReplaceOwner /\ serial' = serial /\ rec'.owner_box = rec.owner_box
             /\ control'.claim = control.claim
  <2>1. /\ control'.at # "idle" /\ control.at = "adopt"
        /\ "owner_box" \in DOMAIN w /\ f # "owner_box"
    BY <1>3, <1>4, <1>6 DEF MayReplaceOwner
  <2>2. \A g \in Fields \ {f} : rec'[g] = rec[g]
    BY <1>1, <1>2, StoreFacts
  <2>. QED
    BY <1>2, <1>3, <2>1, <2>2, FieldFacts DEF MayReplaceOwner
<1>. QED
  BY <1>2, <1>3, <1>5, <1>6, ControlGoesOn

LEMMA FreshTyped == IsRecord(FreshRecord) /\ IsClaim(Replicated(FreshRecord))
<1>. DEFINE r == FreshRecord
<1>1. /\ DOMAIN r = Fields /\ r = [f \in Fields |-> r[f]]
      /\ r.owner_epoch = 1 /\ r.generation = 0 /\ r.owner_box = Unowned
      /\ r.activation_ts = 0 /\ r.state = "UNOWNED" /\ r.remote_packet_counter = 0
  BY FieldFacts DEF FreshRecord
<1>2. 0 \in Generations /\ "UNOWNED" \in OwnershipState /\ Unowned \in Owners
  BY ConstantFacts DEF Generations, OwnershipState
<1>. HIDE DEF r
<1>3. IsRecord(r)
  BY <1>1, <1>2, RecordTyped, ConstantFacts
<1>4. IsClaim(Replicated(r))
  BY <1>1, <1>2 DEF IsClaim, Replicated
<1>. QED
  BY <1>3, <1>4 DEF r

LEMMA SerialInitially == Init => SerialInv
<1>. SUFFICES ASSUME Init PROVE SerialInv
  OBVIOUS
<1>1. /\ IsRecord(rec) /\ worker = IdleWorker /\ control = IdleControl /\ ~raced
      /\ raced \in BOOLEAN /\ Done(rec) \in serial
  BY FreshTyped DEF Init, Done, Case
<1>2. WorkerFits(worker) /\ worker.at = "idle"
  BY <1>1, NothingFacts DEF IdleWorker, WorkerFits
<1>3. ControlFits(control) /\ control.at = "idle"
  BY <1>1, IdleControlFits
<1>4. WritesFit
  BY <1>1, <1>2, <1>3 DEF WritesFit, AccessTypeOK, IsRecord, WorkerFits, ControlFits
<1>5. Outcome = rec
  BY <1>1, <1>2, <1>3, AfterWorkerFacts, AfterControlFacts DEF Outcome
<1>. QED
  BY <1>1, <1>3, <1>4, <1>5
  DEF SerialInv, ControlReadingsHold, OutcomeIsSerial, PacketMayComeFirst, MayReplaceOwner

LEMMA SerialNext == SerialInv /\ [Next]_vars => SerialInv'
BY SerialStutter, PacketReadsOwnerSafe, PacketCountsSafe, PacketClaimsSafe, WorkerWritesSafe,
   MessageReadsEpochSafe, MessageReadsGenerationSafe, MessageReadsOwnerSafe,
   SweepReadsOwnerSafe, ControlWritesSafe DEF Next

(***************************************************************************)
(* While nothing clashes, one after the other is an order that leads to    *)
(* what the record will be when both calls have ended.                     *)
(***************************************************************************)
THEOREM SerialInvariant == Spec => []SerialInv
BY SerialInitially, SerialNext, PTL DEF Spec

(* The record and the writes on their way keep their types.                *)
THEOREM AccessTypeCorrect == Spec => []AccessTypeOK
<1>1. SerialInv => AccessTypeOK
  BY DEF SerialInv, WritesFit
<1>. QED
  BY <1>1, SerialInvariant, PTL

(***************************************************************************)
(* A record used by two threads without a lock is, between calls, one that *)
(* the same calls one after the other could have left, unless a claim      *)
(* overlapped a call of the control thread, or a count a sweep             *)
(* (subown.c:51-216, ownership_adapter.c:147-311).                         *)
(***************************************************************************)
THEOREM OverlapsAreSerial == Spec => []SerialUnlessRaced
<1>1. SerialInv => SerialUnlessRaced
  <2>. SUFFICES ASSUME SerialInv, ~raced, worker.at = "idle", control.at = "idle"
                PROVE  rec \in {s.record : s \in serial}
    BY DEF SerialUnlessRaced
  <2>1. Quiet
    BY DEF Quiet, Clash
  <2>2. Outcome = rec
    BY NowFits, AfterWorkerFacts, AfterControlFacts DEF SerialInv, Outcome
  <2>3. Done(rec) \in serial
    BY <2>1, <2>2 DEF SerialInv, OutcomeIsSerial
  <2>4. Done(rec).record = rec
    BY DEF Done, Case
  <2>. QED
    BY <2>3, <2>4
<1>. QED
  BY <1>1, SerialInvariant, PTL
-----------------------------------------------------------------------------
(***************************************************************************)
(* What has been announced.  Epoch and generation never fall.              *)
(***************************************************************************)
LEMMA RankNeverFalls ==
    ASSUME NEW r, NEW call, NEW a, IsRecord(r), IsClaim(call.claim), IsClaim(a), ~Ahead(a, r)
    PROVE  ~Ahead(a, OnControl(r, call))
<1>. DEFINE o == OnControl(r, call)
<1>1. /\ r.owner_epoch \in Nat /\ r.generation \in Nat
      /\ a.owner_epoch \in Nat /\ a.generation \in Nat
      /\ call.claim.owner_epoch \in Nat /\ call.claim.generation \in Nat
  BY RecordFacts, ConstantFacts DEF IsClaim
<1>2. \/ o = r
      \/ o = Swept(r)
      \/ o = Adopt(r, call.claim) /\ Beats(call.claim, r)
  BY DEF OnControl
<1>3. CASE o = r \/ o = Swept(r)
  <2>1. o.owner_epoch = r.owner_epoch /\ o.generation = r.generation
    BY <1>3, SweptFacts
  <2>. QED
    BY <2>1 DEF Ahead
<1>4. CASE o = Adopt(r, call.claim) /\ Beats(call.claim, r)
  <2>1. o.owner_epoch = call.claim.owner_epoch /\ o.generation = call.claim.generation
    BY <1>4, AdoptFacts
  <2>. HIDE DEF o
  <2>2. ~Ahead(a, o)
    BY <1>1, <1>4, <2>1 DEF Ahead, Beats
  <2>. QED
    BY <2>2 DEF o
<1>. QED
  BY <1>2, <1>3, <1>4

(* A counter does not bear on what a call makes of epoch and generation.   *)
LEMMA RankNeedsNoCounter ==
    ASSUME NEW r, NEW s, NEW call, IsRecord(r), IsRecord(s), ControlFits(call),
           r.owner_epoch = s.owner_epoch, r.generation = s.generation, r.owner_box = s.owner_box
    PROVE  /\ AfterControl(r, call).owner_epoch = AfterControl(s, call).owner_epoch
           /\ AfterControl(r, call).generation = AfterControl(s, call).generation
<1>. DEFINE c == call.claim
<1>1. IsClaim(c) /\ WellTyped(call.writes)
  BY DEF ControlFits
<1>2. Beats(c, r) <=> Beats(c, s)
  BY DEF Beats
<1>3. /\ Adopt(r, c).owner_epoch = Adopt(s, c).owner_epoch
      /\ Adopt(r, c).generation = Adopt(s, c).generation
      /\ Swept(r).owner_epoch = r.owner_epoch /\ Swept(s).owner_epoch = s.owner_epoch
      /\ Swept(r).generation = r.generation /\ Swept(s).generation = s.generation
  BY <1>1, AdoptFacts, SweptFacts
<1>4. /\ OnControl(r, call).owner_epoch = OnControl(s, call).owner_epoch
      /\ OnControl(r, call).generation = OnControl(s, call).generation
  <2>1. CASE call.at = "sweep"
    BY <1>3, <2>1 DEF OnControl
  <2>2. CASE call.at # "sweep"
    BY <1>1, <1>2, <1>3, <2>2, OnControlFacts
  <2>. QED
    BY <2>1, <2>2
<1>5. /\ Over(r, call.writes).owner_epoch = Over(s, call.writes).owner_epoch
      /\ Over(r, call.writes).generation = Over(s, call.writes).generation
  BY <1>1, OverFacts, FieldFacts
<1>. QED
  BY <1>4, <1>5 DEF AfterControl

(***************************************************************************)
(* A step that leaves the announced claim alone.                           *)
(***************************************************************************)
LEMMA NothingAnnounced ==
    ASSUME AnnounceInv, Races, announced' = announced,
           Quiet /\ Quiet' => ClaimReadingsHold',
           Quiet /\ Quiet' =>
               (~Ahead(announced, AfterControl(rec, control))
                    => ~Ahead(announced, AfterControl(rec', control')))
    PROVE  AnnounceInv'
<1>1. ~raced' => AnnouncedIsOwn'
  BY DEF AnnounceInv, AnnouncedIsOwn, Races
<1>2. ASSUME Quiet' PROVE ClaimReadingsHold' /\ AnnouncedIsCovered'
  <2>1. Quiet
    BY <1>2, QuietBefore
  <2>. QED
    BY <1>2, <2>1 DEF AnnounceInv, AnnouncedIsCovered
<1>. QED
  BY <1>1, <1>2 DEF AnnounceInv

LEMMA PacketReadsOwnerAnnounces ==
    ASSUME SerialInv, AnnounceInv, PacketReadsOwner
    PROVE  AnnounceInv'
<1>1. /\ Races /\ rec' = rec /\ control' = control /\ announced' = announced
      /\ worker'.at \in {"count", "claim"}
      /\ worker'.at = "claim" => rec.generation < MaxGeneration
  BY DEF PacketReadsOwner, WorkerGoes
<1>2. ClaimReadingsHold'
  BY <1>1 DEF ClaimReadingsHold
<1>. QED
  BY <1>1, <1>2, NothingAnnounced

LEMMA PacketCountsAnnounces ==
    ASSUME SerialInv, AnnounceInv, PacketCounts
    PROVE  AnnounceInv'
<1>1. /\ Races /\ rec' = rec /\ control' = control /\ announced' = announced
      /\ worker'.at = "counted"
  BY DEF PacketCounts, WorkerGoes
<1>2. ClaimReadingsHold'
  BY <1>1 DEF ClaimReadingsHold
<1>. QED
  BY <1>1, <1>2, NothingAnnounced

LEMMA PacketClaimsAnnounces ==
    ASSUME NoWrap, SerialInv, AnnounceInv, PacketClaims
    PROVE  AnnounceInv'
<1>1. /\ IsRecord(rec) /\ WorkerFits(worker) /\ ControlFits(control)
  BY NowFits DEF SerialInv
<1>2. /\ Races /\ rec' = rec /\ control' = control /\ announced' = announced
      /\ worker.at = "claim" /\ worker'.at = "claimed"
      /\ worker' = [at |-> "claimed",
                    writes |-> Values(Claimed(rec, LocalBox, 1), Fields \ {"owner_epoch"})]
  BY DEF PacketClaims, WorkerGoes
<1>3. ASSUME Quiet PROVE ClaimReadingsHold'
  <2>. DEFINE d == Claimed(rec, LocalBox, 1)
  <2>1. control.at = "idle" /\ rec.generation < MaxGeneration
    BY <1>2, <1>3 DEF Quiet, Clash, AnnounceInv, ClaimReadingsHold
  <2>2. AfterWorker(rec, worker') = d
    BY <1>1, <1>2, ClaimingWrites
  <2>3. /\ IsRecord(d) /\ d.owner_box = LocalBox /\ d.activation_ts = 1
        /\ d.generation = (rec.generation + 1) % GenerationMod
    BY <1>1, ClaimedFacts
  <2>4. Outcome' = AfterControl(AfterWorker(rec, worker'), control)
    BY <1>2 DEF Outcome
  <2>. HIDE DEF d
  <2>5. Outcome' = d
    BY <1>1, <2>1, <2>2, <2>3, <2>4, AfterControlFacts
  <2>6. rec.generation \in Nat /\ GenerationMod \in Nat \ {0} /\ MaxGeneration \in Nat
    BY <1>1, RecordFacts, ConstantFacts
  <2>7. (rec.generation + 1) % GenerationMod = rec.generation + 1
    BY <2>1, <2>6 DEF NoWrap
  <2>8. d.generation >= rec.generation
    BY <2>3, <2>6, <2>7
  <2>. QED
    BY <1>2, <2>3, <2>5, <2>8 DEF ClaimReadingsHold
<1>. QED
  BY <1>2, <1>3, NothingAnnounced

LEMMA ReplicatedFacts ==
    ASSUME NEW r, IsRecord(r)
    PROVE  LET a == Replicated(r)
           IN  /\ a = Replicated(a) /\ IsClaim(a)
               /\ a.owner_box = r.owner_box /\ a.activation_ts = r.activation_ts
               /\ a.owner_epoch = r.owner_epoch /\ a.generation = r.generation
BY RecordFacts DEF Replicated, IsClaim

LEMMA WorkerWritesAnnounces ==
    ASSUME SerialInv, AnnounceInv, WorkerWrites
    PROVE  AnnounceInv'
<1>1. /\ WritesFit /\ IsRecord(rec) /\ WorkerFits(worker) /\ ControlFits(control)
      /\ WellTyped(worker.writes) /\ IsClaim(announced)
  BY NowFits DEF SerialInv, WorkerFits, AnnounceInv
<1>2. PICK f \in DOMAIN worker.writes :
          /\ Races /\ control' = control
          /\ rec' = [rec EXCEPT ![f] = worker.writes[f]]
          /\ worker' = WorkerNext(worker, Remaining(worker.writes, f))
          /\ \/ announced' = announced
             \/ /\ worker' = IdleWorker /\ worker.at = "claimed"
                /\ announced' = Replicated(rec')
  BY DEF WorkerWrites, WorkerNext, Announces
<1>3. /\ IsRecord(rec') /\ WorkerFits(worker') /\ worker'.at \in {"idle", worker.at}
      /\ AfterWorker(rec', worker') = AfterWorker(rec, worker)
  BY <1>1, <1>2, WorkerWrite
<1>4. worker.at \in {"counted", "claimed"}
  BY <1>1, <1>2 DEF WorkerFits
<1>5. \A g \in Fields \ {f} : rec'[g] = rec[g]
  BY <1>1, <1>2, StoreFacts
<1>6. CASE worker.at = "counted"
  <2>1. announced' = announced /\ f = "remote_packet_counter"
    BY <1>1, <1>2, <1>6 DEF WorkerFits
  <2>2. /\ rec'.owner_epoch = rec.owner_epoch /\ rec'.generation = rec.generation
        /\ rec'.owner_box = rec.owner_box
    BY <1>5, <2>1, FieldFacts
  <2>3. /\ AfterControl(rec', control).owner_epoch = AfterControl(rec, control).owner_epoch
        /\ AfterControl(rec', control).generation = AfterControl(rec, control).generation
    BY <1>1, <1>3, <2>2, RankNeedsNoCounter
  <2>4. ClaimReadingsHold'
    BY <1>3, <1>6 DEF ClaimReadingsHold
  <2>5. ~Ahead(announced, AfterControl(rec, control))
           => ~Ahead(announced, AfterControl(rec', control'))
    BY <1>2, <2>3 DEF Ahead
  <2>. QED
    BY <1>2, <2>1, <2>4, <2>5, NothingAnnounced
<1>7. CASE worker.at = "claimed"
  <2>. DEFINE o == Outcome
  <2>1. Outcome' = Outcome
    BY <1>2, <1>3 DEF Outcome
  <2>2. ASSUME Quiet
        PROVE  /\ control.at = "idle" /\ Outcome = AfterWorker(rec, worker)
               /\ AfterControl(rec, control) = rec /\ AfterControl(rec', control') = rec'
               /\ Outcome.owner_box = LocalBox /\ Outcome.activation_ts = 1
               /\ rec'.owner_epoch = rec.owner_epoch
               /\ rec'.generation >= rec.generation /\ Outcome.generation >= rec'.generation
    <3>1. control.at = "idle"
      BY <1>7, <2>2 DEF Quiet, Clash
    <3>2. Outcome = AfterWorker(rec, worker)
      BY <1>1, <3>1, NowFits, AfterControlFacts DEF Outcome
    <3>3. AfterControl(rec, control) = rec /\ AfterControl(rec', control') = rec'
      BY <1>1, <1>2, <1>3, <3>1, AfterControlFacts
    <3>4. /\ Outcome.owner_box = LocalBox /\ Outcome.activation_ts = 1
          /\ Outcome.generation >= rec.generation
      BY <1>7, <2>2 DEF AnnounceInv, ClaimReadingsHold
    <3>5. f # "owner_epoch" /\ f \in Fields
      BY <1>1, <1>2, <1>7 DEF WorkerFits
    <3>6. rec'.owner_epoch = rec.owner_epoch
      BY <1>5, <3>5, FieldFacts
    <3>7. rec.generation \in Nat /\ rec'.generation \in Nat
      BY <1>1, <1>3, RecordFacts
    <3>8. rec'.generation \in {rec.generation, Outcome.generation}
      <4>1. CASE f = "generation"
        <5>1. AfterWorker(rec, worker) = Over(rec, worker.writes)
          BY <1>1, <1>7, AfterWorkerFacts
        <5>2. Over(rec, worker.writes)["generation"] = worker.writes["generation"]
          BY <1>1, <1>2, <4>1, <3>5, OverFacts
        <5>3. rec'["generation"] = worker.writes["generation"]
          BY <1>1, <1>2, <4>1, StoreFacts
        <5>. QED
          BY <3>2, <5>1, <5>2, <5>3
      <4>2. CASE f # "generation"
        BY <1>5, <4>2, FieldFacts
      <4>. QED
        BY <4>1, <4>2
    <3>9. rec'.generation >= rec.generation /\ Outcome.generation >= rec'.generation
      BY <3>4, <3>7, <3>8
    <3>. QED
      BY <3>1, <3>2, <3>3, <3>4, <3>6, <3>9
  <2>3. ASSUME Quiet PROVE ClaimReadingsHold'
    BY <1>3, <1>7, <2>1, <2>2, <2>3 DEF ClaimReadingsHold
  <2>4. CASE announced' = announced
    <3>1. ASSUME Quiet, ~Ahead(announced, AfterControl(rec, control))
          PROVE  ~Ahead(announced, AfterControl(rec', control'))
      <4>1. /\ rec.generation \in Nat /\ rec'.generation \in Nat
            /\ announced.generation \in Nat
        BY <1>1, <1>3, RecordFacts, ConstantFacts DEF IsClaim
      <4>. QED
        BY <2>2, <3>1, <4>1 DEF Ahead
    <3>. QED
      BY <1>2, <2>3, <2>4, <3>1, NothingAnnounced
  <2>5. CASE worker' = IdleWorker /\ announced' = Replicated(rec')
    <3>1. /\ announced' = Replicated(announced') /\ IsClaim(announced')
          /\ announced'.owner_box = rec'.owner_box
          /\ announced'.activation_ts = rec'.activation_ts
          /\ announced'.owner_epoch = rec'.owner_epoch
          /\ announced'.generation = rec'.generation
      BY <1>3, <2>5, ReplicatedFacts
    <3>2. ASSUME Quiet PROVE rec' = Outcome
      <4>1. worker'.at = "idle"
        BY <2>5 DEF IdleWorker
      <4>2. AfterWorker(rec', worker') = rec'
        BY <1>3, <4>1, AfterWorkerFacts
      <4>. QED
        BY <1>3, <2>2, <3>2, <4>2
    <3>3. ~raced' => AnnouncedIsOwn'
      <4>1. ~raced' => Quiet
        BY <1>2 DEF Races, Quiet
      <4>. QED
        BY <2>2, <3>1, <3>2, <4>1 DEF AnnouncedIsOwn
    <3>4. ASSUME Quiet' PROVE ClaimReadingsHold' /\ AnnouncedIsCovered'
      <4>1. Quiet
        BY <1>2, <3>4, QuietBefore
      <4>2. AfterControl(rec', control') = rec' /\ rec'.generation \in Nat /\ rec'.owner_epoch \in Nat
        BY <1>3, <2>2, <4>1, RecordFacts
      <4>3. ~Ahead(announced', AfterControl(rec', control'))
        BY <3>1, <4>2 DEF Ahead
      <4>. QED
        BY <2>3, <4>1, <4>3 DEF AnnouncedIsCovered
    <3>. QED
      BY <3>1, <3>3, <3>4 DEF AnnounceInv
  <2>. QED
    BY <1>2, <2>4, <2>5
<1>. QED
  BY <1>4, <1>6, <1>7

(* A step of the control thread, whose call no claim overlaps.             *)
LEMMA ControlAnnounces ==
    ASSUME AnnounceInv, Races, worker' = worker, announced' = announced,
           control.at # "idle" \/ control'.at # "idle",
           Quiet =>
               (~Ahead(announced, AfterControl(rec, control))
                    => ~Ahead(announced, AfterControl(rec', control')))
    PROVE  AnnounceInv'
<1>1. ASSUME Quiet, Quiet' PROVE ClaimReadingsHold'
  BY <1>1 DEF Quiet, Clash, ClaimReadingsHold
<1>. QED
  BY <1>1, NothingAnnounced

LEMMA MessageReadsEpochAnnounces ==
    ASSUME SerialInv, AnnounceInv, NEW c \in PeerClaims, MessageReadsEpoch(c), ~UNCHANGED vars
    PROVE  AnnounceInv'
<1>1. WritesFit /\ IsRecord(rec) /\ ControlFits(control) /\ IsClaim(announced)
  BY NowFits DEF SerialInv, AnnounceInv
<1>2. /\ Races /\ rec' = rec /\ worker' = worker /\ announced' = announced
      /\ control.at = "idle" /\ control'.at \in {"adopt", "generation"}
      /\ control'.claim = c /\ IsClaim(c)
      /\ AfterControl(rec, control') = OnControl(rec, control')
  BY <1>1, EpochRead
<1>3. AfterControl(rec, control) = rec
  BY <1>1, <1>2, AfterControlFacts
<1>4. ~Ahead(announced, rec) => ~Ahead(announced, OnControl(rec, control'))
  BY <1>1, <1>2, RankNeverFalls
<1>. QED
  BY <1>2, <1>3, <1>4, ControlAnnounces

LEMMA MessageReadsGenerationAnnounces ==
    ASSUME SerialInv, AnnounceInv, MessageReadsGeneration
    PROVE  AnnounceInv'
<1>1. WritesFit /\ IsRecord(rec)
  BY NowFits DEF SerialInv
<1>2. /\ Races /\ rec' = rec /\ worker' = worker /\ announced' = announced
      /\ control.at = "generation"
      /\ rec.owner_epoch = control.claim.owner_epoch =>
             AfterControl(rec, control') = AfterControl(rec, control)
  BY <1>1, GenerationRead
<1>3. Quiet => rec.owner_epoch = control.claim.owner_epoch
  BY <1>2 DEF SerialInv, ControlReadingsHold
<1>. QED
  BY <1>2, <1>3, ControlAnnounces

LEMMA MessageReadsOwnerAnnounces ==
    ASSUME SerialInv, AnnounceInv, MessageReadsOwner
    PROVE  AnnounceInv'
<1>1. WritesFit /\ IsRecord(rec)
  BY NowFits DEF SerialInv
<1>2. /\ Races /\ rec' = rec /\ worker' = worker /\ announced' = announced
      /\ control.at = "owner"
      /\ rec.owner_epoch = control.claim.owner_epoch
             /\ rec.generation = control.claim.generation =>
             AfterControl(rec, control') = AfterControl(rec, control)
  BY <1>1, OwnerRead
<1>3. Quiet => /\ rec.owner_epoch = control.claim.owner_epoch
               /\ rec.generation = control.claim.generation
  BY <1>2 DEF SerialInv, ControlReadingsHold
<1>. QED
  BY <1>2, <1>3, ControlAnnounces

LEMMA SweepReadsOwnerAnnounces ==
    ASSUME SerialInv, AnnounceInv, SweepReadsOwner
    PROVE  AnnounceInv'
<1>1. WritesFit /\ IsRecord(rec) /\ ControlFits(control) /\ IsClaim(announced)
  BY NowFits DEF SerialInv, AnnounceInv
<1>2. /\ Races /\ rec' = rec /\ worker' = worker /\ announced' = announced
      /\ control.at = "idle" /\ control'.at = "sweep" /\ ControlFits(control')
      /\ AfterControl(rec, control') = OnControl(rec, control')
  BY <1>1, SweepRead
<1>3. AfterControl(rec, control) = rec /\ IsClaim(control'.claim)
  BY <1>1, <1>2, AfterControlFacts DEF ControlFits
<1>4. ~Ahead(announced, rec) => ~Ahead(announced, OnControl(rec, control'))
  BY <1>1, <1>3, RankNeverFalls
<1>. QED
  BY <1>2, <1>3, <1>4, ControlAnnounces

LEMMA ControlWritesAnnounces ==
    ASSUME SerialInv, AnnounceInv, ControlWrites
    PROVE  AnnounceInv'
<1>. DEFINE w == control.writes
<1>1. IsRecord(rec) /\ ControlFits(control)
  BY NowFits DEF SerialInv
<1>2. PICK f \in DOMAIN w :
          /\ Races /\ worker' = worker /\ announced' = announced
          /\ rec' = [rec EXCEPT ![f] = w[f]]
          /\ control' = ControlNext(control, Remaining(w, f))
  BY DEF ControlWrites, ControlNext
<1>3. f \in DOMAIN w
  BY <1>2
<1>4. AfterControl(rec', control') = AfterControl(rec, control)
  BY <1>1, <1>2, <1>3, ControlWrite
<1>5. control.at # "idle"
  BY <1>1, <1>3 DEF ControlFits
<1>. QED
  BY <1>2, <1>4, <1>5, ControlAnnounces

LEMMA AnnounceStutter ==
    ASSUME AnnounceInv, UNCHANGED vars
    PROVE  AnnounceInv'
BY DEF AnnounceInv, vars, Quiet, Clash, ClaimReadingsHold, AnnouncedIsOwn,
       AnnouncedIsCovered, Outcome

LEMMA AnnounceInitially == Init => AnnounceInv
<1>. SUFFICES ASSUME Init PROVE AnnounceInv
  OBVIOUS
<1>1. announced = Replicated(FreshRecord) /\ worker.at = "idle"
  BY DEF Init, IdleWorker
<1>2. announced = Replicated(announced) /\ IsClaim(announced)
  BY <1>1, FreshTyped, ReplicatedFacts
<1>. QED
  BY <1>1, <1>2 DEF AnnounceInv, AnnouncedIsOwn, ClaimReadingsHold, AnnouncedIsCovered

LEMMA AnnounceNext == NoWrap /\ SerialInv /\ AnnounceInv /\ [Next]_vars => AnnounceInv'
<1>. SUFFICES ASSUME NoWrap, SerialInv, AnnounceInv, [Next]_vars PROVE AnnounceInv'
  OBVIOUS
<1>1. CASE UNCHANGED vars
  BY <1>1, AnnounceStutter
<1>2. CASE ~UNCHANGED vars
  BY <1>2, PacketReadsOwnerAnnounces, PacketCountsAnnounces, PacketClaimsAnnounces,
     WorkerWritesAnnounces, MessageReadsEpochAnnounces, MessageReadsGenerationAnnounces,
     MessageReadsOwnerAnnounces, SweepReadsOwnerAnnounces, ControlWritesAnnounces DEF Next
<1>. QED
  BY <1>1, <1>2

(***************************************************************************)
(* As long as generations do not wrap, no step of a call takes the record  *)
(* back behind what has been announced, and what has been announced is a   *)
(* claim of this box.                                                      *)
(***************************************************************************)
THEOREM AccessInvariantHolds == NoWrap => (Spec => []AccessInv)
<1>. SUFFICES ASSUME NoWrap PROVE Spec => []AccessInv
  OBVIOUS
<1>1. Init => AccessInv
  BY SerialInitially, AnnounceInitially DEF AccessInv
<1>2. AccessInv /\ [Next]_vars => AccessInv'
  BY SerialNext, AnnounceNext DEF AccessInv
<1>. QED
  BY <1>1, <1>2, PTL DEF Spec

(***************************************************************************)
(* What a claim hands to the emitter names this box, and the record never  *)
(* falls behind it, unless calls overlapped that do not commute            *)
(* (ownership_adapter.c:147-231, subown.c:51-100).                         *)
(***************************************************************************)
THEOREM AnnouncesItsClaim == NoWrap => (Spec => []AnnouncesOwnClaim)
<1>1. AccessInv => AnnouncesOwnClaim
  <2>. SUFFICES ASSUME AccessInv, ~raced, announced # Replicated(FreshRecord)
                PROVE  /\ announced.owner_box = LocalBox /\ announced.activation_ts = 1
                       /\ control.at = "idle" =>
                              ~Beats([announced EXCEPT !.owner_box = rec.owner_box], rec)
    BY DEF AnnouncesOwnClaim
  <2>1. announced.owner_box = LocalBox /\ announced.activation_ts = 1
    BY DEF AccessInv, AnnounceInv, AnnouncedIsOwn
  <2>2. ASSUME control.at = "idle"
        PROVE  ~Beats([announced EXCEPT !.owner_box = rec.owner_box], rec)
    <3>. DEFINE a == [announced EXCEPT !.owner_box = rec.owner_box]
    <3>1. /\ IsRecord(rec) /\ ControlFits(control) /\ IsClaim(announced)
          /\ announced = Replicated(announced)
      BY NowFits DEF AccessInv, SerialInv, AnnounceInv
    <3>2. Quiet
      BY <2>2 DEF Quiet, Clash, AccessInv, SerialInv, WritesFit, WorkerFits
    <3>3. ~Ahead(announced, rec)
      BY <2>2, <3>1, <3>2, AfterControlFacts DEF AccessInv, AnnounceInv, AnnouncedIsCovered
    <3>4. /\ a.owner_epoch = announced.owner_epoch /\ a.generation = announced.generation
          /\ a.owner_box = rec.owner_box
      BY <3>1 DEF Replicated
    <3>5. rec.owner_box \in Nat
      BY <3>1, RecordFacts
    <3>. HIDE DEF a
    <3>6. ~Beats(a, rec)
      BY <3>3, <3>4, <3>5 DEF Beats, Ahead
    <3>. QED
      BY <3>6 DEF a
  <2>. QED
    BY <2>1, <2>2
<1>. QED
  BY <1>1, AccessInvariantHolds, PTL
=============================================================================
