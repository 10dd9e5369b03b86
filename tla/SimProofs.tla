------------------------------ MODULE SimProofs ------------------------------
(***************************************************************************)
(* Two simulators, for every number of iterations, every claim schedule,   *)
(* any number of repetitions and any period of drops: repetition makes up  *)
(* for drops, box 1's repetitions alone split the boxes, and claims made   *)
(* one after the other all count.                                          *)
(***************************************************************************)
EXTENDS SimInvariant, NumberFacts, SequenceTheorems

\* Two boxes, one claim each per iteration, never reach the last generation.
NoWrap == 2 * Iterations < GenerationMod

-----------------------------------------------------------------------------
LEMMA BoxFacts ==
    /\ Boxes = {0, 1} /\ Boxes \subseteq Owners /\ Unowned \notin Boxes /\ Unowned = 255
    /\ Other(0) = 1 /\ Other(1) = 0
    /\ \A b \in Boxes : /\ Other(b) \in Boxes /\ Other(b) # b /\ Other(Other(b)) = b
                        /\ \A a \in Boxes : a = b \/ a = Other(b)
    /\ Generations \subseteq Nat /\ GenerationMod \in Nat \ {0}
BY GenerationModAssumption DEF Boxes, Owners, Unowned, Other, Generations

(***************************************************************************)
(* Ranks.                                                                  *)
(***************************************************************************)
HasRank(c) == c.owner_epoch \in Nat /\ c.generation \in Nat /\ c.owner_box \in Nat

SameRank(c, d) == /\ c.owner_epoch = d.owner_epoch /\ c.generation = d.generation
                  /\ c.owner_box = d.owner_box

LEMMA RecordRank ==
    /\ \A r \in Records : HasRank(r)
    /\ \A f \in Frames : HasRank(f)
<1>1. Boxes \subseteq Nat /\ Generations \subseteq Nat
  BY BoxFacts
<1>2. ASSUME NEW r \in Records PROVE HasRank(r)
  BY <1>1 DEF Records, HasRank
<1>3. ASSUME NEW f \in Frames PROVE HasRank(f)
  BY <1>1 DEF Frames, HasRank
<1>. QED
  BY <1>2, <1>3

LEMMA BeatsIsOrder ==
    ASSUME NEW c, NEW d, NEW e, HasRank(c), HasRank(d), HasRank(e)
    PROVE  /\ ~Beats(c, d) /\ ~Beats(d, e) => ~Beats(c, e)
           /\ Beats(c, d) => ~Beats(d, c)
BY DEF Beats, HasRank

LEMMA AheadIsOrder ==
    ASSUME NEW c, NEW d, NEW e, HasRank(c), HasRank(d), HasRank(e)
    PROVE  /\ ~Ahead(c, d) /\ ~Ahead(d, e) => ~Ahead(c, e)
           /\ ~Beats(c, d) => ~Ahead(c, d)
BY DEF Ahead, Beats, HasRank

LEMMA SameRankFacts ==
    ASSUME NEW c, NEW d, SameRank(c, d), HasRank(c)
    PROVE  /\ ~Beats(c, d) /\ ~Beats(d, c) /\ ~Ahead(c, d) /\ ~Ahead(d, c)
           /\ \A e : (Beats(c, e) <=> Beats(d, e)) /\ (Beats(e, c) <=> Beats(e, d))
           /\ \A e : (Ahead(c, e) <=> Ahead(d, e)) /\ (Ahead(e, c) <=> Ahead(e, d))
BY DEF SameRank, HasRank, Beats, Ahead

(***************************************************************************)
(* What a claim and a frame make of a record.                              *)
(***************************************************************************)
LEMMA ClaimedFacts ==
    ASSUME NEW r \in Records, NEW b \in Boxes, NEW now \in Nat,
           r.generation + 1 < GenerationMod
    PROVE  LET s == Claimed(r, b, now)
           IN  /\ s \in Records /\ s.owner_epoch = r.owner_epoch
               /\ s.generation = r.generation + 1
               /\ s.owner_box = b /\ s.state = "LOCAL"
               /\ ~Beats(r, s)
<1>. DEFINE s == Claimed(r, b, now)
            g == (r.generation + 1) % GenerationMod
<1>1. r.generation \in Nat
  BY BoxFacts DEF Records
<1>2. g = r.generation + 1
  <2>1. (GenerationMod * 0 + (r.generation + 1)) % GenerationMod = r.generation + 1
    BY <1>1, BoxFacts, RemainderUnique
  <2>2. GenerationMod * 0 + (r.generation + 1) = r.generation + 1
    BY <1>1, BoxFacts
  <2>. QED
    BY <2>1, <2>2, Zenon
<1>3. s = [r EXCEPT !.owner_box = b, !.generation = g, !.activation_ts = now,
                    !.remote_packet_counter = 0, !.state = "LOCAL"]
  BY DEF Claimed
<1>4. g \in Generations /\ "LOCAL" \in OwnershipState
  BY <1>1, <1>2, BoxFacts DEF Generations, OwnershipState
<1>. HIDE DEF s, g
<1>5. /\ s \in Records /\ s.owner_epoch = r.owner_epoch /\ s.generation = g
      /\ s.owner_box = b /\ s.state = "LOCAL"
  BY <1>3, <1>4 DEF Records
<1>6. ~Beats(r, s)
  BY <1>1, <1>2, <1>5 DEF Beats, Records
<1>. QED
  BY <1>2, <1>5, <1>6 DEF s

LEMMA AppliedFacts ==
    ASSUME NEW r \in Records, NEW f \in Frames
    PROVE  LET s == ApplyRemoteUpdate(r, Decode(f))
           IN  /\ s \in Records /\ ~Beats(r, s) /\ ~Beats(f, s)
               /\ Beats(f, r) => SameRank(s, f) /\ s.state = "REMOTE"
               /\ ~Beats(f, r) => s = r
<1>. DEFINE u == Decode(f)
            c == Announced(u)
            s == ApplyRemoteUpdate(r, u)
            a == Adopt(r, c)
<1>1. /\ u.msg_version = 1 /\ u.subscriber_id = f.subscriber_id
      /\ u.owner_epoch = f.owner_epoch /\ u.generation = f.generation
      /\ u.owner_box = f.owner_box /\ u.owner_box_id = f.owner_box
      /\ u.activation_ts = f.activation_ts /\ u.timestamp = f.activation_ts
  BY DEF Decode
<1>2. f.owner_box \in Owners /\ f.owner_box # Unowned
  BY BoxFacts DEF Frames
<1>. HIDE DEF u
<1>3. NormalizeOwner(u.owner_box_id, u.owner_box) = f.owner_box
  BY <1>1, <1>2 DEF NormalizeOwner
<1>4. NormalizeTs(u.activation_ts, u.timestamp) = f.activation_ts
  BY <1>1 DEF NormalizeTs
<1>5. c = [owner_epoch |-> f.owner_epoch, generation |-> f.generation,
           owner_box |-> f.owner_box, activation_ts |-> f.activation_ts]
  BY <1>1, <1>3, <1>4 DEF Announced
<1>. HIDE DEF c
<1>6. SameRank(c, f) /\ c.activation_ts = f.activation_ts
  BY <1>5 DEF SameRank
<1>7. "REMOTE" \in OwnershipState
  BY DEF OwnershipState
<1>8. a \in Records /\ SameRank(a, c) /\ a.state = "REMOTE"
  BY <1>2, <1>6, <1>7 DEF Adopt, Records, Frames, SameRank
<1>9. /\ Beats(c, r) <=> Beats(f, r)
      /\ SameRank(a, f) /\ HasRank(a) /\ HasRank(f) /\ HasRank(r) /\ HasRank(c)
  BY <1>6, <1>8, RecordRank DEF SameRank, Beats, HasRank
<1>10. Valid(r, u)
  BY <1>1 DEF Valid, Records, Frames
<1>11. s = IF Beats(f, r) THEN a ELSE r
  BY <1>9, <1>10 DEF ApplyRemoteUpdate, c
<1>. HIDE DEF s, a
<1>12. CASE Beats(f, r)
  <2>1. s = a
    BY <1>11, <1>12
  <2>2. ~Beats(r, a) /\ ~Beats(f, a)
    BY <1>9, <1>12, BeatsIsOrder, SameRankFacts
  <2>. QED
    BY <1>8, <1>9, <1>12, <2>1, <2>2 DEF s, u
<1>13. CASE ~Beats(f, r)
  <2>1. s = r
    BY <1>11, <1>13
  <2>2. ~Beats(r, r)
    BY <1>9, SameRankFacts DEF SameRank
  <2>. QED
    BY <1>13, <2>1, <2>2 DEF s, u
<1>. QED
  BY <1>12, <1>13

(* The frames of a claim: the claim, then its repetitions, naming box 0.   *)
LEMMA EmittedFacts ==
    ASSUME NEW b \in Boxes, NEW r \in Records, r.owner_box = b,
           cfg[b].emit_dup_count \in Nat
    PROVE  LET E == Emitted(b, r)
           IN  /\ E \in Seq(Frames) /\ Len(E) = 1 + cfg[b].emit_dup_count
               /\ \A k \in 1 .. Len(E) :
                      /\ E[k].owner_epoch = r.owner_epoch /\ E[k].generation = r.generation
                      /\ E[k].owner_box \in {0, b}
                      /\ E[k].owner_box = 0 => b = 0 \/ cfg[b].emit_dup_count > 0
<1>. DEFINE n == cfg[b].emit_dup_count
            f == Encode(UpdateOf(r))
            g == Encode(Repeated(UpdateOf(r)))
            D == [d \in 1 .. n |-> g]
            E == <<f>> \o D
<1>1. /\ f \in Frames /\ f.owner_epoch = r.owner_epoch /\ f.generation = r.generation
      /\ f.owner_box = b
  BY BoxFacts DEF Encode, UpdateOf, Frames, Records, NormalizeTs
<1>2. 0 \in Boxes /\ 0 \in Owners
  BY BoxFacts
<1>3. /\ g \in Frames /\ g.owner_epoch = r.owner_epoch /\ g.generation = r.generation
      /\ g.owner_box = 0
  BY <1>2 DEF Encode, UpdateOf, Repeated, Frames, Records, NormalizeTs
<1>. HIDE DEF f, g
<1>4. D \in Seq(Frames) /\ Len(D) = n /\ \A k \in 1 .. n : D[k] = g
  BY <1>3
<1>5. <<f>> \in Seq(Frames) /\ Len(<<f>>) = 1 /\ <<f>>[1] = f
  BY <1>1
<1>. HIDE DEF D, n
<1>6. /\ E \in Seq(Frames) /\ Len(E) = 1 + n
      /\ \A k \in 1 .. 1 + n : E[k] = IF k <= 1 THEN <<f>>[k] ELSE D[k - 1]
  BY <1>4, <1>5, ConcatProperties
<1>. HIDE DEF E
<1>7. ASSUME NEW k \in 1 .. Len(E) PROVE E[k] = f \/ (E[k] = g /\ n > 0)
  <2>1. n \in Nat
    BY DEF n
  <2>2. CASE k = 1
    BY <1>5, <1>6, <2>1, <2>2
  <2>3. CASE k > 1
    <3>1. k \in 1 .. 1 + n /\ k - 1 \in 1 .. n /\ ~(k <= 1)
      BY <1>6, <2>1, <2>3
    <3>. QED
      BY <1>4, <1>6, <2>1, <3>1
  <2>. QED
    BY <1>6, <2>1, <2>2, <2>3
<1>8. E = Emitted(b, r)
  BY DEF E, D, n, f, g, Emitted
<1>. QED
  BY <1>1, <1>3, <1>6, <1>7, <1>8 DEF n

-----------------------------------------------------------------------------
(***************************************************************************)
(* The two steps that change a record, by what they change.                *)
(***************************************************************************)
LEMMA TypeFacts ==
    ASSUME SimTypeOK, GenerationsAreClaimed, NEW b \in Boxes
    PROVE  /\ rec[b] \in Records /\ HasRank(rec[b])
           /\ cfg[b].owner_epoch \in Nat /\ cfg[b].emit_dup_count \in Nat
           /\ cfg[b].drop_incoming_every \in Nat
           /\ iter[b] \in 0 .. Iterations + 1 /\ claims_total[b] \in 0 .. Iterations
           /\ recv_total[b] \in Nat /\ Iterations \in Nat
           /\ link[b] \in Seq(Frames) /\ Len(link[b]) \in Nat
           /\ \A k \in 1 .. Len(link[b]) : link[b][k] \in Frames /\ HasRank(link[b][k])
           /\ Claims \in Nat /\ Claims <= 2 * Iterations
<1>1. cfg[b] \in BoxConfigs[b]
  BY DEF SimTypeOK
<1>2. /\ cfg[b].owner_epoch \in Nat /\ cfg[b].emit_dup_count \in Nat
      /\ cfg[b].drop_incoming_every \in Nat
  BY <1>1, ConfigsAssumption
<1>3. /\ rec[b] \in Records /\ iter[b] \in 0 .. Iterations + 1
      /\ claims_total[b] \in 0 .. Iterations
      /\ recv_total[b] \in Nat /\ link[b] \in Seq(Frames)
  BY DEF SimTypeOK
<1>4. Len(link[b]) \in Nat /\ \A k \in 1 .. Len(link[b]) : link[b][k] \in Frames
  BY <1>3, ElementOfSeq, LenProperties
<1>5. claims_total[0] \in 0 .. Iterations /\ claims_total[1] \in 0 .. Iterations
  BY BoxFacts DEF SimTypeOK
<1>6. Claims \in Nat /\ Claims <= 2 * Iterations
  BY <1>5, IterationsAssumption DEF Claims
<1>. QED
  BY <1>2, <1>3, <1>4, <1>6, RecordRank, IterationsAssumption

Claiming(b) ==
    /\ iter[b] < Iterations /\ ~HoldsLocally(rec[b], b)
    /\ iter' = [iter EXCEPT ![b] = @ + 1]
    /\ rec' \in [Boxes -> Records] /\ rec'[Other(b)] = rec[Other(b)]
    /\ rec'[b].owner_epoch = rec[b].owner_epoch
    /\ rec'[b].generation = rec[b].generation + 1
    /\ rec'[b].owner_box = b /\ rec'[b].state = "LOCAL"
    /\ ~Beats(rec[b], rec'[b])
    /\ link' \in [Boxes -> Seq(Frames)] /\ link'[b] = link[b]
    /\ Len(link'[Other(b)]) = Len(link[Other(b)]) + 1 + cfg[b].emit_dup_count
    /\ \A k \in 1 .. Len(link[Other(b)]) : link'[Other(b)][k] = link[Other(b)][k]
    /\ \A k \in Len(link[Other(b)]) + 1 .. Len(link'[Other(b)]) :
           LET f == link'[Other(b)][k]
           IN  /\ f.owner_epoch = rec'[b].owner_epoch /\ f.generation = rec'[b].generation
               /\ f.owner_box \in {0, b}
               /\ f.owner_box = 0 => b = 0 \/ cfg[b].emit_dup_count > 0
    /\ claims_total' = [claims_total EXCEPT ![b] = @ + 1] /\ Claims' = Claims + 1
    /\ orderly' => orderly /\ Drained
    /\ orderly' \in BOOLEAN
    /\ claimed_once' = [claimed_once EXCEPT ![b] = TRUE]
    /\ claimant' = b
    /\ cfg' = cfg /\ recv_total' = recv_total

LEMMA ClaimStep ==
    ASSUME NoWrap, SimTypeOK, GenerationsAreClaimed, NEW b \in Boxes, IterateClaim(b)
    PROVE  Claiming(b)
<1>. DEFINE a == Other(b)
            s == Claimed(rec[b], b, iter[b] + 1)
            n == cfg[b].emit_dup_count
<1>1. /\ a \in Boxes /\ a # b /\ rec[b] \in Records
      /\ link[a] \in Seq(Frames) /\ Len(link[a]) \in Nat /\ n \in Nat
      /\ iter[b] \in Nat /\ rec[b].generation \in Nat /\ Iterations \in Nat
      /\ Claims \in Nat /\ Claims <= 2 * Iterations
      /\ claims_total[a] \in 0 .. Iterations /\ claims_total[b] \in 0 .. Iterations
  <2>1. a \in Boxes /\ a # b
    BY BoxFacts
  <2>2. /\ rec[b] \in Records /\ n \in Nat /\ iter[b] \in 0 .. Iterations + 1
        /\ HasRank(rec[b]) /\ Iterations \in Nat /\ Claims \in Nat /\ Claims <= 2 * Iterations
        /\ claims_total[b] \in 0 .. Iterations
    BY TypeFacts
  <2>3. /\ link[a] \in Seq(Frames) /\ Len(link[a]) \in Nat
        /\ claims_total[a] \in 0 .. Iterations
    BY <2>1, TypeFacts
  <2>. QED
    BY <2>1, <2>2, <2>3 DEF HasRank
<1>2. /\ iter[b] < Iterations /\ ~HoldsLocally(rec[b], b)
      /\ iter' = [iter EXCEPT ![b] = @ + 1]
      /\ rec' = [rec EXCEPT ![b] = Claimed(@, b, iter'[b])]
      /\ link' = [link EXCEPT ![a] = @ \o Emitted(b, rec'[b])]
      /\ claimed_once' = [claimed_once EXCEPT ![b] = TRUE]
      /\ claims_total' = [claims_total EXCEPT ![b] = @ + 1]
      /\ orderly' = (orderly /\ \A c \in Boxes : link[c] = <<>>)
      /\ claimant' = b /\ cfg' = cfg /\ recv_total' = recv_total
  BY DEF IterateClaim, Due
<1>3. /\ iter \in [Boxes -> 0 .. Iterations + 1] /\ rec \in [Boxes -> Records]
      /\ link \in [Boxes -> Seq(Frames)] /\ claims_total \in [Boxes -> 0 .. Iterations]
      /\ orderly \in BOOLEAN
  BY DEF SimTypeOK
<1>4. iter'[b] = iter[b] + 1
  BY <1>2, <1>3
<1>5. rec' = [rec EXCEPT ![b] = s]
  BY <1>2, <1>4
<1>6. rec[b].generation + 1 < GenerationMod
  <2>1. rec[b].generation <= Claims
    BY DEF GenerationsAreClaimed
  <2>2. Claims < 2 * Iterations
    <3>1. claims_total[b] <= iter[b]
      BY DEF GenerationsAreClaimed
    <3>2. Claims = claims_total[a] + claims_total[b]
      <4>1. (a = 0 /\ b = 1) \/ (a = 1 /\ b = 0)
        BY BoxFacts
      <4>. QED
        BY <1>1, <4>1 DEF Claims
    <3>. QED
      BY <1>1, <1>2, <3>1, <3>2
  <2>. QED
    BY <1>1, <2>1, <2>2, BoxFacts DEF NoWrap
<1>7. /\ s \in Records /\ s.owner_epoch = rec[b].owner_epoch
      /\ s.generation = rec[b].generation + 1
      /\ s.owner_box = b /\ s.state = "LOCAL" /\ ~Beats(rec[b], s)
  BY <1>1, <1>6, ClaimedFacts
<1>. HIDE DEF s
<1>8. rec' \in [Boxes -> Records] /\ rec'[b] = s /\ rec'[a] = rec[a]
  BY <1>1, <1>3, <1>5, <1>7
<1>9. /\ Emitted(b, s) \in Seq(Frames) /\ Len(Emitted(b, s)) = 1 + n
      /\ \A k \in 1 .. 1 + n :
             LET f == Emitted(b, s)[k]
             IN  /\ f.owner_epoch = s.owner_epoch /\ f.generation = s.generation
                 /\ f.owner_box \in {0, b}
                 /\ f.owner_box = 0 => b = 0 \/ n > 0
  BY <1>1, <1>7, EmittedFacts
<1>. DEFINE G == Emitted(b, s)
            q == link[a] \o G
<1>10. link' = [link EXCEPT ![a] = q]
  BY <1>2, <1>8
<1>. HIDE DEF n
<1>20. G \in Seq(Frames) /\ Len(G) = 1 + n /\ n \in Nat
  BY <1>1, <1>9 DEF n
<1>. HIDE DEF G
<1>11. /\ q \in Seq(Frames) /\ Len(q) = Len(link[a]) + 1 + n
       /\ \A k \in 1 .. Len(link[a]) + 1 + n :
              q[k] = IF k <= Len(link[a]) THEN link[a][k] ELSE G[k - Len(link[a])]
  <2>1. /\ q \in Seq(Frames) /\ Len(q) = Len(link[a]) + Len(G)
        /\ \A k \in 1 .. Len(link[a]) + Len(G) :
               q[k] = IF k <= Len(link[a]) THEN link[a][k] ELSE G[k - Len(link[a])]
    BY <1>1, <1>20, ConcatProperties
  <2>2. Len(link[a]) + Len(G) = Len(link[a]) + 1 + n
    <3>. DEFINE L == Len(link[a])
    <3>1. L \in Nat /\ Len(G) = 1 + n /\ n \in Nat
      BY <1>1, <1>20
    <3>. HIDE DEF L
    <3>2. L + Len(G) = L + 1 + n
      BY <3>1
    <3>. QED
      BY <3>2 DEF L
  <2>. QED
    BY <2>1, <2>2
<1>. HIDE DEF q
<1>12. link' \in [Boxes -> Seq(Frames)] /\ link'[a] = q /\ link'[b] = link[b]
  BY <1>1, <1>3, <1>10, <1>11
<1>13. \A k \in 1 .. Len(link[a]) : q[k] = link[a][k]
  BY <1>1, <1>11 DEF n
<1>14. ASSUME NEW k \in Len(link[a]) + 1 .. Len(q)
       PROVE  /\ q[k].owner_epoch = s.owner_epoch /\ q[k].generation = s.generation
              /\ q[k].owner_box \in {0, b}
              /\ q[k].owner_box = 0 => b = 0 \/ n > 0
  <2>1. /\ k \in 1 .. Len(link[a]) + 1 + n /\ ~(k <= Len(link[a]))
        /\ k - Len(link[a]) \in 1 .. 1 + n
    BY <1>1, <1>11 DEF n
  <2>2. q[k] = G[k - Len(link[a])]
    BY <1>11, <2>1
  <2>. QED
    BY <1>9, <2>1, <2>2 DEF G
<1>15. Claims' = Claims + 1
  <2>1. (a = 0 /\ b = 1) \/ (a = 1 /\ b = 0)
    BY BoxFacts
  <2>2. claims_total'[b] = claims_total[b] + 1 /\ claims_total'[a] = claims_total[a]
    BY <1>1, <1>2, <1>3
  <2>3. claims_total[a] \in Nat /\ claims_total[b] \in Nat
    BY <1>1
  <2>4. /\ Claims = claims_total[a] + claims_total[b]
        /\ Claims' = claims_total'[a] + claims_total'[b]
    <3>1. CASE a = 0 /\ b = 1
      BY <3>1 DEF Claims
    <3>2. CASE a = 1 /\ b = 0
      BY <2>2, <2>3, <3>2 DEF Claims
    <3>. QED
      BY <2>1, <3>1, <3>2
  <2>. QED
    BY <2>2, <2>3, <2>4
<1>16. orderly' \in BOOLEAN /\ (orderly' => orderly /\ Drained)
  BY <1>2, <1>3 DEF Drained
<1>17. /\ Len(link'[a]) = Len(link[a]) + 1 + cfg[b].emit_dup_count
       /\ \A k \in 1 .. Len(link[a]) : link'[a][k] = link[a][k]
  BY <1>11, <1>12, <1>13 DEF n
<1>18. \A k \in Len(link[a]) + 1 .. Len(link'[a]) :
           LET f == link'[a][k]
           IN  /\ f.owner_epoch = rec'[b].owner_epoch /\ f.generation = rec'[b].generation
               /\ f.owner_box \in {0, b}
               /\ f.owner_box = 0 => b = 0 \/ cfg[b].emit_dup_count > 0
  BY <1>8, <1>12, <1>14 DEF n
<1>. QED
  BY <1>2, <1>7, <1>8, <1>12, <1>15, <1>16, <1>17, <1>18 DEF Claiming

Receiving(b) ==
    /\ iter[b] \in 1 .. Iterations /\ Len(link[b]) > 0
    /\ rec' \in [Boxes -> Records] /\ rec'[Other(b)] = rec[Other(b)]
    /\ ~Beats(rec[b], rec'[b])
    /\ \/ rec'[b] = rec[b]
       \/ SameRank(rec'[b], link[b][1]) /\ rec'[b].state = "REMOTE"
    /\ Kept(b, 1) => ~Beats(link[b][1], rec'[b])
    /\ link' \in [Boxes -> Seq(Frames)] /\ link'[Other(b)] = link[Other(b)]
    /\ Len(link'[b]) = Len(link[b]) - 1
    /\ \A k \in 1 .. Len(link'[b]) : link'[b][k] = link[b][k + 1]
    /\ recv_total' = [recv_total EXCEPT ![b] = @ + 1]
    /\ cfg' = cfg /\ iter' = iter /\ claimed_once' = claimed_once
    /\ claims_total' = claims_total /\ orderly' = orderly /\ claimant' = claimant

LEMMA RecvStep ==
    ASSUME SimTypeOK, GenerationsAreClaimed, NEW b \in Boxes, Recv(b)
    PROVE  Receiving(b)
<1>. DEFINE a == Other(b)
            f == link[b][1]
            s == ApplyRemoteUpdate(rec[b], Decode(f))
<1>1. /\ a \in Boxes /\ a # b /\ rec[b] \in Records /\ HasRank(rec[b])
      /\ link[b] \in Seq(Frames) /\ Len(link[b]) \in Nat /\ recv_total[b] \in Nat
  BY BoxFacts, TypeFacts
<1>2. /\ iter[b] \in 1 .. Iterations /\ link[b] # <<>>
      /\ recv_total' = [recv_total EXCEPT ![b] = @ + 1]
      /\ link' = [link EXCEPT ![b] = Tail(@)]
      /\ rec' = IF ThrowsAway(b) THEN rec
                ELSE [rec EXCEPT ![b] = ApplyRemoteUpdate(@, Decode(Head(link[b])))]
      /\ cfg' = cfg /\ iter' = iter /\ claimed_once' = claimed_once
      /\ claims_total' = claims_total /\ orderly' = orderly /\ claimant' = claimant
  BY DEF Recv, CountReceived
<1>3. rec \in [Boxes -> Records] /\ link \in [Boxes -> Seq(Frames)]
  BY DEF SimTypeOK
<1>4. /\ Len(link[b]) > 0 /\ Head(link[b]) = f /\ Tail(link[b]) \in Seq(Frames)
      /\ Len(Tail(link[b])) = Len(link[b]) - 1
      /\ \A k \in 1 .. Len(Tail(link[b])) : Tail(link[b])[k] = link[b][k + 1]
  <2>1. Len(link[b]) > 0 /\ Head(link[b]) = f
    BY <1>1, <1>2, EmptySeq
  <2>. QED
    BY <1>1, <1>2, <2>1, HeadTailProperties
<1>5. /\ link' \in [Boxes -> Seq(Frames)] /\ link'[b] = Tail(link[b])
      /\ link'[a] = link[a]
  BY <1>1, <1>2, <1>3, <1>4
<1>6. f \in Frames
  BY <1>1, <1>4, TypeFacts
<1>7. /\ s \in Records /\ ~Beats(rec[b], s) /\ ~Beats(f, s)
      /\ Beats(f, rec[b]) => SameRank(s, f) /\ s.state = "REMOTE"
      /\ ~Beats(f, rec[b]) => s = rec[b]
  BY <1>1, <1>6, AppliedFacts
<1>8. Kept(b, 1) <=> ~ThrowsAway(b)
  BY <1>1, TypeFacts DEF Kept, ThrowsAway
<1>9. rec' = IF ThrowsAway(b) THEN rec ELSE [rec EXCEPT ![b] = s]
  BY <1>2, <1>4
<1>. HIDE DEF s
<1>10. ~Beats(rec[b], rec[b])
  BY <1>1, SameRankFacts DEF SameRank
<1>11. /\ rec' \in [Boxes -> Records] /\ rec'[a] = rec[a] /\ ~Beats(rec[b], rec'[b])
       /\ rec'[b] = rec[b] \/ (SameRank(rec'[b], f) /\ rec'[b].state = "REMOTE")
       /\ ~ThrowsAway(b) => ~Beats(f, rec'[b])
  <2>1. CASE ThrowsAway(b)
    BY <1>3, <1>9, <1>10, <2>1
  <2>2. CASE ~ThrowsAway(b)
    <3>1. rec' = [rec EXCEPT ![b] = s]
      BY <1>9, <2>2
    <3>2. rec' \in [Boxes -> Records] /\ rec'[a] = rec[a] /\ rec'[b] = s
      BY <1>1, <1>3, <1>7, <3>1
    <3>. QED
      BY <1>7, <2>2, <3>2
  <2>. QED
    BY <2>1, <2>2
<1>. QED
  BY <1>2, <1>4, <1>5, <1>8, <1>11 DEF Receiving

-----------------------------------------------------------------------------
(***************************************************************************)
(* What the steps keep, one part of the invariant after the other.         *)
(***************************************************************************)
LEMMA ClaimTyped ==
    ASSUME SimTypeOK, GenerationsAreClaimed, NEW b \in Boxes, Claiming(b)
    PROVE  SimTypeOK'
<1>1. /\ claims_total[b] <= iter[b] /\ iter[b] < Iterations
      /\ iter[b] \in 0 .. Iterations + 1 /\ claims_total[b] \in 0 .. Iterations
      /\ Iterations \in Nat
  BY TypeFacts DEF GenerationsAreClaimed, Claiming
<1>2. /\ iter' = [iter EXCEPT ![b] = iter[b] + 1]
      /\ claims_total' = [claims_total EXCEPT ![b] = claims_total[b] + 1]
      /\ claimed_once' = [claimed_once EXCEPT ![b] = TRUE]
  BY DEF Claiming
<1>3. iter[b] + 1 \in 0 .. Iterations + 1 /\ claims_total[b] + 1 \in 0 .. Iterations
  BY <1>1
<1>4. /\ iter' \in [Boxes -> 0 .. Iterations + 1]
      /\ claims_total' \in [Boxes -> 0 .. Iterations]
      /\ claimed_once' \in [Boxes -> BOOLEAN]
  BY <1>2, <1>3 DEF SimTypeOK
<1>. QED
  BY <1>4, BoxFacts DEF SimTypeOK, Claiming

LEMMA RecvTyped ==
    ASSUME SimTypeOK, GenerationsAreClaimed, NEW b \in Boxes, Receiving(b)
    PROVE  SimTypeOK'
<1>1. recv_total' \in [Boxes -> Nat]
  BY DEF SimTypeOK, Receiving
<1>. QED
  BY <1>1 DEF SimTypeOK, Receiving

LEMMA ClaimGenerations ==
    ASSUME SimTypeOK, GenerationsAreClaimed, NEW b \in Boxes, Claiming(b)
    PROVE  GenerationsAreClaimed'
<1>. DEFINE a == Other(b)
<1>1. a \in Boxes /\ a # b /\ \A x \in Boxes : x = b \/ x = a
  BY BoxFacts
<1>2. /\ rec[b].generation \in Nat /\ rec[b].generation <= Claims
      /\ rec[a].generation \in Nat /\ rec[a].generation <= Claims
      /\ Claims \in Nat /\ Claims' = Claims + 1
  BY <1>1, TypeFacts DEF GenerationsAreClaimed, HasRank, Claiming
<1>3. /\ rec'[b].generation = rec[b].generation + 1 /\ rec'[a] = rec[a]
      /\ link'[b] = link[b]
  BY DEF Claiming
<1>4. ASSUME NEW x \in Boxes PROVE claims_total'[x] <= iter'[x]
  <2>1. /\ iter' = [iter EXCEPT ![b] = @ + 1]
        /\ claims_total' = [claims_total EXCEPT ![b] = @ + 1]
    BY DEF Claiming
  <2>2. iter \in [Boxes -> 0 .. Iterations + 1] /\ claims_total \in [Boxes -> 0 .. Iterations]
    BY DEF SimTypeOK
  <2>3. claims_total[x] <= iter[x] /\ claims_total[x] \in Int /\ iter[x] \in Int
    BY <2>2, TypeFacts DEF GenerationsAreClaimed
  <2>4. CASE x = b
    BY <2>1, <2>2, <2>3, <2>4
  <2>5. CASE x # b
    BY <2>1, <2>2, <2>3, <2>5
  <2>. QED
    BY <2>4, <2>5
<1>5. ASSUME NEW x \in Boxes PROVE rec'[x].generation <= Claims'
  BY <1>1, <1>2, <1>3
<1>6. ASSUME NEW x \in Boxes, NEW k \in 1 .. Len(link'[x])
      PROVE  link'[x][k].generation \in 1 .. Claims'
  <2>1. \A y \in Boxes : \A j \in 1 .. Len(link[y]) :
            link[y][j].generation \in 1 .. Claims + 1
    BY <1>2 DEF GenerationsAreClaimed
  <2>2. CASE x = b
    BY <1>2, <1>3, <1>6, <2>1, <2>2
  <2>3. CASE x = a
    <3>1. /\ \A j \in 1 .. Len(link[a]) : link'[a][j] = link[a][j]
          /\ \A j \in Len(link[a]) + 1 .. Len(link'[a]) :
                 link'[a][j].generation = rec'[b].generation
      BY DEF Claiming
    <3>2. Len(link[a]) \in Nat /\ k \in 1 .. Len(link'[a])
      BY <1>1, <2>3, TypeFacts
    <3>3. CASE k \in 1 .. Len(link[a])
      BY <1>1, <1>2, <2>1, <2>3, <3>1, <3>3
    <3>4. CASE k \in Len(link[a]) + 1 .. Len(link'[a])
      BY <1>2, <1>3, <2>3, <3>1, <3>4
    <3>. QED
      BY <3>2, <3>3, <3>4
  <2>. QED
    BY <1>1, <2>2, <2>3
<1>. QED
  BY <1>4, <1>5, <1>6 DEF GenerationsAreClaimed

LEMMA RecvGenerations ==
    ASSUME SimTypeOK, GenerationsAreClaimed, NEW b \in Boxes, Receiving(b)
    PROVE  GenerationsAreClaimed'
<1>. DEFINE a == Other(b)
<1>1. a \in Boxes /\ a # b /\ \A x \in Boxes : x = b \/ x = a
  BY BoxFacts
<1>2. Claims' = Claims /\ Claims \in Nat /\ Len(link[b]) \in Nat
  BY TypeFacts DEF Receiving, Claims
<1>3. /\ rec'[a] = rec[a] /\ link'[a] = link[a] /\ iter' = iter
      /\ claims_total' = claims_total
      /\ rec'[b] = rec[b] \/ rec'[b].generation = link[b][1].generation
      /\ Len(link[b]) > 0 /\ Len(link'[b]) = Len(link[b]) - 1
      /\ \A k \in 1 .. Len(link'[b]) : link'[b][k] = link[b][k + 1]
  BY DEF Receiving, SameRank
<1>4. \A k \in 1 .. Len(link[b]) : link[b][k].generation \in 1 .. Claims
  BY DEF GenerationsAreClaimed
<1>5. rec'[b].generation <= Claims
  <2>1. 1 \in 1 .. Len(link[b])
    BY <1>2, <1>3
  <2>. QED
    BY <1>2, <1>3, <1>4, <2>1 DEF GenerationsAreClaimed
<1>6. \A k \in 1 .. Len(link'[b]) : link'[b][k].generation \in 1 .. Claims
  <2>1. \A k \in 1 .. Len(link'[b]) : k + 1 \in 1 .. Len(link[b])
    BY <1>2, <1>3
  <2>. QED
    BY <1>3, <1>4, <2>1
<1>. QED
  BY <1>1, <1>2, <1>3, <1>5, <1>6 DEF GenerationsAreClaimed

(***************************************************************************)
(* A frame f under way to box x, whose sender has record r; box 1 repeats  *)
(* every claim d times.                                                    *)
(***************************************************************************)
Follows(x, f, r, d) ==
    /\ ~Ahead(f, r)
    /\ x = 1 => f.owner_box = 0 /\ ~Beats(f, r)
    /\ x = 0 /\ f.owner_box = 0 => d > 0

LEMMA FollowersFollow ==
    FramesFollowSender <=>
        \A x \in Boxes : \A k \in 1 .. Len(link[x]) :
            Follows(x, link[x][k], rec[Other(x)], cfg[1].emit_dup_count)
BY BoxFacts DEF FramesFollowSender, Follows

LEMMA FollowersFollowNext ==
    FramesFollowSender' <=>
        \A x \in Boxes : \A k \in 1 .. Len(link'[x]) :
            Follows(x, link'[x][k], rec'[Other(x)], cfg'[1].emit_dup_count)
BY BoxFacts DEF FramesFollowSender, Follows

LEMMA FollowsOn ==
    ASSUME NEW x, NEW f, NEW r, NEW s, NEW d, HasRank(f), HasRank(r), HasRank(s),
           Follows(x, f, r, d), ~Beats(r, s)
    PROVE  Follows(x, f, s, d)
BY BeatsIsOrder, AheadIsOrder DEF Follows

LEMMA ClaimFollowed ==
    ASSUME SimTypeOK, GenerationsAreClaimed, FramesFollowSender, NEW b \in Boxes, Claiming(b)
    PROVE  FramesFollowSender'
<1>. DEFINE a == Other(b)
            d == cfg[1].emit_dup_count
<1>1. /\ a \in Boxes /\ a # b /\ Other(a) = b /\ \A x \in Boxes : x = b \/ x = a
      /\ Boxes = {0, 1}
  BY BoxFacts
<1>2. /\ rec'[a] = rec[a] /\ link'[b] = link[b] /\ cfg' = cfg /\ ~Beats(rec[b], rec'[b])
      /\ rec'[b].owner_box = b
      /\ \A k \in 1 .. Len(link[a]) : link'[a][k] = link[a][k]
      /\ \A k \in Len(link[a]) + 1 .. Len(link'[a]) :
             LET f == link'[a][k]
             IN  /\ f.owner_epoch = rec'[b].owner_epoch /\ f.generation = rec'[b].generation
                 /\ f.owner_box \in {0, b}
                 /\ f.owner_box = 0 => b = 0 \/ cfg[b].emit_dup_count > 0
  BY DEF Claiming
<1>3. HasRank(rec'[b]) /\ HasRank(rec[b]) /\ Len(link[a]) \in Nat
  BY <1>1, TypeFacts, RecordRank DEF Claiming
<1>4. ASSUME NEW k \in 1 .. Len(link[b]) PROVE Follows(b, link[b][k], rec[a], d)
  BY <1>4, FollowersFollow
<1>5. ASSUME NEW k \in 1 .. Len(link[a]) PROVE Follows(a, link[a][k], rec'[b], d)
  <2>1. Follows(a, link[a][k], rec[b], d) /\ HasRank(link[a][k])
    BY <1>1, <1>5, FollowersFollow, TypeFacts
  <2>. QED
    BY <1>2, <1>3, <2>1, FollowsOn
<1>6. ASSUME NEW k \in Len(link[a]) + 1 .. Len(link'[a])
      PROVE  Follows(a, link'[a][k], rec'[b], d)
  <2>. DEFINE f == link'[a][k]
  <2>1. /\ f.owner_epoch = rec'[b].owner_epoch /\ f.generation = rec'[b].generation
        /\ f.owner_box \in {0, b}
        /\ f.owner_box = 0 => b = 0 \/ cfg[b].emit_dup_count > 0
    BY <1>2
  <2>. HIDE DEF f
  <2>2. ~Ahead(f, rec'[b])
    BY <1>3, <2>1 DEF Ahead, HasRank
  <2>3. a = 1 => b = 0
    BY <1>1
  <2>4. a = 0 => b = 1
    BY <1>1
  <2>5. a = 1 => f.owner_box = 0 /\ ~Beats(f, rec'[b])
    BY <1>2, <1>3, <2>1, <2>3 DEF Beats, HasRank
  <2>. QED
    BY <2>1, <2>2, <2>4, <2>5 DEF Follows, f
<1>7. ASSUME NEW k \in 1 .. Len(link'[a]) PROVE Follows(a, link'[a][k], rec'[b], d)
  <2>1. k \in 1 .. Len(link[a]) \/ k \in Len(link[a]) + 1 .. Len(link'[a])
    BY <1>3
  <2>. QED
    BY <1>2, <1>5, <1>6, <2>1
<1>. QED
  BY <1>1, <1>2, <1>4, <1>7, FollowersFollowNext

LEMMA RecvFollowed ==
    ASSUME SimTypeOK, GenerationsAreClaimed, FramesFollowSender, NEW b \in Boxes, Receiving(b)
    PROVE  FramesFollowSender'
<1>. DEFINE a == Other(b)
            d == cfg[1].emit_dup_count
<1>1. /\ a \in Boxes /\ a # b /\ Other(a) = b /\ \A x \in Boxes : x = b \/ x = a
      /\ Boxes = {0, 1}
  BY BoxFacts
<1>2. /\ rec'[a] = rec[a] /\ link'[a] = link[a] /\ cfg' = cfg /\ ~Beats(rec[b], rec'[b])
      /\ Len(link[b]) > 0 /\ Len(link'[b]) = Len(link[b]) - 1
      /\ \A k \in 1 .. Len(link'[b]) : link'[b][k] = link[b][k + 1]
  BY DEF Receiving
<1>3. HasRank(rec'[b]) /\ HasRank(rec[b]) /\ Len(link[b]) \in Nat
  BY TypeFacts, RecordRank DEF Receiving
<1>4. ASSUME NEW k \in 1 .. Len(link[a]) PROVE Follows(a, link[a][k], rec'[b], d)
  <2>1. Follows(a, link[a][k], rec[b], d) /\ HasRank(link[a][k])
    BY <1>1, <1>4, FollowersFollow, TypeFacts
  <2>. QED
    BY <1>2, <1>3, <2>1, FollowsOn
<1>5. ASSUME NEW k \in 1 .. Len(link'[b]) PROVE Follows(b, link'[b][k], rec[a], d)
  <2>1. k + 1 \in 1 .. Len(link[b])
    BY <1>2, <1>3
  <2>. QED
    BY <1>2, <1>5, <2>1, FollowersFollow
<1>. QED
  BY <1>1, <1>2, <1>4, <1>5, FollowersFollowNext

(***************************************************************************)
(* Records r and s of boxes 0 and 1 whose owners are explained.            *)
(***************************************************************************)
OwnerOf(x, r) ==
    /\ r.state = "UNOWNED" => r.generation = 0 /\ r.owner_box = 0
    /\ r.state # "UNOWNED" => r.generation > 0
    /\ r.state = "LOCAL" => r.owner_box = x

Explained(r, s, d) ==
    /\ OwnerOf(0, r) /\ OwnerOf(1, s)
    /\ s.owner_box = 1 => s.state = "LOCAL"
    /\ s.owner_box = 0 /\ s.generation > 0 => ~Beats(s, r)
    /\ r.owner_box = 0 /\ r.state = "REMOTE" => d > 0

LEMMA ExplainedNow ==
    OwnersAreExplained <=> Explained(rec[0], rec[1], cfg[1].emit_dup_count)
BY BoxFacts DEF OwnersAreExplained, Explained, OwnerOf

LEMMA ExplainedNext ==
    OwnersAreExplained' <=> Explained(rec'[0], rec'[1], cfg'[1].emit_dup_count)
BY BoxFacts DEF OwnersAreExplained, Explained, OwnerOf

LEMMA ClaimExplained ==
    ASSUME SimTypeOK, GenerationsAreClaimed, OwnersAreExplained, NEW b \in Boxes, Claiming(b)
    PROVE  OwnersAreExplained'
<1>. DEFINE d == cfg[1].emit_dup_count
            r == rec[b]
            s == rec'[b]
<1>1. /\ rec'[Other(b)] = rec[Other(b)] /\ ~Beats(r, s)
      /\ s.owner_box = b /\ s.state = "LOCAL" /\ s.generation = r.generation + 1
      /\ cfg' = cfg /\ s \in Records
  BY DEF Claiming
<1>2. HasRank(r) /\ HasRank(s)
  BY <1>1, TypeFacts, RecordRank
<1>3. Explained(rec[0], rec[1], d)
  BY ExplainedNow
<1>. HIDE DEF r, s, d
<1>4. s.generation > 0 /\ OwnerOf(b, s)
  BY <1>1, <1>2 DEF HasRank, OwnerOf
<1>5. CASE b = 0
  <2>1. rec[0] = r /\ rec'[0] = s /\ rec'[1] = rec[1]
    BY <1>1, <1>5, BoxFacts DEF r, s
  <2>2. HasRank(rec[1])
    BY TypeFacts, BoxFacts
  <2>3. ~Beats(rec[1], r) => ~Beats(rec[1], s)
    BY <1>1, <1>2, <2>2, BeatsIsOrder
  <2>. QED
    BY <1>1, <1>3, <1>4, <1>5, <2>1, <2>3, ExplainedNext DEF Explained, d
<1>6. CASE b = 1
  <2>1. rec[1] = r /\ rec'[1] = s /\ rec'[0] = rec[0]
    BY <1>1, <1>6, BoxFacts DEF r, s
  <2>. QED
    BY <1>1, <1>3, <1>4, <1>6, <2>1, ExplainedNext DEF Explained, d
<1>. QED
  BY <1>5, <1>6, BoxFacts

LEMMA RecvExplained ==
    ASSUME SimTypeOK, GenerationsAreClaimed, FramesFollowSender, OwnersAreExplained,
           NEW b \in Boxes, Receiving(b)
    PROVE  OwnersAreExplained'
<1>. DEFINE d == cfg[1].emit_dup_count
            r == rec[b]
            s == rec'[b]
            f == link[b][1]
<1>1. /\ rec'[Other(b)] = rec[Other(b)] /\ ~Beats(r, s)
      /\ s = r \/ (SameRank(s, f) /\ s.state = "REMOTE")
      /\ cfg' = cfg /\ s \in Records /\ Len(link[b]) > 0
  BY DEF Receiving
<1>2. HasRank(r) /\ HasRank(s)
  BY <1>1, TypeFacts, RecordRank
<1>3. Explained(rec[0], rec[1], d)
  BY ExplainedNow
<1>4. 1 \in 1 .. Len(link[b])
  BY <1>1, TypeFacts
<1>5. /\ f.generation > 0 /\ HasRank(f)
      /\ Follows(b, f, rec[Other(b)], d)
  <2>1. f.generation \in 1 .. Claims /\ Claims \in Nat
    BY <1>4, TypeFacts DEF GenerationsAreClaimed
  <2>. QED
    BY <1>4, <2>1, TypeFacts, FollowersFollow
<1>. HIDE DEF r, s, d, f
<1>6. CASE s = r
  <2>1. rec'[0] = rec[0] /\ rec'[1] = rec[1]
    BY <1>1, <1>6, BoxFacts DEF r, s
  <2>. QED
    BY <1>1, <1>3, <2>1, ExplainedNext DEF d
<1>7. CASE SameRank(s, f) /\ s.state = "REMOTE"
  <2>1. OwnerOf(b, s) /\ s.owner_box = f.owner_box
    BY <1>5, <1>7 DEF SameRank, OwnerOf
  <2>2. CASE b = 0
    <3>1. rec[0] = r /\ rec'[0] = s /\ rec'[1] = rec[1]
      BY <1>1, <2>2, BoxFacts DEF r, s
    <3>2. HasRank(rec[1])
      BY TypeFacts, BoxFacts
    <3>3. ~Beats(rec[1], r) => ~Beats(rec[1], s)
      BY <1>1, <1>2, <3>2, BeatsIsOrder
    <3>4. f.owner_box = 0 => d > 0
      BY <1>5, <2>2 DEF Follows
    <3>. QED
      BY <1>1, <1>3, <2>1, <2>2, <3>1, <3>3, <3>4, ExplainedNext DEF Explained, d
  <2>3. CASE b = 1
    <3>1. rec[1] = r /\ rec'[1] = s /\ rec'[0] = rec[0]
      BY <1>1, <2>3, BoxFacts DEF r, s
    <3>2. f.owner_box = 0 /\ ~Beats(f, rec[0])
      BY <1>5, <2>3, BoxFacts DEF Follows
    <3>3. ~Beats(s, rec[0])
      BY <1>2, <1>7, <3>2, SameRankFacts
    <3>. QED
      BY <1>1, <1>3, <2>1, <2>3, <3>1, <3>2, <3>3, ExplainedNext DEF Explained, d
  <2>. QED
    BY <2>2, <2>3, BoxFacts
<1>. QED
  BY <1>1, <1>6, <1>7

-----------------------------------------------------------------------------
(***************************************************************************)
(* A claim gets through to a receiver that drops every n-th frame and has  *)
(* read t: its record r is not behind the claimant's p, or a frame of q    *)
(* that it will keep is not.  Over compares by claim or by owner.          *)
(***************************************************************************)
Over(c, d, by) == IF by = "owner" THEN Beats(c, d) ELSE Ahead(c, d)

KeptAt(n, t, k) == n = 0 \/ (t + k) % n # 0

Through(p, r, q, n, t, by) ==
    \/ ~Over(p, r, by)
    \/ \E k \in 1 .. Len(q) : KeptAt(n, t, k) /\ ~Over(p, q[k], by)

LEMMA OverIsOrder ==
    ASSUME NEW c, NEW d, NEW e, NEW by, HasRank(c), HasRank(d), HasRank(e),
           ~Over(c, d, by), ~Beats(d, e)
    PROVE  ~Over(c, e, by)
BY BeatsIsOrder, AheadIsOrder DEF Over

LEMMA OverSameRank ==
    ASSUME NEW c, NEW d, NEW e, NEW by, SameRank(c, d), HasRank(c), ~Over(d, e, by)
    PROVE  ~Over(c, e, by)
BY SameRankFacts DEF Over

(* Of two frames in a row a receiver keeps at least one, if it keeps any.  *)
LEMMA OneOfTwoKept ==
    ASSUME NEW n \in Nat, NEW t \in Nat, NEW k \in Nat, n # 1
    PROVE  KeptAt(n, t, k) \/ KeptAt(n, t, k + 1)
<1>. SUFFICES ASSUME n > 1, (t + k) % n = 0, (t + (k + 1)) % n = 0 PROVE FALSE
  BY DEF KeptAt
<1>. DEFINE x == t + k
            y == t + (k + 1)
<1>1. x \in Nat /\ y \in Nat /\ y = x + 1 /\ n \in Nat \ {0}
  OBVIOUS
<1>2. x % n = y % n
  OBVIOUS
<1>. HIDE DEF x, y
<1>3. x <= y /\ y - x < n
  BY <1>1
<1>4. x = y
  BY <1>1, <1>2, <1>3, CloseRemainders
<1>. QED
  BY <1>1, <1>4

HearsAt(n, d) == n = 0 \/ (n > 1 /\ d > 0)

LEMMA HearsNow ==
    ASSUME NEW b
    PROVE  /\ Hears(b) <=> HearsAt(cfg[b].drop_incoming_every, cfg[Other(b)].emit_dup_count)
           /\ Hears(b)' <=> HearsAt(cfg'[b].drop_incoming_every, cfg'[Other(b)].emit_dup_count)
BY DEF Hears, HearsAt, Other

LEMMA ThroughNow ==
    ClaimsGetThrough <=>
        \A b \in Boxes : Hears(b) /\ rec[Other(b)].generation > 0 =>
            Through(rec[Other(b)], rec[b], link[b],
                    cfg[b].drop_incoming_every, recv_total[b], "claim")
BY DEF ClaimsGetThrough, Through, Over, KeptAt, Kept

LEMMA ThroughNext ==
    ClaimsGetThrough' <=>
        \A b \in Boxes : Hears(b)' /\ rec'[Other(b)].generation > 0 =>
            Through(rec'[Other(b)], rec'[b], link'[b],
                    cfg'[b].drop_incoming_every, recv_total'[b], "claim")
BY DEF ClaimsGetThrough, Through, Over, KeptAt, Kept, Other

LEMMA ZeroThroughNow ==
    BoxZeroGetsThrough <=>
        (Hears(1) /\ rec[0].state = "LOCAL" =>
            Through(rec[0], rec[1], link[1],
                    cfg[1].drop_incoming_every, recv_total[1], "owner"))
BY DEF BoxZeroGetsThrough, Through, Over, KeptAt, Kept

LEMMA ZeroThroughNext ==
    BoxZeroGetsThrough' <=>
        (Hears(1)' /\ rec'[0].state = "LOCAL" =>
            Through(rec'[0], rec'[1], link'[1],
                    cfg'[1].drop_incoming_every, recv_total'[1], "owner"))
BY DEF BoxZeroGetsThrough, Through, Over, KeptAt, Kept

(* The receiver's record rises: what got through still does.               *)
LEMMA ThroughRises ==
    ASSUME NEW p, NEW r, NEW s, NEW q, NEW n, NEW t, NEW by,
           HasRank(p), HasRank(r), HasRank(s), ~Beats(r, s), Through(p, r, q, n, t, by)
    PROVE  Through(p, s, q, n, t, by)
BY OverIsOrder DEF Through

(* A claim got through once its frames are under way.                      *)
LEMMA NewFramesGetThrough ==
    ASSUME NEW p, NEW r, NEW q, NEW n \in Nat, NEW t \in Nat, NEW by,
           NEW L \in Nat, NEW d \in Nat, HearsAt(n, d), Len(q) = L + 1 + d,
           \A k \in L + 1 .. L + 1 + d : ~Over(p, q[k], by)
    PROVE  Through(p, r, q, n, t, by)
<1>1. PICK k \in L + 1 .. L + 1 + d : KeptAt(n, t, k)
  <2>1. CASE n = 0
    BY <2>1 DEF KeptAt
  <2>2. CASE n # 0
    <3>1. n # 1 /\ d > 0
      BY <2>2 DEF HearsAt
    <3>2. KeptAt(n, t, L + 1) \/ KeptAt(n, t, (L + 1) + 1)
      BY <3>1, OneOfTwoKept
    <3>. QED
      BY <3>1, <3>2
  <2>. QED
    BY <2>1, <2>2
<1>2. k \in 1 .. Len(q)
  BY <1>1
<1>. QED
  BY <1>1, <1>2 DEF Through

(* A frame is read off the front of the link.                              *)
LEMMA ThroughIsRead ==
    ASSUME NEW p, NEW r, NEW s, NEW q, NEW w, NEW n \in Nat, NEW t \in Nat, NEW by,
           HasRank(p), HasRank(r), HasRank(s), HasRank(q[1]), ~Beats(r, s),
           KeptAt(n, t, 1) => ~Beats(q[1], s),
           Len(q) \in Nat, Len(w) = Len(q) - 1, \A k \in 1 .. Len(w) : w[k] = q[k + 1],
           Through(p, r, q, n, t, by)
    PROVE  Through(p, s, w, n, t + 1, by)
<1>1. CASE ~Over(p, r, by)
  BY <1>1, OverIsOrder DEF Through
<1>2. CASE \E k \in 1 .. Len(q) : KeptAt(n, t, k) /\ ~Over(p, q[k], by)
  <2>1. PICK k \in 1 .. Len(q) : KeptAt(n, t, k) /\ ~Over(p, q[k], by)
    BY <1>2
  <2>2. CASE k = 1
    <3>1. ~Over(p, s, by)
      BY <2>1, <2>2, OverIsOrder
    <3>. QED
      BY <3>1 DEF Through
  <2>3. CASE k > 1
    <3>. DEFINE j == k - 1
    <3>1. j \in 1 .. Len(w) /\ j + 1 = k /\ (t + 1) + j = t + k
      BY <2>1, <2>3
    <3>. HIDE DEF j
    <3>2. w[j] = q[k]
      BY <3>1
    <3>3. KeptAt(n, t + 1, j)
      BY <2>1, <3>1 DEF KeptAt
    <3>. QED
      BY <2>1, <3>1, <3>2, <3>3 DEF Through
  <2>. QED
    BY <2>1, <2>2, <2>3
<1>. QED
  BY <1>1, <1>2 DEF Through

LEMMA ClaimGetsThrough ==
    ASSUME SimTypeOK, GenerationsAreClaimed, ClaimsGetThrough, BoxZeroGetsThrough,
           NEW b \in Boxes, Claiming(b)
    PROVE  ClaimsGetThrough' /\ BoxZeroGetsThrough'
<1>. DEFINE a == Other(b)
            d == cfg[b].emit_dup_count
            n == cfg[a].drop_incoming_every
            L == Len(link[a])
<1>1. /\ a \in Boxes /\ a # b /\ Other(a) = b /\ \A x \in Boxes : x = b \/ x = a
      /\ Boxes = {0, 1}
  BY BoxFacts
<1>2. /\ HasRank(rec[a]) /\ n \in Nat /\ L \in Nat /\ recv_total[a] \in Nat
      /\ HasRank(rec[b]) /\ HasRank(rec'[b]) /\ d \in Nat
  <2>1. HasRank(rec[a]) /\ n \in Nat /\ L \in Nat /\ recv_total[a] \in Nat
    BY <1>1, TypeFacts
  <2>2. HasRank(rec[b]) /\ HasRank(rec'[b]) /\ d \in Nat
    BY TypeFacts, RecordRank DEF Claiming
  <2>. QED
    BY <2>1, <2>2
<1>3. /\ rec'[a] = rec[a] /\ link'[b] = link[b] /\ cfg' = cfg /\ recv_total' = recv_total
      /\ ~Beats(rec[b], rec'[b]) /\ rec'[b].owner_box = b
      /\ Len(link'[a]) = L + 1 + d
  BY DEF Claiming
<1>4. \A k \in L + 1 .. L + 1 + d :
          LET f == link'[a][k]
          IN  /\ f.owner_epoch = rec'[b].owner_epoch /\ f.generation = rec'[b].generation
              /\ f.owner_box \in {0, b}
  BY <1>3 DEF Claiming
<1>. HIDE DEF L, n, d
<1>5. ASSUME NEW k \in L + 1 .. L + 1 + d
      PROVE  ~Over(rec'[b], link'[a][k], "claim") /\ (b = 0 => ~Over(rec'[b], link'[a][k], "owner"))
  <2>. DEFINE f == link'[a][k]
              r == rec'[b]
  <2>1. /\ f.owner_epoch = r.owner_epoch /\ f.generation = r.generation
        /\ f.owner_box \in {0, b} /\ r.owner_box = b
    BY <1>3, <1>4
  <2>2. HasRank(r)
    BY <1>2
  <2>. HIDE DEF f, r
  <2>3. ~Ahead(r, f)
    BY <2>1, <2>2 DEF Ahead, HasRank
  <2>4. b = 0 => ~Beats(r, f)
    BY <2>1, <2>2 DEF Beats, HasRank
  <2>. QED
    BY <2>3, <2>4 DEF Over, f, r
<1>6. Hears(b)' = Hears(b) /\ Hears(a)' = Hears(a) /\ (Hears(a) => HearsAt(n, d))
  <2>1. Hears(a) => HearsAt(n, d)
    BY <1>1, HearsNow DEF n, d
  <2>2. Hears(b)' = Hears(b) /\ Hears(a)' = Hears(a)
    BY <1>3 DEF Hears, Other
  <2>. QED
    BY <2>1, <2>2
<1>7. ASSUME Hears(a)
      PROVE  /\ Through(rec'[b], rec'[a], link'[a], n, recv_total[a], "claim")
             /\ b = 0 => Through(rec'[b], rec'[a], link'[a], n, recv_total[a], "owner")
  BY <1>2, <1>3, <1>5, <1>6, <1>7, NewFramesGetThrough
<1>8. ASSUME Hears(b), rec[a].generation > 0
      PROVE  Through(rec[a], rec'[b], link[b], cfg[b].drop_incoming_every, recv_total[b], "claim")
  BY <1>2, <1>3, <1>8, ThroughNow, ThroughRises
<1>9. ClaimsGetThrough'
  BY <1>1, <1>3, <1>6, <1>7, <1>8, ThroughNext DEF n
<1>10. BoxZeroGetsThrough'
  <2>1. CASE b = 0
    <3>1. a = 1
      BY <1>1, <2>1
    <3>. QED
      BY <1>3, <1>6, <1>7, <2>1, <3>1, ZeroThroughNext DEF n
  <2>2. CASE b = 1
    <3>1. a = 0
      BY <1>1, <2>2
    <3>2. ASSUME Hears(1), rec[0].state = "LOCAL"
          PROVE  Through(rec[0], rec'[1], link[1], cfg[1].drop_incoming_every,
                         recv_total[1], "owner")
      BY <1>2, <1>3, <2>2, <3>1, <3>2, ZeroThroughNow, ThroughRises
    <3>. QED
      BY <1>3, <1>6, <2>2, <3>1, <3>2, ZeroThroughNext
  <2>. QED
    BY <1>1, <2>1, <2>2
<1>. QED
  BY <1>9, <1>10

LEMMA RecvGetsThrough ==
    ASSUME SimTypeOK, GenerationsAreClaimed, FramesFollowSender, ClaimsGetThrough,
           BoxZeroGetsThrough, NEW b \in Boxes, Receiving(b)
    PROVE  ClaimsGetThrough' /\ BoxZeroGetsThrough'
<1>. DEFINE a == Other(b)
            n == cfg[b].drop_incoming_every
            t == recv_total[b]
            q == link[b]
            w == link'[b]
            r == rec[b]
            s == rec'[b]
<1>1. /\ a \in Boxes /\ a # b /\ Other(a) = b /\ \A x \in Boxes : x = b \/ x = a
      /\ Boxes = {0, 1}
  BY BoxFacts
<1>2. /\ rec'[a] = rec[a] /\ link'[a] = link[a] /\ cfg' = cfg
      /\ s = r \/ (SameRank(s, q[1]) /\ s.state = "REMOTE")
      /\ ~Beats(r, s) /\ s \in Records /\ Len(q) > 0
      /\ Kept(b, 1) => ~Beats(q[1], s)
      /\ Len(w) = Len(q) - 1 /\ \A k \in 1 .. Len(w) : w[k] = q[k + 1]
      /\ recv_total' = [recv_total EXCEPT ![b] = @ + 1]
  BY DEF Receiving
<1>3. HasRank(rec[a])
  BY <1>1, TypeFacts
<1>4. /\ HasRank(r) /\ HasRank(s) /\ Len(q) \in Nat /\ n \in Nat /\ t \in Nat
      /\ 1 \in 1 .. Len(q) /\ HasRank(q[1])
  <2>1. HasRank(r) /\ Len(q) \in Nat /\ n \in Nat /\ t \in Nat
    BY TypeFacts
  <2>2. 1 \in 1 .. Len(q)
    BY <1>2, <2>1
  <2>3. HasRank(q[1])
    BY <2>2, TypeFacts
  <2>. QED
    BY <1>2, <2>1, <2>2, <2>3, RecordRank
<1>5. ~Ahead(q[1], rec[a])
  BY <1>4 DEF FramesFollowSender
<1>6. KeptAt(n, t, 1) => ~Beats(q[1], s)
  BY <1>2 DEF Kept, KeptAt
<1>7. recv_total'[b] = t + 1 /\ recv_total'[a] = recv_total[a]
  BY <1>1, <1>2 DEF SimTypeOK
<1>8. Hears(b)' = Hears(b) /\ Hears(a)' = Hears(a)
  BY <1>2 DEF Hears, Other
<1>9. ASSUME NEW by, Through(rec[a], r, q, n, t, by)
      PROVE  Through(rec[a], s, w, n, t + 1, by)
  <2>. HIDE DEF n, t, q, w, r, s
  <2>. QED
    BY <1>2, <1>3, <1>4, <1>6, <1>9, ThroughIsRead
<1>10. ASSUME Hears(b), rec[a].generation > 0
       PROVE  Through(rec'[a], s, w, n, recv_total'[b], "claim")
  BY <1>2, <1>7, <1>9, <1>10, ThroughNow
<1>11. ASSUME Hears(a), s.generation > 0
       PROVE  Through(s, rec'[a], link'[a], cfg[a].drop_incoming_every, recv_total[a], "claim")
  <2>1. CASE s = r
    BY <1>1, <1>2, <1>11, <2>1, ThroughNow
  <2>2. CASE SameRank(s, q[1])
    <3>1. ~Ahead(s, rec[a])
      BY <1>4, <1>5, <2>2, SameRankFacts
    <3>. QED
      BY <1>2, <3>1 DEF Through, Over
  <2>. QED
    BY <1>2, <2>1, <2>2
<1>12. ClaimsGetThrough'
  BY <1>1, <1>2, <1>7, <1>8, <1>10, <1>11, ThroughNext
<1>13. BoxZeroGetsThrough'
  <2>1. CASE b = 0
    <3>1. a = 1
      BY <1>1, <2>1
    <3>2. CASE s = r
      BY <1>2, <1>7, <1>8, <2>1, <3>1, <3>2, ZeroThroughNow, ZeroThroughNext
    <3>3. CASE s.state = "REMOTE"
      BY <2>1, <3>3, ZeroThroughNext
    <3>. QED
      BY <1>2, <3>2, <3>3
  <2>2. CASE b = 1
    <3>1. a = 0
      BY <1>1, <2>2
    <3>. QED
      BY <1>2, <1>7, <1>8, <1>9, <2>2, <3>1, ZeroThroughNow, ZeroThroughNext
  <2>. QED
    BY <1>1, <2>1, <2>2
<1>. QED
  BY <1>12, <1>13

-----------------------------------------------------------------------------
LEMMA ClaimKeepsEpochs ==
    ASSUME SimTypeOK, GenerationsAreClaimed, SameEpochs, NEW b \in Boxes, Claiming(b)
    PROVE  SameEpochs'
<1>. DEFINE a == Other(b)
            E == cfg[0].owner_epoch
<1>1. a \in Boxes /\ a # b /\ \A x \in Boxes : x = b \/ x = a
  BY BoxFacts
<1>2. /\ cfg' = cfg /\ rec'[a] = rec[a] /\ rec'[b].owner_epoch = rec[b].owner_epoch
      /\ link'[b] = link[b]
      /\ \A k \in 1 .. Len(link[a]) : link'[a][k] = link[a][k]
      /\ \A k \in Len(link[a]) + 1 .. Len(link'[a]) :
             link'[a][k].owner_epoch = rec'[b].owner_epoch
  BY DEF Claiming
<1>3. Len(link[a]) \in Nat
  BY <1>1, TypeFacts
<1>4. ASSUME E = cfg[1].owner_epoch, NEW k \in 1 .. Len(link'[a])
      PROVE  link'[a][k].owner_epoch = E
  <2>1. k \in 1 .. Len(link[a]) \/ k \in Len(link[a]) + 1 .. Len(link'[a])
    BY <1>3
  <2>2. CASE k \in 1 .. Len(link[a])
    BY <1>1, <1>2, <1>4, <2>2 DEF SameEpochs
  <2>3. CASE k \in Len(link[a]) + 1 .. Len(link'[a])
    BY <1>2, <1>4, <2>3 DEF SameEpochs
  <2>. QED
    BY <2>1, <2>2, <2>3
<1>. QED
  BY <1>1, <1>2, <1>4 DEF SameEpochs

LEMMA RecvKeepsEpochs ==
    ASSUME SimTypeOK, GenerationsAreClaimed, SameEpochs, NEW b \in Boxes, Receiving(b)
    PROVE  SameEpochs'
<1>. DEFINE a == Other(b)
            E == cfg[0].owner_epoch
<1>1. a \in Boxes /\ a # b /\ \A x \in Boxes : x = b \/ x = a
  BY BoxFacts
<1>2. /\ cfg' = cfg /\ rec'[a] = rec[a] /\ link'[a] = link[a]
      /\ rec'[b] = rec[b] \/ rec'[b].owner_epoch = link[b][1].owner_epoch
      /\ Len(link[b]) > 0 /\ Len(link'[b]) = Len(link[b]) - 1
      /\ \A k \in 1 .. Len(link'[b]) : link'[b][k] = link[b][k + 1]
  BY DEF Receiving, SameRank
<1>3. /\ 1 \in 1 .. Len(link[b])
      /\ \A k \in 1 .. Len(link'[b]) : k + 1 \in 1 .. Len(link[b])
  BY <1>2, TypeFacts
<1>4. ASSUME E = cfg[1].owner_epoch, NEW k \in 1 .. Len(link'[b])
      PROVE  link'[b][k].owner_epoch = E
  BY <1>2, <1>3, <1>4 DEF SameEpochs
<1>5. ASSUME E = cfg[1].owner_epoch PROVE rec'[b].owner_epoch = E
  BY <1>2, <1>3, <1>5 DEF SameEpochs
<1>6. ASSUME E = cfg[1].owner_epoch
      PROVE  rec'[a].owner_epoch = E /\ \A k \in 1 .. Len(link'[a]) : link'[a][k].owner_epoch = E
  BY <1>1, <1>2, <1>6 DEF SameEpochs
<1>. QED
  BY <1>1, <1>2, <1>4, <1>5, <1>6 DEF SameEpochs

(***************************************************************************)
(* A claim with nothing under way: the claimant knew of every claim before *)
(* it, and its own counts on from there.                                   *)
(***************************************************************************)
LEMMA ClaimStands ==
    ASSUME SimTypeOK, GenerationsAreClaimed, OwnersAreExplained, ClaimsGetThrough,
           SameEpochs, LastClaimStands, NEW b \in Boxes, Claiming(b)
    PROVE  LastClaimStands'
<1>. DEFINE a == Other(b)
<1>1. /\ a \in Boxes /\ a # b /\ Other(a) = b /\ \A x \in Boxes : x = b \/ x = a
      /\ Unowned \notin Boxes
  BY BoxFacts
<1>2. /\ claimant' = b /\ cfg' = cfg /\ link'[b] = link[b]
      /\ rec'[b].owner_box = b /\ rec'[b].state = "LOCAL"
      /\ rec'[b].generation = rec[b].generation + 1
      /\ ~HoldsLocally(rec[b], b) /\ Claims' = Claims + 1
      /\ orderly' => orderly /\ Drained
  BY DEF Claiming
<1>3. HasRank(rec[b]) /\ Claims \in Nat
  BY TypeFacts
<1>4. HasRank(rec[a]) /\ Len(link[b]) \in Nat
  BY <1>1, TypeFacts
<1>5. ASSUME orderly, Drained, cfg[0].owner_epoch = cfg[1].owner_epoch,
             \A x \in Boxes : Hears(x)
      PROVE  rec[b].generation = Claims
  <2>1. rec[b].generation <= Claims
    BY DEF GenerationsAreClaimed
  <2>2. CASE claimant = Unowned
    BY <1>3, <2>1, <2>2 DEF LastClaimStands, HasRank
  <2>3. CASE claimant # Unowned
    <3>1. claimant \in Boxes /\ HoldsLocally(rec[claimant], claimant)
          /\ rec[claimant].generation = Claims
      BY <1>5, <2>3 DEF LastClaimStands
    <3>2. claimant = a
      BY <1>1, <1>2, <3>1
    <3>3. rec[a].generation > 0
      BY <1>1, <3>1, <3>2 DEF OwnersAreExplained, HoldsLocally
    <3>4. Len(link[b]) = 0
      BY <1>5 DEF Drained
    <3>5. ~Ahead(rec[a], rec[b])
      BY <1>5, <3>3, <3>4 DEF ClaimsGetThrough
    <3>6. rec[a].owner_epoch = rec[b].owner_epoch
      BY <1>1, <1>5 DEF SameEpochs
    <3>. QED
      BY <1>3, <1>4, <2>1, <3>1, <3>2, <3>5, <3>6 DEF Ahead, HasRank
  <2>. QED
    BY <2>2, <2>3
<1>6. ASSUME orderly', cfg[0].owner_epoch = cfg[1].owner_epoch, \A x \in Boxes : Hears(x)
      PROVE  /\ link'[b] = <<>> /\ HoldsLocally(rec'[b], b)
             /\ rec'[b].generation = Claims'
  BY <1>2, <1>5, <1>6 DEF HoldsLocally, Drained
<1>7. \A x \in Boxes : Hears(x)' = Hears(x)
  BY <1>2 DEF Hears, Other
<1>8. claimant' \in Boxes /\ claimant' # Unowned
  BY <1>1, <1>2
<1>9. \A c : HoldsLocally(rec'[c], c) <=> rec'[c].owner_box = c /\ rec'[c].state = "LOCAL"
  BY DEF HoldsLocally
<1>. QED
  BY <1>2, <1>6, <1>7, <1>8, <1>9 DEF LastClaimStands, HoldsLocally

LEMMA RecvLeavesLastClaim ==
    ASSUME SimTypeOK, GenerationsAreClaimed, LastClaimStands, NEW b \in Boxes, Receiving(b)
    PROVE  LastClaimStands'
<1>. DEFINE a == Other(b)
<1>1. /\ a \in Boxes /\ a # b /\ \A x \in Boxes : x = b \/ x = a
  BY BoxFacts
<1>2. /\ claimant' = claimant /\ cfg' = cfg /\ link'[a] = link[a] /\ rec'[a] = rec[a]
      /\ orderly' = orderly /\ claims_total' = claims_total /\ Len(link[b]) > 0
  BY DEF Receiving
<1>3. Claims' = Claims
  BY <1>2 DEF Claims
<1>4. link[b] # <<>>
  BY <1>2, EmptySeq
<1>5. \A x \in Boxes : Hears(x)' = Hears(x)
  BY <1>2 DEF Hears, Other
<1>. QED
  BY <1>1, <1>2, <1>3, <1>4, <1>5 DEF LastClaimStands, HoldsLocally

-----------------------------------------------------------------------------
LEMMA StartRecordFacts ==
    ASSUME NEW e
    PROVE  LET r == StartRecord(e)
           IN  /\ r.generation = 0 /\ r.owner_box = 0
               /\ r.state = "UNOWNED" /\ r.owner_epoch = e
BY DEF StartRecord

LEMMA StartsRight ==
    ASSUME Init
    PROVE  SimInv
<1>1. ASSUME NEW b \in Boxes
      PROVE  /\ cfg[b] \in BoxConfigs[b] /\ cfg[b].owner_epoch \in Nat
             /\ rec[b] = StartRecord(cfg[b].owner_epoch) /\ link[b] = <<>>
             /\ claims_total[b] = 0 /\ iter[b] = 0 /\ rec[b] \in Records
  <2>1. /\ cfg[b] \in BoxConfigs[b]
        /\ rec[b] = StartRecord(cfg[b].owner_epoch) /\ link[b] = <<>>
        /\ claims_total[b] = 0 /\ iter[b] = 0
    BY DEF Init
  <2>2. cfg[b].owner_epoch \in Nat
    BY <2>1, ConfigsAssumption
  <2>3. 0 \in Generations /\ 0 \in Boxes /\ "UNOWNED" \in OwnershipState
    BY BoxFacts DEF Generations, OwnershipState
  <2>4. rec[b] \in Records
    BY <2>1, <2>2, <2>3 DEF StartRecord, Records
  <2>. QED
    BY <2>1, <2>2, <2>4
<1>2. \A b \in Boxes : /\ rec[b].generation = 0 /\ rec[b].owner_box = 0
                       /\ rec[b].state = "UNOWNED"
                       /\ rec[b].owner_epoch = cfg[b].owner_epoch
                       /\ Len(link[b]) = 0
  <2>1. Len(<<>>) = 0
    OBVIOUS
  <2>2. ASSUME NEW b \in Boxes
        PROVE  /\ rec[b].generation = 0 /\ rec[b].owner_box = 0
               /\ rec[b].state = "UNOWNED"
               /\ rec[b].owner_epoch = cfg[b].owner_epoch
    <3>1. rec[b] = StartRecord(cfg[b].owner_epoch)
      BY <1>1
    <3>. QED
      BY <3>1, StartRecordFacts, Zenon
  <2>3. \A b \in Boxes : Len(link[b]) = 0
    BY <1>1, <2>1
  <2>. QED
    BY <2>2, <2>3
<1>3. Claims = 0
  BY <1>1, BoxFacts DEF Claims
<1>4. SimTypeOK
  <2>1. rec \in [Boxes -> Records]
    BY <1>1 DEF Init
  <2>2. <<>> \in Seq(Frames)
    OBVIOUS
  <2>3. /\ iter \in [Boxes -> 0 .. Iterations + 1] /\ claims_total \in [Boxes -> 0 .. Iterations]
        /\ claimed_once \in [Boxes -> BOOLEAN] /\ recv_total \in [Boxes -> Nat]
        /\ link \in [Boxes -> Seq(Frames)]
    BY <2>2, IterationsAssumption DEF Init
  <2>4. orderly \in BOOLEAN /\ claimant \in Owners
    BY DEF Init, Owners
  <2>. QED
    BY <1>1, <2>1, <2>3, <2>4 DEF SimTypeOK
<1>5. GenerationsAreClaimed
  BY <1>1, <1>2, <1>3 DEF GenerationsAreClaimed
<1>6. FramesFollowSender
  BY <1>2 DEF FramesFollowSender
<1>7. OwnersAreExplained
  BY <1>2, BoxFacts DEF OwnersAreExplained
<1>8. ClaimsGetThrough /\ BoxZeroGetsThrough
  BY <1>2, BoxFacts DEF ClaimsGetThrough, BoxZeroGetsThrough
<1>9. SameEpochs
  BY <1>2, BoxFacts DEF SameEpochs
<1>10. LastClaimStands
  BY <1>3 DEF LastClaimStands, Init
<1>. QED
  BY <1>4, <1>5, <1>6, <1>7, <1>8, <1>9, <1>10 DEF SimInv

(* The loop variable alone matters to no part but the types and counts.    *)
LEMMA OnlyIterationsPass ==
    ASSUME SimInv,
           cfg' = cfg, rec' = rec, claimed_once' = claimed_once,
           claims_total' = claims_total, recv_total' = recv_total, link' = link,
           orderly' = orderly, claimant' = claimant,
           iter' \in [Boxes -> 0 .. Iterations + 1],
           \A b \in Boxes : iter[b] <= iter'[b]
    PROVE  SimInv'
<1>1. /\ cfg' = cfg /\ rec' = rec /\ claimed_once' = claimed_once
      /\ claims_total' = claims_total /\ recv_total' = recv_total /\ link' = link
      /\ orderly' = orderly /\ claimant' = claimant
  OBVIOUS
<1>2. SimTypeOK /\ GenerationsAreClaimed
  BY DEF SimInv
<1>6. SimTypeOK'
  BY <1>1, <1>2 DEF SimTypeOK
<1>7. Claims' = Claims
  BY <1>1 DEF Claims
<1>8. ASSUME NEW x \in Boxes PROVE claims_total'[x] <= iter'[x]
  <2>1. claims_total[x] <= iter[x] /\ claims_total[x] \in Int /\ iter[x] \in Int
    BY <1>2, TypeFacts DEF GenerationsAreClaimed
  <2>2. iter[x] <= iter'[x] /\ iter'[x] \in Int
    OBVIOUS
  <2>. QED
    BY <1>1, <2>1, <2>2
<1>9. GenerationsAreClaimed'
  BY <1>1, <1>2, <1>7, <1>8 DEF GenerationsAreClaimed
<1>10. FramesFollowSender'
  BY <1>1, FollowersFollow, FollowersFollowNext DEF SimInv
<1>11. OwnersAreExplained'
  BY <1>1, ExplainedNow, ExplainedNext DEF SimInv
<1>12. \A x \in Boxes : Hears(x)' = Hears(x)
  BY <1>1 DEF Hears, Other
<1>13. ClaimsGetThrough' /\ BoxZeroGetsThrough'
  BY <1>1, <1>12, BoxFacts, ThroughNow, ThroughNext, ZeroThroughNow, ZeroThroughNext DEF SimInv
<1>14. SameEpochs'
  BY <1>1 DEF SimInv, SameEpochs
<1>15. LastClaimStands'
  BY <1>1, <1>7, <1>12 DEF SimInv, LastClaimStands, HoldsLocally
<1>. QED
  BY <1>6, <1>9, <1>10, <1>11, <1>13, <1>14, <1>15 DEF SimInv

LEMMA IdleChangesNothing ==
    ASSUME SimInv, NEW b \in Boxes, IterateIdle(b)
    PROVE  SimInv'
<1>1. /\ cfg' = cfg /\ rec' = rec /\ claimed_once' = claimed_once
      /\ claims_total' = claims_total /\ recv_total' = recv_total /\ link' = link
      /\ orderly' = orderly /\ claimant' = claimant
      /\ iter' = [iter EXCEPT ![b] = @ + 1] /\ iter[b] <= Iterations
  BY DEF IterateIdle
<1>2. SimTypeOK /\ GenerationsAreClaimed
  BY DEF SimInv
<1>3. iter \in [Boxes -> 0 .. Iterations + 1] /\ Iterations \in Nat
  BY <1>2, IterationsAssumption DEF SimTypeOK
<1>4. iter' \in [Boxes -> 0 .. Iterations + 1] /\ \A x \in Boxes : iter[x] <= iter'[x]
  BY <1>1, <1>3
<1>. QED
  BY <1>1, <1>4, OnlyIterationsPass

(***************************************************************************)
(* Every step of the two simulators keeps the invariant: no frame is ahead *)
(* of its sender, a receiver that keeps one of two frames in a row learns  *)
(* of every claim, and each box can account for the owner it holds.        *)
(***************************************************************************)
THEOREM SimulatorInvariant == NoWrap => (Spec => []SimInv)
<1>. SUFFICES ASSUME NoWrap PROVE Spec => []SimInv
  OBVIOUS
<1>1. Init => SimInv
  BY StartsRight
<1>2. SimInv /\ [Next]_vars => SimInv'
  <2>. SUFFICES ASSUME SimInv, [Next]_vars PROVE SimInv'
    OBVIOUS
  <2>1. /\ SimTypeOK /\ GenerationsAreClaimed /\ FramesFollowSender /\ OwnersAreExplained
        /\ ClaimsGetThrough /\ BoxZeroGetsThrough /\ SameEpochs /\ LastClaimStands
    BY DEF SimInv
  <2>2. ASSUME NEW b \in Boxes, IterateIdle(b) PROVE SimInv'
    BY <2>2, IdleChangesNothing
  <2>3. ASSUME NEW b \in Boxes, IterateClaim(b) PROVE SimInv'
    <3>1. Claiming(b)
      BY <2>1, <2>3, ClaimStep
    <3>2. SimTypeOK' /\ GenerationsAreClaimed' /\ FramesFollowSender'
      BY <2>1, <3>1, ClaimTyped, ClaimGenerations, ClaimFollowed
    <3>3. OwnersAreExplained' /\ ClaimsGetThrough' /\ BoxZeroGetsThrough'
      BY <2>1, <3>1, ClaimExplained, ClaimGetsThrough
    <3>4. SameEpochs' /\ LastClaimStands'
      BY <2>1, <3>1, ClaimKeepsEpochs, ClaimStands
    <3>. QED
      BY <3>2, <3>3, <3>4 DEF SimInv
  <2>4. ASSUME NEW b \in Boxes, Recv(b) PROVE SimInv'
    <3>1. Receiving(b)
      BY <2>1, <2>4, RecvStep
    <3>2. SimTypeOK' /\ GenerationsAreClaimed' /\ FramesFollowSender'
      BY <2>1, <3>1, RecvTyped, RecvGenerations, RecvFollowed
    <3>3. OwnersAreExplained' /\ ClaimsGetThrough' /\ BoxZeroGetsThrough'
      BY <2>1, <3>1, RecvExplained, RecvGetsThrough
    <3>4. SameEpochs' /\ LastClaimStands'
      BY <2>1, <3>1, RecvKeepsEpochs, RecvLeavesLastClaim
    <3>. QED
      BY <3>2, <3>3, <3>4 DEF SimInv
  <2>5. CASE UNCHANGED vars
    <3>1. /\ cfg' = cfg /\ rec' = rec /\ iter' = iter /\ claimed_once' = claimed_once
          /\ claims_total' = claims_total /\ recv_total' = recv_total /\ link' = link
          /\ orderly' = orderly /\ claimant' = claimant
      BY <2>5 DEF vars
    <3>2. iter \in [Boxes -> 0 .. Iterations + 1] /\ Iterations \in Nat
      BY <2>1, IterationsAssumption DEF SimTypeOK
    <3>3. \A b \in Boxes : iter[b] <= iter'[b]
      BY <3>1, <3>2
    <3>. QED
      BY <3>1, <3>2, <3>3, OnlyIterationsPass
  <2>. QED
    BY <2>2, <2>3, <2>4, <2>5 DEF Next
<1>. QED
  BY <1>1, <1>2, PTL DEF Spec

(* Every record, frame and counter of the two processes is in range.       *)
THEOREM SimTypeCorrect == NoWrap => (Spec => []SimTypeOK)
<1>1. SimInv => SimTypeOK
  BY DEF SimInv
<1>. QED
  BY <1>1, SimulatorInvariant, PTL

-----------------------------------------------------------------------------
LEMMA ComparableAgree ==
    ASSUME SimInv
    PROVE  RepeatingMakesUpForDrops
<1>. SUFFICES ASSUME Comparable
              PROVE  /\ rec[0].owner_epoch = rec[1].owner_epoch
                     /\ rec[0].generation = rec[1].generation
  BY DEF RepeatingMakesUpForDrops
<1>1. HasRank(rec[0]) /\ HasRank(rec[1])
  BY TypeFacts, BoxFacts DEF SimInv
<1>2. ASSUME NEW b \in Boxes, rec[b].generation > 0
      PROVE  ~Ahead(rec[b], rec[Other(b)])
  <2>1. Hears(Other(b)) /\ link[Other(b)] = <<>> /\ Other(Other(b)) = b /\ Other(b) \in Boxes
    BY BoxFacts DEF Comparable, Drained
  <2>2. Len(link[Other(b)]) = 0
    BY <2>1
  <2>. QED
    BY <1>2, <2>1, <2>2 DEF SimInv, ClaimsGetThrough
<1>3. /\ rec[0].generation > 0 => ~Ahead(rec[0], rec[1])
      /\ rec[1].generation > 0 => ~Ahead(rec[1], rec[0])
  BY <1>2, BoxFacts
<1>4. /\ ~(rec[0].generation = 0 /\ rec[0].owner_epoch > rec[1].owner_epoch)
      /\ ~(rec[1].generation = 0 /\ rec[1].owner_epoch > rec[0].owner_epoch)
  BY BoxFacts DEF Comparable, Newcomer
<1>. QED
  BY <1>1, <1>3, <1>4 DEF Ahead, HasRank

(* A receiver that drops every n-th frame, n > 1, still learns of every    *)
(* claim the peer sends more than once (--emit-dup, --drop-incoming-every).*)
THEOREM RepeatingMakesUp == NoWrap => (Spec => []RepeatingMakesUpForDrops)
<1>. SUFFICES ASSUME NoWrap PROVE Spec => []RepeatingMakesUpForDrops
  OBVIOUS
<1>. QED
  BY SimulatorInvariant, ComparableAgree, PTL

LEMMA SplitNeedsRepetition ==
    ASSUME SimInv
    PROVE  SplitsOnlyByRepetition
<1>. DEFINE r == rec[0]
            s == rec[1]
            d == cfg[1].emit_dup_count
<1>. SUFFICES ASSUME Comparable, r.owner_box # s.owner_box
              PROVE  /\ d > 0 /\ s.owner_box = 1 /\ s.state = "LOCAL"
                     /\ r.owner_box = 0 /\ r.state = "REMOTE"
  BY DEF SplitsOnlyByRepetition
<1>1. HasRank(r) /\ HasRank(s) /\ r \in Records /\ s \in Records
  BY TypeFacts, BoxFacts DEF SimInv
<1>2. /\ r.owner_box \in {0, 1} /\ s.owner_box \in {0, 1}
      /\ r.state \in {"UNOWNED", "LOCAL", "REMOTE"}
  BY <1>1, BoxFacts DEF Records, OwnershipState
<1>3. r.owner_epoch = s.owner_epoch /\ r.generation = s.generation
  BY ComparableAgree DEF RepeatingMakesUpForDrops
<1>4. Explained(r, s, d)
  BY ExplainedNow DEF SimInv
<1>5. r.state = "LOCAL" => ~Beats(r, s)
  <2>1. Hears(1) /\ Len(link[1]) = 0
    BY BoxFacts DEF Comparable, Drained
  <2>. QED
    BY <2>1 DEF SimInv, BoxZeroGetsThrough
<1>. HIDE DEF r, s, d
<1>6. r.generation > 0
  BY <1>1, <1>3, <1>4 DEF Explained, OwnerOf, HasRank
<1>7. ~(r.owner_box = 1 /\ s.owner_box = 0)
  BY <1>1, <1>3, <1>4, <1>6 DEF Explained, Beats, HasRank
<1>8. r.owner_box = 0 /\ s.owner_box = 1
  BY <1>2, <1>7
<1>9. r.state # "LOCAL" /\ r.state # "UNOWNED"
  BY <1>1, <1>3, <1>4, <1>5, <1>6, <1>8 DEF Explained, OwnerOf, Beats, HasRank
<1>. QED
  BY <1>2, <1>4, <1>8, <1>9 DEF Explained

(* Drained boxes that hold different owners: box 1 repeats its claims, and *)
(* box 0 took a repetition, which names box 0 as the owner, for a tie it   *)
(* must give in to.                                                        *)
THEOREM SplitsNeedRepetition == NoWrap => (Spec => []SplitsOnlyByRepetition)
<1>. SUFFICES ASSUME NoWrap PROVE Spec => []SplitsOnlyByRepetition
  OBVIOUS
<1>. QED
  BY SimulatorInvariant, SplitNeedsRepetition, PTL

LEMMA OrderlyClaimsCount ==
    ASSUME SimInv
    PROVE  TimelineHolds
<1>. SUFFICES ASSUME Comparable, orderly, cfg[0].owner_epoch = cfg[1].owner_epoch
              PROVE  /\ rec[0].generation = Claims
                     /\ claimant # Unowned => HoldsLocally(rec[claimant], claimant)
  BY DEF TimelineHolds, Claims
<1>1. rec[0].generation = rec[1].generation
  BY ComparableAgree DEF RepeatingMakesUpForDrops
<1>2. rec[0].generation \in Nat /\ rec[0].generation <= Claims /\ Claims \in Nat
  BY TypeFacts, BoxFacts DEF SimInv, GenerationsAreClaimed, HasRank
<1>3. LastClaimStands
  BY DEF SimInv
<1>4. CASE claimant = Unowned
  BY <1>2, <1>3, <1>4 DEF LastClaimStands
<1>5. CASE claimant # Unowned
  <2>1. /\ claimant \in Boxes /\ HoldsLocally(rec[claimant], claimant)
        /\ rec[claimant].generation = Claims
    BY <1>3, <1>5 DEF LastClaimStands, Comparable
  <2>2. claimant = 0 \/ claimant = 1
    BY <2>1, BoxFacts
  <2>. QED
    BY <1>1, <2>1, <2>2
<1>. QED
  BY <1>4, <1>5

(* As long as every claim is made with nothing under way, the generation   *)
(* counts the claims and the last claimant holds the subscriber.           *)
THEOREM OrderlyClaimsStand == NoWrap => (Spec => []TimelineHolds)
<1>. SUFFICES ASSUME NoWrap PROVE Spec => []TimelineHolds
  OBVIOUS
<1>. QED
  BY SimulatorInvariant, OrderlyClaimsCount, PTL
=============================================================================
