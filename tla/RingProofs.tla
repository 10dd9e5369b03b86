------------------------------ MODULE RingProofs ------------------------------
(***************************************************************************)
(* With one worker the event ring is a bounded channel, for every capacity *)
(* and any number of pushes.                                               *)
(***************************************************************************)
EXTENDS EventRing, NumberFacts

SingleWorker == \E w : Workers = {w}

(***************************************************************************)
(* The ring in numbers: with fewer than Cap events waiting, events of      *)
(* different waiting positions lie in different slots, and one more fits   *)
(* exactly if the index after the tail is not the head.                    *)
(***************************************************************************)
LEMMA RingArithmetic ==
    ASSUME NEW a \in Nat, NEW r \in Nat, r <= a, a - r < Cap
    PROVE  /\ a % Cap \in Indices
           /\ next_idx(a % Cap) = (a + 1) % Cap
           /\ (a + 1) % Cap = r % Cap <=> a + 1 - r = Cap
           /\ a % Cap = r % Cap <=> a = r
           /\ a + 1 - r < Cap => \A i \in r .. a - 1 : i % Cap # a % Cap
<1>1. a % Cap \in Indices /\ next_idx(a % Cap) = (a + 1) % Cap
  BY CapAssumption, NextRemainder DEF Indices, next_idx
<1>2. a % Cap = r % Cap => a = r
  BY CapAssumption, CloseRemainders
<1>3. (a + 1) % Cap = r % Cap => a + 1 - r = Cap
  <2>. SUFFICES ASSUME (a + 1) % Cap = r % Cap, a + 1 - r < Cap PROVE FALSE
    BY CapAssumption
  <2>. DEFINE e == a + 1
  <2>1. e \in Nat /\ r <= e /\ e - r < Cap /\ r % Cap = e % Cap /\ r # e
    BY CapAssumption
  <2>. HIDE DEF e
  <2>. QED
    BY <2>1, CapAssumption, CloseRemainders
<1>4. a + 1 - r = Cap => (a + 1) % Cap = r % Cap
  <2>. SUFFICES ASSUME a + 1 - r = Cap PROVE (a + 1) % Cap = r % Cap
    OBVIOUS
  <2>. DEFINE d == r \div Cap
              m == r % Cap
  <2>1. d \in Int /\ m \in 0 .. Cap - 1 /\ r = Cap * d + m
    BY CapAssumption
  <2>. HIDE DEF d, m
  <2>. DEFINE e == d + 1
  <2>2. e \in Int /\ a + 1 = Cap * e + m
    BY <2>1, CapAssumption
  <2>. HIDE DEF e
  <2>3. (Cap * e + m) % Cap = m
    BY <2>1, <2>2, CapAssumption, RemainderUnique
  <2>. QED
    BY <2>2, <2>3, Zenon DEF m
<1>5. ASSUME a + 1 - r < Cap, NEW i \in r .. a - 1
      PROVE  i % Cap # a % Cap
  <2>1. i \in Nat /\ i <= a /\ a - i < Cap /\ i # a
    BY <1>5, CapAssumption
  <2>. QED
    BY <2>1, CapAssumption, CloseRemainders
<1>. QED
  BY <1>1, <1>2, <1>3, <1>4, <1>5

(***************************************************************************)
(* The invariant: initially, and across each step of either thread.        *)
(***************************************************************************)
LEMMA InitRing == Init => RingInv
<1>. SUFFICES ASSUME Init PROVE RingInv
  OBVIOUS
<1>1. 0 % Cap = 0
  <2>1. (Cap * 0 + 0) % Cap = 0
    BY CapAssumption, RemainderUnique
  <2>2. Cap * 0 + 0 = 0
    BY CapAssumption
  <2>. QED
    BY <2>1, <2>2
<1>2. Len(accepted) = 0 /\ Len(received) = 0
  BY DEF Init
<1>3. RingTypeOK
  BY CapAssumption, MaxPushesAssumption
  DEF Init, RingTypeOK, Indices, PushSteps, PopSteps
<1>4. IndicesCount
  BY <1>1, <1>2, CapAssumption DEF Init, IndicesCount
<1>5. SlotsHoldWaiting
  BY <1>2 DEF SlotsHoldWaiting
<1>6. PushSawRoom /\ PopSawEvent
  BY DEF Init, PushSawRoom, PopSawEvent
<1>. QED
  BY <1>3, <1>4, <1>5, <1>6 DEF RingInv

(* What the invariant says of the present state, in one place.             *)
LEMMA RingFacts ==
    ASSUME RingInv
    PROVE  /\ Len(accepted) \in Nat /\ Len(received) \in Nat
           /\ Len(received) <= Len(accepted) /\ Len(accepted) - Len(received) < Cap
           /\ q_head = Len(received) % Cap /\ q_tail = Len(accepted) % Cap
           /\ accepted \in Seq(Events) /\ received \in Seq(Events \cup {Blank})
           /\ q \in [Indices -> Events \cup {Blank}]
           /\ \A w \in Workers : pc[w] # "idle" => <<w, pushes[w]>> \in Events
<1>1. \A w \in Workers : pc[w] # "idle" => pushes[w] \in 1 .. MaxPushes
  BY MaxPushesAssumption DEF RingInv, RingTypeOK
<1>. QED
  BY <1>1 DEF RingInv, RingTypeOK, IndicesCount, Events

LEMMA PushReadPreserves ==
    ASSUME RingInv, SingleWorker, NEW w \in Workers, PushRead(w)
    PROVE  RingInv'
<1>1. Workers = {w}
  BY DEF SingleWorker
<1>2. n' = [n EXCEPT ![w] = (Len(accepted) + 1) % Cap] /\ next_idx(q_tail) \in Indices
  <2>1. next_idx(q_tail) = (Len(accepted) + 1) % Cap
    BY RingFacts, RingArithmetic
  <2>2. next_idx(q_tail) \in Indices
    BY RingFacts, CapAssumption DEF next_idx, Indices
  <2>. QED
    BY <2>1, <2>2 DEF PushRead
<1>3. /\ pc' = [pc EXCEPT ![w] = "check"] /\ pushes' = [pushes EXCEPT ![w] = @ + 1]
      /\ pushes[w] < MaxPushes
      /\ UNCHANGED <<q, q_head, q_tail, dropped, popPc, evt, accepted, received>>
  BY DEF PushRead, ringVars, popVars
<1>4. RingTypeOK'
  BY <1>1, <1>2, <1>3, MaxPushesAssumption DEF RingInv, RingTypeOK, PushSteps, PushRead
<1>5. IndicesCount' /\ SlotsHoldWaiting' /\ PopSawEvent'
  BY <1>3 DEF RingInv, IndicesCount, SlotsHoldWaiting, PopSawEvent
<1>6. PushSawRoom'
  BY <1>1, <1>2, <1>3 DEF RingInv, RingTypeOK, PushSawRoom
<1>. QED
  BY <1>4, <1>5, <1>6 DEF RingInv

LEMMA PushCheckPreserves ==
    ASSUME RingInv, SingleWorker, NEW w \in Workers, PushFull(w) \/ PushFits(w)
    PROVE  RingInv'
<1>1. Workers = {w}
  BY DEF SingleWorker
<1>2. /\ pc[w] = "check"
      /\ UNCHANGED <<q, q_head, q_tail, n, pushes, popPc, evt, accepted, received>>
      /\ dropped' \in Nat
  BY DEF PushFull, PushFits, ringVars, popVars, RingInv, RingTypeOK
<1>3. \/ pc' = [pc EXCEPT ![w] = "idle"]
      \/ /\ pc' = [pc EXCEPT ![w] = "write"]
         /\ Len(accepted) + 1 - Len(received) < Cap
  <2>1. CASE PushFull(w)
    BY <2>1 DEF PushFull
  <2>2. CASE PushFits(w)
    <3>1. n[w] = (Len(accepted) + 1) % Cap
      BY <1>2 DEF RingInv, PushSawRoom
    <3>2. (Len(accepted) + 1) % Cap # Len(received) % Cap
      BY <2>2, <3>1, RingFacts DEF PushFits
    <3>3. Len(accepted) + 1 - Len(received) # Cap
      BY <3>2, RingFacts, RingArithmetic
    <3>. QED
      BY <2>2, <3>3, RingFacts, CapAssumption DEF PushFits
  <2>. QED
    BY <2>1, <2>2
<1>4. RingTypeOK'
  BY <1>1, <1>2, <1>3 DEF RingInv, RingTypeOK, PushSteps
<1>5. IndicesCount' /\ SlotsHoldWaiting' /\ PopSawEvent'
  BY <1>2 DEF RingInv, IndicesCount, SlotsHoldWaiting, PopSawEvent
<1>6. PushSawRoom'
  BY <1>1, <1>2, <1>3 DEF RingInv, RingTypeOK, PushSawRoom
<1>. QED
  BY <1>4, <1>5, <1>6 DEF RingInv

LEMMA PushWritePreserves ==
    ASSUME RingInv, SingleWorker, NEW w \in Workers, PushWrite(w)
    PROVE  RingInv'
<1>1. Workers = {w}
  BY DEF SingleWorker
<1>. DEFINE e == <<w, pushes[w]>>
<1>2. /\ pc[w] = "write" /\ pc' = [pc EXCEPT ![w] = "advance"]
      /\ q' = [q EXCEPT ![q_tail] = e]
      /\ UNCHANGED <<q_head, q_tail, dropped, n, pushes, popPc, evt, accepted, received>>
  BY DEF PushWrite, popVars
<1>3. e \in Events /\ q_tail \in Indices
  BY <1>2, RingFacts DEF RingInv, RingTypeOK
<1>. HIDE DEF e
<1>4. RingTypeOK'
  BY <1>1, <1>2, <1>3 DEF RingInv, RingTypeOK, PushSteps
<1>5. IndicesCount' /\ PopSawEvent'
  BY <1>2 DEF RingInv, IndicesCount, PopSawEvent
<1>6. Len(accepted) + 1 - Len(received) < Cap
  BY <1>2 DEF RingInv, PushSawRoom
<1>7. \A i \in Len(received) .. Len(accepted) - 1 : i % Cap # q_tail
  BY <1>6, RingFacts, RingArithmetic
<1>8. SlotsHoldWaiting'
  <2>. SUFFICES ASSUME NEW i \in Len(received) .. Len(accepted) - 1
                PROVE  q'[i % Cap] = accepted[i + 1]
    BY <1>2 DEF SlotsHoldWaiting
  <2>1. i % Cap # q_tail /\ q[i % Cap] = accepted[i + 1]
    BY <1>7 DEF RingInv, SlotsHoldWaiting
  <2>2. i % Cap \in Indices
    BY CapAssumption, RingFacts DEF Indices
  <2>. QED
    BY <1>2, <2>1, <2>2, RingFacts
<1>9. PushSawRoom'
  <2>1. q'[q_tail] = e
    BY <1>2, <1>3, RingFacts
  <2>. QED
    BY <1>1, <1>2, <1>6, <2>1 DEF RingInv, RingTypeOK, PushSawRoom, e
<1>. QED
  BY <1>4, <1>5, <1>8, <1>9 DEF RingInv

LEMMA PushAdvancePreserves ==
    ASSUME RingInv, SingleWorker, NEW w \in Workers, PushAdvance(w)
    PROVE  RingInv'
<1>1. Workers = {w}
  BY DEF SingleWorker
<1>. DEFINE e == <<w, pushes[w]>>
<1>2. /\ pc[w] = "advance" /\ pc' = [pc EXCEPT ![w] = "idle"]
      /\ q_tail' = n[w] /\ accepted' = Append(accepted, e)
      /\ UNCHANGED <<q, q_head, dropped, n, pushes, popPc, evt, received>>
  BY DEF PushAdvance, popVars
<1>3. /\ e \in Events /\ q[q_tail] = e
      /\ n[w] = (Len(accepted) + 1) % Cap
      /\ Len(accepted) + 1 - Len(received) < Cap
  BY <1>2, RingFacts DEF RingInv, PushSawRoom
<1>. HIDE DEF e
<1>4. /\ Len(accepted') = Len(accepted) + 1
      /\ accepted' \in Seq(Events)
      /\ accepted'[Len(accepted) + 1] = e
      /\ \A i \in 1 .. Len(accepted) : accepted'[i] = accepted[i]
  BY <1>2, <1>3, RingFacts
<1>5. RingTypeOK'
  BY <1>1, <1>2, <1>4 DEF RingInv, RingTypeOK, PushSteps
<1>6. IndicesCount'
  BY <1>2, <1>3, <1>4, RingFacts DEF RingInv, IndicesCount
<1>7. SlotsHoldWaiting'
  <2>0. Len(received') .. Len(accepted') - 1 = Len(received) .. Len(accepted)
    <3>1. Len(accepted') - 1 = Len(accepted) /\ received' = received
      BY <1>2, <1>4, RingFacts
    <3>. QED
      BY <3>1, Zenon
  <2>. SUFFICES ASSUME NEW i \in Len(received) .. Len(accepted)
                PROVE  q'[i % Cap] = accepted'[i + 1]
    BY <2>0, Zenon DEF SlotsHoldWaiting
  <2>1. CASE i = Len(accepted)
    BY <1>2, <1>3, <1>4, <2>1, RingFacts
  <2>2. CASE i # Len(accepted)
    <3>1. i \in Len(received) .. Len(accepted) - 1 /\ i + 1 \in 1 .. Len(accepted)
      BY <2>2, RingFacts
    <3>. QED
      BY <1>2, <1>4, <3>1 DEF RingInv, SlotsHoldWaiting
  <2>. QED
    BY <2>1, <2>2
<1>8. PushSawRoom'
  BY <1>1, <1>2 DEF RingInv, RingTypeOK, PushSawRoom
<1>9. PopSawEvent'
  <2>1. Len(received) < Len(accepted) => Len(received) + 1 \in 1 .. Len(accepted)
    BY RingFacts
  <2>. QED
    BY <1>2, <1>4, <2>1, RingFacts DEF RingInv, PopSawEvent
<1>. QED
  BY <1>5, <1>6, <1>7, <1>8, <1>9 DEF RingInv

LEMMA PopPreserves ==
    ASSUME RingInv, Pop
    PROVE  RingInv'
<1>1. CASE PopCheck
  <2>1. /\ popPc' = "copy" /\ q_head # q_tail
        /\ UNCHANGED <<q, q_head, q_tail, dropped, pc, n, pushes, evt, accepted, received>>
    BY <1>1 DEF PopCheck, ringVars, pushVars
  <2>2. Len(received) < Len(accepted)
    BY <2>1, RingFacts, RingArithmetic
  <2>. QED
    BY <2>1, <2>2
    DEF RingInv, RingTypeOK, PopSteps, IndicesCount, SlotsHoldWaiting, PushSawRoom, PopSawEvent
<1>2. CASE PopCopy
  <2>1. /\ popPc = "copy" /\ popPc' = "advance" /\ evt' = q[q_head]
        /\ UNCHANGED <<q, q_head, q_tail, dropped, pc, n, pushes, accepted, received>>
    BY <1>2 DEF PopCopy, ringVars, pushVars
  <2>2. Len(received) < Len(accepted) /\ evt' = accepted[Len(received) + 1]
    <3>1. Len(received) < Len(accepted)
      BY <2>1 DEF RingInv, PopSawEvent
    <3>2. Len(received) \in Len(received) .. Len(accepted) - 1
      BY <3>1, RingFacts
    <3>. QED
      BY <2>1, <3>1, <3>2, RingFacts DEF RingInv, SlotsHoldWaiting
  <2>3. RingTypeOK'
    BY <2>1 DEF RingInv, RingTypeOK, PopSteps
  <2>. QED
    BY <2>1, <2>2, <2>3
    DEF RingInv, IndicesCount, SlotsHoldWaiting, PushSawRoom, PopSawEvent
<1>3. CASE PopAdvance
  <2>1. /\ popPc = "advance" /\ popPc' = "idle" /\ q_head' = next_idx(q_head)
        /\ received' = Append(received, evt)
        /\ UNCHANGED <<q, q_tail, dropped, pc, n, pushes, evt, accepted>>
    BY <1>3 DEF PopAdvance, pushVars
  <2>2. Len(received) < Len(accepted) /\ evt \in Events \cup {Blank}
    BY <2>1 DEF RingInv, RingTypeOK, PopSawEvent
  <2>3. /\ Len(received') = Len(received) + 1
        /\ received' \in Seq(Events \cup {Blank})
    BY <2>1, <2>2, RingFacts
  <2>4. next_idx(q_head) = (Len(received) + 1) % Cap /\ next_idx(q_head) \in Indices
    <3>1. next_idx(q_head) = ((Len(received) % Cap) + 1) % Cap
      BY RingFacts DEF next_idx
    <3>2. next_idx(q_head) = (Len(received) + 1) % Cap
      BY <3>1, RingFacts, CapAssumption, NextRemainder
    <3>3. Len(received) + 1 \in Nat
      BY RingFacts
    <3>4. (Len(received) + 1) % Cap \in 0 .. Cap - 1
      BY <3>3, CapAssumption, NextRemainder
    <3>. QED
      BY <3>2, <3>4 DEF Indices
  <2>5. RingTypeOK'
    BY <2>1, <2>3, <2>4 DEF RingInv, RingTypeOK, PopSteps
  <2>6. IndicesCount'
    <3>1. /\ Len(received) + 1 <= Len(accepted)
          /\ Len(accepted) - (Len(received) + 1) < Cap
      BY <2>2, RingFacts, CapAssumption
    <3>. QED
      BY <2>1, <2>3, <2>4, <3>1, RingFacts DEF IndicesCount
  <2>7. SlotsHoldWaiting'
    <3>1. \A i \in Len(received) + 1 .. Len(accepted) - 1 :
              i \in Len(received) .. Len(accepted) - 1
      BY RingFacts
    <3>. QED
      BY <2>1, <2>3, <3>1 DEF RingInv, SlotsHoldWaiting
  <2>8. PushSawRoom'
    <3>1. Len(accepted) + 1 - Len(received) < Cap =>
              Len(accepted) + 1 - (Len(received) + 1) < Cap
      BY RingFacts, CapAssumption
    <3>. QED
      BY <2>1, <2>3, <3>1 DEF RingInv, PushSawRoom
  <2>9. PopSawEvent'
    BY <2>1 DEF PopSawEvent
  <2>. QED
    BY <2>5, <2>6, <2>7, <2>8, <2>9 DEF RingInv
<1>. QED
  BY <1>1, <1>2, <1>3 DEF Pop

(***************************************************************************)
(* The indices, the slots and what each thread knows of them stay in       *)
(* step, whatever the capacity of the ring.                                *)
(***************************************************************************)
THEOREM RingInvariant == SingleWorker => (Spec => []RingInv)
<1>. SUFFICES ASSUME SingleWorker PROVE Spec => []RingInv
  OBVIOUS
<1>1. RingInv /\ [Next]_vars => RingInv'
  <2>. SUFFICES ASSUME RingInv, [Next]_vars PROVE RingInv'
    OBVIOUS
  <2>1. CASE UNCHANGED vars
    BY <2>1
    DEF vars, ringVars, pushVars, popVars, RingInv, RingTypeOK, IndicesCount,
        SlotsHoldWaiting, PushSawRoom, PopSawEvent
  <2>2. ASSUME NEW w \in Workers, Push(w) PROVE RingInv'
    BY <2>2, PushReadPreserves, PushCheckPreserves, PushWritePreserves,
       PushAdvancePreserves DEF Push
  <2>. QED
    BY <2>1, <2>2, PopPreserves DEF Next
<1>. QED
  BY <1>1, InitRing, PTL DEF Spec

(***************************************************************************)
(* Each step of the ring is a step of the channel, or invisible: PushFull  *)
(* refuses, PushAdvance accepts, PopAdvance releases.                      *)
(***************************************************************************)
LEMMA PushIsChannelStep ==
    ASSUME RingInv, NEW w \in Workers, Push(w)
    PROVE  Channel!ChannelNext \/ UNCHANGED <<accepted, received, dropped>>
<1>1. CASE PushFull(w)
  <2>1. n[w] = (Len(accepted) + 1) % Cap
    BY <1>1 DEF PushFull, RingInv, PushSawRoom
  <2>2. Len(accepted) + 1 - Len(received) = Cap
    <3>1. (Len(accepted) + 1) % Cap = Len(received) % Cap
      BY <1>1, <2>1, RingFacts DEF PushFull
    <3>. QED
      BY <3>1, RingFacts, RingArithmetic
  <2>3. Len(accepted) - Len(received) = Cap - 1
    BY <2>2, RingFacts, CapAssumption
  <2>. QED
    BY <1>1, <2>3 DEF PushFull, Channel!ChannelNext, Channel!Refuse, Channel!Waiting
<1>2. CASE PushAdvance(w)
  <2>1. <<w, pushes[w]>> \in Events
    BY <1>2, RingFacts DEF PushAdvance
  <2>2. Len(accepted) - Len(received) < Cap - 1
    <3>1. Len(accepted) + 1 - Len(received) < Cap
      BY <1>2 DEF PushAdvance, RingInv, PushSawRoom
    <3>. QED
      BY <3>1, RingFacts, CapAssumption
  <2>. QED
    BY <1>2, <2>1, <2>2
    DEF PushAdvance, Channel!ChannelNext, Channel!Accept, Channel!Waiting
<1>3. CASE PushRead(w) \/ PushFits(w) \/ PushWrite(w)
  BY <1>3 DEF PushRead, PushFits, PushWrite
<1>. QED
  BY <1>1, <1>2, <1>3 DEF Push

LEMMA PopIsChannelStep ==
    ASSUME RingInv, Pop
    PROVE  Channel!ChannelNext \/ UNCHANGED <<accepted, received, dropped>>
<1>1. CASE PopAdvance
  <2>1. Len(received) < Len(accepted) /\ evt = accepted[Len(received) + 1]
    BY <1>1 DEF PopAdvance, RingInv, PopSawEvent
  <2>2. Len(accepted) - Len(received) > 0
    BY <2>1, RingFacts
  <2>. QED
    BY <1>1, <2>1, <2>2
    DEF PopAdvance, Channel!ChannelNext, Channel!Release, Channel!Waiting
<1>2. CASE PopCheck \/ PopCopy
  BY <1>2 DEF PopCheck, PopCopy
<1>. QED
  BY <1>1, <1>2 DEF Pop

(***************************************************************************)
(* One worker and the control thread share the ring without a lock and     *)
(* without harm: for every capacity it implements the bounded channel of   *)
(* one place less (ownership_adapter_push_event, ..._pop_event).           *)
(***************************************************************************)
THEOREM RingIsChannel == SingleWorker => (Spec => ImplementsChannel)
<1>. SUFFICES ASSUME SingleWorker PROVE Spec => ImplementsChannel
  OBVIOUS
<1>1. Init => Channel!ChannelInit
  BY DEF Init, Channel!ChannelInit
<1>2. RingInv /\ [Next]_vars => [Channel!ChannelNext]_<<accepted, received, dropped>>
  <2>. SUFFICES ASSUME RingInv, [Next]_vars
                PROVE  Channel!ChannelNext \/ UNCHANGED <<accepted, received, dropped>>
    OBVIOUS
  <2>1. CASE UNCHANGED vars
    BY <2>1 DEF vars
  <2>. QED
    BY <2>1, PushIsChannelStep, PopIsChannelStep DEF Next
<1>. QED
  BY <1>1, <1>2, RingInvariant, PTL
  DEF Spec, ImplementsChannel, Channel!ChannelSpec, Channel!channelVars
=============================================================================
