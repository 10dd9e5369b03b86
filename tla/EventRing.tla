------------------------------ MODULE EventRing ------------------------------
(***************************************************************************)
(* The event ring between workers and the control thread                   *)
(* (ownership_adapter_push_event, ownership_adapter_pop_event), one access *)
(* to the shared indices and slots per step: the workers push while the    *)
(* control thread pops, and nothing locks the ring.  The outbound ring has *)
(* the same form, with the claims of on_packet going in.                   *)
(*                                                                         *)
(* Memory is sequentially consistent here; the code's plain accesses leave *)
(* that to the platform.                                                   *)
(***************************************************************************)
EXTENDS Integers, Sequences

CONSTANTS
    Workers,     \* the threads that push
    Cap,         \* OWN_EVENT_Q_CAP, 2048 in the code
    Blank,       \* what calloc leaves in a slot
    MaxPushes    \* bound: pushes of a worker

ASSUME CapAssumption == Cap \in Nat \ {0}
ASSUME MaxPushesAssumption == MaxPushes \in Nat

\* The n-th event of worker w.
Events == Workers \X (1 .. MaxPushes)

ASSUME BlankAssumption == Blank \notin Events

VARIABLES
    q, q_head, q_tail,   \* the ring
    dropped,             \* own_worker_ring_drop_total
    pc,                  \* pc[w]: where worker w is in push_event
    n,                   \* n[w]: its local n, the index after q_tail as it was read
    pushes,              \* pushes[w]: calls of push_event by w
    popPc,               \* where the control thread is in pop_event
    evt,                 \* its *evt, the event copied out
    accepted,            \* events whose push returned 0, in that order (history)
    received             \* events whose pop returned them, in that order (history)

ringVars == <<q, q_head, q_tail>>
pushVars == <<pc, n, pushes>>
popVars == <<popPc, evt>>
vars == <<ringVars, dropped, pushVars, popVars, accepted, received>>

Indices == 0 .. Cap - 1
PushSteps == {"idle", "check", "write", "advance"}
PopSteps == {"idle", "copy", "advance"}

RingTypeOK ==
    /\ q \in [Indices -> Events \cup {Blank}]
    /\ q_head \in Indices /\ q_tail \in Indices
    /\ dropped \in Nat
    /\ pc \in [Workers -> PushSteps] /\ n \in [Workers -> Indices]
    /\ pushes \in [Workers -> 0 .. MaxPushes]
    /\ \A w \in Workers : pc[w] # "idle" => pushes[w] > 0
    /\ popPc \in PopSteps /\ evt \in Events \cup {Blank}
    /\ accepted \in Seq(Events) /\ received \in Seq(Events \cup {Blank})

Init ==
    /\ q = [i \in Indices |-> Blank] /\ q_head = 0 /\ q_tail = 0
    /\ dropped = 0
    /\ pc = [w \in Workers |-> "idle"] /\ n = [w \in Workers |-> 0]
    /\ pushes = [w \in Workers |-> 0]
    /\ popPc = "idle" /\ evt = Blank
    /\ accepted = <<>> /\ received = <<>>

\* Deviation: the index does not wrap.
next_idx_flat(i) == i + 1

next_idx(i) == (i + 1) % Cap

-----------------------------------------------------------------------------
(***************************************************************************)
(* ownership_adapter_push_event, by worker w.                              *)
(***************************************************************************)
PushRead(w) ==
    /\ pc[w] = "idle" /\ pushes[w] < MaxPushes
    /\ pushes' = [pushes EXCEPT ![w] = @ + 1]
    /\ n' = [n EXCEPT ![w] = next_idx(q_tail)]
    /\ pc' = [pc EXCEPT ![w] = "check"]
    /\ UNCHANGED <<ringVars, dropped, popVars, accepted, received>>

PushFull(w) ==
    /\ pc[w] = "check"
    /\ n[w] = q_head
    /\ dropped' = dropped + 1
    /\ pc' = [pc EXCEPT ![w] = "idle"]
    /\ UNCHANGED <<ringVars, n, pushes, popVars, accepted, received>>

\* Deviation: a full ring is not noticed.
PushFitsAlways(w) ==
    /\ pc[w] = "check"
    /\ pc' = [pc EXCEPT ![w] = "write"]
    /\ UNCHANGED <<ringVars, dropped, n, pushes, popVars, accepted, received>>

PushFits(w) ==
    /\ pc[w] = "check"
    /\ n[w] # q_head
    /\ pc' = [pc EXCEPT ![w] = "write"]
    /\ UNCHANGED <<ringVars, dropped, n, pushes, popVars, accepted, received>>

PushWrite(w) ==
    /\ pc[w] = "write"
    /\ q' = [q EXCEPT ![q_tail] = <<w, pushes[w]>>]
    /\ pc' = [pc EXCEPT ![w] = "advance"]
    /\ UNCHANGED <<q_head, q_tail, dropped, n, pushes, popVars, accepted, received>>

PushAdvance(w) ==
    /\ pc[w] = "advance"
    /\ q_tail' = n[w]
    /\ accepted' = Append(accepted, <<w, pushes[w]>>)
    /\ pc' = [pc EXCEPT ![w] = "idle"]
    /\ UNCHANGED <<q, q_head, dropped, n, pushes, popVars, received>>

Push(w) == PushRead(w) \/ PushFull(w) \/ PushFits(w) \/ PushWrite(w) \/ PushAdvance(w)

(***************************************************************************)
(* ownership_adapter_pop_event, by the control thread.  A poll of an empty *)
(* ring returns and changes nothing.                                       *)
(***************************************************************************)
\* Deviation: pop does not look whether there is an event.
PopCheckNothing ==
    /\ popPc = "idle"
    /\ popPc' = "copy"
    /\ UNCHANGED <<ringVars, dropped, pushVars, evt, accepted, received>>

PopCheck ==
    /\ popPc = "idle"
    /\ q_head # q_tail
    /\ popPc' = "copy"
    /\ UNCHANGED <<ringVars, dropped, pushVars, evt, accepted, received>>

PopCopy ==
    /\ popPc = "copy"
    /\ evt' = q[q_head]
    /\ popPc' = "advance"
    /\ UNCHANGED <<ringVars, dropped, pushVars, accepted, received>>

PopAdvance ==
    /\ popPc = "advance"
    /\ q_head' = next_idx(q_head)
    /\ received' = Append(received, evt)
    /\ popPc' = "idle"
    /\ UNCHANGED <<q, q_tail, dropped, pushVars, evt, accepted>>

Pop == PopCheck \/ PopCopy \/ PopAdvance

Next == (\E w \in Workers : Push(w)) \/ Pop

Spec == Init /\ [][Next]_vars

(***************************************************************************)
(* The control thread polls for as long as it runs, and a worker does not  *)
(* stop inside push_event.                                                 *)
(***************************************************************************)
FairSpec ==
    /\ Spec
    /\ WF_vars(Pop)
    /\ \A w \in Workers : WF_vars(pc[w] # "idle" /\ Push(w))

-----------------------------------------------------------------------------
(***************************************************************************)
(* With one worker the ring is a channel of Cap - 1 events: what a push    *)
(* took is popped once and in order, whatever the two threads do at the    *)
(* same time, and a push is refused, and counted, only when all those      *)
(* places are taken (ownership_adapter.c:332-340, 351-358).                *)
(***************************************************************************)
Channel == INSTANCE BoundedChannel WITH Capacity <- Cap - 1, refused <- dropped

ImplementsChannel == Channel!ChannelSpec

(***************************************************************************)
(* Why: the indices count the events accepted and received modulo Cap, the *)
(* slots between them hold the events not yet received, and a thread past  *)
(* its check can rely on what it saw, because the other thread only makes  *)
(* more room, or more events (inductive, for one worker).                  *)
(***************************************************************************)
IndicesCount ==
    /\ Len(received) <= Len(accepted) /\ Len(accepted) - Len(received) < Cap
    /\ q_head = Len(received) % Cap
    /\ q_tail = Len(accepted) % Cap

SlotsHoldWaiting ==
    \A i \in Len(received) .. Len(accepted) - 1 : q[i % Cap] = accepted[i + 1]

PushSawRoom ==
    \A w \in Workers :
        /\ pc[w] # "idle" => n[w] = (Len(accepted) + 1) % Cap
        /\ pc[w] \in {"write", "advance"} => Len(accepted) + 1 - Len(received) < Cap
        /\ pc[w] = "advance" => q[q_tail] = <<w, pushes[w]>>

PopSawEvent ==
    /\ popPc # "idle" => Len(received) < Len(accepted)
    /\ popPc = "advance" => evt = accepted[Len(received) + 1]

RingInv == RingTypeOK /\ IndicesCount /\ SlotsHoldWaiting /\ PushSawRoom /\ PopSawEvent

(***************************************************************************)
(* Every event a push took comes out in the end.                           *)
(***************************************************************************)
EventsArrive ==
    \A k \in 1 .. MaxPushes : (Len(accepted) >= k) ~> (Len(received) >= k)

(***************************************************************************)
(* An event is delivered, waits in the ring, or is counted as dropped, for *)
(* any number of workers: the "lockless MPSC" ring with "bounded capacity  *)
(* + drop counters" of ownership_adapter.md:121-122.                       *)
(***************************************************************************)
NoSilentDrop ==
    (popPc = "idle" /\ \A w \in Workers : pc[w] = "idle") =>
        Len(accepted) = Len(received) + ((q_tail + Cap - q_head) % Cap)
=============================================================================
