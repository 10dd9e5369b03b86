---------------------------- MODULE RolloutModes ----------------------------
(***************************************************************************)
(* The adapter of OwnershipAdapter, in any mode, and a second one in       *)
(* observe mode given the same calls in the same order.  Observe mode is   *)
(* how enforce mode is rolled out (ownership_adapter.md:146-149): it is of *)
(* use only if its counters tell what enforce mode would do.               *)
(***************************************************************************)
EXTENDS OwnershipAdapter

VARIABLES  \* the second adapter, in observe mode
    seenTable, seenEvents, seenOutbound, seenMetrics, seenResult, seenClaims,
    seenFlushed, seenPopped, seenDirect, seenRefused

adapterVars == <<table, events, outbound, metrics, result, claims, flushed, popped,
                 direct, refused>>
observeVars == <<seenTable, seenEvents, seenOutbound, seenMetrics, seenResult,
                 seenClaims, seenFlushed, seenPopped, seenDirect, seenRefused>>

Observe == INSTANCE OwnershipAdapter WITH
               mode <- "OBSERVE", table <- seenTable, events <- seenEvents,
               outbound <- seenOutbound, metrics <- seenMetrics,
               result <- seenResult, claims <- seenClaims,
               flushed <- seenFlushed, popped <- seenPopped,
               direct <- seenDirect, refused <- seenRefused

RolloutInit == Init /\ Observe!Init

\* The control thread polls both rings; either may be empty.
PopEvents ==
    /\ events # <<>> \/ seenEvents # <<>>
    /\ IF events = <<>> THEN UNCHANGED adapterVars ELSE PopEvent
    /\ IF seenEvents = <<>> THEN UNCHANGED observeVars ELSE Observe!PopEvent

\* A disabled adapter may have nothing to flush when the other has.
FlushBoth ==
    /\ outbound # <<>> \/ seenOutbound # <<>>
    /\ IF outbound = <<>> THEN UNCHANGED adapterVars ELSE FlushOutbound
    /\ IF seenOutbound = <<>> THEN UNCHANGED observeVars ELSE Observe!FlushOutbound

RolloutNext ==
    /\ calls < MaxCalls
    /\ calls' = calls + 1
    /\ UNCHANGED mode
    /\ \/ \E s \in Subscribers : \E now \in Clock :
              OnPacket(s, now) /\ Observe!OnPacket(s, now)
       \/ \E f \in PeerFrames : OnRemoteMsg(f) /\ Observe!OnRemoteMsg(f)
       \/ OnPeerDown /\ Observe!OnPeerDown
       \/ \E e \in DirectEvents : PushDirect(e) /\ Observe!PushDirect(e)
       \/ PopEvents
       \/ FlushBoth

RolloutSpec == RolloutInit /\ [][RolloutNext]_<<vars, observeVars>>

-----------------------------------------------------------------------------
(***************************************************************************)
(* The adapter in observe mode keeps the same records, stages the same     *)
(* claims and counts the same conflicts, drops, errors and migration       *)
(* triggers as the one in enforce mode, refuses the same packets and       *)
(* steers none, although its ring also carries misroute events and so      *)
(* fills up and drops sooner (ownership_adapter.md:44-48,                  *)
(* ownership_adapter.c:189-219).                                           *)
(***************************************************************************)
ObservePredictsEnforce ==
    mode = "ENFORCE" =>
        /\ seenTable = table
        /\ seenOutbound = outbound
        /\ \A m \in Metrics \ {"own_worker_events_total", "own_worker_ring_drop_total"} :
               seenMetrics[m] = metrics[m]
        /\ seenResult.rc = result.rc
        /\ seenResult.action \in {"NOOP", "PROCESS_LOCAL"}
=============================================================================
