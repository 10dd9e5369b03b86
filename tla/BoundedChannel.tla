--------------------------- MODULE BoundedChannel ---------------------------
(***************************************************************************)
(* A channel that holds at most Capacity events: what it accepted comes    *)
(* out once, in the order it went in.  It may refuse an event only when it *)
(* is full.                                                                *)
(***************************************************************************)
EXTENDS Integers, Sequences

CONSTANTS Capacity, Events

VARIABLES
    accepted,   \* every event accepted so far
    received,   \* every event that has come out
    refused     \* how many events were refused

channelVars == <<accepted, received, refused>>

Waiting == Len(accepted) - Len(received)

ChannelInit == accepted = <<>> /\ received = <<>> /\ refused = 0

Accept(e) ==
    /\ Waiting < Capacity
    /\ accepted' = Append(accepted, e)
    /\ UNCHANGED <<received, refused>>

Refuse ==
    /\ Waiting = Capacity
    /\ refused' = refused + 1
    /\ UNCHANGED <<accepted, received>>

Release ==
    /\ Waiting > 0
    /\ received' = Append(received, accepted[Len(received) + 1])
    /\ UNCHANGED <<accepted, refused>>

ChannelNext == (\E e \in Events : Accept(e)) \/ Refuse \/ Release

ChannelSpec == ChannelInit /\ [][ChannelNext]_channelVars
=============================================================================
