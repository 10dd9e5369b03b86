----------------------------- MODULE RecordStore -----------------------------
(***************************************************************************)
(* What an ownership adapter does to ownership, without its table, rings   *)
(* and metrics: one record for every subscriber there is, each changed on  *)
(* its own by a claim, a misrouted packet or a frame that names it; only   *)
(* the peer's going down changes several, exactly those the peer owns.     *)
(* The adapter may also refuse to do anything.                             *)
(***************************************************************************)
EXTENDS SubownWire

CONSTANTS Subscribers, LocalBox, Threshold, Clock, PeerFrames, Births

VARIABLE store   \* store[s]: the record of subscriber s

StoreInit == store = Births

ClaimRecord(s, now) ==
    /\ store[s].owner_box = Unowned
    /\ store' = [store EXCEPT ![s] = Claimed(@, LocalBox, now)]

CountMisroute(s) ==
    /\ store[s].owner_box = Other(LocalBox)
    /\ store' = [store EXCEPT ![s] = Misrouted(@, Threshold)]

HearPeer(f) ==
    /\ Decodable(f)
    /\ store' = [store EXCEPT ![f.subscriber_id] = ApplyRemoteUpdate(@, Decode(f))]

LosePeer ==
    store' = [s \in Subscribers |->
                 IF store[s].owner_box = Other(LocalBox)
                 THEN [store[s] EXCEPT !.owner_box = Unowned, !.state = "UNOWNED",
                                       !.remote_packet_counter = 0]
                 ELSE store[s]]

StoreNext ==
    \/ \E s \in Subscribers : CountMisroute(s) \/ \E now \in Clock : ClaimRecord(s, now)
    \/ \E f \in PeerFrames : HearPeer(f)
    \/ LosePeer

StoreSpec == StoreInit /\ [][StoreNext]_store
=============================================================================
