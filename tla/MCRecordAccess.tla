--------------------------- MODULE MCRecordAccess ---------------------------
(* The claims of the peer for RecordAccess: two epochs, so that a frame can *)
(* be stale, tie, or win on each of the three grounds.                      *)
EXTENDS AccessInvariant

Announcements == [owner_epoch : {1, 2}, generation : {1, 2}, owner_box : {Peer},
                  activation_ts : {2}]
=============================================================================
