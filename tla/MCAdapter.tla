------------------------------ MODULE MCAdapter ------------------------------
(* Values for model-checking RolloutModes that a .cfg cannot write.        *)
EXTENDS RolloutModes

\* Ids 0 and 2 share their first slot when the table has two.
Frame(h, s, e, g) ==
    [header |-> h, subscriber_id |-> s, generation |-> g, owner_box |-> Peer,
     activation_ts |-> 1, owner_epoch |-> e]

\* The peer's claims for two of the subscribers, and one garbled frame.
PeerClaims ==
    {Frame("V1", s, 1, g) : s \in {0, 2}, g \in {1, 2}}
        \cup {Frame("V1", 0, 2, 1), Frame("bad", 0, 1, 1)}

\* What is pushed directly: an event on_packet pushes too, in every mode.
DirectPushes == {[subscriber_id |-> 1, event_type |-> "MIGRATION_HINT"]}
=============================================================================
