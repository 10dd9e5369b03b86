----------------------------- MODULE SubownWire -----------------------------
(***************************************************************************)
(* The V1 wire frame of adapters/zmq/subown_zmq_adapter.c: what the 40     *)
(* bytes carry, not their layout.  `header' stands for magic, version and  *)
(* frame length together: "V1" when all three are right, anything else     *)
(* when one is not.                                                        *)
(***************************************************************************)
EXTENDS Subown

Encode(u) ==
    [header        |-> "V1",
     subscriber_id |-> u.subscriber_id,
     generation    |-> u.generation,
     owner_box     |-> IF u.owner_box \in Owners THEN u.owner_box
                       ELSE u.owner_box_id % 256,
     activation_ts |-> NormalizeTs(u.activation_ts, u.timestamp),
     owner_epoch   |-> u.owner_epoch]

\* Deviation: the owner check of the decoder stops one short.
DecodableBox0Only(f) == f.header = "V1" /\ f.owner_box < 1

Decodable(f) == f.header = "V1" /\ f.owner_box \in Owners

Decode(f) ==
    [msg_version   |-> 1,
     subscriber_id |-> f.subscriber_id,
     generation    |-> f.generation,
     owner_box     |-> f.owner_box,
     owner_box_id  |-> f.owner_box,
     activation_ts |-> f.activation_ts,
     timestamp     |-> f.activation_ts,
     owner_epoch   |-> f.owner_epoch]
=============================================================================
