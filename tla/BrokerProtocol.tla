--------------------------- MODULE BrokerProtocol ---------------------------
(***************************************************************************)
(* The vocabulary of the broker protocol, shared by Broker and Node: the    *)
(* per-sender packet counter, the two kinds of packets and the control      *)
(* requests and responses they carry.  A JSON document is the record of its *)
(* members; "scope" and "action" become the member op.  Byte layout and     *)
(* length fields are left out.                                              *)
(***************************************************************************)
EXTENDS Integers, Sequences

CONSTANT CounterMod   \* number of values of a BpCounter, 2^32 in the code

ASSUME CounterModAssumption == CounterMod \in Nat \ {0, 1}

BpCounter == 0 .. (CounterMod - 1)

\* uint32_t arithmetic: the counter wraps around.
NextCounter(c) == (c + 1) % CounterMod

dontcare_topic_priority == -101

ControlPacket(counter, json) ==
  [type |-> "Control", counter |-> counter, json |-> json]

DataPacket(counter, topic_id, message_type_id, payload) ==
  [type |-> "Data", counter |-> counter, topic_id |-> topic_id,
   message_type_id |-> message_type_id, payload |-> payload]

RegisterNodeRequest(rpc_id, name) ==
  [op |-> "register_node", rpc_id |-> rpc_id, name |-> name]

RegisterMessageTypeRequest(rpc_id, name, size) ==
  [op |-> "register_message_type", rpc_id |-> rpc_id, name |-> name, size |-> size]

RegisterTopicRequest(rpc_id, name, message_type_id, priority) ==
  [op |-> "register_topic", rpc_id |-> rpc_id, name |-> name,
   message_type_id |-> message_type_id, priority |-> priority]

\* op is "add_publisher" or "add_subscriber".
AddEndpointRequest(op, rpc_id, node_id, topic_id, message_type_id) ==
  [op |-> op, rpc_id |-> rpc_id, node_id |-> node_id, topic_id |-> topic_id,
   message_type_id |-> message_type_id]

\* The document json{}; its empty() is true.
NullJson == [op |-> "null"]

rpc_failure_response(rpc_id) == [rpc_id |-> rpc_id, success |-> FALSE]
=============================================================================
