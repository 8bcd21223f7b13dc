------------------------------- MODULE Broker -------------------------------
(***************************************************************************)
(* crps::Broker.  One iteration of Broker::spin() is one step: a packet p   *)
(* from client address c is received, its counter verified, and the packet  *)
(* handled to the end, the sends included.  The environment is any          *)
(* datagram from any client, so lost, duplicated, delayed and reordered     *)
(* packets are all included, and so are packets of nodes that outlived an   *)
(* earlier broker process and use identifiers it handed out.                *)
(*                                                                         *)
(* Identifiers are indexes into the registry's vectors, from 0.             *)
(***************************************************************************)
EXTENDS BrokerProtocol

CONSTANTS
  Address,        \* client addresses, HOST:PORT
  NodeName, TypeName, TopicName,
  MessageSize, TopicPriority,
  Payload,        \* bodies of data packets
  Id,             \* identifiers that occur in packets
  RpcId,          \* rpc_id values that occur in requests
  MaxEndpoints    \* bound on the publishers and on the subscribers of a topic

ASSUME IdAssumption == Id \subseteq Nat
ASSUME PriorityAssumption == TopicPriority \subseteq Int
ASSUME MaxEndpointsAssumption == MaxEndpoints \in Nat

VARIABLES
  m_client_counters,  \* last counter accepted from each client
  m_nodes,            \* index is BpNodeId
  m_message_types,    \* index is MessageTypeId
  m_topics,           \* index is TopicId
  run,                \* "spin", "exit" (the loop was left) or "crash"
  sent                \* the sendto() calls of the last iteration and their results

registry == <<m_nodes, m_message_types, m_topics>>
vars == <<m_client_counters, registry, run, sent>>

\* A client that has no entry in m_client_counters yet.
NoCounter == -1

Init == /\ m_client_counters = [c \in Address |-> NoCounter]
        /\ m_nodes = <<>>
        /\ m_message_types = <<>>
        /\ m_topics = <<>>
        /\ run = "spin"
        /\ sent = <<>>
-----------------------------------------------------------------------------
(***************************************************************************)
(* The registry's vectors.                                                 *)
(***************************************************************************)
Known(vector, id) == id < Len(vector)
At(vector, id) == vector[id + 1]

\* std::find_if over the names of a vector.
\* Mutant: the search starts with the second entry.
RegisteredButFirst(vector, name) == \E i \in 2..Len(vector) : vector[i].name = name
Registered(vector, name) == \E i \in 1..Len(vector) : vector[i].name = name
IdOf(vector, name) ==
  (CHOOSE i \in 1..Len(vector) :
     /\ vector[i].name = name
     /\ \A j \in 1..(i - 1) : vector[j].name # name) - 1

\* Mutant: a new entry is put in front.
emplace_front(vector, entry) == <<entry>> \o vector
emplace_back(vector, entry) == Append(vector, entry)

\* size() - 1 after emplace_back.
NewId(vector) == Len(vector)

\* Mutants: the last counter is accepted again, any later one is accepted, or the
\* sum is not computed in 32 bits.
AcceptsRepeat(c, counter) ==
  m_client_counters[c] \in {NoCounter, counter} \cup {k \in BpCounter : NextCounter(k) = counter}
AcceptsLater(c, counter) == m_client_counters[c] < counter
AcceptsNoWrap(c, counter) == m_client_counters[c] \in {NoCounter, counter - 1}

\* A client's first packet is accepted whatever its counter is.
Accepts(c, counter) ==
  m_client_counters[c] \in {NoCounter} \cup {k \in BpCounter : NextCounter(k) = counter}

\* Mutant: the stored counter is incremented without the wrap-around.
verify_only(c, counter) ==
  /\ run = "spin"
  /\ Accepts(c, counter)
  /\ m_client_counters' =
       [m_client_counters EXCEPT ![c] = IF @ = NoCounter THEN counter ELSE @ + 1]

verify_and_update_client_counter(c, counter) ==
  /\ run = "spin"
  /\ Accepts(c, counter)
  /\ m_client_counters' = [m_client_counters EXCEPT ![c] = counter]

\* A wrong counter: the packet is ignored and the expected counter stays.
IgnoreCounter(c, counter) ==
  /\ run = "spin"
  /\ ~Accepts(c, counter)
  /\ sent' = <<>>
  /\ UNCHANGED <<m_client_counters, registry, run>>

\* spin() leaves its loop when the response cannot be sent.
send_control_response(c, counter, json, ok) ==
  /\ sent' = <<[to |-> c, packet |-> ControlPacket(counter, json), ok |-> ok]>>
  /\ run' = IF ok THEN "spin" ELSE "exit"
-----------------------------------------------------------------------------
(***************************************************************************)
(* The control requests.  ok is the result of sending the response.        *)
(***************************************************************************)
register_node(c, counter, r, ok) ==
  /\ verify_and_update_client_counter(c, counter)
  /\ \/ /\ ~Registered(m_nodes, r.name)
        /\ m_nodes' = emplace_back(m_nodes, [name |-> r.name, address |-> c])
        /\ send_control_response(c, counter,
             [rpc_id |-> r.rpc_id, success |-> TRUE, node_id |-> NewId(m_nodes)], ok)
     \/ /\ Registered(m_nodes, r.name)
        /\ UNCHANGED m_nodes
        /\ send_control_response(c, counter, rpc_failure_response(r.rpc_id), ok)
  /\ UNCHANGED <<m_message_types, m_topics>>

\* Mutant: the size is not compared.
AnySize(id, r) == TRUE
SameSize(id, r) == At(m_message_types, id).size = r.size

register_message_type(c, counter, r, ok) ==
  LET id == IdOf(m_message_types, r.name)
      known == Registered(m_message_types, r.name)
      Success(i) == [rpc_id |-> r.rpc_id, success |-> TRUE, message_type_id |-> i]
  IN
  /\ verify_and_update_client_counter(c, counter)
  /\ \/ /\ ~known
        /\ m_message_types' = emplace_back(m_message_types, [name |-> r.name, size |-> r.size])
        /\ send_control_response(c, counter, Success(NewId(m_message_types)), ok)
     \/ /\ known
        /\ UNCHANGED m_message_types
        /\ \/ /\ SameSize(id, r)
              /\ send_control_response(c, counter, Success(id), ok)
           \/ /\ ~SameSize(id, r)
              /\ send_control_response(c, counter, rpc_failure_response(r.rpc_id), ok)
  /\ UNCHANGED <<m_nodes, m_topics>>

\* An unknown message_type_id is logged but does not stop the registration.
register_topic(c, counter, r, ok) ==
  LET id == IdOf(m_topics, r.name)
      known == Registered(m_topics, r.name)
      agrees == /\ At(m_topics, id).message_type_id = r.message_type_id
                /\ r.priority \in {dontcare_topic_priority, At(m_topics, id).priority}
      Success(i, priority) == [rpc_id |-> r.rpc_id, success |-> TRUE,
                               topic_id |-> i, topic_priority |-> priority]
  IN
  /\ verify_and_update_client_counter(c, counter)
  /\ \/ /\ ~known /\ r.priority # dontcare_topic_priority
        /\ m_topics' = emplace_back(m_topics,
             [name |-> r.name, message_type_id |-> r.message_type_id,
              priority |-> r.priority, publishers |-> <<>>, subscribers |-> <<>>])
        /\ send_control_response(c, counter, Success(NewId(m_topics), r.priority), ok)
     \/ /\ known /\ agrees
        /\ UNCHANGED m_topics
        /\ send_control_response(c, counter, Success(id, At(m_topics, id).priority), ok)
     \/ /\ IF known THEN ~agrees ELSE r.priority = dontcare_topic_priority
        /\ UNCHANGED m_topics
        /\ send_control_response(c, counter, rpc_failure_response(r.rpc_id), ok)
  /\ UNCHANGED <<m_nodes, m_message_types>>

\* Mutant: the message type is compared with the topic's but not looked up.
validate_unknown_type(r) ==
  /\ Known(m_nodes, r.node_id)
  /\ Known(m_topics, r.topic_id)
  /\ At(m_topics, r.topic_id).message_type_id = r.message_type_id

validate_topic_parameters(r) ==
  /\ Known(m_nodes, r.node_id)
  /\ Known(m_topics, r.topic_id)
  /\ Known(m_message_types, r.message_type_id)
  /\ At(m_topics, r.topic_id).message_type_id = r.message_type_id

AddEndpoint(c, counter, r, ok) ==
  /\ verify_and_update_client_counter(c, counter)
  /\ \/ /\ validate_topic_parameters(r)
        /\ \/ /\ r.op = "add_publisher"
              /\ Len(At(m_topics, r.topic_id).publishers) < MaxEndpoints
              /\ m_topics' = [m_topics EXCEPT ![r.topic_id + 1].publishers =
                                Append(@, r.node_id)]
           \/ /\ r.op = "add_subscriber"
              /\ Len(At(m_topics, r.topic_id).subscribers) < MaxEndpoints
              /\ m_topics' = [m_topics EXCEPT ![r.topic_id + 1].subscribers =
                                Append(@, r.node_id)]
        /\ send_control_response(c, counter, [rpc_id |-> r.rpc_id, success |-> TRUE], ok)
     \/ /\ ~validate_topic_parameters(r)
        /\ UNCHANGED m_topics
        /\ send_control_response(c, counter, rpc_failure_response(r.rpc_id), ok)
  /\ UNCHANGED <<m_nodes, m_message_types>>

\* A scope or action the broker does not implement is answered with json{}.
UnknownRequest(c, counter, ok) ==
  /\ verify_and_update_client_counter(c, counter)
  /\ send_control_response(c, counter, NullJson, ok)
  /\ UNCHANGED registry

process_control_request(c, p, ok) ==
  LET r == p.json
  IN
  /\ p.type = "Control"
  /\ \/ r.op = "register_node" /\ register_node(c, p.counter, r, ok)
     \/ r.op = "register_message_type" /\ register_message_type(c, p.counter, r, ok)
     \/ r.op = "register_topic" /\ register_topic(c, p.counter, r, ok)
     \/ r.op \in {"add_publisher", "add_subscriber"} /\ AddEndpoint(c, p.counter, r, ok)
     \/ r.op = "other" /\ UnknownRequest(c, p.counter, ok)
-----------------------------------------------------------------------------
(***************************************************************************)
(* Data packets.  failed is the set of positions in the subscriber list     *)
(* whose sendto() fails; the loop logs that and goes on.                    *)
(***************************************************************************)
Forwardable(p) ==
  /\ Known(m_topics, p.topic_id)
  /\ Known(m_message_types, p.message_type_id)
  /\ At(m_topics, p.topic_id).message_type_id = p.message_type_id

\* Mutants: the topic's publishers are served, or all subscribers but the last.
RecipientsPublishers(topic_id) == At(m_topics, topic_id).publishers
RecipientsButLast(topic_id) ==
  LET subscribers == At(m_topics, topic_id).subscribers
  IN  SubSeq(subscribers, 1, Len(subscribers) - 1)
Recipients(topic_id) == At(m_topics, topic_id).subscribers

forward_data(c, p, failed) ==
  /\ p.type = "Data"
  /\ verify_and_update_client_counter(c, p.counter)
  /\ Forwardable(p)
  /\ LET subscribers == Recipients(p.topic_id)
     IN  sent' = [i \in 1..Len(subscribers) |->
                    [to |-> At(m_nodes, subscribers[i]).address,
                     packet |-> p, ok |-> i \notin failed]]
  /\ UNCHANGED <<registry, run>>

ignore_data(c, p) ==
  /\ p.type = "Data"
  /\ verify_and_update_client_counter(c, p.counter)
  /\ ~Forwardable(p)
  /\ sent' = <<>>
  /\ UNCHANGED <<registry, run>>

\* A datagram that decode_packet_buffer calls Invalid still moves the counter.
invalid_packet(c, p) ==
  /\ p.type = "Invalid"
  /\ verify_and_update_client_counter(c, p.counter)
  /\ sent' = <<>>
  /\ UNCHANGED <<registry, run>>

(***************************************************************************)
(* Log statements that index a registry vector with an identifier that was  *)
(* not checked, or whose check did not stop the handler: m_topics[topic_id] *)
(* in the debug log of spin(), m_message_types[...] in those of             *)
(* register_topic and validate_topic_parameters.  Reading past the end of   *)
(* the vector may go unnoticed or end the process.                          *)
(***************************************************************************)
LogsOutOfBounds(p) ==
  \/ p.type = "Data" /\ ~Known(m_topics, p.topic_id)
  \/ /\ p.type = "Control" /\ p.json.op = "register_topic"
     /\ \/ /\ ~Registered(m_topics, p.json.name)
           /\ p.json.priority # dontcare_topic_priority
           /\ ~Known(m_message_types, p.json.message_type_id)
        \/ /\ Registered(m_topics, p.json.name)
           /\ LET mine == At(m_topics, IdOf(m_topics, p.json.name)).message_type_id
              IN  /\ mine # p.json.message_type_id
                  /\ \/ ~Known(m_message_types, mine)
                     \/ ~Known(m_message_types, p.json.message_type_id)
  \/ /\ p.type = "Control" /\ p.json.op \in {"add_publisher", "add_subscriber"}
     /\ Known(m_nodes, p.json.node_id)
     /\ Known(m_topics, p.json.topic_id)
     /\ Known(m_message_types, p.json.message_type_id)
     /\ ~Known(m_message_types, At(m_topics, p.json.topic_id).message_type_id)

crash(c, p) ==
  /\ LogsOutOfBounds(p)
  /\ verify_and_update_client_counter(c, p.counter)
  /\ run' = "crash"
  /\ sent' = <<>>
  /\ UNCHANGED registry
-----------------------------------------------------------------------------
Request ==
  {RegisterNodeRequest(i, n) : i \in RpcId, n \in NodeName}
  \cup {RegisterMessageTypeRequest(i, n, s) : i \in RpcId, n \in TypeName, s \in MessageSize}
  \cup {RegisterTopicRequest(i, n, t, q) :
          i \in RpcId, n \in TopicName, t \in Id, q \in TopicPriority}
  \cup {AddEndpointRequest(op, i, n, t, m) :
          op \in {"add_publisher", "add_subscriber"},
          i \in RpcId, n \in Id, t \in Id, m \in Id}
  \cup [op : {"other"}]

ControlPackets == {ControlPacket(k, r) : k \in BpCounter, r \in Request}
DataPackets == {DataPacket(k, t, m, d) : k \in BpCounter, t \in Id, m \in Id, d \in Payload}
InvalidPackets == [type : {"Invalid"}, counter : BpCounter]

ReceiveControl(c) == \E p \in ControlPackets, ok \in BOOLEAN : process_control_request(c, p, ok)
ReceiveData(c) ==
  \E p \in DataPackets :
    \/ \E failed \in SUBSET (1..MaxEndpoints) : forward_data(c, p, failed)
    \/ ignore_data(c, p)
ReceiveInvalid(c) == \E p \in InvalidPackets : invalid_packet(c, p)
ReceiveOutOfOrder(c) == \E k \in BpCounter : IgnoreCounter(c, k)
Crash(c) == \E p \in ControlPackets \cup DataPackets : crash(c, p)

Next == \E c \in Address :
          \/ ReceiveControl(c) \/ ReceiveData(c) \/ ReceiveInvalid(c)
          \/ ReceiveOutOfOrder(c) \/ Crash(c)

Spec == Init /\ [][Next]_vars
-----------------------------------------------------------------------------
NodeInfo == [name : NodeName, address : Address]
MessageTypeInfo == [name : TypeName, size : MessageSize]
Topic == [name : TopicName, message_type_id : Id, priority : TopicPriority,
          publishers : Seq(Id), subscribers : Seq(Id)]

(***************************************************************************)
(* Types.  A stored counter is a value of its 32-bit type also after the    *)
(* counter wrapped around.                                                  *)
(***************************************************************************)
TypeOK ==
  /\ m_client_counters \in [Address -> BpCounter \cup {NoCounter}]
  /\ m_nodes \in Seq(NodeInfo)
  /\ m_message_types \in Seq(MessageTypeInfo)
  /\ m_topics \in Seq(Topic)
  /\ run \in {"spin", "exit", "crash"}

NamesUnique(vector) ==
  \A i, j \in 1..Len(vector) : vector[i].name = vector[j].name => i = j

(***************************************************************************)
(* A name is registered once, so find_if and an index are the same look-up. *)
(* Every publisher and subscriber entry is an index of m_nodes, so that     *)
(* m_nodes[subscriber_node_id], which spin() does not check, stays inside   *)
(* the vector.  And although register_topic accepts a topic whose message   *)
(* type does not exist, nobody gets to publish or subscribe to it.          *)
(***************************************************************************)
EndpointsServable ==
  \A i \in 1..Len(m_topics) :
    /\ \A k \in 1..Len(m_topics[i].publishers) : Known(m_nodes, m_topics[i].publishers[k])
    /\ \A k \in 1..Len(m_topics[i].subscribers) : Known(m_nodes, m_topics[i].subscribers[k])
    /\ \/ m_topics[i].publishers = <<>> /\ m_topics[i].subscribers = <<>>
       \/ Known(m_message_types, m_topics[i].message_type_id)

RegistryInv ==
  /\ NamesUnique(m_nodes)
  /\ NamesUnique(m_message_types)
  /\ NamesUnique(m_topics)
  /\ EndpointsServable

SamePrefix(old, new) ==
  /\ Len(old) <= Len(new)
  /\ \A i \in 1..Len(old) : new[i] = old[i]

(***************************************************************************)
(* An identifier keeps its meaning as long as the broker runs: nodes cache  *)
(* identifiers at connect() and put them into every data packet, so no      *)
(* entry may move or change, and an endpoint list may only grow.            *)
(***************************************************************************)
KeepsTopics ==
  /\ Len(m_topics) <= Len(m_topics')
  /\ \A i \in 1..Len(m_topics) :
       /\ \A f \in {"name", "message_type_id", "priority"} : m_topics'[i][f] = m_topics[i][f]
       /\ SamePrefix(m_topics[i].publishers, m_topics'[i].publishers)
       /\ SamePrefix(m_topics[i].subscribers, m_topics'[i].subscribers)

IdsStable ==
  [][/\ SamePrefix(m_nodes, m_nodes')
     /\ SamePrefix(m_message_types, m_message_types')
     /\ KeepsTopics]_vars

(***************************************************************************)
(* A request that the broker grants is granted as it was asked for.  The    *)
(* identifier in the answer is that of an entry with the requested name,    *)
(* and the entry is the requester's own, has the requested size, or has the *)
(* requested message type and a priority that the requester can live with   *)
(* and is told; an endpoint is listed with the topic and of its type.  This *)
(* is so whoever registered the entry, and however long ago.                *)
(***************************************************************************)
GrantedAsAsked(c, r, json) ==
  /\ r.op = "register_node" =>
       /\ Known(m_nodes, json.node_id)
       /\ At(m_nodes, json.node_id) = [name |-> r.name, address |-> c]
  /\ r.op = "register_message_type" =>
       /\ Known(m_message_types, json.message_type_id)
       /\ At(m_message_types, json.message_type_id) = [name |-> r.name, size |-> r.size]
  /\ r.op = "register_topic" =>
       /\ Known(m_topics, json.topic_id)
       /\ At(m_topics, json.topic_id).name = r.name
       /\ At(m_topics, json.topic_id).message_type_id = r.message_type_id
       /\ At(m_topics, json.topic_id).priority = json.topic_priority
       /\ json.topic_priority # dontcare_topic_priority
       /\ r.priority \in {dontcare_topic_priority, json.topic_priority}
  /\ r.op \in {"add_publisher", "add_subscriber"} =>
       /\ Known(m_nodes, r.node_id) /\ Known(m_topics, r.topic_id)
       /\ Known(m_message_types, r.message_type_id)
       /\ At(m_topics, r.topic_id).message_type_id = r.message_type_id
       /\ LET topic == At(m_topics, r.topic_id)
              members == IF r.op = "add_publisher" THEN topic.publishers ELSE topic.subscribers
          IN  \E k \in 1..Len(members) : members[k] = r.node_id

Grants(answer) ==
  /\ answer.packet.type = "Control"
  /\ "success" \in DOMAIN answer.packet.json
  /\ answer.packet.json.success

\* The step that sends this answer handles request r.
Handles(r, answer) ==
  process_control_request(answer.to, ControlPacket(answer.packet.counter, r), answer.ok)

AnswersTruthful ==
  [][\A i \in 1..Len(sent') : Grants(sent'[i]) =>
       \A r \in Request : Handles(r, sent'[i]) =>
         GrantedAsAsked(sent[i].to, r, sent[i].packet.json)']_vars
=============================================================================
