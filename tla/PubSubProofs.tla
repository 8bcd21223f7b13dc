---------------------------- MODULE PubSubProofs ----------------------------
(***************************************************************************)
(* Proofs about PubSub, for any number of nodes, endpoints and faults: the  *)
(* types, the queues of the subscribers, the broker's packet counters, and  *)
(* then connect(), what its answers are and what a connected node may rely  *)
(* on.                                                                      *)
(***************************************************************************)
EXTENDS PubSub, SequenceTheorems, FiniteSetTheorems, TLAPS

(***************************************************************************)
(* A message is named by its publisher and its number there.  A program's   *)
(* callback may publish a message made of the one it was shown: the pongs   *)
(* of the benchmark (module Programs) carry a ping and a node id.           *)
(***************************************************************************)
Plain == [node : Node, end : Nat, seq : Nat]
Payloads == Plain \cup [node : Node, end : Nat, seq : Nat, ping : Plain, reflector_id : Nat]

BP == INSTANCE BrokerProofs WITH
        Address <- Node, NodeName <- {Name[n] : n \in Node},
        Payload <- Payloads, Id <- Nat, RpcId <- BpCounter

(***************************************************************************)
(* BP is the broker B of PubSub with what BrokerProofs shows about it.      *)
(***************************************************************************)
LEMMA SameState ==
  /\ B!TypeOK <=> BP!TypeOK
  /\ B!Init <=> BP!Init
  /\ B!RegistryInv <=> BP!RegistryInv
  BY DEF B!TypeOK, BP!TypeOK, B!NoCounter, BP!NoCounter, B!NodeInfo, BP!NodeInfo,
         B!MessageTypeInfo, BP!MessageTypeInfo, B!Topic, BP!Topic, B!BpCounter,
         BP!BpCounter, B!Init, BP!Init, B!RegistryInv, BP!RegistryInv, B!NamesUnique,
         BP!NamesUnique, B!EndpointsServable, BP!EndpointsServable, B!Known, BP!Known

LEMMA SameLookUps ==
  /\ \A v, name : B!Registered(v, name) <=> BP!Registered(v, name)
  /\ \A v, name : B!IdOf(v, name) = BP!IdOf(v, name)
  /\ \A v, id : B!Known(v, id) <=> BP!Known(v, id)
  /\ \A v, id : B!At(v, id) = BP!At(v, id)
  BY DEF B!Registered, BP!Registered, B!IdOf, BP!IdOf, B!Known, BP!Known, B!At, BP!At

LEMMA SameSteps ==
  ASSUME NEW c, NEW p
  PROVE  /\ B!IgnoreCounter(c, p.counter) <=> BP!IgnoreCounter(c, p.counter)
         /\ \A failed : B!forward_data(c, p, failed) <=> BP!forward_data(c, p, failed)
         /\ B!ignore_data(c, p) <=> BP!ignore_data(c, p)
         /\ B!crash(c, p) <=> BP!crash(c, p)
         /\ \A ok : B!process_control_request(c, p, ok) <=> BP!process_control_request(c, p, ok)
  <1> USE DEF B!verify_and_update_client_counter, BP!verify_and_update_client_counter,
              B!Accepts, BP!Accepts, B!NoCounter, BP!NoCounter, B!BpCounter, BP!BpCounter,
              B!NextCounter, BP!NextCounter, B!registry, BP!registry
  <1>1. B!IgnoreCounter(c, p.counter) <=> BP!IgnoreCounter(c, p.counter)
    BY DEF B!IgnoreCounter, BP!IgnoreCounter
  <1>2. \A failed : B!forward_data(c, p, failed) <=> BP!forward_data(c, p, failed)
    BY DEF B!forward_data, BP!forward_data, B!Forwardable, BP!Forwardable, B!Known, BP!Known,
           B!At, BP!At, B!Recipients, BP!Recipients
  <1>3. B!ignore_data(c, p) <=> BP!ignore_data(c, p)
    BY DEF B!ignore_data, BP!ignore_data, B!Forwardable, BP!Forwardable, B!Known, BP!Known,
           B!At, BP!At
  <1>4. B!crash(c, p) <=> BP!crash(c, p)
    BY DEF B!crash, BP!crash, B!LogsOutOfBounds, BP!LogsOutOfBounds, B!Known, BP!Known,
           B!At, BP!At, B!Registered, BP!Registered, B!IdOf, BP!IdOf,
           B!dontcare_topic_priority, BP!dontcare_topic_priority
  <1>5. \A ok : B!process_control_request(c, p, ok) <=> BP!process_control_request(c, p, ok)
    BY DEF B!process_control_request, BP!process_control_request,
           B!register_node, BP!register_node,
           B!register_message_type, BP!register_message_type,
           B!register_topic, BP!register_topic, B!AddEndpoint, BP!AddEndpoint,
           B!UnknownRequest, BP!UnknownRequest, 
           B!send_control_response, BP!send_control_response, B!ControlPacket, BP!ControlPacket,
           B!Registered, BP!Registered, B!IdOf, BP!IdOf, B!Known, BP!Known, B!At, BP!At,
           B!NewId, BP!NewId, B!emplace_back, BP!emplace_back, B!SameSize, BP!SameSize,
           B!validate_topic_parameters, BP!validate_topic_parameters,
           B!rpc_failure_response, BP!rpc_failure_response, B!NullJson, BP!NullJson,
           B!dontcare_topic_priority, BP!dontcare_topic_priority
  <1> QED BY <1>1, <1>2, <1>3, <1>4, <1>5
-----------------------------------------------------------------------------
(***************************************************************************)
(* Types: what the channels, the queues and the nodes' tables hold.         *)
(***************************************************************************)
Ids == [message_type_id : Nat, topic_id : Nat, topic_priority : TopicPriority]

\* The requests a node makes.
Asked ==
  {RegisterNodeRequest(i, Name[n]) : i \in BpCounter, n \in Node}
  \cup {RegisterMessageTypeRequest(i, t, s) :
          i \in BpCounter, t \in TypeName, s \in MessageSize}
  \cup {RegisterTopicRequest(i, t, m, q) :
          i \in BpCounter, t \in TopicName, m \in Nat, q \in TopicPriority}
  \cup {AddEndpointRequest(op, i, n, t, m) :
          op \in {"add_publisher", "add_subscriber"},
          i \in BpCounter, n \in Nat, t \in Nat, m \in Nat}

\* The answers the broker gives to them.
NodeAnswer(i, id) == [rpc_id |-> i, success |-> TRUE, node_id |-> id]
TypeAnswer(i, id) == [rpc_id |-> i, success |-> TRUE, message_type_id |-> id]
TopicAnswer(i, id, q) ==
  [rpc_id |-> i, success |-> TRUE, topic_id |-> id, topic_priority |-> q]
EndpointAnswer(i) == [rpc_id |-> i, success |-> TRUE]

Answered ==
  {NodeAnswer(i, id) : i \in BpCounter, id \in Nat}
  \cup {TypeAnswer(i, id) : i \in BpCounter, id \in Nat}
  \cup {TopicAnswer(i, id, q) : i \in BpCounter, id \in Nat, q \in TopicPriority}
  \cup {EndpointAnswer(i) : i \in BpCounter}
  \cup {rpc_failure_response(i) : i \in BpCounter}

Requests == {ControlPacket(k, r) : k \in BpCounter, r \in Asked}
Answers == {ControlPacket(k, a) : k \in BpCounter, a \in Answered}
Messages == {DataPacket(k, t, m, d) : k \in BpCounter, t \in Nat, m \in Nat, d \in Payloads}

Uplink == [from : Node, packet : Requests \cup Messages]
Downlink == Answers \cup Messages

NodeTypes(n) ==
  /\ m_bp_counter[n] \in BpCounter
  /\ m_node_id[n] \in Nat
  /\ call[n] \in 1..(LastCall(n) + 1)
  /\ pc[n] = "new" => call[n] = 1
  /\ pc[n] \in {"rpc", "wait"} => call[n] <= LastCall(n)
  /\ todo[n] \subseteq End(n)
  /\ ids[n] \in [End(n) -> Ids]
  /\ queue[n] \in [End(n) -> Seq(Payloads)]
  /\ published[n] \in [End(n) -> Nat]
  /\ delivered[n] \in [End(n) -> Seq(Payloads)]
  /\ to_node[n] \in Seq(Downlink)
  /\ \A e \in End(n) : Len(queue[n][e]) <= QueueCapacity

Domains ==
  /\ pc \in [Node -> {"new", "rpc", "wait", "idle", "spin", "failed", "abort"}]
  /\ DOMAIN call = Node /\ DOMAIN todo = Node
  /\ DOMAIN m_node_id = Node /\ DOMAIN m_bp_counter = Node
  /\ m_bp_counter = [n \in Node |-> m_bp_counter[n]]
  /\ DOMAIN ids = Node /\ DOMAIN queue = Node
  /\ DOMAIN published = Node /\ DOMAIN delivered = Node
  /\ DOMAIN to_node = Node

TypeInv ==
  /\ B!TypeOK
  /\ Domains
  /\ to_broker \in Seq(Uplink)
  /\ \A n \in Node : NodeTypes(n)

LEMMA EndsFinite ==
  ASSUME NEW n \in Node
  PROVE  /\ Len(Endpoint[n]) \in Nat
         /\ LastCall(n) \in Nat /\ LastCall(n) >= 1
         /\ \A e \in End(n) :
              /\ e \in Nat
              /\ Endpoint[n][e].role \in {"publisher", "subscriber"}
              /\ Endpoint[n][e].topic \in TopicName
              /\ Endpoint[n][e].type \in TypeName
              /\ Endpoint[n][e].size \in MessageSize
              /\ Endpoint[n][e].priority \in TopicPriority
  <1> DEFINE R == [role : {"publisher", "subscriber"}, topic : TopicName, type : TypeName,
                   size : MessageSize, priority : TopicPriority]
  <1>1. Endpoint[n] \in Seq(R)
    BY CreatedAssumption
  <1> HIDE DEF R
  <1>2. Len(Endpoint[n]) \in Nat
    BY <1>1, LenProperties
  <1>3. \A e \in End(n) : e \in Nat /\ Endpoint[n][e] \in R
    BY <1>1, <1>2, ElementOfSeq DEF End
  <1> QED BY <1>2, <1>3 DEF LastCall, R

LEMMA Counters ==
  /\ 0 \in BpCounter
  /\ \A k \in BpCounter : NextCounter(k) \in BpCounter
  BY CounterModAssumption DEF BpCounter, NextCounter

LEMMA ByThree ==
  ASSUME NEW c \in Nat
  PROVE  /\ c % 3 \in {0, 1, 2}
         /\ c % 3 = 2 => c = 3 * ((c + 1) \div 3) - 1
         /\ c % 3 = 0 => c = 3 * ((c + 1) \div 3)
         /\ c % 3 = 1 => c = 3 * ((c + 1) \div 3) + 1
  <1>1. /\ c % 3 \in 0..2 /\ c \div 3 \in Int /\ c = 3 * (c \div 3) + (c % 3)
    OBVIOUS
  <1>2. /\ (c + 1) % 3 \in 0..2 /\ (c + 1) \div 3 \in Int
        /\ c + 1 = 3 * ((c + 1) \div 3) + ((c + 1) % 3)
    OBVIOUS
  <1> QED BY <1>1, <1>2

\* The endpoint that the next call of connect() is about.
LEMMA CallEnds ==
  ASSUME NEW n \in Node, call[n] \in 1..LastCall(n)
  PROVE  /\ CallKind(n) = "node" <=> call[n] = 1
         /\ CallKind(n) \in {"node", "type", "topic", "endpoint"}
         /\ CallKind(n) # "node" => CallEnd(n) \in End(n)
         /\ CallKind(n) = "type" => call[n] = 3 * CallEnd(n) - 1
         /\ CallKind(n) = "topic" => call[n] = 3 * CallEnd(n)
         /\ CallKind(n) = "endpoint" => call[n] = 3 * CallEnd(n) + 1
  <1>1. Len(Endpoint[n]) \in Nat /\ LastCall(n) = 3 * Len(Endpoint[n]) + 1
    BY EndsFinite DEF LastCall
  <1>2. call[n] \in Nat /\ call[n] >= 1 /\ call[n] <= 3 * Len(Endpoint[n]) + 1
    BY <1>1
  <1>3. CASE call[n] = 1
    BY <1>3 DEF CallKind
  <1>4. CASE call[n] # 1
    <2>1. (call[n] + 1) \div 3 \in 1..Len(Endpoint[n])
      BY <1>1, <1>2, <1>4
    <2>2. /\ call[n] % 3 = 2 => call[n] = 3 * ((call[n] + 1) \div 3) - 1
          /\ call[n] % 3 = 0 => call[n] = 3 * ((call[n] + 1) \div 3)
          /\ call[n] % 3 = 1 => call[n] = 3 * ((call[n] + 1) \div 3) + 1
          /\ call[n] % 3 \in {0, 1, 2}
      BY <1>2, ByThree
    <2> QED BY <1>2, <1>4, <2>1, <2>2 DEF CallKind, CallEnd, End
  <1> QED BY <1>3, <1>4

LEMMA RequestAsked ==
  ASSUME TypeInv, NEW n \in Node, pc[n] = "rpc"
  PROVE  Request(n) \in Asked
  <1> DEFINE e == CallEnd(n)
  <1>1. NodeTypes(n) /\ call[n] \in 1..LastCall(n) /\ rpc_id(n) \in BpCounter
    BY EndsFinite DEF TypeInv, NodeTypes, rpc_id
  <1>2. CASE CallKind(n) = "node"
    BY <1>1, <1>2 DEF Request, Asked
  <1>3. CASE CallKind(n) # "node"
    <2>1. e \in End(n) /\ CallKind(n) \in {"type", "topic", "endpoint"}
      BY <1>1, <1>3, CallEnds
    <2>2. /\ ids[n][e].message_type_id \in Nat /\ ids[n][e].topic_id \in Nat
          /\ ids[n][e].topic_priority \in TopicPriority /\ m_node_id[n] \in Nat
      BY <1>1, <2>1 DEF NodeTypes, Ids
    <2>3. /\ Endpoint[n][e].topic \in TopicName /\ Endpoint[n][e].type \in TypeName
          /\ Endpoint[n][e].size \in MessageSize
      BY <2>1, EndsFinite
    <2> HIDE DEF e
    <2>4. CASE CallKind(n) = "type"
      BY <1>1, <2>3, <2>4 DEF Request, Asked, e
    <2>5. CASE CallKind(n) = "topic"
      BY <1>1, <2>2, <2>3, <2>5 DEF Request, Asked, e
    <2>6. CASE CallKind(n) = "endpoint"
      BY <1>1, <2>2, <2>6 DEF Request, Asked, e
    <2> QED BY <2>1, <2>4, <2>5, <2>6
  <1> QED BY <1>2, <1>3
-----------------------------------------------------------------------------
(***************************************************************************)
(* What one iteration of the broker does, read off its handlers once.       *)
(***************************************************************************)
LEMMA AskedFields ==
  ASSUME NEW r \in Asked
  PROVE  /\ r.rpc_id \in BpCounter
         /\ r.op \in {"register_node", "register_message_type", "register_topic",
                      "add_publisher", "add_subscriber"}
         /\ r \in BP!Request
  BY DEF Asked, RegisterNodeRequest, RegisterMessageTypeRequest, RegisterTopicRequest,
         AddEndpointRequest, BP!Request, BP!RegisterNodeRequest,
         BP!RegisterMessageTypeRequest, BP!RegisterTopicRequest, BP!AddEndpointRequest

LEMMA PacketFields ==
  /\ \A p \in Requests : p.type = "Control" /\ p.counter \in BpCounter /\ p.json \in Asked
  /\ \A p \in Answers : p.type = "Control" /\ p.counter \in BpCounter /\ p.json \in Answered
  /\ \A p \in Messages :
       /\ p.type = "Data" /\ p.counter \in BpCounter /\ p.payload \in Payloads
       /\ p.topic_id \in Nat /\ p.message_type_id \in Nat
  /\ Requests \subseteq BP!ControlPackets
  /\ Messages \subseteq BP!DataPackets
  <1>1. /\ \A p \in Requests : p.type = "Control" /\ p.counter \in BpCounter /\ p.json \in Asked
        /\ \A p \in Answers : p.type = "Control" /\ p.counter \in BpCounter /\ p.json \in Answered
    BY DEF Requests, Answers, ControlPacket
  <1>2. \A p \in Messages :
          /\ p.type = "Data" /\ p.counter \in BpCounter /\ p.payload \in Payloads
          /\ p.topic_id \in Nat /\ p.message_type_id \in Nat
    BY DEF Messages, DataPacket
  <1>3. Requests \subseteq BP!ControlPackets
    BY AskedFields DEF Requests, BP!ControlPackets, ControlPacket, BP!ControlPacket,
                       BpCounter, BP!BpCounter
  <1>4. Messages \subseteq BP!DataPackets
    BY DEF Messages, BP!DataPackets, DataPacket, BP!DataPacket, BpCounter, BP!BpCounter
  <1> QED BY <1>1, <1>2, <1>3, <1>4

LEMMA HeadOfUplink ==
  ASSUME TypeInv, to_broker # <<>>
  PROVE  /\ Head(to_broker).from \in Node
         /\ Head(to_broker).packet \in Requests \cup Messages
         /\ Head(to_broker) = to_broker[1] /\ Len(to_broker) \in Nat /\ Len(to_broker) >= 1
  <1>1. Head(to_broker) \in Uplink /\ Head(to_broker) = to_broker[1]
    BY HeadTailProperties DEF TypeInv
  <1>2. Len(to_broker) \in Nat /\ Len(to_broker) >= 1
    BY LenProperties, EmptySeq DEF TypeInv
  <1> QED BY <1>1, <1>2 DEF Uplink

\* The broker inside the system takes only steps of module Broker.
LEMMA BrokerSteps ==
  ASSUME TypeInv, BrokerSpin
  PROVE  BP!Next
  <1> DEFINE c == Head(to_broker).from
             p == Head(to_broker).packet
  <1>1. c \in Node /\ p \in Requests \cup Messages
    BY HeadOfUplink DEF BrokerSpin
  <1>2. Handle(c, p)
    BY DEF BrokerSpin
  <1> HIDE DEF c, p
  <1>3. p.counter \in BP!BpCounter /\ p \in BP!ControlPackets \cup BP!DataPackets
    BY <1>1, PacketFields DEF BP!BpCounter, BpCounter
  <1>4. /\ p.type = "Control" => p \in BP!ControlPackets
        /\ p.type = "Data" => p \in BP!DataPackets
    BY <1>1, PacketFields
  <1>5. \/ BP!IgnoreCounter(c, p.counter)
        \/ \E ok \in BOOLEAN : BP!process_control_request(c, p, ok)
        \/ \E failed \in SUBSET (1..MaxEndpoints) : BP!forward_data(c, p, failed)
        \/ BP!ignore_data(c, p)
        \/ BP!crash(c, p)
    BY <1>2, SameSteps, Zenon DEF Handle
  <1>6. /\ \A ok : BP!process_control_request(c, p, ok) => p.type = "Control"
        /\ \A failed : BP!forward_data(c, p, failed) => p.type = "Data"
        /\ BP!ignore_data(c, p) => p.type = "Data"
    BY DEF BP!process_control_request, BP!forward_data, BP!ignore_data
  <1>7. \/ BP!ReceiveOutOfOrder(c) \/ BP!ReceiveControl(c) \/ BP!ReceiveData(c) \/ BP!Crash(c)
    BY <1>3, <1>4, <1>5, <1>6, Zenon DEF BP!ReceiveOutOfOrder, BP!ReceiveControl, BP!ReceiveData,
                                  BP!Crash
  <1> QED BY <1>1, <1>7 DEF BP!Next

LEMMA BrokerUnchanged ==
  UNCHANGED broker_vars => UNCHANGED BP!vars
  BY DEF broker_vars, BP!vars, BP!registry

LEMMA Restarted ==
  BrokerRestart => BP!Init'
  BY DEF BrokerRestart, BP!Init, BP!NoCounter, B!NoCounter

BrokerInv == BP!RegistryInv /\ BP!PrioritiesReal

\* What the broker sends in reply to a request of the node c, if it accepts it.
Replies(c, p) ==
  \E a \in Answered, ok \in BOOLEAN :
    /\ a.rpc_id = p.json.rpc_id
    /\ sent' = <<[to |-> c, packet |-> ControlPacket(p.counter, a), ok |-> ok]>>

Forwards(p) ==
  \E s \in Seq(Nat) : \E failed :
    sent' = [i \in 1..Len(s) |-> [to |-> B!At(m_nodes, s[i]).address,
                                  packet |-> p, ok |-> i \notin failed]]

LEMMA AnswersAreAnswered ==
  ASSUME NEW i \in BpCounter, NEW id \in Nat
  PROVE  /\ NodeAnswer(i, id) \in Answered
         /\ TypeAnswer(i, id) \in Answered
         /\ \A q \in TopicPriority : TopicAnswer(i, id, q) \in Answered
         /\ EndpointAnswer(i) \in Answered
         /\ rpc_failure_response(i) \in Answered
  BY DEF Answered

LEMMA AnswerRpcId ==
  ASSUME NEW i, NEW id, NEW q
  PROVE  /\ NodeAnswer(i, id).rpc_id = i
         /\ TypeAnswer(i, id).rpc_id = i
         /\ TopicAnswer(i, id, q).rpc_id = i
         /\ EndpointAnswer(i).rpc_id = i
         /\ rpc_failure_response(i).rpc_id = i
  BY DEF NodeAnswer, TypeAnswer, TopicAnswer, EndpointAnswer, rpc_failure_response

LEMMA ControlEffect ==
  ASSUME TypeInv, BrokerInv, NEW c \in Node, NEW p \in Requests, NEW ok \in BOOLEAN,
         B!process_control_request(c, p, ok)
  PROVE  B!verify_and_update_client_counter(c, p.counter) /\ Replies(c, p)
  <1> DEFINE r == p.json
  <1>1. r \in Asked /\ p.counter \in BpCounter /\ r.rpc_id \in BpCounter
    BY PacketFields, AskedFields
  <1>2. r.op \in {"register_node", "register_message_type", "register_topic",
                  "add_publisher", "add_subscriber"}
    BY <1>1, AskedFields
  <1>3. /\ r.op = "register_topic" => r.priority \in TopicPriority
    BY <1>1 DEF Asked, RegisterNodeRequest, RegisterMessageTypeRequest,
                RegisterTopicRequest, AddEndpointRequest
  <1>4. /\ m_nodes \in Seq(B!NodeInfo) /\ Len(m_nodes) \in Nat
        /\ m_message_types \in Seq(B!MessageTypeInfo) /\ Len(m_message_types) \in Nat
        /\ m_topics \in Seq(B!Topic) /\ Len(m_topics) \in Nat
    BY LenProperties DEF TypeInv, B!TypeOK
  <1>a. \A i \in BpCounter : rpc_failure_response(i) \in Answered /\ EndpointAnswer(i) \in Answered
    BY DEF Answered
  <1>5. ASSUME NEW a \in Answered, a.rpc_id = r.rpc_id,
               B!send_control_response(c, p.counter, a, ok)
        PROVE  Replies(c, p)
    BY <1>5 DEF B!send_control_response, Replies, ControlPacket, B!ControlPacket
  <1>6. CASE r.op = "register_node" /\ B!register_node(c, p.counter, r, ok)
    <2>1. /\ B!verify_and_update_client_counter(c, p.counter)
          /\ \/ B!send_control_response(c, p.counter, NodeAnswer(r.rpc_id, Len(m_nodes)), ok)
             \/ B!send_control_response(c, p.counter, rpc_failure_response(r.rpc_id), ok)
      BY <1>6 DEF B!register_node, NodeAnswer, B!NewId, rpc_failure_response,
                  B!rpc_failure_response
    <2>2. /\ NodeAnswer(r.rpc_id, Len(m_nodes)) \in Answered
          /\ rpc_failure_response(r.rpc_id) \in Answered
          /\ NodeAnswer(r.rpc_id, Len(m_nodes)).rpc_id = r.rpc_id
          /\ rpc_failure_response(r.rpc_id).rpc_id = r.rpc_id
      BY <1>1, <1>4, <1>a, AnswersAreAnswered, AnswerRpcId
    <2> QED BY <1>5, <2>1, <2>2
  <1>7. CASE r.op = "register_message_type" /\ B!register_message_type(c, p.counter, r, ok)
    <2> DEFINE id == B!IdOf(m_message_types, r.name)
    <2>1. /\ B!verify_and_update_client_counter(c, p.counter)
          /\ \/ B!send_control_response(c, p.counter,
                  TypeAnswer(r.rpc_id, Len(m_message_types)), ok)
             \/ /\ B!Registered(m_message_types, r.name)
                /\ B!send_control_response(c, p.counter, TypeAnswer(r.rpc_id, id), ok)
             \/ B!send_control_response(c, p.counter, rpc_failure_response(r.rpc_id), ok)
      BY <1>7 DEF B!register_message_type, TypeAnswer, B!NewId, rpc_failure_response,
                  B!rpc_failure_response
    <2>2. B!Registered(m_message_types, r.name) => id \in Nat
      <3>1. BP!NamesUnique(m_message_types)
        BY DEF BrokerInv, BP!RegistryInv
      <3>2. BP!Registered(m_message_types, r.name) => BP!IdOf(m_message_types, r.name) \in Nat
        BY <1>4, <3>1, BP!IdOfRegistered, RegistryAssumption, CounterModAssumption
      <3> QED BY <3>2, SameLookUps
    <2> HIDE DEF id
    <2>3. \A i \in Nat : /\ TypeAnswer(r.rpc_id, i) \in Answered
                         /\ TypeAnswer(r.rpc_id, i).rpc_id = r.rpc_id
      BY <1>1, <1>a, AnswersAreAnswered, AnswerRpcId
    <2>4. /\ rpc_failure_response(r.rpc_id) \in Answered
          /\ rpc_failure_response(r.rpc_id).rpc_id = r.rpc_id
      BY <1>1, <1>a, AnswersAreAnswered, AnswerRpcId
    <2> QED BY <1>4, <1>5, <2>1, <2>2, <2>3, <2>4
  <1>8. CASE r.op = "register_topic" /\ B!register_topic(c, p.counter, r, ok)
    <2> DEFINE id == B!IdOf(m_topics, r.name)
    <2>1. /\ B!verify_and_update_client_counter(c, p.counter)
          /\ \/ B!send_control_response(c, p.counter,
                  TopicAnswer(r.rpc_id, Len(m_topics), r.priority), ok)
             \/ /\ B!Registered(m_topics, r.name)
                /\ B!send_control_response(c, p.counter,
                     TopicAnswer(r.rpc_id, id, B!At(m_topics, id).priority), ok)
             \/ B!send_control_response(c, p.counter, rpc_failure_response(r.rpc_id), ok)
      BY <1>8 DEF B!register_topic, TopicAnswer, B!NewId, rpc_failure_response,
                  B!rpc_failure_response
    <2>2. B!Registered(m_topics, r.name) =>
            id \in Nat /\ B!At(m_topics, id).priority \in TopicPriority
      <3>1. BP!NamesUnique(m_topics)
        BY DEF BrokerInv, BP!RegistryInv
      <3>2. BP!Registered(m_topics, r.name) =>
              /\ BP!IdOf(m_topics, r.name) \in Nat
              /\ BP!Known(m_topics, BP!IdOf(m_topics, r.name))
        BY <1>4, <3>1, BP!IdOfRegistered, RegistryAssumption, CounterModAssumption
      <3>3. B!Registered(m_topics, r.name) => id \in Nat /\ id + 1 \in 1..Len(m_topics)
        BY <1>4, <3>2, SameLookUps DEF BP!Known
      <3>4. B!Registered(m_topics, r.name) => m_topics[id + 1] \in B!Topic
        BY <1>4, <3>3, ElementOfSeq
      <3> QED BY <3>3, <3>4 DEF B!Topic, B!At
    <2> HIDE DEF id
    <2>3. \A i \in Nat, q \in TopicPriority :
            /\ TopicAnswer(r.rpc_id, i, q) \in Answered
            /\ TopicAnswer(r.rpc_id, i, q).rpc_id = r.rpc_id
      BY <1>1, <1>a, AnswersAreAnswered, AnswerRpcId
    <2>4. /\ rpc_failure_response(r.rpc_id) \in Answered
          /\ rpc_failure_response(r.rpc_id).rpc_id = r.rpc_id
      BY <1>1, <1>a, AnswersAreAnswered, AnswerRpcId
    <2> QED BY <1>3, <1>4, <1>5, <1>8, <2>1, <2>2, <2>3, <2>4
  <1>9. CASE B!AddEndpoint(c, p.counter, r, ok)
    <2>1. /\ B!verify_and_update_client_counter(c, p.counter)
          /\ \/ B!send_control_response(c, p.counter, EndpointAnswer(r.rpc_id), ok)
             \/ B!send_control_response(c, p.counter, rpc_failure_response(r.rpc_id), ok)
      BY <1>9 DEF B!AddEndpoint, EndpointAnswer, rpc_failure_response, B!rpc_failure_response
    <2>2. /\ EndpointAnswer(r.rpc_id) \in Answered
          /\ rpc_failure_response(r.rpc_id) \in Answered
          /\ EndpointAnswer(r.rpc_id).rpc_id = r.rpc_id
          /\ rpc_failure_response(r.rpc_id).rpc_id = r.rpc_id
      BY <1>1, <1>a, AnswersAreAnswered, AnswerRpcId
    <2> QED BY <1>5, <2>1, <2>2
  <1> QED BY <1>2, <1>6, <1>7, <1>8, <1>9 DEF B!process_control_request

LEMMA ForwardEffect ==
  ASSUME TypeInv, NEW c \in Node, NEW p \in Messages, NEW failed, B!forward_data(c, p, failed)
  PROVE  Forwards(p)
  <1> DEFINE s == B!At(m_topics, p.topic_id).subscribers
  <1>1. p.topic_id \in Nat /\ Len(m_topics) \in Nat /\ p.topic_id < Len(m_topics)
    BY PacketFields, LenProperties
       DEF TypeInv, B!TypeOK, B!forward_data, B!Forwardable, B!Known
  <1>2. m_topics[p.topic_id + 1] \in B!Topic
    BY <1>1, ElementOfSeq DEF TypeInv, B!TypeOK
  <1>3. s \in Seq(Nat)
    BY <1>2 DEF B!Topic, B!At
  <1>4. sent' = [i \in 1..Len(s) |-> [to |-> B!At(m_nodes, s[i]).address,
                                      packet |-> p, ok |-> i \notin failed]]
    BY DEF B!forward_data, B!Recipients
  <1> HIDE DEF s
  <1> QED BY <1>3, <1>4 DEF Forwards

(***************************************************************************)
(* Every iteration takes the head of the uplink.  It ignores the packet, or *)
(* accepts it and stores its counter; then it replies to a request,         *)
(* forwards a message or sends nothing.                                     *)
(***************************************************************************)
BrokerEffect(c, p) ==
  \/ /\ ~B!Accepts(c, p.counter)
     /\ sent' = <<>>
     /\ UNCHANGED <<m_client_counters, m_nodes, m_message_types, m_topics>>
  \/ /\ B!verify_and_update_client_counter(c, p.counter)
     /\ \/ /\ p \in Requests /\ Replies(c, p)
           /\ \E ok \in BOOLEAN : B!process_control_request(c, p, ok)
        \/ /\ p \in Messages /\ Forwards(p)
           /\ UNCHANGED <<m_nodes, m_message_types, m_topics>>
        \/ /\ sent' = <<>>
           /\ UNCHANGED <<m_nodes, m_message_types, m_topics>>

LEMMA BrokerSpinEffect ==
  ASSUME TypeInv, BrokerInv, BrokerSpin
  PROVE  BrokerEffect(Head(to_broker).from, Head(to_broker).packet)
  <1> DEFINE c == Head(to_broker).from
             p == Head(to_broker).packet
  <1>1. c \in Node /\ p \in Requests \cup Messages
    BY HeadOfUplink DEF BrokerSpin
  <1>2. Handle(c, p)
    BY DEF BrokerSpin
  <1> SUFFICES BrokerEffect(c, p)
    OBVIOUS
  <1> HIDE DEF c, p
  <1>3. \/ B!IgnoreCounter(c, p.counter)
        \/ \E ok \in BOOLEAN : B!process_control_request(c, p, ok)
        \/ \E failed : B!forward_data(c, p, failed)
        \/ B!ignore_data(c, p)
        \/ B!crash(c, p)
    BY <1>2, Zenon DEF Handle
  <1>4. CASE B!IgnoreCounter(c, p.counter)
    BY <1>4 DEF B!IgnoreCounter, BrokerEffect, B!registry
  <1>5. ASSUME NEW ok \in BOOLEAN, B!process_control_request(c, p, ok)
        PROVE  BrokerEffect(c, p)
    <2>1. p \in Requests
      BY <1>1, <1>5, PacketFields DEF B!process_control_request
    <2>2. B!verify_and_update_client_counter(c, p.counter) /\ Replies(c, p)
      BY <1>1, <1>5, <2>1, ControlEffect
    <2> QED BY <1>5, <2>1, <2>2, Zenon DEF BrokerEffect
  <1>6. ASSUME NEW failed, B!forward_data(c, p, failed)
        PROVE  BrokerEffect(c, p)
    <2>1. p \in Messages
      BY <1>1, <1>6, PacketFields DEF B!forward_data
    <2>2. /\ B!verify_and_update_client_counter(c, p.counter) /\ Forwards(p)
          /\ UNCHANGED <<m_nodes, m_message_types, m_topics>>
      BY <1>1, <1>6, <2>1, ForwardEffect DEF B!forward_data, B!registry
    <2> QED BY <2>1, <2>2, Zenon DEF BrokerEffect
  <1>7. CASE B!ignore_data(c, p) \/ B!crash(c, p)
    BY <1>7 DEF B!ignore_data, B!crash, BrokerEffect, B!registry
  <1> QED BY <1>3, <1>4, <1>5, <1>6, <1>7

(***************************************************************************)
(* What the sends put into the nodes' socket buffers.                       *)
(***************************************************************************)
LEMMA NoArrivals ==
  ASSUME sent' = <<>>, NEW n
  PROVE  Arrivals(n) = <<>>
  <1>1. {i \in DOMAIN sent' : sent'[i].to = n /\ sent'[i].ok} = {}
    OBVIOUS
  <1>2. Cardinality({}) = 0
    BY FS_EmptySet
  <1>3. 1..0 = {}
    OBVIOUS
  <1> QED BY <1>1, <1>2, <1>3 DEF Arrivals

LEMMA ReplyArrives ==
  ASSUME NEW c, NEW q, NEW ok \in BOOLEAN, sent' = <<[to |-> c, packet |-> q, ok |-> ok]>>, NEW n
  PROVE  /\ n = c => Arrivals(n) = IF ok THEN <<q>> ELSE <<>>
         /\ n # c => Arrivals(n) = <<>>
  <1> DEFINE mine == {i \in DOMAIN sent' : sent'[i].to = n /\ sent'[i].ok}
  <1>1. DOMAIN sent' = {1} /\ sent'[1].to = c /\ sent'[1].packet = q /\ sent'[1].ok = ok
    OBVIOUS
  <1>2. mine = IF n = c /\ ok THEN {1} ELSE {}
    BY <1>1
  <1> HIDE DEF mine
  <1>3. Cardinality({}) = 0 /\ Cardinality({1}) = 1
    BY FS_EmptySet, FS_Singleton
  <1>4. Arrivals(n) = [k \in 1..Cardinality(mine) |-> q]
    BY <1>1 DEF Arrivals, mine
  <1>5. mine = {} => Arrivals(n) = <<>>
    <2>1. 1..0 = {}
      OBVIOUS
    <2> QED BY <1>3, <1>4, <2>1
  <1>6. mine = {1} => Arrivals(n) = <<q>>
    <2>1. 1..1 = {1}
      OBVIOUS
    <2> QED BY <1>3, <1>4, <2>1
  <1> QED BY <1>2, <1>5, <1>6

LEMMA ForwardsArrive ==
  ASSUME NEW p, Forwards(p), NEW n
  PROVE  Arrivals(n) \in Seq({p})
  <1>1. PICK s \in Seq(Nat) : \E failed :
          sent' = [i \in 1..Len(s) |-> [to |-> B!At(m_nodes, s[i]).address,
                                        packet |-> p, ok |-> i \notin failed]]
    BY DEF Forwards
  <1>2. Len(s) \in Nat
    BY LenProperties
  <1> DEFINE mine == {i \in DOMAIN sent' : sent'[i].to = n /\ sent'[i].ok}
  <1>3. DOMAIN sent' = 1..Len(s) /\ \A i \in 1..Len(s) : sent'[i].packet = p
    BY <1>1
  <1>4. IsFiniteSet(1..Len(s)) /\ mine \subseteq 1..Len(s)
    BY <1>2, <1>3, FS_Interval
  <1>5. IsFiniteSet(mine) /\ Cardinality(mine) \in Nat
    BY <1>4, FS_Subset, FS_CardinalityType
  <1>a. Arrivals(n) = [k \in 1..Cardinality(mine) |-> sent'[1].packet]
    BY DEF Arrivals
  <1> HIDE DEF mine
  <1>6. CASE mine = {}
    <2>1. Cardinality(mine) = 0 /\ 1..0 = {}
      BY <1>6, FS_EmptySet
    <2>2. Arrivals(n) = <<>>
      BY <1>a, <2>1
    <2> QED BY <2>2, EmptySeq
  <1>7. CASE mine # {}
    <2>1. 1 \in 1..Len(s)
      <3>1. PICK x \in mine : TRUE
        BY <1>7
      <3>2. x \in 1..Len(s)
        BY <1>4, <3>1
      <3> QED BY <1>2, <3>2
    <2>2. Arrivals(n) = [k \in 1..Cardinality(mine) |-> p]
      BY <1>3, <1>a, <2>1
    <2> QED BY <1>5, <2>2
  <1> QED BY <1>6, <1>7
-----------------------------------------------------------------------------
(***************************************************************************)
(* Faults of the network.                                                   *)
(***************************************************************************)
LEMMA RemoveAtProperties ==
  ASSUME NEW S, NEW s \in Seq(S), NEW i \in 1..Len(s)
  PROVE  /\ RemoveAt(s, i) \in Seq(S)
         /\ Len(RemoveAt(s, i)) = Len(s) - 1
         /\ \A j \in 1..(Len(s) - 1) :
              RemoveAt(s, i)[j] = IF j < i THEN s[j] ELSE s[j + 1]
  <1> DEFINE a == SubSeq(s, 1, i - 1)
             b == SubSeq(s, i + 1, Len(s))
  <1>1. Len(s) \in Nat /\ i \in Nat /\ i >= 1 /\ i <= Len(s)
    BY LenProperties
  <1>2. a \in Seq(S) /\ Len(a) = i - 1 /\ \A j \in 1..(i - 1) : a[j] = s[j]
    BY <1>1, SubSeqProperties
  <1>3. b \in Seq(S) /\ Len(b) = Len(s) - i /\ \A j \in 1..(Len(s) - i) : b[j] = s[i + j]
    BY <1>1, SubSeqProperties
  <1>4. RemoveAt(s, i) = a \o b
    BY DEF RemoveAt
  <1> HIDE DEF a, b
  <1>5. /\ a \o b \in Seq(S) /\ Len(a \o b) = Len(a) + Len(b)
        /\ \A j \in 1..(Len(a) + Len(b)) :
             (a \o b)[j] = IF j <= Len(a) THEN a[j] ELSE b[j - Len(a)]
    BY <1>2, <1>3, ConcatProperties
  <1>6. ASSUME NEW j \in 1..(Len(s) - 1)
        PROVE  (a \o b)[j] = IF j < i THEN s[j] ELSE s[j + 1]
    <2>1. CASE j < i
      BY <1>1, <1>2, <1>3, <1>5, <2>1
    <2>2. CASE ~(j < i)
      <3>1. (a \o b)[j] = b[j - (i - 1)]
        BY <1>1, <1>2, <1>3, <1>5, <2>2
      <3>2. j - (i - 1) \in 1..(Len(s) - i) /\ i + (j - (i - 1)) = j + 1
        BY <1>1, <2>2
      <3> QED BY <1>3, <2>2, <3>1, <3>2
    <2> QED BY <2>1, <2>2
  <1> QED BY <1>1, <1>2, <1>3, <1>4, <1>5, <1>6

\* Losing, repeating or delaying an element of a channel.
Disturbed(old, new, i) ==
  \/ new = RemoveAt(old, i)
  \/ new = Append(old, old[i])
  \/ new = Append(RemoveAt(old, i), old[i])

LEMMA DisturbedElements ==
  ASSUME NEW S, NEW old \in Seq(S), NEW i \in 1..Len(old), NEW new, Disturbed(old, new, i)
  PROVE  /\ new \in Seq(S)
         /\ \A j \in 1..Len(new) : \E k \in 1..Len(old) : new[j] = old[k]
  <1>1. Len(old) \in Nat /\ old[i] \in S
    BY LenProperties, ElementOfSeq
  <1> DEFINE rest == RemoveAt(old, i)
  <1>2. /\ rest \in Seq(S) /\ Len(rest) = Len(old) - 1
        /\ \A j \in 1..Len(rest) : \E k \in 1..Len(old) : rest[j] = old[k]
    <2>1. /\ rest \in Seq(S) /\ Len(rest) = Len(old) - 1
          /\ \A j \in 1..(Len(old) - 1) : rest[j] = IF j < i THEN old[j] ELSE old[j + 1]
      BY <1>1, RemoveAtProperties
    <2> HIDE DEF rest
    <2>2. ASSUME NEW j \in 1..Len(rest)
          PROVE  \E k \in 1..Len(old) : rest[j] = old[k]
      <3>1. j \in 1..Len(old) /\ j + 1 \in 1..Len(old)
        BY <1>1, <2>1
      <3>2. rest[j] = old[j] \/ rest[j] = old[j + 1]
        BY <2>1
      <3> QED BY <3>1, <3>2
    <2> QED BY <2>1, <2>2
  <1> HIDE DEF rest
  <1>3. CASE new = rest
    BY <1>2, <1>3
  <1>4. CASE new = Append(old, old[i])
    <2>1. /\ new \in Seq(S) /\ Len(new) = Len(old) + 1
          /\ \A j \in 1..Len(old) : new[j] = old[j]
          /\ new[Len(old) + 1] = old[i]
      BY <1>1, <1>4, AppendProperties
    <2> QED BY <1>1, <2>1
  <1>5. CASE new = Append(rest, old[i])
    <2>1. /\ new \in Seq(S) /\ Len(new) = Len(rest) + 1
          /\ \A j \in 1..Len(rest) : new[j] = rest[j]
          /\ new[Len(rest) + 1] = old[i]
      BY <1>1, <1>2, <1>5, AppendProperties
    <2>2. ASSUME NEW j \in 1..Len(new)
          PROVE  \E k \in 1..Len(old) : new[j] = old[k]
      <3>1. j \in 1..Len(rest) \/ j = Len(rest) + 1
        BY <1>1, <1>2, <2>1
      <3> QED BY <1>2, <2>1, <3>1
    <2> QED BY <2>1, <2>2
  <1> QED BY <1>3, <1>4, <1>5 DEF Disturbed, rest

LEMMA NetworkFaultCases ==
  ASSUME NetworkFault
  PROVE  /\ UNCHANGED <<pc, m_bp_counter, local, broker_vars>>
         /\ \/ /\ \E i \in 1..Len(to_broker) : Disturbed(to_broker, to_broker', i)
               /\ UNCHANGED to_node
            \/ /\ \E n \in Node : \E i \in 1..Len(to_node[n]) : \E s :
                    Disturbed(to_node[n], s, i) /\ to_node' = [to_node EXCEPT ![n] = s]
               /\ UNCHANGED to_broker
  BY Zenon DEF NetworkFault, Disturbed
-----------------------------------------------------------------------------
(***************************************************************************)
(* A step of one node leaves the others' state and inboxes alone.           *)
(***************************************************************************)
SameNode(m) ==
  /\ pc'[m] = pc[m] /\ call'[m] = call[m] /\ todo'[m] = todo[m]
  /\ m_node_id'[m] = m_node_id[m] /\ m_bp_counter'[m] = m_bp_counter[m]
  /\ ids'[m] = ids[m] /\ queue'[m] = queue[m]
  /\ published'[m] = published[m] /\ delivered'[m] = delivered[m]
  /\ to_node'[m] = to_node[m]

\* What a call of connect() stores of its answer.
WithTypeId(mine, json) == [mine EXCEPT !.message_type_id = json.message_type_id]

LEMMA StoreCases ==
  ASSUME NEW n, NEW json, StoreResult(n, json)
  PROVE  LET e == CallEnd(n)
         IN  \/ /\ CallKind(n) = "node"
                /\ m_node_id' = [m_node_id EXCEPT ![n] = json.node_id] /\ ids' = ids
             \/ /\ CallKind(n) = "type" /\ m_node_id' = m_node_id
                /\ ids' = [ids EXCEPT ![n] = [ids[n] EXCEPT ![e] = WithTypeId(ids[n][e], json)]]
             \/ /\ CallKind(n) = "topic" /\ m_node_id' = m_node_id
                /\ ids' = [ids EXCEPT ![n] =
                             [ids[n] EXCEPT ![e] = WithTopic(n, e, ids[n][e], json)]]
             \/ CallKind(n) = "endpoint" /\ m_node_id' = m_node_id /\ ids' = ids
  <1>1. CallKind(n) \in {"node", "type", "topic", "endpoint"}
    BY DEF CallKind
  <1>2. CASE CallKind(n) = "node"
    BY <1>2 DEF StoreResult
  <1>3. CASE CallKind(n) = "type"
    BY <1>3 DEF StoreResult, WithTypeId
  <1>4. CASE CallKind(n) = "topic"
    BY <1>4 DEF StoreResult
  <1>5. CASE CallKind(n) = "endpoint"
    BY <1>5 DEF StoreResult
  <1> QED BY <1>1, <1>2, <1>3, <1>4, <1>5

LEMMA NodeFrame ==
  ASSUME Domains, NEW n \in Node, NodeStep(n)
  PROVE  Domains' /\ \A m \in Node \ {n} : SameNode(m)
  <1> USE DEF Domains, SameNode, Goto, local
  <1>1. CASE connect(n)
    BY <1>1 DEF connect
  <1>2. CASE send_control(n)
    BY <1>2 DEF send_control
  <1>3. CASE receive_response(n)
    <2>1. /\ UNCHANGED <<todo, m_bp_counter, queue, published, delivered>>
          /\ to_node' = to_node \/ to_node' = [to_node EXCEPT ![n] = Tail(@)]
          /\ \E label \in {"rpc", "idle", "failed", "abort"} : Goto(n, label)
      BY <1>3 DEF receive_response, RpcReturn
    <2>2. UNCHANGED call \/ call' = [call EXCEPT ![n] = @ + 1]
      BY <1>3 DEF receive_response, RpcReturn
    <2>3. UNCHANGED <<m_node_id, ids>> \/ \E json : StoreResult(n, json)
      BY <1>3 DEF receive_response, RpcReturn
    <2>4. DOMAIN m_node_id' = Node /\ \A m \in Node \ {n} : m_node_id'[m] = m_node_id[m]
      BY <2>3, StoreCases
    <2>5. DOMAIN ids' = Node /\ \A m \in Node \ {n} : ids'[m] = ids[m]
      BY <2>3, StoreCases
    <2> QED BY <2>1, <2>2, <2>4, <2>5
  <1>4. CASE SpinReceive(n)
    BY <1>4 DEF SpinReceive, process_incoming_message
  <1>5. CASE SpinReturn(n)
    BY <1>5 DEF SpinReturn
  <1>6. ASSUME NEW e \in End(n), publish(n, e) PROVE Domains' /\ \A m \in Node \ {n} : SameNode(m)
    BY <1>6 DEF publish
  <1>7. ASSUME NEW e \in End(n), run_callback(n, e)
        PROVE  Domains' /\ \A m \in Node \ {n} : SameNode(m)
    BY <1>7 DEF run_callback, ShowFront, Reaches
  <1>8. ASSUME NEW e \in End(n), send_data(n, e)
        PROVE  Domains' /\ \A m \in Node \ {n} : SameNode(m)
    BY <1>8 DEF send_data, Reaches
  <1> QED BY <1>1, <1>2, <1>3, <1>4, <1>5, <1>6, <1>7, <1>8 DEF NodeStep

LEMMA AnsweredFields ==
  ASSUME NEW a \in Answered
  PROVE  /\ a.rpc_id \in BpCounter
         /\ "node_id" \in DOMAIN a => a.node_id \in Nat
         /\ "message_type_id" \in DOMAIN a => a.message_type_id \in Nat
         /\ "topic_id" \in DOMAIN a => a.topic_id \in Nat /\ a.topic_priority \in TopicPriority
  BY DEF Answered, NodeAnswer, TypeAnswer, TopicAnswer, EndpointAnswer, rpc_failure_response

LEMMA IdsUpdated ==
  ASSUME NEW mine \in Ids, NEW json, NEW n, NEW e
  PROVE  /\ json.message_type_id \in Nat => WithTypeId(mine, json) \in Ids
         /\ json.topic_id \in Nat /\ json.topic_priority \in TopicPriority
            => WithTopic(n, e, mine, json) \in Ids
  BY DEF Ids, WithTypeId, WithTopic

LEMMA TailOfQueue ==
  ASSUME NEW S, NEW s \in Seq(S), s # <<>>
  PROVE  /\ Tail(s) \in Seq(S) /\ Head(s) \in S
         /\ Len(s) \in Nat \ {0} /\ Len(Tail(s)) = Len(s) - 1
         /\ Head(s) = s[1] /\ \A i \in 1..(Len(s) - 1) : Tail(s)[i] = s[i + 1]
  BY HeadTailProperties, LenProperties, EmptySeq

LEMMA NodeTypesKept ==
  ASSUME TypeInv, NEW n \in Node, NodeStep(n)
  PROVE  NodeTypes(n)'
  <1>0. /\ NodeTypes(n) /\ Domains
        /\ LastCall(n) \in Nat /\ LastCall(n) >= 1
        /\ QueueCapacity \in Nat
    BY EndsFinite, BoundAssumption DEF TypeInv
  <1>a. NextCounter(m_bp_counter[n]) \in BpCounter
    BY <1>0, Counters DEF NodeTypes
  <1> USE DEF Goto, local, next_bp_counter
  <1>1. CASE connect(n)
    BY <1>0, <1>1 DEF connect, NodeTypes, Domains
  <1>2. CASE send_control(n)
    BY <1>0, <1>a, <1>2 DEF send_control, NodeTypes, Domains
  <1>3. CASE receive_response(n)
    <2>1. /\ UNCHANGED <<todo, m_bp_counter, queue, published, delivered>>
          /\ pc[n] = "wait"
          /\ call[n] \in 1..LastCall(n)
      BY <1>0, <1>3 DEF receive_response, NodeTypes
    <2>a. \/ to_node' = to_node
          \/ to_node[n] # <<>> /\ to_node' = [to_node EXCEPT ![n] = Tail(to_node[n])]
      BY <1>3 DEF receive_response
    <2>2. to_node'[n] \in Seq(Downlink)
      <3>1. to_node[n] \in Seq(Downlink)
        BY <1>0 DEF NodeTypes
      <3>2. to_node[n] # <<>> => Tail(to_node[n]) \in Seq(Downlink)
        BY <3>1, TailOfQueue
      <3> QED BY <1>0, <2>a, <3>1, <3>2 DEF Domains
    <2>3. CASE UNCHANGED <<call, m_node_id, ids>> /\ pc'[n] = "failed"
      BY <1>0, <2>1, <2>2, <2>3 DEF NodeTypes
    <2>4. CASE UNCHANGED <<call, m_node_id, ids>> /\ pc'[n] = "abort"
      BY <1>0, <2>1, <2>2, <2>4 DEF NodeTypes
    <2>5. ASSUME NEW p \in Downlink, RpcSucceeds(p), Wanted(n) \in DOMAIN p.json,
                 StoreResult(n, p.json),
                 call' = [call EXCEPT ![n] = @ + 1],
                 pc'[n] = IF call[n] = LastCall(n) THEN "idle" ELSE "rpc"
          PROVE  NodeTypes(n)'
      <3>1. p.json \in Answered
        BY <2>5, PacketFields DEF RpcSucceeds, Downlink
      <3>2. call'[n] = call[n] + 1 /\ call'[n] \in 1..(LastCall(n) + 1)
        BY <1>0, <2>1, <2>5 DEF Domains
      <3>3. pc'[n] = "rpc" => call'[n] <= LastCall(n)
        BY <1>0, <2>1, <2>5, <3>2
      <3>4. m_node_id'[n] \in Nat /\ ids'[n] \in [End(n) -> Ids]
        <4>1. CallKind(n) # "node" => CallEnd(n) \in End(n)
          BY <2>1, CallEnds
        <4>2. CASE CallKind(n) = "node"
          BY <1>0, <2>5, <3>1, <4>2, StoreCases, AnsweredFields DEF Wanted, NodeTypes, Domains
        <4>3. CASE CallKind(n) = "type"
          <5>1. p.json.message_type_id \in Nat
            BY <2>5, <3>1, <4>3, AnsweredFields DEF Wanted
          <5>2. /\ m_node_id' = m_node_id
                /\ ids'[n] = [ids[n] EXCEPT ![CallEnd(n)] = WithTypeId(ids[n][CallEnd(n)], p.json)]
            BY <1>0, <2>5, <4>3, StoreCases DEF Domains
          <5>3. WithTypeId(ids[n][CallEnd(n)], p.json) \in Ids
            BY <1>0, <4>1, <4>3, <5>1, IdsUpdated DEF NodeTypes
          <5> QED BY <1>0, <5>2, <5>3 DEF NodeTypes
        <4>4. CASE CallKind(n) = "topic"
          <5>1. p.json.topic_id \in Nat /\ p.json.topic_priority \in TopicPriority
            BY <2>5, <3>1, <4>4, AnsweredFields DEF Wanted
          <5>2. /\ m_node_id' = m_node_id
                /\ ids'[n] = [ids[n] EXCEPT ![CallEnd(n)] =
                                WithTopic(n, CallEnd(n), ids[n][CallEnd(n)], p.json)]
            BY <1>0, <2>5, <4>4, StoreCases DEF Domains
          <5>3. WithTopic(n, CallEnd(n), ids[n][CallEnd(n)], p.json) \in Ids
            BY <1>0, <4>1, <4>4, <5>1, IdsUpdated DEF NodeTypes
          <5> QED BY <1>0, <5>2, <5>3 DEF NodeTypes
        <4>5. CASE CallKind(n) = "endpoint"
          BY <1>0, <2>5, <4>5, StoreCases DEF NodeTypes
        <4> QED BY <2>5, <4>2, <4>3, <4>4, <4>5, StoreCases
      <3> QED BY <1>0, <2>1, <2>2, <2>5, <3>2, <3>3, <3>4 DEF NodeTypes
    <2>6. to_node[n] # <<>> => Head(to_node[n]) \in Downlink
      BY <1>0, TailOfQueue DEF NodeTypes
    <2> QED BY <1>0, <1>3, <2>3, <2>4, <2>5, <2>6 DEF receive_response, RpcReturn, Domains
  <1>4. CASE SpinReceive(n)
    <2>a. \/ to_node' = to_node
          \/ to_node[n] # <<>> /\ to_node' = [to_node EXCEPT ![n] = Tail(to_node[n])]
      BY <1>4 DEF SpinReceive
    <2>1. to_node'[n] \in Seq(Downlink)
      <3>1. to_node[n] \in Seq(Downlink)
        BY <1>0 DEF NodeTypes
      <3>2. to_node[n] # <<>> => Tail(to_node[n]) \in Seq(Downlink)
        BY <3>1, TailOfQueue
      <3> QED BY <1>0, <2>a, <3>1, <3>2 DEF Domains
    <2>2. CASE UNCHANGED queue
      BY <1>0, <1>4, <2>1, <2>2 DEF SpinReceive, NodeTypes, Domains
    <2>3. CASE /\ to_node[n] # <<>> /\ Head(to_node[n]).type = "Data"
               /\ process_incoming_message(n, Head(to_node[n]))
      <3> DEFINE p == Head(to_node[n])
      <3>1. p.payload \in Payloads
        BY <1>0, <2>3, TailOfQueue, PacketFields DEF NodeTypes, Downlink
      <3>2. queue'[n] = [e \in End(n) |-> IF e \in Subscribers(n, p.topic_id) /\ ~full(n, e)
                                          THEN Append(queue[n][e], p.payload) ELSE queue[n][e]]
        BY <1>0, <2>3 DEF process_incoming_message, Domains
      <3> HIDE DEF p
      <3>3. ASSUME NEW e \in End(n)
            PROVE  queue'[n][e] \in Seq(Payloads) /\ Len(queue'[n][e]) <= QueueCapacity
        <4>1. queue[n][e] \in Seq(Payloads) /\ Len(queue[n][e]) \in Nat
              /\ Len(queue[n][e]) <= QueueCapacity
          BY <1>0, LenProperties DEF NodeTypes
        <4>2. CASE queue'[n][e] = queue[n][e]
          BY <4>1, <4>2
        <4>3. CASE queue'[n][e] = Append(queue[n][e], p.payload) /\ ~full(n, e)
          BY <1>0, <3>1, <4>1, <4>3, AppendProperties DEF full
        <4> QED BY <3>2, <4>2, <4>3
      <3>4. queue'[n] \in [End(n) -> Seq(Payloads)]
        BY <3>2, <3>3
      <3> QED BY <1>0, <1>4, <2>1, <3>3, <3>4 DEF SpinReceive, NodeTypes, Domains
    <2> QED BY <1>4, <2>2, <2>3 DEF SpinReceive, process_incoming_message
  <1>5. CASE SpinReturn(n)
    BY <1>0, <1>5 DEF SpinReturn, NodeTypes, Domains
  <1>6. ASSUME NEW e \in End(n), publish(n, e) PROVE NodeTypes(n)'
    <2>1. /\ queue[n][e] \in Seq(Payloads) /\ Len(queue[n][e]) \in Nat
          /\ published[n][e] \in Nat
      BY <1>0, LenProperties DEF NodeTypes
    <2>2. Message(n, e, published[n][e] + 1) \in Payloads
      BY <2>1, EndsFinite DEF Message, Payloads, Plain
    <2>3. /\ queue'[n] = [queue[n] EXCEPT ![e] =
                            Append(queue[n][e], Message(n, e, published[n][e] + 1))]
          /\ published'[n] = [published[n] EXCEPT ![e] = published[n][e] + 1]
          /\ ~full(n, e)
      BY <1>0, <1>6 DEF publish, Domains
    <2>4. /\ Append(queue[n][e], Message(n, e, published[n][e] + 1)) \in Seq(Payloads)
          /\ Len(Append(queue[n][e], Message(n, e, published[n][e] + 1))) <= QueueCapacity
      BY <1>0, <2>1, <2>2, <2>3, AppendProperties DEF full
    <2>5. UNCHANGED <<pc, call, todo, m_node_id, m_bp_counter, ids, delivered, to_node>>
      BY <1>6 DEF publish
    <2>6. queue'[n] \in [End(n) -> Seq(Payloads)] /\ published'[n] \in [End(n) -> Nat]
      BY <1>0, <2>1, <2>3, <2>4 DEF NodeTypes
    <2>7. \A f \in End(n) : Len(queue'[n][f]) <= QueueCapacity
      BY <1>0, <2>3, <2>4 DEF NodeTypes
    <2> QED BY <1>0, <2>5, <2>6, <2>7 DEF NodeTypes
  <1>7. ASSUME NEW e \in End(n), run_callback(n, e) PROVE NodeTypes(n)'
    <2>1. queue[n][e] \in Seq(Payloads) /\ queue[n][e] # <<>> /\ delivered[n][e] \in Seq(Payloads)
      BY <1>0, <1>7 DEF NodeTypes, run_callback, ShowFront, Reaches
    <2>2. /\ queue'[n] = [queue[n] EXCEPT ![e] = Tail(queue[n][e])]
          /\ delivered'[n] = [delivered[n] EXCEPT ![e] =
                                Append(delivered[n][e], Head(queue[n][e]))]
          /\ todo'[n] \subseteq todo[n]
      BY <1>0, <1>7 DEF run_callback, ShowFront, Reaches, Domains, After
    <2>3. /\ Tail(queue[n][e]) \in Seq(Payloads)
          /\ Len(Tail(queue[n][e])) <= QueueCapacity
          /\ Append(delivered[n][e], Head(queue[n][e])) \in Seq(Payloads)
      BY <1>0, <2>1, TailOfQueue, AppendProperties DEF NodeTypes
    <2>4. UNCHANGED <<pc, call, m_node_id, m_bp_counter, ids, published, to_node>>
      BY <1>7 DEF run_callback, ShowFront
    <2>5. /\ queue'[n] \in [End(n) -> Seq(Payloads)]
          /\ delivered'[n] \in [End(n) -> Seq(Payloads)]
          /\ \A f \in End(n) : Len(queue'[n][f]) <= QueueCapacity
      <3>1. PICK q, d : q = Tail(queue[n][e]) /\ d = Append(delivered[n][e], Head(queue[n][e]))
        OBVIOUS
      <3>2. /\ queue[n] \in [End(n) -> Seq(Payloads)] /\ delivered[n] \in [End(n) -> Seq(Payloads)]
            /\ \A f \in End(n) : Len(queue[n][f]) <= QueueCapacity
        BY <1>0 DEF NodeTypes
      <3>3. /\ queue'[n] = [queue[n] EXCEPT ![e] = q] /\ delivered'[n] = [delivered[n] EXCEPT ![e] = d]
            /\ q \in Seq(Payloads) /\ d \in Seq(Payloads) /\ Len(q) <= QueueCapacity
        BY <2>2, <2>3, <3>1
      <3> QED BY <3>2, <3>3
    <2> QED BY <1>0, <2>2, <2>4, <2>5 DEF NodeTypes
  <1>8. ASSUME NEW e \in End(n), send_data(n, e) PROVE NodeTypes(n)'
    <2>1. queue[n][e] \in Seq(Payloads) /\ queue[n][e] # <<>> /\ pc[n] = "spin"
      BY <1>0, <1>8 DEF NodeTypes, send_data, Reaches
    <2>2. /\ queue' = queue \/ queue'[n] = [queue[n] EXCEPT ![e] = Tail(queue[n][e])]
          /\ todo'[n] \subseteq todo[n]
          /\ m_bp_counter'[n] = NextCounter(m_bp_counter[n])
          /\ pc'[n] \in {"spin", "idle"}
      BY <1>0, <1>8, <2>1 DEF send_data, Reaches, Domains, After
    <2>3. /\ Tail(queue[n][e]) \in Seq(Payloads)
          /\ Len(Tail(queue[n][e])) <= QueueCapacity
      BY <1>0, <2>1, TailOfQueue DEF NodeTypes
    <2>4. UNCHANGED <<call, m_node_id, ids, published, delivered, to_node>>
      BY <1>8 DEF send_data
    <2>5. /\ queue'[n] \in [End(n) -> Seq(Payloads)]
          /\ \A f \in End(n) : Len(queue'[n][f]) <= QueueCapacity
      BY <1>0, <2>2, <2>3 DEF NodeTypes
    <2> QED BY <1>0, <1>a, <2>2, <2>4, <2>5 DEF NodeTypes
  <1> QED BY <1>1, <1>2, <1>3, <1>4, <1>5, <1>6, <1>7, <1>8 DEF NodeStep
-----------------------------------------------------------------------------
(***************************************************************************)
(* What a step of a node appends to the broker's socket buffer.             *)
(***************************************************************************)
SendsRequest(n) ==
  /\ pc[n] = "rpc" /\ pc'[n] = "wait"
  /\ m_bp_counter'[n] = NextCounter(m_bp_counter[n])
  /\ to_broker' = Append(to_broker,
       [from |-> n, packet |-> ControlPacket(NextCounter(m_bp_counter[n]), Request(n))])

SendsMessage(n, e) ==
  /\ pc[n] = "spin" /\ pc'[n] = "spin"
  /\ IsPub(n, e) /\ queue[n][e] # <<>>
  /\ m_bp_counter'[n] = NextCounter(m_bp_counter[n])
  /\ to_broker' = Append(to_broker,
       [from |-> n, packet |-> DataPacket(NextCounter(m_bp_counter[n]), ids[n][e].topic_id,
                                          ids[n][e].message_type_id, Head(queue[n][e]))])

LEMMA NodeSends ==
  ASSUME Domains, NEW n \in Node, NodeStep(n)
  PROVE  \/ to_broker' = to_broker
         \/ send_control(n) /\ SendsRequest(n)
         \/ \E e \in End(n) : send_data(n, e) /\ SendsMessage(n, e)
  <1>1. CASE connect(n)
    BY <1>1 DEF connect
  <1>2. CASE send_control(n)
    BY <1>2 DEF send_control, SendsRequest, Transmit, Goto, next_bp_counter, Domains
  <1>3. CASE receive_response(n)
    BY <1>3 DEF receive_response
  <1>4. CASE SpinReceive(n)
    BY <1>4 DEF SpinReceive
  <1>5. CASE SpinReturn(n)
    BY <1>5 DEF SpinReturn
  <1>6. ASSUME NEW e \in End(n), publish(n, e) PROVE to_broker' = to_broker
    BY <1>6 DEF publish
  <1>7. ASSUME NEW e \in End(n), run_callback(n, e) PROVE to_broker' = to_broker
    BY <1>7 DEF run_callback, ShowFront
  <1>8. ASSUME NEW e \in End(n), send_data(n, e)
        PROVE  to_broker' = to_broker \/ SendsMessage(n, e)
    BY <1>8 DEF send_data, Reaches, SendsMessage, Transmit, next_bp_counter, Domains
  <1> QED BY <1>1, <1>2, <1>3, <1>4, <1>5, <1>6, <1>7, <1>8 DEF NodeStep

LEMMA PacketsMade ==
  ASSUME NEW n \in Node, NEW k \in BpCounter
  PROVE  /\ \A r \in Asked : [from |-> n, packet |-> ControlPacket(k, r)] \in Uplink
         /\ \A t \in Nat, m \in Nat, d \in Payloads :
              [from |-> n, packet |-> DataPacket(k, t, m, d)] \in Uplink
  <1>1. \A r \in Asked : ControlPacket(k, r) \in Requests
    BY DEF Requests
  <1>2. \A t \in Nat, m \in Nat, d \in Payloads : DataPacket(k, t, m, d) \in Messages
    BY DEF Messages
  <1> QED BY <1>1, <1>2 DEF Uplink

LEMMA UplinkKept ==
  ASSUME TypeInv, NEW n \in Node, NodeStep(n)
  PROVE  to_broker' \in Seq(Uplink)
  <1>1. NodeTypes(n) /\ Domains /\ to_broker \in Seq(Uplink)
    BY DEF TypeInv
  <1>2. NextCounter(m_bp_counter[n]) \in BpCounter
    BY <1>1, Counters DEF NodeTypes
  <1>3. CASE to_broker' = to_broker
    BY <1>1, <1>3
  <1>4. CASE SendsRequest(n)
    <2>1. Request(n) \in Asked
      BY <1>4, RequestAsked DEF SendsRequest
    <2>2. [from |-> n, packet |-> ControlPacket(NextCounter(m_bp_counter[n]), Request(n))]
            \in Uplink
      BY <1>2, <2>1, PacketsMade
    <2> QED BY <1>1, <1>4, <2>2, AppendProperties DEF SendsRequest
  <1>5. ASSUME NEW e \in End(n), SendsMessage(n, e) PROVE to_broker' \in Seq(Uplink)
    <2>1. /\ Head(queue[n][e]) \in Payloads
          /\ ids[n][e].topic_id \in Nat /\ ids[n][e].message_type_id \in Nat
      BY <1>1, <1>5, TailOfQueue DEF NodeTypes, SendsMessage, Ids
    <2>2. [from |-> n, packet |-> DataPacket(NextCounter(m_bp_counter[n]), ids[n][e].topic_id,
                                    ids[n][e].message_type_id, Head(queue[n][e]))] \in Uplink
      BY <1>2, <2>1, PacketsMade
    <2> QED BY <1>1, <1>5, <2>2, AppendProperties DEF SendsMessage
  <1> QED BY <1>1, <1>3, <1>4, <1>5, NodeSends
-----------------------------------------------------------------------------
(***************************************************************************)
(* The steps keep the types.                                                *)
(***************************************************************************)
LEMMA ReplyDownlink ==
  ASSUME NEW k \in BpCounter, NEW a \in Answered
  PROVE  ControlPacket(k, a) \in Downlink
  BY DEF Downlink, Answers

LEMMA ArrivalsTyped ==
  ASSUME TypeInv, BrokerInv, BrokerSpin, NEW n \in Node
  PROVE  Arrivals(n) \in Seq(Downlink)
  <1> DEFINE c == Head(to_broker).from
             p == Head(to_broker).packet
  <1>1. c \in Node /\ p \in Requests \cup Messages /\ BrokerEffect(c, p)
    BY HeadOfUplink, BrokerSpinEffect DEF BrokerSpin
  <1> HIDE DEF c, p
  <1>2. CASE sent' = <<>>
    BY <1>2, NoArrivals, EmptySeq
  <1>3. CASE p \in Requests /\ Replies(c, p)
    <2>1. PICK a \in Answered, ok \in BOOLEAN :
            sent' = <<[to |-> c, packet |-> ControlPacket(p.counter, a), ok |-> ok]>>
      BY <1>3 DEF Replies
    <2>2. ControlPacket(p.counter, a) \in Downlink
      BY <1>3, PacketFields, ReplyDownlink
    <2>3. Arrivals(n) \in {<<>>, <<ControlPacket(p.counter, a)>>}
      BY <2>1, ReplyArrives
    <2>4. \A x \in Downlink : <<x>> \in Seq(Downlink)
      OBVIOUS
    <2> QED BY <2>2, <2>3, <2>4, EmptySeq
  <1>4. CASE p \in Messages /\ Forwards(p)
    <2>1. Arrivals(n) \in Seq({p})
      BY <1>4, ForwardsArrive
    <2>2. {p} \subseteq Downlink
      BY <1>4 DEF Downlink
    <2> QED BY <2>1, <2>2
  <1> QED BY <1>1, <1>2, <1>3, <1>4 DEF BrokerEffect

LEMMA BrokerKept ==
  ASSUME TypeInv, BrokerInv, [Next]_vars
  PROVE  B!TypeOK' /\ BrokerInv'
  <1>1. BP!TypeOK /\ BP!RegistryInv /\ BP!PrioritiesReal
    BY SameState DEF TypeInv, BrokerInv
  <1>2. CASE [BP!Next]_(BP!vars)
    <2>1. BP!TypeOK'
      BY <1>1, <1>2, BP!TypeStep, RegistryAssumption, CounterModAssumption
    <2>2. BP!RegistryInv'
      BY <1>1, <1>2, BP!RegistryInvStep, RegistryAssumption, CounterModAssumption
    <2>3. BP!PrioritiesReal'
      BY <1>1, <1>2, BP!PrioritiesStep, RegistryAssumption, CounterModAssumption
    <2>4. BP!TypeOK' => B!TypeOK'
      BY DEF B!TypeOK, BP!TypeOK, B!NoCounter, BP!NoCounter, B!NodeInfo, BP!NodeInfo,
             B!MessageTypeInfo, BP!MessageTypeInfo, B!Topic, BP!Topic, B!BpCounter, BP!BpCounter
    <2> QED BY <2>1, <2>2, <2>3, <2>4 DEF BrokerInv
  <1>3. CASE BrokerRestart
    <2>1. B!TypeOK'
      BY <1>3, EmptySeq DEF BrokerRestart, B!TypeOK
    <2>2. Len(<<>>) = 0
      OBVIOUS
    <2>3. BP!RegistryInv' /\ BP!PrioritiesReal'
      BY <1>3, <2>2 DEF BrokerRestart, BP!RegistryInv, BP!NamesUnique, BP!EndpointsServable,
                        BP!PrioritiesReal
    <2> QED BY <2>1, <2>3 DEF BrokerInv
  <1>4. \/ UNCHANGED broker_vars \/ BrokerSpin \/ BrokerRestart
    BY DEF Next, vars, NetworkFault
  <1> QED BY <1>2, <1>3, <1>4, BrokerSteps, BrokerUnchanged

LEMMA TailOfUplink ==
  ASSUME TypeInv, to_broker # <<>>
  PROVE  /\ Tail(to_broker) \in Seq(Uplink)
         /\ Len(Tail(to_broker)) = Len(to_broker) - 1
         /\ \A i \in 1..(Len(to_broker) - 1) : Tail(to_broker)[i] = to_broker[i + 1]
  BY TailOfQueue DEF TypeInv

LEMMA TypeInvStep ==
  ASSUME TypeInv, BrokerInv, [Next]_vars
  PROVE  TypeInv' /\ BrokerInv'
  <1>0. B!TypeOK' /\ BrokerInv'
    BY BrokerKept
  <1>a. Domains /\ to_broker \in Seq(Uplink) /\ \A m \in Node : NodeTypes(m)
    BY DEF TypeInv
  <1>1. CASE UNCHANGED vars
    <2>1. Domains' /\ \A m \in Node : NodeTypes(m)'
      BY <1>a, <1>1 DEF vars, node_vars, local, Domains, NodeTypes
    <2> QED BY <1>0, <1>a, <1>1, <2>1 DEF TypeInv, vars, node_vars
  <1>2. ASSUME NEW n \in Node, NodeStep(n), UNCHANGED broker_vars PROVE TypeInv'
    <2>1. Domains' /\ \A m \in Node \ {n} : SameNode(m)
      BY <1>a, <1>2, NodeFrame
    <2>2. NodeTypes(n)' /\ to_broker' \in Seq(Uplink)
      BY <1>2, NodeTypesKept, UplinkKept
    <2>3. ASSUME NEW m \in Node \ {n} PROVE NodeTypes(m)'
      BY <1>a, <2>1, <2>3 DEF SameNode, NodeTypes
    <2> QED BY <1>0, <2>1, <2>2, <2>3 DEF TypeInv
  <1>3. CASE BrokerSpin
    <2>1. /\ to_broker' = Tail(to_broker) /\ to_broker # <<>>
          /\ to_node' = [m \in Node |-> to_node[m] \o Arrivals(m)]
          /\ UNCHANGED <<pc, m_bp_counter, local>>
      BY <1>3 DEF BrokerSpin
    <2>2. to_broker' \in Seq(Uplink)
      BY <2>1, TailOfUplink
    <2>3. ASSUME NEW m \in Node PROVE to_node'[m] \in Seq(Downlink)
      <3>1. to_node[m] \in Seq(Downlink) /\ Arrivals(m) \in Seq(Downlink)
        BY <1>a, <1>3, ArrivalsTyped DEF NodeTypes
      <3> HIDE DEF Arrivals
      <3>2. to_node'[m] = to_node[m] \o Arrivals(m)
        BY <2>1
      <3> QED BY <3>1, <3>2, ConcatProperties
    <2>4. Domains'
      BY <1>a, <2>1 DEF Domains, local
    <2>5. ASSUME NEW m \in Node PROVE NodeTypes(m)'
      BY <1>a, <2>1, <2>3 DEF NodeTypes, local
    <2> QED BY <1>0, <2>2, <2>4, <2>5 DEF TypeInv
  <1>4. CASE BrokerRestart
    <2>1. to_broker' = <<>> /\ UNCHANGED <<pc, m_bp_counter, local, to_node>>
      BY <1>4 DEF BrokerRestart
    <2>2. Domains' /\ \A m \in Node : NodeTypes(m)'
      BY <1>a, <2>1 DEF local, Domains, NodeTypes
    <2> QED BY <1>0, <2>1, <2>2, EmptySeq DEF TypeInv
  <1>5. CASE NetworkFault
    <2>1. UNCHANGED <<pc, m_bp_counter, local>>
      BY <1>5, NetworkFaultCases
    <2>2. CASE /\ \E i \in 1..Len(to_broker) : Disturbed(to_broker, to_broker', i)
               /\ UNCHANGED to_node
      <3>1. to_broker' \in Seq(Uplink)
        BY <1>a, <2>2, DisturbedElements
      <3>2. Domains' /\ \A m \in Node : NodeTypes(m)'
        BY <1>a, <2>1, <2>2 DEF local, Domains, NodeTypes
      <3> QED BY <1>0, <3>1, <3>2 DEF TypeInv
    <2>3. ASSUME NEW n \in Node, NEW i \in 1..Len(to_node[n]), NEW s,
                 Disturbed(to_node[n], s, i), to_node' = [to_node EXCEPT ![n] = s],
                 UNCHANGED to_broker
          PROVE  TypeInv'
      <3>1. s \in Seq(Downlink)
        BY <1>a, <2>3, DisturbedElements DEF NodeTypes
      <3>2. \A m \in Node : to_node'[m] \in Seq(Downlink)
        BY <1>a, <2>3, <3>1 DEF NodeTypes, Domains
      <3>3. Domains'
        BY <1>a, <2>1, <2>3 DEF local, Domains
      <3>4. ASSUME NEW m \in Node PROVE NodeTypes(m)'
        BY <1>a, <2>1, <3>2 DEF local, NodeTypes
      <3> QED BY <1>0, <1>a, <2>3, <3>3, <3>4 DEF TypeInv
    <2> QED BY <1>0, <1>5, <2>2, <2>3, NetworkFaultCases, Zenon
  <1> QED BY <1>0, <1>1, <1>2, <1>3, <1>4, <1>5 DEF Next

LEMMA TypeInvInit ==
  ASSUME Init
  PROVE  TypeInv /\ BrokerInv
  <1>1. B!TypeOK
    BY EmptySeq DEF Init, B!Init, B!TypeOK
  <1>2. BrokerInv
    <2>1. Len(<<>>) = 0
      OBVIOUS
    <2> QED BY <2>1 DEF Init, B!Init, BrokerInv, BP!RegistryInv, BP!NamesUnique,
                        BP!EndpointsServable, BP!PrioritiesReal
  <1>3. Domains
    BY DEF Init, NodeInit, Domains
  <1>4. to_broker \in Seq(Uplink)
    BY EmptySeq DEF Init, NodeInit
  <1>5. ASSUME NEW n \in Node PROVE NodeTypes(n)
    <2>1. 0 \in BpCounter /\ LastCall(n) \in Nat /\ LastCall(n) >= 1
      BY Counters, EndsFinite
    <2>2. /\ m_bp_counter[n] = 0 /\ m_node_id[n] = 0 /\ call[n] = 1 /\ pc[n] = "new"
          /\ todo[n] = {} /\ to_node[n] = <<>>
          /\ queue[n] = [e \in End(n) |-> <<>>] /\ delivered[n] = [e \in End(n) |-> <<>>]
          /\ published[n] = [e \in End(n) |-> 0]
          /\ ids[n] = [e \in End(n) |->
                        [message_type_id |-> 0, topic_id |-> 0,
                         topic_priority |-> Endpoint[n][e].priority]]
      BY DEF Init, NodeInit
    <2>3. ids[n] \in [End(n) -> Ids]
      BY <2>2, EndsFinite DEF Ids
    <2>4. <<>> \in Seq(Payloads) /\ <<>> \in Seq(Downlink) /\ Len(<<>>) = 0
      BY EmptySeq
    <2>5. QueueCapacity \in Nat
      BY BoundAssumption
    <2> QED BY <2>1, <2>2, <2>3, <2>4, <2>5 DEF NodeTypes
  <1> QED BY <1>1, <1>2, <1>3, <1>4, <1>5 DEF TypeInv

(***************************************************************************)
(* The composition is sound: whatever the nodes, the network and the faults *)
(* do, every packet in a socket is one that a handler understands, and the  *)
(* registry inside the running broker keeps the invariant that Broker has   *)
(* against arbitrary packets.  Every other theorem about PubSub rests on    *)
(* it.                                                                      *)
(***************************************************************************)
THEOREM SystemInv == Spec => [](TypeInv /\ BrokerInv)
<1>1. Init => TypeInv /\ BrokerInv
  BY TypeInvInit
<1>2. TypeInv /\ BrokerInv /\ [Next]_vars => TypeInv' /\ BrokerInv'
  BY TypeInvStep
<1> QED BY <1>1, <1>2, PTL DEF Spec

LEMMA TypeInvImplies ==
  TypeInv => TypeOK
  <1> SUFFICES ASSUME TypeInv PROVE TypeOK
    OBVIOUS
  <1>1. Domains /\ \A n \in Node : NodeTypes(n)
    BY DEF TypeInv
  <1>2. m_bp_counter \in [Node -> BpCounter]
    <2>1. /\ m_bp_counter = [n \in Node |-> m_bp_counter[n]]
          /\ \A n \in Node : m_bp_counter[n] \in BpCounter
      BY <1>1 DEF Domains, NodeTypes
    <2> QED BY <2>1
  <1> QED BY <1>1, <1>2 DEF TypeInv, TypeOK, Domains, NodeTypes

(***************************************************************************)
(* Every variable keeps its type whatever faults happen: packet counters    *)
(* stay 32-bit values, the plan of connect() is never overrun, and no       *)
(* message queue outgrows the capacity it was created with.                 *)
(***************************************************************************)
THEOREM TypeCorrect == Spec => []TypeOK
<1>1. TypeInv => TypeOK
  BY TypeInvImplies
<1> QED BY <1>1, SystemInv, PTL
-----------------------------------------------------------------------------
\* The counter of n's packets that the broker stores when it takes the head of the uplink.
LEMMA StoredCounter ==
  ASSUME TypeInv, BrokerInv, BrokerSpin, NEW n \in Node
  PROVE  \/ m_client_counters'[n] = m_client_counters[n]
         \/ /\ n = Head(to_broker).from
            /\ m_client_counters'[n] = Head(to_broker).packet.counter
            /\ B!Accepts(n, Head(to_broker).packet.counter)
  <1> DEFINE c == Head(to_broker).from
             p == Head(to_broker).packet
  <1>1. c \in Node /\ BrokerEffect(c, p)
    BY HeadOfUplink, BrokerSpinEffect DEF BrokerSpin
  <1>2. m_client_counters \in [Node -> BpCounter \cup {-1}]
    BY DEF TypeInv, B!TypeOK, B!BpCounter, BpCounter, B!NoCounter
  <1> HIDE DEF c, p
  <1>3. CASE UNCHANGED m_client_counters
    BY <1>3
  <1>4. CASE B!verify_and_update_client_counter(c, p.counter)
    <2>1. /\ m_client_counters' = [m_client_counters EXCEPT ![c] = p.counter]
          /\ B!Accepts(c, p.counter)
      BY <1>4 DEF B!verify_and_update_client_counter
    <2>2. CASE n = c
      BY <1>1, <1>2, <2>1, <2>2 DEF c, p
    <2>3. CASE n # c
      BY <1>1, <1>2, <2>1, <2>3
    <2> QED BY <2>2, <2>3
  <1> QED BY <1>1, <1>3, <1>4 DEF BrokerEffect

LEMMA CounterSteps ==
  ASSUME NEW k \in BpCounter
  PROVE  /\ k + 1 < CounterMod => NextCounter(k) = k + 1
         /\ NextCounter(k) \in {0, k + 1}
  <1>1. k \in Nat /\ k + 1 <= CounterMod /\ CounterMod \in Nat /\ CounterMod > 0
    BY CounterModAssumption DEF BpCounter
  <1>2. CASE k + 1 < CounterMod
    BY <1>1, <1>2 DEF NextCounter
  <1>3. CASE k + 1 = CounterMod
    <2>1. CounterMod % CounterMod = 0
      BY <1>1
    <2> QED BY <1>1, <1>3, <2>1 DEF NextCounter
  <1> QED BY <1>1, <1>2, <1>3

\* Every packet of n towards the broker was there before the step.
Uplinked(n) ==
  \A i \in 1..Len(to_broker') :
    to_broker'[i].from = n => \E k \in 1..Len(to_broker) : to_broker'[i] = to_broker[k]

LEMMA FaultKeepsUplink ==
  ASSUME TypeInv, NetworkFault, NEW n
  PROVE  Uplinked(n)
  <1>1. CASE UNCHANGED to_broker
    BY <1>1 DEF Uplinked
  <1>2. ASSUME NEW i \in 1..Len(to_broker), Disturbed(to_broker, to_broker', i)
        PROVE  Uplinked(n)
    <2>1. to_broker \in Seq(Uplink)
      BY DEF TypeInv
    <2>2. \A j \in 1..Len(to_broker') : \E k \in 1..Len(to_broker) : to_broker'[j] = to_broker[k]
      BY <1>2, <2>1, DisturbedElements
    <2> QED BY <2>2 DEF Uplinked
  <1> QED BY <1>1, <1>2, NetworkFaultCases

\* What a step may add to n's packets towards the broker: one with the next counter.
CountedUp(n) ==
  /\ m_bp_counter'[n] \in {m_bp_counter[n], NextCounter(m_bp_counter[n])}
  /\ \A i \in 1..Len(to_broker') : to_broker'[i].from = n =>
       \/ \E k \in 1..Len(to_broker) : to_broker'[i] = to_broker[k]
       \/ /\ m_bp_counter'[n] = NextCounter(m_bp_counter[n])
          /\ to_broker'[i].packet.counter = m_bp_counter'[n]

LEMMA NodeCountsUp ==
  ASSUME TypeInv, NEW m \in Node, NodeStep(m), NEW n \in Node
  PROVE  CountedUp(n)
  <1>0. Domains /\ to_broker \in Seq(Uplink) /\ m_bp_counter[n] \in BpCounter
    BY DEF TypeInv, NodeTypes
  <1>1. /\ m_bp_counter'[n] \in {m_bp_counter[n], NextCounter(m_bp_counter[n])}
        /\ n # m => m_bp_counter'[n] = m_bp_counter[n]
    BY <1>0 DEF NodeStep, connect, send_control, receive_response, SpinReceive, SpinReturn,
                publish, run_callback, ShowFront, send_data, next_bp_counter, Domains
  <1>2. ASSUME NEW p, p.counter = NextCounter(m_bp_counter[m]),
               m_bp_counter'[m] = NextCounter(m_bp_counter[m]),
               to_broker' = Append(to_broker, [from |-> m, packet |-> p])
        PROVE  CountedUp(n)
    <2> DEFINE u == [from |-> m, packet |-> p]
    <2>1. u.from = m /\ u.packet = p
      OBVIOUS
    <2> HIDE DEF u
    <2>2. /\ Len(to_broker) \in Nat /\ Len(to_broker') = Len(to_broker) + 1
          /\ \A i \in 1..Len(to_broker) : to_broker'[i] = to_broker[i]
          /\ to_broker'[Len(to_broker) + 1] = u
      BY <1>0, <1>2, LenProperties, AppendProperties DEF u
    <2>3. ASSUME NEW i \in 1..Len(to_broker'), to_broker'[i].from = n
          PROVE  \/ \E k \in 1..Len(to_broker) : to_broker'[i] = to_broker[k]
                 \/ /\ m_bp_counter'[n] = NextCounter(m_bp_counter[n])
                    /\ to_broker'[i].packet.counter = m_bp_counter'[n]
      <3>1. i \in 1..Len(to_broker) \/ i = Len(to_broker) + 1
        BY <2>2
      <3> QED BY <1>2, <2>1, <2>2, <2>3, <3>1
    <2> QED BY <1>1, <2>3 DEF CountedUp
  <1>3. CASE to_broker' = to_broker
    BY <1>1, <1>3 DEF CountedUp
  <1>4. CASE SendsRequest(m)
    BY <1>2, <1>4 DEF SendsRequest, ControlPacket
  <1>5. ASSUME NEW e \in End(m), SendsMessage(m, e) PROVE CountedUp(n)
    BY <1>2, <1>5 DEF SendsMessage, DataPacket
  <1> QED BY <1>0, <1>3, <1>4, <1>5, NodeSends

\* The uplink has no new packet with the awaited counter as long as n counts on.
LEMMA WedgeKept ==
  ASSUME TypeInv, TypeInv', NEW n \in Node, Wedged(n), CountedUp(n),
         m_client_counters'[n] = m_client_counters[n]
  PROVE  Wedged(n)' \/ m_bp_counter'[n] < m_bp_counter[n]
  <1> DEFINE c == m_client_counters[n]
             b == m_bp_counter[n]
  <1>1. b \in BpCounter /\ c \in BpCounter /\ c < b
    BY DEF TypeInv, NodeTypes, Wedged, B!TypeOK, B!BpCounter, BpCounter, B!NoCounter
  <1>2. /\ b \in Nat /\ c \in Nat /\ c + 1 < CounterMod /\ NextCounter(c) = c + 1
        /\ m_bp_counter'[n] \in {b, 0, b + 1}
    BY <1>1, CounterSteps, CounterModAssumption DEF BpCounter, CountedUp
  <1>3. SUFFICES ASSUME m_bp_counter'[n] \in {b, b + 1} PROVE Wedged(n)'
    BY <1>1, <1>2
  <1>4. m_client_counters'[n] < m_bp_counter'[n] /\ m_client_counters'[n] # B!NoCounter
    BY <1>1, <1>2, <1>3 DEF Wedged
  <1>5. /\ DOMAIN to_broker = 1..Len(to_broker) /\ DOMAIN to_broker' = 1..Len(to_broker')
    BY LenProperties DEF TypeInv
  <1>6. ASSUME NEW i \in 1..Len(to_broker'), to_broker'[i].from = n
        PROVE  to_broker'[i].packet.counter # NextCounter(c)
    <2>1. CASE \E k \in 1..Len(to_broker) : to_broker'[i] = to_broker[k]
      BY <1>5, <1>6, <2>1 DEF Wedged
    <2>2. CASE /\ m_bp_counter'[n] = NextCounter(b)
               /\ to_broker'[i].packet.counter = m_bp_counter'[n]
      BY <1>1, <1>2, <1>3, <2>2, CounterSteps
    <2> QED BY <1>6, <2>1, <2>2 DEF CountedUp
  <1> QED BY <1>4, <1>5, <1>6 DEF Wedged

(***************************************************************************)
(* A gap in a node's packet counters is final, whatever faults happen: once *)
(* the counter the broker waits for has been used up and is no longer on    *)
(* its way, nothing that any node, the broker or the network does brings a  *)
(* packet with that counter back, and the broker takes nothing from that    *)
(* node, until the broker restarts or the node's counter wraps around.      *)
(***************************************************************************)
THEOREM GapsAreFinal == Spec => GapIsFinal
<1> DEFINE Final(n) == \/ Wedged(n)' /\ m_client_counters'[n] = m_client_counters[n]
                       \/ m_client_counters'[n] = B!NoCounter
                       \/ m_bp_counter'[n] < m_bp_counter[n]
<1>1. ASSUME TypeInv, TypeInv', BrokerInv, [Next]_vars, NEW n \in Node, Wedged(n)
      PROVE  Final(n)
  <2>0. m_bp_counter[n] \in BpCounter
    BY <1>1 DEF TypeInv, NodeTypes
  <2>1. ASSUME NEW m \in Node, NodeStep(m), UNCHANGED broker_vars PROVE Final(n)
    <3>1. m_client_counters'[n] = m_client_counters[n] /\ CountedUp(n)
      BY <1>1, <2>1, NodeCountsUp DEF broker_vars
    <3> QED BY <1>1, <3>1, WedgeKept
  <2>2. CASE BrokerRestart
    BY <2>2 DEF BrokerRestart
  <2>3. CASE BrokerSpin
    <3> DEFINE k == Head(to_broker).packet.counter
    <3>1. /\ to_broker # <<>> /\ to_broker' = Tail(to_broker)
          /\ m_bp_counter' = m_bp_counter
      BY <2>3 DEF BrokerSpin
    <3>2. /\ 1 \in DOMAIN to_broker /\ Head(to_broker) = to_broker[1]
      BY <1>1, <3>1, HeadOfUplink, LenProperties DEF TypeInv
    <3>3. Head(to_broker).from = n => k # NextCounter(m_client_counters[n])
      BY <1>1, <3>2 DEF Wedged
    <3>4. m_client_counters[n] # B!NoCounter
      BY <1>1 DEF Wedged
    <3> HIDE DEF k
    <3>5. B!Accepts(n, k) => NextCounter(m_client_counters[n]) = k
      BY <3>4 DEF B!Accepts, B!NextCounter, NextCounter
    <3>6. m_client_counters'[n] = m_client_counters[n]
      BY <1>1, <2>3, <3>3, <3>5, StoredCounter DEF k
    <3>7. \A i \in 1..Len(to_broker') : \E j \in 1..Len(to_broker) : to_broker'[i] = to_broker[j]
      <4>1. /\ Len(to_broker) \in Nat /\ Len(to_broker') = Len(to_broker) - 1
            /\ \A i \in 1..(Len(to_broker) - 1) : to_broker'[i] = to_broker[i + 1]
        BY <1>1, <3>1, TailOfUplink, HeadOfUplink
      <4>2. \A i \in 1..(Len(to_broker) - 1) : i + 1 \in 1..Len(to_broker)
        BY <4>1
      <4> QED BY <4>1, <4>2
    <3>8. CountedUp(n)
      BY <3>1, <3>7 DEF CountedUp
    <3> QED BY <1>1, <3>6, <3>8, WedgeKept
  <2>4. CASE NetworkFault
    <3>1. UNCHANGED <<m_bp_counter, m_client_counters>> /\ Uplinked(n)
      BY <1>1, <2>4, NetworkFaultCases, FaultKeepsUplink DEF broker_vars
    <3>2. CountedUp(n)
      BY <3>1 DEF Uplinked, CountedUp
    <3> QED BY <1>1, <3>1, <3>2, WedgeKept
  <2>5. CASE UNCHANGED vars
    BY <1>1, <2>5 DEF vars, node_vars, broker_vars, Wedged
  <2> QED BY <1>1, <2>1, <2>2, <2>3, <2>4, <2>5 DEF Next
<1>2. TypeInv /\ BrokerInv /\ (TypeInv /\ BrokerInv)' /\ [Next]_vars =>
        [\A n \in Node : Wedged(n) => Final(n)]_vars
  BY <1>1
<1> QED BY <1>2, SystemInv, PTL DEF Spec, GapIsFinal
-----------------------------------------------------------------------------
(***************************************************************************)
(* A failed send() ends spin_once() early.  That leaves a message behind    *)
(* only in a node that has a publisher and a subscriber.                    *)
(***************************************************************************)
SendsStrandNobody ==
  \/ "send" \notin FaultKind
  \/ \A n \in Node : \A e, f \in End(n) : IsPub(n, e) => ~IsSub(n, f)

\* A message waits in a subscriber's queue only between the receive and the
\* subscriber's turn of the same spin_once().
ServedThisRound(n) ==
  \A e \in End(n) : IsSub(n, e) =>
    /\ pc[n] # "spin" => queue[n][e] = <<>>
    /\ pc[n] = "spin" => \/ queue[n][e] = <<>>
                         \/ e \in todo[n] /\ Len(queue[n][e]) = 1

\* The loops of spin_once() visit any two endpoints in a definite order.
LEMMA OrderIsTotal ==
  ASSUME TypeInv, NEW n \in Node, NEW e \in End(n), NEW f \in End(n), e # f
  PROVE  Before(n, e, f) \/ Before(n, f, e)
  <1>1. ids[n][e].topic_priority \in Int /\ ids[n][f].topic_priority \in Int
    BY RegistryAssumption DEF TypeInv, NodeTypes, Ids
  <1>2. /\ e \in Int /\ f \in Int
        /\ Endpoint[n][e].role \in {"publisher", "subscriber"}
        /\ Endpoint[n][f].role \in {"publisher", "subscriber"}
    BY EndsFinite
  <1> QED BY <1>1, <1>2 DEF Before, IsSub, IsPub

LEMMA NobodyPassedOver ==
  ASSUME TypeInv, NEW n \in Node, NEW e \in End(n), Reaches(n, e),
         NEW f \in todo[n], f # e, queue[n][f] # <<>>
  PROVE  f \in todo'[n]
  <1>1. Domains /\ f \in End(n)
    BY DEF TypeInv, NodeTypes
  <1>2. ~Before(n, f, e)
    BY DEF Reaches
  <1>3. Before(n, e, f)
    BY <1>1, <1>2, OrderIsTotal
  <1> QED BY <1>1, <1>3 DEF Reaches, After, Domains

LEMMA ServedStep ==
  ASSUME SendsStrandNobody, TypeInv, NEW n \in Node, ServedThisRound(n), NodeStep(n)
  PROVE  ServedThisRound(n)'
  <1>0. NodeTypes(n) /\ Domains
    BY DEF TypeInv
  <1>a. \A e \in End(n) : queue[n][e] \in Seq(Payloads)
    BY <1>0 DEF NodeTypes
  <1>b. \A e \in End(n) : ~(IsSub(n, e) /\ IsPub(n, e))
    BY DEF IsSub, IsPub
  <1> USE DEF Goto
  <1>1. CASE connect(n)
    BY <1>0, <1>1 DEF connect, ServedThisRound, Domains, local
  <1>2. CASE send_control(n)
    BY <1>0, <1>2 DEF send_control, ServedThisRound, Domains, local
  <1>3. CASE receive_response(n)
    <2>1. queue' = queue /\ pc[n] = "wait" /\ pc'[n] # "spin"
      BY <1>0, <1>3 DEF receive_response, RpcReturn, Domains
    <2> QED BY <2>1 DEF ServedThisRound
  <1>4. CASE SpinReceive(n)
    <2>1. pc[n] = "idle" /\ pc'[n] = "spin" /\ todo'[n] = End(n)
      BY <1>0, <1>4 DEF SpinReceive, Domains
    <2>2. \A e \in End(n) :
            \/ queue'[n][e] = queue[n][e]
            \/ queue'[n][e] = Append(queue[n][e], Head(to_node[n]).payload)
      <3>1. CASE queue' = queue
        BY <3>1
      <3>2. CASE queue' = [queue EXCEPT ![n] = [e \in End(n) |->
                   IF e \in Subscribers(n, Head(to_node[n]).topic_id) /\ ~full(n, e)
                   THEN Append(queue[n][e], Head(to_node[n]).payload) ELSE queue[n][e]]]
        BY <1>0, <3>2 DEF Domains
      <3> QED BY <1>4, <3>1, <3>2 DEF SpinReceive, process_incoming_message
    <2>3. \A d : Append(<<>>, d) = <<d>> /\ Len(<<d>>) = 1
      OBVIOUS
    <2>4. ASSUME NEW e \in End(n), IsSub(n, e)
          PROVE  queue'[n][e] = <<>> \/ Len(queue'[n][e]) = 1
      <3>1. queue[n][e] = <<>>
        BY <2>1, <2>4 DEF ServedThisRound
      <3> QED BY <2>2, <2>3, <3>1
    <2> QED BY <2>1, <2>4 DEF ServedThisRound
  <1>5. CASE SpinReturn(n)
    BY <1>0, <1>5 DEF SpinReturn, ServedThisRound, Domains
  <1>6. ASSUME NEW e \in End(n), publish(n, e) PROVE ServedThisRound(n)'
    <2>1. /\ UNCHANGED <<pc, todo>> /\ IsPub(n, e)
          /\ \A f \in End(n) : f # e => queue'[n][f] = queue[n][f]
      BY <1>0, <1>6 DEF publish, Domains, NodeTypes
    <2> QED BY <1>b, <2>1 DEF ServedThisRound
  <1>7. ASSUME NEW e \in End(n), run_callback(n, e) PROVE ServedThisRound(n)'
    <2>1. /\ Reaches(n, e) /\ IsSub(n, e) /\ pc[n] = "spin" /\ pc' = pc
          /\ queue'[n] = [queue[n] EXCEPT ![e] = Tail(queue[n][e])]
      BY <1>0, <1>7 DEF run_callback, ShowFront, Reaches, Domains
    <2>2. queue[n][e] # <<>> /\ Len(queue[n][e]) = 1
      BY <2>1 DEF ServedThisRound, Reaches
    <2>3. Tail(queue[n][e]) = <<>>
      <3>1. Tail(queue[n][e]) \in Seq(Payloads) /\ Len(Tail(queue[n][e])) = 0
        BY <1>a, <2>2, TailOfQueue
      <3> QED BY <3>1, EmptySeq
    <2>4. queue'[n][e] = <<>> /\ \A f \in End(n) : f # e => queue'[n][f] = queue[n][f]
      BY <1>0, <2>1, <2>3 DEF NodeTypes
    <2>5. ASSUME NEW f \in End(n), IsSub(n, f), queue'[n][f] # <<>>
          PROVE  f \in todo'[n] /\ Len(queue'[n][f]) = 1
      BY <2>1, <2>4, <2>5, NobodyPassedOver DEF ServedThisRound
    <2> QED BY <2>1, <2>5 DEF ServedThisRound
  <1>8. ASSUME NEW e \in End(n), send_data(n, e) PROVE ServedThisRound(n)'
    <2>1. /\ Reaches(n, e) /\ IsPub(n, e) /\ pc[n] = "spin"
          /\ \A f \in End(n) : f # e => queue'[n][f] = queue[n][f]
      BY <1>0, <1>8 DEF send_data, Reaches, Domains, NodeTypes
    <2>2. CASE pc' = pc
      <3>1. ASSUME NEW f \in End(n), IsSub(n, f), queue'[n][f] # <<>>
            PROVE  f \in todo'[n] /\ Len(queue'[n][f]) = 1
        BY <1>b, <2>1, <3>1, NobodyPassedOver DEF ServedThisRound
      <3> QED BY <2>1, <2>2, <3>1 DEF ServedThisRound
    <2>3. CASE Fault("send")
      BY <2>1, <2>3 DEF Fault, SendsStrandNobody, ServedThisRound
    <2> QED BY <1>8, <2>2, <2>3 DEF send_data
  <1> QED BY <1>1, <1>2, <1>3, <1>4, <1>5, <1>6, <1>7, <1>8 DEF NodeStep

LEMMA ServedInvariant ==
  ASSUME SendsStrandNobody
  PROVE  Spec => [](\A n \in Node : ServedThisRound(n))
<1> DEFINE Served == \A n \in Node : ServedThisRound(n)
<1>1. Init => Served
  BY DEF Init, NodeInit, ServedThisRound
<1>2. TypeInv /\ Served /\ [Next]_vars => Served'
  <2> SUFFICES ASSUME TypeInv, Served, [Next]_vars, NEW m \in Node PROVE ServedThisRound(m)'
    OBVIOUS
  <2>1. ASSUME NEW n \in Node, NodeStep(n) PROVE ServedThisRound(m)'
    <3>1. CASE m = n
      BY <2>1, <3>1, ServedStep
    <3>2. CASE m # n
      <4>1. SameNode(m)
        BY <2>1, <3>2, NodeFrame DEF TypeInv
      <4> QED BY <4>1 DEF SameNode, ServedThisRound
    <3> QED BY <3>1, <3>2
  <2>2. CASE UNCHANGED <<pc, local>>
    BY <2>2 DEF ServedThisRound, local
  <2> QED BY <2>1, <2>2
          DEF Next, vars, node_vars, BrokerSpin, BrokerRestart, NetworkFault
<1> QED BY <1>1, <1>2, SystemInv, PTL DEF Spec

(***************************************************************************)
(* A subscriber's queue never holds more than the one message that the      *)
(* current spin_once() received, so that queue_message(), whose result is   *)
(* ignored, never finds it full: with any number of nodes and endpoints and *)
(* any faults, as long as a failed send() strands nobody.                   *)
(***************************************************************************)
THEOREM SubscribersKeepUp ==
  ASSUME SendsStrandNobody
  PROVE  Spec => []SubscriberKeepsUp
<1> DEFINE Served == \A n \in Node : ServedThisRound(n)
<1>1. Served => SubscriberKeepsUp
  <2>1. ASSUME Served, NEW n \in Node, NEW e \in End(n), IsSub(n, e)
        PROVE  Len(queue[n][e]) <= IF pc[n] = "spin" THEN 1 ELSE 0
    <3>1. CASE queue[n][e] = <<>>
      <4>1. Len(queue[n][e]) = 0
        BY <3>1
      <4> QED BY <4>1
    <3>2. CASE queue[n][e] # <<>>
      <4>1. pc[n] = "spin" /\ Len(queue[n][e]) = 1
        BY <2>1, <3>2 DEF ServedThisRound
      <4> QED BY <4>1
    <3> QED BY <3>1, <3>2
  <2> QED BY <2>1 DEF SubscriberKeepsUp
<1> QED BY <1>1, ServedInvariant, PTL
-----------------------------------------------------------------------------
(***************************************************************************)
(* connect(): why a call gets the answer to its own request, and what a     *)
(* connected node may rely on.                                              *)
(***************************************************************************)

(***************************************************************************)
(* Answers reach a node at most once, and the packet counter does not come  *)
(* round during connect().                                                  *)
(***************************************************************************)
AnswersNotRepeated ==
  /\ "duplicate_down" \notin FaultKind
  /\ \A n \in Node : LastCall(n) < CounterMod

Connecting(n) == pc[n] \in {"new", "rpc", "wait"}

\* A packet of n on its way to the broker while n connects.  A broker that has no
\* counter of n yet takes any packet; then only the latest request is on its way.
Pending(n, p) ==
  /\ p.type = "Control"
  /\ p.counter \in 1..m_bp_counter[n]
  /\ NextCounter(p.json.rpc_id) = p.counter
  /\ m_client_counters[n] = B!NoCounter => pc[n] = "wait" /\ p.counter = m_bp_counter[n]

NothingPending(n) == \A i \in 1..Len(to_broker) : to_broker[i].from # n

\* An answer on its way to n while n connects: to the latest request, which the
\* broker has counted or, restarted since then, will not see again.
Current(n, i) ==
  /\ pc[n] = "wait"
  /\ NextCounter(to_node[n][i].json.rpc_id) = m_bp_counter[n]
  /\ \/ m_client_counters[n] = m_bp_counter[n]
     \/ m_client_counters[n] = B!NoCounter /\ NothingPending(n)
  /\ \A j \in 1..Len(to_node[n]) : to_node[n][j].type = "Control" => j = i

Counted(n) ==
  LET k == m_bp_counter[n]
      last == m_client_counters[n]
  IN  /\ pc[n] = "wait" => k = call[n] /\ last \in {B!NoCounter, k - 1, k}
      /\ pc[n] # "wait" => k = call[n] - 1 /\ last \in {B!NoCounter, k}

ConnectInv(n) ==
  Connecting(n) =>
    /\ Counted(n)
    /\ \A i \in 1..Len(to_broker) : to_broker[i].from = n => Pending(n, to_broker[i].packet)
    /\ \A i \in 1..Len(to_node[n]) : to_node[n][i].type = "Control" => Current(n, i)
-----------------------------------------------------------------------------
(***************************************************************************)
(* What the registry holds for the calls of connect() that returned.        *)
(***************************************************************************)
NodeAgrees(n, id) ==
  /\ id \in Nat /\ B!Known(m_nodes, id)
  /\ B!At(m_nodes, id) = [name |-> Name[n], address |-> n]

TypeAgrees(n, e, id) ==
  /\ id \in Nat /\ B!Known(m_message_types, id)
  /\ B!At(m_message_types, id) = [name |-> Endpoint[n][e].type, size |-> Endpoint[n][e].size]

TopicAgrees(n, e, id) ==
  /\ id \in Nat /\ B!Known(m_topics, id)
  /\ B!At(m_topics, id).name = Endpoint[n][e].topic
  /\ B!At(m_topics, id).message_type_id = ids[n][e].message_type_id

Members(n, e, id) ==
  IF IsPub(n, e) THEN B!At(m_topics, id).publishers ELSE B!At(m_topics, id).subscribers

IsMember(n, e, id) ==
  \E i \in 1..Len(Members(n, e, id)) : Members(n, e, id)[i] = m_node_id[n]

PriorityAgrees(n, e, id) ==
  ids[n][e].topic_priority \in {B!At(m_topics, id).priority} \cup
    (IF IsPub(n, e) THEN {dontcare_topic_priority} ELSE {})

AgreesSoFar(n) ==
  /\ call[n] > 1 => NodeAgrees(n, m_node_id[n])
  /\ \A e \in End(n) :
       /\ call[n] > 3 * e - 1 => TypeAgrees(n, e, ids[n][e].message_type_id)
       /\ call[n] > 3 * e => /\ TopicAgrees(n, e, ids[n][e].topic_id)
                             /\ PriorityAgrees(n, e, ids[n][e].topic_id)
       /\ call[n] > 3 * e + 1 => IsMember(n, e, ids[n][e].topic_id)

\* r asks for what the current call of n is about.
Asks(n, r) ==
  LET e == CallEnd(n)
  IN  /\ CallKind(n) = "node" => r.op = "register_node" /\ r.name = Name[n]
      /\ CallKind(n) = "type" => /\ r.op = "register_message_type"
                                 /\ r.name = Endpoint[n][e].type
                                 /\ r.size = Endpoint[n][e].size
      /\ CallKind(n) = "topic" => /\ r.op = "register_topic"
                                  /\ r.name = Endpoint[n][e].topic
                                  /\ r.message_type_id = ids[n][e].message_type_id
                                  /\ r.priority = ids[n][e].topic_priority
      /\ CallKind(n) = "endpoint" =>
           /\ r.op = IF IsPub(n, e) THEN "add_publisher" ELSE "add_subscriber"
           /\ r.node_id = m_node_id[n]
           /\ r.topic_id = ids[n][e].topic_id
           /\ r.message_type_id = ids[n][e].message_type_id

\* The answer a tells what the registry holds for the current call of n.
Tells(n, a) ==
  LET e == CallEnd(n)
  IN  /\ CallKind(n) = "node" => NodeAgrees(n, a.node_id)
      /\ CallKind(n) = "type" => TypeAgrees(n, e, a.message_type_id)
      /\ CallKind(n) = "topic" =>
           /\ TopicAgrees(n, e, a.topic_id)
           /\ a.topic_priority = B!At(m_topics, a.topic_id).priority
           /\ ids[n][e].topic_priority \in {a.topic_priority, dontcare_topic_priority}
      /\ CallKind(n) = "endpoint" => IsMember(n, e, ids[n][e].topic_id)

Told(n) ==
  pc[n] = "wait" =>
    /\ \A i \in 1..Len(to_broker) :
         to_broker[i].from = n /\ to_broker[i].packet.counter = m_bp_counter[n] =>
           Asks(n, to_broker[i].packet.json)
    /\ \A i \in 1..Len(to_node[n]) :
         to_node[n][i].type = "Control" /\ to_node[n][i].json.success =>
           Tells(n, to_node[n][i].json)

Finished(n) == pc[n] \in {"idle", "spin"} => call[n] = LastCall(n) + 1

AgreeInv(n) == AgreesSoFar(n) /\ Told(n) /\ Finished(n)
-----------------------------------------------------------------------------
(***************************************************************************)
(* Steps that neither move n nor count a packet of n, and bring no answer.  *)
(***************************************************************************)
KeptIn(new, old) ==
  \A i, j \in 1..Len(new) :
    new[i].type = "Control" /\ new[j].type = "Control" =>
      \E x, y \in 1..Len(old) : new[i] = old[x] /\ new[j] = old[y] /\ (x = y => i = j)

InboxKept(n) == KeptIn(to_node'[n], to_node[n])

LEMMA ConnectFrame ==
  ASSUME NEW n \in Node, ConnectInv(n),
         pc'[n] = pc[n], call'[n] = call[n], m_bp_counter'[n] = m_bp_counter[n],
         m_client_counters'[n] = m_client_counters[n],
         Uplinked(n), InboxKept(n)
  PROVE  ConnectInv(n)'
  <1> SUFFICES ASSUME Connecting(n)' PROVE ConnectInv(n)'
    BY DEF ConnectInv
  <1>1. /\ Connecting(n) /\ Counted(n)
        /\ \A i \in 1..Len(to_broker) : to_broker[i].from = n => Pending(n, to_broker[i].packet)
        /\ \A i \in 1..Len(to_node[n]) : to_node[n][i].type = "Control" => Current(n, i)
    BY DEF ConnectInv, Connecting
  <1>2. Counted(n)'
    BY <1>1 DEF Counted
  <1>3. ASSUME NEW i \in 1..Len(to_broker'), to_broker'[i].from = n
        PROVE  Pending(n, to_broker[i].packet)'
    <2>1. PICK k \in 1..Len(to_broker) : to_broker'[i] = to_broker[k]
      BY <1>3 DEF Uplinked
    <2>2. Pending(n, to_broker[k].packet)
      BY <1>1, <1>3, <2>1
    <2> QED BY <2>1, <2>2 DEF Pending
  <1>4. NothingPending(n) => NothingPending(n)'
    BY DEF NothingPending, Uplinked
  <1>5. ASSUME NEW i \in 1..Len(to_node'[n]), to_node'[n][i].type = "Control"
        PROVE  Current(n, i)'
    <2>1. PICK x \in 1..Len(to_node[n]) : to_node'[n][i] = to_node[n][x]
      BY <1>5 DEF InboxKept, KeptIn
    <2>2. Current(n, x)
      BY <1>1, <1>5, <2>1
    <2>3. ASSUME NEW j \in 1..Len(to_node'[n]), to_node'[n][j].type = "Control"
          PROVE  j = i
      <3>1. PICK a \in 1..Len(to_node[n]), b \in 1..Len(to_node[n]) :
              /\ to_node'[n][i] = to_node[n][a] /\ to_node'[n][j] = to_node[n][b]
              /\ a = b => i = j
        BY <1>5, <2>3 DEF InboxKept, KeptIn
      <3>2. Current(n, a) /\ to_node[n][b].type = "Control"
        BY <1>1, <1>5, <2>3, <3>1
      <3> QED BY <3>1, <3>2 DEF Current
    <2> QED BY <1>4, <2>1, <2>2, <2>3 DEF Current
  <1> QED BY <1>2, <1>3, <1>5 DEF ConnectInv

LEMMA SameInbox ==
  ASSUME NEW n, to_node'[n] = to_node[n]
  PROVE  InboxKept(n)
  BY DEF InboxKept, KeptIn

LEMMA MessagesOnly ==
  ASSUME TypeInv, NEW n \in Node, NEW s \in Seq(Messages), to_node'[n] = to_node[n] \o s
  PROVE  InboxKept(n)
  <1>1. to_node[n] \in Seq(Downlink) /\ s \in Seq(Downlink)
    BY DEF TypeInv, NodeTypes, Downlink
  <1>2. Len(to_node[n]) \in Nat /\ Len(s) \in Nat
    BY <1>1, LenProperties
  <1>3. /\ Len(to_node'[n]) = Len(to_node[n]) + Len(s)
        /\ \A i \in 1..Len(to_node'[n]) :
             to_node'[n][i] = IF i <= Len(to_node[n]) THEN to_node[n][i]
                              ELSE s[i - Len(to_node[n])]
    BY <1>1, ConcatProperties
  <1>4. \A i \in 1..Len(s) : s[i] \in Messages
    BY ElementOfSeq
  <1>5. \A i \in 1..Len(s) : s[i].type # "Control"
    BY <1>4, PacketFields
  <1>6. ASSUME NEW i \in 1..Len(to_node'[n]), to_node'[n][i].type = "Control"
        PROVE  i \in 1..Len(to_node[n]) /\ to_node'[n][i] = to_node[n][i]
    <2>1. CASE i <= Len(to_node[n])
      BY <1>2, <1>3, <2>1
    <2>2. CASE ~(i <= Len(to_node[n]))
      <3>1. i - Len(to_node[n]) \in 1..Len(s)
        BY <1>2, <1>3, <2>2
      <3> QED BY <1>3, <1>5, <1>6, <2>2, <3>1
    <2> QED BY <2>1, <2>2
  <1> QED BY <1>6 DEF InboxKept, KeptIn

LEMMA LostOrDelayed ==
  ASSUME NEW S, NEW old \in Seq(S), NEW i \in 1..Len(old), NEW new,
         new = RemoveAt(old, i) \/ new = Append(RemoveAt(old, i), old[i])
  PROVE  KeptIn(new, old)
  <1> DEFINE rest == RemoveAt(old, i)
             X(j) == IF j < i THEN j ELSE IF j < Len(old) THEN j + 1 ELSE i
  <1>1. Len(old) \in Nat /\ i \in Nat /\ i >= 1 /\ i <= Len(old) /\ old[i] \in S
    BY LenProperties, ElementOfSeq
  <1>2. /\ rest \in Seq(S) /\ Len(rest) = Len(old) - 1
        /\ \A j \in 1..(Len(old) - 1) : rest[j] = IF j < i THEN old[j] ELSE old[j + 1]
    BY RemoveAtProperties
  <1>3. \A j \in 1..Len(old) : X(j) \in 1..Len(old)
    BY <1>1
  <1>4. \A j, k \in 1..Len(old) : X(j) = X(k) => j = k
    BY <1>1
  <1>5. \A j \in 1..(Len(old) - 1) : X(j) = IF j < i THEN j ELSE j + 1
    BY <1>1
  <1>6. X(Len(old)) = i
    BY <1>1
  <1> HIDE DEF rest, X
  <1>7. Len(new) <= Len(old) /\ Len(new) \in Nat /\ \A j \in 1..Len(new) : new[j] = old[X(j)]
    <2>1. CASE new = rest
      BY <1>1, <1>2, <1>5, <2>1
    <2>2. CASE new = Append(rest, old[i])
      <3>1. /\ Len(new) = Len(old)
            /\ \A j \in 1..(Len(old) - 1) : new[j] = rest[j]
            /\ new[Len(old)] = old[i]
        BY <1>1, <1>2, <2>2, AppendProperties
      <3>2. \A j \in 1..(Len(old) - 1) : new[j] = old[X(j)]
        BY <1>2, <1>5, <3>1
      <3>3. new[Len(old)] = old[X(Len(old))]
        BY <1>6, <3>1
      <3> QED BY <1>1, <3>1, <3>2, <3>3
    <2> QED BY <2>1, <2>2 DEF rest
  <1>8. ASSUME NEW j \in 1..Len(new), NEW k \in 1..Len(new)
        PROVE  \E x, y \in 1..Len(old) :
                 new[j] = old[x] /\ new[k] = old[y] /\ (x = y => j = k)
    <2>1. j \in 1..Len(old) /\ k \in 1..Len(old)
      BY <1>1, <1>7
    <2>2. X(j) \in 1..Len(old) /\ X(k) \in 1..Len(old)
      BY <1>3, <2>1
    <2>3. new[j] = old[X(j)] /\ new[k] = old[X(k)] /\ (X(j) = X(k) => j = k)
      BY <1>4, <1>7, <2>1
    <2> QED BY <2>2, <2>3
  <1> QED BY <1>8 DEF KeptIn

LEMMA FaultKeepsInboxes ==
  ASSUME TypeInv, "duplicate_down" \notin FaultKind, NetworkFault, NEW n \in Node
  PROVE  InboxKept(n)
  <1>1. \/ UNCHANGED to_node
        \/ \E m \in Node : \E i \in 1..Len(to_node[m]) : \E s :
             /\ s = RemoveAt(to_node[m], i) \/ s = Append(RemoveAt(to_node[m], i), to_node[m][i])
             /\ to_node' = [to_node EXCEPT ![m] = s]
    BY Zenon DEF NetworkFault, Fault
  <1>2. CASE to_node'[n] = to_node[n]
    BY <1>2, SameInbox
  <1>3. ASSUME NEW m \in Node, NEW i \in 1..Len(to_node[m]), NEW s,
               s = RemoveAt(to_node[m], i) \/ s = Append(RemoveAt(to_node[m], i), to_node[m][i]),
               to_node' = [to_node EXCEPT ![m] = s]
        PROVE  InboxKept(n)
    <2>1. to_node[m] \in Seq(Downlink) /\ DOMAIN to_node = Node
      BY DEF TypeInv, NodeTypes, Domains
    <2>2. CASE m = n
      <3>1. to_node'[n] = s
        BY <1>3, <2>1, <2>2
      <3>2. KeptIn(s, to_node[n])
        BY <1>3, <2>1, <2>2, LostOrDelayed
      <3> QED BY <3>1, <3>2 DEF InboxKept
    <2>3. CASE m # n
      BY <1>2, <1>3, <2>1, <2>3
    <2> QED BY <2>2, <2>3
  <1> QED BY <1>1, <1>2, <1>3

(***************************************************************************)
(* While n connects, the broker counts only n's latest request, and no      *)
(* answer is on its way to n then.                                          *)
(***************************************************************************)
LEMMA CountsLatest ==
  ASSUME AnswersNotRepeated, TypeInv, NEW n \in Node, ConnectInv(n), Connecting(n),
         to_broker # <<>>, Head(to_broker).from = n,
         B!Accepts(n, Head(to_broker).packet.counter)
  PROVE  /\ pc[n] = "wait"
         /\ Head(to_broker).packet.type = "Control"
         /\ Head(to_broker).packet.counter = m_bp_counter[n]
         /\ NextCounter(Head(to_broker).packet.json.rpc_id) = m_bp_counter[n]
         /\ \A i \in 1..Len(to_node[n]) : to_node[n][i].type # "Control"
  <1> DEFINE p == Head(to_broker).packet
             k == m_bp_counter[n]
             last == m_client_counters[n]
  <1>1. /\ 1 \in 1..Len(to_broker) /\ to_broker[1].from = n /\ to_broker[1].packet = p
    BY HeadOfUplink
  <1>2. Pending(n, p) /\ Counted(n) /\ ~NothingPending(n)
    BY <1>1 DEF ConnectInv, NothingPending
  <1>3. /\ k \in BpCounter /\ k \in Nat /\ call[n] \in Nat /\ call[n] >= 1
        /\ pc[n] = "wait" => call[n] < CounterMod
    BY EndsFinite, CounterModAssumption
       DEF TypeInv, NodeTypes, BpCounter, AnswersNotRepeated, Connecting
  <1>4. p.counter \in Nat /\ p.counter >= 1 /\ p.counter <= k
    BY <1>2, <1>3 DEF Pending
  <1>5. last # k
    <2>1. NextCounter(k) # p.counter /\ k # B!NoCounter
      BY <1>3, <1>4, CounterSteps DEF B!NoCounter
    <2>2. B!Accepts(n, p.counter)
      OBVIOUS
    <2>3. \A j : B!NextCounter(j) = NextCounter(j)
      BY DEF B!NextCounter, NextCounter
    <2> HIDE DEF k, p
    <2> QED BY <2>1, <2>2, <2>3 DEF B!Accepts
  <1>6. pc[n] = "wait"
    BY <1>2, <1>5 DEF Counted, Pending
  <1>7. p.counter = k
    <2>1. CASE last = B!NoCounter
      BY <1>2, <2>1 DEF Pending
    <2>2. CASE last # B!NoCounter
      <3>1. last = k - 1
        BY <1>2, <1>5, <1>6, <2>2 DEF Counted
      <3>2. k - 1 \in BpCounter /\ (k - 1) + 1 < CounterMod /\ (k - 1) + 1 = k
        BY <1>2, <1>3, <1>6, CounterModAssumption DEF Counted, BpCounter
      <3>3. NextCounter(k - 1) = k
        BY <3>2, CounterSteps
      <3>4. NextCounter(last) = p.counter
        <4>1. \A j : B!NextCounter(j) = NextCounter(j)
          BY DEF B!NextCounter, NextCounter
        <4> QED BY <2>2, <4>1 DEF B!Accepts
      <3> QED BY <3>1, <3>3, <3>4
    <2> QED BY <2>1, <2>2
  <1>8. \A i \in 1..Len(to_node[n]) : to_node[n][i].type # "Control"
    BY <1>2, <1>5 DEF ConnectInv, Current
  <1> QED BY <1>2, <1>6, <1>7, <1>8 DEF Pending

(***************************************************************************)
(* What one iteration of the broker brings to n: messages, or the answer to *)
(* the request of n that it handled.                                        *)
(***************************************************************************)
Answers1(n, p) ==
  /\ p \in Requests
  /\ \E ok \in BOOLEAN : B!process_control_request(n, p, ok)
  /\ \E a \in Answered, ok \in BOOLEAN :
       /\ a.rpc_id = p.json.rpc_id
       /\ sent' = <<[to |-> n, packet |-> ControlPacket(p.counter, a), ok |-> ok]>>
       /\ to_node'[n] = Append(to_node[n], ControlPacket(p.counter, a))

LEMMA SpinDelivers ==
  ASSUME TypeInv, BrokerInv, BrokerSpin, NEW n \in Node
  PROVE  \/ \E s \in Seq(Messages) : to_node'[n] = to_node[n] \o s
         \/ n = Head(to_broker).from /\ Answers1(n, Head(to_broker).packet)
  <1> DEFINE c == Head(to_broker).from
             p == Head(to_broker).packet
  <1>1. c \in Node /\ p \in Requests \cup Messages /\ BrokerEffect(c, p)
    BY HeadOfUplink, BrokerSpinEffect DEF BrokerSpin
  <1>2. to_node'[n] = to_node[n] \o Arrivals(n)
    BY DEF BrokerSpin
  <1>3. to_node[n] \in Seq(Downlink)
    BY DEF TypeInv, NodeTypes
  <1> SUFFICES \/ \E s \in Seq(Messages) : to_node'[n] = to_node[n] \o s
               \/ n = c /\ Answers1(n, p)
    OBVIOUS
  <1> HIDE DEF c, p
  <1>4. CASE Arrivals(n) \in Seq(Messages)
    BY <1>2, <1>4
  <1>5. CASE sent' = <<>>
    BY <1>4, <1>5, NoArrivals, EmptySeq
  <1>6. CASE p \in Messages /\ Forwards(p)
    <2>1. Arrivals(n) \in Seq({p}) /\ {p} \subseteq Messages
      BY <1>6, ForwardsArrive
    <2> QED BY <1>4, <2>1
  <1>7. CASE p \in Requests /\ Replies(c, p) /\ \E ok \in BOOLEAN : B!process_control_request(c, p, ok)
    <2>1. PICK a \in Answered, ok \in BOOLEAN :
            /\ a.rpc_id = p.json.rpc_id
            /\ sent' = <<[to |-> c, packet |-> ControlPacket(p.counter, a), ok |-> ok]>>
      BY <1>7 DEF Replies
    <2>2. /\ n = c => Arrivals(n) \in {<<>>, <<ControlPacket(p.counter, a)>>}
          /\ n # c => Arrivals(n) = <<>>
      BY <2>1, ReplyArrives
    <2>3. CASE Arrivals(n) = <<>>
      BY <1>4, <2>3, EmptySeq
    <2>4. CASE n = c /\ Arrivals(n) = <<ControlPacket(p.counter, a)>>
      <3>1. \A x : to_node[n] \o <<x>> = Append(to_node[n], x)
        BY <1>3, AppendIsConcat
      <3>2. to_node'[n] = Append(to_node[n], ControlPacket(p.counter, a))
        BY <1>2, <2>4, <3>1
      <3> QED BY <1>7, <2>1, <2>4, <3>2, Zenon DEF Answers1
    <2> QED BY <2>2, <2>3, <2>4
  <1> QED BY <1>1, <1>5, <1>6, <1>7 DEF BrokerEffect

LEMMA UplinkShifts ==
  ASSUME TypeInv, BrokerSpin, NEW n
  PROVE  Uplinked(n)
  <1>1. to_broker # <<>> /\ to_broker' = Tail(to_broker)
    BY DEF BrokerSpin
  <1>2. /\ Len(to_broker) \in Nat /\ Len(to_broker') = Len(to_broker) - 1
        /\ \A i \in 1..(Len(to_broker) - 1) : to_broker'[i] = to_broker[i + 1]
    BY <1>1, TailOfUplink, HeadOfUplink
  <1>3. ASSUME NEW i \in 1..Len(to_broker')
        PROVE  \E k \in 1..Len(to_broker) : to_broker'[i] = to_broker[k]
    <2>1. i + 1 \in 1..Len(to_broker) /\ to_broker'[i] = to_broker[i + 1]
      BY <1>2
    <2> QED BY <2>1
  <1> QED BY <1>3 DEF Uplinked

LEMMA ConnectBrokerStep ==
  ASSUME AnswersNotRepeated, TypeInv, BrokerInv, NEW n \in Node, ConnectInv(n), BrokerSpin
  PROVE  ConnectInv(n)'
  <1> DEFINE p == Head(to_broker).packet
  <1>0. /\ UNCHANGED <<pc, m_bp_counter, call>> /\ to_broker # <<>> /\ Uplinked(n)
        /\ p \in Requests \cup Messages
    BY UplinkShifts, HeadOfUplink DEF BrokerSpin, local
  <1>1. CASE ~Connecting(n)
    BY <1>0, <1>1 DEF ConnectInv, Connecting
  <1>2. CASE Connecting(n) /\ m_client_counters'[n] = m_client_counters[n]
    <2>1. CASE \E s \in Seq(Messages) : to_node'[n] = to_node[n] \o s
      BY <1>0, <1>2, <2>1, MessagesOnly, ConnectFrame
    <2>2. CASE n = Head(to_broker).from /\ Answers1(n, p)
      <3>1. B!Accepts(n, p.counter) /\ m_client_counters'[n] = p.counter
        <4>1. B!verify_and_update_client_counter(n, p.counter)
          BY <2>2, ControlEffect DEF Answers1
        <4>2. m_client_counters \in [Node -> BpCounter \cup {-1}]
          BY DEF TypeInv, B!TypeOK, B!BpCounter, BpCounter, B!NoCounter
        <4> QED BY <4>1, <4>2 DEF B!verify_and_update_client_counter
      <3>2. /\ p.counter = m_bp_counter[n] /\ m_bp_counter[n] \in BpCounter
        BY <1>0, <1>2, <2>2, <3>1, CountsLatest DEF TypeInv, NodeTypes
      <3>3. NextCounter(m_bp_counter[n]) # m_bp_counter[n] /\ m_bp_counter[n] # B!NoCounter
        BY <3>2, CounterSteps, CounterModAssumption DEF BpCounter, NextCounter, B!NoCounter
      <3>4. \A j : B!NextCounter(j) = NextCounter(j)
        BY DEF B!NextCounter, NextCounter
      <3> QED BY <1>2, <3>1, <3>2, <3>3, <3>4 DEF B!Accepts
    <2> QED BY <2>1, <2>2, SpinDelivers
  <1>3. CASE /\ Connecting(n) /\ n = Head(to_broker).from
             /\ m_client_counters'[n] = p.counter /\ B!Accepts(n, p.counter)
    <2>1. /\ pc[n] = "wait" /\ p.type = "Control" /\ p.counter = m_bp_counter[n]
          /\ NextCounter(p.json.rpc_id) = m_bp_counter[n]
          /\ \A i \in 1..Len(to_node[n]) : to_node[n][i].type # "Control"
      BY <1>0, <1>3, CountsLatest
    <2>2. Counted(n) /\ m_bp_counter[n] \in BpCounter
      BY <1>3 DEF ConnectInv, TypeInv, NodeTypes
    <2>3. Counted(n)'
      BY <1>0, <1>3, <2>1, <2>2 DEF Counted
    <2>4. ASSUME NEW i \in 1..Len(to_broker'), to_broker'[i].from = n
          PROVE  Pending(n, to_broker[i].packet)'
      <3>1. PICK k \in 1..Len(to_broker) : to_broker'[i] = to_broker[k]
        BY <1>0, <2>4 DEF Uplinked
      <3>2. Pending(n, to_broker[k].packet)
        BY <1>3, <2>4, <3>1 DEF ConnectInv
      <3>3. m_client_counters'[n] # B!NoCounter
        BY <1>3, <2>1, <2>2 DEF B!NoCounter, BpCounter
      <3> QED BY <1>0, <3>1, <3>2, <3>3 DEF Pending
    <2>5. ASSUME NEW i \in 1..Len(to_node'[n]), to_node'[n][i].type = "Control"
          PROVE  Current(n, i)'
      <3>1. CASE \E s \in Seq(Messages) : to_node'[n] = to_node[n] \o s
        <4>1. InboxKept(n)
          BY <3>1, MessagesOnly
        <4>2. \E x \in 1..Len(to_node[n]) : to_node'[n][i] = to_node[n][x]
          BY <2>5, <4>1 DEF InboxKept, KeptIn
        <4> QED BY <2>1, <2>5, <4>2
      <3>2. CASE Answers1(n, p)
        <4>1. PICK a \in Answered : /\ a.rpc_id = p.json.rpc_id
                                    /\ to_node'[n] = Append(to_node[n], ControlPacket(p.counter, a))
          BY <3>2 DEF Answers1
        <4>2. /\ Len(to_node[n]) \in Nat /\ Len(to_node'[n]) = Len(to_node[n]) + 1
              /\ \A j \in 1..Len(to_node[n]) : to_node'[n][j] = to_node[n][j]
              /\ to_node'[n][Len(to_node[n]) + 1] = ControlPacket(p.counter, a)
          <5>1. to_node[n] \in Seq(Downlink) /\ ControlPacket(p.counter, a) \in Downlink
            BY <3>2, PacketFields, ReplyDownlink DEF TypeInv, NodeTypes, Answers1
          <5> QED BY <4>1, <5>1, AppendProperties, LenProperties
        <4>3. \A j \in 1..Len(to_node'[n]) :
                to_node'[n][j].type = "Control" => j = Len(to_node[n]) + 1
          BY <2>1, <4>2
        <4>4. to_node'[n][i].json.rpc_id = p.json.rpc_id
          BY <2>5, <4>1, <4>2, <4>3 DEF ControlPacket
        <4> QED BY <1>0, <1>3, <2>1, <2>5, <4>3, <4>4 DEF Current
      <3> QED BY <3>1, <3>2, SpinDelivers
    <2> QED BY <2>3, <2>4, <2>5 DEF ConnectInv
  <1> QED BY <1>1, <1>2, <1>3, StoredCounter

LEMMA RequestRpcId ==
  ASSUME NEW n
  PROVE  Request(n).rpc_id = m_bp_counter[n]
  BY DEF Request, CallKind, rpc_id, RegisterNodeRequest, RegisterMessageTypeRequest,
         RegisterTopicRequest, AddEndpointRequest

\* A packet of another node, or none, joins the broker's socket buffer.
LEMMA AppendedElements ==
  ASSUME NEW S, NEW old \in Seq(S), NEW u \in S, NEW new, new = Append(old, u),
         NEW i \in 1..Len(new)
  PROVE  (i \in 1..Len(old) /\ new[i] = old[i]) \/ (i = Len(old) + 1 /\ new[i] = u)
  BY AppendProperties, LenProperties

LEMMA OthersPackets ==
  ASSUME TypeInv, NEW m \in Node, NodeStep(m), NEW n, n # m
  PROVE  Uplinked(n)
  <1>1. Domains /\ to_broker \in Seq(Uplink) /\ to_broker' \in Seq(Uplink)
    BY UplinkKept DEF TypeInv
  <1>2. to_broker' = to_broker \/ \E u : u.from = m /\ to_broker' = Append(to_broker, u)
    <2>1. \A q : [from |-> m, packet |-> q].from = m
      OBVIOUS
    <2> QED BY <1>1, <2>1, NodeSends, Zenon DEF SendsRequest, SendsMessage
  <1>3. ASSUME NEW u, u.from = m, to_broker' = Append(to_broker, u) PROVE Uplinked(n)
    <2>1. Len(to_broker) \in Nat /\ DOMAIN to_broker = 1..Len(to_broker)
      BY <1>1, LenProperties
    <2>2. /\ Len(to_broker') = Len(to_broker) + 1
          /\ to_broker'[Len(to_broker) + 1] = u
          /\ \A i \in 1..Len(to_broker) : to_broker'[i] = to_broker[i]
      BY <1>1, <1>3, <2>1
    <2> QED BY <1>3, <2>1, <2>2 DEF Uplinked
  <1>4. CASE to_broker' = to_broker
    BY <1>4 DEF Uplinked
  <1> QED BY <1>2, <1>3, <1>4

LEMMA ConnectNodeStep ==
  ASSUME AnswersNotRepeated, TypeInv, NEW n \in Node, ConnectInv(n),
         NodeStep(n), UNCHANGED broker_vars
  PROVE  ConnectInv(n)'
  <1>0. Domains /\ NodeTypes(n) /\ m_client_counters' = m_client_counters
    BY DEF TypeInv, broker_vars
  <1>a. /\ m_bp_counter[n] \in BpCounter /\ m_bp_counter[n] \in Nat
        /\ call[n] \in Nat /\ call[n] >= 1 /\ LastCall(n) \in Nat
        /\ CounterMod \in Nat /\ LastCall(n) < CounterMod
    BY <1>0, EndsFinite, CounterModAssumption DEF NodeTypes, BpCounter, AnswersNotRepeated
  <1> USE DEF Goto
  <1>1. CASE connect(n)
    <2>1. /\ UNCHANGED <<m_bp_counter, call, to_broker, to_node>>
          /\ pc[n] = "new" /\ pc'[n] \in {"rpc", "failed"}
      BY <1>0, <1>1 DEF connect, local, Domains
    <2>2. pc'[n] = "rpc" => Counted(n)' /\ Connecting(n)
      BY <1>0, <2>1 DEF ConnectInv, Connecting, Counted
    <2>3. NothingPending(n)' <=> NothingPending(n)
      BY <2>1 DEF NothingPending
    <2> QED BY <1>0, <2>1, <2>2, <2>3 DEF ConnectInv, Connecting, Pending, Current
  <1>2. CASE send_control(n)
    <2>1. /\ to_node' = to_node /\ call' = call /\ pc[n] = "rpc"
          /\ pc'[n] # "failed" => SendsRequest(n)
          /\ pc'[n] \in {"wait", "failed"}
          /\ m_bp_counter'[n] = NextCounter(m_bp_counter[n])
      BY <1>0, <1>2 DEF send_control, SendsRequest, Transmit, next_bp_counter, local, Domains
    <2>2. CASE pc'[n] = "failed"
      BY <2>2 DEF ConnectInv, Connecting
    <2>3. CASE pc'[n] = "wait"
      <3>1. /\ Counted(n) /\ call[n] <= LastCall(n)
            /\ \A i \in 1..Len(to_broker) : to_broker[i].from = n => Pending(n, to_broker[i].packet)
            /\ \A i \in 1..Len(to_node[n]) : to_node[n][i].type # "Control"
        BY <1>0, <2>1 DEF ConnectInv, Connecting, NodeTypes, Current
      <3>2. /\ m_bp_counter[n] = call[n] - 1
            /\ m_client_counters[n] \in {B!NoCounter, m_bp_counter[n]}
        BY <2>1, <3>1 DEF Counted
      <3>3. m_bp_counter'[n] = m_bp_counter[n] + 1 /\ m_bp_counter'[n] \in Nat
        BY <1>a, <2>1, <3>1, <3>2, CounterSteps
      <3>4. Counted(n)'
        BY <1>0, <1>a, <2>1, <2>3, <3>2, <3>3 DEF Counted
      <3>5. ASSUME NEW i \in 1..Len(to_broker'), to_broker'[i].from = n
            PROVE  Pending(n, to_broker[i].packet)'
        <4> DEFINE q == ControlPacket(NextCounter(m_bp_counter[n]), Request(n))
                   u == [from |-> n, packet |-> q]
        <4>1. to_broker' = Append(to_broker, u) /\ to_broker \in Seq(Uplink) /\ u \in Uplink
          <5>1. Request(n) \in Asked /\ NextCounter(m_bp_counter[n]) \in BpCounter
            BY <1>a, <2>1, RequestAsked, Counters
          <5> QED BY <2>1, <2>3, <5>1, PacketsMade DEF SendsRequest, TypeInv
        <4>2. /\ q.counter = m_bp_counter'[n] /\ q.json = Request(n) /\ q.type = "Control"
              /\ u.packet = q
          BY <2>1 DEF ControlPacket
        <4> HIDE DEF u, q
        <4>3. CASE i \in 1..Len(to_broker) /\ to_broker'[i] = to_broker[i]
          <5>1. Pending(n, to_broker[i].packet) /\ m_client_counters[n] # B!NoCounter
            BY <2>1, <3>1, <3>5, <4>3 DEF Pending
          <5>2. to_broker[i].packet.counter \in 1..m_bp_counter'[n]
            BY <1>a, <3>3, <5>1 DEF Pending
          <5> QED BY <1>0, <4>3, <5>1, <5>2 DEF Pending
        <4>4. CASE to_broker'[i] = u
          <5>1. NextCounter(q.json.rpc_id) = q.counter
            BY <2>1, <4>2, RequestRpcId
          <5>2. m_bp_counter'[n] \in 1..m_bp_counter'[n]
            BY <1>a, <3>3
          <5> QED BY <2>3, <4>2, <4>4, <5>1, <5>2 DEF Pending
        <4> QED BY <4>1, <4>3, <4>4, AppendedElements
      <3> QED BY <2>1, <3>1, <3>4, <3>5 DEF ConnectInv
    <2> QED BY <2>1, <2>2, <2>3
  <1>3. CASE receive_response(n)
    <2>1. /\ pc[n] = "wait" /\ UNCHANGED <<m_bp_counter, to_broker>>
          /\ pc'[n] \in {"rpc", "idle", "failed", "abort"}
      BY <1>0, <1>3 DEF receive_response, RpcReturn, Domains
    <2>2. CASE pc'[n] # "rpc"
      BY <2>1, <2>2 DEF ConnectInv, Connecting
    <2>3. CASE pc'[n] = "rpc"
      <3>1. /\ to_node[n] # <<>> /\ Head(to_node[n]).type = "Control"
            /\ call'[n] = call[n] + 1 /\ to_node'[n] = Tail(to_node[n])
        BY <1>0, <1>3, <2>3 DEF receive_response, RpcReturn, RpcSucceeds, Domains
      <3>2. /\ Len(to_node[n]) \in Nat /\ Len(to_node[n]) >= 1
            /\ Len(to_node'[n]) = Len(to_node[n]) - 1
            /\ Head(to_node[n]) = to_node[n][1]
            /\ \A i \in 1..(Len(to_node[n]) - 1) : to_node'[n][i] = to_node[n][i + 1]
        BY <1>0, <3>1, TailOfQueue DEF NodeTypes
      <3>3. Current(n, 1) /\ Counted(n)
        BY <2>1, <3>1, <3>2 DEF ConnectInv, Connecting
      <3>4. Counted(n)'
        BY <1>0, <1>a, <2>1, <2>3, <3>1, <3>3 DEF Counted, Current
      <3>5. ASSUME NEW i \in 1..Len(to_broker'), to_broker'[i].from = n
            PROVE  Pending(n, to_broker[i].packet)'
        <4>1. Pending(n, to_broker[i].packet) /\ ~NothingPending(n)
          BY <2>1, <3>5 DEF ConnectInv, Connecting, NothingPending
        <4>2. m_client_counters[n] # B!NoCounter
          BY <1>a, <3>3, <4>1 DEF Current, B!NoCounter
        <4> QED BY <1>0, <2>1, <4>1, <4>2 DEF Pending
      <3>6. ASSUME NEW i \in 1..Len(to_node'[n]) PROVE to_node'[n][i].type # "Control"
        <4>1. i + 1 \in 1..Len(to_node[n]) /\ i + 1 # 1 /\ to_node'[n][i] = to_node[n][i + 1]
          BY <3>2
        <4> QED BY <3>3, <4>1 DEF Current
      <3> QED BY <3>4, <3>5, <3>6 DEF ConnectInv
    <2> QED BY <2>2, <2>3
  <1>4. CASE SpinReceive(n) \/ SpinReturn(n)
    BY <1>0, <1>4 DEF SpinReceive, SpinReturn, ConnectInv, Connecting, Domains
  <1>5. ASSUME NEW e \in End(n), publish(n, e) PROVE ConnectInv(n)'
    <2>1. UNCHANGED <<pc, call, m_bp_counter, to_broker, to_node>>
      BY <1>5 DEF publish
    <2>2. Uplinked(n) /\ InboxKept(n)
      BY <2>1, SameInbox DEF Uplinked
    <2> QED BY <1>0, <2>1, <2>2, ConnectFrame
  <1>6. ASSUME NEW e \in End(n), run_callback(n, e) \/ send_data(n, e) PROVE ConnectInv(n)'
    BY <1>0, <1>6 DEF run_callback, ShowFront, send_data, Reaches, ConnectInv, Connecting, Domains
  <1> QED BY <1>1, <1>2, <1>3, <1>4, <1>5, <1>6 DEF NodeStep

LEMMA ConnectStep ==
  ASSUME AnswersNotRepeated, TypeInv, BrokerInv, [Next]_vars, NEW n \in Node, ConnectInv(n)
  PROVE  ConnectInv(n)'
  <1>1. ASSUME NEW m \in Node, NodeStep(m), UNCHANGED broker_vars PROVE ConnectInv(n)'
    <2>1. CASE m = n
      BY <1>1, <2>1, ConnectNodeStep
    <2>2. CASE m # n
      <3>1. SameNode(n) /\ Uplinked(n)
        BY <1>1, <2>2, NodeFrame, OthersPackets DEF TypeInv
      <3> QED BY <1>1, <3>1, SameInbox, ConnectFrame DEF SameNode, broker_vars
    <2> QED BY <2>1, <2>2
  <1>2. CASE BrokerSpin
    BY <1>2, ConnectBrokerStep
  <1>3. CASE BrokerRestart
    <2>1. /\ UNCHANGED <<pc, m_bp_counter, call, to_node>> /\ to_broker' = <<>>
          /\ m_client_counters'[n] = B!NoCounter
      BY <1>3 DEF BrokerRestart, local
    <2>2. Len(to_broker') = 0
      BY <2>1
    <2>3. NothingPending(n)' /\ \A i \in 1..Len(to_broker') : FALSE
      BY <2>2 DEF NothingPending
    <2>4. Counted(n) => Counted(n)'
      BY <2>1 DEF Counted
    <2>5. ASSUME NEW i, Current(n, i) PROVE Current(n, i)'
      BY <2>1, <2>3, <2>5 DEF Current
    <2> QED BY <2>1, <2>3, <2>4, <2>5 DEF ConnectInv, Connecting
  <1>4. CASE NetworkFault
    <2>1. UNCHANGED <<pc, m_bp_counter, call, m_client_counters>>
      BY <1>4, NetworkFaultCases DEF local, broker_vars
    <2>2. Uplinked(n) /\ InboxKept(n)
      BY <1>4, FaultKeepsUplink, FaultKeepsInboxes DEF AnswersNotRepeated
    <2> QED BY <2>1, <2>2, ConnectFrame
  <1>5. CASE UNCHANGED vars
    <2>1. UNCHANGED <<pc, m_bp_counter, call, m_client_counters, to_broker, to_node>>
      BY <1>5 DEF vars, node_vars, local, broker_vars
    <2> QED BY <2>1, SameInbox, ConnectFrame DEF Uplinked
  <1> QED BY <1>1, <1>2, <1>3, <1>4, <1>5 DEF Next

LEMMA ConnectInvariant ==
  ASSUME AnswersNotRepeated
  PROVE  Spec => [](\A n \in Node : ConnectInv(n))
<1>1. Init => \A n \in Node : ConnectInv(n)
  <2> SUFFICES ASSUME Init, NEW n \in Node PROVE ConnectInv(n)
    OBVIOUS
  <2>1. /\ pc[n] = "new" /\ call[n] = 1 /\ m_bp_counter[n] = 0
        /\ m_client_counters[n] = B!NoCounter /\ to_broker = <<>> /\ to_node[n] = <<>>
    BY DEF Init, NodeInit, B!Init
  <2>2. Len(to_broker) = 0 /\ Len(to_node[n]) = 0
    BY <2>1
  <2> QED BY <2>1, <2>2 DEF ConnectInv, Counted
<1>2. TypeInv /\ BrokerInv /\ (\A n \in Node : ConnectInv(n)) /\ [Next]_vars
      => (\A n \in Node : ConnectInv(n))'
  BY ConnectStep
<1> QED BY <1>1, <1>2, SystemInv, PTL DEF Spec

(***************************************************************************)
(* broker_rpc_blocking takes the next control packet for its answer and     *)
(* never compares rpc_id.  It is right to do so, for every number of nodes  *)
(* and endpoints and with requests and answers lost, delayed, requests      *)
(* repeated and the broker restarted: the only answer on its way is the one *)
(* to the request just sent.                                                *)
(***************************************************************************)
THEOREM AnswersAreMatched ==
  ASSUME AnswersNotRepeated
  PROVE  Spec => []AnswersMatch
<1>1. TypeInv /\ (\A n \in Node : ConnectInv(n)) => AnswersMatch
  <2> SUFFICES ASSUME TypeInv, \A n \in Node : ConnectInv(n), NEW n \in Node, pc[n] = "wait",
                      NEW i \in DOMAIN to_node[n], to_node[n][i].type = "Control"
               PROVE  NextCounter(to_node[n][i].json.rpc_id) = m_bp_counter[n]
    BY DEF AnswersMatch
  <2>1. i \in 1..Len(to_node[n])
    BY LenProperties DEF TypeInv, NodeTypes
  <2> QED BY <2>1 DEF ConnectInv, Connecting, Current
<1> QED BY <1>1, ConnectInvariant, SystemInv, PTL
-----------------------------------------------------------------------------
(***************************************************************************)
(* The registry only grows while the broker process runs.                   *)
(***************************************************************************)
BrokerStays == "restart" \notin FaultKind

Longer(old, new) == \A i \in 1..Len(old) : i \in 1..Len(new) /\ new[i] = old[i]

Grown ==
  /\ \A id \in Nat : B!Known(m_nodes, id) =>
       B!Known(m_nodes', id) /\ B!At(m_nodes', id) = B!At(m_nodes, id)
  /\ \A id \in Nat : B!Known(m_message_types, id) =>
       /\ B!Known(m_message_types', id)
       /\ B!At(m_message_types', id) = B!At(m_message_types, id)
  /\ \A id \in Nat : B!Known(m_topics, id) =>
       /\ B!Known(m_topics', id)
       /\ B!At(m_topics', id).name = B!At(m_topics, id).name
       /\ B!At(m_topics', id).message_type_id = B!At(m_topics, id).message_type_id
       /\ B!At(m_topics', id).priority = B!At(m_topics, id).priority
       /\ Longer(B!At(m_topics, id).publishers, B!At(m_topics', id).publishers)
       /\ Longer(B!At(m_topics, id).subscribers, B!At(m_topics', id).subscribers)

LEMMA PrefixKnown ==
  ASSUME NEW old, NEW new, Len(old) \in Nat, Len(new) \in Nat, BP!SamePrefix(old, new),
         NEW id \in Nat, B!Known(old, id)
  PROVE  B!Known(new, id) /\ B!At(new, id) = B!At(old, id)
  BY DEF BP!SamePrefix, B!Known, B!At

LEMMA RegistryGrows ==
  ASSUME BrokerStays, TypeInv, [Next]_vars
  PROVE  Grown
  <1>0. /\ Len(m_nodes) \in Nat /\ Len(m_message_types) \in Nat /\ Len(m_topics) \in Nat
        /\ m_topics \in Seq(B!Topic)
    BY LenProperties DEF TypeInv, B!TypeOK
  <1>a. ASSUME NEW s PROVE Longer(s, s)
    BY DEF Longer
  <1>1. CASE UNCHANGED broker_vars
    BY <1>1, <1>a DEF Grown, broker_vars
  <1>2. CASE BrokerSpin
    <2>1. BP!TypeOK /\ BP!Next
      BY <1>2, BrokerSteps, SameState DEF TypeInv
    <2>2. /\ BP!SamePrefix(m_nodes, m_nodes')
          /\ BP!SamePrefix(m_message_types, m_message_types')
          /\ Len(m_nodes') \in Nat /\ Len(m_message_types') \in Nat
      BY <2>1, BP!VectorsGrow, RegistryAssumption, CounterModAssumption
    <2>3. BP!KeepsTopics
      BY <2>1, BP!TopicsKept, RegistryAssumption, CounterModAssumption
    <2>4. BP!TypeOK'
      BY <2>1, BP!TypeStep, RegistryAssumption, CounterModAssumption
    <2>5. m_topics' \in Seq(BP!Topic) /\ Len(m_topics') \in Nat
      BY <2>4, LenProperties DEF BP!TypeOK
    <2>6. ASSUME NEW s \in Seq(Nat), NEW t \in Seq(Nat), BP!SamePrefix(s, t)
          PROVE  Longer(s, t)
      <3>1. Len(s) \in Nat /\ Len(t) \in Nat
        BY LenProperties
      <3> QED BY <2>6, <3>1 DEF BP!SamePrefix, Longer
    <2>7. ASSUME NEW id \in Nat, B!Known(m_topics, id)
          PROVE  /\ B!Known(m_topics', id)
                 /\ B!At(m_topics', id).name = B!At(m_topics, id).name
                 /\ B!At(m_topics', id).message_type_id = B!At(m_topics, id).message_type_id
                 /\ B!At(m_topics', id).priority = B!At(m_topics, id).priority
                 /\ Longer(B!At(m_topics, id).publishers, B!At(m_topics', id).publishers)
                 /\ Longer(B!At(m_topics, id).subscribers, B!At(m_topics', id).subscribers)
      <3> DEFINE i == id + 1
      <3>1. i \in 1..Len(m_topics) /\ i \in 1..Len(m_topics')
        BY <1>0, <2>3, <2>5, <2>7 DEF B!Known, BP!KeepsTopics
      <3>2. /\ \A f \in {"name", "message_type_id", "priority"} : m_topics'[i][f] = m_topics[i][f]
            /\ BP!SamePrefix(m_topics[i].publishers, m_topics'[i].publishers)
            /\ BP!SamePrefix(m_topics[i].subscribers, m_topics'[i].subscribers)
        BY <2>3, <3>1 DEF BP!KeepsTopics
      <3>3. m_topics[i] \in B!Topic /\ m_topics'[i] \in BP!Topic
        BY <1>0, <2>5, <3>1, ElementOfSeq
      <3>4. /\ m_topics[i].publishers \in Seq(Nat) /\ m_topics[i].subscribers \in Seq(Nat)
            /\ m_topics'[i].publishers \in Seq(Nat) /\ m_topics'[i].subscribers \in Seq(Nat)
        BY <3>3 DEF B!Topic, BP!Topic
      <3>5. /\ Longer(m_topics[i].publishers, m_topics'[i].publishers)
            /\ Longer(m_topics[i].subscribers, m_topics'[i].subscribers)
        BY <2>6, <3>2, <3>4
      <3>6. B!Known(m_topics', id)
        BY <2>5, <3>1 DEF B!Known
      <3> QED BY <3>2, <3>5, <3>6 DEF B!At
    <2> QED BY <1>0, <2>2, <2>7, PrefixKnown DEF Grown
  <1>3. ~BrokerRestart
    BY DEF BrokerRestart, Fault, BrokerStays
  <1> QED BY <1>1, <1>2, <1>3 DEF Next, vars, NetworkFault

(***************************************************************************)
(* What n was told stays right.                                             *)
(***************************************************************************)
SameBeliefs(n) ==
  call'[n] = call[n] /\ m_node_id'[n] = m_node_id[n] /\ ids'[n] = ids[n]

LEMMA AgreementKept ==
  ASSUME Grown, NEW n, NEW e, SameBeliefs(n), NEW id
  PROVE  /\ NodeAgrees(n, id) => NodeAgrees(n, id)'
         /\ TypeAgrees(n, e, id) => TypeAgrees(n, e, id)'
         /\ TopicAgrees(n, e, id) =>
              /\ TopicAgrees(n, e, id)'
              /\ B!At(m_topics', id).priority = B!At(m_topics, id).priority
              /\ IsMember(n, e, id) => IsMember(n, e, id)'
  <1>1. NodeAgrees(n, id) => NodeAgrees(n, id)'
    BY DEF Grown, NodeAgrees
  <1>2. TypeAgrees(n, e, id) => TypeAgrees(n, e, id)'
    BY DEF Grown, TypeAgrees
  <1>3. ASSUME TopicAgrees(n, e, id)
        PROVE  TopicAgrees(n, e, id)' /\ B!At(m_topics', id).priority = B!At(m_topics, id).priority
    BY <1>3 DEF Grown, TopicAgrees, SameBeliefs
  <1>4. ASSUME TopicAgrees(n, e, id), IsMember(n, e, id) PROVE IsMember(n, e, id)'
    <2>1. Longer(Members(n, e, id), Members(n, e, id)')
      BY <1>4 DEF Grown, TopicAgrees, Members
    <2>2. PICK i \in 1..Len(Members(n, e, id)) : Members(n, e, id)[i] = m_node_id[n]
      BY <1>4 DEF IsMember
    <2>3. i \in 1..Len(Members(n, e, id)') /\ Members(n, e, id)'[i] = m_node_id'[n]
      BY <2>1, <2>2 DEF Longer, SameBeliefs
    <2> QED BY <2>3 DEF IsMember
  <1> QED BY <1>1, <1>2, <1>3, <1>4

LEMMA AgreesKept ==
  ASSUME TypeInv, Grown, NEW n \in Node, AgreesSoFar(n), SameBeliefs(n)
  PROVE  AgreesSoFar(n)'
  <1>1. ASSUME call'[n] > 1 PROVE NodeAgrees(n, m_node_id[n])'
    <2>1. \A id : NodeAgrees(n, id) => NodeAgrees(n, id)'
      BY AgreementKept
    <2>2. NodeAgrees(n, m_node_id[n])
      BY <1>1 DEF AgreesSoFar, SameBeliefs
    <2> QED BY <2>1, <2>2 DEF NodeAgrees, SameBeliefs
  <1>2. ASSUME NEW e \in End(n)
        PROVE  /\ call'[n] > 3 * e - 1 => TypeAgrees(n, e, ids[n][e].message_type_id)'
               /\ call'[n] > 3 * e => /\ TopicAgrees(n, e, ids[n][e].topic_id)'
                                      /\ PriorityAgrees(n, e, ids[n][e].topic_id)'
               /\ call'[n] > 3 * e + 1 => IsMember(n, e, ids[n][e].topic_id)'
    <2>1. PICK t, id : t = ids[n][e].message_type_id /\ id = ids[n][e].topic_id
      OBVIOUS
    <2>2. /\ call[n] > 3 * e - 1 => TypeAgrees(n, e, t)
          /\ call[n] > 3 * e => TopicAgrees(n, e, id) /\ PriorityAgrees(n, e, id)
          /\ call[n] > 3 * e + 1 => IsMember(n, e, id)
      BY <2>1 DEF AgreesSoFar
    <2>3. ids'[n][e].message_type_id = t /\ ids'[n][e].topic_id = id /\ call'[n] = call[n]
      BY <2>1 DEF SameBeliefs
    <2>4. /\ TypeAgrees(n, e, t) => TypeAgrees(n, e, t)'
          /\ TopicAgrees(n, e, id) =>
               /\ TopicAgrees(n, e, id)'
               /\ B!At(m_topics', id).priority = B!At(m_topics, id).priority
               /\ IsMember(n, e, id) => IsMember(n, e, id)'
      BY AgreementKept
    <2>5. TypeAgrees(n, e, t)' => TypeAgrees(n, e, ids[n][e].message_type_id)'
      BY <2>3 DEF TypeAgrees
    <2>6. TopicAgrees(n, e, id)' => TopicAgrees(n, e, ids[n][e].topic_id)'
      BY <2>3 DEF TopicAgrees
    <2>7. TopicAgrees(n, e, id) /\ PriorityAgrees(n, e, id) =>
            PriorityAgrees(n, e, ids[n][e].topic_id)'
      BY <2>3, <2>4 DEF PriorityAgrees, SameBeliefs
    <2>8. IsMember(n, e, id)' => IsMember(n, e, ids[n][e].topic_id)'
      BY <2>3 DEF IsMember, Members
    <2>9. call[n] > 3 * e + 1 => call[n] > 3 * e
      <3>1. call[n] \in Nat /\ e \in Nat
        BY EndsFinite DEF TypeInv, NodeTypes
      <3> QED BY <3>1
    <2> QED BY <2>2, <2>3, <2>4, <2>5, <2>6, <2>7, <2>8, <2>9
  <1> QED BY <1>1, <1>2 DEF AgreesSoFar

LEMMA SameCall ==
  ASSUME NEW n, call'[n] = call[n]
  PROVE  CallKind(n)' = CallKind(n) /\ CallEnd(n)' = CallEnd(n)
  BY DEF CallKind, CallEnd

LEMMA TellsKept ==
  ASSUME TypeInv, Grown, NEW n \in Node, AgreesSoFar(n), SameBeliefs(n),
         call[n] \in 1..LastCall(n), NEW a, Tells(n, a)
  PROVE  Tells(n, a)'
  <1>1. PICK e : e = CallEnd(n)
    OBVIOUS
  <1>2. CallKind(n)' = CallKind(n) /\ CallEnd(n)' = e
    BY <1>1, SameCall DEF SameBeliefs
  <1>3. CallKind(n) = "node" => NodeAgrees(n, a.node_id)'
    BY AgreementKept DEF Tells
  <1>4. CallKind(n) = "type" => TypeAgrees(n, e, a.message_type_id)'
    BY <1>1, AgreementKept DEF Tells
  <1>5. CallKind(n) = "topic" =>
          /\ TopicAgrees(n, e, a.topic_id)'
          /\ a.topic_priority = B!At(m_topics', a.topic_id).priority
          /\ ids'[n][e].topic_priority \in {a.topic_priority, dontcare_topic_priority}
    BY <1>1, AgreementKept DEF Tells, SameBeliefs
  <1>6. ASSUME CallKind(n) = "endpoint" PROVE IsMember(n, e, ids[n][e].topic_id)'
    <2>1. e \in End(n) /\ e \in Nat /\ call[n] = 3 * e + 1
      BY <1>1, <1>6, CallEnds, EndsFinite
    <2>2. call[n] > 3 * e
      BY <2>1
    <2>3. PICK id : id = ids[n][e].topic_id
      OBVIOUS
    <2>4. TopicAgrees(n, e, id) /\ IsMember(n, e, id)
      BY <1>1, <1>6, <2>1, <2>2, <2>3 DEF AgreesSoFar, Tells
    <2>5. IsMember(n, e, id)'
      BY <2>4, AgreementKept
    <2>6. ids'[n][e].topic_id = id
      BY <2>3 DEF SameBeliefs
    <2> QED BY <2>5, <2>6 DEF IsMember, Members
  <1> QED BY <1>2, <1>3, <1>4, <1>5, <1>6 DEF Tells
-----------------------------------------------------------------------------
(***************************************************************************)
(* The broker's answer to a request tells what its registry then holds.     *)
(***************************************************************************)
LEMMA SentAnswer ==
  ASSUME NEW c, NEW k, NEW json, NEW ok, B!send_control_response(c, k, json, ok),
         NEW a, NEW sentok, sent' = <<[to |-> c, packet |-> ControlPacket(k, a), ok |-> sentok]>>
  PROVE  json = a
  <1>1. sent'[1].packet = B!ControlPacket(k, json) /\ sent'[1].packet = ControlPacket(k, a)
    BY DEF B!send_control_response
  <1> QED BY <1>1 DEF ControlPacket, B!ControlPacket

LEMMA NewEntry ==
  ASSUME NEW S, NEW v \in Seq(S), NEW x \in S, NEW w, w = B!emplace_back(v, x)
  PROVE  /\ Len(v) \in Nat /\ B!Known(w, Len(v)) /\ B!At(w, Len(v)) = x
  <1>1. Len(v) \in Nat
    BY LenProperties
  <1>2. Len(w) = Len(v) + 1 /\ w[Len(v) + 1] = x
    BY AppendProperties DEF B!emplace_back
  <1> QED BY <1>1, <1>2 DEF B!Known, B!At

LEMMA FoundEntry ==
  ASSUME NEW S, NEW v \in Seq(S), NEW name, BP!NamesUnique(v), B!Registered(v, name)
  PROVE  /\ B!IdOf(v, name) \in Nat /\ B!Known(v, B!IdOf(v, name))
         /\ B!At(v, B!IdOf(v, name)).name = name
         /\ B!At(v, B!IdOf(v, name)) \in S
  <1>1. BP!Registered(v, name)
    BY SameLookUps
  <1>2. /\ BP!IdOf(v, name) \in Nat /\ BP!Known(v, BP!IdOf(v, name))
        /\ BP!At(v, BP!IdOf(v, name)).name = name
    BY <1>1, BP!IdOfRegistered, RegistryAssumption, CounterModAssumption
  <1>3. PICK id : id = B!IdOf(v, name)
    OBVIOUS
  <1>4. id \in Nat /\ B!Known(v, id) /\ B!At(v, id).name = name
    BY <1>2, <1>3, SameLookUps
  <1>5. Len(v) \in Nat
    BY LenProperties
  <1>6. id + 1 \in 1..Len(v)
    BY <1>4, <1>5 DEF B!Known
  <1>7. B!At(v, id) \in S
    BY <1>6, ElementOfSeq DEF B!At
  <1> QED BY <1>3, <1>4, <1>7

LEMMA NodeReply ==
  ASSUME TypeInv, NEW n \in Node, NEW k, NEW r, NEW ok, B!register_node(n, k, r, ok),
         r.name = Name[n], NEW a, a.success, NEW sentok,
         sent' = <<[to |-> n, packet |-> ControlPacket(k, a), ok |-> sentok]>>
  PROVE  NodeAgrees(n, a.node_id)'
  <1> DEFINE x == [name |-> Name[n], address |-> n]
             json == [rpc_id |-> r.rpc_id, success |-> TRUE, node_id |-> Len(m_nodes)]
  <1>1. m_nodes \in Seq(B!NodeInfo) /\ x \in B!NodeInfo
    BY DEF TypeInv, B!TypeOK, B!NodeInfo
  <1>2. ~B!rpc_failure_response(r.rpc_id).success
    BY DEF B!rpc_failure_response
  <1>3. ~B!send_control_response(n, k, B!rpc_failure_response(r.rpc_id), ok)
    BY <1>2, SentAnswer
  <1>4. /\ m_nodes' = B!emplace_back(m_nodes, x)
        /\ B!send_control_response(n, k, json, ok)
    BY <1>3 DEF B!register_node, B!NewId
  <1>5. a.node_id = Len(m_nodes)
    <2>1. json.node_id = Len(m_nodes)
      OBVIOUS
    <2> HIDE DEF json
    <2> QED BY <1>4, <2>1, SentAnswer
  <1>6. Len(m_nodes) \in Nat /\ B!Known(m_nodes', Len(m_nodes)) /\ B!At(m_nodes', Len(m_nodes)) = x
    BY <1>1, <1>4, NewEntry
  <1> QED BY <1>5, <1>6 DEF NodeAgrees

LEMMA TypeReply ==
  ASSUME TypeInv, BrokerInv, NEW n \in Node, NEW e \in End(n), NEW k, NEW r, NEW ok,
         B!register_message_type(n, k, r, ok),
         r.name = Endpoint[n][e].type, r.size = Endpoint[n][e].size, NEW a, a.success, NEW sentok,
         sent' = <<[to |-> n, packet |-> ControlPacket(k, a), ok |-> sentok]>>
  PROVE  TypeAgrees(n, e, a.message_type_id)'
  <1> DEFINE x == [name |-> r.name, size |-> r.size]
             Json(i) == [rpc_id |-> r.rpc_id, success |-> TRUE, message_type_id |-> i]
  <1>1. m_message_types \in Seq(B!MessageTypeInfo) /\ x \in B!MessageTypeInfo
    BY EndsFinite DEF TypeInv, B!TypeOK, B!MessageTypeInfo
  <1>2. ~B!rpc_failure_response(r.rpc_id).success
    BY DEF B!rpc_failure_response
  <1>3. ~B!send_control_response(n, k, B!rpc_failure_response(r.rpc_id), ok)
    BY <1>2, SentAnswer
  <1>a. \A i : Json(i).message_type_id = i
    OBVIOUS
  <1>b. ASSUME NEW i, B!send_control_response(n, k, Json(i), ok) PROVE a.message_type_id = i
    <2> HIDE DEF Json
    <2> QED BY <1>a, <1>b, SentAnswer
  <1>4. CASE /\ m_message_types' = B!emplace_back(m_message_types, x)
             /\ B!send_control_response(n, k, Json(Len(m_message_types)), ok)
    <2>1. a.message_type_id = Len(m_message_types)
      BY <1>4, <1>b
    <2>2. /\ Len(m_message_types) \in Nat /\ B!Known(m_message_types', Len(m_message_types))
          /\ B!At(m_message_types', Len(m_message_types)) = x
      BY <1>1, <1>4, NewEntry
    <2> QED BY <2>1, <2>2 DEF TypeAgrees
  <1>5. CASE /\ B!Registered(m_message_types, r.name) /\ m_message_types' = m_message_types
             /\ B!SameSize(B!IdOf(m_message_types, r.name), r)
             /\ B!send_control_response(n, k, Json(B!IdOf(m_message_types, r.name)), ok)
    <2>1. PICK id : id = B!IdOf(m_message_types, r.name)
      OBVIOUS
    <2>2. a.message_type_id = id
      BY <1>5, <1>b, <2>1
    <2>3. /\ id \in Nat /\ B!Known(m_message_types, id)
          /\ B!At(m_message_types, id).name = r.name
          /\ B!At(m_message_types, id) \in B!MessageTypeInfo
      BY <1>1, <1>5, <2>1, FoundEntry DEF BrokerInv, BP!RegistryInv
    <2>4. B!At(m_message_types, id).size = r.size
      BY <1>5, <2>1 DEF B!SameSize
    <2>5. B!At(m_message_types, id) = x
      BY <2>3, <2>4 DEF B!MessageTypeInfo
    <2> QED BY <1>5, <2>2, <2>3, <2>5 DEF TypeAgrees
  <1> QED BY <1>3, <1>4, <1>5 DEF B!register_message_type, B!NewId

LEMMA TopicReply ==
  ASSUME TypeInv, BrokerInv, NEW n \in Node, NEW e \in End(n), NEW k, NEW r, NEW ok,
         B!register_topic(n, k, r, ok), ids' = ids,
         r.name = Endpoint[n][e].topic, r.message_type_id = ids[n][e].message_type_id,
         r.priority = ids[n][e].topic_priority, NEW a, a.success, NEW sentok,
         sent' = <<[to |-> n, packet |-> ControlPacket(k, a), ok |-> sentok]>>
  PROVE  /\ TopicAgrees(n, e, a.topic_id)'
         /\ a.topic_priority = B!At(m_topics', a.topic_id).priority
         /\ r.priority \in {a.topic_priority, dontcare_topic_priority}
  <1> DEFINE x == [name |-> r.name, message_type_id |-> r.message_type_id,
                   priority |-> r.priority, publishers |-> <<>>, subscribers |-> <<>>]
             Json(i, q) == [rpc_id |-> r.rpc_id, success |-> TRUE,
                            topic_id |-> i, topic_priority |-> q]
  <1>1. m_topics \in Seq(B!Topic) /\ x \in B!Topic
    <2>1. /\ ids[n][e].message_type_id \in Nat /\ ids[n][e].topic_priority \in TopicPriority
          /\ Endpoint[n][e].topic \in TopicName /\ <<>> \in Seq(Nat)
      BY EndsFinite, EmptySeq DEF TypeInv, NodeTypes, Ids
    <2> QED BY <2>1 DEF TypeInv, B!TypeOK, B!Topic
  <1>2. ~B!rpc_failure_response(r.rpc_id).success
    BY DEF B!rpc_failure_response
  <1>3. ~B!send_control_response(n, k, B!rpc_failure_response(r.rpc_id), ok)
    BY <1>2, SentAnswer
  <1>a. \A i, q : Json(i, q).topic_id = i /\ Json(i, q).topic_priority = q
    OBVIOUS
  <1>b. ASSUME NEW i, NEW q, B!send_control_response(n, k, Json(i, q), ok)
        PROVE  a.topic_id = i /\ a.topic_priority = q
    <2> HIDE DEF Json
    <2> QED BY <1>a, <1>b, SentAnswer
  <1>4. CASE /\ m_topics' = B!emplace_back(m_topics, x)
             /\ B!send_control_response(n, k, Json(Len(m_topics), r.priority), ok)
    <2>1. a.topic_id = Len(m_topics) /\ a.topic_priority = r.priority
      BY <1>4, <1>b
    <2>2. /\ Len(m_topics) \in Nat /\ B!Known(m_topics', Len(m_topics))
          /\ B!At(m_topics', Len(m_topics)) = x
      BY <1>1, <1>4, NewEntry
    <2> QED BY <2>1, <2>2 DEF TopicAgrees
  <1>5. CASE LET id == B!IdOf(m_topics, r.name)
             IN  /\ B!Registered(m_topics, r.name) /\ m_topics' = m_topics
                 /\ B!At(m_topics, id).message_type_id = r.message_type_id
                 /\ r.priority \in {dontcare_topic_priority, B!At(m_topics, id).priority}
                 /\ B!send_control_response(n, k, Json(id, B!At(m_topics, id).priority), ok)
    <2>1. PICK id : id = B!IdOf(m_topics, r.name)
      OBVIOUS
    <2>2. a.topic_id = id /\ a.topic_priority = B!At(m_topics, id).priority
      BY <1>5, <1>b, <2>1
    <2>3. /\ id \in Nat /\ B!Known(m_topics, id)
          /\ B!At(m_topics, id).name = r.name
      BY <1>1, <1>5, <2>1, FoundEntry DEF BrokerInv, BP!RegistryInv
    <2> QED BY <1>5, <2>1, <2>2, <2>3 DEF TopicAgrees
  <1> QED BY <1>3, <1>4, <1>5 DEF B!register_topic, B!NewId, B!dontcare_topic_priority,
                                  dontcare_topic_priority

LEMMA EndpointReply ==
  ASSUME TypeInv, NEW n \in Node, NEW e \in End(n), NEW k, NEW r, NEW ok,
         B!AddEndpoint(n, k, r, ok), ids' = ids, m_node_id' = m_node_id,
         r.op = IF IsPub(n, e) THEN "add_publisher" ELSE "add_subscriber",
         r.node_id = m_node_id[n], r.topic_id = ids[n][e].topic_id, NEW a, a.success, NEW sentok,
         sent' = <<[to |-> n, packet |-> ControlPacket(k, a), ok |-> sentok]>>
  PROVE  IsMember(n, e, ids[n][e].topic_id)'
  <1>1. PICK id : id = ids[n][e].topic_id
    OBVIOUS
  <1>2. id \in Nat /\ m_topics \in Seq(B!Topic) /\ Len(m_topics) \in Nat /\ m_node_id[n] \in Nat
    BY <1>1, LenProperties DEF TypeInv, NodeTypes, Ids, B!TypeOK
  <1>3. ~B!rpc_failure_response(r.rpc_id).success
    BY DEF B!rpc_failure_response
  <1>4. ~B!send_control_response(n, k, B!rpc_failure_response(r.rpc_id), ok)
    BY <1>3, SentAnswer
  <1>5. /\ B!validate_topic_parameters(r)
        /\ \/ /\ r.op = "add_publisher"
              /\ m_topics' = [m_topics EXCEPT ![id + 1].publishers = Append(@, m_node_id[n])]
           \/ /\ r.op = "add_subscriber"
              /\ m_topics' = [m_topics EXCEPT ![id + 1].subscribers = Append(@, m_node_id[n])]
    BY <1>1, <1>4 DEF B!AddEndpoint
  <1>6. id + 1 \in 1..Len(m_topics)
    <2>1. id < Len(m_topics)
      BY <1>1, <1>5 DEF B!validate_topic_parameters, B!Known
    <2> QED BY <1>2, <2>1
  <1>7. m_topics[id + 1] \in B!Topic /\ DOMAIN m_topics = 1..Len(m_topics)
    BY <1>2, <1>6, ElementOfSeq, LenProperties
  <1>8. PICK old \in Seq(Nat) : Members(n, e, id)' = Append(old, m_node_id[n])
    <2>1. CASE IsPub(n, e)
      <3>1. m_topics' = [m_topics EXCEPT ![id + 1].publishers = Append(@, m_node_id[n])]
        BY <1>5, <2>1
      <3>2. m_topics[id + 1].publishers \in Seq(Nat)
        BY <1>7 DEF B!Topic
      <3>3. m_topics'[id + 1].publishers = Append(m_topics[id + 1].publishers, m_node_id[n])
        BY <1>6, <1>7, <3>1 DEF B!Topic
      <3> QED BY <2>1, <3>2, <3>3 DEF Members, B!At
    <2>2. CASE ~IsPub(n, e)
      <3>1. m_topics' = [m_topics EXCEPT ![id + 1].subscribers = Append(@, m_node_id[n])]
        BY <1>5, <2>2
      <3>2. m_topics[id + 1].subscribers \in Seq(Nat)
        BY <1>7 DEF B!Topic
      <3>3. m_topics'[id + 1].subscribers = Append(m_topics[id + 1].subscribers, m_node_id[n])
        BY <1>6, <1>7, <3>1 DEF B!Topic
      <3> QED BY <2>2, <3>2, <3>3 DEF Members, B!At
    <2> QED BY <2>1, <2>2
  <1>9. /\ Len(old) \in Nat /\ Len(Members(n, e, id)') = Len(old) + 1
        /\ Members(n, e, id)'[Len(old) + 1] = m_node_id[n]
    BY <1>2, <1>8, AppendProperties, LenProperties
  <1>10. \E i \in 1..Len(Members(n, e, id)') : Members(n, e, id)'[i] = m_node_id'[n]
    BY <1>9
  <1>11. ids'[n][e].topic_id = id
    BY <1>1
  <1> QED BY <1>10, <1>11 DEF IsMember, Members

LEMMA ReplyTells ==
  ASSUME TypeInv, BrokerInv, NEW n \in Node, call[n] \in 1..LastCall(n),
         UNCHANGED <<call, ids, m_node_id>>,
         NEW p, NEW ok, B!process_control_request(n, p, ok), Asks(n, p.json), NEW a, a.success,
         NEW sentok, sent' = <<[to |-> n, packet |-> ControlPacket(p.counter, a), ok |-> sentok]>>
  PROVE  Tells(n, a)'
  <1>1. PICK e : e = CallEnd(n)
    OBVIOUS
  <1>2. CallKind(n)' = CallKind(n) /\ CallEnd(n)' = e
    BY <1>1, SameCall
  <1>3. /\ CallKind(n) \in {"node", "type", "topic", "endpoint"}
        /\ CallKind(n) # "node" => e \in End(n)
    BY <1>1, CallEnds
  <1>4. CASE CallKind(n) = "node"
    <2>1. B!register_node(n, p.counter, p.json, ok) /\ p.json.name = Name[n]
      BY <1>4 DEF Asks, B!process_control_request
    <2>2. NodeAgrees(n, a.node_id)'
      BY <2>1, NodeReply
    <2> QED BY <1>2, <1>4, <2>2 DEF Tells
  <1>5. CASE CallKind(n) = "type"
    <2>1. /\ B!register_message_type(n, p.counter, p.json, ok)
          /\ p.json.name = Endpoint[n][e].type /\ p.json.size = Endpoint[n][e].size
      BY <1>1, <1>5 DEF Asks, B!process_control_request
    <2>2. TypeAgrees(n, e, a.message_type_id)'
      BY <1>3, <1>5, <2>1, TypeReply
    <2> QED BY <1>2, <1>5, <2>2 DEF Tells
  <1>6. CASE CallKind(n) = "topic"
    <2>1. /\ B!register_topic(n, p.counter, p.json, ok)
          /\ p.json.name = Endpoint[n][e].topic
          /\ p.json.message_type_id = ids[n][e].message_type_id
          /\ p.json.priority = ids[n][e].topic_priority
      BY <1>1, <1>6 DEF Asks, B!process_control_request
    <2>2. /\ TopicAgrees(n, e, a.topic_id)'
          /\ a.topic_priority = B!At(m_topics', a.topic_id).priority
          /\ p.json.priority \in {a.topic_priority, dontcare_topic_priority}
      BY <1>3, <1>6, <2>1, TopicReply
    <2> QED BY <1>2, <1>6, <2>1, <2>2 DEF Tells
  <1>7. CASE CallKind(n) = "endpoint"
    <2>1. /\ B!AddEndpoint(n, p.counter, p.json, ok)
          /\ p.json.op = IF IsPub(n, e) THEN "add_publisher" ELSE "add_subscriber"
          /\ p.json.node_id = m_node_id[n] /\ p.json.topic_id = ids[n][e].topic_id
      BY <1>1, <1>7 DEF Asks, B!process_control_request
    <2>2. IsMember(n, e, ids[n][e].topic_id)'
      BY <1>3, <1>7, <2>1, EndpointReply
    <2> QED BY <1>2, <1>7, <2>2 DEF Tells
  <1> QED BY <1>3, <1>4, <1>5, <1>6, <1>7

LEMMA RequestAsks ==
  ASSUME TypeInv, NEW n \in Node, pc[n] = "rpc"
  PROVE  Asks(n, Request(n))
  <1>1. call[n] \in 1..LastCall(n)
    BY EndsFinite DEF TypeInv, NodeTypes
  <1>2. CallKind(n) \in {"node", "type", "topic", "endpoint"}
    BY <1>1, CallEnds
  <1> QED BY <1>2 DEF Asks, Request, RegisterNodeRequest, RegisterMessageTypeRequest,
                      RegisterTopicRequest, AddEndpointRequest
-----------------------------------------------------------------------------
\* What a call of connect() stores of an answer that tells the truth.
LEMMA StoredAnswer ==
  ASSUME TypeInv, NEW n \in Node, AgreesSoFar(n), call[n] \in 1..LastCall(n),
         UNCHANGED <<m_nodes, m_message_types, m_topics>>,
         NEW a, Tells(n, a), StoreResult(n, a), call'[n] = call[n] + 1
  PROVE  AgreesSoFar(n)'
  <1>0. /\ NodeTypes(n) /\ Domains /\ call[n] \in Nat /\ call[n] >= 1
        /\ \A e \in End(n) : e \in Nat /\ e >= 1
    <2>1. NodeTypes(n) /\ Domains
      BY DEF TypeInv
    <2>2. Len(Endpoint[n]) \in Nat
      BY EndsFinite
    <2>3. \A e \in End(n) : e \in Nat /\ e >= 1
      BY <2>2 DEF End
    <2>4. call[n] \in Nat /\ call[n] >= 1
      BY EndsFinite
    <2> QED BY <2>1, <2>3, <2>4
  <1>1. PICK e : e = CallEnd(n)
    OBVIOUS
  <1>2. /\ CallKind(n) \in {"node", "type", "topic", "endpoint"}
        /\ CallKind(n) = "node" <=> call[n] = 1
        /\ CallKind(n) # "node" => e \in End(n)
        /\ CallKind(n) = "type" => call[n] = 3 * e - 1
        /\ CallKind(n) = "topic" => call[n] = 3 * e
        /\ CallKind(n) = "endpoint" => call[n] = 3 * e + 1
    BY <1>1, CallEnds
  <1> DEFINE EndAgrees(f) ==
        /\ call[n] > 3 * f - 1 => TypeAgrees(n, f, ids[n][f].message_type_id)
        /\ call[n] > 3 * f => /\ TopicAgrees(n, f, ids[n][f].topic_id)
                              /\ PriorityAgrees(n, f, ids[n][f].topic_id)
        /\ call[n] > 3 * f + 1 => IsMember(n, f, ids[n][f].topic_id)
  <1>3. \A f \in End(n) : EndAgrees(f)
    BY DEF AgreesSoFar
  <1> SUFFICES /\ call'[n] > 1 => NodeAgrees(n, m_node_id[n])'
               /\ \A f \in End(n) : EndAgrees(f)'
    BY DEF AgreesSoFar
  <1>4. ASSUME NEW f \in End(n), ids'[n][f] = ids[n][f], m_node_id' = m_node_id,
               call[n] # 3 * f - 1, call[n] # 3 * f, call[n] # 3 * f + 1
        PROVE  EndAgrees(f)'
    <2>1. /\ call'[n] > 3 * f - 1 => call[n] > 3 * f - 1
          /\ call'[n] > 3 * f => call[n] > 3 * f
          /\ call'[n] > 3 * f + 1 => call[n] > 3 * f + 1
      BY <1>0, <1>4
    <2>2. EndAgrees(f)
      BY <1>3
    <2> QED BY <1>4, <2>1, <2>2 DEF TypeAgrees, TopicAgrees, PriorityAgrees, IsMember, Members
  <1>5. ASSUME call[n] # 1, m_node_id' = m_node_id PROVE NodeAgrees(n, m_node_id[n])'
    BY <1>0, <1>5 DEF AgreesSoFar, NodeAgrees
  <1>6. CASE CallKind(n) = "node"
    <2>1. call'[n] = 2 /\ m_node_id'[n] = a.node_id
      BY <1>0, <1>2, <1>6, StoreCases DEF Domains
    <2>2. NodeAgrees(n, m_node_id[n])'
      BY <1>6, <2>1 DEF Tells, NodeAgrees
    <2>3. ASSUME NEW f \in End(n) PROVE EndAgrees(f)'
      <3>1. ~(2 > 3 * f - 1) /\ ~(2 > 3 * f) /\ ~(2 > 3 * f + 1)
        BY <1>0
      <3> QED BY <2>1, <3>1
    <2> QED BY <2>2, <2>3
  <1>7. CASE CallKind(n) = "type"
    <2>1. /\ m_node_id' = m_node_id
          /\ ids' = [ids EXCEPT ![n] = [ids[n] EXCEPT ![e] = WithTypeId(ids[n][e], a)]]
      BY <1>1, <1>7, StoreCases
    <2>2. /\ \A f \in End(n) : f # e => ids'[n][f] = ids[n][f]
          /\ ids'[n][e] = WithTypeId(ids[n][e], a)
      BY <1>0, <1>2, <1>7, <2>1 DEF Domains, NodeTypes
    <2>3. ids'[n][e].message_type_id = a.message_type_id
      <3>1. ids[n][e] \in Ids
        BY <1>0, <1>2, <1>7 DEF NodeTypes
      <3> QED BY <2>2, <3>1 DEF WithTypeId, Ids
    <2>4. EndAgrees(e)'
      <3>1. ~(call'[n] > 3 * e) /\ ~(call'[n] > 3 * e + 1)
        BY <1>0, <1>2, <1>7
      <3>2. TypeAgrees(n, e, a.message_type_id)
        BY <1>1, <1>7 DEF Tells
      <3>3. TypeAgrees(n, e, ids[n][e].message_type_id)'
        BY <2>3, <3>2 DEF TypeAgrees
      <3> QED BY <3>1, <3>3
    <2>5. ASSUME NEW f \in End(n), f # e PROVE EndAgrees(f)'
      <3>1. call[n] # 3 * f - 1 /\ call[n] # 3 * f /\ call[n] # 3 * f + 1
        BY <1>0, <1>2, <1>7, <2>5
      <3> QED BY <1>4, <2>1, <2>2, <2>5, <3>1
    <2> QED BY <1>2, <1>5, <1>7, <2>1, <2>4, <2>5
  <1>8. CASE CallKind(n) = "topic"
    <2>1. /\ m_node_id' = m_node_id
          /\ ids' = [ids EXCEPT ![n] = [ids[n] EXCEPT ![e] = WithTopic(n, e, ids[n][e], a)]]
      BY <1>1, <1>8, StoreCases
    <2>2. /\ \A f \in End(n) : f # e => ids'[n][f] = ids[n][f]
          /\ ids'[n][e] = WithTopic(n, e, ids[n][e], a)
      BY <1>0, <1>2, <1>8, <2>1 DEF Domains, NodeTypes
    <2>3. /\ ids'[n][e].message_type_id = ids[n][e].message_type_id
          /\ ids'[n][e].topic_id = a.topic_id
          /\ ids'[n][e].topic_priority = IF IsSub(n, e) THEN a.topic_priority
                                         ELSE ids[n][e].topic_priority
      <3>1. ids[n][e] \in Ids
        BY <1>0, <1>2, <1>8 DEF NodeTypes
      <3> QED BY <2>2, <3>1 DEF WithTopic, Ids
    <2>4. EndAgrees(e)'
      <3>1. ~(call'[n] > 3 * e + 1) /\ call[n] > 3 * e - 1
        BY <1>0, <1>2, <1>8
      <3>2. TypeAgrees(n, e, ids[n][e].message_type_id)
        BY <1>2, <1>3, <1>8, <3>1
      <3>3. TypeAgrees(n, e, ids[n][e].message_type_id)'
        BY <2>3, <3>2 DEF TypeAgrees
      <3>4. /\ TopicAgrees(n, e, a.topic_id)
            /\ a.topic_priority = B!At(m_topics, a.topic_id).priority
            /\ ids[n][e].topic_priority \in {a.topic_priority, dontcare_topic_priority}
        BY <1>1, <1>8 DEF Tells
      <3>5. TopicAgrees(n, e, ids[n][e].topic_id)'
        BY <2>3, <3>4 DEF TopicAgrees
      <3>6. IsSub(n, e) \/ IsPub(n, e)
        BY <1>2, <1>8, EndsFinite DEF IsSub, IsPub
      <3>7. PriorityAgrees(n, e, ids[n][e].topic_id)'
        BY <2>3, <3>4, <3>6 DEF PriorityAgrees
      <3> QED BY <3>1, <3>3, <3>5, <3>7
    <2>5. ASSUME NEW f \in End(n), f # e PROVE EndAgrees(f)'
      <3>1. call[n] # 3 * f - 1 /\ call[n] # 3 * f /\ call[n] # 3 * f + 1
        BY <1>0, <1>2, <1>8, <2>5
      <3> QED BY <1>4, <2>1, <2>2, <2>5, <3>1
    <2> QED BY <1>2, <1>5, <1>8, <2>1, <2>4, <2>5
  <1>9. CASE CallKind(n) = "endpoint"
    <2>1. m_node_id' = m_node_id /\ ids' = ids
      BY <1>9, StoreCases
    <2>2. EndAgrees(e)'
      <3>1. call[n] > 3 * e - 1 /\ call[n] > 3 * e
        BY <1>0, <1>2, <1>9
      <3>2. /\ TypeAgrees(n, e, ids[n][e].message_type_id)
            /\ TopicAgrees(n, e, ids[n][e].topic_id)
            /\ PriorityAgrees(n, e, ids[n][e].topic_id)
        BY <1>2, <1>3, <1>9, <3>1
      <3>3. IsMember(n, e, ids[n][e].topic_id)
        BY <1>1, <1>9 DEF Tells
      <3> QED BY <2>1, <3>2, <3>3 DEF TypeAgrees, TopicAgrees, PriorityAgrees, IsMember, Members
    <2>3. ASSUME NEW f \in End(n), f # e PROVE EndAgrees(f)'
      <3>1. call[n] # 3 * f - 1 /\ call[n] # 3 * f /\ call[n] # 3 * f + 1
        BY <1>0, <1>2, <1>9, <2>3
      <3> QED BY <1>4, <2>1, <2>3, <3>1
    <2> QED BY <1>2, <1>5, <1>9, <2>1, <2>2, <2>3
  <1> QED BY <1>2, <1>6, <1>7, <1>8, <1>9

LEMMA AgreeFrame ==
  ASSUME TypeInv, Grown, NEW n \in Node, AgreeInv(n), SameBeliefs(n),
         pc'[n] = pc[n], m_bp_counter'[n] = m_bp_counter[n], Uplinked(n),
         NEW i \in 1..Len(to_node'[n]), to_node'[n][i].type = "Control", to_node'[n][i].json.success,
         pc[n] = "wait",
         \E x \in 1..Len(to_node[n]) : to_node'[n][i] = to_node[n][x]
  PROVE  Tells(n, to_node[n][i].json)'
  <1>1. PICK x \in 1..Len(to_node[n]) : to_node'[n][i] = to_node[n][x]
    OBVIOUS
  <1>2. PICK a : a = to_node[n][x].json
    OBVIOUS
  <1>3. Tells(n, a)
    BY <1>1, <1>2 DEF AgreeInv, Told
  <1>4. call[n] \in 1..LastCall(n)
    BY EndsFinite DEF TypeInv, NodeTypes
  <1>5. Tells(n, a)'
    BY <1>3, <1>4, TellsKept DEF AgreeInv
  <1>6. to_node'[n][i].json = a
    BY <1>1, <1>2
  <1> QED BY <1>5, <1>6 DEF Tells, NodeAgrees, TypeAgrees, TopicAgrees

\* The requests on their way to the broker ask for the current call.
LEMMA AsksKept ==
  ASSUME NEW n \in Node, Told(n), pc[n] = "wait", SameBeliefs(n),
         m_bp_counter'[n] = m_bp_counter[n], Uplinked(n)
  PROVE  \A i \in 1..Len(to_broker') :
           to_broker'[i].from = n /\ to_broker'[i].packet.counter = m_bp_counter'[n] =>
             Asks(n, to_broker[i].packet.json)'
  <1> SUFFICES ASSUME NEW i \in 1..Len(to_broker'), to_broker'[i].from = n,
                      to_broker'[i].packet.counter = m_bp_counter'[n]
               PROVE  Asks(n, to_broker[i].packet.json)'
    OBVIOUS
  <1>1. PICK k \in 1..Len(to_broker) : to_broker'[i] = to_broker[k]
    BY DEF Uplinked
  <1>2. PICK r : r = to_broker[k].packet.json
    OBVIOUS
  <1>3. Asks(n, r)
    BY <1>1, <1>2 DEF Told
  <1>4. CallKind(n)' = CallKind(n) /\ CallEnd(n)' = CallEnd(n)
    BY SameCall DEF SameBeliefs
  <1>5. Asks(n, r)'
    BY <1>3, <1>4 DEF Asks, SameBeliefs
  <1>6. to_broker'[i].packet.json = r
    BY <1>1, <1>2
  <1> QED BY <1>5, <1>6 DEF Asks

LEMMA AgreeBrokerStep ==
  ASSUME AnswersNotRepeated, TypeInv, BrokerInv, Grown,
         NEW n \in Node, ConnectInv(n), AgreeInv(n), BrokerSpin
  PROVE  AgreeInv(n)'
  <1> DEFINE p == Head(to_broker).packet
  <1>1. /\ UNCHANGED <<pc, m_bp_counter, call, ids, m_node_id>> /\ to_broker # <<>>
        /\ Uplinked(n) /\ SameBeliefs(n)
    BY UplinkShifts DEF BrokerSpin, local, SameBeliefs
  <1>2. AgreesSoFar(n)' /\ Finished(n)'
    BY <1>1, AgreesKept DEF AgreeInv, Finished
  <1>3. CASE pc[n] # "wait"
    BY <1>1, <1>2, <1>3 DEF AgreeInv, Told
  <1>4. CASE pc[n] = "wait"
    <2>1. \A i \in 1..Len(to_broker') :
            to_broker'[i].from = n /\ to_broker'[i].packet.counter = m_bp_counter'[n] =>
              Asks(n, to_broker[i].packet.json)'
      BY <1>1, <1>4, AsksKept DEF AgreeInv
    <2>2. ASSUME NEW i \in 1..Len(to_node'[n]), to_node'[n][i].type = "Control",
                 to_node'[n][i].json.success
          PROVE  Tells(n, to_node[n][i].json)'
      <3>1. CASE \E x \in 1..Len(to_node[n]) : to_node'[n][i] = to_node[n][x]
        BY <1>1, <1>4, <2>2, <3>1, AgreeFrame
      <3>2. CASE \E s \in Seq(Messages) : to_node'[n] = to_node[n] \o s
        <4>1. InboxKept(n)
          BY <3>2, MessagesOnly
        <4> QED BY <2>2, <3>1, <4>1 DEF InboxKept, KeptIn
      <3>3. CASE n = Head(to_broker).from /\ Answers1(n, p)
        <4>1. PICK a \in Answered, sentok \in BOOLEAN :
                /\ sent' = <<[to |-> n, packet |-> ControlPacket(p.counter, a), ok |-> sentok]>>
                /\ to_node'[n] = Append(to_node[n], ControlPacket(p.counter, a))
          BY <3>3 DEF Answers1
        <4>2. PICK ok \in BOOLEAN : B!process_control_request(n, p, ok)
          BY <3>3 DEF Answers1
        <4>3. p \in Requests /\ B!Accepts(n, p.counter)
          BY <3>3, <4>2, ControlEffect DEF Answers1, B!verify_and_update_client_counter
        <4>4. p.counter = m_bp_counter[n]
          BY <1>1, <1>4, <3>3, <4>3, CountsLatest DEF Connecting
        <4>5. Asks(n, p.json)
          BY <1>1, <1>4, <3>3, <4>4, HeadOfUplink DEF AgreeInv, Told
        <4>6. /\ Len(to_node[n]) \in Nat /\ Len(to_node'[n]) = Len(to_node[n]) + 1
              /\ \A j \in 1..Len(to_node[n]) : to_node'[n][j] = to_node[n][j]
              /\ to_node'[n][Len(to_node[n]) + 1] = ControlPacket(p.counter, a)
          <5>1. to_node[n] \in Seq(Downlink) /\ ControlPacket(p.counter, a) \in Downlink
            BY <4>3, PacketFields, ReplyDownlink DEF TypeInv, NodeTypes
          <5> QED BY <4>1, <5>1, AppendProperties, LenProperties
        <4>7. CASE i \in 1..Len(to_node[n])
          BY <3>1, <4>6, <4>7
        <4>8. CASE i = Len(to_node[n]) + 1
          <5>1. to_node'[n][i].json = a
            BY <4>6, <4>8 DEF ControlPacket
          <5>2. a.success /\ call[n] \in 1..LastCall(n)
            BY <1>4, <2>2, <5>1, EndsFinite DEF TypeInv, NodeTypes
          <5>3. Tells(n, a)'
            BY <1>1, <4>1, <4>2, <4>5, <5>2, ReplyTells
          <5> QED BY <5>1, <5>3 DEF Tells, NodeAgrees, TypeAgrees, TopicAgrees
        <4> QED BY <4>6, <4>7, <4>8
      <3> QED BY <3>2, <3>3, SpinDelivers
    <2> QED BY <1>1, <1>2, <2>1, <2>2 DEF AgreeInv, Told
  <1> QED BY <1>3, <1>4

LEMMA AgreeNodeStep ==
  ASSUME AnswersNotRepeated, TypeInv, Grown, NEW n \in Node, ConnectInv(n), AgreeInv(n),
         NodeStep(n), UNCHANGED broker_vars
  PROVE  AgreeInv(n)'
  <1>0. Domains /\ NodeTypes(n) /\ UNCHANGED <<m_nodes, m_message_types, m_topics>>
    BY DEF TypeInv, broker_vars
  <1> USE DEF Goto
  <1>a. ASSUME SameBeliefs(n), pc'[n] # "wait",
               pc'[n] \in {"idle", "spin"} => pc[n] \in {"idle", "spin"}
        PROVE  AgreeInv(n)'
    <2>1. AgreesSoFar(n)'
      BY <1>a, AgreesKept DEF AgreeInv
    <2>2. Finished(n)'
      BY <1>a DEF AgreeInv, Finished, SameBeliefs
    <2> QED BY <1>a, <2>1, <2>2 DEF AgreeInv, Told
  <1>1. CASE connect(n)
    BY <1>0, <1>a, <1>1 DEF connect, local, Domains, SameBeliefs
  <1>2. CASE send_control(n)
    <2>1. /\ to_node' = to_node /\ SameBeliefs(n) /\ pc[n] = "rpc"
          /\ pc'[n] # "failed" => SendsRequest(n)
          /\ pc'[n] \in {"wait", "failed"}
          /\ m_bp_counter'[n] = NextCounter(m_bp_counter[n])
      BY <1>0, <1>2 DEF send_control, SendsRequest, Transmit, next_bp_counter, local, Domains,
                        SameBeliefs
    <2>2. CASE pc'[n] = "failed"
      BY <1>a, <2>1, <2>2
    <2>3. CASE pc'[n] = "wait"
      <3>1. /\ Counted(n) /\ call[n] <= LastCall(n)
            /\ \A i \in 1..Len(to_broker) : to_broker[i].from = n => Pending(n, to_broker[i].packet)
            /\ \A i \in 1..Len(to_node[n]) : to_node[n][i].type # "Control"
        BY <1>0, <2>1 DEF ConnectInv, Connecting, NodeTypes, Current
      <3>2. /\ m_bp_counter[n] \in BpCounter /\ m_bp_counter[n] \in Nat
            /\ call[n] \in Nat /\ call[n] >= 1 /\ LastCall(n) \in Nat
            /\ CounterMod \in Nat /\ LastCall(n) < CounterMod
        BY <1>0, EndsFinite, CounterModAssumption DEF NodeTypes, BpCounter, AnswersNotRepeated
      <3>3. m_bp_counter'[n] = m_bp_counter[n] + 1
        BY <2>1, <3>1, <3>2, CounterSteps DEF Counted
      <3>4. PICK r : r = Request(n)
        OBVIOUS
      <3>5. Asks(n, r) /\ r \in Asked
        BY <2>1, <3>4, RequestAsks, RequestAsked
      <3>6. Asks(n, r)'
        <4>1. CallKind(n)' = CallKind(n) /\ CallEnd(n)' = CallEnd(n)
          BY <2>1, SameCall DEF SameBeliefs
        <4> QED BY <2>1, <3>5, <4>1 DEF Asks, SameBeliefs
      <3>7. ASSUME NEW i \in 1..Len(to_broker'), to_broker'[i].from = n,
                   to_broker'[i].packet.counter = m_bp_counter'[n]
            PROVE  Asks(n, to_broker[i].packet.json)'
        <4> DEFINE q == ControlPacket(NextCounter(m_bp_counter[n]), r)
                   u == [from |-> n, packet |-> q]
        <4>1. to_broker' = Append(to_broker, u) /\ to_broker \in Seq(Uplink) /\ u \in Uplink
          <5>1. NextCounter(m_bp_counter[n]) \in BpCounter
            BY <3>2, Counters
          <5> QED BY <2>1, <2>3, <3>4, <3>5, <5>1, PacketsMade DEF SendsRequest, TypeInv
        <4>2. u.packet.json = r
          BY DEF ControlPacket
        <4> HIDE DEF u, q
        <4>3. CASE i \in 1..Len(to_broker) /\ to_broker'[i] = to_broker[i]
          <5>1. to_broker[i].packet.counter \in 1..m_bp_counter[n]
            BY <3>1, <3>7, <4>3 DEF Pending
          <5> QED BY <3>2, <3>3, <3>7, <4>3, <5>1
        <4>4. CASE to_broker'[i] = u
          <5>1. to_broker'[i].packet.json = r
            BY <4>2, <4>4
          <5> QED BY <3>6, <5>1 DEF Asks
        <4> QED BY <4>1, <4>3, <4>4, AppendedElements
      <3>8. Told(n)'
        BY <2>1, <3>1, <3>7 DEF Told
      <3>9. AgreesSoFar(n)' /\ Finished(n)'
        BY <2>1, <2>3, AgreesKept DEF AgreeInv, Finished
      <3> QED BY <3>8, <3>9 DEF AgreeInv
    <2> QED BY <2>1, <2>2, <2>3
  <1>3. CASE receive_response(n)
    <2>1. pc[n] = "wait" /\ call[n] \in 1..LastCall(n)
      BY <1>0, <1>3, EndsFinite DEF receive_response, NodeTypes
    <2>2. CASE SameBeliefs(n) /\ pc'[n] \in {"failed", "abort"}
      BY <1>a, <2>2
    <2>3. CASE /\ to_node[n] # <<>> /\ RpcSucceeds(Head(to_node[n]))
               /\ StoreResult(n, Head(to_node[n]).json)
               /\ call'[n] = call[n] + 1
               /\ pc'[n] = IF call[n] = LastCall(n) THEN "idle" ELSE "rpc"
      <3>1. Head(to_node[n]) = to_node[n][1] /\ 1 \in 1..Len(to_node[n])
        BY <1>0, <2>3, TailOfQueue DEF NodeTypes
      <3>2. PICK a : a = Head(to_node[n]).json
        OBVIOUS
      <3>3. Tells(n, a)
        BY <2>1, <2>3, <3>1, <3>2 DEF RpcSucceeds, AgreeInv, Told
      <3>4. AgreesSoFar(n)'
        BY <1>0, <2>1, <2>3, <3>2, <3>3, StoredAnswer DEF AgreeInv
      <3> QED BY <2>3, <3>4 DEF AgreeInv, Told, Finished
    <2> QED BY <1>0, <1>3, <2>2, <2>3 DEF receive_response, RpcReturn, Domains, SameBeliefs
  <1>4. CASE SpinReceive(n) \/ SpinReturn(n)
    BY <1>0, <1>a, <1>4 DEF SpinReceive, SpinReturn, Domains, SameBeliefs
  <1>5. ASSUME NEW e \in End(n), publish(n, e) PROVE AgreeInv(n)'
    BY <1>0, <1>a, <1>5 DEF publish, SameBeliefs
  <1>6. ASSUME NEW e \in End(n), run_callback(n, e) \/ send_data(n, e) PROVE AgreeInv(n)'
    BY <1>0, <1>a, <1>6 DEF run_callback, ShowFront, send_data, Reaches, Domains, SameBeliefs
  <1> QED BY <1>1, <1>2, <1>3, <1>4, <1>5, <1>6 DEF NodeStep

LEMMA AgreeStep ==
  ASSUME AnswersNotRepeated, BrokerStays, TypeInv, BrokerInv, [Next]_vars,
         NEW n \in Node, ConnectInv(n), AgreeInv(n)
  PROVE  AgreeInv(n)'
  <1>0. Grown
    BY RegistryGrows
  <1>a. ASSUME SameBeliefs(n), pc'[n] = pc[n], m_bp_counter'[n] = m_bp_counter[n],
               Uplinked(n), InboxKept(n)
        PROVE  AgreeInv(n)'
    <2>1. AgreesSoFar(n)' /\ Finished(n)'
      BY <1>0, <1>a, AgreesKept DEF AgreeInv, Finished, SameBeliefs
    <2>2. CASE pc[n] # "wait"
      BY <1>a, <2>1, <2>2 DEF AgreeInv, Told
    <2>3. CASE pc[n] = "wait"
      <3>1. \A i \in 1..Len(to_broker') :
              to_broker'[i].from = n /\ to_broker'[i].packet.counter = m_bp_counter'[n] =>
                Asks(n, to_broker[i].packet.json)'
        BY <1>a, <2>3, AsksKept DEF AgreeInv
      <3>2. ASSUME NEW i \in 1..Len(to_node'[n]), to_node'[n][i].type = "Control",
                   to_node'[n][i].json.success
            PROVE  Tells(n, to_node[n][i].json)'
        <4>1. \E x \in 1..Len(to_node[n]) : to_node'[n][i] = to_node[n][x]
          BY <1>a, <3>2 DEF InboxKept, KeptIn
        <4> QED BY <1>0, <1>a, <2>3, <3>2, <4>1, AgreeFrame
      <3> QED BY <1>a, <2>1, <2>3, <3>1, <3>2 DEF AgreeInv, Told
    <2> QED BY <2>2, <2>3
  <1>1. ASSUME NEW m \in Node, NodeStep(m), UNCHANGED broker_vars PROVE AgreeInv(n)'
    <2>1. CASE m = n
      BY <1>0, <1>1, <2>1, AgreeNodeStep
    <2>2. CASE m # n
      <3>1. SameNode(n) /\ Uplinked(n)
        BY <1>1, <2>2, NodeFrame, OthersPackets DEF TypeInv
      <3> QED BY <1>a, <3>1, SameInbox DEF SameNode, SameBeliefs
    <2> QED BY <2>1, <2>2
  <1>2. CASE BrokerSpin
    BY <1>0, <1>2, AgreeBrokerStep
  <1>3. ~BrokerRestart
    BY DEF BrokerRestart, Fault, BrokerStays
  <1>4. CASE NetworkFault
    <2>1. UNCHANGED <<pc, m_bp_counter, call, m_node_id, ids>>
      BY <1>4, NetworkFaultCases DEF local
    <2>2. Uplinked(n) /\ InboxKept(n)
      BY <1>4, FaultKeepsUplink, FaultKeepsInboxes DEF AnswersNotRepeated
    <2> QED BY <1>a, <2>1, <2>2 DEF SameBeliefs
  <1>5. CASE UNCHANGED vars
    <2>1. UNCHANGED <<pc, m_bp_counter, call, m_node_id, ids, to_broker, to_node>>
      BY <1>5 DEF vars, node_vars, local
    <2> QED BY <1>a, <2>1, SameInbox DEF Uplinked, SameBeliefs
  <1> QED BY <1>1, <1>2, <1>3, <1>4, <1>5 DEF Next

LEMMA AgreeInvariant ==
  ASSUME AnswersNotRepeated, BrokerStays
  PROVE  Spec => [](\A n \in Node : AgreeInv(n))
<1>1. Init => \A n \in Node : AgreeInv(n)
  <2> SUFFICES ASSUME Init, NEW n \in Node PROVE AgreeInv(n)
    OBVIOUS
  <2>1. pc[n] = "new" /\ call[n] = 1
    BY DEF Init, NodeInit
  <2>2. ASSUME NEW e \in End(n) PROVE ~(1 > 3 * e - 1) /\ ~(1 > 3 * e) /\ ~(1 > 3 * e + 1)
    <3>1. e \in Nat /\ e >= 1
      BY EndsFinite DEF End
    <3> QED BY <3>1
  <2> QED BY <2>1, <2>2 DEF AgreeInv, AgreesSoFar, Told, Finished
<1>2. /\ TypeInv /\ BrokerInv /\ (\A n \in Node : ConnectInv(n))
      /\ (\A n \in Node : AgreeInv(n)) /\ [Next]_vars
      => (\A n \in Node : AgreeInv(n))'
  BY AgreeStep
<1> QED BY <1>1, <1>2, SystemInv, ConnectInvariant, PTL DEF Spec

\* What the calls that returned left in n's tables, once all of them did.
LEMMA ConnectedAgrees ==
  ASSUME TypeInv, NEW n \in Node, AgreeInv(n), Connected(n)
  PROVE  /\ NodeAgrees(n, m_node_id[n])
         /\ \A e \in End(n) : EndpointAgrees(n, e)
  <1>1. /\ Len(Endpoint[n]) \in Nat /\ call[n] = 3 * Len(Endpoint[n]) + 2
        /\ \A e \in End(n) : e \in 1..Len(Endpoint[n])
    BY EndsFinite DEF AgreeInv, Finished, Connected, LastCall, End
  <1>2. call[n] > 1
    BY <1>1
  <1>3. ASSUME NEW e \in End(n) PROVE EndpointAgrees(n, e)
    <2>1. call[n] > 3 * e - 1 /\ call[n] > 3 * e /\ call[n] > 3 * e + 1
      BY <1>1
    <2> DEFINE id == ids[n][e].topic_id
    <2>2. /\ TypeAgrees(n, e, ids[n][e].message_type_id) /\ TopicAgrees(n, e, id)
          /\ PriorityAgrees(n, e, id) /\ IsMember(n, e, id)
      BY <2>1 DEF AgreeInv, AgreesSoFar
    <2>3. DOMAIN Members(n, e, id) = 1..Len(Members(n, e, id))
      <3>1. m_topics[id + 1] \in B!Topic
        BY <2>2, ElementOfSeq, LenProperties DEF TypeInv, B!TypeOK, TopicAgrees, B!Known
      <3>2. Members(n, e, id) \in Seq(Nat)
        BY <3>1 DEF Members, B!At, B!Topic
      <3> QED BY <3>2, LenProperties
    <2> HIDE DEF id
    <2>4. \E i \in DOMAIN Members(n, e, id) : Members(n, e, id)[i] = m_node_id[n]
      BY <2>2, <2>3 DEF IsMember
    <2>5. /\ B!Known(m_topics, id) /\ B!Known(m_message_types, ids[n][e].message_type_id)
          /\ B!At(m_topics, id).name = Endpoint[n][e].topic
          /\ B!At(m_topics, id).message_type_id = ids[n][e].message_type_id
          /\ B!At(m_message_types, ids[n][e].message_type_id)
               = [name |-> Endpoint[n][e].type, size |-> Endpoint[n][e].size]
      BY <2>2 DEF TypeAgrees, TopicAgrees
    <2> QED BY <2>2, <2>4, <2>5 DEF id, EndpointAgrees, Members, PriorityAgrees
  <1> QED BY <1>2, <1>3 DEF AgreeInv, AgreesSoFar

(***************************************************************************)
(* What a connected node believes is what the broker has registered, for    *)
(* every number of nodes and endpoints, whatever the order in which their   *)
(* connect() calls interleave and whatever requests, answers or sends are   *)
(* lost, delayed or fail, as long as the broker process stays up and no     *)
(* answer is repeated: its node id is its own entry, and each endpoint has  *)
(* the topic, type, size and priority it was created with and is listed.    *)
(***************************************************************************)
THEOREM RegistrationsAgree ==
  ASSUME AnswersNotRepeated, BrokerStays
  PROVE  Spec => []RegistrationAgrees
<1>1. TypeInv /\ (\A n \in Node : AgreeInv(n)) => RegistrationAgrees
  BY ConnectedAgrees DEF RegistrationAgrees, NodeAgrees
<1> QED BY <1>1, AgreeInvariant, SystemInv, PTL

(***************************************************************************)
(* The name of a node is used up by the first register_node that reaches    *)
(* the broker: from then on no other node of that name gets connected,      *)
(* because entries are never removed and connect() only ends with the entry *)
(* of the node's own name and address.                                      *)
(***************************************************************************)
THEOREM NamesAreFinal ==
  ASSUME AnswersNotRepeated, BrokerStays
  PROVE  Spec => NameIsFinal
<1> DEFINE Final == \A m, n \in Node :
             m # n /\ Name[m] = Name[n] /\ HoldsName(m) => ~Connected(n)'
       OwnEntry == \A n \in Node : Connected(n) => NodeAgrees(n, m_node_id[n])
<1>1. TypeInv /\ (\A n \in Node : AgreeInv(n)) => OwnEntry
  BY ConnectedAgrees
<1>2. TypeInv /\ TypeInv' /\ BrokerInv' /\ OwnEntry' /\ [Next]_vars => Final
  <2> SUFFICES ASSUME TypeInv, TypeInv', BrokerInv', OwnEntry', [Next]_vars,
                      NEW m \in Node, NEW n \in Node,
                      m # n, Name[m] = Name[n], HoldsName(m), Connected(n)'
               PROVE  FALSE
    OBVIOUS
  <2>1. PICK i \in DOMAIN m_nodes : m_nodes[i] = [name |-> Name[m], address |-> m]
    BY DEF HoldsName
  <2>2. /\ DOMAIN m_nodes = 1..Len(m_nodes) /\ Len(m_nodes) \in Nat /\ Len(m_nodes') \in Nat
    BY LenProperties DEF TypeInv, B!TypeOK
  <2>3. i - 1 \in Nat /\ B!Known(m_nodes, i - 1) /\ B!At(m_nodes, i - 1) = m_nodes[i]
    BY <2>1, <2>2 DEF B!Known, B!At
  <2>4. i \in 1..Len(m_nodes') /\ m_nodes'[i] = [name |-> Name[m], address |-> m]
    BY <2>1, <2>2, <2>3, RegistryGrows DEF Grown, B!Known, B!At
  <2>5. NodeAgrees(n, m_node_id[n])'
    OBVIOUS
  <2>6. PICK k \in 1..Len(m_nodes') : m_nodes'[k] = [name |-> Name[n], address |-> n]
    BY <2>2, <2>5 DEF NodeAgrees, B!Known, B!At
  <2>7. i = k
    BY <2>4, <2>6 DEF BrokerInv, BP!RegistryInv, BP!NamesUnique
  <2> QED BY <2>4, <2>6, <2>7
<1>3. Spec => [][Final]_vars
  BY <1>1, <1>2, AgreeInvariant, SystemInv, PTL DEF Spec
<1> QED BY <1>3 DEF NameIsFinal
=============================================================================
