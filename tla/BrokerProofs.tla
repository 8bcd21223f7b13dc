---------------------------- MODULE BrokerProofs ----------------------------
(***************************************************************************)
(* Proofs about Broker, for any sets of addresses, names and identifiers,   *)
(* any counter width and any packets from any client.                       *)
(***************************************************************************)
EXTENDS Broker, SequenceTheorems, TLAPS

(***************************************************************************)
(* What a control packet carries, by the kind of its request.              *)
(***************************************************************************)
LEMMA RequestType ==
  ASSUME NEW r \in Request
  PROVE  /\ r.op = "register_node" => r.name \in NodeName
         /\ r.op = "register_message_type" => r.name \in TypeName /\ r.size \in MessageSize
         /\ r.op = "register_topic" =>
              /\ r.name \in TopicName /\ r.message_type_id \in Id
              /\ r.priority \in TopicPriority
         /\ r.op \in {"add_publisher", "add_subscriber"} =>
              r.node_id \in Id /\ r.topic_id \in Id /\ r.message_type_id \in Id
  BY DEF Request, RegisterNodeRequest, RegisterMessageTypeRequest, RegisterTopicRequest,
         AddEndpointRequest

LEMMA PacketType ==
  /\ \A p \in ControlPackets : p.type = "Control" /\ p.counter \in BpCounter /\ p.json \in Request
  /\ \A p \in DataPackets :
       p.type = "Data" /\ p.counter \in BpCounter /\ p.topic_id \in Id /\ p.message_type_id \in Id
  /\ \A p \in InvalidPackets : p.counter \in BpCounter
  BY DEF ControlPackets, DataPackets, InvalidPackets, ControlPacket, DataPacket

\* The steps that change the registry; every other step leaves it alone.
RegistryStep(c, k, r) ==
  \/ r.op = "register_node" /\ \E ok \in BOOLEAN : register_node(c, k, r, ok)
  \/ r.op = "register_message_type" /\ \E ok \in BOOLEAN : register_message_type(c, k, r, ok)
  \/ r.op = "register_topic" /\ \E ok \in BOOLEAN : register_topic(c, k, r, ok)
  \/ r.op \in {"add_publisher", "add_subscriber"} /\ \E ok \in BOOLEAN : AddEndpoint(c, k, r, ok)

LEMMA StepCases ==
  ASSUME Next
  PROVE  \/ \E c \in Address, k \in BpCounter, r \in Request : RegistryStep(c, k, r)
         \/ UNCHANGED registry
  <1>1. PICK c \in Address :
          \/ ReceiveControl(c) \/ ReceiveData(c) \/ ReceiveInvalid(c)
          \/ ReceiveOutOfOrder(c) \/ Crash(c)
    BY DEF Next
  <1>2. CASE ReceiveControl(c)
    <2>1. PICK p \in ControlPackets, ok \in BOOLEAN : process_control_request(c, p, ok)
      BY <1>2 DEF ReceiveControl
    <2>2. p.counter \in BpCounter /\ p.json \in Request
      BY PacketType
    <2>3. \/ RegistryStep(c, p.counter, p.json)
          \/ UnknownRequest(c, p.counter, ok)
      BY <2>1 DEF process_control_request, RegistryStep
    <2> QED BY <2>2, <2>3 DEF UnknownRequest
  <1>3. CASE ReceiveData(c)
    BY <1>3 DEF ReceiveData, forward_data, ignore_data
  <1>4. CASE ReceiveInvalid(c)
    BY <1>4 DEF ReceiveInvalid, invalid_packet
  <1>5. CASE ReceiveOutOfOrder(c)
    BY <1>5 DEF ReceiveOutOfOrder, IgnoreCounter
  <1>6. CASE Crash(c)
    BY <1>6 DEF Crash, crash
  <1> QED BY <1>1, <1>2, <1>3, <1>4, <1>5, <1>6

\* Every step stores at most one received counter and keeps or ends the loop.
LEMMA CounterStep ==
  ASSUME Next, run \in {"spin", "exit", "crash"}
  PROVE  /\ \/ UNCHANGED m_client_counters
            \/ \E c \in Address, k \in BpCounter :
                 m_client_counters' = [m_client_counters EXCEPT ![c] = k]
         /\ run' \in {"spin", "exit", "crash"}
  <1>1. PICK c \in Address :
          \/ ReceiveControl(c) \/ ReceiveData(c) \/ ReceiveInvalid(c)
          \/ ReceiveOutOfOrder(c) \/ Crash(c)
    BY DEF Next
  <1> USE DEF verify_and_update_client_counter
  <1>2. CASE ReceiveControl(c)
    <2>1. PICK p \in ControlPackets, ok \in BOOLEAN : process_control_request(c, p, ok)
      BY <1>2 DEF ReceiveControl
    <2>2. p.counter \in BpCounter
      BY PacketType
    <2>3. /\ verify_and_update_client_counter(c, p.counter)
          /\ \E json : send_control_response(c, p.counter, json, ok)
      BY <2>1 DEF process_control_request, register_node, register_message_type,
                  register_topic, AddEndpoint, UnknownRequest
    <2> QED BY <2>2, <2>3 DEF send_control_response
  <1>3. CASE ReceiveData(c)
    BY <1>3, PacketType DEF ReceiveData, forward_data, ignore_data
  <1>4. CASE ReceiveInvalid(c)
    BY <1>4, PacketType DEF ReceiveInvalid, invalid_packet
  <1>5. CASE ReceiveOutOfOrder(c)
    BY <1>5 DEF ReceiveOutOfOrder, IgnoreCounter
  <1>6. CASE Crash(c)
    BY <1>6, PacketType DEF Crash, crash
  <1> QED BY <1>1, <1>2, <1>3, <1>4, <1>5, <1>6

\* What emplace_back keeps.
LEMMA AppendStep ==
  ASSUME NEW S, NEW old \in Seq(S), NEW e \in S, NEW new,
         new = old \/ new = Append(old, e)
  PROVE  new \in Seq(S) /\ SamePrefix(old, new)
  <1>1. CASE new = old
    BY <1>1, LenProperties DEF SamePrefix
  <1>2. CASE new = Append(old, e)
    BY <1>2, LenProperties, AppendProperties DEF SamePrefix
  <1> QED BY <1>1, <1>2

(***************************************************************************)
(* The four ways in which a step changes the registry.                     *)
(***************************************************************************)
NodeAdded ==
  \E t \in NodeInfo :
    /\ ~Registered(m_nodes, t.name)
    /\ m_nodes' = Append(m_nodes, t)
    /\ UNCHANGED <<m_message_types, m_topics>>

TypeAdded ==
  \E t \in MessageTypeInfo :
    /\ ~Registered(m_message_types, t.name)
    /\ m_message_types' = Append(m_message_types, t)
    /\ UNCHANGED <<m_nodes, m_topics>>

TopicAdded ==
  \E t \in Topic :
    /\ ~Registered(m_topics, t.name)
    /\ t.priority # dontcare_topic_priority
    /\ t.publishers = <<>> /\ t.subscribers = <<>>
    /\ m_topics' = Append(m_topics, t)
    /\ UNCHANGED <<m_nodes, m_message_types>>

WithEndpoint(t, u, id) ==
  /\ u.name = t.name /\ u.message_type_id = t.message_type_id /\ u.priority = t.priority
  /\ \/ u.publishers = Append(t.publishers, id) /\ u.subscribers = t.subscribers
     \/ u.publishers = t.publishers /\ u.subscribers = Append(t.subscribers, id)

EndpointAdded ==
  \E i \in 1..Len(m_topics), u \in Topic, id \in Id :
    /\ Known(m_nodes, id)
    /\ Known(m_message_types, m_topics[i].message_type_id)
    /\ WithEndpoint(m_topics[i], u, id)
    /\ m_topics' = [m_topics EXCEPT ![i] = u]
    /\ UNCHANGED <<m_nodes, m_message_types>>

LEMMA ExceptTopic ==
  ASSUME NEW t \in Topic, NEW id \in Id
  PROVE  /\ [t EXCEPT !.publishers = Append(t.publishers, id)] \in Topic
         /\ WithEndpoint(t, [t EXCEPT !.publishers = Append(t.publishers, id)], id)
         /\ [t EXCEPT !.subscribers = Append(t.subscribers, id)] \in Topic
         /\ WithEndpoint(t, [t EXCEPT !.subscribers = Append(t.subscribers, id)], id)
  <1>1. /\ Append(t.publishers, id) \in Seq(Id)
        /\ Append(t.subscribers, id) \in Seq(Id)
    BY AppendProperties DEF Topic
  <1>2. /\ [t EXCEPT !.publishers = Append(t.publishers, id)] \in Topic
        /\ [t EXCEPT !.subscribers = Append(t.subscribers, id)] \in Topic
    BY <1>1 DEF Topic
  <1>3. WithEndpoint(t, [t EXCEPT !.publishers = Append(t.publishers, id)], id)
    BY DEF Topic, WithEndpoint
  <1>4. WithEndpoint(t, [t EXCEPT !.subscribers = Append(t.subscribers, id)], id)
    BY DEF Topic, WithEndpoint
  <1> QED BY <1>2, <1>3, <1>4

LEMMA RegistryChange ==
  ASSUME TypeOK, Next
  PROVE  UNCHANGED registry \/ NodeAdded \/ TypeAdded \/ TopicAdded \/ EndpointAdded
  <1> DEFINE Goal == UNCHANGED registry \/ NodeAdded \/ TypeAdded \/ TopicAdded \/ EndpointAdded
  <1> SUFFICES ASSUME NEW c \in Address, NEW k \in BpCounter, NEW r \in Request,
                      RegistryStep(c, k, r)
               PROVE  Goal
    BY StepCases
  <1>1. ASSUME NEW ok \in BOOLEAN, r.op = "register_node", register_node(c, k, r, ok)
        PROVE  Goal
    <2> DEFINE t == [name |-> r.name, address |-> c]
    <2>1. t \in NodeInfo /\ t.name = r.name
      BY <1>1, RequestType DEF NodeInfo
    <2>2. \/ m_nodes' = m_nodes
          \/ ~Registered(m_nodes, r.name) /\ m_nodes' = Append(m_nodes, t)
      BY <1>1 DEF register_node, emplace_back
    <2> HIDE DEF t
    <2>3. UNCHANGED <<m_message_types, m_topics>>
      BY <1>1 DEF register_node
    <2> QED BY <2>1, <2>2, <2>3 DEF NodeAdded, registry
  <1>2. ASSUME NEW ok \in BOOLEAN, r.op = "register_message_type",
               register_message_type(c, k, r, ok)
        PROVE  Goal
    <2> DEFINE t == [name |-> r.name, size |-> r.size]
    <2>1. t \in MessageTypeInfo /\ t.name = r.name
      BY <1>2, RequestType DEF MessageTypeInfo
    <2>2. \/ m_message_types' = m_message_types
          \/ /\ ~Registered(m_message_types, r.name)
             /\ m_message_types' = Append(m_message_types, t)
      BY <1>2 DEF register_message_type, emplace_back
    <2> HIDE DEF t
    <2>3. UNCHANGED <<m_nodes, m_topics>>
      BY <1>2 DEF register_message_type
    <2> QED BY <2>1, <2>2, <2>3 DEF TypeAdded, registry
  <1>3. ASSUME NEW ok \in BOOLEAN, r.op = "register_topic", register_topic(c, k, r, ok)
        PROVE  Goal
    <2> DEFINE t == [name |-> r.name, message_type_id |-> r.message_type_id,
                     priority |-> r.priority, publishers |-> <<>>, subscribers |-> <<>>]
    <2>1. /\ t \in Topic /\ t.name = r.name /\ t.priority = r.priority
          /\ t.publishers = <<>> /\ t.subscribers = <<>>
      BY <1>3, RequestType, EmptySeq DEF Topic
    <2>2. \/ m_topics' = m_topics
          \/ /\ ~Registered(m_topics, r.name) /\ r.priority # dontcare_topic_priority
             /\ m_topics' = Append(m_topics, t)
      BY <1>3 DEF register_topic, emplace_back
    <2> HIDE DEF t
    <2>3. UNCHANGED <<m_nodes, m_message_types>>
      BY <1>3 DEF register_topic
    <2> QED BY <2>1, <2>2, <2>3 DEF TopicAdded, registry
  <1>4. ASSUME NEW ok \in BOOLEAN, r.op \in {"add_publisher", "add_subscriber"},
               AddEndpoint(c, k, r, ok)
        PROVE  Goal
    <2>1. r.node_id \in Id /\ r.topic_id \in Id /\ r.message_type_id \in Id
      BY <1>4, RequestType
    <2>2. UNCHANGED <<m_nodes, m_message_types>>
      BY <1>4 DEF AddEndpoint
    <2>3. CASE UNCHANGED m_topics
      BY <2>2, <2>3 DEF registry
    <2>4. CASE ~UNCHANGED m_topics
      <3> DEFINE i == r.topic_id + 1
                 t == m_topics[i]
                 pub == [t EXCEPT !.publishers = Append(t.publishers, r.node_id)]
                 sub == [t EXCEPT !.subscribers = Append(t.subscribers, r.node_id)]
      <3>1. validate_topic_parameters(r)
        BY <1>4, <2>4 DEF AddEndpoint
      <3>2. i \in 1..Len(m_topics)
        <4>1. Len(m_topics) \in Nat
          BY LenProperties DEF TypeOK
        <4>2. r.topic_id \in Nat /\ r.topic_id < Len(m_topics)
          BY <2>1, <3>1, IdAssumption DEF validate_topic_parameters, Known
        <4> QED BY <4>1, <4>2
      <3>3. Known(m_nodes, r.node_id) /\ Known(m_message_types, t.message_type_id)
        BY <3>1 DEF validate_topic_parameters, At
      <3>4. t \in Topic
        BY <3>2, ElementOfSeq DEF TypeOK
      <3>5. /\ pub \in Topic /\ WithEndpoint(t, pub, r.node_id)
            /\ sub \in Topic /\ WithEndpoint(t, sub, r.node_id)
        BY <2>1, <3>4, ExceptTopic, Zenon
      <3>6. \/ m_topics' = [m_topics EXCEPT ![i] = pub]
            \/ m_topics' = [m_topics EXCEPT ![i] = sub]
        BY <1>4, <2>4 DEF AddEndpoint
      <3> HIDE DEF i, pub, sub
      <3> QED BY <2>1, <2>2, <3>2, <3>3, <3>5, <3>6, Zenon DEF EndpointAdded
    <2> QED BY <2>3, <2>4
  <1> QED BY <1>1, <1>2, <1>3, <1>4 DEF RegistryStep

\* A step keeps the types.
LEMMA TypeStep ==
  ASSUME TypeOK, [Next]_vars
  PROVE  TypeOK'
  <1>1. CASE UNCHANGED vars
    BY <1>1 DEF TypeOK, vars, registry
  <1>2. CASE Next
    <2>1. /\ m_client_counters' \in [Address -> BpCounter \cup {NoCounter}]
          /\ run' \in {"spin", "exit", "crash"}
      BY <1>2, CounterStep DEF TypeOK
    <2>2. m_nodes' \in Seq(NodeInfo)
      BY <1>2, RegistryChange, AppendStep
         DEF TypeOK, registry, NodeAdded, TypeAdded, TopicAdded, EndpointAdded
    <2>3. m_message_types' \in Seq(MessageTypeInfo)
      BY <1>2, RegistryChange, AppendStep
         DEF TypeOK, registry, NodeAdded, TypeAdded, TopicAdded, EndpointAdded
    <2>4. m_topics' \in Seq(Topic)
      BY <1>2, RegistryChange, AppendStep, ExceptSeq
         DEF TypeOK, registry, NodeAdded, TypeAdded, TopicAdded, EndpointAdded
    <2> QED BY <2>1, <2>2, <2>3, <2>4 DEF TypeOK
  <1> QED BY <1>1, <1>2

(***************************************************************************)
(* The registry's vectors only hold what clients sent, and a stored counter *)
(* is always a value of the counter type, wrap-around included.             *)
(***************************************************************************)
THEOREM TypeCorrect == Spec => []TypeOK
<1>1. Init => TypeOK
  BY EmptySeq DEF Init, TypeOK
<1>2. TypeOK /\ [Next]_vars => TypeOK'
  BY TypeStep
<1> QED BY <1>1, <1>2, PTL DEF Spec

-----------------------------------------------------------------------------
LEMMA UniqueAppend ==
  ASSUME NEW S, NEW v \in Seq(S), NEW t \in S, NamesUnique(v), ~Registered(v, t.name)
  PROVE  NamesUnique(Append(v, t))
  <1>1. Len(v) \in Nat
    BY LenProperties
  <1>2. /\ Len(Append(v, t)) = Len(v) + 1
        /\ \A i \in 1..Len(v) : Append(v, t)[i] = v[i]
        /\ Append(v, t)[Len(v) + 1] = t
    BY AppendProperties
  <1> SUFFICES ASSUME NEW i \in 1..(Len(v) + 1), NEW j \in 1..(Len(v) + 1),
                      Append(v, t)[i].name = Append(v, t)[j].name
               PROVE  i = j
    BY <1>2 DEF NamesUnique
  <1>3. CASE i \in 1..Len(v) /\ j \in 1..Len(v)
    BY <1>2, <1>3 DEF NamesUnique
  <1>4. CASE i = Len(v) + 1 /\ j \in 1..Len(v)
    BY <1>2, <1>4 DEF Registered
  <1>5. CASE i \in 1..Len(v) /\ j = Len(v) + 1
    BY <1>2, <1>5 DEF Registered
  <1> QED BY <1>1, <1>3, <1>4, <1>5

\* One topic of EndpointsServable.
Servable(t, nodes, types) ==
  /\ \A k \in 1..Len(t.publishers) : Known(nodes, t.publishers[k])
  /\ \A k \in 1..Len(t.subscribers) : Known(nodes, t.subscribers[k])
  /\ \/ t.publishers = <<>> /\ t.subscribers = <<>>
     \/ Known(types, t.message_type_id)

LEMMA ServableKept ==
  ASSUME NEW t \in Topic, NEW n1, NEW n2, NEW t1, NEW t2,
         Len(n1) \in Nat, Len(n2) \in Nat, Len(n1) <= Len(n2),
         Len(t1) \in Nat, Len(t2) \in Nat, Len(t1) <= Len(t2),
         Servable(t, n1, t1)
  PROVE  Servable(t, n2, t2)
  <1>1. t.publishers \in Seq(Id) /\ t.subscribers \in Seq(Id) /\ t.message_type_id \in Nat
    BY IdAssumption DEF Topic
  <1>2. /\ \A k \in 1..Len(t.publishers) : t.publishers[k] \in Nat
        /\ \A k \in 1..Len(t.subscribers) : t.subscribers[k] \in Nat
    BY <1>1, IdAssumption, ElementOfSeq
  <1> QED BY <1>1, <1>2 DEF Servable, Known

\* Appending a known node to an endpoint list.
LEMMA KnownAppend ==
  ASSUME NEW s \in Seq(Id), NEW id \in Id, NEW nodes, Known(nodes, id),
         \A k \in 1..Len(s) : Known(nodes, s[k])
  PROVE  \A k \in 1..Len(Append(s, id)) : Known(nodes, Append(s, id)[k])
  <1>1. Len(s) \in Nat
    BY LenProperties
  <1>2. /\ Len(Append(s, id)) = Len(s) + 1
        /\ \A i \in 1..Len(s) : Append(s, id)[i] = s[i]
        /\ Append(s, id)[Len(s) + 1] = id
    BY AppendProperties
  <1> SUFFICES ASSUME NEW k \in 1..(Len(s) + 1) PROVE Known(nodes, Append(s, id)[k])
    BY <1>2
  <1>3. CASE k \in 1..Len(s)
    BY <1>2, <1>3
  <1>4. CASE k = Len(s) + 1
    BY <1>2, <1>4
  <1> QED BY <1>1, <1>3, <1>4

LEMMA ServableWithEndpoint ==
  ASSUME NEW t \in Topic, NEW u \in Topic, NEW id \in Id, NEW nodes, NEW types,
         Servable(t, nodes, types), Known(nodes, id), Known(types, t.message_type_id),
         WithEndpoint(t, u, id)
  PROVE  Servable(u, nodes, types)
  <1>1. t.publishers \in Seq(Id) /\ t.subscribers \in Seq(Id)
    BY DEF Topic
  <1>2. Known(types, u.message_type_id)
    BY DEF WithEndpoint
  <1>3. \A k \in 1..Len(u.publishers) : Known(nodes, u.publishers[k])
    BY <1>1, KnownAppend DEF WithEndpoint, Servable
  <1>4. \A k \in 1..Len(u.subscribers) : Known(nodes, u.subscribers[k])
    BY <1>1, KnownAppend DEF WithEndpoint, Servable
  <1> QED BY <1>2, <1>3, <1>4 DEF Servable

LEMMA ServableTopics ==
  EndpointsServable <=> \A i \in 1..Len(m_topics) : Servable(m_topics[i], m_nodes, m_message_types)
  BY DEF EndpointsServable, Servable

\* The endpoint lists of a registered topic.
LEMMA TopicEndpoints ==
  ASSUME TypeOK, NEW i \in 1..Len(m_topics)
  PROVE  /\ m_topics[i].publishers \in Seq(Id) /\ Len(m_topics[i].publishers) \in Nat
         /\ m_topics[i].subscribers \in Seq(Id) /\ Len(m_topics[i].subscribers) \in Nat
  <1>1. m_topics[i] \in Topic
    BY ElementOfSeq DEF TypeOK
  <1>2. m_topics[i].publishers \in Seq(Id) /\ m_topics[i].subscribers \in Seq(Id)
    BY <1>1 DEF Topic
  <1> QED BY <1>2, LenProperties

\* The vectors never shrink.
LEMMA VectorsGrow ==
  ASSUME TypeOK, Next
  PROVE  /\ SamePrefix(m_nodes, m_nodes')
         /\ SamePrefix(m_message_types, m_message_types')
         /\ Len(m_nodes) \in Nat /\ Len(m_nodes') \in Nat
         /\ Len(m_message_types) \in Nat /\ Len(m_message_types') \in Nat
  <1>1. /\ m_nodes \in Seq(NodeInfo)
        /\ m_nodes' = m_nodes \/ \E e \in NodeInfo : m_nodes' = Append(m_nodes, e)
    BY RegistryChange
       DEF TypeOK, registry, NodeAdded, TypeAdded, TopicAdded, EndpointAdded
  <1>2. /\ m_message_types \in Seq(MessageTypeInfo)
        /\ \/ m_message_types' = m_message_types
           \/ \E e \in MessageTypeInfo : m_message_types' = Append(m_message_types, e)
    BY RegistryChange
       DEF TypeOK, registry, NodeAdded, TypeAdded, TopicAdded, EndpointAdded
  <1>3. SamePrefix(m_nodes, m_nodes') /\ m_nodes' \in Seq(NodeInfo)
    <2>1. CASE m_nodes' = m_nodes
      BY <2>1, LenProperties DEF SamePrefix, TypeOK
    <2>2. CASE m_nodes' # m_nodes
      BY <1>1, <2>2, AppendStep
    <2> QED BY <2>1, <2>2
  <1>4. SamePrefix(m_message_types, m_message_types') /\ m_message_types' \in Seq(MessageTypeInfo)
    <2>1. CASE m_message_types' = m_message_types
      BY <2>1, LenProperties DEF SamePrefix, TypeOK
    <2>2. CASE m_message_types' # m_message_types
      BY <1>2, <2>2, AppendStep
    <2> QED BY <2>1, <2>2
  <1> QED BY <1>3, <1>4, LenProperties DEF TypeOK

\* A step keeps the registry's invariant.
LEMMA RegistryInvStep ==
  ASSUME TypeOK, RegistryInv, [Next]_vars
  PROVE  RegistryInv'
  <1>1. CASE UNCHANGED registry
    BY <1>1 DEF RegistryInv, EndpointsServable, NamesUnique, registry
  <1>2. CASE Next /\ (NodeAdded \/ TypeAdded)
    <2>1. NamesUnique(m_nodes')
      BY <1>2, UniqueAppend DEF RegistryInv, TypeOK, NodeAdded, TypeAdded
    <2>2. NamesUnique(m_message_types')
      BY <1>2, UniqueAppend DEF RegistryInv, TypeOK, NodeAdded, TypeAdded
    <2>3. m_topics' = m_topics
      BY <1>2 DEF NodeAdded, TypeAdded
    <2>4. ASSUME NEW i \in 1..Len(m_topics)
          PROVE  Servable(m_topics[i], m_nodes', m_message_types')
      <3>1. m_topics[i] \in Topic /\ Servable(m_topics[i], m_nodes, m_message_types)
        BY ElementOfSeq, ServableTopics DEF TypeOK, RegistryInv
      <3>2. /\ Len(m_nodes) <= Len(m_nodes')
            /\ Len(m_message_types) <= Len(m_message_types')
            /\ Len(m_nodes) \in Nat /\ Len(m_nodes') \in Nat
            /\ Len(m_message_types) \in Nat /\ Len(m_message_types') \in Nat
        BY <1>2, VectorsGrow DEF SamePrefix
      <3> QED BY <3>1, <3>2, ServableKept
    <2>5. EndpointsServable'
      BY <2>3, <2>4 DEF EndpointsServable, Servable
    <2> QED BY <2>1, <2>2, <2>3, <2>5 DEF RegistryInv
  <1>3. CASE TopicAdded
    <2>1. PICK t \in Topic :
            /\ ~Registered(m_topics, t.name)
            /\ t.publishers = <<>> /\ t.subscribers = <<>>
            /\ m_topics' = Append(m_topics, t)
            /\ UNCHANGED <<m_nodes, m_message_types>>
      BY <1>3 DEF TopicAdded
    <2>2. NamesUnique(m_topics')
      BY <2>1, UniqueAppend DEF RegistryInv, TypeOK
    <2>3. /\ Len(m_topics) \in Nat /\ Len(m_topics') = Len(m_topics) + 1
          /\ \A i \in 1..Len(m_topics) : m_topics'[i] = m_topics[i]
          /\ m_topics'[Len(m_topics) + 1] = t
      BY <2>1, LenProperties, AppendProperties DEF TypeOK
    <2>4. Servable(t, m_nodes, m_message_types)
      BY <2>1 DEF Servable
    <2>5. ASSUME NEW i \in 1..Len(m_topics')
          PROVE  Servable(m_topics'[i], m_nodes, m_message_types)
      <3>1. CASE i \in 1..Len(m_topics)
        BY <2>3, <3>1, ServableTopics DEF RegistryInv
      <3>2. CASE i = Len(m_topics) + 1
        BY <2>3, <2>4, <3>2
      <3> QED BY <2>3, <3>1, <3>2
    <2>6. EndpointsServable'
      BY <2>1, <2>5 DEF EndpointsServable, Servable
    <2> QED BY <2>1, <2>2, <2>6 DEF RegistryInv
  <1>4. CASE EndpointAdded
    <2>1. PICK i \in 1..Len(m_topics), u \in Topic, id \in Id :
            /\ Known(m_nodes, id)
            /\ Known(m_message_types, m_topics[i].message_type_id)
            /\ WithEndpoint(m_topics[i], u, id)
            /\ m_topics' = [m_topics EXCEPT ![i] = u]
            /\ UNCHANGED <<m_nodes, m_message_types>>
      BY <1>4, Zenon DEF EndpointAdded
    <2>2. /\ Len(m_topics') = Len(m_topics)
          /\ \A j \in 1..Len(m_topics) : m_topics'[j] = IF j = i THEN u ELSE m_topics[j]
      BY <2>1, ExceptSeq DEF TypeOK
    <2>3. \A j \in 1..Len(m_topics) : m_topics'[j].name = m_topics[j].name
      BY <2>1, <2>2 DEF WithEndpoint
    <2>4. NamesUnique(m_topics')
      BY <2>2, <2>3 DEF NamesUnique, RegistryInv
    <2>5. m_topics[i] \in Topic /\ Servable(m_topics[i], m_nodes, m_message_types)
      BY ElementOfSeq, ServableTopics DEF TypeOK, RegistryInv
    <2>6. Servable(u, m_nodes, m_message_types)
      BY <2>1, <2>5, ServableWithEndpoint
    <2>7. \A j \in 1..Len(m_topics') : Servable(m_topics'[j], m_nodes, m_message_types)
      BY <2>2, <2>6, ServableTopics DEF RegistryInv
    <2>8. EndpointsServable'
      BY <2>1, <2>7 DEF EndpointsServable, Servable
    <2> QED BY <2>1, <2>4, <2>8 DEF RegistryInv
  <1> QED BY <1>1, <1>2, <1>3, <1>4, RegistryChange DEF vars, registry

(***************************************************************************)
(* Whatever clients send, names stay unique and every endpoint the broker   *)
(* indexes without a check is a registered node of a topic whose message    *)
(* type exists.                                                             *)
(***************************************************************************)
THEOREM RegistryInvariant == Spec => []RegistryInv
<1>1. Init => RegistryInv
  BY EmptySeq DEF Init, RegistryInv, NamesUnique, EndpointsServable
<1>2. TypeOK /\ RegistryInv /\ [Next]_vars => RegistryInv'
  BY RegistryInvStep
<1> QED BY <1>1, <1>2, TypeCorrect, PTL DEF Spec

\* A step keeps every topic and its endpoints.
LEMMA TopicsKept ==
  ASSUME TypeOK, Next
  PROVE  KeepsTopics
  <1>1. CASE m_topics' = m_topics
    <2>1. \A i \in 1..Len(m_topics) :
            Len(m_topics[i].publishers) \in Nat /\ Len(m_topics[i].subscribers) \in Nat
      BY TopicEndpoints
    <2>2. Len(m_topics) \in Nat
      BY LenProperties DEF TypeOK
    <2> QED BY <1>1, <2>1, <2>2 DEF KeepsTopics, SamePrefix
  <1>2. CASE TopicAdded
    <2>1. PICK t \in Topic : m_topics' = Append(m_topics, t)
      BY <1>2 DEF TopicAdded
    <2>2. SamePrefix(m_topics, m_topics')
      BY <2>1, AppendStep DEF TypeOK
    <2>3. \A i \in 1..Len(m_topics) :
            Len(m_topics[i].publishers) \in Nat /\ Len(m_topics[i].subscribers) \in Nat
      BY TopicEndpoints
    <2> QED BY <2>2, <2>3 DEF KeepsTopics, SamePrefix
  <1>3. CASE EndpointAdded
    <2>1. PICK i \in 1..Len(m_topics), u \in Topic, id \in Id :
            /\ WithEndpoint(m_topics[i], u, id)
            /\ m_topics' = [m_topics EXCEPT ![i] = u]
      BY <1>3, Zenon DEF EndpointAdded
    <2>2. /\ Len(m_topics') = Len(m_topics)
          /\ \A j \in 1..Len(m_topics) : m_topics'[j] = IF j = i THEN u ELSE m_topics[j]
      BY <2>1, ExceptSeq DEF TypeOK
    <2>3. Len(m_topics) \in Nat
      BY LenProperties DEF TypeOK
    <2>4. ASSUME NEW j \in 1..Len(m_topics)
          PROVE  /\ m_topics'[j].name = m_topics[j].name
                 /\ m_topics'[j].message_type_id = m_topics[j].message_type_id
                 /\ m_topics'[j].priority = m_topics[j].priority
                 /\ SamePrefix(m_topics[j].publishers, m_topics'[j].publishers)
                 /\ SamePrefix(m_topics[j].subscribers, m_topics'[j].subscribers)
      <3>1. m_topics[j].publishers \in Seq(Id) /\ m_topics[j].subscribers \in Seq(Id)
        BY TopicEndpoints
      <3>2. CASE j # i
        BY <2>2, <3>1, <3>2, LenProperties DEF SamePrefix
      <3>3. CASE j = i
        <4>1. /\ m_topics'[j] = u /\ WithEndpoint(m_topics[j], u, id)
          BY <2>1, <2>2, <3>3
        <4>2. /\ SamePrefix(m_topics[j].publishers, u.publishers)
              /\ SamePrefix(m_topics[j].subscribers, u.subscribers)
          BY <3>1, <4>1, AppendStep DEF WithEndpoint
        <4> QED BY <4>1, <4>2 DEF WithEndpoint
      <3> QED BY <3>2, <3>3
    <2> QED BY <2>2, <2>3, <2>4 DEF KeepsTopics
  <1> QED BY <1>1, <1>2, <1>3, RegistryChange DEF registry, NodeAdded, TypeAdded

(***************************************************************************)
(* No packet makes the broker move, change or drop a registered entry: an   *)
(* identifier keeps its meaning for as long as the process runs.            *)
(***************************************************************************)
THEOREM IdsKeepTheirMeaning == Spec => IdsStable
<1>1. TypeOK /\ [Next]_vars =>
        [/\ SamePrefix(m_nodes, m_nodes')
         /\ SamePrefix(m_message_types, m_message_types')
         /\ KeepsTopics]_vars
  BY TopicsKept, VectorsGrow
<1> QED BY <1>1, TypeCorrect, PTL DEF Spec, IdsStable

-----------------------------------------------------------------------------
(***************************************************************************)
(* The answers.  register_topic refuses to create a topic with the don't-   *)
(* care priority, which is what makes the priority of a later answer real.  *)
(***************************************************************************)
PrioritiesReal ==
  \A i \in 1..Len(m_topics) : m_topics[i].priority # dontcare_topic_priority

\* find_if over a vector in which a name occurs once is a look-up of its index.
LEMMA IdOfRegistered ==
  ASSUME NEW S, NEW v \in Seq(S), NEW name, NamesUnique(v), Registered(v, name)
  PROVE  IdOf(v, name) \in Nat /\ Known(v, IdOf(v, name)) /\ At(v, IdOf(v, name)).name = name
  <1>1. Len(v) \in Nat
    BY LenProperties
  <1>2. PICK i \in 1..Len(v) : v[i].name = name
    BY DEF Registered
  <1>3. \A j \in 1..(i - 1) : v[j].name # name
    BY <1>1, <1>2 DEF NamesUnique
  <1> DEFINE First(k) == v[k].name = name /\ \A j \in 1..(k - 1) : v[j].name # name
             found == CHOOSE k \in 1..Len(v) : First(k)
  <1>4. found \in 1..Len(v) /\ First(found)
    BY <1>2, <1>3
  <1>5. IdOf(v, name) = found - 1
    BY DEF IdOf
  <1> HIDE DEF found
  <1>6. found - 1 \in Nat /\ found - 1 < Len(v) /\ (found - 1) + 1 = found
    BY <1>1, <1>4
  <1> QED BY <1>4, <1>5, <1>6 DEF Known, At

\* One answer: what it was sent with, and whether it grants the request.
LEMMA OneAnswer ==
  ASSUME NEW c, NEW counter, NEW json, NEW ok,
         send_control_response(c, counter, json, ok)
  PROVE  /\ Len(sent') = 1
         /\ sent'[1].to = c /\ sent'[1].ok = ok
         /\ sent'[1].packet.counter = counter /\ sent'[1].packet.json = json
         /\ Grants(sent'[1]) => "success" \in DOMAIN json /\ json.success
  <1> DEFINE s == [to |-> c, packet |-> ControlPacket(counter, json), ok |-> ok]
  <1>1. sent' = <<s>>
    BY DEF send_control_response
  <1>2. s.to = c /\ s.ok = ok /\ s.packet.counter = counter /\ s.packet.json = json
    BY DEF ControlPacket
  <1> HIDE DEF s
  <1>3. Len(sent') = 1 /\ sent'[1] = s
    BY <1>1
  <1> QED BY <1>2, <1>3 DEF Grants

\* A failure and json{} grant nothing.
LEMMA NotGranted ==
  ASSUME NEW c, NEW counter, NEW i, NEW ok,
         \/ send_control_response(c, counter, rpc_failure_response(i), ok)
         \/ send_control_response(c, counter, NullJson, ok)
  PROVE  ~Grants(sent'[1])
  <1>1. rpc_failure_response(i).success = FALSE
    BY DEF rpc_failure_response
  <1>2. DOMAIN NullJson = {"op"}
    BY DEF NullJson
  <1>3. CASE send_control_response(c, counter, rpc_failure_response(i), ok)
    <2> DEFINE json == rpc_failure_response(i)
    <2>1. send_control_response(c, counter, json, ok) /\ json.success = FALSE
      BY <1>1, <1>3
    <2> HIDE DEF json
    <2> QED BY <2>1, OneAnswer
  <1>4. CASE send_control_response(c, counter, NullJson, ok)
    <2> DEFINE json == NullJson
    <2>1. send_control_response(c, counter, json, ok) /\ "success" \notin DOMAIN json
      BY <1>2, <1>4
    <2> HIDE DEF json
    <2> QED BY <2>1, OneAnswer
  <1> QED BY <1>3, <1>4

\* Every control request is answered once, under its counter and to its sender.
LEMMA Answered ==
  ASSUME NEW c, NEW k, NEW r, NEW ok, process_control_request(c, ControlPacket(k, r), ok)
  PROVE  \E json : send_control_response(c, k, json, ok)
  <1>1. ControlPacket(k, r).json = r /\ ControlPacket(k, r).counter = k
    BY DEF ControlPacket
  <1> QED BY <1>1 DEF process_control_request, register_node, register_message_type,
                      register_topic, AddEndpoint, UnknownRequest

LEMMA NodeGranted ==
  ASSUME TypeOK, NEW c \in Address, NEW k, NEW r \in Request, NEW ok,
         r.op = "register_node", register_node(c, k, r, ok), Grants(sent'[1])
  PROVE  GrantedAsAsked(c, r, sent[1].packet.json)'
  <1> DEFINE entry == [name |-> r.name, address |-> c]
             json == [rpc_id |-> r.rpc_id, success |-> TRUE, node_id |-> NewId(m_nodes)]
  <1>1. m_nodes' = Append(m_nodes, entry) /\ send_control_response(c, k, json, ok)
    BY NotGranted DEF register_node, emplace_back
  <1>2. json.node_id = NewId(m_nodes)
    OBVIOUS
  <1>3. entry \in NodeInfo
    BY RequestType DEF NodeInfo
  <1>4. entry = [name |-> r.name, address |-> c]
    OBVIOUS
  <1> HIDE DEF json, entry
  <1>5. Known(m_nodes', NewId(m_nodes)) /\ At(m_nodes', NewId(m_nodes)) = entry
    BY <1>1, <1>3, LenProperties, AppendProperties DEF TypeOK, Known, At, NewId
  <1>6. sent'[1].packet.json = json
    BY <1>1, OneAnswer
  <1> QED BY <1>2, <1>4, <1>5, <1>6 DEF GrantedAsAsked

LEMMA TypeGranted ==
  ASSUME TypeOK, RegistryInv, NEW c \in Address, NEW k, NEW r \in Request, NEW ok,
         r.op = "register_message_type", register_message_type(c, k, r, ok), Grants(sent'[1])
  PROVE  GrantedAsAsked(c, r, sent[1].packet.json)'
  <1> DEFINE entry == [name |-> r.name, size |-> r.size]
             json(i) == [rpc_id |-> r.rpc_id, success |-> TRUE, message_type_id |-> i]
             id == IdOf(m_message_types, r.name)
  <1>0. /\ m_message_types \in Seq(MessageTypeInfo) /\ Len(m_message_types) \in Nat
        /\ entry \in MessageTypeInfo
    BY RequestType, LenProperties DEF TypeOK, MessageTypeInfo
  <1>1. ASSUME NEW i, send_control_response(c, k, json(i), ok),
               Known(m_message_types', i), At(m_message_types', i) = entry
        PROVE  GrantedAsAsked(c, r, sent[1].packet.json)'
    <2>1. json(i).message_type_id = i
      OBVIOUS
    <2> HIDE DEF json
    <2>2. sent'[1].packet.json = json(i)
      BY <1>1, OneAnswer
    <2> QED BY <1>1, <2>1, <2>2 DEF GrantedAsAsked
  <1>2. CASE /\ m_message_types' = Append(m_message_types, entry)
             /\ send_control_response(c, k, json(NewId(m_message_types)), ok)
    <2> HIDE DEF entry, json
    <2>1. /\ Known(m_message_types', NewId(m_message_types))
          /\ At(m_message_types', NewId(m_message_types)) = entry
      BY <1>0, <1>2, AppendProperties DEF Known, At, NewId
    <2> QED BY <1>1, <1>2, <2>1
  <1>3. CASE /\ Registered(m_message_types, r.name) /\ m_message_types' = m_message_types
             /\ SameSize(id, r) /\ send_control_response(c, k, json(id), ok)
    <2>1. id \in Nat /\ Known(m_message_types, id) /\ At(m_message_types, id).name = r.name
      BY <1>0, <1>3, IdOfRegistered DEF RegistryInv
    <2>2. At(m_message_types, id) \in MessageTypeInfo
      BY <1>0, <2>1, ElementOfSeq DEF Known, At
    <2>3. At(m_message_types, id) = entry
      BY <1>3, <2>1, <2>2 DEF MessageTypeInfo, SameSize
    <2> HIDE DEF entry, json, id
    <2> QED BY <1>1, <1>3, <2>1, <2>3
  <1> QED BY <1>2, <1>3, NotGranted DEF register_message_type, emplace_back

LEMMA TopicGranted ==
  ASSUME TypeOK, RegistryInv, PrioritiesReal,
         NEW c \in Address, NEW k, NEW r \in Request, NEW ok,
         r.op = "register_topic", register_topic(c, k, r, ok), Grants(sent'[1])
  PROVE  GrantedAsAsked(c, r, sent[1].packet.json)'
  <1> DEFINE entry == [name |-> r.name, message_type_id |-> r.message_type_id,
                       priority |-> r.priority, publishers |-> <<>>, subscribers |-> <<>>]
             json(i, q) == [rpc_id |-> r.rpc_id, success |-> TRUE,
                            topic_id |-> i, topic_priority |-> q]
             id == IdOf(m_topics, r.name)
  <1>0. m_topics \in Seq(Topic) /\ Len(m_topics) \in Nat /\ entry \in Topic
    BY RequestType, LenProperties, EmptySeq DEF TypeOK, Topic
  <1>1. ASSUME NEW i, NEW q, send_control_response(c, k, json(i, q), ok), Known(m_topics', i),
               At(m_topics', i).name = r.name,
               At(m_topics', i).message_type_id = r.message_type_id,
               At(m_topics', i).priority = q,
               q # dontcare_topic_priority, r.priority \in {dontcare_topic_priority, q}
        PROVE  GrantedAsAsked(c, r, sent[1].packet.json)'
    <2>1. json(i, q).topic_id = i /\ json(i, q).topic_priority = q
      OBVIOUS
    <2> HIDE DEF json
    <2>2. sent'[1].packet.json = json(i, q)
      BY <1>1, OneAnswer
    <2> QED BY <1>1, <2>1, <2>2 DEF GrantedAsAsked
  <1>2. CASE /\ r.priority # dontcare_topic_priority
             /\ m_topics' = Append(m_topics, entry)
             /\ send_control_response(c, k, json(NewId(m_topics), r.priority), ok)
    <2>1. /\ entry.name = r.name /\ entry.message_type_id = r.message_type_id
          /\ entry.priority = r.priority
      OBVIOUS
    <2> HIDE DEF entry, json
    <2>2. Known(m_topics', NewId(m_topics)) /\ At(m_topics', NewId(m_topics)) = entry
      BY <1>0, <1>2, AppendProperties DEF Known, At, NewId
    <2> QED BY <1>1, <1>2, <2>1, <2>2
  <1>3. CASE /\ Registered(m_topics, r.name) /\ m_topics' = m_topics
             /\ At(m_topics, id).message_type_id = r.message_type_id
             /\ r.priority \in {dontcare_topic_priority, At(m_topics, id).priority}
             /\ send_control_response(c, k, json(id, At(m_topics, id).priority), ok)
    <2>1. id \in Nat /\ Known(m_topics, id) /\ At(m_topics, id).name = r.name
      BY <1>0, <1>3, IdOfRegistered DEF RegistryInv
    <2>2. At(m_topics, id).priority # dontcare_topic_priority
      BY <1>0, <2>1 DEF PrioritiesReal, Known, At
    <2> HIDE DEF json, id
    <2> QED BY <1>1, <1>3, <2>1, <2>2
  <1> QED BY <1>2, <1>3, NotGranted DEF register_topic, emplace_back

LEMMA EndpointGranted ==
  ASSUME TypeOK, NEW c \in Address, NEW k, NEW r \in Request, NEW ok,
         r.op \in {"add_publisher", "add_subscriber"}, AddEndpoint(c, k, r, ok),
         Grants(sent'[1])
  PROVE  GrantedAsAsked(c, r, sent[1].packet.json)'
  <1> DEFINE i == r.topic_id + 1
             node == r.node_id
  <1>1. /\ validate_topic_parameters(r)
        /\ \/ /\ r.op = "add_publisher"
              /\ m_topics' = [m_topics EXCEPT ![i].publishers = Append(@, node)]
           \/ /\ r.op = "add_subscriber"
              /\ m_topics' = [m_topics EXCEPT ![i].subscribers = Append(@, node)]
        /\ UNCHANGED <<m_nodes, m_message_types>>
    BY NotGranted DEF AddEndpoint
  <1>2. r.topic_id \in Nat /\ r.node_id \in Id
    BY RequestType, IdAssumption
  <1>3. m_topics \in Seq(Topic) /\ Len(m_topics) \in Nat /\ DOMAIN m_topics = 1..Len(m_topics)
    BY LenProperties DEF TypeOK
  <1>4. i \in 1..Len(m_topics) /\ i - 1 = r.topic_id
    BY <1>1, <1>2, <1>3 DEF validate_topic_parameters, Known
  <1>5. m_topics[i] \in Topic
    BY <1>3, <1>4, ElementOfSeq
  <1>6. PICK u :
          /\ u.message_type_id = m_topics[i].message_type_id
          /\ r.op = "add_publisher" => u.publishers = Append(m_topics[i].publishers, node)
          /\ r.op = "add_subscriber" => u.subscribers = Append(m_topics[i].subscribers, node)
          /\ m_topics' = [m_topics EXCEPT ![i] = u]
    <2>1. CASE /\ r.op = "add_publisher"
               /\ m_topics' = [m_topics EXCEPT ![i].publishers = Append(@, node)]
      <3> DEFINE u == [m_topics[i] EXCEPT !.publishers = Append(@, node)]
      <3>1. /\ u.message_type_id = m_topics[i].message_type_id
            /\ u.publishers = Append(m_topics[i].publishers, node)
        BY <1>5 DEF Topic
      <3>2. m_topics' = [m_topics EXCEPT ![i] = u]
        BY <2>1
      <3> HIDE DEF u
      <3> QED BY <2>1, <3>1, <3>2
    <2>2. CASE /\ r.op = "add_subscriber"
               /\ m_topics' = [m_topics EXCEPT ![i].subscribers = Append(@, node)]
      <3> DEFINE u == [m_topics[i] EXCEPT !.subscribers = Append(@, node)]
      <3>1. /\ u.message_type_id = m_topics[i].message_type_id
            /\ u.subscribers = Append(m_topics[i].subscribers, node)
        BY <1>5 DEF Topic
      <3>2. m_topics' = [m_topics EXCEPT ![i] = u]
        BY <2>2
      <3> HIDE DEF u
      <3> QED BY <2>2, <3>1, <3>2
    <2> QED BY <1>1, <2>1, <2>2
  <1>7. Len(m_topics') = Len(m_topics) /\ m_topics'[i] = u
    BY <1>3, <1>4, <1>6, ExceptSeq
  <1>8. /\ m_topics[i].publishers \in Seq(Id) /\ m_topics[i].subscribers \in Seq(Id)
    BY <1>5 DEF Topic
  <1>9. \A s \in Seq(Id) :
          \E n \in 1..Len(Append(s, node)) : Append(s, node)[n] = node
    <2> TAKE s \in Seq(Id)
    <2>1. Len(s) \in Nat /\ Len(Append(s, node)) = Len(s) + 1
          /\ Append(s, node)[Len(s) + 1] = node
      BY <1>2, LenProperties, AppendProperties
    <2> QED BY <2>1
  <1>10. At(m_topics', r.topic_id) = u
    BY <1>7 DEF At
  <1>11. /\ r.op = "add_publisher" =>
              \E n \in 1..Len(At(m_topics', r.topic_id).publishers) :
                At(m_topics', r.topic_id).publishers[n] = r.node_id
         /\ r.op = "add_subscriber" =>
              \E n \in 1..Len(At(m_topics', r.topic_id).subscribers) :
                At(m_topics', r.topic_id).subscribers[n] = r.node_id
    BY <1>6, <1>8, <1>9, <1>10
  <1>12. /\ Known(m_nodes', r.node_id) /\ Known(m_topics', r.topic_id)
         /\ Known(m_message_types', r.message_type_id)
         /\ At(m_topics', r.topic_id).message_type_id = r.message_type_id
    BY <1>1, <1>6, <1>7, <1>10 DEF validate_topic_parameters, Known, At
  <1> QED BY <1>11, <1>12 DEF GrantedAsAsked

\* A granted control request is granted as it was asked for.
LEMMA RequestGranted ==
  ASSUME TypeOK, RegistryInv, PrioritiesReal,
         NEW c \in Address, NEW k, NEW r \in Request, NEW ok,
         process_control_request(c, ControlPacket(k, r), ok), Grants(sent'[1])
  PROVE  GrantedAsAsked(c, r, sent[1].packet.json)'
  <1>1. ControlPacket(k, r).json = r /\ ControlPacket(k, r).counter = k
    BY DEF ControlPacket
  <1>2. \/ r.op = "register_node" /\ register_node(c, k, r, ok)
        \/ r.op = "register_message_type" /\ register_message_type(c, k, r, ok)
        \/ r.op = "register_topic" /\ register_topic(c, k, r, ok)
        \/ r.op \in {"add_publisher", "add_subscriber"} /\ AddEndpoint(c, k, r, ok)
        \/ UnknownRequest(c, k, ok)
    BY <1>1 DEF process_control_request
  <1>3. ~UnknownRequest(c, k, ok)
    BY NotGranted DEF UnknownRequest
  <1> QED BY <1>2, <1>3, NodeGranted, TypeGranted, TopicGranted, EndpointGranted

\* The packets that are copied to subscribers are not answers.
LEMMA ForwardedData ==
  ASSUME TypeOK, NEW c, NEW p \in DataPackets, NEW failed, forward_data(c, p, failed)
  PROVE  \A i \in 1..Len(sent') : ~Grants(sent'[i])
  <1> DEFINE subscribers == At(m_topics, p.topic_id).subscribers
             Sent(i) == [to |-> At(m_nodes, subscribers[i]).address,
                         packet |-> p, ok |-> i \notin failed]
  <1>1. p.type = "Data" /\ p.topic_id \in Nat
    BY PacketType, IdAssumption
  <1>2. Len(m_topics) \in Nat /\ Known(m_topics, p.topic_id)
    BY LenProperties DEF TypeOK, forward_data, Forwardable
  <1>3. p.topic_id + 1 \in 1..Len(m_topics)
    BY <1>1, <1>2 DEF Known
  <1>4. Len(subscribers) \in Nat
    BY <1>3, TopicEndpoints DEF At
  <1>5. sent' = [i \in 1..Len(subscribers) |-> Sent(i)]
    BY DEF forward_data, Recipients
  <1>6. \A i \in 1..Len(subscribers) : Sent(i).packet = p
    OBVIOUS
  <1> HIDE DEF Sent
  <1>7. Len(sent') = Len(subscribers) /\ \A i \in 1..Len(subscribers) : sent'[i] = Sent(i)
    BY <1>4, <1>5
  <1> QED BY <1>1, <1>6, <1>7 DEF Grants

\* What a step sends grants something only if the step handled a control request.
LEMMA GrantingStep ==
  ASSUME TypeOK, Next, NEW i \in 1..Len(sent'), Grants(sent'[i])
  PROVE  i = 1 /\ sent'[1].to \in Address
  <1>1. PICK c \in Address :
          \/ ReceiveControl(c) \/ ReceiveData(c) \/ ReceiveInvalid(c)
          \/ ReceiveOutOfOrder(c) \/ Crash(c)
    BY DEF Next
  <1>2. CASE ReceiveControl(c)
    <2>1. PICK p \in ControlPackets, ok \in BOOLEAN : process_control_request(c, p, ok)
      BY <1>2 DEF ReceiveControl
    <2>2. p = ControlPacket(p.counter, p.json)
      BY DEF ControlPackets, ControlPacket
    <2>3. PICK json : send_control_response(c, p.counter, json, ok)
      BY <2>1, <2>2, Answered
    <2> QED BY <2>3, OneAnswer
  <1>3. CASE ReceiveData(c)
    <2>1. PICK p \in DataPackets :
            \/ \E failed \in SUBSET (1..MaxEndpoints) : forward_data(c, p, failed)
            \/ ignore_data(c, p)
      BY <1>3 DEF ReceiveData
    <2>2. ~ignore_data(c, p)
      BY EmptySeq DEF ignore_data
    <2> QED BY <2>1, <2>2, ForwardedData
  <1>4. CASE ReceiveInvalid(c) \/ ReceiveOutOfOrder(c) \/ Crash(c)
    <2>1. sent' = <<>>
      BY <1>4 DEF ReceiveInvalid, invalid_packet, ReceiveOutOfOrder, IgnoreCounter,
                  Crash, crash
    <2> QED BY <2>1, EmptySeq
  <1> QED BY <1>1, <1>2, <1>3, <1>4

\* No topic is ever registered with the don't-care priority.
LEMMA PrioritiesStep ==
  ASSUME TypeOK, PrioritiesReal, [Next]_vars
  PROVE  PrioritiesReal'
  <1>1. CASE m_topics' = m_topics
    BY <1>1 DEF PrioritiesReal
  <1>2. CASE TopicAdded
    <2>1. PICK t \in Topic :
            t.priority # dontcare_topic_priority /\ m_topics' = Append(m_topics, t)
      BY <1>2 DEF TopicAdded
    <2>2. /\ Len(m_topics) \in Nat /\ Len(m_topics') = Len(m_topics) + 1
          /\ \A i \in 1..Len(m_topics) : m_topics'[i] = m_topics[i]
          /\ m_topics'[Len(m_topics) + 1] = t
      BY <2>1, LenProperties, AppendProperties DEF TypeOK
    <2> QED BY <2>1, <2>2 DEF PrioritiesReal
  <1>3. CASE EndpointAdded
    <2>1. PICK i \in 1..Len(m_topics), u \in Topic, id \in Id :
            /\ WithEndpoint(m_topics[i], u, id)
            /\ m_topics' = [m_topics EXCEPT ![i] = u]
      BY <1>3, Zenon DEF EndpointAdded
    <2>2. /\ Len(m_topics') = Len(m_topics)
          /\ \A j \in 1..Len(m_topics) : m_topics'[j] = IF j = i THEN u ELSE m_topics[j]
      BY <2>1, ExceptSeq DEF TypeOK
    <2> QED BY <2>1, <2>2 DEF PrioritiesReal, WithEndpoint
  <1> QED BY <1>1, <1>2, <1>3, RegistryChange
          DEF vars, registry, NodeAdded, TypeAdded

LEMMA PrioritiesStayReal == Spec => []PrioritiesReal
<1>1. Init => PrioritiesReal
  BY EmptySeq DEF Init, PrioritiesReal
<1>2. TypeOK /\ PrioritiesReal /\ [Next]_vars => PrioritiesReal'
  BY PrioritiesStep
<1> QED BY <1>1, <1>2, TypeCorrect, PTL DEF Spec

(***************************************************************************)
(* Whatever the registry has become, a request that the broker grants is    *)
(* granted as it was asked for: the entry behind the identifier in the      *)
(* answer has the requested name, and the requester's address, the          *)
(* requested size, or the requested message type and priority.              *)
(***************************************************************************)
THEOREM AnswersAreTruthful == Spec => AnswersTruthful
<1> DEFINE Truthful ==
      \A i \in 1..Len(sent') : Grants(sent'[i]) =>
        \A r \in Request : Handles(r, sent'[i]) =>
          GrantedAsAsked(sent[i].to, r, sent[i].packet.json)'
<1>1. ASSUME TypeOK, RegistryInv, PrioritiesReal, Next
      PROVE  Truthful
  <2> SUFFICES ASSUME NEW i \in 1..Len(sent'), Grants(sent'[i]),
                      NEW r \in Request, Handles(r, sent'[i])
               PROVE  GrantedAsAsked(sent[i].to, r, sent[i].packet.json)'
    OBVIOUS
  <2>1. i = 1 /\ sent'[1].to \in Address
    BY <1>1, GrantingStep
  <2> QED BY <1>1, <2>1, RequestGranted DEF Handles
<1>2. TypeOK /\ RegistryInv /\ PrioritiesReal /\ [Next]_vars => [Truthful]_vars
  BY <1>1
<1> QED BY <1>2, TypeCorrect, RegistryInvariant, PrioritiesStayReal, PTL
        DEF Spec, AnswersTruthful
=============================================================================
