----------------------------- MODULE OrderProofs -----------------------------
(***************************************************************************)
(* Proof that a callback is shown the messages of a publisher in order,     *)
(* without a gap, and each as many times as its node has subscribers of the *)
(* topic.  First, why the broker lists a node as often as that.  Second, a  *)
(* tally: a message that a connected node has got is there in that many     *)
(* copies, shown, queued or in its inbox, or not at all.                    *)
(***************************************************************************)
EXTENDS RoutingProofs

(***************************************************************************)
(* How often the broker lists a node.  A node is listed with a topic once   *)
(* for each subscriber for which connect() asked add_subscriber with        *)
(* success, and nobody else lists it.                                       *)
(***************************************************************************)
\* n's subscribers of a topic that the calls of connect() before call c added.
Added(n, topic, c) ==
  {e \in End(n) : IsSub(n, e) /\ Endpoint[n][e].topic = topic /\ 3 * e + 1 < c}

\* The current call of n was granted: the answer is on its way.
Granted(n) ==
  /\ pc[n] = "wait"
  /\ \E i \in 1..Len(to_node[n]) : to_node[n][i].type = "Control" /\ to_node[n][i].json.success

Reached(n) == IF Granted(n) THEN call[n] + 1 ELSE call[n]

Live(n) == pc[n] \notin {"failed", "abort"}

Listed(n) ==
  Live(n) => \A id \in Nat : B!Known(m_topics, id) =>
    Cardinality(Entries(n, id)) = Cardinality(Added(n, B!At(m_topics, id).name, Reached(n)))

\* A request is one of connect()'s, and add_subscriber is asked for the sender itself.
OwnRequest(u) ==
  u.packet.type = "Control" =>
    /\ u.packet.counter <= LastCall(u.from)
    /\ u.packet.json.op = "add_subscriber" => NodeAgrees(u.from, u.packet.json.node_id)

\* The broker has counted the requests that were answered.
CountedAll(n) ==
  /\ pc[n] = "wait" /\ (\E i \in 1..Len(to_node[n]) : to_node[n][i].type = "Control") =>
       m_client_counters[n] = m_bp_counter[n]
  /\ Connected(n) => m_client_counters[n] >= LastCall(n)

ListInv ==
  /\ \A i \in 1..Len(to_broker) : OwnRequest(to_broker[i])
  /\ \A n \in Node : Listed(n) /\ CountedAll(n)

\* The answer to a request c sent arrives at c, and nothing else anywhere.
AnswerArrives(c, p, a) ==
  /\ sent' = <<[to |-> c, packet |-> ControlPacket(p.counter, a), ok |-> TRUE]>>
  /\ to_node'[c] = Append(to_node[c], ControlPacket(p.counter, a))
  /\ \A n \in Node : n # c => to_node'[n] = to_node[n]

LEMMA SpinLists ==
  ASSUME DownlinkReliable, TypeInv, BrokerInv, BrokerSpin
  PROVE  LET c == Head(to_broker).from
             p == Head(to_broker).packet
         IN  \/ /\ UNCHANGED <<m_nodes, m_topics>>
                /\ \A n \in Node : \E s \in Seq(Messages) : to_node'[n] = to_node[n] \o s
             \/ /\ p \in Requests /\ Accepted(c, p) /\ B!process_control_request(c, p, TRUE)
                /\ \E a \in Answered : AnswerArrives(c, p, a)
  <1> DEFINE c == Head(to_broker).from
             p == Head(to_broker).packet
  <1>1. /\ c \in Node /\ p \in Requests \cup Messages
        /\ Handle(c, p) /\ \A n \in Node : to_node'[n] = to_node[n] \o Arrivals(n)
    BY HeadOfUplink DEF BrokerSpin
  <1>2. \A n \in Node : to_node[n] \in Seq(Downlink)
    BY DEF TypeInv, NodeTypes
  <1> SUFFICES \/ /\ UNCHANGED <<m_nodes, m_topics>>
                  /\ \A n \in Node : \E s \in Seq(Messages) : to_node'[n] = to_node[n] \o s
               \/ /\ p \in Requests /\ Accepted(c, p) /\ B!process_control_request(c, p, TRUE)
                  /\ \E a \in Answered : AnswerArrives(c, p, a)
    OBVIOUS
  <1> HIDE DEF c, p
  <1>3. CASE sent' = <<>> /\ UNCHANGED <<m_nodes, m_topics>>
    <2>1. \A n \in Node : Arrivals(n) \in Seq(Messages)
      BY <1>3, NoArrivals, EmptySeq
    <2> QED BY <1>1, <1>3, <2>1
  <1>4. CASE B!forward_data(c, p, {})
    <2>1. p \in Messages /\ UNCHANGED <<m_nodes, m_topics>>
      BY <1>1, <1>4, PacketFields DEF B!forward_data, B!registry
    <2>2. ASSUME NEW n \in Node PROVE Arrivals(n) \in Seq(Messages)
      <3>1. Arrivals(n) \in Seq({p}) /\ {p} \subseteq Messages
        BY <1>1, <1>4, <2>1, ForwardEffect, ForwardsArrive
      <3> QED BY <3>1
    <2> QED BY <1>1, <2>1, <2>2
  <1>5. CASE B!process_control_request(c, p, TRUE)
    <2>1. p \in Requests /\ p.type = "Control"
      BY <1>1, <1>5, PacketFields DEF B!process_control_request
    <2>2. B!verify_and_update_client_counter(c, p.counter) /\ Replies(c, p)
      BY <1>1, <1>5, <2>1, ControlEffect
    <2>3. PICK a \in Answered, ok \in BOOLEAN :
            sent' = <<[to |-> c, packet |-> ControlPacket(p.counter, a), ok |-> ok]>>
      BY <2>2 DEF Replies
    <2>4. sent'[1].ok
      BY <1>5, <2>1 DEF B!process_control_request, B!register_node, B!register_message_type,
            B!register_topic, B!AddEndpoint, B!UnknownRequest, B!send_control_response
    <2>5. ok = TRUE
      BY <2>3, <2>4
    <2>6. /\ Arrivals(c) = <<ControlPacket(p.counter, a)>>
          /\ \A n : n # c => Arrivals(n) = <<>>
      BY <2>3, <2>5, ReplyArrives
    <2>7. \A x : to_node[c] \o <<x>> = Append(to_node[c], x)
      BY <1>1, <1>2, AppendIsConcat
    <2>8. \A n \in Node : to_node[n] \o <<>> = to_node[n]
      BY <1>2, ConcatEmptySeq
    <2>9. AnswerArrives(c, p, a)
      BY <1>1, <2>3, <2>5, <2>6, <2>7, <2>8 DEF AnswerArrives
    <2> QED BY <1>5, <2>1, <2>2, <2>9 DEF Accepted, B!verify_and_update_client_counter
  <1>6. ~Fault("broker_send")
    BY DEF Fault, DownlinkReliable
  <1> QED BY <1>1, <1>3, <1>4, <1>5, <1>6
          DEF Handle, B!IgnoreCounter, B!ignore_data, B!crash, B!registry

(***************************************************************************)
(* What a request does to the lists of subscribers.                         *)
(***************************************************************************)
\* Every list stays as it is; a new topic has none.
KeepsLists ==
  \A id \in Nat : B!Known(m_topics', id) =>
    \/ /\ B!Known(m_topics, id)
       /\ B!At(m_topics', id).name = B!At(m_topics, id).name
       /\ B!At(m_topics', id).subscribers = B!At(m_topics, id).subscribers
    \/ /\ B!At(m_topics', id).subscribers = <<>>
       /\ ~B!Registered(m_topics, B!At(m_topics', id).name)

\* One topic lists one more subscriber.
AddsOne(r) ==
  /\ m_nodes' = m_nodes
  /\ r.node_id \in Nat /\ r.topic_id \in Nat /\ B!Known(m_topics, r.topic_id)
  /\ \A id \in Nat : B!Known(m_topics', id) =>
       /\ B!Known(m_topics, id)
       /\ B!At(m_topics', id).name = B!At(m_topics, id).name
       /\ B!At(m_topics', id).subscribers =
            IF id = r.topic_id THEN Append(B!At(m_topics, id).subscribers, r.node_id)
            ELSE B!At(m_topics, id).subscribers

LEMMA ListsAppended ==
  ASSUME TypeInv, NEW t \in B!Topic, ~B!Registered(m_topics, t.name), t.subscribers = <<>>,
         m_topics' = Append(m_topics, t)
  PROVE  KeepsLists
  <1>1. m_topics \in Seq(B!Topic) /\ Len(m_topics) \in Nat
    BY LenProperties DEF TypeInv, B!TypeOK
  <1>2. /\ Len(m_topics') = Len(m_topics) + 1 /\ m_topics'[Len(m_topics) + 1] = t
        /\ \A i \in 1..Len(m_topics) : m_topics'[i] = m_topics[i]
    BY <1>1, AppendProperties
  <1>3. ASSUME NEW id \in Nat, id < Len(m_topics')
        PROVE  \/ id < Len(m_topics) /\ m_topics'[id + 1] = m_topics[id + 1]
               \/ m_topics'[id + 1] = t
    <2>1. id < Len(m_topics) => id + 1 \in 1..Len(m_topics)
      BY <1>1
    <2>2. ~(id < Len(m_topics)) => id = Len(m_topics)
      BY <1>1, <1>2, <1>3
    <2> QED BY <1>2, <2>1, <2>2
  <1> QED BY <1>3 DEF KeepsLists, B!Known, B!At

LEMMA SubscribersChange ==
  ASSUME TypeInv, NEW c \in Node, NEW p \in Requests, NEW ok, B!process_control_request(c, p, ok),
         NEW a, NEW sentok,
         sent' = <<[to |-> c, packet |-> ControlPacket(p.counter, a), ok |-> sentok]>>
  PROVE  \/ KeepsLists /\ (p.json.op = "add_subscriber" => ~a.success)
         \/ p.json.op = "add_subscriber" /\ a.success /\ AddsOne(p.json)
  <1>1. PICK r : r = p.json
    OBVIOUS
  <1>2. r \in Asked /\ r \in BP!Request
    BY <1>1, PacketFields, AskedFields
  <1>3. m_topics \in Seq(B!Topic) /\ Len(m_topics) \in Nat /\ DOMAIN m_topics = 1..Len(m_topics)
    BY LenProperties DEF TypeInv, B!TypeOK
  <1>4. ASSUME m_topics' = m_topics PROVE KeepsLists
    BY <1>4 DEF KeepsLists
  <1>5. CASE r.op = "register_node" /\ B!register_node(c, p.counter, r, ok)
    <2>1. m_topics' = m_topics
      BY <1>5 DEF B!register_node
    <2> QED BY <1>1, <1>4, <1>5, <2>1
  <1>6. CASE r.op = "register_message_type" /\ B!register_message_type(c, p.counter, r, ok)
    <2>1. m_topics' = m_topics
      BY <1>6 DEF B!register_message_type
    <2> QED BY <1>1, <1>4, <1>6, <2>1
  <1>7. CASE r.op = "register_topic" /\ B!register_topic(c, p.counter, r, ok)
    <2>1. r.name \in TopicName /\ r.message_type_id \in Nat /\ r.priority \in TopicPriority
      BY <1>2, <1>7 DEF Asked, RegisterNodeRequest, RegisterMessageTypeRequest,
                        RegisterTopicRequest, AddEndpointRequest
    <2>2. PICK t : t = [name |-> r.name, message_type_id |-> r.message_type_id,
                        priority |-> r.priority, publishers |-> <<>>, subscribers |-> <<>>]
      OBVIOUS
    <2>3. \/ m_topics' = m_topics
          \/ ~B!Registered(m_topics, r.name) /\ m_topics' = Append(m_topics, t)
      BY <1>7, <2>2 DEF B!register_topic, B!emplace_back
    <2>4. t \in B!Topic /\ t.name = r.name /\ t.subscribers = <<>>
      BY <2>1, <2>2, EmptySeq DEF B!Topic
    <2>5. KeepsLists
      BY <1>4, <2>3, <2>4, ListsAppended
    <2> QED BY <1>1, <1>7, <2>5
  <1>8. CASE /\ r.op \in {"add_publisher", "add_subscriber"} /\ B!AddEndpoint(c, p.counter, r, ok)
    <2>1. r.node_id \in Nat /\ r.topic_id \in Nat
      BY <1>2, <1>8 DEF Asked, RegisterNodeRequest, RegisterMessageTypeRequest,
                        RegisterTopicRequest, AddEndpointRequest
    <2>2. CASE ~B!validate_topic_parameters(r)
      <3>1. m_topics' = m_topics
            /\ B!send_control_response(c, p.counter, B!rpc_failure_response(r.rpc_id), ok)
        BY <1>8, <2>2 DEF B!AddEndpoint
      <3>2. a = B!rpc_failure_response(r.rpc_id)
        BY <3>1, SentAnswer
      <3>3. ~a.success
        BY <3>2 DEF B!rpc_failure_response
      <3> QED BY <1>4, <3>1, <3>3
    <2>3. CASE B!validate_topic_parameters(r)
      <3>1. PICK i : i = r.topic_id + 1
        OBVIOUS
      <3>2. B!Known(m_topics, r.topic_id) /\ i \in 1..Len(m_topics)
        BY <1>3, <2>1, <2>3, <3>1 DEF B!validate_topic_parameters, B!Known
      <3>3. m_topics[i] \in B!Topic
        BY <1>3, <3>2, ElementOfSeq
      <3>4. /\ m_nodes' = m_nodes
            /\ \/ /\ r.op = "add_publisher"
                  /\ m_topics' = [m_topics EXCEPT ![i].publishers = Append(@, r.node_id)]
               \/ /\ r.op = "add_subscriber"
                  /\ m_topics' = [m_topics EXCEPT ![i].subscribers = Append(@, r.node_id)]
            /\ B!send_control_response(c, p.counter, [rpc_id |-> r.rpc_id, success |-> TRUE], ok)
        BY <1>8, <2>3, <3>1 DEF B!AddEndpoint
      <3>5. a = [rpc_id |-> r.rpc_id, success |-> TRUE]
        BY <3>4, SentAnswer
      <3>6. a.success
        BY <3>5
      <3>7. DOMAIN m_topics' = 1..Len(m_topics)
        BY <1>3, <3>4
      <3>8. Len(m_topics') = Len(m_topics)
        BY <1>3, <3>7
      <3>9. CASE r.op = "add_publisher"
        <4>1. /\ m_topics'[i].name = m_topics[i].name
              /\ m_topics'[i].subscribers = m_topics[i].subscribers
              /\ \A j \in 1..Len(m_topics) : j # i => m_topics'[j] = m_topics[j]
          BY <1>3, <3>2, <3>3, <3>4, <3>9 DEF B!Topic
        <4>2. \A j \in 1..Len(m_topics) : /\ m_topics'[j].name = m_topics[j].name
                                          /\ m_topics'[j].subscribers = m_topics[j].subscribers
          BY <4>1
        <4>3. \A id \in Nat : id < Len(m_topics) => id + 1 \in 1..Len(m_topics)
          BY <1>3
        <4>4. KeepsLists
          BY <3>8, <4>2, <4>3 DEF KeepsLists, B!Known, B!At
        <4> QED BY <1>1, <3>9, <4>4
      <3>10. CASE r.op = "add_subscriber"
        <4>1. /\ m_topics'[i].name = m_topics[i].name
              /\ m_topics'[i].subscribers = Append(m_topics[i].subscribers, r.node_id)
              /\ \A j \in 1..Len(m_topics) : j # i => m_topics'[j] = m_topics[j]
          BY <1>3, <3>2, <3>3, <3>4, <3>10 DEF B!Topic
        <4>2. ASSUME NEW id \in Nat, id < Len(m_topics)
              PROVE  /\ m_topics'[id + 1].name = m_topics[id + 1].name
                     /\ m_topics'[id + 1].subscribers =
                          IF id = r.topic_id THEN Append(m_topics[id + 1].subscribers, r.node_id)
                          ELSE m_topics[id + 1].subscribers
          <5>1. id + 1 \in 1..Len(m_topics) /\ (id = r.topic_id <=> id + 1 = i)
            BY <1>3, <2>1, <3>1, <4>2
          <5> QED BY <4>1, <5>1
        <4>3. AddsOne(r)
          BY <2>1, <3>2, <3>4, <3>8, <4>2 DEF AddsOne, B!Known, B!At
        <4> QED BY <1>1, <3>6, <3>10, <4>3
      <3> QED BY <1>8, <3>9, <3>10
    <2> QED BY <2>2, <2>3
  <1>9. r.op # "other"
    BY <1>2, AskedFields
  <1> QED BY <1>1, <1>5, <1>6, <1>7, <1>8, <1>9 DEF B!process_control_request
-----------------------------------------------------------------------------
(***************************************************************************)
(* The positions of n in a list and n's subscribers, step by step.          *)
(***************************************************************************)
LEMMA ListOf ==
  ASSUME TypeInv, BrokerInv, NEW id \in Nat, B!Known(m_topics, id)
  PROVE  /\ B!At(m_topics, id).subscribers \in Seq(Nat)
         /\ Len(B!At(m_topics, id).subscribers) \in Nat
         /\ \A x \in 1..Len(B!At(m_topics, id).subscribers) :
              /\ B!At(m_topics, id).subscribers[x] \in Nat
              /\ B!Known(m_nodes, B!At(m_topics, id).subscribers[x])
         /\ \A n : IsFiniteSet(Entries(n, id)) /\ Cardinality(Entries(n, id)) \in Nat
  <1>1. Len(m_topics) \in Nat /\ id + 1 \in 1..Len(m_topics)
    BY LenProperties DEF B!Known, TypeInv, B!TypeOK
  <1>2. m_topics[id + 1] \in B!Topic
    BY <1>1, ElementOfSeq DEF TypeInv, B!TypeOK
  <1>3. PICK s : s = B!At(m_topics, id).subscribers
    OBVIOUS
  <1>4. s \in Seq(Nat) /\ Len(s) \in Nat
    BY <1>2, <1>3, LenProperties DEF B!Topic, B!At
  <1>5. \A x \in 1..Len(s) : s[x] \in Nat /\ B!Known(m_nodes, s[x])
    <2>1. \A x \in 1..Len(s) : BP!Known(m_nodes, s[x])
      BY <1>1, <1>3 DEF BrokerInv, BP!RegistryInv, BP!EndpointsServable, B!At
    <2> QED BY <1>4, <2>1, SameLookUps, ElementOfSeq
  <1>6. ASSUME NEW n PROVE IsFiniteSet(Entries(n, id)) /\ Cardinality(Entries(n, id)) \in Nat
    <2>1. IsFiniteSet(1..Len(s))
      BY <1>4, FS_Interval
    <2>2. Entries(n, id) \subseteq 1..Len(s)
      BY <1>3 DEF Entries
    <2>3. IsFiniteSet(Entries(n, id))
      BY <2>1, <2>2, FS_Subset
    <2> QED BY <2>3, FS_CardinalityType
  <1> QED BY <1>3, <1>4, <1>5, <1>6

\* A list that stays as it is has the same nodes.
LEMMA SameEntries ==
  ASSUME TypeInv, BrokerInv, Grown, NEW n, NEW id \in Nat, B!Known(m_topics, id),
         B!At(m_topics', id).subscribers = B!At(m_topics, id).subscribers
  PROVE  Entries(n, id)' = Entries(n, id)
  <1>1. PICK s : s = B!At(m_topics, id).subscribers
    OBVIOUS
  <1>2. \A x \in 1..Len(s) : s[x] \in Nat /\ B!Known(m_nodes, s[x])
    BY <1>1, ListOf
  <1>3. \A x \in 1..Len(s) : B!At(m_nodes', s[x]) = B!At(m_nodes, s[x])
    BY <1>2 DEF Grown
  <1>4. Entries(n, id) = {x \in 1..Len(s) : B!At(m_nodes, s[x]).address = n}
    BY <1>1 DEF Entries
  <1>5. Entries(n, id)' = {x \in 1..Len(s) : B!At(m_nodes', s[x]).address = n}
    BY <1>1 DEF Entries
  <1> QED BY <1>3, <1>4, <1>5

\* A list with one more node: n has one more place in it if that node is n.
LEMMA MoreEntries ==
  ASSUME TypeInv, BrokerInv, NEW n, NEW id \in Nat, B!Known(m_topics, id), NEW x \in Nat,
         m_nodes' = m_nodes,
         B!At(m_topics', id).subscribers = Append(B!At(m_topics, id).subscribers, x)
  PROVE  /\ B!At(m_nodes, x).address # n => Entries(n, id)' = Entries(n, id)
         /\ B!At(m_nodes, x).address = n =>
              Cardinality(Entries(n, id)') = Cardinality(Entries(n, id)) + 1
  <1>1. PICK s : s = B!At(m_topics, id).subscribers
    OBVIOUS
  <1>2. s \in Seq(Nat) /\ Len(s) \in Nat
    BY <1>1, ListOf
  <1>3. /\ Len(Append(s, x)) = Len(s) + 1 /\ Append(s, x)[Len(s) + 1] = x
        /\ \A i \in 1..Len(s) : Append(s, x)[i] = s[i]
    BY <1>2, AppendProperties
  <1>4. Entries(n, id) = {i \in 1..Len(s) : B!At(m_nodes, s[i]).address = n}
    BY <1>1 DEF Entries
  <1>5. Entries(n, id)' = {i \in 1..(Len(s) + 1) : B!At(m_nodes, Append(s, x)[i]).address = n}
    BY <1>1, <1>3 DEF Entries
  <1>6. 1..(Len(s) + 1) = (1..Len(s)) \cup {Len(s) + 1} /\ Len(s) + 1 \notin 1..Len(s)
    BY <1>2
  <1>7. B!At(m_nodes, x).address # n => Entries(n, id)' = Entries(n, id)
    BY <1>3, <1>4, <1>5, <1>6
  <1>8. ASSUME B!At(m_nodes, x).address = n
        PROVE  Cardinality(Entries(n, id)') = Cardinality(Entries(n, id)) + 1
    <2>1. Entries(n, id)' = Entries(n, id) \cup {Len(s) + 1}
      BY <1>3, <1>4, <1>5, <1>6, <1>8
    <2>2. Len(s) + 1 \notin Entries(n, id) /\ IsFiniteSet(Entries(n, id))
      BY <1>4, <1>6, ListOf
    <2> QED BY <2>1, <2>2, FS_AddElement
  <1> QED BY <1>7, <1>8

LEMMA AddedFinite ==
  ASSUME NEW n \in Node, NEW topic, NEW c
  PROVE  IsFiniteSet(Added(n, topic, c)) /\ Cardinality(Added(n, topic, c)) \in Nat
  <1>1. IsFiniteSet(End(n))
    BY EndsFinite, FS_Interval DEF End
  <1>2. IsFiniteSet(Added(n, topic, c))
    BY <1>1, FS_Subset DEF Added
  <1> QED BY <1>2, FS_CardinalityType

\* The call that adds a subscriber, and the others.
LEMMA AddedNext ==
  ASSUME NEW n \in Node, NEW topic, NEW c \in Nat
  PROVE  /\ (\A e \in End(n) : 3 * e + 1 = c => ~IsSub(n, e) \/ Endpoint[n][e].topic # topic)
              => Added(n, topic, c + 1) = Added(n, topic, c)
         /\ \A e \in End(n) : 3 * e + 1 = c /\ IsSub(n, e) /\ Endpoint[n][e].topic = topic =>
              Cardinality(Added(n, topic, c + 1)) = Cardinality(Added(n, topic, c)) + 1
  <1>1. \A e \in End(n) : e \in Nat
    BY EndsFinite
  <1>2. \A e \in End(n) : 3 * e + 1 < c + 1 <=> 3 * e + 1 < c \/ 3 * e + 1 = c
    BY <1>1
  <1>3. (\A e \in End(n) : 3 * e + 1 = c => ~IsSub(n, e) \/ Endpoint[n][e].topic # topic)
          => Added(n, topic, c + 1) = Added(n, topic, c)
    BY <1>2 DEF Added
  <1>4. ASSUME NEW e \in End(n), 3 * e + 1 = c, IsSub(n, e), Endpoint[n][e].topic = topic
        PROVE  Cardinality(Added(n, topic, c + 1)) = Cardinality(Added(n, topic, c)) + 1
    <2>1. \A f \in End(n) : 3 * f + 1 = c => f = e
      BY <1>1, <1>4
    <2>2. Added(n, topic, c + 1) = Added(n, topic, c) \cup {e}
      BY <1>2, <1>4, <2>1 DEF Added
    <2>3. e \notin Added(n, topic, c)
      BY <1>1, <1>4 DEF Added
    <2> QED BY <2>2, <2>3, AddedFinite, FS_AddElement
  <1> QED BY <1>3, <1>4

\* The topics of the subscribers that were added are registered.
LEMMA AddedRegistered ==
  ASSUME TypeInv, NEW n \in Node, AgreesSoFar(n), NEW topic, ~B!Registered(m_topics, topic),
         NEW c \in {call[n], call[n] + 1}
  PROVE  Added(n, topic, c) = {}
  <1>1. call[n] \in Nat
    BY EndsFinite DEF TypeInv, NodeTypes
  <1>2. ASSUME NEW e \in Added(n, topic, c) PROVE FALSE
    <2>1. e \in End(n) /\ Endpoint[n][e].topic = topic /\ 3 * e + 1 < c /\ e \in Nat
      BY <1>2, EndsFinite DEF Added
    <2>2. call[n] > 3 * e
      BY <1>1, <2>1
    <2>3. TopicAgrees(n, e, ids[n][e].topic_id)
      BY <2>1, <2>2 DEF AgreesSoFar
    <2>4. ids[n][e].topic_id + 1 \in 1..Len(m_topics)
      BY <2>3, LenProperties DEF TopicAgrees, B!Known, TypeInv, B!TypeOK
    <2> QED BY <2>1, <2>3, <2>4 DEF TopicAgrees, B!Registered, B!At
  <1> QED BY <1>2

LEMMA ListedKept ==
  ASSUME NEW n \in Node, Listed(n), Live(n)' => Live(n),
         \A id \in Nat : B!Known(m_topics', id) =>
           \/ /\ B!Known(m_topics, id) /\ B!At(m_topics', id).name = B!At(m_topics, id).name
              /\ Entries(n, id)' = Entries(n, id)
              /\ Added(n, B!At(m_topics, id).name, Reached(n)') =
                   Added(n, B!At(m_topics, id).name, Reached(n))
           \/ /\ Entries(n, id)' = {}
              /\ Added(n, B!At(m_topics', id).name, Reached(n)') = {}
  PROVE  Listed(n)'
  <1> SUFFICES ASSUME Live(n), NEW id \in Nat, B!Known(m_topics', id)
               PROVE  Cardinality(Entries(n, id)') =
                        Cardinality(Added(n, B!At(m_topics', id).name, Reached(n)'))
    BY DEF Listed
  <1>1. CASE /\ B!Known(m_topics, id) /\ B!At(m_topics', id).name = B!At(m_topics, id).name
             /\ Entries(n, id)' = Entries(n, id)
             /\ Added(n, B!At(m_topics, id).name, Reached(n)') =
                  Added(n, B!At(m_topics, id).name, Reached(n))
    BY <1>1 DEF Listed
  <1>2. CASE Entries(n, id)' = {} /\ Added(n, B!At(m_topics', id).name, Reached(n)') = {}
    BY <1>2
  <1> QED BY <1>1, <1>2

\* The lists stay and n's current call gets on, if at all, without adding a subscriber.
LEMMA ListedSame ==
  ASSUME TypeInv, BrokerInv, Grown, NEW n \in Node, AgreesSoFar(n), Listed(n), Live(n)' => Live(n),
         KeepsLists, Reached(n)' \in {call[n], call[n] + 1},
         \A topic : Added(n, topic, Reached(n)') = Added(n, topic, Reached(n))
  PROVE  Listed(n)'
  <1>1. ASSUME NEW id \in Nat, B!Known(m_topics', id)
        PROVE  \/ /\ B!Known(m_topics, id) /\ B!At(m_topics', id).name = B!At(m_topics, id).name
                  /\ Entries(n, id)' = Entries(n, id)
               \/ /\ Entries(n, id)' = {}
                  /\ Added(n, B!At(m_topics', id).name, Reached(n)') = {}
    <2>1. CASE /\ B!Known(m_topics, id)
               /\ B!At(m_topics', id).name = B!At(m_topics, id).name
               /\ B!At(m_topics', id).subscribers = B!At(m_topics, id).subscribers
      BY <2>1, SameEntries
    <2>2. CASE /\ B!At(m_topics', id).subscribers = <<>>
               /\ ~B!Registered(m_topics, B!At(m_topics', id).name)
      <3>1. Added(n, B!At(m_topics', id).name, Reached(n)') = {}
        BY <2>2, AddedRegistered
      <3>2. Len(B!At(m_topics', id).subscribers) = 0
        BY <2>2
      <3>3. Entries(n, id)' = {}
        BY <3>2 DEF Entries
      <3> QED BY <3>1, <3>3
    <2> QED BY <1>1, <2>1, <2>2 DEF KeepsLists
  <1> QED BY <1>1, ListedKept

\* No answer is on its way to a node that does not wait for one.
LEMMA NoAnswer ==
  ASSUME NEW n \in Node, ConnectInv(n), pc[n] \in {"new", "rpc"}, NEW i \in 1..Len(to_node[n])
  PROVE  to_node[n][i].type # "Control"
  BY DEF ConnectInv, Connecting, Current

\* What a step of n does to its place in connect().
LEMMA NodeReaches ==
  ASSUME TypeInv, NEW n \in Node, ConnectInv(n), NodeStep(n)
  PROVE  \/ ~Live(n)' \* failed or ended by an exception
         \/ Live(n) /\ Reached(n)' = Reached(n)
  <1>0. Domains /\ NodeTypes(n)
    BY DEF TypeInv
  <1>1. CASE connect(n)
    <2>1. pc[n] = "new" /\ pc'[n] # "wait" /\ call'[n] = call[n]
      BY <1>0, <1>1 DEF connect, Goto, local, Domains
    <2> QED BY <2>1 DEF Live, Reached, Granted
  <1>2. CASE send_control(n)
    <2>1. /\ pc[n] = "rpc" /\ call'[n] = call[n] /\ to_node'[n] = to_node[n]
      BY <1>0, <1>2 DEF send_control, local, Domains
    <2>2. ~Granted(n) /\ ~Granted(n)'
      BY <2>1, NoAnswer DEF Granted
    <2> QED BY <2>1, <2>2 DEF Live, Reached
  <1>3. CASE receive_response(n)
    <2>1. pc[n] = "wait"
      BY <1>3 DEF receive_response
    <2>2. CASE pc'[n] \in {"failed", "abort"}
      BY <2>2 DEF Live
    <2>3. CASE pc'[n] \notin {"failed", "abort"}
      <3>1. /\ to_node[n] # <<>> /\ RpcSucceeds(Head(to_node[n]))
            /\ call'[n] = call[n] + 1 /\ pc'[n] # "wait"
        BY <1>0, <1>3, <2>3 DEF receive_response, RpcReturn, Goto, Domains
      <3>2. 1 \in 1..Len(to_node[n]) /\ Head(to_node[n]) = to_node[n][1]
        BY <3>1, FrontOfInbox
      <3>3. Granted(n) /\ ~Granted(n)'
        BY <2>1, <3>1, <3>2 DEF Granted, RpcSucceeds
      <3> QED BY <2>1, <3>1, <3>3 DEF Live, Reached
    <2> QED BY <2>2, <2>3
  <1>4. CASE SpinReceive(n) \/ SpinReturn(n)
    <2>1. Connected(n) /\ Connected(n)' /\ call'[n] = call[n]
      BY <1>0, <1>4 DEF SpinReceive, SpinReturn, Goto, Connected, Domains
    <2> QED BY <2>1 DEF Connected, Live, Reached, Granted
  <1>5. ASSUME NEW e \in End(n), publish(n, e) \/ run_callback(n, e) \/ send_data(n, e)
        PROVE  Live(n) /\ Reached(n)' = Reached(n)
    <2>1. call'[n] = call[n]
      BY <1>5 DEF publish, run_callback, ShowFront, send_data
    <2>2. pc[n] \in {"new", "idle", "spin"} /\ pc'[n] \in {"new", "idle", "spin"}
      BY <1>0, <1>5 DEF publish, run_callback, ShowFront, Reaches, send_data, Goto, Domains
    <2> QED BY <2>1, <2>2 DEF Live, Reached, Granted
  <1> QED BY <1>1, <1>2, <1>3, <1>4, <1>5 DEF NodeStep

LEMMA ReachedIs ==
  ASSUME NEW n
  PROVE  Reached(n) \in {call[n], call[n] + 1}
  BY DEF Reached

LEMMA ListedNode ==
  ASSUME TypeInv, BrokerInv, Grown, NEW n \in Node, ConnectInv(n), AgreesSoFar(n), Listed(n),
         NEW k \in Node, NodeStep(k), UNCHANGED broker_vars
  PROVE  Listed(n)'
  <1>1. \/ ~Live(n)'
        \/ Live(n) /\ Reached(n)' = Reached(n)
    <2>1. CASE k = n
      BY <2>1, NodeReaches
    <2>2. CASE k # n
      <3>1. SameNode(n)
        BY <2>2, NodeFrame DEF TypeInv
      <3> QED BY <3>1 DEF SameNode, Live, Reached, Granted
    <2> QED BY <2>1, <2>2
  <1>2. CASE ~Live(n)'
    BY <1>2 DEF Listed
  <1>3. CASE Live(n) /\ Reached(n)' = Reached(n)
    <2>1. KeepsLists
      BY DEF broker_vars, KeepsLists
    <2> QED BY <1>3, <2>1, ReachedIs, ListedSame
  <1> QED BY <1>1, <1>2, <1>3
-----------------------------------------------------------------------------
(***************************************************************************)
(* An iteration of the broker lists n when it grants n's add_subscriber,    *)
(* and at no other time.                                                    *)
(***************************************************************************)
\* What the broker counts.
LEMMA CountsOn ==
  ASSUME TypeInv, BrokerInv, NoWrap, UplinkGenuine, BrokerSpin, NEW n \in Node
  PROVE  LET p == Head(to_broker).packet
         IN  \/ m_client_counters'[n] = m_client_counters[n]
             \/ /\ Head(to_broker).from = n /\ B!Accepts(n, p.counter)
                /\ m_client_counters'[n] = p.counter
                /\ m_client_counters[n] \in Nat => p.counter = m_client_counters[n] + 1
  <1> DEFINE c == Head(to_broker).from
             p == Head(to_broker).packet
  <1>1. /\ c \in Node /\ BrokerEffect(c, p) /\ Genuine(c, p)
    BY HeadOfUplink, BrokerSpinEffect DEF BrokerSpin, UplinkGenuine
  <1>2. m_client_counters \in [Node -> BpCounter \cup {B!NoCounter}]
    BY DEF TypeInv, B!TypeOK, B!BpCounter, BpCounter
  <1> SUFFICES \/ m_client_counters'[n] = m_client_counters[n]
               \/ /\ c = n /\ B!Accepts(n, p.counter)
                  /\ m_client_counters'[n] = p.counter
                  /\ m_client_counters[n] \in Nat => p.counter = m_client_counters[n] + 1
    OBVIOUS
  <1> HIDE DEF c, p
  <1>3. \/ UNCHANGED m_client_counters
        \/ /\ B!Accepts(c, p.counter)
           /\ m_client_counters' = [m_client_counters EXCEPT ![c] = p.counter]
    BY <1>1 DEF BrokerEffect, B!verify_and_update_client_counter
  <1>4. ASSUME c = n, B!Accepts(n, p.counter), m_client_counters[n] \in Nat
        PROVE  p.counter = m_client_counters[n] + 1
    <2>1. m_client_counters[n] \in BpCounter /\ NextCounter(m_client_counters[n]) = p.counter
      BY <1>2, <1>4 DEF B!Accepts, B!NoCounter, B!NextCounter, NextCounter, B!BpCounter, BpCounter
    <2>2. p.counter >= 1
      BY <1>1, <1>4 DEF Genuine, TypeInv, NodeTypes, BpCounter
    <2> QED BY <2>1, <2>2, CounterSteps
  <1> QED BY <1>2, <1>3, <1>4

\* A connected node has no request that the broker accepts.
LEMMA NoMoreRequests ==
  ASSUME TypeInv, BrokerInv, NoWrap, UplinkGenuine, NEW n \in Node, Connected(n), CountedAll(n),
         to_broker # <<>>, OwnRequest(to_broker[1]), BrokerSpin,
         Head(to_broker).from = n, Head(to_broker).packet.type = "Control",
         Accepted(n, Head(to_broker).packet)
  PROVE  FALSE
  <1>1. PICK p : p = Head(to_broker).packet
    OBVIOUS
  <1>2. /\ p.counter <= LastCall(n) /\ LastCall(n) \in Nat /\ LastCall(n) >= 1
        /\ p.counter \in BpCounter
    BY <1>1, HeadOfUplink, EndsFinite, PacketFields DEF OwnRequest
  <1>3. m_client_counters[n] >= LastCall(n)
    BY DEF CountedAll
  <1>4. m_client_counters \in [Node -> BpCounter \cup {B!NoCounter}] /\ B!NoCounter = -1
    BY DEF TypeInv, B!TypeOK, B!NoCounter, B!BpCounter, BpCounter
  <1>5. m_client_counters[n] \in BpCounter /\ m_client_counters[n] \in Nat /\ p.counter \in Nat
    BY <1>2, <1>3, <1>4, CounterModAssumption DEF BpCounter
  <1>6. m_client_counters'[n] = p.counter
    BY <1>1, <1>4 DEF Accepted
  <1>7. m_client_counters'[n] = m_client_counters[n] \/ p.counter = m_client_counters[n] + 1
    BY <1>1, <1>5, CountsOn
  <1>8. p.counter = m_client_counters[n] + 1
    <2>1. ASSUME p.counter = m_client_counters[n] PROVE FALSE
      <3>1. /\ NextCounter(m_client_counters[n]) = p.counter
        BY <1>1, <1>4, <1>5 DEF Accepted, B!Accepts, B!NextCounter, NextCounter
      <3> QED BY <1>2, <1>3, <1>5, <2>1, <3>1, CounterSteps
    <2> QED BY <1>6, <1>7, <2>1
  <1> QED BY <1>2, <1>3, <1>5, <1>8

\* Messages do not answer a call.
LEMMA StillReached ==
  ASSUME TypeInv, NEW n \in Node, UNCHANGED <<pc, call>>,
         \/ to_node'[n] = to_node[n]
         \/ \E s \in Seq(Messages) : to_node'[n] = to_node[n] \o s
  PROVE  /\ Reached(n)' = Reached(n)
         /\ (\E i \in 1..Len(to_node'[n]) : to_node'[n][i].type = "Control") =>
              \E i \in 1..Len(to_node[n]) : to_node[n][i].type = "Control"
  <1>1. to_node[n] \in Seq(Downlink)
    BY DEF TypeInv, NodeTypes
  <1>2. CASE to_node'[n] = to_node[n]
    BY <1>2 DEF Reached, Granted
  <1>3. CASE \E s \in Seq(Messages) : to_node'[n] = to_node[n] \o s
    <2>1. Extends(to_node[n], to_node'[n], Messages)
      BY <1>1, <1>3, ConcatExtends
    <2>2. ASSUME NEW i \in 1..Len(to_node'[n]), to_node'[n][i].type = "Control"
          PROVE  i \in 1..Len(to_node[n]) /\ to_node'[n][i] = to_node[n][i]
      <3>1. i \in 1..Len(to_node[n]) \/ i \in (Len(to_node[n]) + 1)..Len(to_node'[n])
        BY <2>1 DEF Extends
      <3>2. to_node'[n][i] \notin Messages
        BY <2>2, PacketFields
      <3> QED BY <2>1, <3>1, <3>2 DEF Extends
    <2>3. \A i \in 1..Len(to_node[n]) : i \in 1..Len(to_node'[n]) /\ to_node'[n][i] = to_node[n][i]
      BY <2>1 DEF Extends
    <2> QED BY <2>2, <2>3 DEF Reached, Granted
  <1> QED BY <1>2, <1>3

\* The node that the broker lists is another one.
LEMMA ListedOther ==
  ASSUME TypeInv, BrokerInv, Grown, NEW n \in Node, AgreesSoFar(n), Listed(n), UNCHANGED pc,
         Reached(n)' = Reached(n), NEW r, B!At(m_nodes, r.node_id).address # n,
         KeepsLists \/ AddsOne(r)
  PROVE  Listed(n)'
  <1>1. Live(n)' => Live(n)
    BY DEF Live
  <1>2. CASE KeepsLists
    BY <1>1, <1>2, ReachedIs, ListedSame
  <1>3. CASE AddsOne(r)
    <2>1. ASSUME NEW id \in Nat, B!Known(m_topics', id)
          PROVE  /\ B!Known(m_topics, id) /\ B!At(m_topics', id).name = B!At(m_topics, id).name
                 /\ Entries(n, id)' = Entries(n, id)
      <3>1. B!Known(m_topics, id) /\ B!At(m_topics', id).name = B!At(m_topics, id).name
        BY <1>3, <2>1 DEF AddsOne
      <3>2. CASE id = r.topic_id
        BY <1>3, <2>1, <3>1, <3>2, MoreEntries DEF AddsOne
      <3>3. CASE id # r.topic_id
        BY <1>3, <2>1, <3>1, <3>3, SameEntries DEF AddsOne
      <3> QED BY <3>1, <3>2, <3>3
    <2> QED BY <1>1, <2>1, ListedKept
  <1> QED BY <1>2, <1>3

\* The call that adds subscriber e is the one after its topic was registered.
LEMMA AddingCall ==
  ASSUME NEW n \in Node, call[n] \in 1..LastCall(n), NEW e \in End(n), 3 * e + 1 = call[n]
  PROVE  CallKind(n) = "endpoint" /\ CallEnd(n) = e
  <1>1. e \in Nat /\ call[n] # 1
    BY EndsFinite DEF End
  <1>2. CallKind(n) # "node" => CallEnd(n) \in Nat
    BY CallEnds, EndsFinite
  <1> QED BY <1>1, <1>2, CallEnds

\* The answer to n's current call: a subscriber was added, or none.
LEMMA ListedAnswered ==
  ASSUME TypeInv, BrokerInv, Grown, NEW n \in Node, AgreesSoFar(n), Listed(n), UNCHANGED pc,
         call[n] \in 1..LastCall(n), NEW r, Asks(n, r), NEW a,
         Reached(n) = call[n], Reached(n)' = IF a.success THEN call[n] + 1 ELSE call[n],
         \/ KeepsLists /\ (r.op = "add_subscriber" => ~a.success)
         \/ r.op = "add_subscriber" /\ a.success /\ AddsOne(r)
  PROVE  Listed(n)'
  <1>1. (Live(n)' => Live(n)) /\ call[n] \in Nat
    BY EndsFinite DEF Live
  <1>2. CASE KeepsLists /\ ~a.success
    <2>1. Reached(n)' = Reached(n)
      BY <1>2
    <2> QED BY <1>1, <1>2, <2>1, ReachedIs, ListedSame
  <1>3. CASE KeepsLists /\ a.success /\ r.op # "add_subscriber"
    <2>1. ASSUME NEW e \in End(n), 3 * e + 1 = call[n] PROVE ~IsSub(n, e)
      <3>1. CallKind(n) = "endpoint" /\ CallEnd(n) = e
        BY <2>1, AddingCall
      <3>2. IsPub(n, e)
        BY <1>3, <3>1 DEF Asks
      <3> QED BY <3>2 DEF IsSub, IsPub
    <2>2. \A topic : Added(n, topic, call[n] + 1) = Added(n, topic, call[n])
      BY <1>1, <2>1, AddedNext
    <2>3. \A topic : Added(n, topic, Reached(n)') = Added(n, topic, Reached(n))
      BY <1>3, <2>2
    <2>4. Reached(n)' \in {call[n], call[n] + 1}
      BY <1>3
    <2> QED BY <1>1, <1>3, <2>3, <2>4, ListedSame
  <1>4. CASE r.op = "add_subscriber" /\ a.success /\ AddsOne(r)
    <2>1. PICK e : e = CallEnd(n)
      OBVIOUS
    <2>2. CallKind(n) = "endpoint"
      BY <1>4, CallEnds DEF Asks
    <2>3. e \in End(n) /\ call[n] = 3 * e + 1 /\ e \in Nat /\ e >= 1
      BY <2>1, <2>2, CallEnds, EndsFinite DEF End
    <2>4. /\ IsSub(n, e) /\ r.node_id = m_node_id[n] /\ r.topic_id = ids[n][e].topic_id
      BY <1>4, <2>1, <2>2, <2>3, EndsFinite DEF Asks, IsSub, IsPub
    <2>5. NodeAgrees(n, r.node_id) /\ TopicAgrees(n, e, r.topic_id)
      BY <2>3, <2>4 DEF AgreesSoFar
    <2> SUFFICES ASSUME Live(n), NEW id \in Nat, B!Known(m_topics', id)
                 PROVE  Cardinality(Entries(n, id)') =
                          Cardinality(Added(n, B!At(m_topics', id).name, call[n] + 1))
      BY <1>1, <1>4 DEF Listed
    <2>6. PICK topic : topic = B!At(m_topics, id).name
      OBVIOUS
    <2>7. B!Known(m_topics, id) /\ B!At(m_topics', id).name = topic
      BY <1>4, <2>6 DEF AddsOne
    <2>8. Cardinality(Entries(n, id)) = Cardinality(Added(n, topic, call[n]))
      BY <2>6, <2>7 DEF Listed
    <2>9. CASE id = r.topic_id
      <3>1. Cardinality(Entries(n, id)') = Cardinality(Entries(n, id)) + 1
        <4>1. B!At(m_nodes, r.node_id).address = n
          BY <2>5 DEF NodeAgrees
        <4> QED BY <1>4, <2>7, <2>9, <4>1, MoreEntries DEF AddsOne
      <3>2. Endpoint[n][e].topic = topic
        BY <2>5, <2>6, <2>9 DEF TopicAgrees
      <3>3. Cardinality(Added(n, topic, call[n] + 1)) = Cardinality(Added(n, topic, call[n])) + 1
        BY <1>1, <2>3, <2>4, <3>2, AddedNext
      <3> QED BY <2>7, <2>8, <3>1, <3>3
    <2>10. CASE id # r.topic_id
      <3>1. Entries(n, id)' = Entries(n, id)
        BY <1>4, <2>7, <2>10, SameEntries DEF AddsOne
      <3>2. Endpoint[n][e].topic # topic
        <4>1. /\ id + 1 \in 1..Len(m_topics) /\ r.topic_id + 1 \in 1..Len(m_topics)
              /\ id + 1 # r.topic_id + 1
          <5>1. Len(m_topics) \in Nat
            BY LenProperties DEF TypeInv, B!TypeOK
          <5>2. r.topic_id \in Nat /\ r.topic_id < Len(m_topics) /\ id < Len(m_topics)
            BY <2>5, <2>7 DEF TopicAgrees, B!Known
          <5> QED BY <2>10, <5>1, <5>2
        <4>2. m_topics[id + 1].name # m_topics[r.topic_id + 1].name
          BY <4>1 DEF BrokerInv, BP!RegistryInv, BP!NamesUnique
        <4> QED BY <2>5, <2>6, <4>2 DEF TopicAgrees, B!At
      <3>3. Added(n, topic, call[n] + 1) = Added(n, topic, call[n])
        <4>1. \A f \in End(n) : f \in Nat
          BY EndsFinite
        <4>2. \A f \in End(n) : 3 * f + 1 = call[n] => f = e
          BY <2>3, <4>1
        <4> QED BY <1>1, <3>2, <4>2, AddedNext
      <3> QED BY <2>7, <2>8, <3>1, <3>3
    <2> QED BY <2>9, <2>10
  <1> QED BY <1>2, <1>3, <1>4

LEMMA ListedBroker ==
  ASSUME AnswersNotRepeated, DownlinkReliable, TypeInv, BrokerInv, Grown, NoWrap, UplinkGenuine,
         NEW n \in Node, ConnectInv(n), AgreeInv(n), Listed(n), CountedAll(n),
         \A i \in 1..Len(to_broker) : OwnRequest(to_broker[i]), BrokerSpin
  PROVE  Listed(n)'
  <1> DEFINE c == Head(to_broker).from
             p == Head(to_broker).packet
  <1>1. /\ UNCHANGED <<pc, call>> /\ to_broker # <<>> /\ c \in Node
        /\ 1 \in 1..Len(to_broker) /\ Head(to_broker) = to_broker[1] /\ AgreesSoFar(n)
    BY HeadOfUplink DEF BrokerSpin, local, AgreeInv
  <1>2. OwnRequest(to_broker[1])
    BY <1>1
  <1>3. CASE /\ UNCHANGED <<m_nodes, m_topics>>
             /\ \A m \in Node : \E s \in Seq(Messages) : to_node'[m] = to_node[m] \o s
    <2>1. Reached(n)' = Reached(n)
      BY <1>1, <1>3, StillReached
    <2>2. KeepsLists
      BY <1>3 DEF KeepsLists
    <2>3. Live(n)' => Live(n)
      BY <1>1 DEF Live
    <2> QED BY <1>1, <2>1, <2>2, <2>3, ReachedIs, ListedSame
  <1>4. CASE /\ p \in Requests /\ Accepted(c, p) /\ B!process_control_request(c, p, TRUE)
             /\ \E a \in Answered : AnswerArrives(c, p, a)
    <2>1. PICK a \in Answered : AnswerArrives(c, p, a)
      BY <1>4
    <2>2. \/ KeepsLists /\ (p.json.op = "add_subscriber" => ~a.success)
          \/ p.json.op = "add_subscriber" /\ a.success /\ AddsOne(p.json)
      BY <1>1, <1>4, <2>1, SubscribersChange DEF AnswerArrives
    <2>3. CASE c # n
      <3>1. Reached(n)' = Reached(n)
        BY <1>1, <2>1, <2>3, StillReached DEF AnswerArrives
      <3>2. CASE KeepsLists
        <4>1. Live(n)' => Live(n)
          BY <1>1 DEF Live
        <4> QED BY <1>1, <3>1, <3>2, <4>1, ReachedIs, ListedSame
      <3>3. CASE p.json.op = "add_subscriber" /\ AddsOne(p.json)
        <4>1. NodeAgrees(c, p.json.node_id)
          BY <1>1, <1>2, <1>4, <3>3, PacketFields DEF OwnRequest
        <4>2. B!At(m_nodes, p.json.node_id).address # n
          BY <2>3, <4>1 DEF NodeAgrees
        <4> QED BY <1>1, <3>1, <3>3, <4>2, ListedOther
      <3> QED BY <2>2, <3>2, <3>3
    <2>4. CASE c = n /\ Live(n)
      <3>1. ~Connected(n)
        BY <1>1, <1>2, <1>4, <2>4, NoMoreRequests, PacketFields
      <3>2. Connecting(n)
        BY <2>4, <3>1 DEF Live, Connecting, Connected, TypeInv, Domains
      <3>3. /\ pc[n] = "wait" /\ p.counter = m_bp_counter[n]
            /\ \A i \in 1..Len(to_node[n]) : to_node[n][i].type # "Control"
        BY <1>1, <1>4, <2>4, <3>2, CountsLatest DEF Accepted
      <3>4. Asks(n, p.json)
        BY <1>1, <2>4, <3>3 DEF AgreeInv, Told
      <3>5. call[n] \in 1..LastCall(n)
        BY <3>3, EndsFinite DEF TypeInv, NodeTypes
      <3>6. PICK x : x = ControlPacket(p.counter, a)
        OBVIOUS
      <3>7. /\ to_node[n] \in Seq(Downlink) /\ Len(to_node[n]) \in Nat
            /\ to_node'[n] = Append(to_node[n], x) /\ x.type = "Control" /\ x.json = a
        BY <2>1, <2>4, <3>6, LenProperties DEF AnswerArrives, ControlPacket, TypeInv, NodeTypes
      <3>8. /\ Len(to_node'[n]) = Len(to_node[n]) + 1
            /\ to_node'[n][Len(to_node[n]) + 1] = x
            /\ \A i \in 1..Len(to_node[n]) : to_node'[n][i] = to_node[n][i]
        BY <3>7, AppendProperties
      <3>9. /\ ~Granted(n) /\ (Granted(n)' <=> a.success)
        <4>1. Len(to_node[n]) + 1 \in 1..Len(to_node'[n])
          BY <3>7, <3>8
        <4>2. \A i \in 1..Len(to_node'[n]) :
                i \in 1..Len(to_node[n]) \/ i = Len(to_node[n]) + 1
          BY <3>7, <3>8
        <4> QED BY <1>1, <3>3, <3>7, <3>8, <4>1, <4>2 DEF Granted
      <3>10. Reached(n) = call[n] /\ Reached(n)' = IF a.success THEN call[n] + 1 ELSE call[n]
        BY <1>1, <3>9 DEF Reached
      <3> QED BY <1>1, <2>2, <3>4, <3>5, <3>10, ListedAnswered
    <2>5. CASE ~Live(n)
      BY <1>1, <2>5 DEF Live, Listed
    <2> QED BY <2>3, <2>4, <2>5
  <1> QED BY <1>3, <1>4, SpinLists
-----------------------------------------------------------------------------
LEMMA CountedNode ==
  ASSUME TypeInv, NEW n \in Node, ConnectInv(n), CountedAll(n), NodeStep(n), UNCHANGED broker_vars
  PROVE  CountedAll(n)'
  <1>0. Domains /\ NodeTypes(n) /\ m_client_counters' = m_client_counters
    BY DEF TypeInv, broker_vars
  <1>1. CASE pc'[n] \notin {"wait", "idle", "spin"}
    BY <1>1 DEF CountedAll, Connected
  <1>2. CASE Connected(n) /\ Connected(n)'
    BY <1>0, <1>2 DEF CountedAll, Connected
  <1>3. CASE connect(n)
    <2>1. pc'[n] \in {"rpc", "failed"}
      BY <1>0, <1>3 DEF connect, Goto, Domains
    <2> QED BY <1>1, <2>1
  <1>4. CASE send_control(n)
    <2>1. pc[n] = "rpc" /\ pc'[n] \in {"wait", "failed"} /\ to_node'[n] = to_node[n]
      BY <1>0, <1>4 DEF send_control, Goto, Domains
    <2>2. ~\E i \in 1..Len(to_node'[n]) : to_node'[n][i].type = "Control"
      BY <2>1, NoAnswer
    <2> QED BY <2>1, <2>2 DEF CountedAll, Connected
  <1>5. CASE receive_response(n)
    <2>1. pc[n] = "wait" /\ pc'[n] \in {"rpc", "failed", "abort", "idle"}
      BY <1>0, <1>5 DEF receive_response, RpcReturn, Goto, Domains
    <2>2. CASE pc'[n] = "idle"
      <3>1. /\ to_node[n] # <<>> /\ RpcSucceeds(Head(to_node[n])) /\ call[n] = LastCall(n)
        BY <1>0, <1>5, <2>2 DEF receive_response, RpcReturn, Goto, Domains
      <3>2. 1 \in 1..Len(to_node[n]) /\ Head(to_node[n]) = to_node[n][1]
        BY <3>1, FrontOfInbox
      <3>3. m_client_counters[n] = m_bp_counter[n]
        BY <2>1, <3>1, <3>2 DEF CountedAll, RpcSucceeds
      <3>4. m_bp_counter[n] = call[n] /\ LastCall(n) \in Nat
        BY <2>1, EndsFinite DEF ConnectInv, Connecting, Counted
      <3> QED BY <1>0, <2>2, <3>1, <3>3, <3>4 DEF CountedAll, Connected
    <2> QED BY <1>1, <2>1, <2>2
  <1>6. CASE SpinReceive(n) \/ SpinReturn(n)
    <2>1. Connected(n) /\ Connected(n)'
      BY <1>0, <1>6 DEF SpinReceive, SpinReturn, Goto, Connected, Domains
    <2> QED BY <1>2, <2>1
  <1>7. ASSUME NEW e \in End(n), publish(n, e) \/ run_callback(n, e) \/ send_data(n, e)
        PROVE  pc'[n] = "new" \/ (Connected(n) /\ Connected(n)')
    BY <1>0, <1>7 DEF publish, run_callback, ShowFront, Reaches, send_data, Goto, Domains, Connected
  <1> QED BY <1>1, <1>2, <1>3, <1>4, <1>5, <1>6, <1>7 DEF NodeStep

LEMMA CountedBroker ==
  ASSUME AnswersNotRepeated, DownlinkReliable, TypeInv, BrokerInv, NoWrap, UplinkGenuine,
         NEW n \in Node, ConnectInv(n), CountedAll(n), BrokerSpin
  PROVE  CountedAll(n)'
  <1> DEFINE c == Head(to_broker).from
             p == Head(to_broker).packet
  <1>1. UNCHANGED <<pc, call, m_bp_counter>> /\ to_broker # <<>> /\ c \in Node
    BY HeadOfUplink DEF BrokerSpin, local
  <1>2. \/ m_client_counters'[n] = m_client_counters[n]
        \/ /\ c = n /\ B!Accepts(n, p.counter) /\ m_client_counters'[n] = p.counter
           /\ m_client_counters[n] \in Nat => p.counter = m_client_counters[n] + 1
    BY CountsOn
  <1>3. ASSUME Connected(n) PROVE m_client_counters'[n] >= LastCall(n)
    <2>1. m_client_counters[n] >= LastCall(n) /\ LastCall(n) \in Nat /\ LastCall(n) >= 1
      BY <1>3, EndsFinite DEF CountedAll
    <2>2. m_client_counters[n] \in BpCounter \cup {-1}
      BY DEF TypeInv, B!TypeOK, B!NoCounter, B!BpCounter, BpCounter
    <2>3. m_client_counters[n] \in Nat
      BY <2>1, <2>2, CounterModAssumption DEF BpCounter
    <2> QED BY <1>2, <2>1, <2>3
  <1>4. ASSUME pc[n] = "wait", \E i \in 1..Len(to_node'[n]) : to_node'[n][i].type = "Control"
        PROVE  m_client_counters'[n] = m_bp_counter[n]
    <2>1. Connecting(n)
      BY <1>4 DEF Connecting
    <2>2. CASE c = n /\ B!Accepts(n, p.counter) /\ m_client_counters'[n] = p.counter
      BY <1>1, <2>1, <2>2, CountsLatest
    <2>3. CASE ~(c = n /\ B!Accepts(n, p.counter) /\ m_client_counters'[n] = p.counter)
      <3>1. m_client_counters'[n] = m_client_counters[n]
        BY <1>2, <2>3
      <3>2. \/ to_node'[n] = to_node[n]
            \/ \E s \in Seq(Messages) : to_node'[n] = to_node[n] \o s
        <4>1. CASE \A m \in Node : \E s \in Seq(Messages) : to_node'[m] = to_node[m] \o s
          BY <4>1
        <4>2. CASE Accepted(c, p) /\ \E a \in Answered : AnswerArrives(c, p, a)
          <5>1. CASE c = n
            <6>1. m_client_counters'[n] = p.counter /\ B!Accepts(n, p.counter)
              BY <4>2, <5>1 DEF Accepted, TypeInv, B!TypeOK
            <6> QED BY <2>3, <5>1, <6>1
          <5>2. CASE c # n
            BY <4>2, <5>2 DEF AnswerArrives
          <5> QED BY <5>1, <5>2
        <4> QED BY <4>1, <4>2, SpinLists
      <3>3. \E i \in 1..Len(to_node[n]) : to_node[n][i].type = "Control"
        BY <1>1, <1>4, <3>2, StillReached
      <3> QED BY <1>4, <3>1, <3>3 DEF CountedAll
    <2> QED BY <2>2, <2>3
  <1> QED BY <1>1, <1>3, <1>4 DEF CountedAll, Connected

LEMMA OwnRequestKept ==
  ASSUME Grown, NEW u, OwnRequest(u)
  PROVE  OwnRequest(u)'
  BY DEF OwnRequest, NodeAgrees, Grown

\* What a node asks the broker.
LEMMA OwnRequestNew ==
  ASSUME AnswersNotRepeated, TypeInv, NEW n \in Node, ConnectInv(n), AgreeInv(n), SendsRequest(n)
  PROVE  OwnRequest([from |-> n, packet |-> ControlPacket(NextCounter(m_bp_counter[n]), Request(n))])
  <1>1. pc[n] = "rpc" /\ Asks(n, Request(n))
    BY RequestAsks DEF SendsRequest
  <1>2. /\ call[n] \in 1..LastCall(n) /\ LastCall(n) \in Nat /\ LastCall(n) < CounterMod
        /\ m_bp_counter[n] \in BpCounter
    BY <1>1, EndsFinite DEF TypeInv, NodeTypes, AnswersNotRepeated
  <1>3. m_bp_counter[n] = call[n] - 1
    BY <1>1 DEF ConnectInv, Connecting, Counted
  <1>4. NextCounter(m_bp_counter[n]) = call[n]
    <2>1. m_bp_counter[n] + 1 = call[n] /\ m_bp_counter[n] + 1 < CounterMod
      BY <1>2, <1>3, CounterModAssumption
    <2> QED BY <1>2, <2>1, CounterSteps
  <1>5. ASSUME Request(n).op = "add_subscriber" PROVE NodeAgrees(n, Request(n).node_id)
    <2>1. CallKind(n) = "endpoint"
      BY <1>1, <1>2, <1>5, CallEnds DEF Asks
    <2>2. Request(n).node_id = m_node_id[n] /\ call[n] > 1
      BY <1>1, <1>2, <2>1, CallEnds DEF Asks
    <2> QED BY <2>2 DEF AgreeInv, AgreesSoFar
  <1> QED BY <1>2, <1>4, <1>5 DEF OwnRequest, ControlPacket

LEMMA OwnRequestsKept ==
  ASSUME AnswersNotRepeated, TypeInv, Grown, \A n \in Node : ConnectInv(n) /\ AgreeInv(n),
         \A i \in 1..Len(to_broker) : OwnRequest(to_broker[i]),
         \/ \E k \in Node : NodeStep(k)
         \/ \A i \in 1..Len(to_broker') : \E j \in 1..Len(to_broker) : to_broker'[i] = to_broker[j],
         NEW i \in 1..Len(to_broker'), NEW v, v = to_broker'[i]
  PROVE  OwnRequest(v)'
  <1>1. ASSUME NEW j \in 1..Len(to_broker), v = to_broker[j]
        PROVE  OwnRequest(v)'
    BY <1>1, OwnRequestKept
  <1>2. ASSUME NEW k \in Node, NodeStep(k) PROVE OwnRequest(v)'
    <2>0. to_broker \in Seq(Uplink) /\ NodeTypes(k) /\ NextCounter(m_bp_counter[k]) \in BpCounter
      BY Counters DEF TypeInv, NodeTypes
    <2>1. CASE to_broker' = to_broker
      BY <1>1, <2>1
    <2>2. CASE SendsRequest(k)
      <3>1. PICK u : u = [from |-> k, packet |-> ControlPacket(NextCounter(m_bp_counter[k]), Request(k))]
        OBVIOUS
      <3>2. u \in Uplink
        BY <2>0, <2>2, <3>1, RequestAsked, PacketsMade DEF SendsRequest
      <3>3. OwnRequest(u)
        BY <2>2, <3>1, OwnRequestNew
      <3>4. \/ i \in 1..Len(to_broker) /\ to_broker'[i] = to_broker[i]
            \/ to_broker'[i] = u
        BY <2>0, <2>2, <3>1, <3>2, AppendedElements DEF SendsRequest
      <3> QED BY <1>1, <3>3, <3>4, OwnRequestKept
    <2>3. ASSUME NEW e \in End(k), SendsMessage(k, e) PROVE OwnRequest(v)'
      <3>1. PICK u : u = [from |-> k, packet |->
                DataPacket(NextCounter(m_bp_counter[k]), ids[k][e].topic_id,
                           ids[k][e].message_type_id, Head(queue[k][e]))]
        OBVIOUS
      <3>2. Head(queue[k][e]) \in Payloads /\ ids[k][e].topic_id \in Nat /\ ids[k][e].message_type_id \in Nat
        BY <2>0, <2>3, TailOfQueue DEF NodeTypes, SendsMessage, Ids
      <3>3. u \in Uplink
        BY <2>0, <3>1, <3>2, PacketsMade
      <3>4. OwnRequest(u)
        BY <3>1 DEF OwnRequest, DataPacket
      <3>5. \/ i \in 1..Len(to_broker) /\ to_broker'[i] = to_broker[i]
            \/ to_broker'[i] = u
        BY <2>0, <2>3, <3>1, <3>3, AppendedElements DEF SendsMessage
      <3> QED BY <1>1, <3>4, <3>5, OwnRequestKept
    <2> QED BY <1>2, <2>1, <2>2, <2>3, NodeSends DEF TypeInv
  <1> QED BY <1>1, <1>2

LEMMA ListStep ==
  ASSUME AnswersNotRepeated, DownlinkReliable, BrokerStays, TypeInv, BrokerInv, NoWrap, UplinkGenuine,
         \A n \in Node : ConnectInv(n) /\ AgreeInv(n), ListInv, [Next]_vars
  PROVE  ListInv'
  <1>0. Grown /\ \A i \in 1..Len(to_broker) : OwnRequest(to_broker[i])
    BY RegistryGrows DEF ListInv
  <1>a. ASSUME NEW n \in Node
        PROVE  ConnectInv(n) /\ AgreeInv(n) /\ AgreesSoFar(n) /\ Listed(n) /\ CountedAll(n)
    BY DEF ListInv, AgreeInv
  <1>b. ~BrokerRestart
    BY DEF BrokerRestart, Fault, BrokerStays
  <1>1. ASSUME NEW i \in 1..Len(to_broker'), NEW v, v = to_broker'[i] PROVE OwnRequest(v)'
    <2>1. CASE \E k \in Node : NodeStep(k)
      BY <1>0, <1>1, <1>a, <2>1, OwnRequestsKept
    <2>2. CASE BrokerSpin \/ NetworkFault \/ UNCHANGED to_broker
      <3>1. \A n : Uplinked(n)
        BY <2>2, UplinkShifts, FaultKeepsUplink DEF Uplinked
      <3>2. \A j \in 1..Len(to_broker') : \E k \in 1..Len(to_broker) : to_broker'[j] = to_broker[k]
        BY <3>1 DEF Uplinked
      <3> QED BY <1>0, <1>1, <1>a, <3>2, OwnRequestsKept
    <2> QED BY <1>b, <2>1, <2>2 DEF Next, vars, node_vars
  <1>2. ASSUME NEW n \in Node PROVE Listed(n)' /\ CountedAll(n)'
    <2>1. ASSUME NEW k \in Node, NodeStep(k), UNCHANGED broker_vars PROVE Listed(n)' /\ CountedAll(n)'
      <3>1. Listed(n)'
        BY <1>0, <1>a, <2>1, ListedNode
      <3>2. CASE k = n
        BY <1>a, <2>1, <3>1, <3>2, CountedNode
      <3>3. CASE k # n
        <4>1. SameNode(n)
          BY <2>1, <3>3, NodeFrame DEF TypeInv
        <4>2. CountedAll(n)'
          BY <1>a, <2>1, <4>1 DEF SameNode, CountedAll, Connected, broker_vars
        <4> QED BY <3>1, <4>2
      <3> QED BY <3>2, <3>3
    <2>2. CASE BrokerSpin
      BY <1>0, <1>a, <2>2, ListedBroker, CountedBroker
    <2>3. CASE UNCHANGED <<pc, m_bp_counter, local, broker_vars, to_node>>
      <3>1. UNCHANGED <<pc, call, m_bp_counter, m_client_counters, m_nodes, m_topics, to_node>>
        BY <2>3 DEF local, broker_vars
      <3>2. Listed(n) /\ CountedAll(n)
        BY <1>a
      <3>3. Listed(n)'
        BY <3>1, <3>2 DEF Listed, Live, Entries, Reached, Granted
      <3>4. CountedAll(n)'
        BY <3>1, <3>2 DEF CountedAll, Connected
      <3> QED BY <3>3, <3>4
    <2>4. CASE NetworkFault
      <3>1. UNCHANGED <<pc, m_bp_counter, local, broker_vars, to_node>>
        BY <2>4 DEF NetworkFault, Fault, DownlinkReliable
      <3> QED BY <2>3, <3>1
    <2>5. CASE UNCHANGED vars
      <3>1. UNCHANGED <<pc, m_bp_counter, local, broker_vars, to_node>>
        BY <2>5 DEF vars, node_vars
      <3> QED BY <2>3, <3>1
    <2> QED BY <1>b, <2>1, <2>2, <2>4, <2>5 DEF Next
  <1>3. \A i \in 1..Len(to_broker') : OwnRequest(to_broker[i])'
    <2> SUFFICES ASSUME NEW i \in 1..Len(to_broker') PROVE OwnRequest(to_broker[i])'
      OBVIOUS
    <2>1. PICK v : v = to_broker'[i]
      OBVIOUS
    <2>2. OwnRequest(v)'
      BY <1>1, <2>1
    <2> QED BY <2>1, <2>2 DEF OwnRequest
  <1> QED BY <1>2, <1>3 DEF ListInv

LEMMA ListInit ==
  ASSUME Init
  PROVE  ListInv
  <1>1. Len(to_broker) = 0 /\ Len(m_topics) = 0
    BY DEF Init, NodeInit, B!Init
  <1>2. \A n \in Node : pc[n] = "new"
    BY DEF Init, NodeInit
  <1>3. \A id \in Nat : ~B!Known(m_topics, id)
    BY <1>1 DEF B!Known
  <1> QED BY <1>1, <1>2, <1>3 DEF ListInv, Listed, CountedAll, Connected
-----------------------------------------------------------------------------
(***************************************************************************)
(* How many elements of a sequence are in a set.                            *)
(***************************************************************************)
Places(s, S) == {i \in 1..Len(s) : s[i] \in S}
Number(s, S) == Cardinality(Places(s, S))

LEMMA NumberNat ==
  ASSUME NEW D, NEW s \in Seq(D), NEW S
  PROVE  /\ IsFiniteSet(Places(s, S)) /\ Number(s, S) \in Nat
         /\ Number(s, S) = 0 <=> \A i \in 1..Len(s) : s[i] \notin S
  <1>1. Len(s) \in Nat
    OBVIOUS
  <1>2. IsFiniteSet(1..Len(s))
    BY <1>1, FS_Interval
  <1>3. Places(s, S) \subseteq 1..Len(s)
    BY DEF Places
  <1>4. IsFiniteSet(Places(s, S))
    BY <1>2, <1>3, FS_Subset
  <1>5. Number(s, S) \in Nat /\ (Number(s, S) = 0 <=> Places(s, S) = {})
    BY <1>4, FS_CardinalityType, FS_EmptySet DEF Number
  <1>6. Places(s, S) = {} <=> \A i \in 1..Len(s) : s[i] \notin S
    BY DEF Places
  <1> QED BY <1>4, <1>5, <1>6

LEMMA NumberEmpty ==
  ASSUME NEW S
  PROVE  Number(<<>>, S) = 0
  <1>1. Places(<<>>, S) = {}
    BY DEF Places
  <1> QED BY <1>1, FS_EmptySet DEF Number

\* The same elements at the same places.
LEMMA NumberSame ==
  ASSUME NEW s, NEW t, NEW S, Len(t) = Len(s), \A i \in 1..Len(s) : t[i] = s[i]
  PROVE  Number(t, S) = Number(s, S)
  <1>1. Places(t, S) = Places(s, S)
    BY DEF Places
  <1> QED BY <1>1 DEF Number

LEMMA NumberAppend ==
  ASSUME NEW D, NEW s \in Seq(D), NEW x \in D, NEW S
  PROVE  Number(Append(s, x), S) = Number(s, S) + (IF x \in S THEN 1 ELSE 0)
  <1>1. PICK t : t = Append(s, x)
    OBVIOUS
  <1>2. /\ Len(s) \in Nat /\ Len(t) = Len(s) + 1 /\ t[Len(s) + 1] = x
        /\ \A i \in 1..Len(s) : t[i] = s[i]
    BY <1>1
  <1>3. IsFiniteSet(Places(s, S)) /\ Number(s, S) \in Nat
    BY NumberNat
  <1>4. CASE x \in S
    <2>1. Places(t, S) = Places(s, S) \cup {Len(s) + 1} /\ Len(s) + 1 \notin Places(s, S)
      BY <1>2, <1>4 DEF Places
    <2> QED BY <1>1, <1>3, <1>4, <2>1, FS_AddElement DEF Number
  <1>5. CASE x \notin S
    <2>1. Places(t, S) = Places(s, S)
      BY <1>2, <1>5 DEF Places
    <2> QED BY <1>1, <1>3, <1>5, <2>1 DEF Number
  <1> QED BY <1>4, <1>5

\* One element is taken from the front.
LEMMA NumberTail ==
  ASSUME NEW D, NEW s \in Seq(D), NEW t \in Seq(D), Len(s) = Len(t) + 1,
         \A i \in 1..Len(t) : t[i] = s[i + 1], NEW S
  PROVE  Number(s, S) = Number(t, S) + (IF s[1] \in S THEN 1 ELSE 0)
  <1>1. Len(t) \in Nat
    OBVIOUS
  <1> DEFINE Shifted == {i + 1 : i \in Places(t, S)}
             shift == [i \in Places(t, S) |-> i + 1]
  <1>2. IsFiniteSet(Places(t, S)) /\ Number(t, S) \in Nat
    BY NumberNat
  <1>3. IsFiniteSet(Shifted) /\ Cardinality(Shifted) = Cardinality(Places(t, S))
    <2>1. \A i \in Places(t, S) : i \in Nat
      BY <1>1 DEF Places
    <2>2. shift \in [Places(t, S) -> Shifted]
      OBVIOUS
    <2>3. \A i, j \in Places(t, S) : shift[i] = shift[j] => i = j
      BY <2>1
    <2>4. \A y \in Shifted : \E i \in Places(t, S) : shift[i] = y
      OBVIOUS
    <2>5. shift \in Bijection(Places(t, S), Shifted)
      BY <2>2, <2>3, <2>4 DEF Bijection, Injection, Surjection, IsInjective
    <2>6. ExistsBijection(Places(t, S), Shifted)
      BY <2>5 DEF ExistsBijection
    <2> HIDE DEF Shifted, shift
    <2> QED BY <1>2, <2>6, FS_Bijection
  <1>4. Places(s, S) = Shifted \cup (IF s[1] \in S THEN {1} ELSE {}) /\ 1 \notin Shifted
    <2>1. ASSUME NEW i \in Places(s, S), i # 1 PROVE i \in Shifted
      <3>1. i - 1 \in 1..Len(t) /\ s[i] \in S /\ i = (i - 1) + 1
        BY <1>1, <2>1 DEF Places
      <3>2. t[i - 1] = s[i]
        BY <3>1
      <3>3. i - 1 \in Places(t, S)
        BY <3>1, <3>2 DEF Places
      <3> QED BY <3>1, <3>3
    <2>2. ASSUME NEW i \in Places(t, S) PROVE i + 1 \in Places(s, S) /\ i + 1 # 1
      BY <1>1, <2>2 DEF Places
    <2>3. 1 \in Places(s, S) <=> s[1] \in S
      BY <1>1 DEF Places
    <2> QED BY <2>1, <2>2, <2>3
  <1>5. CASE s[1] \in S
    <2>1. Places(s, S) = Shifted \cup {1}
      BY <1>4, <1>5
    <2> QED BY <1>2, <1>3, <1>4, <1>5, <2>1, FS_AddElement DEF Number
  <1>6. CASE s[1] \notin S
    <2>1. Places(s, S) = Shifted
      BY <1>4, <1>6
    <2> QED BY <1>2, <1>3, <1>6, <2>1 DEF Number
  <1> QED BY <1>5, <1>6

\* Elements of T come to the end: all of them are in S, or none.
LEMMA NumberExtends ==
  ASSUME NEW D, NEW s \in Seq(D), NEW t, NEW T, Extends(s, t, T), NEW S
  PROVE  /\ T \subseteq S => Number(t, S) = Number(s, S) + (Len(t) - Len(s))
         /\ T \cap S = {} => Number(t, S) = Number(s, S)
  <1>1. /\ Len(s) \in Nat /\ Len(t) \in Nat /\ Len(s) <= Len(t)
        /\ \A i \in 1..Len(s) : t[i] = s[i]
        /\ \A i \in (Len(s) + 1)..Len(t) : t[i] \in T
    BY DEF Extends
  <1>2. IsFiniteSet(Places(s, S)) /\ Number(s, S) \in Nat
    BY NumberNat
  <1>3. ASSUME T \subseteq S PROVE Number(t, S) = Number(s, S) + (Len(t) - Len(s))
    <2>1. Places(t, S) = Places(s, S) \cup ((Len(s) + 1)..Len(t))
      <3>1. ASSUME NEW i \in 1..Len(t) PROVE i \in 1..Len(s) \/ i \in (Len(s) + 1)..Len(t)
        BY <1>1
      <3>2. \A i \in (Len(s) + 1)..Len(t) : i \in 1..Len(t) /\ t[i] \in S
        BY <1>1, <1>3
      <3>3. \A i \in 1..Len(s) : i \in 1..Len(t)
        BY <1>1
      <3> QED BY <1>1, <3>1, <3>2, <3>3 DEF Places
    <2>2. Places(s, S) \cap ((Len(s) + 1)..Len(t)) = {}
      BY <1>1 DEF Places
    <2>3. /\ IsFiniteSet((Len(s) + 1)..Len(t))
          /\ Cardinality((Len(s) + 1)..Len(t)) = Len(t) - Len(s)
      <3>1. Len(s) + 1 \in Int /\ Len(t) \in Int
        BY <1>1
      <3>2. IsFiniteSet((Len(s) + 1)..Len(t)) /\ Cardinality((Len(s) + 1)..Len(t)) =
              IF Len(s) + 1 > Len(t) THEN 0 ELSE Len(t) - (Len(s) + 1) + 1
        BY <3>1, FS_Interval
      <3> QED BY <1>1, <3>2
    <2>4. Cardinality(Places(t, S)) = Cardinality(Places(s, S)) + Cardinality((Len(s) + 1)..Len(t))
                                      - Cardinality(Places(s, S) \cap ((Len(s) + 1)..Len(t)))
      BY <1>2, <2>1, <2>3, FS_Union
    <2>5. Cardinality(Places(s, S) \cap ((Len(s) + 1)..Len(t))) = 0
      BY <2>2, FS_EmptySet, Zenon
    <2>6. PICK a, b, x, y : /\ a = Number(s, S) /\ b = Number(t, S)
                            /\ x = Cardinality((Len(s) + 1)..Len(t))
                            /\ y = Cardinality(Places(s, S) \cap ((Len(s) + 1)..Len(t)))
      OBVIOUS
    <2>7. b = a + x - y /\ a \in Nat /\ x = Len(t) - Len(s) /\ y = 0
      BY <1>2, <2>3, <2>4, <2>5, <2>6 DEF Number
    <2> QED BY <1>1, <2>6, <2>7
  <1>4. ASSUME T \cap S = {} PROVE Number(t, S) = Number(s, S)
    <2>1. ASSUME NEW i \in 1..Len(t), t[i] \in S PROVE i \in 1..Len(s)
      BY <1>1, <1>4, <2>1
    <2>2. Places(t, S) = Places(s, S)
      BY <1>1, <2>1 DEF Places
    <2> QED BY <2>2 DEF Number
  <1> QED BY <1>3, <1>4
-----------------------------------------------------------------------------
(***************************************************************************)
(* Once a node is connected, every message of a topic that it subscribes to *)
(* is there, shown, queued or in its inbox, in as many copies as the node   *)
(* has subscribers of the topic, or not at all.                             *)
(***************************************************************************)
Numbered(m, f, q) == {d \in Payloads : d.node = m /\ d.end = f /\ d.seq = q}
Carrying(m, f, q) == {p \in Downlink : Matches(p, m, f) /\ p.payload.seq = q}

Total(n, e, m, f, q) ==
  Number(delivered[n][e], Numbered(m, f, q)) + Number(queue[n][e], Numbered(m, f, q))
  + Number(to_node[n], Carrying(m, f, q))

\* n is connected, or will be as soon as it looks into its inbox.
Ready(n) ==
  \/ Connected(n)
  \/ /\ pc[n] = "wait" /\ call[n] = LastCall(n)
     /\ to_node[n] # <<>> /\ RpcSucceeds(Head(to_node[n]))

Tally(n, e, m, f) == Ready(n) => \A q \in Nat : Total(n, e, m, f, q) \in {0, Copies(n, e)}

LEMMA TotalNat ==
  ASSUME TypeInv, NEW n \in Node, NEW e \in End(n), NEW m, NEW f, NEW q
  PROVE  /\ Number(delivered[n][e], Numbered(m, f, q)) \in Nat
         /\ Number(queue[n][e], Numbered(m, f, q)) \in Nat
         /\ Number(to_node[n], Carrying(m, f, q)) \in Nat
  <1>1. /\ delivered[n][e] \in Seq(Payloads) /\ queue[n][e] \in Seq(Payloads)
        /\ to_node[n] \in Seq(Downlink)
    BY DEF TypeInv, NodeTypes
  <1> QED BY <1>1, NumberNat

LEMMA TotalUndisturbed ==
  ASSUME NEW n, NEW e, Undisturbed(n, e), NEW m, NEW f, NEW q
  PROVE  Total(n, e, m, f, q)' = Total(n, e, m, f, q)
  BY DEF Undisturbed, Total

\* A packet leaves the inbox.
LEMMA FrontLeaves ==
  ASSUME TypeInv, NEW n \in Node, to_node[n] # <<>>, to_node'[n] = Tail(to_node[n]), NEW S
  PROVE  Number(to_node[n], S) = Number(to_node'[n], S) + (IF Head(to_node[n]) \in S THEN 1 ELSE 0)
  <1>1. PICK s, t : s = to_node[n] /\ t = Tail(s)
    OBVIOUS
  <1>2. s \in Seq(Downlink) /\ t \in Seq(Downlink)
    BY <1>1 DEF TypeInv, NodeTypes
  <1>3. Len(s) = Len(t) + 1 /\ (\A i \in 1..Len(t) : t[i] = s[i + 1]) /\ Head(s) = s[1]
    BY <1>1, <1>2
  <1>4. Number(s, S) = Number(t, S) + (IF s[1] \in S THEN 1 ELSE 0)
    BY <1>2, <1>3, NumberTail
  <1> QED BY <1>1, <1>3, <1>4

LEMMA TotalDropped ==
  ASSUME TypeInv, TypeInv', NEW n \in Node, NEW e \in End(n), DropsFront(n, e), NEW m, NEW f, NEW q,
         Head(to_node[n]) \notin Carrying(m, f, q)
  PROVE  Total(n, e, m, f, q)' = Total(n, e, m, f, q)
  <1>1. Number(to_node[n], Carrying(m, f, q)) = Number(to_node'[n], Carrying(m, f, q)) + 0
    BY FrontLeaves DEF DropsFront
  <1>2. Number(to_node[n], Carrying(m, f, q)) \in Nat /\ Number(to_node'[n], Carrying(m, f, q)) \in Nat
    <2>1. to_node[n] \in Seq(Downlink) /\ to_node'[n] \in Seq(Downlink)
      BY DEF TypeInv, NodeTypes
    <2> QED BY <2>1, NumberNat
  <1> QED BY <1>1, <1>2 DEF Total, DropsFront

LEMMA TotalTaken ==
  ASSUME TypeInv, TypeInv', NEW n \in Node, NEW e \in End(n), TakesFront(n, e), NEW m, NEW f, NEW q
  PROVE  Total(n, e, m, f, q)' = Total(n, e, m, f, q)
  <1>1. PICK p, x : p = Head(to_node[n]) /\ x = (IF p \in Carrying(m, f, q) THEN 1 ELSE 0)
    OBVIOUS
  <1>2. Number(to_node[n], Carrying(m, f, q)) = Number(to_node'[n], Carrying(m, f, q)) + x
    BY <1>1, FrontLeaves DEF TakesFront
  <1>3. p \in Downlink /\ p.type = "Data" /\ p.payload \in Payloads
    <2>1. p \in Downlink /\ p.type = "Data"
      BY <1>1, FrontOfInbox DEF TakesFront, FrontIsFor
    <2> QED BY <2>1, PacketFields DEF Downlink
  <1>4. Number(queue'[n][e], Numbered(m, f, q)) = x /\ Number(queue[n][e], Numbered(m, f, q)) = 0
    <2>1. queue[n][e] = <<>> /\ queue'[n][e] = Append(<<>>, p.payload)
      BY <1>1 DEF TakesFront
    <2>2. p.payload \in Numbered(m, f, q) <=> p \in Carrying(m, f, q)
      BY <1>3 DEF Numbered, Carrying, Matches
    <2>3. Number(Append(<<>>, p.payload), Numbered(m, f, q)) =
            Number(<<>>, Numbered(m, f, q)) + (IF p.payload \in Numbered(m, f, q) THEN 1 ELSE 0)
      <3>1. PICK s, d : s = <<>> /\ d = p.payload
        OBVIOUS
      <3>2. s \in Seq(Payloads) /\ d \in Payloads
        BY <1>3, <3>1
      <3>3. Number(Append(s, d), Numbered(m, f, q)) =
              Number(s, Numbered(m, f, q)) + (IF d \in Numbered(m, f, q) THEN 1 ELSE 0)
        BY <3>2, NumberAppend
      <3> QED BY <3>1, <3>3
    <2> QED BY <1>1, <2>1, <2>2, <2>3, NumberEmpty
  <1>5. /\ Number(to_node[n], Carrying(m, f, q)) \in Nat /\ x \in {0, 1}
        /\ Number(to_node'[n], Carrying(m, f, q)) \in Nat
        /\ Number(delivered[n][e], Numbered(m, f, q)) \in Nat
    <2>1. to_node[n] \in Seq(Downlink) /\ to_node'[n] \in Seq(Downlink)
      BY DEF TypeInv, NodeTypes
    <2> QED BY <1>1, <2>1, NumberNat, TotalNat
  <1> QED BY <1>2, <1>4, <1>5 DEF Total, TakesFront

\* The message in the queue.
LEMMA OneQueued ==
  ASSUME TypeInv, NEW n \in Node, NEW e \in End(n), Len(queue[n][e]) = 1, NEW S
  PROVE  /\ queue[n][e][1] \in Payloads
         /\ Number(queue[n][e], S) = IF queue[n][e][1] \in S THEN 1 ELSE 0
  <1>1. PICK s : s = queue[n][e]
    OBVIOUS
  <1>2. s \in Seq(Payloads) /\ Len(s) = 1 /\ s[1] \in Payloads
    BY <1>1, ElementOfSeq DEF TypeInv, NodeTypes
  <1>3. PICK t : t = <<>>
    OBVIOUS
  <1>4. /\ s \in Seq(Payloads) /\ t \in Seq(Payloads)
        /\ Len(s) = Len(t) + 1 /\ \A i \in 1..Len(t) : t[i] = s[i + 1]
    BY <1>2, <1>3
  <1>5. Number(s, S) = Number(t, S) + (IF s[1] \in S THEN 1 ELSE 0)
    BY <1>4, NumberTail
  <1> QED BY <1>1, <1>2, <1>3, <1>5, NumberEmpty

LEMMA TotalShown ==
  ASSUME TypeInv, NEW n \in Node, NEW e \in End(n), Shows(n, e), NEW m, NEW f, NEW q
  PROVE  /\ Total(n, e, m, f, q)' = Total(n, e, m, f, q)
         /\ Number(delivered'[n][e], Numbered(m, f, q)) =
              Number(delivered[n][e], Numbered(m, f, q))
              + (IF queue[n][e][1] \in Numbered(m, f, q) THEN 1 ELSE 0)
  <1>1. PICK d, x : d = queue[n][e][1] /\ x = (IF d \in Numbered(m, f, q) THEN 1 ELSE 0)
    OBVIOUS
  <1>2. d \in Payloads /\ Number(queue[n][e], Numbered(m, f, q)) = x
    BY <1>1, OneQueued DEF Shows
  <1>3. Number(queue'[n][e], Numbered(m, f, q)) = 0
    BY NumberEmpty DEF Shows
  <1>4. Number(delivered'[n][e], Numbered(m, f, q)) = Number(delivered[n][e], Numbered(m, f, q)) + x
    <2>1. delivered[n][e] \in Seq(Payloads) /\ delivered'[n][e] = Append(delivered[n][e], d)
      BY <1>1 DEF TypeInv, NodeTypes, Shows
    <2> QED BY <1>1, <1>2, <2>1, NumberAppend
  <1>5. to_node'[n] = to_node[n]
    BY DEF Shows
  <1>6. /\ Number(to_node[n], Carrying(m, f, q)) \in Nat /\ x \in {0, 1}
        /\ Number(delivered[n][e], Numbered(m, f, q)) \in Nat
    BY <1>1, TotalNat
  <1> QED BY <1>1, <1>2, <1>3, <1>4, <1>5, <1>6 DEF Total
-----------------------------------------------------------------------------
(***************************************************************************)
(* A step of a node keeps the tally.                                        *)
(***************************************************************************)
LEMMA BecomesReady ==
  ASSUME TypeInv, NEW n \in Node, ConnectInv(n), NodeStep(n), ~Connected(n), Ready(n)'
  PROVE  Ready(n) /\ Head(to_node[n]).type = "Control"
  <1>0. Domains /\ pc[n] \notin {"idle", "spin"}
    BY DEF TypeInv, Connected
  <1> USE DEF Goto, Ready, Connected
  <1>1. CASE connect(n)
    <2>1. pc'[n] \in {"rpc", "failed"}
      BY <1>0, <1>1 DEF connect, Domains
    <2> QED BY <2>1
  <1>2. CASE send_control(n)
    <2>1. pc'[n] \in {"wait", "failed"} /\ pc[n] = "rpc" /\ to_node' = to_node
      BY <1>0, <1>2 DEF send_control, Domains
    <2>2. to_node[n] # <<>> /\ Head(to_node[n]).type = "Control"
      BY <2>1 DEF RpcSucceeds
    <2>3. 1 \in 1..Len(to_node[n]) /\ Head(to_node[n]) = to_node[n][1]
      BY <2>2, FrontOfInbox
    <2> QED BY <2>1, <2>2, <2>3, NoAnswer
  <1>3. CASE receive_response(n)
    <2>1. \/ pc'[n] \in {"failed", "abort", "rpc"}
          \/ /\ pc[n] = "wait" /\ to_node[n] # <<>> /\ RpcSucceeds(Head(to_node[n]))
             /\ call[n] = LastCall(n)
      BY <1>0, <1>3 DEF receive_response, RpcReturn, Domains
    <2> QED BY <2>1 DEF RpcSucceeds
  <1>4. CASE SpinReceive(n) \/ SpinReturn(n)
    BY <1>0, <1>4 DEF SpinReceive, SpinReturn
  <1>5. ASSUME NEW e \in End(n), publish(n, e) \/ run_callback(n, e) \/ send_data(n, e) PROVE FALSE
    <2>1. pc[n] = "new" /\ pc' = pc
      BY <1>0, <1>5 DEF publish, run_callback, send_data, ShowFront, Reaches
    <2> QED BY <2>1
  <1> QED BY <1>1, <1>2, <1>3, <1>4, <1>5 DEF NodeStep

LEMMA TotalNode ==
  ASSUME TypeInv, TypeInv', BrokerInv, NEW n \in Node, NEW e \in End(n), IsSub(n, e), ConnectInv(n),
         AgreeInv(n), InboxOnTopic(n), ServedThisRound(n), NEW m, NEW f, SameTopic(n, e, m, f),
         NodeStep(n), Ready(n)', NEW q
  PROVE  Ready(n) /\ Total(n, e, m, f, q)' = Total(n, e, m, f, q)
  <1>1. Undisturbed(n, e) \/ DropsFront(n, e) \/ TakesFront(n, e) \/ Shows(n, e)
    BY SubscriberSteps
  <1>2. Ready(n) /\ (~Connected(n) => Head(to_node[n]).type = "Control")
    BY BecomesReady DEF Ready
  <1>3. CASE DropsFront(n, e)
    <2>1. Head(to_node[n]) \notin Carrying(m, f, q)
      <3>1. SUFFICES ASSUME Head(to_node[n]) \in Carrying(m, f, q) PROVE FALSE
        OBVIOUS
      <3>2. Matches(Head(to_node[n]), m, f) /\ Head(to_node[n]).type = "Data"
        BY <3>1 DEF Carrying, Matches
      <3>3. Connected(n)
        BY <1>2, <3>2
      <3>4. OnTopic(Head(to_node[n]))
        BY <1>3, FrontOfInbox DEF DropsFront, InboxOnTopic
      <3>5. Head(to_node[n]).topic_id = ids[n][e].topic_id
        BY <3>2, <3>3, <3>4, FrontMatches
      <3> QED BY <1>3, <3>2, <3>3, <3>5 DEF DropsFront, FrontIsFor
    <2> QED BY <1>2, <1>3, <2>1, TotalDropped
  <1> QED BY <1>1, <1>2, <1>3, TotalUndisturbed, TotalTaken, TotalShown

LEMMA TallyNode ==
  ASSUME TypeInv, TypeInv', BrokerInv, NEW n \in Node, NEW e \in End(n), IsSub(n, e), ConnectInv(n),
         AgreeInv(n), InboxOnTopic(n), ServedThisRound(n), NEW m, NEW f, SameTopic(n, e, m, f),
         Tally(n, e, m, f), NEW k \in Node, NodeStep(k)
  PROVE  Tally(n, e, m, f)'
  <1>1. CASE k = n
    <2>1. SUFFICES ASSUME Ready(n)', NEW q \in Nat
                   PROVE  Total(n, e, m, f, q)' \in {0, Copies(n, e)}
      BY DEF Tally, Copies
    <2>2. Ready(n) /\ Total(n, e, m, f, q)' = Total(n, e, m, f, q)
      BY <1>1, <2>1, TotalNode
    <2> QED BY <2>2 DEF Tally
  <1>2. CASE k # n
    <2>1. SameNode(n)
      BY <1>2, NodeFrame DEF TypeInv
    <2>2. /\ to_node'[n] = to_node[n] /\ queue'[n] = queue[n] /\ delivered'[n] = delivered[n]
          /\ pc'[n] = pc[n] /\ call'[n] = call[n]
      BY <2>1 DEF SameNode
    <2> QED BY <2>2 DEF Tally, Ready, Connected, Total, Copies
  <1> QED BY <1>1, <1>2
-----------------------------------------------------------------------------
(***************************************************************************)
(* The messages of f of m in the sequence s come in order and without a     *)
(* gap, each C times, the last at most as often.                            *)
(***************************************************************************)
Of(m, f) == {d \in Payloads : d.node = m /\ d.end = f}

Ordered(s, m, f, C) ==
  \A i, j \in Places(s, Of(m, f)) :
    /\ i < j => s[i].seq <= s[j].seq
    /\ Number(s, Numbered(m, f, s[j].seq)) <= C
    /\ \A q \in s[i].seq..(s[j].seq - 1) : Number(s, Numbered(m, f, q)) = C

\* All subscribers of a topic were added when connect() has made its last call.
LEMMA AllAdded ==
  ASSUME NEW n \in Node, NEW e \in End(n)
  PROVE  Copies(n, e) = Cardinality(Added(n, Endpoint[n][e].topic, LastCall(n) + 1))
  <1>1. \A f \in End(n) : 3 * f + 1 < LastCall(n) + 1
    BY EndsFinite DEF End, LastCall
  <1>2. {f \in End(n) : IsSub(n, f) /\ Endpoint[n][f].topic = Endpoint[n][e].topic}
          = Added(n, Endpoint[n][e].topic, LastCall(n) + 1)
    BY <1>1 DEF Added
  <1> QED BY <1>2 DEF Copies

LEMMA CopiesNat ==
  ASSUME NEW n \in Node, NEW e \in End(n)
  PROVE  Copies(n, e) \in Nat
  BY AllAdded, AddedFinite

\* One more message is shown.
LEMMA OrderedNext ==
  ASSUME NEW s \in Seq(Payloads), NEW d \in Payloads, NEW m, NEW f, NEW C \in Nat,
         Ordered(s, m, f, C), NEW t, t = Append(s, d),
         d \in Of(m, f) =>
           /\ Number(s, Numbered(m, f, d.seq)) + 1 <= C
           /\ \A i \in Places(s, Of(m, f)) :
                /\ s[i].seq <= d.seq
                /\ \A q \in s[i].seq..(d.seq - 1) : Number(s, Numbered(m, f, q)) = C
  PROVE  Ordered(t, m, f, C)
  <1>1. /\ Len(s) \in Nat /\ Len(t) = Len(s) + 1 /\ t[Len(s) + 1] = d
        /\ \A i \in 1..Len(s) : t[i] = s[i]
    OBVIOUS
  <1>2. \A i \in Places(s, Of(m, f)) : i \in 1..Len(s) /\ t[i] = s[i] /\ s[i].seq \in Nat
    <2>1. \A x \in Payloads : x.seq \in Nat
      BY DEF Payloads, Plain
    <2> QED BY <1>1, <2>1 DEF Places, Of
  <1>3. d.seq \in Nat
    BY DEF Payloads, Plain
  <1>4. \A q : Number(t, Numbered(m, f, q)) =
                 Number(s, Numbered(m, f, q)) + (IF d \in Numbered(m, f, q) THEN 1 ELSE 0)
    BY NumberAppend
  <1>5. \A q : Number(s, Numbered(m, f, q)) \in Nat
    BY NumberNat
  <1>6. CASE d \notin Of(m, f)
    <2>1. Places(t, Of(m, f)) = Places(s, Of(m, f))
      BY <1>1, <1>6 DEF Places
    <2>2. ASSUME NEW q PROVE Number(t, Numbered(m, f, q)) = Number(s, Numbered(m, f, q))
      <3>1. d \notin Numbered(m, f, q)
        BY <1>6 DEF Numbered, Of
      <3>2. Number(t, Numbered(m, f, q)) = Number(s, Numbered(m, f, q)) + 0
        BY <1>4, <3>1
      <3> QED BY <1>5, <3>2
    <2> QED BY <1>2, <2>1, <2>2 DEF Ordered
  <1>7. CASE d \in Of(m, f)
    <2>1. Places(t, Of(m, f)) = Places(s, Of(m, f)) \cup {Len(s) + 1}
      BY <1>1, <1>7 DEF Places
    <2>2. ASSUME NEW q
          PROVE  /\ q = d.seq => Number(t, Numbered(m, f, q)) = Number(s, Numbered(m, f, q)) + 1
                 /\ q # d.seq => Number(t, Numbered(m, f, q)) = Number(s, Numbered(m, f, q))
      <3>1. d \in Numbered(m, f, q) <=> q = d.seq
        BY <1>7 DEF Numbered, Of
      <3>2. q = d.seq => Number(t, Numbered(m, f, q)) = Number(s, Numbered(m, f, q)) + 1
        BY <1>4, <3>1
      <3>3. q # d.seq => Number(t, Numbered(m, f, q)) = Number(s, Numbered(m, f, q)) + 0
        BY <1>4, <3>1
      <3> QED BY <1>5, <3>2, <3>3
    <2>3. ASSUME NEW i \in Places(t, Of(m, f)) PROVE t[i].seq \in Nat /\ t[i].seq <= d.seq
      BY <1>1, <1>2, <1>3, <1>7, <2>1, <2>3
    <2>4. ASSUME NEW i \in Places(t, Of(m, f)), NEW j \in Places(t, Of(m, f)), i < j
          PROVE  t[i].seq <= t[j].seq
      <3>1. i \in Places(s, Of(m, f))
        BY <1>1, <1>2, <2>1, <2>4
      <3>2. CASE j = Len(s) + 1
        BY <1>1, <1>2, <1>7, <3>1, <3>2
      <3>3. CASE j \in Places(s, Of(m, f))
        BY <1>2, <2>4, <3>1, <3>3 DEF Ordered
      <3> QED BY <2>1, <3>2, <3>3
    <2>5. ASSUME NEW j \in Places(t, Of(m, f)) PROVE Number(t, Numbered(m, f, t[j].seq)) <= C
      <3>1. CASE t[j].seq = d.seq
        BY <1>7, <2>2, <3>1
      <3>2. CASE t[j].seq # d.seq
        <4>1. j \in Places(s, Of(m, f)) /\ t[j] = s[j]
          BY <1>1, <1>2, <2>1, <3>2
        <4> QED BY <2>2, <3>2, <4>1 DEF Ordered
      <3> QED BY <3>1, <3>2
    <2>6. ASSUME NEW i \in Places(t, Of(m, f)), NEW j \in Places(t, Of(m, f)),
                 NEW q \in t[i].seq..(t[j].seq - 1)
          PROVE  Number(t, Numbered(m, f, q)) = C
      <3>1. PICK a, b, r : a = t[i].seq /\ b = t[j].seq /\ r = d.seq
        OBVIOUS
      <3>2. a \in Nat /\ b \in Nat /\ r \in Nat /\ a <= r /\ b <= r /\ q \in a..(b - 1)
        BY <1>3, <2>3, <2>6, <3>1
      <3>3. q # r /\ a # r /\ q \in a..(r - 1)
        BY <3>2
      <3>4. i \in Places(s, Of(m, f)) /\ t[i] = s[i]
        BY <1>1, <1>2, <2>1, <3>1, <3>3
      <3>5. Number(s, Numbered(m, f, q)) = C
        BY <1>7, <3>1, <3>3, <3>4
      <3> QED BY <2>2, <3>1, <3>3, <3>5
    <2> QED BY <2>4, <2>5, <2>6 DEF Ordered
  <1> QED BY <1>6, <1>7

\* The operators of PubSub that count what was shown.
LEMMA ShownPlaces ==
  ASSUME TypeInv, NEW n \in Node, NEW e \in End(n), NEW m, NEW f
  PROVE  /\ ShownAt(n, e, m, f) = Places(delivered[n][e], Of(m, f))
         /\ \A q : TimesShown(n, e, m, f, q) = Number(delivered[n][e], Numbered(m, f, q))
         /\ \A i \in 1..Len(delivered[n][e]) : delivered[n][e][i] \in Payloads
  <1>1. PICK s : s = delivered[n][e]
    OBVIOUS
  <1>2. s \in Seq(Payloads)
    BY <1>1 DEF TypeInv, NodeTypes
  <1>3. DOMAIN s = 1..Len(s) /\ \A i \in 1..Len(s) : s[i] \in Payloads
    BY <1>2, ElementOfSeq
  <1>4. ShownAt(n, e, m, f) = Places(s, Of(m, f))
    BY <1>1, <1>3 DEF ShownAt, Places, Of
  <1>5. ASSUME NEW q PROVE TimesShown(n, e, m, f, q) = Number(s, Numbered(m, f, q))
    <2>1. {i \in ShownAt(n, e, m, f) : delivered[n][e][i].seq = q} = Places(s, Numbered(m, f, q))
      BY <1>1, <1>3 DEF ShownAt, Places, Numbered
    <2> QED BY <2>1 DEF TimesShown, Number
  <1> QED BY <1>1, <1>3, <1>4, <1>5

AllMade(n, e) == \A i \in 1..Len(delivered[n][e]) : Made(delivered[n][e][i])

InSequence(n, e, m, f) == Ordered(delivered[n][e], m, f, Copies(n, e))

\* The last message shown is one of those shown, and none has a higher number.
LEMMA LastOfShown ==
  ASSUME TypeInv, NEW n \in Node, NEW e \in End(n), ShownSoFar(n, e), AllMade(n, e),
         NEW m \in Node, NEW f \in End(m), InSequence(n, e, m, f),
         ShownAt(n, e, m, f) # {}, NEW last, last = LastShown(<<n, e>>, <<m, f>>)
  PROVE  \E x \in Places(delivered[n][e], Of(m, f)) :
           /\ delivered[n][e][x].seq = last /\ last \in Nat /\ last # 0
           /\ delivered[n][e][x] \in Numbered(m, f, last)
           /\ \A i \in Places(delivered[n][e], Of(m, f)) :
                delivered[n][e][i].seq \in Nat /\ delivered[n][e][i].seq <= last
  <1>1. PICK s : s = delivered[n][e]
    OBVIOUS
  <1>2. /\ ShownAt(n, e, m, f) = Places(s, Of(m, f))
        /\ \A i \in 1..Len(s) : s[i] \in Payloads
        /\ Ordered(s, m, f, Copies(n, e))
    BY <1>1, ShownPlaces DEF InSequence
  <1>3. PICK x \in Places(s, Of(m, f)) : \A y \in Places(s, Of(m, f)) : y <= x
    BY <1>2 DEF ShownSoFar, HasLast
  <1>4. \A i \in Places(s, Of(m, f)) : /\ i \in 1..Len(s) /\ i \in Nat /\ s[i].seq \in Nat
                                         /\ s[i].node = m /\ s[i].end = f
    <2>1. Len(s) \in Nat
      BY <1>1, LenProperties DEF TypeInv, NodeTypes
    <2> QED BY <1>2, <2>1 DEF Places, Of, Payloads, Plain
  <1>5. last = s[x].seq
    BY <1>1, <1>2, <1>3, LastShownIs
  <1>6. last # 0
    <2>1. Made(s[x])
      BY <1>1, <1>4 DEF AllMade
    <2> QED BY <1>4, <1>5, <2>1 DEF Made
  <1>7. ASSUME NEW i \in Places(s, Of(m, f)) PROVE s[i].seq <= last
    <2>1. i < x \/ i = x
      BY <1>3, <1>4
    <2> QED BY <1>2, <1>4, <1>5, <2>1 DEF Ordered
  <1>8. s[x] \in Numbered(m, f, last)
    BY <1>2, <1>4, <1>5 DEF Numbered
  <1> QED BY <1>1, <1>4, <1>5, <1>6, <1>7, <1>8

\* A message that is taken out of the queue and shown is the next one, and only after
\* every copy of the one before it.
LEMMA ShowsInSequence ==
  ASSUME TypeInv, NEW n \in Node, NEW e \in End(n), ShownSoFar(n, e), AllMade(n, e),
         QueueFollows(n, e), NEW m \in Node, NEW f \in End(m), LineOf(n, e, m, f),
         InSequence(n, e, m, f), Tally(n, e, m, f), Shows(n, e)
  PROVE  InSequence(n, e, m, f)'
  <1>1. PICK s, d, C, last : /\ s = delivered[n][e] /\ d = queue[n][e][1]
                             /\ C = Copies(n, e) /\ last = LastShown(<<n, e>>, <<m, f>>)
    OBVIOUS
  <1>2. /\ s \in Seq(Payloads) /\ d \in Payloads /\ C \in Nat /\ Ordered(s, m, f, C)
        /\ delivered'[n][e] = Append(s, d)
    <2>1. s \in Seq(Payloads) /\ delivered'[n][e] = Append(s, d)
      BY <1>1 DEF TypeInv, NodeTypes, Shows
    <2>2. d \in Payloads
      BY <1>1, OneQueued DEF Shows
    <2> QED BY <1>1, <2>1, <2>2, CopiesNat DEF InSequence
  <1>3. ASSUME d \in Of(m, f)
        PROVE  /\ Number(s, Numbered(m, f, d.seq)) + 1 <= C
               /\ \A i \in Places(s, Of(m, f)) :
                    /\ s[i].seq <= d.seq
                    /\ \A q \in s[i].seq..(d.seq - 1) : Number(s, Numbered(m, f, q)) = C
    <2>1. d.node = m /\ d.end = f /\ d.seq \in Nat
      BY <1>3 DEF Of, Payloads, Plain
    <2>2. /\ FollowsLast(n, e, d) /\ (last = 0 \/ d.seq \in {last, last + 1}) /\ d.seq # 0
      <3>1. 1 \in 1..Len(queue[n][e])
        BY DEF Shows
      <3>2. FollowsLast(n, e, d)
        BY <1>1, <1>2, <3>1 DEF QueueFollows
      <3>3. d.seq # 0
        BY <2>1, <3>2 DEF FollowsLast, Made
      <3> QED BY <1>1, <2>1, <3>2, <3>3 DEF FollowsLast
    <2>3. \A q \in Nat : /\ Total(n, e, m, f, q) \in {0, C}
                         /\ Number(s, Numbered(m, f, q)) \in Nat
                         /\ Number(to_node[n], Carrying(m, f, q)) \in Nat
                         /\ Total(n, e, m, f, q) = Number(s, Numbered(m, f, q))
                              + (IF d \in Numbered(m, f, q) THEN 1 ELSE 0)
                              + Number(to_node[n], Carrying(m, f, q))
      <3>1. Ready(n)
        BY DEF Shows, Ready
      <3>2. \A q : Number(queue[n][e], Numbered(m, f, q)) = IF d \in Numbered(m, f, q) THEN 1 ELSE 0
        BY <1>1, OneQueued DEF Shows
      <3> QED BY <1>1, <3>1, <3>2, TotalNat DEF Tally, Total
    <2>4. Number(s, Numbered(m, f, d.seq)) + 1 <= C
      <3>1. d \in Numbered(m, f, d.seq)
        BY <1>2, <2>1 DEF Numbered
      <3>2. PICK r, a, b, t : /\ r = d.seq /\ a = Number(s, Numbered(m, f, r))
                              /\ b = Number(to_node[n], Carrying(m, f, r))
                              /\ t = Total(n, e, m, f, r)
        OBVIOUS
      <3>3. a \in Nat /\ b \in Nat /\ t = a + 1 + b /\ t \in {0, C}
        BY <2>1, <2>3, <3>1, <3>2
      <3>4. a + 1 <= C
        BY <1>2, <3>3
      <3> QED BY <3>2, <3>4
    <2>5. ASSUME NEW i \in Places(s, Of(m, f))
          PROVE  /\ s[i].seq <= d.seq
                 /\ \A q \in s[i].seq..(d.seq - 1) : Number(s, Numbered(m, f, q)) = C
      <3>1. PICK x \in Places(s, Of(m, f)) :
              /\ s[x].seq = last /\ last \in Nat /\ last # 0 /\ s[x] \in Numbered(m, f, last)
              /\ \A y \in Places(s, Of(m, f)) : s[y].seq \in Nat /\ s[y].seq <= last
        <4>1. ShownAt(n, e, m, f) # {}
          BY <1>1, <2>5, ShownPlaces
        <4> QED BY <1>1, <4>1, LastOfShown
      <3>2. PICK a, r : a = s[i].seq /\ r = d.seq
        OBVIOUS
      <3>3. a \in Nat /\ r \in Nat /\ a <= last /\ r \in {last, last + 1} /\ last \in Nat
        BY <2>1, <2>2, <3>1, <3>2
      <3>4. \A q \in a..(last - 1) : Number(s, Numbered(m, f, q)) = C
        BY <1>2, <3>1, <3>2 DEF Ordered
      <3>5. ASSUME r = last + 1 PROVE Number(s, Numbered(m, f, last)) = C
        <4>1. d \notin Numbered(m, f, last)
          <5>1. r # last
            BY <3>3, <3>5
          <5> QED BY <3>2, <5>1 DEF Numbered
        <4>2. Number(to_node[n], Carrying(m, f, last)) = 0
          <5>1. SUFFICES ASSUME NEW y \in 1..Len(to_node[n]), to_node[n][y] \in Carrying(m, f, last)
                         PROVE  FALSE
            <6>1. to_node[n] \in Seq(Downlink)
              BY DEF TypeInv, NodeTypes
            <6> QED BY <5>1, <6>1, NumberNat
          <5>2. Taken(n, e, m, f) = r
            BY <1>1, <2>1, <3>2, TakenIs DEF Shows
          <5>3. InboxSorted(to_node[n], r, m, f)
            BY <5>2 DEF LineOf, Line, Sorted
          <5>4. Passed(to_node[n], r, m, f, 0, r)
            BY <3>3, <3>5 DEF Passed
          <5>5. Passed(to_node[n], r, m, f, y, last)
            BY <3>1, <5>1 DEF Passed, Carrying
          <5>6. y \in Nat /\ 0 < y
            <6>1. Len(to_node[n]) \in Nat
              BY LenProperties DEF TypeInv, NodeTypes
            <6> QED BY <6>1
          <5>7. r <= last
            BY <3>3, <5>3, <5>4, <5>5, <5>6 DEF InboxSorted
          <5> QED BY <3>3, <3>5, <5>7
        <4>3. Number(s, Numbered(m, f, last)) # 0
          <5>1. x \in 1..Len(s)
            BY DEF Places
          <5> QED BY <1>2, <3>1, <5>1, NumberNat
        <4>4. PICK u, t : u = Number(s, Numbered(m, f, last)) /\ t = Total(n, e, m, f, last)
          OBVIOUS
        <4>5. /\ t \in {0, C} /\ u \in Nat /\ u # 0
              /\ t = u + (IF d \in Numbered(m, f, last) THEN 1 ELSE 0)
                       + Number(to_node[n], Carrying(m, f, last))
          BY <2>3, <3>3, <4>3, <4>4
        <4>6. t = u + 0 + 0
          BY <4>1, <4>2, <4>5
        <4> QED BY <4>4, <4>5, <4>6
      <3>6. a <= r
        BY <3>3
      <3>7. ASSUME NEW q \in a..(r - 1) PROVE q \in a..(last - 1) \/ (q = last /\ r = last + 1)
        BY <3>3
      <3> QED BY <3>2, <3>4, <3>5, <3>6, <3>7
    <2> QED BY <2>4, <2>5
  <1>4. PICK t : t = Append(s, d)
    OBVIOUS
  <1>5. Ordered(t, m, f, C)
    BY <1>2, <1>3, <1>4, OrderedNext
  <1>6. Copies(n, e)' = C
    BY <1>1 DEF Copies
  <1> QED BY <1>2, <1>4, <1>5, <1>6 DEF InSequence
-----------------------------------------------------------------------------
(***************************************************************************)
(* An iteration of the broker keeps the tally: a message that it forwards   *)
(* is new to the node and arrives once for each of the node's subscribers.  *)
(***************************************************************************)
LEMMA CopiesListed ==
  ASSUME TypeInv, NEW n \in Node, NEW e \in End(n), AgreeInv(n), Listed(n), Ready(n),
         NEW m, NEW f, SameTopic(n, e, m, f), NEW id, IsTopicOf(id, m, f)
  PROVE  Cardinality(Entries(n, id)) = Copies(n, e)
  <1>1. id \in Nat /\ B!Known(m_topics, id) /\ B!At(m_topics, id).name = Endpoint[n][e].topic
    BY DEF IsTopicOf, SameTopic
  <1>2. Live(n)
    BY DEF Ready, Connected, Live
  <1>3. Reached(n) = LastCall(n) + 1
    <2>1. CASE Connected(n)
      BY <2>1 DEF Connected, AgreeInv, Finished, Reached, Granted
    <2>2. CASE ~Connected(n)
      <3>1. /\ pc[n] = "wait" /\ call[n] = LastCall(n)
            /\ to_node[n] # <<>> /\ RpcSucceeds(Head(to_node[n]))
        BY <2>2 DEF Ready
      <3>2. 1 \in 1..Len(to_node[n]) /\ Head(to_node[n]) = to_node[n][1]
        BY <3>1, FrontOfInbox
      <3> QED BY <3>1, <3>2 DEF Reached, Granted, RpcSucceeds
    <2> QED BY <2>1, <2>2
  <1> QED BY <1>1, <1>2, <1>3, AllAdded DEF Listed

\* A message that the broker has yet to count is nowhere in the node.
LEMMA NoneYet ==
  ASSUME TypeInv, NEW n \in Node, NEW e \in End(n), IsSub(n, e), ServedThisRound(n),
         QueueFollows(n, e), ShownSoFar(n, e), AllMade(n, e), NEW m \in Node, NEW f \in End(m),
         InSequence(n, e, m, f), LineOf(n, e, m, f),
         NEW k \in Nat, NEW r \in Nat, r # 0,
         OnWay(to_broker, m, f, k, r), m_client_counters[m] < k
  PROVE  Total(n, e, m, f, r) = 0
  <1>1. PICK h, last : h = Taken(n, e, m, f) /\ last = LastShown(<<n, e>>, <<m, f>>)
    OBVIOUS
  <1>2. ASSUME NEW i \in Nat, NEW a \in Nat, Passed(to_node[n], h, m, f, i, a) PROVE a < r
    BY <1>1, <1>2 DEF LineOf, Line, Sorted, BrokerSorted, Coming
  <1>3. Number(to_node[n], Carrying(m, f, r)) = 0
    <2>1. to_node[n] \in Seq(Downlink) /\ Len(to_node[n]) \in Nat
      BY LenProperties DEF TypeInv, NodeTypes
    <2>2. ASSUME NEW i \in 1..Len(to_node[n]), to_node[n][i] \in Carrying(m, f, r) PROVE FALSE
      <3>1. i \in Nat
        BY <2>1
      <3>2. Passed(to_node[n], h, m, f, i, r)
        BY <2>2 DEF Passed, Carrying
      <3> QED BY <1>2, <3>1, <3>2
    <2> QED BY <2>1, <2>2, NumberNat
  <1>4. queue[n][e] = <<>> \/ Len(queue[n][e]) = 1
    BY DEF ServedThisRound
  <1>5. Number(queue[n][e], Numbered(m, f, r)) = 0
    <2>1. CASE queue[n][e] = <<>>
      BY <2>1, NumberEmpty
    <2>2. CASE Len(queue[n][e]) = 1
      <3>1. SUFFICES ASSUME queue[n][e][1] \in Numbered(m, f, r) PROVE FALSE
        BY <2>2, OneQueued
      <3>2. h = r
        BY <1>1, <2>2, <3>1, TakenIs DEF Numbered
      <3>3. Passed(to_node[n], h, m, f, 0, r)
        BY <3>2 DEF Passed
      <3> QED BY <1>2, <3>3
    <2> QED BY <1>4, <2>1, <2>2
  <1>6. Number(delivered[n][e], Numbered(m, f, r)) = 0
    <2>1. delivered[n][e] \in Seq(Payloads)
      BY DEF TypeInv, NodeTypes
    <2>2. ASSUME NEW i \in 1..Len(delivered[n][e]), delivered[n][e][i] \in Numbered(m, f, r)
          PROVE  FALSE
      <3>1. i \in Places(delivered[n][e], Of(m, f)) /\ delivered[n][e][i].seq = r
        BY <2>2 DEF Places, Of, Numbered
      <3>2. last \in Nat /\ last # 0 /\ r <= last
        <4>1. ShownAt(n, e, m, f) # {}
          BY <3>1, ShownPlaces
        <4> QED BY <1>1, <3>1, <4>1, LastOfShown
      <3>3. h \in Nat /\ last <= h
        <4>1. CASE h = last
          BY <3>2, <4>1
        <4>2. CASE h # last
          <5>1. Len(queue[n][e]) = 1
            BY <1>1, <1>4, <4>2, TakenIs
          <5>2. PICK d : d = queue[n][e][1]
            OBVIOUS
          <5>3. d.node = m /\ d.end = f /\ h = d.seq
            BY <1>1, <4>2, <5>1, <5>2, TakenIs
          <5>4. d \in Payloads /\ 1 \in 1..Len(queue[n][e])
            BY <5>1, <5>2, OneQueued
          <5>5. FollowsLast(n, e, d)
            BY <5>2, <5>4 DEF QueueFollows
          <5>6. h \in {last, last + 1}
            BY <1>1, <3>2, <5>3, <5>5 DEF FollowsLast
          <5> QED BY <3>2, <5>6
        <4> QED BY <4>1, <4>2
      <3>4. Passed(to_node[n], h, m, f, 0, h)
        BY <3>2, <3>3 DEF Passed
      <3>5. h < r
        BY <1>2, <3>3, <3>4
      <3> QED BY <3>2, <3>3, <3>5
    <2> QED BY <2>1, <2>2, NumberNat
  <1> QED BY <1>3, <1>5, <1>6 DEF Total

\* What arrives at n behind its inbox, and what it makes of n.
LEMMA StaysReady ==
  ASSUME TypeInv, TypeInv', NEW n \in Node, UNCHANGED <<pc, call>>, NEW T,
         Extends(to_node[n], to_node'[n], T), Ready(n)', ~Ready(n)
  PROVE  /\ pc[n] = "wait" /\ to_node[n] = <<>>
         /\ \E p \in T : RpcSucceeds(p)
  <1>1. PICK s, t : s = to_node[n] /\ t = to_node'[n]
    OBVIOUS
  <1>2. s \in Seq(Downlink) /\ t \in Seq(Downlink) /\ Extends(s, t, T)
    BY <1>1 DEF TypeInv, NodeTypes
  <1>3. /\ pc[n] = "wait" /\ call[n] = LastCall(n) /\ t # <<>> /\ RpcSucceeds(Head(t))
    BY <1>1 DEF Ready, Connected, LastCall
  <1>4. Len(t) \in Nat /\ Len(t) # 0 /\ Head(t) = t[1] /\ Len(s) \in Nat
    BY <1>2, <1>3
  <1>5. Len(s) = 0
    <2>1. SUFFICES ASSUME Len(s) # 0 PROVE FALSE
      OBVIOUS
    <2>2. s # <<>> /\ Head(s) = s[1] /\ 1 \in 1..Len(s)
      BY <1>2, <1>4, <2>1
    <2>3. t[1] = s[1]
      BY <1>2, <2>2 DEF Extends
    <2> QED BY <1>1, <1>3, <1>4, <2>2, <2>3 DEF Ready
  <1>6. s = <<>>
    BY <1>2, <1>5
  <1>7. t[1] \in T
    BY <1>2, <1>4, <1>5 DEF Extends
  <1> QED BY <1>1, <1>3, <1>4, <1>6, <1>7

\* Nothing of f's arrives.
LEMMA TallyArrives ==
  ASSUME TypeInv, TypeInv', NEW n \in Node, NEW e \in End(n), IsSub(n, e), ServedThisRound(n),
         ShownSoFar(n, e), NEW m, NEW f, Tally(n, e, m, f),
         UNCHANGED <<pc, call, queue, delivered>>, NEW T, Extends(to_node[n], to_node'[n], T),
         \A p \in T : ~Matches(p, m, f)
  PROVE  Tally(n, e, m, f)'
  <1>1. SUFFICES ASSUME Ready(n)', NEW q \in Nat
                 PROVE  Total(n, e, m, f, q)' \in {0, Copies(n, e)}
    BY DEF Tally, Copies
  <1>2. Number(to_node'[n], Carrying(m, f, q)) = Number(to_node[n], Carrying(m, f, q))
    <2>1. to_node[n] \in Seq(Downlink)
      BY DEF TypeInv, NodeTypes
    <2>2. T \cap Carrying(m, f, q) = {}
      BY DEF Carrying
    <2> QED BY <2>1, <2>2, NumberExtends
  <1>3. Total(n, e, m, f, q)' = Total(n, e, m, f, q)
    BY <1>2 DEF Total
  <1>4. CASE Ready(n)
    BY <1>3, <1>4 DEF Tally
  <1>5. CASE ~Ready(n)
    <2>1. pc[n] = "wait" /\ to_node[n] = <<>>
      BY <1>1, <1>5, StaysReady
    <2>2. queue[n][e] = <<>> /\ delivered[n][e] = <<>>
      BY <2>1 DEF ServedThisRound, ShownSoFar, Connected
    <2>3. Total(n, e, m, f, q) = 0 + 0 + 0
      BY <2>1, <2>2, NumberEmpty DEF Total
    <2> QED BY <1>3, <2>3
  <1> QED BY <1>4, <1>5

LEMMA TallyBroker ==
  ASSUME DownlinkReliable, TypeInv, TypeInv', BrokerInv, NoWrap, UplinkOnTopic, UplinkGenuine,
         NEW n \in Node, NEW e \in End(n), IsSub(n, e), AgreeInv(n), Listed(n), ServedThisRound(n),
         QueueFollows(n, e), ShownSoFar(n, e), AllMade(n, e),
         NEW m \in Node, NEW f \in End(m), SameTopic(n, e, m, f), LineOf(n, e, m, f),
         InSequence(n, e, m, f), Tally(n, e, m, f), BrokerSpin
  PROVE  Tally(n, e, m, f)'
  <1>1. PICK c, p : c = Head(to_broker).from /\ p = Head(to_broker).packet
    OBVIOUS
  <1>2. /\ c \in Node /\ p \in Requests \cup Messages /\ OnTopic(p) /\ Genuine(c, p)
        /\ 1 \in 1..Len(to_broker) /\ to_broker[1].from = c /\ to_broker[1].packet = p
    <2>1. /\ Head(to_broker) = to_broker[1] /\ 1 \in 1..Len(to_broker)
          /\ c \in Node /\ p \in Requests \cup Messages
      BY <1>1, HeadOfUplink DEF BrokerSpin
    <2> QED BY <1>1, <2>1 DEF UplinkOnTopic, UplinkGenuine
  <1>3. UNCHANGED <<pc, call, queue, delivered>>
    BY DEF BrokerSpin, local
  <1>4. CASE Rejects
    BY <1>3, <1>4, TallyArrives DEF Rejects
  <1>5. CASE Responds(c, p)
    <2>1. \A x \in Answers : ~Matches(x, m, f)
      BY PacketFields DEF Matches
    <2> QED BY <1>3, <1>5, <2>1, TallyArrives DEF Responds
  <1>6. CASE Delivers(c, p) /\ ~Matches(p, m, f)
    <2>1. Extends(to_node[n], to_node'[n], {p}) /\ \A x \in {p} : ~Matches(x, m, f)
      BY <1>6 DEF Delivers
    <2> QED BY <1>3, <2>1, TallyArrives
  <1>7. CASE Delivers(c, p) /\ Matches(p, m, f)
    <2>1. PICK r, k : r = p.payload.seq /\ k = p.counter
      OBVIOUS
    <2>2. /\ p \in Messages /\ p \in Downlink /\ p.type = "Data" /\ m = c
          /\ r \in Nat /\ r # 0 /\ k \in 1..m_bp_counter[m] /\ IsTopicOf(p.topic_id, m, f)
      <3>1. p \in Messages /\ p \in Downlink /\ p.type = "Data"
        BY <1>2, <1>7, PacketFields DEF Matches, Downlink
      <3>2. m = c /\ Made(p.payload) /\ IsTopicOf(p.topic_id, m, f) /\ k \in 1..m_bp_counter[m]
        BY <1>2, <1>7, <2>1, <3>1 DEF Genuine, Matches, OnTopic
      <3>3. p.payload \in Payloads
        BY <3>1, PacketFields
      <3>4. r \in Nat
        BY <2>1, <3>3 DEF Payloads, Plain
      <3>5. r # 0
        BY <2>1, <3>2, <3>4 DEF Made
      <3> QED BY <3>1, <3>2, <3>4, <3>5
    <2>3. k \in Nat /\ m_client_counters[m] < k
      <3>1. PICK b, d : b = m_bp_counter[m] /\ d = m_client_counters[m]
        OBVIOUS
      <3>2. /\ d \in BpCounter \cup {-1} /\ b \in Nat /\ b + 1 < CounterMod /\ d <= b
        <4>1. d \in BpCounter \cup {-1}
          BY <3>1 DEF TypeInv, B!TypeOK, B!BpCounter, BpCounter, B!NoCounter
        <4> QED BY <3>1, <4>1 DEF TypeInv, NodeTypes, BpCounter, NoWrap, UplinkGenuine
      <3>3. k \in 1..b
        BY <2>2, <3>1
      <3>4. d = -1 \/ NextCounter(d) = k
        BY <1>7, <2>1, <2>2, <3>1
           DEF Delivers, Accepted, B!Accepts, B!NoCounter, B!NextCounter, NextCounter
      <3>5. CASE d = -1
        BY <3>1, <3>2, <3>3, <3>5
      <3>6. CASE d \in BpCounter
        <4>1. d \in Nat /\ d + 1 < CounterMod
          BY <3>2, <3>6, CounterModAssumption DEF BpCounter
        <4>2. d # -1
          BY <4>1
        <4>3. k = d + 1
          BY <3>4, <3>6, <4>1, <4>2, CounterSteps
        <4> QED BY <3>1, <4>1, <4>3
      <3> QED BY <3>2, <3>5, <3>6
    <2>4. /\ Extends(to_node[n], to_node'[n], {p})
          /\ Len(to_node'[n]) = Len(to_node[n]) + Cardinality(Entries(n, p.topic_id))
      BY <1>7 DEF Delivers
    <2>5. SUFFICES ASSUME Ready(n)', NEW q \in Nat
                   PROVE  Total(n, e, m, f, q)' \in {0, Copies(n, e)}
      BY DEF Tally, Copies
    <2>6. Ready(n)
      <3>1. SUFFICES ASSUME ~Ready(n) PROVE FALSE
        OBVIOUS
      <3>2. UNCHANGED <<pc, call>>
        BY <1>3
      <3>3. \E x \in {p} : RpcSucceeds(x)
        BY <2>4, <2>5, <3>1, <3>2, StaysReady
      <3> QED BY <2>2, <3>3 DEF RpcSucceeds
    <2>7. to_node[n] \in Seq(Downlink) /\ Len(to_node[n]) \in Nat
      BY LenProperties DEF TypeInv, NodeTypes
    <2>8. CASE q # r
      <3>1. {p} \cap Carrying(m, f, q) = {}
        BY <2>1, <2>8 DEF Carrying
      <3>2. Number(to_node'[n], Carrying(m, f, q)) = Number(to_node[n], Carrying(m, f, q))
        BY <2>4, <2>7, <3>1, NumberExtends
      <3>3. Total(n, e, m, f, q)' = Total(n, e, m, f, q)
        BY <1>3, <3>2 DEF Total
      <3> QED BY <2>6, <3>3 DEF Tally
    <2>9. CASE q = r
      <3>1. {p} \subseteq Carrying(m, f, q)
        BY <1>7, <2>1, <2>2, <2>9 DEF Carrying
      <3>2. Number(to_node'[n], Carrying(m, f, q)) =
              Number(to_node[n], Carrying(m, f, q)) + (Len(to_node'[n]) - Len(to_node[n]))
        BY <2>4, <2>7, <3>1, NumberExtends
      <3>3. Total(n, e, m, f, q) = 0
        <4>1. OnWay(to_broker, m, f, k, r)
          BY <1>2, <1>7, <2>1, <2>2 DEF OnWay
        <4> QED BY <2>2, <2>3, <2>9, <4>1, NoneYet
      <3>4. Cardinality(Entries(n, p.topic_id)) = Copies(n, e) /\ Copies(n, e) \in Nat
        BY <2>2, <2>6, CopiesListed, CopiesNat
      <3>5. PICK a, b, x, y, z, C :
              /\ a = Number(delivered[n][e], Numbered(m, f, q))
              /\ b = Number(queue[n][e], Numbered(m, f, q))
              /\ x = Number(to_node[n], Carrying(m, f, q))
              /\ y = Number(to_node'[n], Carrying(m, f, q))
              /\ z = Len(to_node[n]) /\ C = Copies(n, e)
        OBVIOUS
      <3>6. a \in Nat /\ b \in Nat /\ x \in Nat /\ z \in Nat /\ C \in Nat
        BY <2>7, <3>4, <3>5, TotalNat
      <3>7. a + b + x = 0 /\ y = x + ((z + C) - z)
        BY <2>4, <3>2, <3>3, <3>4, <3>5 DEF Total
      <3>8. a + b + y = C
        BY <3>6, <3>7
      <3>9. Total(n, e, m, f, q)' = a + b + y
        BY <1>3, <3>5 DEF Total
      <3> QED BY <3>5, <3>8, <3>9
    <2> QED BY <2>8, <2>9
  <1> QED BY <1>1, <1>4, <1>5, <1>6, <1>7, SpinOutcome
-----------------------------------------------------------------------------
(***************************************************************************)
(* The invariant of what the callbacks were shown.                          *)
(***************************************************************************)
Counts(n, e, m, f) == Tally(n, e, m, f) /\ InSequence(n, e, m, f)

OrderInv ==
  \A n \in Node : \A e \in End(n) :
    /\ IsSub(n, e) \/ delivered[n][e] = <<>>
    /\ AllMade(n, e)
    /\ \A m \in Node : \A f \in End(m) : Pair(n, e, m, f) => Counts(n, e, m, f)

\* Nothing is shown to a publisher.
LEMMA NotShown ==
  ASSUME TypeInv, NEW n \in Node, NodeStep(n), NEW e \in End(n), ~IsSub(n, e)
  PROVE  delivered'[n][e] = delivered[n][e]
  <1>1. CASE \E x \in End(n) : run_callback(n, x)
    <2>1. PICK x \in End(n) : run_callback(n, x)
      BY <1>1
    <2>2. IsSub(n, x) /\ ShowsOne(n, x, Head(queue[n][x]))
      BY <2>1, CallbackShowsOne DEF run_callback, ShowFront
    <2> QED BY <2>2 DEF ShowsOne
  <1>2. CASE ~\E x \in End(n) : run_callback(n, x)
    BY <1>2 DEF NodeStep, connect, send_control, receive_response, SpinReceive, SpinReturn,
                publish, send_data, local
  <1> QED BY <1>1, <1>2

LEMMA AllMadeKept ==
  ASSUME TypeInv, TypeInv', Progress, NEW n \in Node, NEW e \in End(n), AllMade(n, e),
         \/ delivered'[n][e] = delivered[n][e]
         \/ \E d \in Payloads : Made(d) /\ delivered'[n][e] = Append(delivered[n][e], d)
  PROVE  AllMade(n, e)'
  <1>1. PICK s, t : s = delivered[n][e] /\ t = delivered'[n][e]
    OBVIOUS
  <1>2. s \in Seq(Payloads)
    BY <1>1 DEF TypeInv, NodeTypes
  <1>3. ASSUME NEW i \in 1..Len(t) PROVE Made(t[i])
    <2>1. CASE t = s
      BY <1>1, <1>3, <2>1 DEF AllMade
    <2>2. ASSUME NEW d \in Payloads, Made(d), t = Append(s, d) PROVE Made(t[i])
      <3>1. i = Len(s) + 1 \/ i \in 1..Len(s)
        BY <1>2, <1>3, <2>2
      <3>2. CASE i = Len(s) + 1
        <4>1. t[i] = d
          BY <1>2, <2>2, <3>2
        <4> QED BY <2>2, <4>1
      <3>3. CASE i \in 1..Len(s)
        <4>1. t[i] = s[i]
          BY <1>2, <2>2, <3>3
        <4> QED BY <1>1, <3>3, <4>1 DEF AllMade
      <3> QED BY <3>1, <3>2, <3>3
    <2> QED BY <1>1, <2>1, <2>2
  <1>4. ASSUME NEW i \in 1..Len(t) PROVE Made(t[i])'
    <2>1. PICK d : d = t[i]
      OBVIOUS
    <2>2. Made(d)
      BY <1>3, <1>4, <2>1
    <2>3. Made(d)'
      BY <2>2, MadeKept
    <2> QED BY <2>1, <2>3
  <1> QED BY <1>1, <1>4 DEF AllMade, Made

\* What a step of a node does to what its callbacks were shown.
LEMMA ShowsMade ==
  ASSUME TypeInv, NEW n \in Node, NEW e \in End(n), ServedThisRound(n),
         IsSub(n, e) => QueueFollows(n, e), NEW k \in Node, NodeStep(k)
  PROVE  \/ delivered'[n][e] = delivered[n][e]
         \/ /\ IsSub(n, e) /\ Shows(n, e)
            /\ \E d \in Payloads : Made(d) /\ delivered'[n][e] = Append(delivered[n][e], d)
  <1>1. CASE k # n
    <2>1. SameNode(n)
      BY <1>1, NodeFrame DEF TypeInv
    <2> QED BY <2>1 DEF SameNode
  <1>2. CASE k = n /\ ~IsSub(n, e)
    BY <1>2, NotShown
  <1>3. CASE k = n /\ IsSub(n, e)
    <2>1. Undisturbed(n, e) \/ DropsFront(n, e) \/ TakesFront(n, e) \/ Shows(n, e)
      BY <1>3, SubscriberSteps
    <2>2. CASE Shows(n, e)
      <3>1. PICK d : d = queue[n][e][1]
        OBVIOUS
      <3>2. d \in Payloads /\ 1 \in 1..Len(queue[n][e])
        BY <2>2, <3>1, OneQueued DEF Shows
      <3>3. Made(d)
        BY <1>3, <3>1, <3>2 DEF QueueFollows, FollowsLast
      <3> QED BY <1>3, <2>2, <3>1, <3>2, <3>3 DEF Shows
    <2> QED BY <2>1, <2>2 DEF Undisturbed, DropsFront, TakesFront
  <1> QED BY <1>1, <1>2, <1>3

LEMMA SequenceKept ==
  ASSUME NEW n, NEW e, delivered'[n][e] = delivered[n][e], NEW m, NEW f, InSequence(n, e, m, f)
  PROVE  InSequence(n, e, m, f)'
  BY DEF InSequence, Copies

\* A step of a node.
LEMMA OrderNode ==
  ASSUME TypeInv, TypeInv', BrokerInv, NoWrap,
         \A n \in Node : ConnectInv(n) /\ AgreeInv(n) /\ ServedThisRound(n), RouteInv, FeedInv,
         OrderInv, NEW k \in Node, NodeStep(k)
  PROVE  OrderInv'
  <1>1. Progress
    BY SenderProgress DEF FeedInv, AllStocked
  <1>2. SUFFICES ASSUME NEW n \in Node, NEW e \in End(n)
                 PROVE  /\ IsSub(n, e) \/ delivered'[n][e] = <<>>
                        /\ AllMade(n, e)'
                        /\ \A m \in Node : \A f \in End(m) :
                             Pair(n, e, m, f) => Tally(n, e, m, f)' /\ InSequence(n, e, m, f)'
    BY DEF OrderInv, Counts, Pair, SameTopic
  <1>3. /\ ConnectInv(n) /\ AgreeInv(n) /\ ServedThisRound(n) /\ InboxOnTopic(n)
        /\ IsSub(n, e) => QueueFollows(n, e) /\ ShownSoFar(n, e)
        /\ IsSub(n, e) \/ delivered[n][e] = <<>>
        /\ AllMade(n, e)
    BY DEF RouteInv, FeedInv, OrderInv
  <1>4. \/ delivered'[n][e] = delivered[n][e]
        \/ /\ IsSub(n, e) /\ Shows(n, e)
           /\ \E d \in Payloads : Made(d) /\ delivered'[n][e] = Append(delivered[n][e], d)
    BY <1>3, ShowsMade
  <1>5. IsSub(n, e) \/ delivered'[n][e] = <<>>
    BY <1>3, <1>4
  <1>6. AllMade(n, e)'
    BY <1>1, <1>3, <1>4, AllMadeKept
  <1>7. ASSUME NEW m \in Node, NEW f \in End(m), Pair(n, e, m, f)
        PROVE  Tally(n, e, m, f)' /\ InSequence(n, e, m, f)'
    <2>1. /\ IsSub(n, e) /\ SameTopic(n, e, m, f) /\ LineOf(n, e, m, f)
          /\ Tally(n, e, m, f) /\ InSequence(n, e, m, f)
      BY <1>7 DEF Pair, FeedInv, OrderInv, Counts
    <2>2. Tally(n, e, m, f)'
      BY <1>3, <2>1, TallyNode
    <2>3. InSequence(n, e, m, f)'
      <3>1. CASE delivered'[n][e] = delivered[n][e]
        BY <2>1, <3>1, SequenceKept
      <3>2. CASE Shows(n, e)
        BY <1>3, <2>1, <3>2, ShowsInSequence
      <3> QED BY <1>4, <3>1, <3>2
    <2> QED BY <2>2, <2>3
  <1> QED BY <1>5, <1>6, <1>7

LEMMA OrderStep ==
  ASSUME DownlinkReliable, BrokerStays, TypeInv, TypeInv', BrokerInv, NoWrap,
         \A n \in Node : ConnectInv(n) /\ AgreeInv(n) /\ ServedThisRound(n), RouteInv, FeedInv,
         ListInv, OrderInv, [Next]_vars
  PROVE  OrderInv'
  <1>1. ASSUME NEW k \in Node, NodeStep(k) PROVE OrderInv'
    BY <1>1, OrderNode
  <1>2. ASSUME UNCHANGED <<m_bp_counter, queue, published, delivered>>,
               \A n, m \in Node : \A e \in End(n), f \in End(m) :
                 Pair(n, e, m, f) => Tally(n, e, m, f)'
        PROVE  OrderInv'
    <2>1. Progress
      BY <1>2, NobodySends DEF FeedInv, AllStocked
    <2>2. SUFFICES ASSUME NEW n \in Node, NEW e \in End(n)
                   PROVE  /\ IsSub(n, e) \/ delivered'[n][e] = <<>>
                          /\ AllMade(n, e)'
                          /\ \A m \in Node : \A f \in End(m) :
                               Pair(n, e, m, f) => Tally(n, e, m, f)' /\ InSequence(n, e, m, f)'
      BY DEF OrderInv, Counts, Pair, SameTopic
    <2>3. delivered'[n][e] = delivered[n][e]
      BY <1>2
    <2>4. (IsSub(n, e) \/ delivered[n][e] = <<>>) /\ AllMade(n, e)
      BY DEF OrderInv
    <2>5. AllMade(n, e)'
      BY <2>1, <2>3, <2>4, AllMadeKept
    <2>6. ASSUME NEW m \in Node, NEW f \in End(m), Pair(n, e, m, f)
          PROVE  Tally(n, e, m, f)' /\ InSequence(n, e, m, f)'
      <3>1. InSequence(n, e, m, f)
        BY <2>6 DEF OrderInv, Counts
      <3> QED BY <1>2, <2>3, <2>6, <3>1, SequenceKept
    <2> QED BY <2>3, <2>4, <2>5, <2>6
  <1>3. CASE BrokerSpin
    <2>1. UNCHANGED <<m_bp_counter, queue, published, delivered>>
      BY <1>3 DEF BrokerSpin, local
    <2>2. ASSUME NEW n \in Node, NEW m \in Node, NEW e \in End(n), NEW f \in End(m), Pair(n, e, m, f)
          PROVE  Tally(n, e, m, f)'
      <3>1. UplinkOnTopic /\ UplinkGenuine /\ AgreeInv(n) /\ Listed(n) /\ ServedThisRound(n)
        BY DEF RouteInv, FeedInv, ListInv
      <3>2. /\ IsSub(n, e) /\ SameTopic(n, e, m, f) /\ LineOf(n, e, m, f)
            /\ QueueFollows(n, e) /\ ShownSoFar(n, e)
        BY <2>2 DEF Pair, FeedInv
      <3>3. AllMade(n, e) /\ Tally(n, e, m, f) /\ InSequence(n, e, m, f)
        BY <2>2 DEF OrderInv, Counts
      <3> QED BY <1>3, <3>1, <3>2, <3>3, TallyBroker
    <2> QED BY <1>2, <2>1, <2>2
  <1>4. ~BrokerRestart
    BY DEF BrokerRestart, Fault, BrokerStays
  <1>5. CASE UNCHANGED <<pc, m_bp_counter, local, to_node>>
    <2>1. /\ UNCHANGED <<m_bp_counter, queue, published, delivered>>
          /\ UNCHANGED <<pc, call, to_node>>
      BY <1>5 DEF local
    <2>2. ASSUME NEW n \in Node, NEW m \in Node, NEW e \in End(n), NEW f \in End(m), Pair(n, e, m, f)
          PROVE  Tally(n, e, m, f)'
      <3>1. Tally(n, e, m, f)
        BY <2>2 DEF OrderInv, Counts
      <3> QED BY <2>1, <3>1 DEF Tally, Ready, Connected, Total, Copies
    <2> QED BY <1>2, <2>1, <2>2
  <1>6. CASE NetworkFault
    <2>1. UNCHANGED <<pc, m_bp_counter, local, to_node>>
      BY <1>6 DEF NetworkFault, Fault, DownlinkReliable
    <2> QED BY <1>5, <2>1
  <1>7. CASE UNCHANGED vars
    BY <1>5, <1>7 DEF vars, node_vars
  <1> QED BY <1>1, <1>3, <1>4, <1>6, <1>7 DEF Next

LEMMA OrderInit ==
  ASSUME Init
  PROVE  OrderInv
  <1>1. \A n \in Node : /\ pc[n] = "new"
                        /\ \A e \in End(n) : delivered[n][e] = <<>>
    BY DEF Init, NodeInit
  <1>2. Len(<<>>) = 0
    OBVIOUS
  <1>3. \A S : Places(<<>>, S) = {}
    BY <1>2 DEF Places
  <1>4. ASSUME NEW n \in Node, NEW e \in End(n)
        PROVE  AllMade(n, e) /\ \A m, f : Tally(n, e, m, f) /\ InSequence(n, e, m, f)
    BY <1>1, <1>2, <1>3 DEF AllMade, Tally, Ready, Connected, InSequence, Ordered
  <1> QED BY <1>1, <1>4 DEF OrderInv, Counts

(***************************************************************************)
(* The messages of one publisher reach a callback in the order they were    *)
(* published, with no gap between the first and the last, and each exactly  *)
(* as many times as the node has subscribers of the topic (the last shown   *)
(* at most as often), because broker.cpp lists a node once per              *)
(* add_subscriber, forwards a message once per entry, and                   *)
(* process_incoming_message queues every copy for all of them.  This is so  *)
(* for every number of nodes, endpoints, messages and faults, under the     *)
(* conditions of TopicsAreFeeds.                                            *)
(***************************************************************************)
THEOREM MessagesInOrder ==
  ASSUME AnswersNotRepeated, BrokerStays, SendsStrandNobody, DownlinkReliable
  PROVE  Spec /\ []NoWrap => []InOrder
<1> DEFINE Sys == /\ TypeInv /\ BrokerInv /\ RouteInv
                  /\ \A n \in Node : ConnectInv(n) /\ AgreeInv(n) /\ ServedThisRound(n)
<1>1. Spec => []Sys
  <2>1. (\A n \in Node : ConnectInv(n)) /\ (\A n \in Node : AgreeInv(n))
          /\ (\A n \in Node : ServedThisRound(n)) =>
          \A n \in Node : ConnectInv(n) /\ AgreeInv(n) /\ ServedThisRound(n)
    OBVIOUS
  <2> QED BY <2>1, SystemInv, RouteInvariant, ConnectInvariant, AgreeInvariant, ServedInvariant, PTL
<1>2. Init => FeedInv /\ ListInv /\ OrderInv
  BY FeedInit, ListInit, OrderInit
<1>3. Sys /\ Sys' /\ NoWrap /\ FeedInv /\ ListInv /\ OrderInv /\ [Next]_vars
        => FeedInv' /\ ListInv' /\ OrderInv'
  <2> SUFFICES ASSUME Sys, Sys', NoWrap, FeedInv, ListInv, OrderInv, [Next]_vars
               PROVE  FeedInv' /\ ListInv' /\ OrderInv'
    OBVIOUS
  <2>1. UplinkGenuine
    BY DEF FeedInv
  <2>2. FeedInv'
    BY FeedStep
  <2>3. ListInv'
    BY <2>1, ListStep
  <2>4. OrderInv'
    BY OrderStep
  <2> QED BY <2>2, <2>3, <2>4
<1>4. Sys /\ FeedInv /\ OrderInv => InOrder
  <2> SUFFICES ASSUME Sys, FeedInv, OrderInv, NEW n \in Node, NEW m \in Node,
                      NEW e \in End(n), NEW f \in End(m),
                      NEW i \in ShownAt(n, e, m, f), NEW j \in ShownAt(n, e, m, f)
               PROVE  LET d == delivered[n][e]
                      IN  /\ i < j => d[i].seq <= d[j].seq
                          /\ TimesShown(n, e, m, f, d[j].seq) <= Copies(n, e)
                          /\ \A q \in d[i].seq..(d[j].seq - 1) :
                               TimesShown(n, e, m, f, q) = Copies(n, e)
    BY DEF InOrder
  <2>1. /\ ShownAt(n, e, m, f) = Places(delivered[n][e], Of(m, f))
        /\ \A q : TimesShown(n, e, m, f, q) = Number(delivered[n][e], Numbered(m, f, q))
    BY ShownPlaces
  <2>2. /\ i \in 1..Len(delivered[n][e]) /\ delivered[n][e][i].node = m /\ delivered[n][e][i].end = f
    BY <2>1 DEF Places, Of
  <2>3. Pair(n, e, m, f)
    <3>1. IsSub(n, e)
      <4>1. delivered[n][e] # <<>>
        BY <2>2
      <4> QED BY <4>1 DEF OrderInv
    <3>2. IsPub(m, f)
      BY <2>2 DEF OrderInv, AllMade, Made
    <3>3. SameTopic(n, e, m, f)
      BY <2>2 DEF RouteInv, ShownFit
    <3> QED BY <3>1, <3>2, <3>3 DEF Pair
  <2>4. Ordered(delivered[n][e], m, f, Copies(n, e))
    BY <2>3 DEF OrderInv, Counts, InSequence
  <2> QED BY <2>1, <2>4 DEF Ordered
<1> HIDE DEF Sys
<1> QED BY <1>1, <1>2, <1>3, <1>4, PTL DEF Spec
==============================================================================
