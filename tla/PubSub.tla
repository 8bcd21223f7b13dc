------------------------------- MODULE PubSub -------------------------------
(***************************************************************************)
(* The whole system: the nodes of module Node, one broker process running   *)
(* Broker, and the network between them.  The network keeps the order of    *)
(* the packets unless a fault of FaultKind happens; at most MaxFaults do.   *)
(***************************************************************************)
EXTENDS Node

CONSTANTS TypeName, TopicName, MessageSize, TopicPriority, MaxEndpoints

ASSUME RegistryAssumption == TopicPriority \subseteq Int /\ MaxEndpoints \in Nat
ASSUME CreatedAssumption ==
  Endpoint \in [Node -> Seq([role : {"publisher", "subscriber"}, topic : TopicName,
                             type : TypeName, size : MessageSize,
                             priority : TopicPriority])]

VARIABLES m_client_counters, m_nodes, m_message_types, m_topics, run, sent

B == INSTANCE Broker WITH
       Address <- Node, NodeName <- {Name[n] : n \in Node},
       Payload <- [node : Node, end : Nat, seq : Nat], Id <- Nat, RpcId <- BpCounter

broker_vars == <<m_client_counters, m_nodes, m_message_types, m_topics, run, sent>>
vars == <<node_vars, broker_vars>>

Init == NodeInit /\ B!Init
-----------------------------------------------------------------------------
\* What the sends of the broker's last iteration put into n's socket buffer.  They
\* all carry one packet, so that n gets a copy of it for each of its own.
Arrivals(n) ==
  LET mine == {i \in DOMAIN sent' : sent'[i].to = n /\ sent'[i].ok}
  IN  [k \in 1..Cardinality(mine) |-> sent'[1].packet]

Handle(c, p) ==
  \/ B!IgnoreCounter(c, p.counter) /\ NoFault
  \/ B!process_control_request(c, p, TRUE) /\ NoFault
  \/ B!process_control_request(c, p, FALSE) /\ Fault("broker_send")
  \/ B!forward_data(c, p, {}) /\ NoFault
  \/ \E failed \in (SUBSET (1..MaxEndpoints)) \ {{}} :
       /\ B!forward_data(c, p, failed)
       /\ failed \subseteq DOMAIN sent'
       /\ Fault("broker_send")
  \/ B!ignore_data(c, p) /\ NoFault
  \/ B!crash(c, p) /\ NoFault

BrokerSpin ==
  /\ to_broker # <<>>
  /\ Handle(Head(to_broker).from, Head(to_broker).packet)
  /\ to_broker' = Tail(to_broker)
  /\ to_node' = [n \in Node |-> to_node[n] \o Arrivals(n)]
  /\ UNCHANGED <<pc, m_bp_counter, local>>

\* A new broker process: empty registry, empty socket buffer.
BrokerRestart ==
  /\ Fault("restart")
  /\ m_client_counters' = [c \in Node |-> B!NoCounter]
  /\ m_nodes' = <<>> /\ m_message_types' = <<>> /\ m_topics' = <<>>
  /\ run' = "spin" /\ sent' = <<>>
  /\ to_broker' = <<>>
  /\ UNCHANGED <<pc, m_bp_counter, local, to_node>>
-----------------------------------------------------------------------------
(***************************************************************************)
(* Datagrams may be lost, duplicated or overtaken, towards the broker       *)
(* (_up) and towards a node (_down).                                        *)
(***************************************************************************)
NetworkFault ==
  /\ \/ \E i \in 1..Len(to_broker) :
          /\ \/ Fault("lose_up") /\ to_broker' = RemoveAt(to_broker, i)
             \/ Fault("duplicate_up") /\ to_broker' = Append(to_broker, to_broker[i])
             \/ /\ Fault("delay_up") /\ i < Len(to_broker)
                /\ to_broker' = Append(RemoveAt(to_broker, i), to_broker[i])
          /\ UNCHANGED to_node
     \/ \E n \in Node : \E i \in 1..Len(to_node[n]) :
          /\ \/ /\ Fault("lose_down")
                /\ to_node' = [to_node EXCEPT ![n] = RemoveAt(@, i)]
             \/ /\ Fault("duplicate_down")
                /\ to_node' = [to_node EXCEPT ![n] = Append(@, @[i])]
             \/ /\ Fault("delay_down") /\ i < Len(to_node[n])
                /\ to_node' = [to_node EXCEPT ![n] = Append(RemoveAt(@, i), @[i])]
          /\ UNCHANGED to_broker
  /\ UNCHANGED <<pc, m_bp_counter, local, broker_vars>>

Next == \/ \E n \in Node : NodeStep(n) /\ UNCHANGED broker_vars
        \/ BrokerSpin \/ BrokerRestart \/ NetworkFault

Spec == Init /\ [][Next]_vars

(***************************************************************************)
(* Every thread keeps running: the broker's loop, connect() and the spin()  *)
(* loop of every application.  The application need not publish.            *)
(***************************************************************************)
LibraryStep(n) ==
  /\ \/ connect(n) \/ send_control(n) \/ receive_response(n)
     \/ SpinReceive(n) \/ SpinReturn(n)
     \/ \E e \in End(n) : run_callback(n, e) \/ send_data(n, e)
  /\ UNCHANGED broker_vars

FairSpec == /\ Spec
            /\ WF_vars(BrokerSpin)
            /\ \A n \in Node : WF_vars(LibraryStep(n))
-----------------------------------------------------------------------------
Connected(n) == pc[n] \in {"idle", "spin"}

(***************************************************************************)
(* Types, and the bounds of the message queues.                             *)
(***************************************************************************)
TypeOK ==
  /\ B!TypeOK
  /\ pc \in [Node -> {"new", "rpc", "wait", "idle", "spin", "failed", "abort"}]
  /\ m_bp_counter \in [Node -> BpCounter]
  /\ \A n \in Node :
       /\ call[n] \in 1..(LastCall(n) + 1)
       /\ todo[n] \subseteq End(n)
       /\ \A e \in End(n) : Len(queue[n][e]) <= QueueCapacity

(***************************************************************************)
(* What a connected node believes is what the broker has registered: its    *)
(* own node id, and for each endpoint a topic of the name, message type,    *)
(* size and priority it was created with, that lists the node.  Two nodes   *)
(* therefore agree on every identifier they share.                          *)
(***************************************************************************)
EndpointAgrees(n, e) ==
  LET created == Endpoint[n][e]
      mine == ids[n][e]
      topic == B!At(m_topics, mine.topic_id)
      type == B!At(m_message_types, mine.message_type_id)
      members == IF IsPub(n, e) THEN topic.publishers ELSE topic.subscribers
  IN  /\ B!Known(m_topics, mine.topic_id)
      /\ B!Known(m_message_types, mine.message_type_id)
      /\ topic.name = created.topic
      /\ topic.message_type_id = mine.message_type_id
      /\ type = [name |-> created.type, size |-> created.size]
      /\ mine.topic_priority \in {topic.priority} \cup
           (IF IsPub(n, e) THEN {dontcare_topic_priority} ELSE {})
      /\ \E i \in DOMAIN members : members[i] = m_node_id[n]

RegistrationAgrees ==
  \A n \in Node : Connected(n) =>
    /\ B!Known(m_nodes, m_node_id[n])
    /\ B!At(m_nodes, m_node_id[n]) = [name |-> Name[n], address |-> n]
    /\ \A e \in End(n) : EndpointAgrees(n, e)

(***************************************************************************)
(* broker_rpc_blocking takes the next control packet for the answer without *)
(* comparing rpc_id.  That is right as long as the only answer on its way   *)
(* is the one to the request just sent.                                     *)
(***************************************************************************)
AnswersMatch ==
  \A n \in Node : pc[n] = "wait" =>
    \A i \in DOMAIN to_node[n] :
      to_node[n][i].type = "Control" =>
        NextCounter(to_node[n][i].json.rpc_id) = m_bp_counter[n]

(***************************************************************************)
(* A callback is only shown messages of publishers that were created with   *)
(* its topic, message type and size: message buffers are reinterpreted as   *)
(* that type without a check.                                               *)
(***************************************************************************)
SameTopic(n, e, m, f) ==
  \A field \in {"topic", "type", "size"} : Endpoint[n][e][field] = Endpoint[m][f][field]

RoutedRight ==
  \A n \in Node : \A e \in End(n) : \A i \in DOMAIN delivered[n][e] :
    LET m == delivered[n][e][i] IN SameTopic(n, e, m.node, m.end)

(***************************************************************************)
(* spin() does not check who sent a data packet.  All the same, every copy  *)
(* the broker sends is of a message whose publisher it lists under that     *)
(* topic, as created by it, and goes to a node with a subscriber that was   *)
(* created with the same topic, message type and size.                      *)
(***************************************************************************)
Lists(members, n) == \E k \in DOMAIN members : B!At(m_nodes, members[k]).address = n

RightCopy(n, p) ==
  LET m == p.payload.node
      f == p.payload.end
      topic == B!At(m_topics, p.topic_id)
      type == B!At(m_message_types, p.message_type_id)
  IN  /\ topic.name = Endpoint[m][f].topic
      /\ topic.message_type_id = p.message_type_id
      /\ type = [name |-> Endpoint[m][f].type, size |-> Endpoint[m][f].size]
      /\ Lists(topic.publishers, m)
      /\ \E e \in End(n) : IsSub(n, e) /\ SameTopic(n, e, m, f)

ForwardedRight ==
  \A i \in DOMAIN sent :
    sent[i].packet.type = "Data" => RightCopy(sent[i].to, sent[i].packet)

(***************************************************************************)
(* The messages of one publisher reach a callback in the order they were    *)
(* published, with no gap between the first and the last, and each as many  *)
(* times as the node has subscribers of that topic, the last one at most as *)
(* often (the broker sends a message once per subscription and the node     *)
(* queues each copy for all of them).                                       *)
(***************************************************************************)
Copies(n, e) == Cardinality({f \in End(n) : IsSub(n, f) /\ Endpoint[n][f].topic = Endpoint[n][e].topic})

\* The positions of f's messages among those that the callback of e was shown, and
\* how often message q is among them.
ShownAt(n, e, m, f) ==
  {i \in DOMAIN delivered[n][e] : delivered[n][e][i].node = m /\ delivered[n][e][i].end = f}
TimesShown(n, e, m, f, q) ==
  Cardinality({i \in ShownAt(n, e, m, f) : delivered[n][e][i].seq = q})

InOrder ==
  \A n, m \in Node : \A e \in End(n), f \in End(m) :
    LET d == delivered[n][e]
    IN  \A i, j \in ShownAt(n, e, m, f) :
          /\ i < j => d[i].seq <= d[j].seq
          /\ TimesShown(n, e, m, f, d[j].seq) <= Copies(n, e)
          /\ \A q \in d[i].seq..(d[j].seq - 1) : TimesShown(n, e, m, f, q) = Copies(n, e)

(***************************************************************************)
(* The nodes, the broker and the network together implement TopicFeed: the  *)
(* abstract count is what publish() accepted, and what was shown last is    *)
(* read off the callbacks.  A further copy of a message is a stutter.       *)
(***************************************************************************)
Publishers == UNION {{<<m, f>> : f \in {f \in End(m) : IsPub(m, f)}} : m \in Node}
Subscriptions == UNION {{<<n, e>> : e \in {e \in End(n) : IsSub(n, e)}} : n \in Node}

TopicPairs == {q \in Subscriptions \X Publishers :
                 SameTopic(q[1][1], q[1][2], q[2][1], q[2][2])}

LastShown(s, p) ==
  LET at == ShownAt(s[1], s[2], p[1], p[2])
  IN  IF at = {} THEN 0 ELSE delivered[s[1]][s[2]][Max(at)].seq

Feed == INSTANCE TopicFeed WITH
          Publisher <- Publishers, Subscriber <- Subscriptions,
          Follows <- TopicPairs,
          count <- [p \in Publishers |-> published[p[1]][p[2]]],
          shown <- [s \in Subscriptions |-> [p \in Publishers |-> LastShown(s, p)]]

ImplementsFeed == Feed!Spec

(***************************************************************************)
(* A name is used up with the first register_node that reaches the broker:  *)
(* entries are never removed, so when the process that holds the name ends, *)
(* or its connect() fails in a later call, a process started in its place   *)
(* under the same name does not get connected either.                       *)
(***************************************************************************)
HoldsName(m) == \E i \in DOMAIN m_nodes : m_nodes[i] = [name |-> Name[m], address |-> m]

NameIsFinal ==
  [][\A m, n \in Node :
       m # n /\ Name[m] = Name[n] /\ HoldsName(m) => ~Connected(n)']_vars

(***************************************************************************)
(* spin_once() receives at most one packet and then runs one callback per   *)
(* subscriber, so a subscriber's queue never holds two messages and the     *)
(* unchecked queue_message() never drops one.                               *)
(***************************************************************************)
SubscriberKeepsUp ==
  \A n \in Node : \A e \in End(n) : IsSub(n, e) =>
    Len(queue[n][e]) <= IF pc[n] = "spin" THEN 1 ELSE 0

(***************************************************************************)
(* The broker counts every packet of a node and never resynchronises: when  *)
(* the packet it expects next has been used up and is no longer on its way, *)
(* then whatever this node or another one sends, and whatever is lost or    *)
(* repeated, that packet never is on its way again and no later one is      *)
(* accepted.  The gap ends with the broker process or, 2^32 packets later,  *)
(* when the sender's counter comes round.                                   *)
(***************************************************************************)
Wedged(n) ==
  /\ m_client_counters[n] # B!NoCounter
  /\ m_client_counters[n] < m_bp_counter[n]
  /\ \A i \in DOMAIN to_broker :
       to_broker[i].from = n =>
         to_broker[i].packet.counter # NextCounter(m_client_counters[n])

GapIsFinal ==
  [][\A n \in Node : Wedged(n) =>
       \/ Wedged(n)' /\ m_client_counters'[n] = m_client_counters[n]
       \/ m_client_counters'[n] = B!NoCounter
       \/ m_bp_counter'[n] < m_bp_counter[n]]_vars

(***************************************************************************)
(* connect() returns.                                                       *)
(***************************************************************************)
ConnectReturns ==
  \A n \in Node : pc[n] \in {"rpc", "wait"} ~> pc[n] \in {"idle", "failed"}

(***************************************************************************)
(* A message that a connected node publishes after a subscriber connected   *)
(* is eventually shown to that subscriber's callback.                       *)
(***************************************************************************)
Shown(n, e, m, f, k) == \E i \in DOMAIN delivered[n][e] : delivered[n][e][i] = Message(m, f, k)

EventuallyDelivered ==
  \A n, m \in Node : \A e \in End(n), f \in End(m) : \A k \in 1..MaxPublish :
    IsSub(n, e) /\ IsPub(m, f) /\ SameTopic(n, e, m, f) =>
      [](Connected(n) /\ published[m][f] < k =>
           [](Connected(m) /\ published[m][f] >= k => <>Shown(n, e, m, f, k)))

(***************************************************************************)
(* README: "Higher priority topics are always handled before lower priority *)
(* ones in both broker and nodes."  No node sends a message of a publisher  *)
(* while one of a higher priority is queued in it.                          *)
(***************************************************************************)
PriorityRespected ==
  [][\A n \in Node : \A e, f \in End(n) :
       /\ IsPub(n, e) /\ IsPub(n, f)
       /\ Len(queue'[n][e]) < Len(queue[n][e])
       /\ Endpoint[n][f].priority > Endpoint[n][e].priority
       => queue[n][f] = <<>>]_vars

(***************************************************************************)
(* broker.cpp, register_topic: "Cannot register new topic ... of unknown    *)
(* message type".  Every registered topic has a registered message type.    *)
(***************************************************************************)
TopicTypeKnown ==
  \A i \in DOMAIN m_topics : B!Known(m_message_types, m_topics[i].message_type_id)

(***************************************************************************)
(* broker.cpp, spin: "Received data packet with invalid topic ID ...        *)
(* Ignoring packet and continuing."  A data packet never ends the broker.   *)
(***************************************************************************)
InvalidTopicIgnored ==
  [][/\ to_broker # <<>>
     /\ Head(to_broker).packet.type = "Data"
     /\ run = "spin"
     => run' = "spin"]_vars
=============================================================================
