---------------------------- MODULE RoutingProofs ----------------------------
(***************************************************************************)
(* Proofs about the way of a message from publish() to the callbacks.       *)
(* First, that it is shown only to callbacks of its own topic: why the      *)
(* identifiers that the packets carry name the topic that the publisher was *)
(* created with, and why the broker copies only messages of publishers that *)
(* it lists.  Second, that it is shown in its turn: the messages in the     *)
(* publisher's queue, in the broker's socket, in the subscriber's socket    *)
(* and in its queue form one line without a gap, or one that ends for good, *)
(* so that the composition implements TopicFeed.                            *)
(***************************************************************************)
EXTENDS PubSubProofs

\* Topic id of the registry is what endpoint f of m was created with.
IsTopicOf(id, m, f) ==
  LET topic == B!At(m_topics, id)
  IN  /\ id \in Nat /\ B!Known(m_topics, id)
      /\ topic.name = Endpoint[m][f].topic
      /\ topic.message_type_id \in Nat /\ B!Known(m_message_types, topic.message_type_id)
      /\ B!At(m_message_types, topic.message_type_id) =
           [name |-> Endpoint[m][f].type, size |-> Endpoint[m][f].size]

\* A data packet is on the topic of the publisher of its message.
OnTopic(p) == p.type = "Data" => IsTopicOf(p.topic_id, p.payload.node, p.payload.end)

UplinkOnTopic == \A i \in 1..Len(to_broker) : OnTopic(to_broker[i].packet)
InboxOnTopic(n) == \A i \in 1..Len(to_node[n]) : OnTopic(to_node[n][i])

\* The queue of a publisher holds its own messages, that of a subscriber messages of its topic.
Fits(n, e, d) == IF IsPub(n, e) THEN d.node = n /\ d.end = e ELSE SameTopic(n, e, d.node, d.end)
QueuesFit(n) == \A e \in End(n) : \A i \in 1..Len(queue[n][e]) : Fits(n, e, queue[n][e][i])
ShownFit(n) ==
  \A e \in End(n) : \A i \in 1..Len(delivered[n][e]) :
    SameTopic(n, e, delivered[n][e][i].node, delivered[n][e][i].end)

RouteInv == UplinkOnTopic /\ \A n \in Node : InboxOnTopic(n) /\ QueuesFit(n) /\ ShownFit(n)
-----------------------------------------------------------------------------
LEMMA SameTopicId ==
  ASSUME NEW id, NEW n, NEW e, NEW m, NEW f, IsTopicOf(id, n, e), IsTopicOf(id, m, f)
  PROVE  SameTopic(n, e, m, f)
  <1>1. /\ Endpoint[n][e].topic = Endpoint[m][f].topic
        /\ [name |-> Endpoint[n][e].type, size |-> Endpoint[n][e].size]
           = [name |-> Endpoint[m][f].type, size |-> Endpoint[m][f].size]
    BY DEF IsTopicOf
  <1>2. Endpoint[n][e].type = Endpoint[m][f].type /\ Endpoint[n][e].size = Endpoint[m][f].size
    BY <1>1
  <1> QED BY <1>1, <1>2 DEF SameTopic

\* The registry only grows, so a packet stays on its topic while it waits.
LEMMA OnTopicKept ==
  ASSUME Grown, NEW p, OnTopic(p)
  PROVE  OnTopic(p)'
  BY DEF Grown, OnTopic, IsTopicOf

\* A connected node's identifier of an endpoint's topic.
LEMMA ConnectedTopic ==
  ASSUME TypeInv, NEW n \in Node, AgreeInv(n), Connected(n), NEW e \in End(n)
  PROVE  IsTopicOf(ids[n][e].topic_id, n, e)
  <1>1. ids[n][e].topic_id \in Nat /\ ids[n][e].message_type_id \in Nat
    BY DEF TypeInv, NodeTypes, Ids
  <1>2. EndpointAgrees(n, e)
    BY ConnectedAgrees
  <1> QED BY <1>1, <1>2 DEF EndpointAgrees, IsTopicOf

LEMMA InboxKeeps ==
  ASSUME Grown, NEW n, InboxOnTopic(n),
         \A i \in 1..Len(to_node'[n]) :
           \/ \E k \in 1..Len(to_node[n]) : to_node'[n][i] = to_node[n][k]
           \/ OnTopic(to_node'[n][i])
  PROVE  InboxOnTopic(n)'
  <1> SUFFICES ASSUME NEW i \in 1..Len(to_node'[n]) PROVE OnTopic(to_node[n][i])'
    BY DEF InboxOnTopic
  <1>1. PICK p : p = to_node'[n][i]
    OBVIOUS
  <1>2. OnTopic(p)
    BY <1>1 DEF InboxOnTopic
  <1>3. OnTopic(p)'
    BY <1>2, OnTopicKept
  <1> QED BY <1>1, <1>3 DEF OnTopic

LEMMA UplinkKeeps ==
  ASSUME Grown, UplinkOnTopic,
         \A i \in 1..Len(to_broker') :
           \/ \E k \in 1..Len(to_broker) : to_broker'[i] = to_broker[k]
           \/ OnTopic(to_broker'[i].packet)
  PROVE  UplinkOnTopic'
  <1> SUFFICES ASSUME NEW i \in 1..Len(to_broker') PROVE OnTopic(to_broker[i].packet)'
    BY DEF UplinkOnTopic
  <1>1. PICK p : p = to_broker'[i].packet
    OBVIOUS
  <1>2. OnTopic(p)
    BY <1>1 DEF UplinkOnTopic
  <1>3. OnTopic(p)'
    BY <1>2, OnTopicKept
  <1> QED BY <1>1, <1>3 DEF OnTopic
-----------------------------------------------------------------------------
LEMMA InboxOfNode ==
  ASSUME TypeInv, NEW n \in Node, NodeStep(n)
  PROVE  \A i \in 1..Len(to_node'[n]) : \E k \in 1..Len(to_node[n]) : to_node'[n][i] = to_node[n][k]
  <1>1. \/ to_node'[n] = to_node[n]
        \/ to_node[n] # <<>> /\ to_node'[n] = Tail(to_node[n])
    BY DEF NodeStep, connect, send_control, receive_response, SpinReceive, SpinReturn, publish,
           run_callback, ShowFront, send_data, TypeInv, Domains
  <1>2. CASE to_node[n] # <<>> /\ to_node'[n] = Tail(to_node[n])
    <2>1. /\ Len(to_node[n]) \in Nat /\ Len(to_node'[n]) = Len(to_node[n]) - 1
          /\ \A i \in 1..(Len(to_node[n]) - 1) : to_node'[n][i] = to_node[n][i + 1]
      BY <1>2, TailOfQueue DEF TypeInv, NodeTypes
    <2>2. ASSUME NEW i \in 1..Len(to_node'[n])
          PROVE  \E k \in 1..Len(to_node[n]) : to_node'[n][i] = to_node[n][k]
      <3>1. i + 1 \in 1..Len(to_node[n]) /\ to_node'[n][i] = to_node[n][i + 1]
        BY <2>1
      <3> QED BY <3>1
    <2> QED BY <2>2
  <1> QED BY <1>1, <1>2

\* What a node sends is on the topic that the publisher was created with.
LEMMA UplinkOfNode ==
  ASSUME TypeInv, Grown, NEW n \in Node, AgreeInv(n), UplinkOnTopic, QueuesFit(n), NodeStep(n)
  PROVE  UplinkOnTopic'
  <1>1. Domains /\ NodeTypes(n) /\ to_broker \in Seq(Uplink)
    BY DEF TypeInv
  <1>2. NextCounter(m_bp_counter[n]) \in BpCounter
    BY <1>1, Counters DEF NodeTypes
  <1>3. ASSUME NEW u \in Uplink, to_broker' = Append(to_broker, u), OnTopic(u.packet)
        PROVE  UplinkOnTopic'
    <2>1. ASSUME NEW i \in 1..Len(to_broker')
          PROVE  \/ \E k \in 1..Len(to_broker) : to_broker'[i] = to_broker[k]
                 \/ OnTopic(to_broker'[i].packet)
      <3>1. (i \in 1..Len(to_broker) /\ to_broker'[i] = to_broker[i]) \/ to_broker'[i] = u
        BY <1>1, <1>3, AppendedElements
      <3> QED BY <1>3, <3>1
    <2> QED BY <2>1, UplinkKeeps
  <1>4. CASE to_broker' = to_broker
    BY <1>4, UplinkKeeps
  <1>5. CASE SendsRequest(n)
    <2> DEFINE u == [from |-> n, packet |-> ControlPacket(NextCounter(m_bp_counter[n]), Request(n))]
    <2>1. Request(n) \in Asked
      BY <1>5, RequestAsked DEF SendsRequest
    <2>2. u \in Uplink /\ to_broker' = Append(to_broker, u)
      BY <1>2, <1>5, <2>1, PacketsMade DEF SendsRequest
    <2>3. OnTopic(u.packet)
      BY DEF OnTopic, ControlPacket
    <2> QED BY <1>3, <2>2, <2>3
  <1>6. ASSUME NEW e \in End(n), SendsMessage(n, e) PROVE UplinkOnTopic'
    <2> DEFINE d == Head(queue[n][e])
               id == ids[n][e].topic_id
               p == DataPacket(NextCounter(m_bp_counter[n]), id, ids[n][e].message_type_id, d)
               u == [from |-> n, packet |-> p]
    <2>1. queue[n][e] \in Seq(Payloads) /\ queue[n][e] # <<>> /\ IsPub(n, e)
      BY <1>1, <1>6 DEF NodeTypes, SendsMessage
    <2>2. /\ d \in Payloads /\ d = queue[n][e][1] /\ 1 \in 1..Len(queue[n][e])
          /\ id \in Nat /\ ids[n][e].message_type_id \in Nat
      BY <1>1, <2>1, TailOfQueue DEF NodeTypes, Ids
    <2>3. u \in Uplink /\ to_broker' = Append(to_broker, u)
      BY <1>2, <1>6, <2>2, PacketsMade DEF SendsMessage
    <2>4. d.node = n /\ d.end = e
      BY <2>1, <2>2 DEF QueuesFit, Fits
    <2>5. IsTopicOf(id, n, e)
      BY <1>6, ConnectedTopic DEF SendsMessage, Connected
    <2>6. p.topic_id = id /\ p.payload = d
      BY DEF DataPacket
    <2> HIDE DEF d, id, p
    <2>7. OnTopic(u.packet)
      BY <2>4, <2>5, <2>6 DEF OnTopic
    <2> QED BY <1>3, <2>3, <2>7
  <1> QED BY <1>1, <1>4, <1>5, <1>6, NodeSends

\* What a step of n does to its queues: publish() appends a message of the publisher,
\* spin_once() one of the subscriber's topic, and both ends take from the front.
LEMMA QueuesOfNode ==
  ASSUME TypeInv, NEW n \in Node, AgreeInv(n), InboxOnTopic(n), QueuesFit(n), NodeStep(n)
  PROVE  QueuesFit(n)'
  <1>0. Domains /\ NodeTypes(n) /\ \A e \in End(n) : queue[n][e] \in Seq(Payloads)
    BY DEF TypeInv, NodeTypes
  <1>a. ASSUME NEW e \in End(n), queue'[n][e] = queue[n][e]
        PROVE  \A i \in 1..Len(queue'[n][e]) : Fits(n, e, queue'[n][e][i])
    BY <1>a DEF QueuesFit
  <1>b. ASSUME NEW e \in End(n), NEW d \in Payloads, Fits(n, e, d),
               queue'[n][e] = Append(queue[n][e], d)
        PROVE  \A i \in 1..Len(queue'[n][e]) : Fits(n, e, queue'[n][e][i])
    BY <1>0, <1>b, AppendedElements DEF QueuesFit
  <1>c. ASSUME NEW e \in End(n), queue[n][e] # <<>>, queue'[n][e] = Tail(queue[n][e])
        PROVE  \A i \in 1..Len(queue'[n][e]) : Fits(n, e, queue'[n][e][i])
    <2>1. /\ Len(queue[n][e]) \in Nat /\ Len(queue'[n][e]) = Len(queue[n][e]) - 1
          /\ \A i \in 1..(Len(queue[n][e]) - 1) : queue'[n][e][i] = queue[n][e][i + 1]
      BY <1>0, <1>c, TailOfQueue
    <2>2. ASSUME NEW i \in 1..Len(queue'[n][e]) PROVE Fits(n, e, queue'[n][e][i])
      <3>1. i + 1 \in 1..Len(queue[n][e]) /\ queue'[n][e][i] = queue[n][e][i + 1]
        BY <2>1
      <3> QED BY <3>1 DEF QueuesFit
    <2> QED BY <2>2
  <1>d. SUFFICES \A e \in End(n) : \A i \in 1..Len(queue'[n][e]) : Fits(n, e, queue'[n][e][i])
    BY DEF QueuesFit, Fits
  <1>1. CASE queue'[n] = queue[n]
    BY <1>a, <1>1
  <1>2. CASE SpinReceive(n) /\ queue' # queue
    <2> DEFINE p == Head(to_node[n])
    <2>1. /\ to_node[n] # <<>> /\ p.type = "Data" /\ Connected(n)
          /\ queue'[n] = [e \in End(n) |-> IF e \in Subscribers(n, p.topic_id) /\ ~full(n, e)
                                           THEN Append(queue[n][e], p.payload) ELSE queue[n][e]]
      BY <1>0, <1>2 DEF SpinReceive, process_incoming_message, Domains, Connected
    <2>2. p \in Downlink /\ p = to_node[n][1] /\ 1 \in 1..Len(to_node[n])
      BY <1>0, <2>1, TailOfQueue DEF NodeTypes
    <2>3. /\ p.payload \in Payloads
          /\ IsTopicOf(p.topic_id, p.payload.node, p.payload.end)
      BY <2>1, <2>2, PacketFields DEF Downlink, InboxOnTopic, OnTopic
    <2> HIDE DEF p
    <2>4. ASSUME NEW e \in End(n), e \in Subscribers(n, p.topic_id)
          PROVE  Fits(n, e, p.payload)
      <3>1. ids[n][e].topic_id = p.topic_id /\ ~IsPub(n, e)
        BY <2>4 DEF Subscribers, IsSub, IsPub
      <3>2. IsTopicOf(p.topic_id, n, e)
        BY <2>1, <3>1, ConnectedTopic
      <3> QED BY <2>3, <3>1, <3>2, SameTopicId DEF Fits
    <2>5. ASSUME NEW e \in End(n)
          PROVE  \A i \in 1..Len(queue'[n][e]) : Fits(n, e, queue'[n][e][i])
      <3>1. \/ queue'[n][e] = queue[n][e]
            \/ /\ e \in Subscribers(n, p.topic_id)
               /\ queue'[n][e] = Append(queue[n][e], p.payload)
        BY <2>1
      <3> QED BY <1>a, <1>b, <2>3, <2>4, <3>1
    <2> QED BY <2>5
  <1>3. ASSUME NEW e \in End(n), publish(n, e)
        PROVE  \A f \in End(n) : \A i \in 1..Len(queue'[n][f]) : Fits(n, f, queue'[n][f][i])
    <2> DEFINE d == Message(n, e, published[n][e] + 1)
    <2>1. d \in Payloads /\ IsPub(n, e)
      BY <1>0, <1>3, EndsFinite DEF publish, NodeTypes, Message, Payloads, Plain
    <2>2. Fits(n, e, d)
      BY <2>1 DEF Fits, Message
    <2>3. queue'[n] = [queue[n] EXCEPT ![e] = Append(queue[n][e], d)]
      BY <1>0, <1>3 DEF publish, Domains
    <2> HIDE DEF d
    <2>4. queue'[n][e] = Append(queue[n][e], d) /\ \A f \in End(n) : f # e => queue'[n][f] = queue[n][f]
      BY <1>0, <2>3 DEF NodeTypes
    <2> QED BY <1>a, <1>b, <2>1, <2>2, <2>4
  <1>4. ASSUME NEW e \in End(n), run_callback(n, e) \/ send_data(n, e), queue' # queue
        PROVE  \A f \in End(n) : \A i \in 1..Len(queue'[n][f]) : Fits(n, f, queue'[n][f][i])
    <2>1. queue[n][e] # <<>> /\ queue'[n] = [queue[n] EXCEPT ![e] = Tail(queue[n][e])]
      BY <1>0, <1>4 DEF run_callback, ShowFront, send_data, Reaches, Domains
    <2>2. queue'[n][e] = Tail(queue[n][e]) /\ \A f \in End(n) : f # e => queue'[n][f] = queue[n][f]
      BY <1>0, <2>1 DEF NodeTypes
    <2> QED BY <1>a, <1>c, <2>1, <2>2
  <1>5. CASE connect(n) \/ send_control(n) \/ receive_response(n) \/ SpinReturn(n)
    BY <1>1, <1>5 DEF connect, send_control, receive_response, SpinReturn, local
  <1> QED BY <1>1, <1>2, <1>3, <1>4, <1>5 DEF NodeStep

LEMMA ShownByNode ==
  ASSUME TypeInv, NEW n \in Node, QueuesFit(n), ShownFit(n), NodeStep(n)
  PROVE  ShownFit(n)'
  <1>0. Domains /\ NodeTypes(n)
    BY DEF TypeInv
  <1>1. CASE delivered'[n] = delivered[n]
    <2>1. \A e \in End(n) : \A i \in 1..Len(delivered'[n][e]) :
            SameTopic(n, e, delivered'[n][e][i].node, delivered'[n][e][i].end)
      BY <1>1 DEF ShownFit
    <2> QED BY <2>1 DEF ShownFit, SameTopic
  <1>2. ASSUME NEW e \in End(n), run_callback(n, e) PROVE ShownFit(n)'
    <2> DEFINE d == Head(queue[n][e])
    <2>1. /\ queue[n][e] \in Seq(Payloads) /\ queue[n][e] # <<>> /\ IsSub(n, e)
          /\ delivered[n][e] \in Seq(Payloads)
          /\ delivered'[n] = [delivered[n] EXCEPT ![e] = Append(delivered[n][e], d)]
      BY <1>0, <1>2 DEF NodeTypes, run_callback, ShowFront, Reaches, Domains
    <2>2. d \in Payloads /\ d = queue[n][e][1] /\ 1 \in 1..Len(queue[n][e])
      BY <2>1, TailOfQueue
    <2>3. SameTopic(n, e, d.node, d.end)
      BY <2>1, <2>2 DEF QueuesFit, Fits, IsSub, IsPub
    <2> HIDE DEF d
    <2>4. /\ delivered'[n][e] = Append(delivered[n][e], d)
          /\ \A f \in End(n) : f # e => delivered'[n][f] = delivered[n][f]
      BY <1>0, <2>1 DEF NodeTypes
    <2>5. ASSUME NEW f \in End(n), NEW i \in 1..Len(delivered'[n][f])
          PROVE  SameTopic(n, f, delivered'[n][f][i].node, delivered'[n][f][i].end)
      <3>1. CASE f # e
        BY <2>4, <3>1 DEF ShownFit
      <3>2. CASE f = e
        <4>1. \/ i \in 1..Len(delivered[n][e]) /\ delivered'[n][e][i] = delivered[n][e][i]
              \/ delivered'[n][e][i] = d
          BY <2>1, <2>2, <2>4, <3>2, AppendedElements
        <4> QED BY <2>3, <3>2, <4>1 DEF ShownFit
      <3> QED BY <3>1, <3>2
    <2> QED BY <2>5 DEF ShownFit, SameTopic
  <1>3. CASE ~\E e \in End(n) : run_callback(n, e)
    BY <1>1, <1>3 DEF NodeStep, connect, send_control, receive_response, SpinReceive, SpinReturn,
                      publish, send_data, local
  <1> QED BY <1>2, <1>3
-----------------------------------------------------------------------------
\* The broker forwards the packet it took, with the identifiers it came with.
LEMMA InboxOfBroker ==
  ASSUME TypeInv, BrokerInv, Grown, UplinkOnTopic, BrokerSpin, NEW n \in Node, InboxOnTopic(n)
  PROVE  InboxOnTopic(n)'
  <1> DEFINE c == Head(to_broker).from
             p == Head(to_broker).packet
             s == Arrivals(n)
  <1>1. c \in Node /\ p \in Requests \cup Messages /\ BrokerEffect(c, p) /\ OnTopic(p)
    BY HeadOfUplink, BrokerSpinEffect DEF BrokerSpin, UplinkOnTopic
  <1>2. to_node'[n] = to_node[n] \o s /\ to_node[n] \in Seq(Downlink) /\ s \in Seq(Downlink)
    BY ArrivalsTyped DEF BrokerSpin, TypeInv, NodeTypes
  <1> HIDE DEF c, p
  <1>3. \A i \in 1..Len(s) : OnTopic(s[i])
    <2>1. CASE sent' = <<>>
      <3>1. Len(s) = 0
        <4>1. s = <<>>
          BY <2>1, NoArrivals
        <4>2. Len(<<>>) = 0
          OBVIOUS
        <4> QED BY <4>1, <4>2
      <3> QED BY <3>1
    <2>2. CASE p \in Messages /\ Forwards(p)
      <3>1. s \in Seq({p})
        BY <2>2, ForwardsArrive
      <3>2. \A i \in 1..Len(s) : s[i] = p
        BY <3>1, ElementOfSeq
      <3> QED BY <1>1, <3>2
    <2>3. CASE p \in Requests /\ Replies(c, p)
      <3>1. PICK a \in Answered, ok \in BOOLEAN :
              sent' = <<[to |-> c, packet |-> ControlPacket(p.counter, a), ok |-> ok]>>
        BY <2>3 DEF Replies
      <3>2. s \in {<<>>, <<ControlPacket(p.counter, a)>>}
        BY <3>1, ReplyArrives
      <3>3. \A i \in 1..Len(s) : s[i] = ControlPacket(p.counter, a)
        BY <3>2
      <3> QED BY <3>3 DEF OnTopic, ControlPacket
    <2> QED BY <1>1, <2>1, <2>2, <2>3 DEF BrokerEffect
  <1> HIDE DEF s
  <1>4. /\ Len(to_node[n]) \in Nat /\ Len(s) \in Nat /\ Len(to_node'[n]) = Len(to_node[n]) + Len(s)
        /\ \A i \in 1..Len(to_node'[n]) :
             to_node'[n][i] = IF i <= Len(to_node[n]) THEN to_node[n][i]
                              ELSE s[i - Len(to_node[n])]
    BY <1>2, ConcatProperties, LenProperties
  <1>5. ASSUME NEW i \in 1..Len(to_node'[n])
        PROVE  \/ \E k \in 1..Len(to_node[n]) : to_node'[n][i] = to_node[n][k]
               \/ OnTopic(to_node'[n][i])
    <2>1. CASE i <= Len(to_node[n])
      BY <1>4, <2>1
    <2>2. CASE ~(i <= Len(to_node[n]))
      <3>1. i - Len(to_node[n]) \in 1..Len(s)
        BY <1>4, <2>2
      <3> QED BY <1>3, <1>4, <2>2, <3>1
    <2> QED BY <2>1, <2>2
  <1> QED BY <1>5, InboxKeeps

LEMMA RouteStep ==
  ASSUME BrokerStays, TypeInv, BrokerInv, \A n \in Node : AgreeInv(n), RouteInv, [Next]_vars
  PROVE  RouteInv'
  <1>0. Grown /\ UplinkOnTopic
    BY RegistryGrows DEF RouteInv
  <1>a. ASSUME NEW n \in Node PROVE InboxOnTopic(n) /\ QueuesFit(n) /\ ShownFit(n) /\ AgreeInv(n)
    BY DEF RouteInv
  <1>b. ASSUME NEW n \in Node, queue'[n] = queue[n], delivered'[n] = delivered[n]
        PROVE  QueuesFit(n)' /\ ShownFit(n)'
    <2>1. QueuesFit(n) /\ ShownFit(n)
      BY <1>a
    <2>2. QueuesFit(n)'
      BY <1>b, <2>1 DEF QueuesFit, Fits
    <2>3. ShownFit(n)'
      BY <1>b, <2>1 DEF ShownFit
    <2> QED BY <2>2, <2>3
  <1>c. ASSUME NEW n \in Node, to_node'[n] = to_node[n] PROVE InboxOnTopic(n)'
    BY <1>0, <1>a, <1>c, InboxKeeps
  <1>1. ASSUME NEW m \in Node, NodeStep(m), UNCHANGED broker_vars PROVE RouteInv'
    <2>1. UplinkOnTopic'
      <3>1. AgreeInv(m) /\ QueuesFit(m)
        BY <1>a
      <3> QED BY <1>0, <1>1, <3>1, UplinkOfNode
    <2>2. ASSUME NEW n \in Node PROVE InboxOnTopic(n)' /\ QueuesFit(n)' /\ ShownFit(n)'
      <3>1. CASE m = n
        <4>1. InboxOnTopic(n)'
          BY <1>0, <1>a, <1>1, <3>1, InboxOfNode, InboxKeeps
        <4>2. QueuesFit(n)'
          BY <1>a, <1>1, <3>1, QueuesOfNode
        <4>3. ShownFit(n)'
          BY <1>a, <1>1, <3>1, ShownByNode
        <4> QED BY <4>1, <4>2, <4>3
      <3>2. CASE m # n
        <4>1. SameNode(n)
          BY <1>1, <3>2, NodeFrame DEF TypeInv
        <4> QED BY <1>b, <1>c, <4>1 DEF SameNode
      <3> QED BY <3>1, <3>2
    <2> QED BY <2>1, <2>2 DEF RouteInv
  <1>2. CASE BrokerSpin
    <2>1. UplinkOnTopic'
      <3>1. \A n : Uplinked(n)
        BY <1>2, UplinkShifts
      <3>2. \A i \in 1..Len(to_broker') : \E k \in 1..Len(to_broker) : to_broker'[i] = to_broker[k]
        BY <3>1 DEF Uplinked
      <3> QED BY <1>0, <3>2, UplinkKeeps
    <2>2. UNCHANGED <<queue, delivered>>
      BY <1>2 DEF BrokerSpin, local
    <2>3. ASSUME NEW n \in Node PROVE InboxOnTopic(n)' /\ QueuesFit(n)' /\ ShownFit(n)'
      <3>1. InboxOnTopic(n)
        BY <1>a
      <3>2. InboxOnTopic(n)'
        BY <1>0, <1>2, <3>1, InboxOfBroker
      <3> QED BY <1>b, <2>2, <3>2
    <2> QED BY <2>1, <2>3 DEF RouteInv
  <1>3. ~BrokerRestart
    BY DEF BrokerRestart, Fault, BrokerStays
  <1>4. CASE NetworkFault
    <2>1. UNCHANGED <<queue, delivered>>
      BY <1>4, NetworkFaultCases DEF local
    <2>2. UplinkOnTopic'
      <3>1. \A n : Uplinked(n)
        BY <1>4, FaultKeepsUplink
      <3>2. \A i \in 1..Len(to_broker') : \E k \in 1..Len(to_broker) : to_broker'[i] = to_broker[k]
        BY <3>1 DEF Uplinked
      <3> QED BY <1>0, <3>2, UplinkKeeps
    <2>3. ASSUME NEW n \in Node PROVE InboxOnTopic(n)'
      <3>1. CASE to_node'[n] = to_node[n]
        BY <1>c, <3>1
      <3>2. ASSUME NEW m \in Node, NEW i \in 1..Len(to_node[m]), NEW s,
                   Disturbed(to_node[m], s, i), to_node' = [to_node EXCEPT ![m] = s]
            PROVE  InboxOnTopic(n)'
        <4>1. to_node[m] \in Seq(Downlink) /\ DOMAIN to_node = Node
          BY DEF TypeInv, NodeTypes, Domains
        <4>2. \A j \in 1..Len(s) : \E k \in 1..Len(to_node[m]) : s[j] = to_node[m][k]
          BY <3>2, <4>1, DisturbedElements
        <4>3. CASE m = n
          <5>1. to_node'[n] = s
            BY <3>2, <4>1, <4>3
          <5> QED BY <1>0, <1>a, <4>2, <4>3, <5>1, InboxKeeps
        <4>4. CASE m # n
          BY <3>1, <3>2, <4>1, <4>4
        <4> QED BY <4>3, <4>4
      <3> QED BY <1>4, <3>1, <3>2, NetworkFaultCases
    <2> QED BY <1>b, <2>1, <2>2, <2>3 DEF RouteInv
  <1>5. CASE UNCHANGED vars
    <2>1. UNCHANGED <<queue, delivered, to_broker, to_node>>
      BY <1>5 DEF vars, node_vars, local
    <2> QED BY <1>0, <1>b, <1>c, <2>1, UplinkKeeps DEF RouteInv
  <1> QED BY <1>1, <1>2, <1>3, <1>4, <1>5 DEF Next

LEMMA RouteInvariant ==
  ASSUME AnswersNotRepeated, BrokerStays
  PROVE  Spec => []RouteInv
<1>1. Init => RouteInv
  <2> SUFFICES ASSUME Init PROVE RouteInv
    OBVIOUS
  <2>1. /\ to_broker = <<>>
        /\ \A n \in Node : /\ to_node[n] = <<>>
                           /\ \A e \in End(n) : queue[n][e] = <<>> /\ delivered[n][e] = <<>>
    BY DEF Init, NodeInit
  <2>2. Len(<<>>) = 0
    OBVIOUS
  <2> QED BY <2>1, <2>2 DEF RouteInv, UplinkOnTopic, InboxOnTopic, QueuesFit, ShownFit
<1>2. TypeInv /\ BrokerInv /\ (\A n \in Node : AgreeInv(n)) /\ RouteInv /\ [Next]_vars => RouteInv'
  BY RouteStep
<1> QED BY <1>1, <1>2, SystemInv, AgreeInvariant, PTL DEF Spec

(***************************************************************************)
(* A callback is only shown messages of publishers created with its topic,  *)
(* message type and size, although process_incoming_message reinterprets    *)
(* message buffers without a check and packets carry nothing but numbers    *)
(* that the broker made up: for every number of nodes and endpoints, with   *)
(* packets lost, delayed, and repeated on the way to the broker, as long as *)
(* the broker stays up.                                                     *)
(***************************************************************************)
THEOREM MessagesAreRoutedRight ==
  ASSUME AnswersNotRepeated, BrokerStays
  PROVE  Spec => []RoutedRight
<1>1. TypeInv /\ RouteInv => RoutedRight
  <2> SUFFICES ASSUME TypeInv, RouteInv, NEW n \in Node, NEW e \in End(n),
                      NEW i \in DOMAIN delivered[n][e]
               PROVE  SameTopic(n, e, delivered[n][e][i].node, delivered[n][e][i].end)
    BY DEF RoutedRight
  <2>1. i \in 1..Len(delivered[n][e])
    BY LenProperties DEF TypeInv, NodeTypes
  <2> QED BY <2>1 DEF RouteInv, ShownFit
<1> QED BY <1>1, RouteInvariant, SystemInv, PTL
-----------------------------------------------------------------------------
(***************************************************************************)
(* Who gets to send: the registry lists the publisher of every message on   *)
(* its way to the broker, and every subscriber that it lists for a topic    *)
(* was created with that topic.                                             *)
(***************************************************************************)
Publishes(m, id) ==
  /\ id \in Nat /\ B!Known(m_topics, id)
  /\ \E k \in 1..Len(B!At(m_topics, id).publishers) :
       NodeAgrees(m, B!At(m_topics, id).publishers[k])

Subscribes(n, id) == \E e \in End(n) : IsSub(n, e) /\ IsTopicOf(id, n, e)

Entitled(c, p) ==
  /\ p.type = "Data" => Publishes(p.payload.node, p.topic_id)
  /\ p.type = "Control" /\ p.json.op = "add_subscriber" =>
       NodeAgrees(c, p.json.node_id) /\ Subscribes(c, p.json.topic_id)

UplinkEntitled ==
  \A i \in 1..Len(to_broker) : Entitled(to_broker[i].from, to_broker[i].packet)

\* Entry x of the subscribers of topic id.
ServedRight(x, id) == \E n \in Node : NodeAgrees(n, x) /\ Subscribes(n, id)

SubscribersRight ==
  \A id \in Nat : B!Known(m_topics, id) =>
    \A k \in 1..Len(B!At(m_topics, id).subscribers) :
      ServedRight(B!At(m_topics, id).subscribers[k], id)

EntitledInv == UplinkEntitled /\ SubscribersRight

LEMMA EntitledKept ==
  ASSUME Grown, NEW c, NEW p, NEW x, NEW id
  PROVE  /\ Entitled(c, p) => Entitled(c, p)'
         /\ ServedRight(x, id) => ServedRight(x, id)'
  <1>1. \A n, y : NodeAgrees(n, y) => NodeAgrees(n, y)'
    BY DEF Grown, NodeAgrees
  <1>2. \A n, t : Subscribes(n, t) => Subscribes(n, t)'
    BY DEF Grown, Subscribes, IsTopicOf
  <1>3. \A m, t : Publishes(m, t) => Publishes(m, t)'
    <2> SUFFICES ASSUME NEW m, NEW t, Publishes(m, t) PROVE Publishes(m, t)'
      OBVIOUS
    <2>1. PICK k \in 1..Len(B!At(m_topics, t).publishers) :
            NodeAgrees(m, B!At(m_topics, t).publishers[k])
      BY DEF Publishes
    <2>2. /\ B!Known(m_topics', t)
          /\ k \in 1..Len(B!At(m_topics', t).publishers)
          /\ B!At(m_topics', t).publishers[k] = B!At(m_topics, t).publishers[k]
      BY DEF Publishes, Grown, Longer
    <2>3. NodeAgrees(m, B!At(m_topics, t).publishers[k])'
      BY <2>1, <2>2, <1>1 DEF NodeAgrees, Grown
    <2> QED BY <2>2, <2>3 DEF Publishes
  <1> QED BY <1>1, <1>2, <1>3 DEF Entitled, ServedRight

LEMMA UplinkEntitledKept ==
  ASSUME Grown, UplinkEntitled,
         \A i \in 1..Len(to_broker') :
           \/ \E k \in 1..Len(to_broker) : to_broker'[i] = to_broker[k]
           \/ Entitled(to_broker'[i].from, to_broker'[i].packet)
  PROVE  UplinkEntitled'
  <1> SUFFICES ASSUME NEW i \in 1..Len(to_broker')
               PROVE  Entitled(to_broker[i].from, to_broker[i].packet)'
    BY DEF UplinkEntitled
  <1>1. PICK c, p : c = to_broker'[i].from /\ p = to_broker'[i].packet
    OBVIOUS
  <1>2. Entitled(c, p)
    BY <1>1 DEF UplinkEntitled
  <1>3. Entitled(c, p)'
    BY <1>2, EntitledKept
  <1> QED BY <1>1, <1>3 DEF Entitled

\* A node asks to subscribe with the identifiers of its earlier calls, and publishes
\* after it was added.
LEMMA NodeEntitled ==
  ASSUME TypeInv, Grown, NEW n \in Node, AgreeInv(n), QueuesFit(n), UplinkEntitled, NodeStep(n)
  PROVE  UplinkEntitled'
  <1>1. Domains /\ NodeTypes(n) /\ to_broker \in Seq(Uplink)
    BY DEF TypeInv
  <1>2. NextCounter(m_bp_counter[n]) \in BpCounter
    BY <1>1, Counters DEF NodeTypes
  <1>3. ASSUME NEW u \in Uplink, to_broker' = Append(to_broker, u), Entitled(u.from, u.packet)
        PROVE  UplinkEntitled'
    <2>1. ASSUME NEW i \in 1..Len(to_broker')
          PROVE  \/ \E k \in 1..Len(to_broker) : to_broker'[i] = to_broker[k]
                 \/ Entitled(to_broker'[i].from, to_broker'[i].packet)
      <3>1. (i \in 1..Len(to_broker) /\ to_broker'[i] = to_broker[i]) \/ to_broker'[i] = u
        BY <1>1, <1>3, AppendedElements
      <3> QED BY <1>3, <3>1
    <2> QED BY <2>1, UplinkEntitledKept
  <1>4. CASE to_broker' = to_broker
    BY <1>4, UplinkEntitledKept
  <1>5. CASE SendsRequest(n)
    <2> DEFINE r == Request(n)
               p == ControlPacket(NextCounter(m_bp_counter[n]), r)
               u == [from |-> n, packet |-> p]
    <2>1. r \in Asked
      BY <1>5, RequestAsked DEF SendsRequest
    <2>2. u \in Uplink /\ to_broker' = Append(to_broker, u)
      BY <1>2, <1>5, <2>1, PacketsMade DEF SendsRequest
    <2>3. p.type = "Control" /\ p.json = r
      BY DEF ControlPacket
    <2>4. ASSUME r.op = "add_subscriber"
          PROVE  NodeAgrees(n, r.node_id) /\ Subscribes(n, r.topic_id)
      <3>1. PICK e : e = CallEnd(n)
        OBVIOUS
      <3>2. call[n] \in 1..LastCall(n)
        BY <1>1, <1>5, EndsFinite DEF NodeTypes, SendsRequest
      <3>3. CallKind(n) \in {"node", "type", "topic", "endpoint"} /\ Asks(n, r)
        BY <1>5, <3>2, CallEnds, RequestAsks DEF SendsRequest
      <3>4. CallKind(n) = "endpoint"
        BY <2>4, <3>3 DEF Asks
      <3>5. /\ ~IsPub(n, e) /\ r.node_id = m_node_id[n] /\ r.topic_id = ids[n][e].topic_id
        BY <2>4, <3>1, <3>3, <3>4 DEF Asks
      <3>6. e \in End(n) /\ e \in Nat /\ e >= 1 /\ call[n] = 3 * e + 1
        BY <3>1, <3>2, <3>4, CallEnds, EndsFinite DEF End
      <3>7. IsSub(n, e)
        BY <3>5, <3>6, EndsFinite DEF IsSub, IsPub
      <3>8. call[n] > 1 /\ call[n] > 3 * e - 1 /\ call[n] > 3 * e
        BY <3>6
      <3>9. /\ NodeAgrees(n, m_node_id[n])
            /\ TypeAgrees(n, e, ids[n][e].message_type_id)
            /\ TopicAgrees(n, e, ids[n][e].topic_id)
        BY <3>6, <3>8 DEF AgreeInv, AgreesSoFar
      <3>10. IsTopicOf(r.topic_id, n, e)
        BY <3>5, <3>9 DEF IsTopicOf, TypeAgrees, TopicAgrees
      <3> QED BY <3>5, <3>6, <3>7, <3>9, <3>10 DEF Subscribes
    <2> HIDE DEF r, p
    <2>5. Entitled(u.from, u.packet)
      BY <2>3, <2>4 DEF Entitled
    <2> QED BY <1>3, <2>2, <2>5
  <1>6. ASSUME NEW e \in End(n), SendsMessage(n, e) PROVE UplinkEntitled'
    <2> DEFINE d == Head(queue[n][e])
               id == ids[n][e].topic_id
               p == DataPacket(NextCounter(m_bp_counter[n]), id, ids[n][e].message_type_id, d)
               u == [from |-> n, packet |-> p]
    <2>1. queue[n][e] \in Seq(Payloads) /\ queue[n][e] # <<>> /\ IsPub(n, e)
      BY <1>1, <1>6 DEF NodeTypes, SendsMessage
    <2>2. /\ d \in Payloads /\ d = queue[n][e][1] /\ 1 \in 1..Len(queue[n][e])
          /\ id \in Nat /\ ids[n][e].message_type_id \in Nat
      BY <1>1, <2>1, TailOfQueue DEF NodeTypes, Ids
    <2>3. u \in Uplink /\ to_broker' = Append(to_broker, u)
      BY <1>2, <1>6, <2>2, PacketsMade DEF SendsMessage
    <2>4. d.node = n
      BY <2>1, <2>2 DEF QueuesFit, Fits
    <2>5. Publishes(n, id)
      <3>1. Connected(n)
        BY <1>6 DEF SendsMessage, Connected
      <3>2. NodeAgrees(n, m_node_id[n]) /\ call[n] > 3 * e + 1 /\ call[n] > 3 * e
        <4>1. e \in Nat /\ e \in 1..Len(Endpoint[n]) /\ Len(Endpoint[n]) \in Nat
          BY EndsFinite DEF End
        <4>2. call[n] = 3 * Len(Endpoint[n]) + 2
          BY <3>1, <4>1 DEF AgreeInv, Finished, Connected, LastCall
        <4> QED BY <3>1, <4>1, <4>2, ConnectedAgrees
      <3>3. TopicAgrees(n, e, id) /\ IsMember(n, e, id)
        BY <3>2 DEF AgreeInv, AgreesSoFar
      <3> QED BY <2>1, <3>2, <3>3 DEF Publishes, TopicAgrees, IsMember, Members
    <2>6. p.type = "Data" /\ p.topic_id = id /\ p.payload = d
      BY DEF DataPacket
    <2> HIDE DEF d, id, p
    <2>7. Entitled(u.from, u.packet)
      BY <2>4, <2>5, <2>6 DEF Entitled
    <2> QED BY <1>3, <2>3, <2>7
  <1> QED BY <1>1, <1>4, <1>5, <1>6, NodeSends

\* A request adds to a topic's subscribers at most the node that it names.
LEMMA SubscriberAdded ==
  ASSUME TypeInv, NEW c, NEW p \in Requests, NEW ok, B!process_control_request(c, p, ok),
         NEW id \in Nat, B!Known(m_topics', id),
         NEW k \in 1..Len(B!At(m_topics', id).subscribers)
  PROVE  LET x == B!At(m_topics', id).subscribers[k]
         IN  \/ /\ B!Known(m_topics, id)
                /\ \E j \in 1..Len(B!At(m_topics, id).subscribers) :
                     x = B!At(m_topics, id).subscribers[j]
             \/ p.json.op = "add_subscriber" /\ p.json.topic_id = id /\ p.json.node_id = x
  <1>1. PICK r, x : r = p.json /\ x = B!At(m_topics', id).subscribers[k]
    OBVIOUS
  <1>2. /\ r \in Asked
        /\ r.op \in {"register_node", "register_message_type", "register_topic",
                     "add_publisher", "add_subscriber"}
    BY <1>1, PacketFields, AskedFields
  <1>a. r.op \in {"add_publisher", "add_subscriber"} => r.topic_id \in Nat /\ r.node_id \in Nat
    BY <1>2 DEF Asked, RegisterNodeRequest, RegisterMessageTypeRequest, RegisterTopicRequest,
                AddEndpointRequest
  <1>3. /\ m_topics \in Seq(B!Topic) /\ Len(m_topics) \in Nat
        /\ DOMAIN m_topics = 1..Len(m_topics)
    BY LenProperties DEF TypeInv, B!TypeOK
  <1> DEFINE Old == /\ B!Known(m_topics, id)
                    /\ \E j \in 1..Len(B!At(m_topics, id).subscribers) :
                         x = B!At(m_topics, id).subscribers[j]
             New == r.op = "add_subscriber" /\ r.topic_id = id /\ r.node_id = x
  <1>4. SUFFICES Old \/ New
    BY <1>1
  <1>5. CASE m_topics' = m_topics
    BY <1>1, <1>5
  <1>6. ASSUME NEW t, t.subscribers = <<>>, m_topics' = Append(m_topics, t)
        PROVE  Old
    <2>1. Len(m_topics') = Len(m_topics) + 1 /\ m_topics'[Len(m_topics) + 1] = t
          /\ \A i \in 1..Len(m_topics) : m_topics'[i] = m_topics[i]
      <3>1. m_topics \in Seq(B!Topic \cup {t})
        BY <1>3
      <3> QED BY <1>3, <1>6, <3>1, AppendProperties
    <2>2. id + 1 # Len(m_topics) + 1
      <3>1. Len(<<>>) = 0
        OBVIOUS
      <3> QED BY <1>6, <2>1, <3>1 DEF B!At
    <2>3. id + 1 \in 1..Len(m_topics)
      BY <1>3, <2>1, <2>2 DEF B!Known
    <2> QED BY <1>1, <2>1, <2>3 DEF B!Known, B!At
  <1>7. ASSUME r.op \in {"add_publisher", "add_subscriber"}, B!AddEndpoint(c, p.counter, r, ok),
               m_topics' # m_topics
        PROVE  Old \/ New
    <2> DEFINE i == r.topic_id + 1
    <2>1. /\ B!Known(m_topics, r.topic_id)
          /\ \/ /\ r.op = "add_publisher"
                /\ m_topics' = [m_topics EXCEPT ![i].publishers = Append(@, r.node_id)]
             \/ /\ r.op = "add_subscriber"
                /\ m_topics' = [m_topics EXCEPT ![i].subscribers = Append(@, r.node_id)]
      BY <1>7 DEF B!AddEndpoint, B!validate_topic_parameters
    <2>2. i \in 1..Len(m_topics) /\ r.topic_id \in Nat
      BY <1>a, <1>3, <1>7, <2>1 DEF B!Known
    <2>3. DOMAIN m_topics' = 1..Len(m_topics) /\ Len(m_topics') = Len(m_topics)
      BY <1>3, <2>1
    <2>4. id + 1 \in 1..Len(m_topics)
      BY <1>3, <2>3 DEF B!Known
    <2>5. B!Known(m_topics, id)
      BY <1>3, <2>4 DEF B!Known
    <2>6. CASE m_topics'[id + 1].subscribers = m_topics[id + 1].subscribers
      BY <1>1, <2>5, <2>6 DEF B!At
    <2>7. CASE m_topics'[id + 1].subscribers # m_topics[id + 1].subscribers
      <3>1. m_topics[i] \in B!Topic /\ m_topics[id + 1] \in B!Topic
        BY <1>3, <2>2, <2>4, ElementOfSeq
      <3>2. m_topics[i].subscribers \in Seq(Nat)
        BY <3>1 DEF B!Topic
      <3>3. id + 1 = i
        BY <1>3, <2>1, <2>2, <2>4, <2>7
      <3>4. r.op = "add_subscriber"
        <4> SUFFICES ASSUME m_topics' = [m_topics EXCEPT ![i].publishers = Append(@, r.node_id)]
                     PROVE  FALSE
          BY <2>1
        <4>1. m_topics'[i] = [m_topics[i] EXCEPT !.publishers = Append(@, r.node_id)]
          BY <1>3, <2>2
        <4>2. m_topics'[i].subscribers = m_topics[i].subscribers
          BY <3>1, <4>1 DEF B!Topic
        <4> QED BY <2>7, <3>3, <4>2
      <3>5. m_topics'[i].subscribers = Append(m_topics[i].subscribers, r.node_id)
        BY <1>3, <2>1, <2>2, <3>1, <3>4 DEF B!Topic
      <3>6. k \in 1..Len(m_topics'[i].subscribers) /\ x = m_topics'[i].subscribers[k]
        BY <1>1, <3>3 DEF B!At
      <3>7. \/ k \in 1..Len(m_topics[i].subscribers) /\ x = m_topics[i].subscribers[k]
            \/ x = r.node_id
        BY <1>a, <1>7, <3>2, <3>5, <3>6, AppendedElements
      <3>8. id = r.topic_id
        BY <2>2, <3>3
      <3> QED BY <2>5, <3>3, <3>4, <3>7, <3>8 DEF B!At
    <2> QED BY <2>6, <2>7
  <1> HIDE DEF Old, New
  <1>8. CASE r.op \in {"register_node", "register_message_type"}
    <2>1. m_topics' = m_topics
      BY <1>1, <1>8 DEF B!process_control_request, B!register_node, B!register_message_type
    <2> QED BY <1>5, <2>1
  <1>9. CASE r.op = "register_topic"
    <2>1. B!register_topic(c, p.counter, r, ok)
      BY <1>1, <1>9 DEF B!process_control_request
    <2>2. \/ m_topics' = m_topics
          \/ m_topics' = Append(m_topics,
               [name |-> r.name, message_type_id |-> r.message_type_id,
                priority |-> r.priority, publishers |-> <<>>, subscribers |-> <<>>])
      BY <2>1 DEF B!register_topic, B!emplace_back
    <2> QED BY <1>5, <1>6, <2>2
  <1>10. CASE r.op \in {"add_publisher", "add_subscriber"}
    <2>1. B!AddEndpoint(c, p.counter, r, ok)
      BY <1>1, <1>10 DEF B!process_control_request
    <2> QED BY <1>5, <1>7, <1>10, <2>1
  <1> QED BY <1>2, <1>8, <1>9, <1>10

LEMMA BrokerEntitled ==
  ASSUME TypeInv, BrokerInv, Grown, EntitledInv, BrokerSpin
  PROVE  EntitledInv'
  <1>1. UplinkEntitled /\ SubscribersRight
    BY DEF EntitledInv
  <1>2. UplinkEntitled'
    <2>1. \A n : Uplinked(n)
      BY UplinkShifts
    <2>2. \A i \in 1..Len(to_broker') : \E k \in 1..Len(to_broker) : to_broker'[i] = to_broker[k]
      BY <2>1 DEF Uplinked
    <2> QED BY <1>1, <2>2, UplinkEntitledKept
  <1>3. SubscribersRight'
    <2> SUFFICES ASSUME NEW id \in Nat, B!Known(m_topics', id),
                        NEW k \in 1..Len(B!At(m_topics', id).subscribers)
                 PROVE  ServedRight(B!At(m_topics, id).subscribers[k], id)'
      BY DEF SubscribersRight, B!Known, B!At
    <2>1. PICK c, p, x : /\ c = Head(to_broker).from /\ p = Head(to_broker).packet
                         /\ x = B!At(m_topics', id).subscribers[k]
      OBVIOUS
    <2>2. /\ c \in Node /\ p \in Requests \cup Messages /\ BrokerEffect(c, p)
          /\ Entitled(c, p)
      <3>1. to_broker # <<>> /\ BrokerEffect(c, p)
        BY <2>1, BrokerSpinEffect DEF BrokerSpin
      <3>2. c \in Node /\ p \in Requests \cup Messages
        BY <2>1, <3>1, HeadOfUplink
      <3>3. 1 \in 1..Len(to_broker) /\ c = to_broker[1].from /\ p = to_broker[1].packet
        BY <2>1, <3>1, HeadOfUplink
      <3> QED BY <1>1, <3>1, <3>2, <3>3 DEF UplinkEntitled
    <2>3. ServedRight(x, id)
      <3>1. ASSUME B!Known(m_topics, id), NEW j \in 1..Len(B!At(m_topics, id).subscribers),
                   x = B!At(m_topics, id).subscribers[j]
            PROVE  ServedRight(x, id)
        BY <1>1, <3>1 DEF SubscribersRight
      <3>2. CASE m_topics' = m_topics
        BY <2>1, <3>1, <3>2
      <3>3. ASSUME p \in Requests, NEW ok \in BOOLEAN, B!process_control_request(c, p, ok)
            PROVE  ServedRight(x, id)
        <4>1. \/ /\ B!Known(m_topics, id)
                 /\ \E j \in 1..Len(B!At(m_topics, id).subscribers) :
                      x = B!At(m_topics, id).subscribers[j]
              \/ p.json.op = "add_subscriber" /\ p.json.topic_id = id /\ p.json.node_id = x
          BY <2>1, <3>3, SubscriberAdded
        <4>2. CASE p.json.op = "add_subscriber" /\ p.json.topic_id = id /\ p.json.node_id = x
          BY <2>2, <3>3, <4>2, PacketFields DEF Entitled, ServedRight
        <4> QED BY <3>1, <4>1, <4>2
      <3> QED BY <2>2, <3>2, <3>3 DEF BrokerEffect
    <2>4. ServedRight(x, id)'
      BY <2>3, EntitledKept
    <2> QED BY <2>1, <2>4 DEF ServedRight, B!At
  <1> QED BY <1>2, <1>3 DEF EntitledInv

LEMMA SameRegistry ==
  ASSUME UNCHANGED <<m_nodes, m_message_types, m_topics>>, NEW n, NEW p
  PROVE  RightCopy(n, p) => RightCopy(n, p)'
  BY DEF RightCopy, Lists, B!At

\* The copies of a message go to the topic's subscribers, and to them only.
LEMMA ForwardedStep ==
  ASSUME TypeInv, BrokerInv, UplinkOnTopic, EntitledInv, BrokerSpin
  PROVE  ForwardedRight'
  <1>0. PICK c, p : c = Head(to_broker).from /\ p = Head(to_broker).packet
    OBVIOUS
  <1>1. c \in Node /\ p \in Requests \cup Messages /\ OnTopic(p) /\ Entitled(c, p)
    <2>1. to_broker # <<>>
      BY DEF BrokerSpin
    <2>2. /\ c \in Node /\ p \in Requests \cup Messages
          /\ 1 \in 1..Len(to_broker) /\ c = to_broker[1].from /\ p = to_broker[1].packet
      BY <1>0, <2>1, HeadOfUplink
    <2> QED BY <2>2 DEF UplinkOnTopic, EntitledInv, UplinkEntitled
  <1>2. Handle(c, p)
    BY <1>0 DEF BrokerSpin
  <1>3. \/ B!IgnoreCounter(c, p.counter)
        \/ \E ok \in BOOLEAN : B!process_control_request(c, p, ok)
        \/ \E failed : B!forward_data(c, p, failed)
        \/ B!ignore_data(c, p)
        \/ B!crash(c, p)
    BY <1>2, Zenon DEF Handle
  <1>4. CASE sent' = <<>>
    <2>1. DOMAIN sent' = {}
      BY <1>4
    <2> QED BY <2>1 DEF ForwardedRight
  <1>5. CASE B!IgnoreCounter(c, p.counter) \/ B!ignore_data(c, p) \/ B!crash(c, p)
    BY <1>4, <1>5 DEF B!IgnoreCounter, B!ignore_data, B!crash
  <1>6. ASSUME NEW ok \in BOOLEAN, B!process_control_request(c, p, ok)
        PROVE  ForwardedRight'
    <2>1. p \in Requests
      BY <1>1, <1>6, PacketFields DEF B!process_control_request
    <2>2. Replies(c, p)
      BY <1>1, <1>6, <2>1, ControlEffect
    <2>3. PICK a \in Answered, sentok \in BOOLEAN :
            sent' = <<[to |-> c, packet |-> ControlPacket(p.counter, a), ok |-> sentok]>>
      BY <2>2 DEF Replies
    <2>4. \A i \in DOMAIN sent' : sent'[i].packet.type = "Control"
      BY <2>3 DEF ControlPacket
    <2> QED BY <2>4 DEF ForwardedRight
  <1>7. ASSUME NEW failed, B!forward_data(c, p, failed)
        PROVE  ForwardedRight'
    <2> DEFINE id == p.topic_id
               topic == B!At(m_topics, id)
               m == p.payload.node
               f == p.payload.end
    <2>1. /\ p.type = "Data" /\ UNCHANGED <<m_nodes, m_message_types, m_topics>>
          /\ topic.message_type_id = p.message_type_id
          /\ sent' = [i \in 1..Len(topic.subscribers) |->
                        [to |-> B!At(m_nodes, topic.subscribers[i]).address,
                         packet |-> p, ok |-> i \notin failed]]
      BY <1>7 DEF B!forward_data, B!registry, B!Recipients, B!Forwardable
    <2>2. IsTopicOf(id, m, f) /\ Publishes(m, id) /\ id \in Nat /\ B!Known(m_topics, id)
      BY <1>1, <2>1 DEF OnTopic, Entitled, IsTopicOf
    <2>3. /\ topic.name = Endpoint[m][f].topic
          /\ B!At(m_message_types, p.message_type_id) =
               [name |-> Endpoint[m][f].type, size |-> Endpoint[m][f].size]
      BY <2>1, <2>2 DEF IsTopicOf
    <2>4. topic.publishers \in Seq(Nat) /\ topic.subscribers \in Seq(Nat)
      <3>1. id + 1 \in 1..Len(m_topics) /\ m_topics \in Seq(B!Topic)
        BY <2>2, LenProperties DEF B!Known, TypeInv, B!TypeOK
      <3>2. topic \in B!Topic
        BY <3>1, ElementOfSeq DEF B!At
      <3> QED BY <3>2 DEF B!Topic
    <2>5. Lists(topic.publishers, m)
      <3>1. DOMAIN topic.publishers = 1..Len(topic.publishers)
        BY <2>4, LenProperties
      <3> QED BY <2>2, <3>1 DEF Publishes, NodeAgrees, Lists
    <2>6. ASSUME NEW i \in DOMAIN sent'
          PROVE  sent'[i].packet = p /\ RightCopy(sent'[i].to, p)
      <3>1. /\ i \in 1..Len(topic.subscribers) /\ sent'[i].packet = p
            /\ sent'[i].to = B!At(m_nodes, topic.subscribers[i]).address
        BY <2>1
      <3>2. PICK n \in Node : NodeAgrees(n, topic.subscribers[i]) /\ Subscribes(n, id)
        BY <2>2, <3>1 DEF EntitledInv, SubscribersRight, ServedRight
      <3>3. sent'[i].to = n
        BY <3>1, <3>2 DEF NodeAgrees
      <3>4. PICK e \in End(n) : IsSub(n, e) /\ IsTopicOf(id, n, e)
        BY <3>2 DEF Subscribes
      <3>5. SameTopic(n, e, m, f)
        BY <2>2, <3>4, SameTopicId
      <3> QED BY <2>1, <2>3, <2>5, <3>1, <3>3, <3>4, <3>5 DEF RightCopy
    <2>7. \A n : RightCopy(n, p) => RightCopy(n, p)'
      BY <2>1, SameRegistry
    <2>8. \A i \in DOMAIN sent' : RightCopy(sent[i].to, sent[i].packet)'
      BY <2>6, <2>7 DEF RightCopy
    <2> QED BY <2>8 DEF ForwardedRight
  <1> QED BY <1>3, <1>5, <1>6, <1>7

LEMMA EntitledStep ==
  ASSUME BrokerStays, TypeInv, BrokerInv, \A n \in Node : AgreeInv(n), RouteInv,
         EntitledInv, ForwardedRight, [Next]_vars
  PROVE  EntitledInv' /\ ForwardedRight'
  <1>0. Grown /\ UplinkOnTopic /\ UplinkEntitled /\ SubscribersRight
    BY RegistryGrows DEF RouteInv, EntitledInv
  <1>a. ASSUME UNCHANGED broker_vars PROVE SubscribersRight' /\ ForwardedRight'
    <2>1. UNCHANGED <<m_nodes, m_message_types, m_topics, sent>>
      BY <1>a DEF broker_vars
    <2>2. SubscribersRight'
      BY <1>0, <2>1 DEF SubscribersRight, ServedRight, NodeAgrees, Subscribes, IsTopicOf
    <2>3. ForwardedRight'
      <3>1. \A n, p : RightCopy(n, p) => RightCopy(n, p)'
        BY <2>1, SameRegistry
      <3> QED BY <2>1, <3>1 DEF ForwardedRight, RightCopy
    <2> QED BY <2>2, <2>3
  <1>1. ASSUME NEW n \in Node, NodeStep(n), UNCHANGED broker_vars
        PROVE  EntitledInv' /\ ForwardedRight'
    <2>1. AgreeInv(n) /\ QueuesFit(n)
      BY DEF RouteInv
    <2>2. UplinkEntitled'
      BY <1>0, <1>1, <2>1, NodeEntitled
    <2> QED BY <1>a, <1>1, <2>2 DEF EntitledInv
  <1>2. CASE BrokerSpin
    BY <1>0, <1>2, BrokerEntitled, ForwardedStep
  <1>3. ~BrokerRestart
    BY DEF BrokerRestart, Fault, BrokerStays
  <1>4. CASE NetworkFault
    <2>1. \A n : Uplinked(n)
      BY <1>4, FaultKeepsUplink
    <2>2. \A i \in 1..Len(to_broker') : \E k \in 1..Len(to_broker) : to_broker'[i] = to_broker[k]
      BY <2>1 DEF Uplinked
    <2>3. UplinkEntitled'
      BY <1>0, <2>2, UplinkEntitledKept
    <2>4. UNCHANGED broker_vars
      BY <1>4 DEF NetworkFault
    <2> QED BY <1>a, <2>3, <2>4 DEF EntitledInv
  <1>5. CASE UNCHANGED vars
    <2>1. UNCHANGED <<to_broker, broker_vars>>
      BY <1>5 DEF vars, node_vars
    <2>2. UplinkEntitled'
      BY <1>0, <2>1, UplinkEntitledKept
    <2> QED BY <1>a, <2>1, <2>2 DEF EntitledInv
  <1> QED BY <1>1, <1>2, <1>3, <1>4, <1>5 DEF Next

(***************************************************************************)
(* spin() forwards whatever names a known topic and its message type, from  *)
(* whatever address.  Even so, every copy it sends is of a message whose    *)
(* publisher the registry lists under that topic, as the publisher was      *)
(* created, and goes to a node with a subscriber created with the same      *)
(* topic, message type and size: only connect() fills in identifiers, and   *)
(* only with what the broker has agreed to.  Again for every number of      *)
(* nodes and endpoints, as long as the broker stays up and no answer is     *)
(* repeated; another broker process would give the identifiers away anew.   *)
(***************************************************************************)
THEOREM ForwardsAreRight ==
  ASSUME AnswersNotRepeated, BrokerStays
  PROVE  Spec => []ForwardedRight
<1>1. Init => EntitledInv /\ ForwardedRight
  <2> SUFFICES ASSUME Init PROVE EntitledInv /\ ForwardedRight
    OBVIOUS
  <2>1. to_broker = <<>> /\ m_topics = <<>> /\ sent = <<>>
    BY DEF Init, NodeInit, B!Init
  <2>2. Len(<<>>) = 0 /\ DOMAIN <<>> = {}
    OBVIOUS
  <2>3. UplinkEntitled /\ ForwardedRight
    BY <2>1, <2>2 DEF UplinkEntitled, ForwardedRight
  <2>4. SubscribersRight
    BY <2>1, <2>2 DEF SubscribersRight, B!Known
  <2> QED BY <2>3, <2>4 DEF EntitledInv
<1>2. /\ TypeInv /\ BrokerInv /\ (\A n \in Node : AgreeInv(n)) /\ RouteInv
      /\ EntitledInv /\ ForwardedRight /\ [Next]_vars
      => EntitledInv' /\ ForwardedRight'
  BY EntitledStep
<1> QED BY <1>1, <1>2, SystemInv, AgreeInvariant, RouteInvariant, PTL DEF Spec
-----------------------------------------------------------------------------
(***************************************************************************)
(* The way of the messages of publisher f of m to one subscription, from    *)
(* the packet counters to the callback.  The operators are about the        *)
(* channels as values: I is the inbox of the subscribing node, U the        *)
(* broker's socket buffer, c the counter the broker stored for m, b the     *)
(* packet counter of m, s how many messages publisher f has sent, and h the *)
(* number of the last message that left the inbox for the subscription.     *)
(***************************************************************************)
Matches(p, m, f) == p.type = "Data" /\ p.payload.node = m /\ p.payload.end = f

\* Message q is in U, with counter k.
OnWay(U, m, f, k, q) ==
  \E u \in 1..Len(U) : /\ U[u].from = m /\ Matches(U[u].packet, m, f)
                       /\ U[u].packet.counter = k /\ U[u].packet.payload.seq = q

\* The same for the message that m sends next.
Coming(U, b, s, m, f, k, q) == OnWay(U, m, f, k, q) \/ (k = b + 1 /\ q = s + 1)

\* Some packet of m in U has the counter k.
Carried(U, m, k) == \E u \in 1..Len(U) : U[u].from = m /\ U[u].packet.counter = k

\* Between the counters c and k there is message q, or a counter that is lost.
Covered(U, m, f, c, k, q) ==
  \E x \in (c + 1)..(k - 1) : OnWay(U, m, f, x, q) \/ ~Carried(U, m, x)

\* Message q is in the inbox, behind position i and before position j.
Within(I, m, f, i, j, q) ==
  \E x \in (i + 1)..(j - 1) : Matches(I[x], m, f) /\ I[x].payload.seq = q

\* Message a, not 0, left the inbox last (i = 0) or is at position i of it.
Passed(I, h, m, f, i, a) ==
  /\ a # 0
  /\ \/ i = 0 /\ a = h
     \/ i \in 1..Len(I) /\ Matches(I[i], m, f) /\ a = I[i].payload.seq

\* In the uplink a message comes after its predecessor, or a lost counter is before it.
UplinkRuns(U, b, s, m, f) ==
  \A j, p, k, q \in Nat :
    OnWay(U, m, f, j, p) /\ Coming(U, b, s, m, f, k, q) /\ j < k =>
      q = p + 1 \/ Covered(U, m, f, j, k, q - 1)

\* So does a message that the broker has yet to accept, seen from the inbox.
BrokerRuns(I, U, c, b, s, h, m, f) ==
  \A i, a, k, q \in Nat :
    Passed(I, h, m, f, i, a) /\ Coming(U, b, s, m, f, k, q) /\ c < k =>
      \/ q = a + 1 \/ Within(I, m, f, i, Len(I) + 1, q - 1)
      \/ Covered(U, m, f, c, k, q - 1)

\* In the inbox a message comes after itself or its predecessor.
InboxRuns(I, h, m, f) ==
  \A i, a, j \in Nat :
    Passed(I, h, m, f, i, a) /\ i < j /\ j <= Len(I) /\ Matches(I[j], m, f) =>
      \/ I[j].payload.seq \in {a, a + 1}
      \/ Within(I, m, f, i, j, I[j].payload.seq - 1)

\* And no message comes before an earlier one.  What the broker has yet to accept is
\* new, and what it has forwarded comes in order.
UplinkSorted(U, b, s, m, f) ==
  \A j, p, k, q \in Nat :
    OnWay(U, m, f, j, p) /\ Coming(U, b, s, m, f, k, q) /\ j < k => p < q

BrokerSorted(I, U, c, b, s, h, m, f) ==
  \A i, a, k, q \in Nat :
    Passed(I, h, m, f, i, a) /\ Coming(U, b, s, m, f, k, q) /\ c < k => a < q

InboxSorted(I, h, m, f) ==
  \A i, a, j, d \in Nat :
    Passed(I, h, m, f, i, a) /\ Passed(I, h, m, f, j, d) /\ i < j => a <= d

Sorted(I, U, c, b, s, h, m, f) ==
  /\ UplinkSorted(U, b, s, m, f)
  /\ BrokerSorted(I, U, c, b, s, h, m, f)
  /\ InboxSorted(I, h, m, f)

Line(I, U, c, b, s, h, m, f) ==
  /\ Sorted(I, U, c, b, s, h, m, f)
  /\ UplinkRuns(U, b, s, m, f)
  /\ BrokerRuns(I, U, c, b, s, h, m, f)
  /\ InboxRuns(I, h, m, f)
  /\ (\E i, a \in Nat : Passed(I, h, m, f, i, a)) => c \in Nat
-----------------------------------------------------------------------------
\* A covered gap stays covered, also up to a later counter, when the uplink has the
\* same messages there or nothing at all.
LEMMA CoveredKept ==
  ASSUME NEW U, NEW V, NEW m, NEW f, NEW c \in Int, NEW j \in Int, NEW k \in Int, NEW q, j <= k,
         \A x \in Int : x < j /\ OnWay(U, m, f, x, q) /\ Carried(V, m, x) => OnWay(V, m, f, x, q),
         \A x \in Int : x < j /\ Carried(V, m, x) => Carried(U, m, x),
         Covered(U, m, f, c, j, q)
  PROVE  Covered(V, m, f, c, k, q)
  <1>1. PICK x \in (c + 1)..(j - 1) : OnWay(U, m, f, x, q) \/ ~Carried(U, m, x)
    BY DEF Covered
  <1>2. x \in (c + 1)..(k - 1) /\ x \in Int /\ x < j
    OBVIOUS
  <1>3. OnWay(V, m, f, x, q) \/ ~Carried(V, m, x)
    BY <1>1, <1>2
  <1> QED BY <1>2, <1>3 DEF Covered

\* Packets leave the uplink, change places there or are repeated; others' packets come.
LEMMA LineUplink ==
  ASSUME NEW U, NEW V, NEW m, NEW f, NEW I, NEW c \in Int, NEW b, NEW s, NEW h,
         \A k, q : OnWay(V, m, f, k, q) => OnWay(U, m, f, k, q),
         \A k, q : OnWay(U, m, f, k, q) /\ Carried(V, m, k) => OnWay(V, m, f, k, q),
         \A k : Carried(V, m, k) => Carried(U, m, k),
         Line(I, U, c, b, s, h, m, f)
  PROVE  Line(I, V, c, b, s, h, m, f)
  <1>1. ASSUME NEW d \in Int, NEW k \in Nat, NEW q, Covered(U, m, f, d, k, q)
        PROVE  Covered(V, m, f, d, k, q)
    BY <1>1, CoveredKept
  <1>2. \A k, q : Coming(V, b, s, m, f, k, q) => Coming(U, b, s, m, f, k, q)
    BY DEF Coming
  <1>3. UplinkRuns(V, b, s, m, f)
    <2> SUFFICES ASSUME NEW j \in Nat, NEW p \in Nat, NEW k \in Nat, NEW q \in Nat,
                        OnWay(V, m, f, j, p), Coming(V, b, s, m, f, k, q), j < k
                 PROVE  q = p + 1 \/ Covered(V, m, f, j, k, q - 1)
      BY DEF UplinkRuns
    <2>1. q = p + 1 \/ Covered(U, m, f, j, k, q - 1)
      BY <1>2 DEF Line, UplinkRuns
    <2> QED BY <1>1, <2>1
  <1>4. BrokerRuns(I, V, c, b, s, h, m, f)
    <2> SUFFICES ASSUME NEW i \in Nat, NEW a \in Nat, NEW k \in Nat, NEW q \in Nat,
                        Passed(I, h, m, f, i, a), Coming(V, b, s, m, f, k, q), c < k
                 PROVE  \/ q = a + 1 \/ Within(I, m, f, i, Len(I) + 1, q - 1)
                        \/ Covered(V, m, f, c, k, q - 1)
      BY DEF BrokerRuns
    <2>1. \/ q = a + 1 \/ Within(I, m, f, i, Len(I) + 1, q - 1)
          \/ Covered(U, m, f, c, k, q - 1)
      BY <1>2 DEF Line, BrokerRuns
    <2> QED BY <1>1, <2>1
  <1>5. Sorted(I, V, c, b, s, h, m, f)
    BY <1>2 DEF Line, Sorted, UplinkSorted, BrokerSorted, InboxSorted
  <1> QED BY <1>3, <1>4, <1>5 DEF Line

\* m uses up a counter for something else than a message of f, sent or not.
LEMMA LineCounted ==
  ASSUME NEW U, NEW V, NEW m, NEW f, NEW b \in Nat, NEW I, NEW c \in Int, NEW s, NEW h, c <= b,
         \A k, q : OnWay(U, m, f, k, q) <=> OnWay(V, m, f, k, q),
         \A k \in Int : k <= b /\ Carried(V, m, k) => Carried(U, m, k),
         \A k, q : OnWay(U, m, f, k, q) => k <= b,
         Line(I, U, c, b, s, h, m, f)
  PROVE  Line(I, V, c, b + 1, s, h, m, f)
  <1>1. ASSUME NEW d \in Int, NEW j \in Nat, NEW k \in Nat, NEW q, j <= k, j <= b + 1,
               Covered(U, m, f, d, j, q)
        PROVE  Covered(V, m, f, d, k, q)
    <2>1. \A x \in Int : x < j => x <= b
      BY <1>1
    <2>2. j \in Int /\ k \in Int
      BY <1>1
    <2> QED BY <1>1, <2>1, <2>2, CoveredKept
  <1>2. ASSUME NEW k \in Nat, NEW q, Coming(V, b + 1, s, m, f, k, q)
        PROVE  \E j \in Nat : /\ j <= k /\ j <= b + 1 /\ Coming(U, b, s, m, f, j, q)
                              /\ \A i \in Int : i <= b /\ i < k => i < j
    <2>1. CASE OnWay(V, m, f, k, q)
      <3>1. OnWay(U, m, f, k, q) /\ k <= k /\ k <= b + 1
        BY <2>1
      <3> QED BY <3>1 DEF Coming
    <2>2. CASE k = (b + 1) + 1 /\ q = s + 1
      <3>1. b + 1 \in Nat /\ b + 1 <= k /\ \A i \in Int : i <= b => i < b + 1
        BY <2>2
      <3> QED BY <2>2, <3>1 DEF Coming
    <2> QED BY <1>2, <2>1, <2>2 DEF Coming
  <1>3. UplinkRuns(V, b + 1, s, m, f)
    <2> SUFFICES ASSUME NEW i \in Nat, NEW p \in Nat, NEW k \in Nat, NEW q \in Nat,
                        OnWay(V, m, f, i, p), Coming(V, b + 1, s, m, f, k, q), i < k
                 PROVE  q = p + 1 \/ Covered(V, m, f, i, k, q - 1)
      BY DEF UplinkRuns
    <2>1. PICK j \in Nat : /\ j <= k /\ j <= b + 1 /\ Coming(U, b, s, m, f, j, q)
                           /\ \A x \in Int : x <= b /\ x < k => x < j
      BY <1>2
    <2>2. i <= b /\ OnWay(U, m, f, i, p)
      OBVIOUS
    <2>3. i \in Int /\ i < j
      BY <2>1, <2>2
    <2>4. q = p + 1 \/ Covered(U, m, f, i, j, q - 1)
      BY <2>1, <2>2, <2>3 DEF Line, UplinkRuns
    <2> QED BY <1>1, <2>1, <2>3, <2>4
  <1>4. BrokerRuns(I, V, c, b + 1, s, h, m, f)
    <2> SUFFICES ASSUME NEW i \in Nat, NEW a \in Nat, NEW k \in Nat, NEW q \in Nat,
                        Passed(I, h, m, f, i, a), Coming(V, b + 1, s, m, f, k, q), c < k
                 PROVE  \/ q = a + 1 \/ Within(I, m, f, i, Len(I) + 1, q - 1)
                        \/ Covered(V, m, f, c, k, q - 1)
      BY DEF BrokerRuns
    <2>1. PICK j \in Nat : /\ j <= k /\ j <= b + 1 /\ Coming(U, b, s, m, f, j, q)
                           /\ \A x \in Int : x <= b /\ x < k => x < j
      BY <1>2
    <2>2. \/ q = a + 1 \/ Within(I, m, f, i, Len(I) + 1, q - 1)
          \/ Covered(U, m, f, c, j, q - 1)
      BY <2>1 DEF Line, BrokerRuns
    <2> QED BY <1>1, <2>1, <2>2
  <1>5. Sorted(I, V, c, b + 1, s, h, m, f)
    <2>1. UplinkSorted(V, b + 1, s, m, f)
      <3> SUFFICES ASSUME NEW i \in Nat, NEW p \in Nat, NEW k \in Nat, NEW q \in Nat,
                          OnWay(V, m, f, i, p), Coming(V, b + 1, s, m, f, k, q), i < k
                   PROVE  p < q
        BY DEF UplinkSorted
      <3>1. PICK j \in Nat : /\ Coming(U, b, s, m, f, j, q)
                             /\ \A x \in Int : x <= b /\ x < k => x < j
        BY <1>2
      <3>2. i <= b /\ OnWay(U, m, f, i, p) /\ i \in Int
        OBVIOUS
      <3> QED BY <3>1, <3>2 DEF Line, Sorted, UplinkSorted
    <2>2. BrokerSorted(I, V, c, b + 1, s, h, m, f)
      <3> SUFFICES ASSUME NEW i \in Nat, NEW a \in Nat, NEW k \in Nat, NEW q \in Nat,
                          Passed(I, h, m, f, i, a), Coming(V, b + 1, s, m, f, k, q), c < k
                   PROVE  a < q
        BY DEF BrokerSorted
      <3>1. PICK j \in Nat : /\ Coming(U, b, s, m, f, j, q)
                             /\ \A x \in Int : x <= b /\ x < k => x < j
        BY <1>2
      <3> QED BY <3>1 DEF Line, Sorted, BrokerSorted
    <2> QED BY <2>1, <2>2 DEF Line, Sorted
  <1> QED BY <1>3, <1>4, <1>5 DEF Line

\* m sends the next message of f.
LEMMA LineSent ==
  ASSUME NEW U, NEW V, NEW m, NEW f, NEW b \in Nat, NEW I, NEW c \in Int, NEW s \in Nat, NEW h,
         c <= b,
         \A k, q : OnWay(V, m, f, k, q) <=> Coming(U, b, s, m, f, k, q),
         \A k \in Int : k <= b /\ Carried(V, m, k) => Carried(U, m, k),
         \A k, q : OnWay(U, m, f, k, q) => k <= b,
         Line(I, U, c, b, s, h, m, f)
  PROVE  Line(I, V, c, b + 1, s + 1, h, m, f)
  <1>1. ASSUME NEW d \in Int, NEW k \in Nat, NEW q, k <= b + 1, Covered(U, m, f, d, k, q)
        PROVE  Covered(V, m, f, d, k, q)
    <2>1. \A x \in Int : x < k => x <= b
      BY <1>1
    <2>2. k \in Int /\ k <= k
      BY <1>1
    <2>3. \A x \in Int : OnWay(U, m, f, x, q) => OnWay(V, m, f, x, q)
      BY DEF Coming
    <2> QED BY <1>1, <2>1, <2>2, <2>3, CoveredKept
  <1>2. OnWay(V, m, f, b + 1, s + 1)
    BY DEF Coming
  <1>3. ASSUME NEW d \in Int, d <= b PROVE Covered(V, m, f, d, b + 2, s + 1)
    <2>1. b + 1 \in (d + 1)..(b + 2 - 1)
      BY <1>3
    <2> QED BY <1>2, <2>1 DEF Covered
  <1>4. \A k \in Nat : \A q : OnWay(V, m, f, k, q) => k <= b + 1
    BY DEF Coming
  <1>5. UplinkRuns(V, b + 1, s + 1, m, f)
    <2> SUFFICES ASSUME NEW i \in Nat, NEW p \in Nat, NEW k \in Nat, NEW q \in Nat,
                        OnWay(V, m, f, i, p), Coming(V, b + 1, s + 1, m, f, k, q), i < k
                 PROVE  q = p + 1 \/ Covered(V, m, f, i, k, q - 1)
      BY DEF UplinkRuns
    <2>1. CASE OnWay(V, m, f, k, q)
      <3>1. k <= b + 1 /\ i <= b /\ i \in Int
        BY <1>4, <2>1
      <3>2. OnWay(U, m, f, i, p) /\ Coming(U, b, s, m, f, k, q)
        BY <2>1, <3>1 DEF Coming
      <3>3. q = p + 1 \/ Covered(U, m, f, i, k, q - 1)
        BY <3>2 DEF Line, UplinkRuns
      <3> QED BY <1>1, <3>1, <3>3
    <2>2. CASE k = (b + 1) + 1 /\ q = (s + 1) + 1
      <3>1. k = b + 2 /\ q - 1 = s + 1 /\ i \in Int
        BY <2>2
      <3>2. CASE i <= b
        BY <1>3, <3>1, <3>2
      <3>3. CASE ~(i <= b)
        <4>1. ~OnWay(U, m, f, i, p)
          BY <3>3
        <4>2. p = s + 1
          BY <4>1 DEF Coming
        <4> QED BY <2>2, <4>2
      <3> QED BY <3>2, <3>3
    <2> QED BY <2>1, <2>2 DEF Coming
  <1>6. BrokerRuns(I, V, c, b + 1, s + 1, h, m, f)
    <2> SUFFICES ASSUME NEW i \in Nat, NEW a \in Nat, NEW k \in Nat, NEW q \in Nat,
                        Passed(I, h, m, f, i, a), Coming(V, b + 1, s + 1, m, f, k, q), c < k
                 PROVE  \/ q = a + 1 \/ Within(I, m, f, i, Len(I) + 1, q - 1)
                        \/ Covered(V, m, f, c, k, q - 1)
      BY DEF BrokerRuns
    <2>1. CASE OnWay(V, m, f, k, q)
      <3>1. k <= b + 1 /\ Coming(U, b, s, m, f, k, q)
        BY <1>4, <2>1
      <3>2. \/ q = a + 1 \/ Within(I, m, f, i, Len(I) + 1, q - 1)
            \/ Covered(U, m, f, c, k, q - 1)
        BY <3>1 DEF Line, BrokerRuns
      <3> QED BY <1>1, <3>1, <3>2
    <2>2. CASE k = (b + 1) + 1 /\ q = (s + 1) + 1
      <3>1. k = b + 2 /\ q - 1 = s + 1
        BY <2>2
      <3> QED BY <1>3, <3>1
    <2> QED BY <2>1, <2>2 DEF Coming
  <1>7. Coming(U, b, s, m, f, b + 1, s + 1)
    BY DEF Coming
  <1>8. UplinkSorted(V, b + 1, s + 1, m, f)
    <2> SUFFICES ASSUME NEW i \in Nat, NEW p \in Nat, NEW k \in Nat, NEW q \in Nat,
                        OnWay(V, m, f, i, p), Coming(V, b + 1, s + 1, m, f, k, q), i < k
                 PROVE  p < q
      BY DEF UplinkSorted
    <2>1. OnWay(U, m, f, i, p) \/ (i = b + 1 /\ p = s + 1)
      BY DEF Coming
    <2>2. CASE OnWay(V, m, f, k, q)
      <3>1. OnWay(U, m, f, i, p) /\ Coming(U, b, s, m, f, k, q)
        BY <1>4, <2>1, <2>2
      <3> QED BY <3>1 DEF Line, Sorted, UplinkSorted
    <2>3. CASE k = (b + 1) + 1 /\ q = (s + 1) + 1
      <3>1. CASE OnWay(U, m, f, i, p)
        <4>1. i < b + 1 /\ b + 1 \in Nat /\ s + 1 \in Nat
          BY <3>1
        <4>2. p < s + 1
          BY <1>7, <3>1, <4>1 DEF Line, Sorted, UplinkSorted
        <4> QED BY <2>3, <4>2
      <3> QED BY <2>1, <2>3, <3>1
    <2> QED BY <2>2, <2>3 DEF Coming
  <1>9. BrokerSorted(I, V, c, b + 1, s + 1, h, m, f)
    <2> SUFFICES ASSUME NEW i \in Nat, NEW a \in Nat, NEW k \in Nat, NEW q \in Nat,
                        Passed(I, h, m, f, i, a), Coming(V, b + 1, s + 1, m, f, k, q), c < k
                 PROVE  a < q
      BY DEF BrokerSorted
    <2>1. CASE OnWay(V, m, f, k, q)
      BY <2>1 DEF Line, Sorted, BrokerSorted
    <2>2. CASE k = (b + 1) + 1 /\ q = (s + 1) + 1
      <3>1. c < b + 1 /\ b + 1 \in Nat /\ s + 1 \in Nat
        OBVIOUS
      <3>2. a < s + 1
        BY <1>7, <3>1 DEF Line, Sorted, BrokerSorted
      <3> QED BY <2>2, <3>2
    <2> QED BY <2>1, <2>2 DEF Coming
  <1> QED BY <1>5, <1>6, <1>8, <1>9 DEF Line, Sorted

\* The node takes a packet out of its inbox; a message is the last taken then, unless
\* the node drops it because it is not connected and has shown nothing yet (h = 0).
LEMMA LineShift ==
  ASSUME NEW I, NEW J, Len(I) \in Nat, Len(J) \in Nat, Len(I) = Len(J) + 1,
         \A i \in 1..Len(J) : J[i] = I[i + 1],
         NEW U, NEW m, NEW f, NEW c \in Int, NEW b, NEW s, NEW h, NEW g,
         \/ g = 0
         \/ Matches(I[1], m, f) /\ g = I[1].payload.seq
         \/ ~Matches(I[1], m, f) /\ g = h,
         Line(I, U, c, b, s, h, m, f)
  PROVE  Line(J, U, c, b, s, g, m, f)
  <1>1. ASSUME NEW i \in Nat, NEW a, Passed(J, g, m, f, i, a)
        PROVE  \E k \in Nat : /\ Passed(I, h, m, f, k, a)
                              /\ k = i + 1 \/ (k = 0 /\ i = 0 /\ ~Matches(I[1], m, f))
    <2>1. CASE i = 0 /\ a = g /\ Matches(I[1], m, f) /\ g = I[1].payload.seq
      <3>1. 1 \in 1..Len(I) /\ 1 \in Nat /\ a # 0 /\ 1 = i + 1
        BY <1>1, <2>1 DEF Passed
      <3>2. Passed(I, h, m, f, 1, a)
        BY <2>1, <3>1 DEF Passed
      <3> QED BY <3>1, <3>2
    <2>2. CASE i = 0 /\ a = g /\ ~Matches(I[1], m, f) /\ g = h
      <3>1. Passed(I, h, m, f, 0, a)
        BY <1>1, <2>2 DEF Passed
      <3> QED BY <2>2, <3>1
    <2>3. CASE i \in 1..Len(J) /\ Matches(J[i], m, f) /\ a = J[i].payload.seq
      <3>1. i + 1 \in 1..Len(I) /\ J[i] = I[i + 1] /\ i + 1 \in Nat
        BY <2>3
      <3>2. Passed(I, h, m, f, i + 1, a)
        BY <1>1, <2>3, <3>1 DEF Passed
      <3> QED BY <3>1, <3>2
    <2>4. /\ a # 0
          /\ \/ i = 0 /\ a = g
             \/ i \in 1..Len(J) /\ Matches(J[i], m, f) /\ a = J[i].payload.seq
      BY <1>1 DEF Passed
    <2>5. CASE i = 0 /\ a = g
      BY <2>1, <2>2, <2>4, <2>5
    <2> QED BY <2>3, <2>4, <2>5
  <1>2. ASSUME NEW i \in Nat, NEW k \in Nat, k = i + 1 \/ (k = 0 /\ i = 0 /\ ~Matches(I[1], m, f)),
               NEW j \in Nat, j <= Len(J) + 1, NEW q, Within(I, m, f, k, j + 1, q)
        PROVE  Within(J, m, f, i, j, q)
    <2>1. PICK x \in (k + 1)..((j + 1) - 1) : Matches(I[x], m, f) /\ I[x].payload.seq = q
      BY <1>2 DEF Within
    <2>2. x # 1
      BY <1>2, <2>1
    <2>3. /\ x - 1 \in (i + 1)..(j - 1) /\ x - 1 \in 1..Len(J) /\ (x - 1) + 1 = x
      BY <1>2, <2>1, <2>2
    <2>4. J[x - 1] = I[x]
      BY <2>3
    <2> QED BY <2>1, <2>3, <2>4 DEF Within
  <1>3. BrokerRuns(J, U, c, b, s, g, m, f)
    <2> SUFFICES ASSUME NEW i \in Nat, NEW a \in Nat, NEW k \in Nat, NEW q \in Nat,
                        Passed(J, g, m, f, i, a), Coming(U, b, s, m, f, k, q), c < k
                 PROVE  \/ q = a + 1 \/ Within(J, m, f, i, Len(J) + 1, q - 1)
                        \/ Covered(U, m, f, c, k, q - 1)
      BY DEF BrokerRuns
    <2>1. PICK x \in Nat : /\ Passed(I, h, m, f, x, a)
                           /\ x = i + 1 \/ (x = 0 /\ i = 0 /\ ~Matches(I[1], m, f))
      BY <1>1
    <2>2. \/ q = a + 1 \/ Within(I, m, f, x, Len(I) + 1, q - 1)
          \/ Covered(U, m, f, c, k, q - 1)
      BY <2>1 DEF Line, BrokerRuns
    <2>3. Len(J) + 1 \in Nat /\ Len(J) + 1 <= Len(J) + 1 /\ Len(I) + 1 = (Len(J) + 1) + 1
      OBVIOUS
    <2> QED BY <1>2, <2>1, <2>2, <2>3
  <1>4. InboxRuns(J, g, m, f)
    <2> SUFFICES ASSUME NEW i \in Nat, NEW a \in Nat, NEW j \in Nat, Passed(J, g, m, f, i, a),
                        i < j, j <= Len(J), Matches(J[j], m, f)
                 PROVE  \/ J[j].payload.seq \in {a, a + 1}
                        \/ Within(J, m, f, i, j, J[j].payload.seq - 1)
      BY DEF InboxRuns
    <2>1. PICK x \in Nat : /\ Passed(I, h, m, f, x, a)
                           /\ x = i + 1 \/ (x = 0 /\ i = 0 /\ ~Matches(I[1], m, f))
      BY <1>1
    <2>2. j \in 1..Len(J) /\ J[j] = I[j + 1] /\ x < j + 1 /\ j + 1 <= Len(I) /\ j + 1 \in Nat
      BY <2>1
    <2>3. \/ I[j + 1].payload.seq \in {a, a + 1}
          \/ Within(I, m, f, x, j + 1, I[j + 1].payload.seq - 1)
      BY <2>1, <2>2 DEF Line, InboxRuns
    <2>4. j <= Len(J) + 1
      OBVIOUS
    <2> QED BY <1>2, <2>1, <2>2, <2>3, <2>4
  <1>5. (\E i, a \in Nat : Passed(J, g, m, f, i, a)) => c \in Nat
    BY <1>1 DEF Line
  <1>6. BrokerSorted(J, U, c, b, s, g, m, f)
    BY <1>1 DEF Line, Sorted, BrokerSorted
  <1>7. InboxSorted(J, g, m, f)
    <2> SUFFICES ASSUME NEW i \in Nat, NEW a \in Nat, NEW j \in Nat, NEW d \in Nat,
                        Passed(J, g, m, f, i, a), Passed(J, g, m, f, j, d), i < j
                 PROVE  a <= d
      BY DEF InboxSorted
    <2>1. PICK x \in Nat : Passed(I, h, m, f, x, a) /\ (x = i + 1 \/ (x = 0 /\ i = 0))
      BY <1>1
    <2>2. PICK y \in Nat : Passed(I, h, m, f, y, d) /\ (y = j + 1 \/ (y = 0 /\ j = 0))
      BY <1>1
    <2>3. x < y
      BY <2>1, <2>2
    <2> QED BY <2>1, <2>2, <2>3 DEF Line, Sorted, InboxSorted
  <1> QED BY <1>3, <1>4, <1>5, <1>6, <1>7 DEF Line, Sorted

\* Packets that are no messages of f arrive.
LEMMA LineArrives ==
  ASSUME NEW I, NEW J, Len(I) \in Nat, Len(J) \in Nat, Len(I) <= Len(J),
         \A i \in 1..Len(I) : J[i] = I[i],
         NEW U, NEW m, NEW f, NEW c \in Int, NEW b, NEW s, NEW h,
         \A i \in (Len(I) + 1)..Len(J) : ~Matches(J[i], m, f),
         Line(I, U, c, b, s, h, m, f)
  PROVE  Line(J, U, c, b, s, h, m, f)
  <1>1. ASSUME NEW j \in 1..Len(J), Matches(J[j], m, f) PROVE j \in 1..Len(I) /\ J[j] = I[j]
    <2>1. ~(j \in (Len(I) + 1)..Len(J))
      BY <1>1
    <2>2. j \in 1..Len(I)
      BY <2>1
    <2> QED BY <2>2
  <1>2. ASSUME NEW i, NEW a, Passed(J, h, m, f, i, a) PROVE Passed(I, h, m, f, i, a)
    BY <1>1, <1>2 DEF Passed
  <1>3. ASSUME NEW i \in Nat, NEW j \in Nat, NEW k \in Nat, j <= Len(I) + 1, j <= k, NEW q,
               Within(I, m, f, i, j, q)
        PROVE  Within(J, m, f, i, k, q)
    <2>1. PICK x \in (i + 1)..(j - 1) : Matches(I[x], m, f) /\ I[x].payload.seq = q
      BY <1>3 DEF Within
    <2>2. x \in (i + 1)..(k - 1) /\ x \in 1..Len(I)
      BY <1>3, <2>1
    <2>3. J[x] = I[x]
      BY <2>2
    <2> QED BY <2>1, <2>2, <2>3 DEF Within
  <1>4. BrokerRuns(J, U, c, b, s, h, m, f)
    <2> SUFFICES ASSUME NEW i \in Nat, NEW a \in Nat, NEW k \in Nat, NEW q \in Nat,
                        Passed(J, h, m, f, i, a), Coming(U, b, s, m, f, k, q), c < k
                 PROVE  \/ q = a + 1 \/ Within(J, m, f, i, Len(J) + 1, q - 1)
                        \/ Covered(U, m, f, c, k, q - 1)
      BY DEF BrokerRuns
    <2>1. \/ q = a + 1 \/ Within(I, m, f, i, Len(I) + 1, q - 1)
          \/ Covered(U, m, f, c, k, q - 1)
      BY <1>2 DEF Line, BrokerRuns
    <2>2. /\ Len(I) + 1 \in Nat /\ Len(J) + 1 \in Nat
          /\ Len(I) + 1 <= Len(I) + 1 /\ Len(I) + 1 <= Len(J) + 1
      OBVIOUS
    <2> QED BY <1>3, <2>1, <2>2
  <1>5. InboxRuns(J, h, m, f)
    <2> SUFFICES ASSUME NEW i \in Nat, NEW a \in Nat, NEW j \in Nat, Passed(J, h, m, f, i, a),
                        i < j, j <= Len(J), Matches(J[j], m, f)
                 PROVE  \/ J[j].payload.seq \in {a, a + 1}
                        \/ Within(J, m, f, i, j, J[j].payload.seq - 1)
      BY DEF InboxRuns
    <2>1. j \in 1..Len(J)
      OBVIOUS
    <2>2. j \in 1..Len(I) /\ J[j] = I[j]
      BY <1>1, <2>1
    <2>3. j <= Len(I) /\ j <= Len(I) + 1 /\ j <= j
      BY <2>2
    <2>4. \/ I[j].payload.seq \in {a, a + 1}
          \/ Within(I, m, f, i, j, I[j].payload.seq - 1)
      BY <1>2, <2>2, <2>3 DEF Line, InboxRuns
    <2> QED BY <1>3, <2>2, <2>3, <2>4
  <1>6. (\E i, a \in Nat : Passed(J, h, m, f, i, a)) => c \in Nat
    BY <1>2 DEF Line
  <1>7. Sorted(J, U, c, b, s, h, m, f)
    BY <1>2 DEF Line, Sorted, BrokerSorted, InboxSorted
  <1> QED BY <1>4, <1>5, <1>6, <1>7 DEF Line

\* The broker accepts a packet of m that is no message of f.
LEMMA LineOther ==
  ASSUME NEW I, NEW U, NEW m, NEW f, NEW c \in Int, NEW d \in Nat, NEW b, NEW s, NEW h,
         c \in Nat => d = c + 1,
         Carried(U, m, d), \A q : ~OnWay(U, m, f, d, q),
         Line(I, U, c, b, s, h, m, f)
  PROVE  Line(I, U, d, b, s, h, m, f)
  <1>1. BrokerRuns(I, U, d, b, s, h, m, f)
    <2> SUFFICES ASSUME NEW i \in Nat, NEW a \in Nat, NEW k \in Nat, NEW q \in Nat,
                        Passed(I, h, m, f, i, a), Coming(U, b, s, m, f, k, q), d < k
                 PROVE  \/ q = a + 1 \/ Within(I, m, f, i, Len(I) + 1, q - 1)
                        \/ Covered(U, m, f, d, k, q - 1)
      BY DEF BrokerRuns
    <2>1. c \in Nat /\ d = c + 1 /\ c < k
      BY DEF Line
    <2>2. \/ q = a + 1 \/ Within(I, m, f, i, Len(I) + 1, q - 1)
          \/ Covered(U, m, f, c, k, q - 1)
      BY <2>1 DEF Line, BrokerRuns
    <2>3. ASSUME Covered(U, m, f, c, k, q - 1) PROVE Covered(U, m, f, d, k, q - 1)
      <3>1. PICK x \in (c + 1)..(k - 1) : OnWay(U, m, f, x, q - 1) \/ ~Carried(U, m, x)
        BY <2>3 DEF Covered
      <3>2. x # d
        BY <3>1
      <3>3. x \in (d + 1)..(k - 1)
        BY <2>1, <3>1, <3>2
      <3> QED BY <3>1, <3>3 DEF Covered
    <2> QED BY <2>2, <2>3
  <1>2. c < d
    OBVIOUS
  <1>3. BrokerSorted(I, U, d, b, s, h, m, f)
    BY <1>2 DEF Line, Sorted, BrokerSorted
  <1> QED BY <1>1, <1>3 DEF Line, Sorted

\* The broker accepts a message of f and forwards it, at least once if the inbox or the
\* callback got an earlier one.
LEMMA LineAccepted ==
  ASSUME NEW I, NEW J, Len(I) \in Nat, Len(J) \in Nat, Len(I) <= Len(J),
         \A i \in 1..Len(I) : J[i] = I[i],
         NEW U, NEW m, NEW f, NEW c \in Int, NEW d \in Nat, NEW b, NEW s, NEW h, NEW r \in Nat,
         c \in Nat => d = c + 1,
         OnWay(U, m, f, d, r),
         \A i \in (Len(I) + 1)..Len(J) : Matches(J[i], m, f) /\ J[i].payload.seq = r,
         (\E i, a \in Nat : Passed(I, h, m, f, i, a)) => Len(I) < Len(J),
         Line(I, U, c, b, s, h, m, f)
  PROVE  Line(J, U, d, b, s, h, m, f)
  <1>1. ASSUME NEW i \in Nat, NEW a, Passed(J, h, m, f, i, a)
        PROVE  \/ i <= Len(I) /\ Passed(I, h, m, f, i, a)
               \/ i > Len(I) /\ a = r
    <2>1. CASE i = 0
      BY <1>1, <2>1 DEF Passed
    <2>2. CASE i \in 1..Len(I)
      <3>1. J[i] = I[i] /\ i # 0 /\ i <= Len(I)
        BY <2>2
      <3> QED BY <1>1, <2>2, <3>1 DEF Passed
    <2>3. CASE i \in (Len(I) + 1)..Len(J)
      <3>1. i # 0 /\ i > Len(I)
        BY <2>3
      <3> QED BY <1>1, <2>3, <3>1 DEF Passed
    <2>4. i = 0 \/ i \in 1..Len(J)
      BY <1>1 DEF Passed
    <2> QED BY <2>1, <2>2, <2>3, <2>4
  <1>2. ASSUME NEW i \in Nat, NEW j \in Nat, NEW k \in Nat, j <= Len(I) + 1, j <= k, NEW q,
               Within(I, m, f, i, j, q)
        PROVE  Within(J, m, f, i, k, q)
    <2>1. PICK x \in (i + 1)..(j - 1) : Matches(I[x], m, f) /\ I[x].payload.seq = q
      BY <1>2 DEF Within
    <2>2. x \in (i + 1)..(k - 1) /\ x \in 1..Len(I)
      BY <1>2, <2>1
    <2>3. J[x] = I[x]
      BY <2>2
    <2> QED BY <2>1, <2>2, <2>3 DEF Within
  <1>3. BrokerRuns(J, U, d, b, s, h, m, f)
    <2> SUFFICES ASSUME NEW i \in Nat, NEW a \in Nat, NEW k \in Nat, NEW q \in Nat,
                        Passed(J, h, m, f, i, a), Coming(U, b, s, m, f, k, q), d < k
                 PROVE  \/ q = a + 1 \/ Within(J, m, f, i, Len(J) + 1, q - 1)
                        \/ Covered(U, m, f, d, k, q - 1)
      BY DEF BrokerRuns
    <2>1. q = r + 1 \/ Covered(U, m, f, d, k, q - 1)
      BY DEF Line, UplinkRuns
    <2>2. CASE q = r + 1 /\ Passed(I, h, m, f, i, a) /\ i <= Len(I)
      <3>1. Len(I) < Len(J)
        BY <2>2
      <3>2. Len(I) + 1 \in (Len(I) + 1)..Len(J) /\ Len(I) + 1 \in (i + 1)..((Len(J) + 1) - 1)
        BY <2>2, <3>1
      <3>3. Matches(J[Len(I) + 1], m, f) /\ J[Len(I) + 1].payload.seq = r /\ q - 1 = r
        BY <2>2, <3>2
      <3> QED BY <3>2, <3>3 DEF Within
    <2> QED BY <1>1, <2>1, <2>2
  <1>4. InboxRuns(J, h, m, f)
    <2> SUFFICES ASSUME NEW i \in Nat, NEW a \in Nat, NEW j \in Nat, Passed(J, h, m, f, i, a),
                        i < j, j <= Len(J), Matches(J[j], m, f)
                 PROVE  \/ J[j].payload.seq \in {a, a + 1}
                        \/ Within(J, m, f, i, j, J[j].payload.seq - 1)
      BY DEF InboxRuns
    <2>1. CASE j <= Len(I)
      <3>1. j \in 1..Len(I) /\ J[j] = I[j] /\ j <= Len(I) + 1 /\ j <= j
        BY <2>1
      <3>2. Passed(I, h, m, f, i, a)
        BY <1>1, <2>1
      <3>3. \/ I[j].payload.seq \in {a, a + 1}
            \/ Within(I, m, f, i, j, I[j].payload.seq - 1)
        BY <2>1, <3>1, <3>2 DEF Line, InboxRuns
      <3> QED BY <1>2, <3>1, <3>3
    <2>2. CASE ~(j <= Len(I))
      <3>1. j \in (Len(I) + 1)..Len(J) /\ Len(I) + 1 <= j /\ Len(I) + 1 \in Nat
        BY <2>2
      <3>2. J[j].payload.seq = r
        BY <3>1
      <3>3. CASE i <= Len(I) /\ Passed(I, h, m, f, i, a)
        <4>1. c \in Nat /\ d = c + 1 /\ c < d
          <5>1. c \in Nat
            BY <3>3 DEF Line
          <5> QED BY <5>1
        <4>2. \/ r = a + 1 \/ Within(I, m, f, i, Len(I) + 1, r - 1)
              \/ Covered(U, m, f, c, d, r - 1)
          BY <3>3, <4>1 DEF Line, BrokerRuns, Coming
        <4>3. ~Covered(U, m, f, c, d, r - 1)
          <5>1. (c + 1)..(d - 1) = {}
            BY <4>1
          <5> QED BY <5>1 DEF Covered
        <4>4. Len(I) + 1 <= Len(I) + 1
          OBVIOUS
        <4> QED BY <1>2, <3>1, <3>2, <4>2, <4>3, <4>4
      <3> QED BY <1>1, <3>2, <3>3
    <2> QED BY <2>1, <2>2
  <1>5. c < d /\ Coming(U, b, s, m, f, d, r)
    BY DEF Coming
  <1>6. BrokerSorted(J, U, d, b, s, h, m, f)
    <2> SUFFICES ASSUME NEW i \in Nat, NEW a \in Nat, NEW k \in Nat, NEW q \in Nat,
                        Passed(J, h, m, f, i, a), Coming(U, b, s, m, f, k, q), d < k
                 PROVE  a < q
      BY DEF BrokerSorted
    <2>1. CASE Passed(I, h, m, f, i, a)
      <3>1. c < k
        BY <1>5
      <3> QED BY <2>1, <3>1 DEF Line, Sorted, BrokerSorted
    <2>2. CASE a = r
      BY <2>2 DEF Line, Sorted, UplinkSorted
    <2>3. Passed(I, h, m, f, i, a) \/ a = r
      BY <1>1
    <2> QED BY <2>1, <2>2, <2>3, Zenon
  <1>7. InboxSorted(J, h, m, f)
    <2> SUFFICES ASSUME NEW i \in Nat, NEW a \in Nat, NEW j \in Nat, NEW x \in Nat,
                        Passed(J, h, m, f, i, a), Passed(J, h, m, f, j, x), i < j
                 PROVE  a <= x
      BY DEF InboxSorted
    <2>1. CASE j <= Len(I)
      <3>1. Passed(I, h, m, f, i, a) /\ Passed(I, h, m, f, j, x)
        BY <1>1, <2>1
      <3> QED BY <3>1 DEF Line, Sorted, InboxSorted
    <2>2. CASE j > Len(I)
      <3>1. x = r
        BY <1>1, <2>2
      <3>2. CASE Passed(I, h, m, f, i, a)
        <4>1. a < r
          BY <1>5, <3>2 DEF Line, Sorted, BrokerSorted
        <4> QED BY <3>1, <4>1
      <3> QED BY <1>1, <3>1, <3>2
    <2> QED BY <2>1, <2>2
  <1> QED BY <1>3, <1>4, <1>6, <1>7 DEF Line, Sorted
-----------------------------------------------------------------------------
(***************************************************************************)
(* The uplink may lose, repeat and delay packets and sends and receives may *)
(* fail, but what the broker sends arrives, in order, and no counter wraps  *)
(* around, so that no old packet is taken for a new one.                    *)
(***************************************************************************)
DownlinkReliable ==
  FaultKind \cap {"lose_down", "duplicate_down", "delay_down", "broker_send"} = {}

NoWrap == \A n \in Node : m_bp_counter[n] + 1 < CounterMod

\* How many messages a publisher has sent: the others are in its queue.
Sent(m, f) == published[m][f] - Len(queue[m][f])

Stocked(m, f) ==
  /\ Len(queue[m][f]) <= published[m][f]
  /\ \A i \in 1..Len(queue[m][f]) : queue[m][f][i] = Message(m, f, Sent(m, f) + i)

\* A message that some publisher made.
Made(d) == /\ d.node \in Node /\ d.end \in End(d.node) /\ IsPub(d.node, d.end)
           /\ d.seq \in 1..published[d.node][d.end]

\* A packet of m in the uplink: numbered as m counts, and a message that m has sent.
Genuine(m, p) ==
  /\ p.counter \in 1..m_bp_counter[m]
  /\ p.type = "Data" =>
       /\ p.payload.node = m /\ Made(p.payload)
       /\ p.payload.seq <= Sent(m, p.payload.end)
       /\ p.message_type_id = B!At(m_topics, p.topic_id).message_type_id

\* No two packets of one sender have the same counter unless they are the same.
Distinct(U) ==
  \A u, v \in 1..Len(U) :
    U[u].from = U[v].from /\ U[u].packet.counter = U[v].packet.counter => U[u] = U[v]

UplinkGenuine ==
  /\ \A u \in 1..Len(to_broker) : Genuine(to_broker[u].from, to_broker[u].packet)
  /\ Distinct(to_broker)
  /\ \A m \in Node : m_client_counters[m] <= m_bp_counter[m]

\* n is among those that the broker sends topic id to.
Receives(n, id) ==
  \E x \in 1..Len(B!At(m_topics, id).subscribers) :
    B!At(m_nodes, B!At(m_topics, id).subscribers[x]).address = n

\* The positions of n among the subscribers of topic id.
Entries(n, id) ==
  {x \in 1..Len(B!At(m_topics, id).subscribers) :
     B!At(m_nodes, B!At(m_topics, id).subscribers[x]).address = n}

InboxGenuine(n) ==
  \A i \in 1..Len(to_node[n]) :
    to_node[n][i].type = "Data" => Made(to_node[n][i].payload) /\ Receives(n, to_node[n][i].topic_id)

\* The number of the last message of f of m that left n's inbox for e.
Taken(n, e, m, f) ==
  IF \E i \in 1..Len(queue[n][e]) : queue[n][e][i].node = m /\ queue[n][e][i].end = f
  THEN queue[n][e][1].seq ELSE LastShown(<<n, e>>, <<m, f>>)

\* A queued message is the one shown last, again, or its successor.
FollowsLast(n, e, d) ==
  LET last == LastShown(<<n, e>>, <<d.node, d.end>>)
  IN  Made(d) /\ (last = 0 \/ d.seq \in {last, last + 1})

QueueFollows(n, e) ==
  \A d \in Payloads : (\E i \in 1..Len(queue[n][e]) : queue[n][e][i] = d) => FollowsLast(n, e, d)

\* f's messages that were shown have a last one.
HasLast(n, e, m, f) ==
  ShownAt(n, e, m, f) # {} =>
    \E x \in ShownAt(n, e, m, f) : \A y \in ShownAt(n, e, m, f) : y <= x

ShownSoFar(n, e) ==
  /\ delivered[n][e] # <<>> => Connected(n)
  /\ \A m \in Node : \A f \in End(m) : HasLast(n, e, m, f)

\* Messages of f of m are meant for e of n.
Pair(n, e, m, f) == IsSub(n, e) /\ IsPub(m, f) /\ SameTopic(n, e, m, f)

LineOf(n, e, m, f) ==
  Line(to_node[n], to_broker, m_client_counters[m], m_bp_counter[m], Sent(m, f),
       Taken(n, e, m, f), m, f)

FeedInv ==
  /\ \A m \in Node : \A f \in End(m) : IsPub(m, f) => Stocked(m, f)
  /\ UplinkGenuine
  /\ \A n \in Node : InboxGenuine(n)
  /\ \A n \in Node : \A e \in End(n) : IsSub(n, e) => QueueFollows(n, e) /\ ShownSoFar(n, e)
  /\ \A n, m \in Node : \A e \in End(n), f \in End(m) : Pair(n, e, m, f) => LineOf(n, e, m, f)
-----------------------------------------------------------------------------
(***************************************************************************)
(* What a step of a node does to its publishers and to the uplink.          *)
(***************************************************************************)
\* No message of f is sent; one may be published.
NothingSent(n, f) ==
  \/ published'[n][f] = published[n][f] /\ queue'[n][f] = queue[n][f]
  \/ /\ published'[n][f] = published[n][f] + 1
     /\ queue'[n][f] = Append(queue[n][f], Message(n, f, published[n][f] + 1))

Quiet(n) ==
  /\ m_bp_counter'[n] = m_bp_counter[n] /\ to_broker' = to_broker
  /\ \A f \in End(n) : IsPub(n, f) => NothingSent(n, f)

CountsOther(n) ==
  /\ m_bp_counter'[n] = m_bp_counter[n] + 1
  /\ to_broker' = to_broker \/ SendsRequest(n)
  /\ \A f \in End(n) : IsPub(n, f) => NothingSent(n, f)

SendsNext(n, e) ==
  /\ m_bp_counter'[n] = m_bp_counter[n] + 1
  /\ SendsMessage(n, e)
  /\ published'[n] = published[n] /\ queue'[n][e] = Tail(queue[n][e])
  /\ \A f \in End(n) : f # e => queue'[n][f] = queue[n][f]

LEMMA SenderSteps ==
  ASSUME TypeInv, NoWrap, NEW n \in Node, NodeStep(n)
  PROVE  Quiet(n) \/ CountsOther(n) \/ \E e \in End(n) : SendsNext(n, e)
  <1>0. Domains /\ NodeTypes(n) /\ DOMAIN m_bp_counter = Node
    BY DEF TypeInv, Domains
  <1>a. NextCounter(m_bp_counter[n]) = m_bp_counter[n] + 1
    BY <1>0, CounterSteps DEF NodeTypes, NoWrap
  <1>b. \A f \in End(n) : ~(IsSub(n, f) /\ IsPub(n, f))
    BY DEF IsSub, IsPub
  <1>1. CASE connect(n) \/ receive_response(n) \/ SpinReturn(n)
    BY <1>1 DEF connect, receive_response, SpinReturn, local, Quiet, NothingSent
  <1>2. CASE send_control(n)
    <2>1. /\ UNCHANGED local
          /\ m_bp_counter' = [m_bp_counter EXCEPT ![n] = NextCounter(m_bp_counter[n])]
          /\ to_broker' = to_broker \/ SendsRequest(n)
      BY <1>0, <1>2 DEF send_control, SendsRequest, Transmit, Goto, next_bp_counter, Domains
    <2>2. m_bp_counter'[n] = m_bp_counter[n] + 1 /\ UNCHANGED <<published, queue>>
      BY <1>0, <1>a, <2>1 DEF local
    <2> QED BY <2>1, <2>2 DEF CountsOther, NothingSent
  <1>3. CASE SpinReceive(n)
    <2>1. UNCHANGED <<m_bp_counter, published, to_broker>>
      BY <1>3 DEF SpinReceive
    <2>2. ASSUME NEW f \in End(n), IsPub(n, f) PROVE queue'[n][f] = queue[n][f]
      <3>1. \A p : f \notin Subscribers(n, p)
        BY <1>b, <2>2 DEF Subscribers
      <3> QED BY <1>0, <1>3, <3>1 DEF SpinReceive, process_incoming_message, Domains
    <2> QED BY <2>1, <2>2 DEF Quiet, NothingSent
  <1>4. ASSUME NEW e \in End(n), publish(n, e) PROVE Quiet(n)
    <2>1. /\ queue'[n] = [queue[n] EXCEPT ![e] = Append(queue[n][e], Message(n, e, published[n][e] + 1))]
          /\ published'[n] = [published[n] EXCEPT ![e] = published[n][e] + 1]
          /\ UNCHANGED <<m_bp_counter, to_broker>>
      BY <1>0, <1>4 DEF publish, Domains
    <2>2. ASSUME NEW f \in End(n) PROVE NothingSent(n, f)
      <3>1. CASE f = e
        BY <1>0, <2>1, <3>1 DEF NodeTypes, NothingSent
      <3>2. CASE f # e
        BY <1>0, <2>1, <3>2 DEF NodeTypes, NothingSent
      <3> QED BY <3>1, <3>2
    <2> QED BY <2>1, <2>2 DEF Quiet
  <1>5. ASSUME NEW e \in End(n), run_callback(n, e) PROVE Quiet(n)
    <2>1. /\ queue'[n] = [queue[n] EXCEPT ![e] = Tail(queue[n][e])] /\ IsSub(n, e)
          /\ UNCHANGED <<m_bp_counter, to_broker, published>>
      BY <1>0, <1>5 DEF run_callback, ShowFront, Domains
    <2>2. ASSUME NEW f \in End(n), IsPub(n, f) PROVE NothingSent(n, f)
      <3>1. f # e
        BY <1>b, <2>1, <2>2
      <3> QED BY <1>0, <2>1, <3>1 DEF NodeTypes, NothingSent
    <2> QED BY <2>1, <2>2 DEF Quiet
  <1>6. ASSUME NEW e \in End(n), send_data(n, e) PROVE CountsOther(n) \/ SendsNext(n, e)
    <2>1. m_bp_counter'[n] = m_bp_counter[n] + 1 /\ UNCHANGED published
      BY <1>0, <1>a, <1>6 DEF send_data, next_bp_counter
    <2>2. CASE UNCHANGED <<queue, to_broker>>
      BY <2>1, <2>2 DEF CountsOther, NothingSent
    <2>3. CASE /\ Transmit(n, DataPacket(next_bp_counter(n), ids[n][e].topic_id,
                                         ids[n][e].message_type_id, Head(queue[n][e])))
               /\ queue' = [queue EXCEPT ![n][e] = Tail(@)] /\ UNCHANGED pc
      <3>1. SendsMessage(n, e)
        BY <1>0, <1>6, <2>3 DEF send_data, Reaches, SendsMessage, Transmit, next_bp_counter, Domains
      <3>2. queue'[n] = [queue[n] EXCEPT ![e] = Tail(queue[n][e])]
        BY <1>0, <2>3 DEF Domains
      <3>3. queue'[n][e] = Tail(queue[n][e]) /\ \A f \in End(n) : f # e => queue'[n][f] = queue[n][f]
        BY <1>0, <3>2 DEF NodeTypes
      <3> QED BY <2>1, <3>1, <3>3 DEF SendsNext
    <2> QED BY <1>6, <2>2, <2>3 DEF send_data
  <1> QED BY <1>1, <1>2, <1>3, <1>4, <1>5, <1>6 DEF NodeStep

\* A publisher that has a message waiting.
LEMMA NextToSend ==
  ASSUME TypeInv, NEW m \in Node, NEW f \in End(m), Stocked(m, f)
  PROVE  /\ Sent(m, f) \in Nat
         /\ queue[m][f] # <<>> => /\ Head(queue[m][f]) = Message(m, f, Sent(m, f) + 1)
                                  /\ Sent(m, f) < published[m][f]
  <1>1. /\ queue[m][f] \in Seq(Payloads) /\ published[m][f] \in Nat /\ Len(queue[m][f]) \in Nat
    BY LenProperties DEF TypeInv, NodeTypes
  <1>2. Sent(m, f) \in Nat
    BY <1>1 DEF Sent, Stocked
  <1>3. ASSUME queue[m][f] # <<>>
        PROVE  Head(queue[m][f]) = Message(m, f, Sent(m, f) + 1) /\ Sent(m, f) < published[m][f]
    <2>1. Head(queue[m][f]) = queue[m][f][1] /\ Len(queue[m][f]) # 0
      BY <1>1, <1>3, TailOfQueue
    <2>2. 1 \in 1..Len(queue[m][f])
      BY <1>1, <2>1
    <2> QED BY <1>1, <2>1, <2>2 DEF Stocked, Sent
  <1> QED BY <1>2, <1>3

LEMMA StockedKept ==
  ASSUME TypeInv, NEW m \in Node, NEW f \in End(m), Stocked(m, f), NothingSent(m, f)
  PROVE  Stocked(m, f)' /\ Sent(m, f)' = Sent(m, f)
  <1>1. /\ queue[m][f] \in Seq(Payloads) /\ published[m][f] \in Nat /\ Len(queue[m][f]) \in Nat
    BY LenProperties DEF TypeInv, NodeTypes
  <1>2. CASE published'[m][f] = published[m][f] /\ queue'[m][f] = queue[m][f]
    BY <1>2 DEF Stocked, Sent
  <1>3. CASE /\ published'[m][f] = published[m][f] + 1
             /\ queue'[m][f] = Append(queue[m][f], Message(m, f, published[m][f] + 1))
    <2> DEFINE q == queue[m][f]
               d == Message(m, f, published[m][f] + 1)
    <2>1. d \in Payloads
      BY <1>1, EndsFinite DEF Message, Payloads, Plain
    <2>2. /\ Len(queue'[m][f]) = Len(q) + 1 /\ queue'[m][f][Len(q) + 1] = d
          /\ \A i \in 1..Len(q) : queue'[m][f][i] = q[i]
      BY <1>1, <1>3, <2>1, AppendProperties
    <2>3. Sent(m, f)' = Sent(m, f) /\ Sent(m, f) + (Len(q) + 1) = published[m][f] + 1
      <3>1. PICK x, y : x = published[m][f] /\ y = Len(q)
        OBVIOUS
      <3>2. x \in Nat /\ y \in Nat /\ Sent(m, f) = x - y
        BY <1>1, <3>1 DEF Sent
      <3>3. Sent(m, f)' = (x + 1) - (y + 1)
        BY <1>3, <2>2, <3>1 DEF Sent
      <3>4. (x + 1) - (y + 1) = x - y /\ (x - y) + (y + 1) = x + 1
        BY <3>2
      <3> QED BY <3>1, <3>2, <3>3, <3>4
    <2>4. ASSUME NEW i \in 1..Len(queue'[m][f]) PROVE queue'[m][f][i] = Message(m, f, Sent(m, f) + i)
      <3>1. i \in 1..Len(q) \/ i = Len(q) + 1
        BY <1>1, <2>2
      <3>2. CASE i \in 1..Len(q)
        BY <2>2, <3>2 DEF Stocked
      <3>3. CASE i = Len(q) + 1
        BY <2>2, <2>3, <3>3
      <3> QED BY <3>1, <3>2, <3>3
    <2>5. Len(queue'[m][f]) <= published'[m][f]
      BY <1>1, <1>3, <2>2 DEF Stocked
    <2> QED BY <2>3, <2>4, <2>5 DEF Stocked
  <1> QED BY <1>2, <1>3 DEF NothingSent

LEMMA StockedTaken ==
  ASSUME TypeInv, NEW m \in Node, NEW f \in End(m), Stocked(m, f), queue[m][f] # <<>>,
         published'[m] = published[m], queue'[m][f] = Tail(queue[m][f])
  PROVE  Stocked(m, f)' /\ Sent(m, f)' = Sent(m, f) + 1
  <1> DEFINE q == queue[m][f]
  <1>1. /\ q \in Seq(Payloads) /\ published[m][f] \in Nat /\ Len(q) \in Nat /\ Len(q) # 0
        /\ Len(queue'[m][f]) = Len(q) - 1
        /\ \A i \in 1..(Len(q) - 1) : queue'[m][f][i] = q[i + 1]
    BY TailOfQueue DEF TypeInv, NodeTypes
  <1>2. Sent(m, f)' = Sent(m, f) + 1
    BY <1>1 DEF Sent
  <1>3. ASSUME NEW i \in 1..Len(queue'[m][f])
        PROVE  queue'[m][f][i] = Message(m, f, (Sent(m, f) + 1) + i)
    <2>1. i \in 1..(Len(q) - 1) /\ i + 1 \in 1..Len(q)
      BY <1>1
    <2>2. queue'[m][f][i] = Message(m, f, Sent(m, f) + (i + 1))
      BY <1>1, <2>1 DEF Stocked
    <2>3. Sent(m, f) + (i + 1) = (Sent(m, f) + 1) + i
      <3>1. Sent(m, f) \in Int
        BY <1>1 DEF Sent
      <3> QED BY ONLY <3>1, i \in Int
    <2> QED BY <2>2, <2>3
  <1>4. Len(queue'[m][f]) <= published'[m][f]
    <2>1. Len(q) <= published[m][f]
      BY DEF Stocked
    <2> QED BY <1>1, <2>1
  <1> QED BY <1>2, <1>3, <1>4 DEF Stocked
-----------------------------------------------------------------------------
(***************************************************************************)
(* What steps do to the packets of one sender in the uplink.                *)
(***************************************************************************)
LEMMA SubUplink ==
  ASSUME NEW U, NEW V, NEW m, NEW f, Distinct(U),
         \A j \in 1..Len(V) : V[j].from = m => \E k \in 1..Len(U) : V[j] = U[k]
  PROVE  /\ \A k, q : OnWay(V, m, f, k, q) => OnWay(U, m, f, k, q)
         /\ \A k, q : OnWay(U, m, f, k, q) /\ Carried(V, m, k) => OnWay(V, m, f, k, q)
         /\ \A k : Carried(V, m, k) => Carried(U, m, k)
  <1>1. ASSUME NEW k, NEW q, OnWay(V, m, f, k, q) PROVE OnWay(U, m, f, k, q)
    <2>1. PICK v \in 1..Len(V) : /\ V[v].from = m /\ Matches(V[v].packet, m, f)
                                 /\ V[v].packet.counter = k /\ V[v].packet.payload.seq = q
      BY <1>1 DEF OnWay
    <2>2. PICK u \in 1..Len(U) : V[v] = U[u]
      BY <2>1
    <2> QED BY <2>1, <2>2 DEF OnWay
  <1>2. ASSUME NEW k, Carried(V, m, k) PROVE Carried(U, m, k)
    <2>1. PICK v \in 1..Len(V) : V[v].from = m /\ V[v].packet.counter = k
      BY <1>2 DEF Carried
    <2>2. PICK u \in 1..Len(U) : V[v] = U[u]
      BY <2>1
    <2> QED BY <2>1, <2>2 DEF Carried
  <1>3. ASSUME NEW k, NEW q, OnWay(U, m, f, k, q), Carried(V, m, k) PROVE OnWay(V, m, f, k, q)
    <2>1. PICK v \in 1..Len(V) : V[v].from = m /\ V[v].packet.counter = k
      BY <1>3 DEF Carried
    <2>2. PICK u \in 1..Len(U) : V[v] = U[u]
      BY <2>1
    <2>3. PICK w \in 1..Len(U) : /\ U[w].from = m /\ Matches(U[w].packet, m, f)
                                 /\ U[w].packet.counter = k /\ U[w].packet.payload.seq = q
      BY <1>3 DEF OnWay
    <2>4. U[u] = U[w]
      BY <2>1, <2>2, <2>3 DEF Distinct
    <2> QED BY <2>1, <2>2, <2>3, <2>4 DEF OnWay
  <1> QED BY <1>1, <1>2, <1>3

LEMMA AppendedWay ==
  ASSUME NEW U \in Seq(Uplink), NEW u \in Uplink, NEW V, V = Append(U, u), NEW m, NEW f
  PROVE  /\ \A k, q : OnWay(V, m, f, k, q) <=>
              \/ OnWay(U, m, f, k, q)
              \/ /\ u.from = m /\ Matches(u.packet, m, f)
                 /\ u.packet.counter = k /\ u.packet.payload.seq = q
         /\ \A k : Carried(V, m, k) <=> Carried(U, m, k) \/ (u.from = m /\ u.packet.counter = k)
  <1>1. /\ Len(U) \in Nat /\ Len(V) = Len(U) + 1 /\ V[Len(U) + 1] = u
        /\ \A i \in 1..Len(U) : V[i] = U[i]
    BY AppendProperties, LenProperties
  <1>2. \A i \in 1..Len(V) : i \in 1..Len(U) \/ i = Len(U) + 1
    BY <1>1
  <1>3. \A i \in 1..Len(U) : i \in 1..Len(V)
    BY <1>1
  <1>4. Len(U) + 1 \in 1..Len(V)
    BY <1>1
  <1>5. ASSUME NEW k, NEW q
        PROVE  OnWay(V, m, f, k, q) <=>
                 \/ OnWay(U, m, f, k, q)
                 \/ /\ u.from = m /\ Matches(u.packet, m, f)
                    /\ u.packet.counter = k /\ u.packet.payload.seq = q
    <2>1. ASSUME OnWay(V, m, f, k, q)
          PROVE  \/ OnWay(U, m, f, k, q)
                 \/ /\ u.from = m /\ Matches(u.packet, m, f)
                    /\ u.packet.counter = k /\ u.packet.payload.seq = q
      <3>1. PICK i \in 1..Len(V) : /\ V[i].from = m /\ Matches(V[i].packet, m, f)
                                   /\ V[i].packet.counter = k /\ V[i].packet.payload.seq = q
        BY <2>1 DEF OnWay
      <3> QED BY <1>1, <1>2, <3>1 DEF OnWay
    <2>2. ASSUME OnWay(U, m, f, k, q) PROVE OnWay(V, m, f, k, q)
      <3>1. PICK i \in 1..Len(U) : /\ U[i].from = m /\ Matches(U[i].packet, m, f)
                                   /\ U[i].packet.counter = k /\ U[i].packet.payload.seq = q
        BY <2>2 DEF OnWay
      <3>2. i \in 1..Len(V) /\ V[i] = U[i]
        BY <1>1, <1>3
      <3> QED BY <3>1, <3>2 DEF OnWay
    <2>3. ASSUME u.from = m, Matches(u.packet, m, f), u.packet.counter = k, u.packet.payload.seq = q
          PROVE  OnWay(V, m, f, k, q)
      BY <1>1, <1>4, <2>3 DEF OnWay
    <2> QED BY <2>1, <2>2, <2>3
  <1>6. ASSUME NEW k
        PROVE  Carried(V, m, k) <=> Carried(U, m, k) \/ (u.from = m /\ u.packet.counter = k)
    BY <1>1, <1>2, <1>3, <1>4 DEF Carried
  <1> QED BY <1>5, <1>6

LEMMA AppendedUplink ==
  ASSUME TypeInv, NEW u \in Uplink, to_broker' = Append(to_broker, u), NEW m, NEW f
  PROVE  /\ \A k, q : OnWay(to_broker', m, f, k, q) <=>
              \/ OnWay(to_broker, m, f, k, q)
              \/ /\ u.from = m /\ Matches(u.packet, m, f)
                 /\ u.packet.counter = k /\ u.packet.payload.seq = q
         /\ \A k : Carried(to_broker', m, k) <=>
                    Carried(to_broker, m, k) \/ (u.from = m /\ u.packet.counter = k)
  <1>1. PICK U, V : U = to_broker /\ V = to_broker'
    OBVIOUS
  <1>2. U \in Seq(Uplink) /\ V = Append(U, u)
    BY <1>1 DEF TypeInv
  <1>3. /\ \A k, q : OnWay(V, m, f, k, q) <=>
             \/ OnWay(U, m, f, k, q)
             \/ /\ u.from = m /\ Matches(u.packet, m, f)
                /\ u.packet.counter = k /\ u.packet.payload.seq = q
        /\ \A k : Carried(V, m, k) <=> Carried(U, m, k) \/ (u.from = m /\ u.packet.counter = k)
    BY <1>2, AppendedWay
  <1> QED BY ONLY <1>1, <1>3, Zenon

LEMMA LineUplinked ==
  ASSUME NEW m, NEW f, Uplinked(m), Distinct(to_broker),
         NEW I, NEW c \in Int, NEW b, NEW s, NEW h, Line(I, to_broker, c, b, s, h, m, f)
  PROVE  Line(I, to_broker', c, b, s, h, m, f)
  <1>1. PICK U, V : U = to_broker /\ V = to_broker'
    OBVIOUS
  <1>2. Distinct(U) /\ Line(I, U, c, b, s, h, m, f)
    BY <1>1
  <1>3. \A j \in 1..Len(V) : V[j].from = m => \E k \in 1..Len(U) : V[j] = U[k]
    BY <1>1 DEF Uplinked
  <1>4. Line(I, V, c, b, s, h, m, f)
    BY <1>2, <1>3, SubUplink, LineUplink
  <1> QED BY <1>1, <1>4

\* The counters and messages of a sender's packets in the uplink.
LEMMA WayBounded ==
  ASSUME TypeInv, UplinkGenuine, NEW m \in Node, NEW f
  PROVE  /\ \A k, q : OnWay(to_broker, m, f, k, q) => k \in 1..m_bp_counter[m]
         /\ \A k : Carried(to_broker, m, k) => k \in 1..m_bp_counter[m]
  BY DEF UplinkGenuine, Genuine, OnWay, Carried

(***************************************************************************)
(* A step of a node keeps the line of messages up to the broker.            *)
(***************************************************************************)
LEMMA LineUp ==
  ASSUME TypeInv, NoWrap, UplinkGenuine, NEW m \in Node, NEW f \in End(m), IsPub(m, f),
         \A e \in End(m) : IsPub(m, e) => Stocked(m, e), NEW k \in Node, NodeStep(k), NEW I, NEW h,
         Line(I, to_broker, m_client_counters[m], m_bp_counter[m], Sent(m, f), h, m, f)
  PROVE  Line(I, to_broker', m_client_counters[m], m_bp_counter'[m], Sent(m, f)', h, m, f)
  <1> DEFINE c == m_client_counters[m]
             b == m_bp_counter[m]
             s == Sent(m, f)
             U == to_broker
             V == to_broker'
  <1>1. /\ to_broker \in Seq(Uplink) /\ b \in BpCounter /\ b \in Nat /\ Domains
        /\ NodeTypes(m) /\ c \in Int /\ s \in Nat
    <2>1. s \in Nat
      BY NextToSend
    <2>2. m_client_counters[m] \in BpCounter \cup {-1}
      BY DEF TypeInv, B!TypeOK, B!BpCounter, BpCounter, B!NoCounter
    <2>3. to_broker \in Seq(Uplink) /\ Domains /\ NodeTypes(m)
      BY DEF TypeInv
    <2>4. b \in BpCounter
      BY <2>3 DEF NodeTypes
    <2>5. b \in Nat /\ c \in Int
      BY <2>2, <2>4 DEF BpCounter
    <2> QED BY <2>1, <2>3, <2>4, <2>5
  <1>2. c <= b /\ Distinct(U)
    BY DEF UplinkGenuine
  <1>3. /\ \A x, q : OnWay(U, m, f, x, q) => x <= b
        /\ \A x : Carried(U, m, x) => x <= b
    BY <1>1, WayBounded
  <1>4. NextCounter(b) = b + 1 /\ NextCounter(b) \in BpCounter
    BY <1>1, CounterSteps, Counters DEF NoWrap
  <1>5. CASE k # m
    <2>1. SameNode(m) /\ Uplinked(m)
      BY <1>1, <1>5, NodeFrame, OthersPackets
    <2>2. b = m_bp_counter'[m] /\ Sent(m, f)' = s
      BY <2>1 DEF SameNode, Sent
    <2>3. Line(I, V, c, b, s, h, m, f)
      BY <1>1, <1>2, <2>1, LineUplinked
    <2> QED BY <2>2, <2>3
  <1>6. CASE k = m
    <2>1. CASE Quiet(m)
      <3>1. Sent(m, f)' = s
        BY <2>1, StockedKept DEF Quiet
      <3> QED BY <2>1, <3>1 DEF Quiet
    <2>2. CASE CountsOther(m)
      <3>1. Sent(m, f)' = s /\ m_bp_counter'[m] = b + 1
        BY <2>2, StockedKept DEF CountsOther
      <3>2. CASE to_broker' = to_broker
        <4>1. Line(I, U, c, b + 1, s, h, m, f)
          BY <1>1, <1>2, <1>3, LineCounted
        <4> QED BY <3>1, <3>2, <4>1
      <3>3. CASE SendsRequest(m)
        <4> DEFINE u == [from |-> m, packet |-> ControlPacket(NextCounter(b), Request(m))]
        <4>1. Request(m) \in Asked
          BY <3>3, RequestAsked DEF SendsRequest
        <4>2. u \in Uplink /\ to_broker' = Append(to_broker, u)
          BY <1>4, <3>3, <4>1, PacketsMade DEF SendsRequest
        <4>3. u.from = m /\ u.packet.counter = b + 1 /\ ~Matches(u.packet, m, f)
          BY <1>4 DEF ControlPacket, Matches
        <4> HIDE DEF u
        <4>a. /\ \A x, q : OnWay(V, m, f, x, q) <=>
                   \/ OnWay(U, m, f, x, q)
                   \/ /\ u.from = m /\ Matches(u.packet, m, f)
                      /\ u.packet.counter = x /\ u.packet.payload.seq = q
              /\ \A x : Carried(V, m, x) <=> Carried(U, m, x) \/ (u.from = m /\ u.packet.counter = x)
          BY <4>2, AppendedUplink
        <4>4. /\ \A x, q : OnWay(U, m, f, x, q) <=> OnWay(V, m, f, x, q)
              /\ \A x \in Int : x <= b /\ Carried(V, m, x) => Carried(U, m, x)
          BY <1>1, <4>3, <4>a
        <4>5. Line(I, V, c, b + 1, s, h, m, f)
          BY <1>1, <1>2, <1>3, <4>4, LineCounted
        <4> QED BY <3>1, <4>5
      <3> QED BY <2>2, <3>2, <3>3 DEF CountsOther
    <2>3. ASSUME NEW e \in End(m), SendsNext(m, e)
          PROVE  Line(I, to_broker', m_client_counters[m], m_bp_counter'[m], Sent(m, f)', h, m, f)
      <3> DEFINE d == Head(queue[m][e])
                 p == DataPacket(NextCounter(b), ids[m][e].topic_id, ids[m][e].message_type_id, d)
                 u == [from |-> m, packet |-> p]
      <3>1. /\ queue[m][e] \in Seq(Payloads) /\ queue[m][e] # <<>> /\ IsPub(m, e)
            /\ m_bp_counter'[m] = b + 1
        BY <1>1, <2>3 DEF NodeTypes, SendsNext, SendsMessage
      <3>2. /\ d \in Payloads
            /\ ids[m][e].topic_id \in Nat /\ ids[m][e].message_type_id \in Nat
        BY <1>1, <3>1, TailOfQueue DEF NodeTypes, Ids
      <3>3. u \in Uplink /\ to_broker' = Append(to_broker, u)
        BY <1>4, <2>3, <3>2, PacketsMade DEF SendsNext, SendsMessage
      <3>4. /\ u.from = m /\ u.packet.counter = b + 1 /\ u.packet.payload = d
            /\ u.packet.type = "Data"
        BY <1>4 DEF DataPacket
      <3>5. CASE e = f
        <4>1. d = Message(m, f, s + 1)
          BY <3>1, <3>5, NextToSend
        <4>2. Sent(m, f)' = s + 1
          BY <2>3, <3>1, <3>5, StockedTaken DEF SendsNext
        <4>3. Matches(u.packet, m, f) /\ u.packet.payload.seq = s + 1
          BY <3>4, <4>1 DEF Matches, Message
        <4> HIDE DEF u, d, p
        <4>a. /\ \A x, q : OnWay(V, m, f, x, q) <=>
                   \/ OnWay(U, m, f, x, q)
                   \/ /\ u.from = m /\ Matches(u.packet, m, f)
                      /\ u.packet.counter = x /\ u.packet.payload.seq = q
              /\ \A x : Carried(V, m, x) <=> Carried(U, m, x) \/ (u.from = m /\ u.packet.counter = x)
          BY <3>3, AppendedUplink
        <4>4. /\ \A x, q : OnWay(V, m, f, x, q) <=> Coming(U, b, s, m, f, x, q)
              /\ \A x \in Int : x <= b /\ Carried(V, m, x) => Carried(U, m, x)
          BY <1>1, <3>4, <4>3, <4>a DEF Coming
        <4>5. Line(I, V, c, b + 1, s + 1, h, m, f)
          BY <1>1, <1>2, <1>3, <4>4, LineSent
        <4> QED BY <3>1, <4>2, <4>5
      <3>6. CASE e # f
        <4>1. NothingSent(m, f)
          BY <2>3, <3>6 DEF SendsNext, NothingSent
        <4>2. Sent(m, f)' = s
          BY <4>1, StockedKept
        <4>3. ~Matches(u.packet, m, f)
          <5>1. d = Message(m, e, Sent(m, e) + 1)
            BY <3>1, NextToSend
          <5>2. d.end = e
            BY <5>1 DEF Message
          <5> QED BY <3>4, <3>6, <5>2 DEF Matches
        <4> HIDE DEF u, d, p
        <4>a. /\ \A x, q : OnWay(V, m, f, x, q) <=>
                   \/ OnWay(U, m, f, x, q)
                   \/ /\ u.from = m /\ Matches(u.packet, m, f)
                      /\ u.packet.counter = x /\ u.packet.payload.seq = q
              /\ \A x : Carried(V, m, x) <=> Carried(U, m, x) \/ (u.from = m /\ u.packet.counter = x)
          BY <3>3, AppendedUplink
        <4>4. /\ \A x, q : OnWay(U, m, f, x, q) <=> OnWay(V, m, f, x, q)
              /\ \A x \in Int : x <= b /\ Carried(V, m, x) => Carried(U, m, x)
          BY <1>1, <3>4, <4>3, <4>a
        <4>5. Line(I, V, c, b + 1, s, h, m, f)
          BY <1>1, <1>2, <1>3, <4>4, LineCounted
        <4> QED BY <3>1, <4>2, <4>5
      <3> QED BY <3>5, <3>6
    <2> QED BY <1>6, <2>1, <2>2, <2>3, SenderSteps
  <1> QED BY <1>5, <1>6
-----------------------------------------------------------------------------
(***************************************************************************)
(* What a packet says about its sender stays true.                          *)
(***************************************************************************)
Progress ==
  \A m \in Node :
    /\ m_bp_counter[m] <= m_bp_counter'[m]
    /\ \A f \in End(m) : IsPub(m, f) =>
         published[m][f] <= published'[m][f] /\ Sent(m, f) <= Sent(m, f)'

AllStocked == \A m \in Node : \A f \in End(m) : IsPub(m, f) => Stocked(m, f)

LEMMA SenderProgress ==
  ASSUME TypeInv, NoWrap, AllStocked, NEW k \in Node, NodeStep(k)
  PROVE  AllStocked' /\ Progress
  <1>0. ASSUME NEW m \in Node
        PROVE  /\ NodeTypes(m) /\ m_bp_counter[m] \in Nat
               /\ \A f \in End(m) : published[m][f] \in Nat
    BY DEF TypeInv, NodeTypes, BpCounter
  <1>1. ASSUME NEW m \in Node, m # k
        PROVE  /\ m_bp_counter'[m] = m_bp_counter[m]
               /\ \A f \in End(m) : published'[m][f] = published[m][f] /\ queue'[m][f] = queue[m][f]
    <2>1. SameNode(m)
      BY <1>1, NodeFrame DEF TypeInv
    <2> QED BY <2>1 DEF SameNode
  <1>2. m_bp_counter[k] <= m_bp_counter'[k]
    <2>1. m_bp_counter'[k] \in {m_bp_counter[k], m_bp_counter[k] + 1}
      BY SenderSteps DEF Quiet, CountsOther, SendsNext
    <2> QED BY <1>0, <2>1
  <1>3. ASSUME NEW m \in Node, NEW f \in End(m), IsPub(m, f)
        PROVE  /\ Stocked(m, f)' /\ Sent(m, f) <= Sent(m, f)'
               /\ published[m][f] <= published'[m][f]
    <2>1. Stocked(m, f) /\ Sent(m, f) \in Nat
      BY <1>3, NextToSend DEF AllStocked
    <2>2. CASE NothingSent(m, f)
      <3>1. Stocked(m, f)' /\ Sent(m, f)' = Sent(m, f)
        BY <2>1, <2>2, StockedKept
      <3> QED BY <1>0, <2>1, <2>2, <3>1 DEF NothingSent
    <2>3. CASE m = k /\ \E e \in End(m) : SendsNext(m, e)
      <3>1. PICK e \in End(m) : SendsNext(m, e)
        BY <2>3
      <3>2. CASE e = f
        <4>1. Stocked(m, f)' /\ Sent(m, f)' = Sent(m, f) + 1
          BY <2>1, <3>1, <3>2, StockedTaken DEF SendsNext, SendsMessage
        <4> QED BY <1>0, <2>1, <3>1, <4>1 DEF SendsNext
      <3>3. CASE e # f
        BY <2>2, <3>1, <3>3 DEF SendsNext, NothingSent
      <3> QED BY <3>2, <3>3
    <2> QED BY <1>1, <1>3, <2>2, <2>3, SenderSteps DEF Quiet, CountsOther, NothingSent
  <1>4. Progress
    <2>1. ASSUME NEW m \in Node PROVE m_bp_counter[m] <= m_bp_counter'[m]
      <3>1. CASE m = k
        BY <1>2, <3>1
      <3>2. CASE m # k
        BY <1>0, <1>1, <3>2
      <3> QED BY <3>1, <3>2
    <2> QED BY <1>3, <2>1 DEF Progress
  <1> QED BY <1>3, <1>4 DEF AllStocked

LEMMA MadeKept ==
  ASSUME TypeInv, TypeInv', Progress, NEW d, Made(d)
  PROVE  Made(d)'
  <1>1. d.node \in Node /\ d.end \in End(d.node) /\ IsPub(d.node, d.end)
    BY DEF Made
  <1>2. /\ published[d.node][d.end] \in Nat /\ published'[d.node][d.end] \in Nat
        /\ published[d.node][d.end] <= published'[d.node][d.end]
    BY <1>1 DEF Progress, TypeInv, NodeTypes
  <1>3. d.seq \in 1..published'[d.node][d.end]
    BY <1>2 DEF Made
  <1> QED BY <1>1, <1>3 DEF Made

LEMMA GenuineKept ==
  ASSUME TypeInv, TypeInv', Grown, Progress, AllStocked, AllStocked', NEW m \in Node, NEW p,
         OnTopic(p), Genuine(m, p)
  PROVE  Genuine(m, p)'
  <1>1. p.counter \in 1..m_bp_counter'[m]
    <2>1. m_bp_counter[m] \in Nat /\ m_bp_counter'[m] \in Nat /\ m_bp_counter[m] <= m_bp_counter'[m]
      BY DEF Progress, TypeInv, NodeTypes, BpCounter
    <2> QED BY <2>1 DEF Genuine
  <1>2. ASSUME p.type = "Data"
        PROVE  /\ p.payload.node = m /\ Made(p.payload)'
               /\ p.payload.seq <= Sent(m, p.payload.end)'
               /\ p.message_type_id = B!At(m_topics', p.topic_id).message_type_id
    <2>1. /\ p.payload.node = m /\ Made(p.payload) /\ p.payload.seq <= Sent(m, p.payload.end)
          /\ p.message_type_id = B!At(m_topics, p.topic_id).message_type_id
      BY <1>2 DEF Genuine
    <2>2. Made(p.payload)'
      BY <2>1, MadeKept
    <2>3. /\ p.payload.end \in End(m) /\ IsPub(m, p.payload.end) /\ p.payload.seq \in Int
      BY <2>1 DEF Made
    <2>4. PICK f \in End(m) : f = p.payload.end
      BY <2>3
    <2>5. Sent(m, f) \in Nat /\ Sent(m, f)' \in Int /\ Sent(m, f) <= Sent(m, f)'
      <3>1. Sent(m, f) \in Nat
        BY <2>3, <2>4, NextToSend DEF AllStocked
      <3>2. published'[m][f] \in Nat /\ Len(queue'[m][f]) \in Nat
        BY LenProperties DEF TypeInv, NodeTypes
      <3>3. Sent(m, f)' \in Int
        BY <3>2 DEF Sent
      <3>4. Sent(m, f) <= Sent(m, f)'
        BY <2>3, <2>4 DEF Progress
      <3> QED BY <3>1, <3>3, <3>4
    <2>6. p.payload.seq <= Sent(m, f)'
      BY <2>1, <2>3, <2>4, <2>5
    <2>7. B!At(m_topics', p.topic_id).message_type_id = B!At(m_topics, p.topic_id).message_type_id
      BY <1>2 DEF OnTopic, IsTopicOf, Grown
    <2> QED BY <2>1, <2>2, <2>4, <2>6, <2>7
  <1> QED BY <1>1, <1>2 DEF Genuine
-----------------------------------------------------------------------------
\* Packets leave the uplink, change places there or are repeated.
LEMMA UplinkGenuineSub ==
  ASSUME TypeInv, TypeInv', Grown, Progress, AllStocked, AllStocked', UplinkOnTopic, UplinkGenuine,
         \A j \in 1..Len(to_broker') : \E k \in 1..Len(to_broker) : to_broker'[j] = to_broker[k],
         \A m \in Node : m_client_counters'[m] <= m_bp_counter'[m]
  PROVE  UplinkGenuine'
  <1>1. ASSUME NEW j \in 1..Len(to_broker')
        PROVE  Genuine(to_broker[j].from, to_broker[j].packet)'
    <2>1. PICK k \in 1..Len(to_broker) : to_broker'[j] = to_broker[k]
      OBVIOUS
    <2>2. PICK m, p : m = to_broker[k].from /\ p = to_broker[k].packet
      OBVIOUS
    <2>3. m \in Node
      <3>1. to_broker[k] \in Uplink
        BY ElementOfSeq DEF TypeInv
      <3> QED BY <2>2, <3>1 DEF Uplink
    <2>4. OnTopic(p) /\ Genuine(m, p)
      BY <2>2 DEF UplinkOnTopic, UplinkGenuine
    <2>5. Genuine(m, p)'
      BY <2>3, <2>4, GenuineKept
    <2> QED BY <2>1, <2>2, <2>5
  <1>2. Distinct(to_broker)'
    <2>1. PICK U, V : U = to_broker /\ V = to_broker'
      OBVIOUS
    <2>2. Distinct(U)
      BY <2>1 DEF UplinkGenuine
    <2>3. Distinct(V)
      <3> SUFFICES ASSUME NEW u \in 1..Len(V), NEW v \in 1..Len(V),
                          V[u].from = V[v].from, V[u].packet.counter = V[v].packet.counter
                   PROVE  V[u] = V[v]
        BY DEF Distinct
      <3>1. PICK x \in 1..Len(U), y \in 1..Len(U) : V[u] = U[x] /\ V[v] = U[y]
        BY <2>1
      <3> QED BY <2>2, <3>1 DEF Distinct
    <2> QED BY <2>1, <2>3
  <1> QED BY <1>1, <1>2 DEF UplinkGenuine

LEMMA UplinkGenuineSame ==
  ASSUME TypeInv, TypeInv', Grown, Progress, AllStocked, AllStocked', UplinkOnTopic, UplinkGenuine,
         to_broker' = to_broker, UNCHANGED m_client_counters
  PROVE  UplinkGenuine'
  <1>1. \A j \in 1..Len(to_broker') : \E k \in 1..Len(to_broker) : to_broker'[j] = to_broker[k]
    OBVIOUS
  <1>2. ASSUME NEW m \in Node PROVE m_client_counters'[m] <= m_bp_counter'[m]
    <2>1. /\ m_bp_counter[m] \in Nat /\ m_bp_counter'[m] \in Nat
          /\ m_bp_counter[m] <= m_bp_counter'[m] /\ m_client_counters[m] <= m_bp_counter[m]
      BY DEF TypeInv, NodeTypes, BpCounter, Progress, UplinkGenuine
    <2>2. m_client_counters[m] \in BpCounter \cup {-1}
      BY DEF TypeInv, B!TypeOK, B!BpCounter, BpCounter, B!NoCounter
    <2> QED BY <2>1, <2>2 DEF BpCounter
  <1> QED BY <1>1, <1>2, UplinkGenuineSub

\* A new packet of n.
LEMMA UplinkGenuineNew ==
  ASSUME TypeInv, TypeInv', Grown, Progress, AllStocked, AllStocked', UplinkOnTopic, UplinkGenuine,
         UNCHANGED m_client_counters,
         NEW n \in Node, NEW u \in Uplink, to_broker' = Append(to_broker, u), u.from = n,
         u.packet.counter = m_bp_counter[n] + 1, Genuine(n, u.packet)'
  PROVE  UplinkGenuine'
  <1>1. PICK U, V, b : U = to_broker /\ V = to_broker' /\ b = m_bp_counter[n]
    OBVIOUS
  <1>2. U \in Seq(Uplink) /\ b \in Nat /\ Distinct(U)
    BY <1>1 DEF TypeInv, NodeTypes, BpCounter, UplinkGenuine
  <1>3. \A x \in 1..Len(V) : (x \in 1..Len(U) /\ V[x] = U[x]) \/ V[x] = u
    BY <1>1, <1>2, AppendedElements
  <1>4. \A x \in 1..Len(U) : U[x].from = n => U[x].packet.counter \in 1..b
    BY <1>1 DEF UplinkGenuine, Genuine
  <1>5. \A x \in 1..Len(U) : U[x].from = n => U[x].packet.counter # u.packet.counter
    BY <1>1, <1>2, <1>4
  <1>6. Distinct(V)
    <2>1. ASSUME NEW x \in 1..Len(V), NEW y \in 1..Len(V),
                 V[x].from = V[y].from, V[x].packet.counter = V[y].packet.counter
          PROVE  V[x] = V[y]
      <3>1. CASE x \in 1..Len(U) /\ V[x] = U[x] /\ y \in 1..Len(U) /\ V[y] = U[y]
        BY <1>2, <2>1, <3>1 DEF Distinct
      <3>2. CASE V[x] = u
        BY <1>3, <1>5, <2>1, <3>2
      <3>3. CASE V[y] = u
        BY <1>3, <1>5, <2>1, <3>3
      <3> QED BY <1>3, <3>1, <3>2, <3>3
    <2> QED BY <2>1 DEF Distinct
  <1>7. ASSUME NEW x \in 1..Len(V) PROVE Genuine(V[x].from, V[x].packet)'
    <2>1. CASE V[x] = u
      BY <2>1
    <2>2. CASE x \in 1..Len(U) /\ V[x] = U[x]
      <3>1. U[x].from \in Node
        <4>1. U[x] \in Uplink
          BY <1>2, <2>2, ElementOfSeq
        <4> QED BY <4>1 DEF Uplink
      <3>2. OnTopic(U[x].packet) /\ Genuine(U[x].from, U[x].packet)
        BY <1>1, <2>2 DEF UplinkOnTopic, UplinkGenuine
      <3>3. Genuine(U[x].from, U[x].packet)'
        BY <3>1, <3>2, GenuineKept
      <3> QED BY <2>2, <3>3
    <2> QED BY <1>3, <2>1, <2>2
  <1>8. ASSUME NEW m \in Node PROVE m_client_counters'[m] <= m_bp_counter'[m]
    <2>1. /\ m_bp_counter[m] \in Nat /\ m_bp_counter'[m] \in Nat
          /\ m_bp_counter[m] <= m_bp_counter'[m] /\ m_client_counters[m] <= m_bp_counter[m]
      BY DEF TypeInv, NodeTypes, BpCounter, Progress, UplinkGenuine
    <2>2. m_client_counters[m] \in BpCounter \cup {-1}
      BY DEF TypeInv, B!TypeOK, B!BpCounter, BpCounter, B!NoCounter
    <2> QED BY <2>1, <2>2 DEF BpCounter
  <1>9. \A x \in 1..Len(to_broker') : Genuine(to_broker[x].from, to_broker[x].packet)'
    BY <1>1, <1>7
  <1> QED BY <1>1, <1>6, <1>8, <1>9 DEF UplinkGenuine

LEMMA UplinkGenuineNode ==
  ASSUME TypeInv, TypeInv', NoWrap, Grown, Progress, AllStocked, AllStocked', UplinkOnTopic,
         UplinkGenuine, NEW n \in Node, AgreeInv(n), NodeStep(n), UNCHANGED broker_vars
  PROVE  UplinkGenuine'
  <1>1. /\ NodeTypes(n) /\ m_bp_counter[n] \in BpCounter /\ m_bp_counter[n] \in Nat
        /\ UNCHANGED <<m_client_counters, m_topics>>
    BY DEF TypeInv, NodeTypes, BpCounter, broker_vars
  <1>2. NextCounter(m_bp_counter[n]) = m_bp_counter[n] + 1 /\ NextCounter(m_bp_counter[n]) \in BpCounter
    BY <1>1, CounterSteps, Counters DEF NoWrap
  <1>3. CASE to_broker' = to_broker
    BY <1>1, <1>3, UplinkGenuineSame
  <1>4. CASE SendsRequest(n)
    <2> DEFINE u == [from |-> n, packet |-> ControlPacket(NextCounter(m_bp_counter[n]), Request(n))]
    <2>1. Request(n) \in Asked
      BY <1>4, RequestAsked DEF SendsRequest
    <2>2. u \in Uplink /\ to_broker' = Append(to_broker, u)
      BY <1>2, <1>4, <2>1, PacketsMade DEF SendsRequest
    <2>3. /\ u.from = n /\ u.packet.counter = m_bp_counter[n] + 1
          /\ u.packet.type # "Data" /\ m_bp_counter'[n] = m_bp_counter[n] + 1
      BY <1>2, <1>4 DEF ControlPacket, SendsRequest
    <2>4. PICK v : v = u
      OBVIOUS
    <2> HIDE DEF u
    <2>5. Genuine(n, v.packet)'
      BY <1>1, <2>3, <2>4 DEF Genuine
    <2> QED BY <1>1, <2>2, <2>3, <2>4, <2>5, UplinkGenuineNew
  <1>5. ASSUME NEW e \in End(n), SendsNext(n, e) PROVE UplinkGenuine'
    <2> DEFINE d == Head(queue[n][e])
               id == ids[n][e].topic_id
               t == ids[n][e].message_type_id
               u == [from |-> n, packet |-> DataPacket(NextCounter(m_bp_counter[n]), id, t, d)]
    <2>1. queue[n][e] \in Seq(Payloads) /\ queue[n][e] # <<>> /\ IsPub(n, e) /\ Stocked(n, e)
      BY <1>1, <1>5 DEF NodeTypes, SendsNext, SendsMessage, AllStocked
    <2>2. d \in Payloads /\ id \in Nat /\ t \in Nat
      BY <1>1, <2>1, TailOfQueue DEF NodeTypes, Ids
    <2>3. u \in Uplink /\ to_broker' = Append(to_broker, u)
      BY <1>2, <1>5, <2>2, PacketsMade DEF SendsNext, SendsMessage
    <2>4. /\ u.from = n /\ u.packet.counter = m_bp_counter[n] + 1 /\ u.packet.payload = d
          /\ u.packet.topic_id = id /\ u.packet.message_type_id = t
          /\ m_bp_counter'[n] = m_bp_counter[n] + 1
      BY <1>2, <1>5 DEF DataPacket, SendsNext
    <2>5. d = Message(n, e, Sent(n, e) + 1) /\ Sent(n, e) \in Nat /\ Sent(n, e) < published[n][e]
      BY <2>1, NextToSend
    <2>6. d.node = n /\ d.end = e /\ d.seq = Sent(n, e) + 1
      BY <2>5 DEF Message
    <2>7. Sent(n, e)' = Sent(n, e) + 1 /\ published'[n][e] = published[n][e]
      BY <1>5, <2>1, StockedTaken DEF SendsNext
    <2>8. t = B!At(m_topics', id).message_type_id
      <3>1. EndpointAgrees(n, e)
        BY <1>5, ConnectedAgrees DEF SendsNext, SendsMessage, Connected
      <3> QED BY <1>1, <3>1 DEF EndpointAgrees
    <2>9. PICK v, w : v = u /\ w = d
      OBVIOUS
    <2> HIDE DEF u, d, id, t
    <2>10. Made(w)'
      <3>1. published[n][e] \in Nat
        BY <1>1 DEF NodeTypes
      <3>2. w.seq \in 1..published'[n][e]
        BY <2>5, <2>6, <2>7, <2>9, <3>1
      <3> QED BY <2>1, <2>6, <2>9, <3>2 DEF Made
    <2>11. w.seq <= Sent(n, w.end)'
      BY <2>5, <2>6, <2>7, <2>9
    <2>12. v.packet.payload = w /\ v.packet.message_type_id = B!At(m_topics', v.packet.topic_id).message_type_id
      BY <2>4, <2>8, <2>9
    <2>13. v.packet.counter \in 1..m_bp_counter'[n]
      BY <1>1, <2>4, <2>9
    <2>14. Genuine(n, v.packet)'
      BY <2>6, <2>9, <2>10, <2>11, <2>12, <2>13 DEF Genuine
    <2> QED BY <1>1, <2>3, <2>4, <2>9, <2>14, UplinkGenuineNew
  <1> QED BY <1>3, <1>4, <1>5, SenderSteps DEF Quiet, CountsOther
-----------------------------------------------------------------------------
(***************************************************************************)
(* What a step of a node does to one of its subscribers.                    *)
(***************************************************************************)
Undisturbed(n, e) ==
  to_node'[n] = to_node[n] /\ queue'[n][e] = queue[n][e] /\ delivered'[n][e] = delivered[n][e]

\* The packet at the front of the inbox is for e.
FrontIsFor(n, e) == Head(to_node[n]).type = "Data" /\ Head(to_node[n]).topic_id = ids[n][e].topic_id

DropsFront(n, e) ==
  /\ to_node[n] # <<>> /\ to_node'[n] = Tail(to_node[n])
  /\ queue'[n][e] = queue[n][e] /\ delivered'[n][e] = delivered[n][e]
  /\ queue[n][e] = <<>>
  /\ Connected(n) => ~FrontIsFor(n, e)

TakesFront(n, e) ==
  /\ Connected(n)
  /\ to_node[n] # <<>> /\ to_node'[n] = Tail(to_node[n])
  /\ FrontIsFor(n, e)
  /\ queue[n][e] = <<>> /\ queue'[n][e] = <<Head(to_node[n]).payload>>
  /\ delivered'[n][e] = delivered[n][e]

Shows(n, e) ==
  /\ Connected(n) /\ to_node'[n] = to_node[n]
  /\ Len(queue[n][e]) = 1 /\ queue'[n][e] = <<>>
  /\ delivered'[n][e] = Append(delivered[n][e], queue[n][e][1])

LEMMA SubscriberSteps ==
  ASSUME TypeInv, NEW n \in Node, ServedThisRound(n), NodeStep(n), NEW e \in End(n), IsSub(n, e)
  PROVE  /\ Connected(n) => Connected(n)'
         /\ Undisturbed(n, e) \/ DropsFront(n, e) \/ TakesFront(n, e) \/ Shows(n, e)
  <1>0. /\ Domains /\ NodeTypes(n) /\ ~IsPub(n, e) /\ queue[n][e] \in Seq(Payloads)
        /\ Len(queue[n][e]) \in Nat
    BY LenProperties DEF TypeInv, NodeTypes, IsSub, IsPub
  <1>1. CASE connect(n) \/ send_control(n)
    BY <1>0, <1>1 DEF connect, send_control, Connected, local, Undisturbed
  <1>2. CASE SpinReturn(n)
    <2>1. pc'[n] = "idle" /\ Undisturbed(n, e)
      BY <1>0, <1>2 DEF SpinReturn, Goto, Undisturbed, Domains
    <2> QED BY <2>1 DEF Connected
  <1>3. CASE receive_response(n)
    <2>1. /\ ~Connected(n) /\ queue'[n][e] = queue[n][e] /\ delivered'[n][e] = delivered[n][e]
          /\ \/ to_node[n] # <<>> /\ to_node'[n] = Tail(to_node[n])
             \/ to_node'[n] = to_node[n]
      BY <1>0, <1>3 DEF receive_response, Connected, Domains
    <2>2. queue[n][e] = <<>>
      BY <1>3 DEF receive_response, ServedThisRound
    <2> QED BY <2>1, <2>2 DEF Undisturbed, DropsFront
  <1>4. CASE SpinReceive(n)
    <2>1. /\ pc[n] = "idle" /\ pc'[n] = "spin" /\ delivered' = delivered
      BY <1>0, <1>4 DEF SpinReceive, Goto, Domains
    <2>2. queue[n][e] = <<>>
      BY <2>1 DEF ServedThisRound
    <2>3. Connected(n) /\ Connected(n)'
      BY <2>1 DEF Connected
    <2>4. CASE UNCHANGED <<queue, to_node>>
      BY <2>1, <2>3, <2>4 DEF Undisturbed
    <2>5. CASE /\ to_node[n] # <<>> /\ process_incoming_message(n, Head(to_node[n]))
               /\ to_node' = [to_node EXCEPT ![n] = Tail(@)]
      <3> DEFINE p == Head(to_node[n])
      <3>1. to_node'[n] = Tail(to_node[n])
        BY <1>0, <2>5 DEF Domains
      <3>2. ~full(n, e)
        <4>1. Len(queue[n][e]) = 0
          BY <2>2
        <4> QED BY <4>1, BoundAssumption DEF full
      <3>3. CASE FrontIsFor(n, e)
        <4>1. p.type = "Data" /\ e \in Subscribers(n, p.topic_id)
          BY <3>3 DEF FrontIsFor, Subscribers
        <4>2. queue'[n][e] = Append(queue[n][e], p.payload)
          BY <1>0, <2>5, <3>2, <4>1 DEF process_incoming_message, Domains
        <4>3. queue'[n][e] = <<p.payload>>
          BY <2>2, <4>2
        <4> QED BY <2>1, <2>2, <2>3, <2>5, <3>1, <3>3, <4>3 DEF TakesFront
      <3>4. CASE ~FrontIsFor(n, e)
        <4>1. p.type # "Data" \/ e \notin Subscribers(n, p.topic_id)
          BY <3>4 DEF FrontIsFor, Subscribers
        <4>2. queue'[n][e] = queue[n][e]
          BY <1>0, <2>5, <4>1 DEF process_incoming_message, Domains
        <4> QED BY <2>1, <2>2, <2>3, <2>5, <3>1, <3>4, <4>2 DEF DropsFront
      <3> QED BY <3>3, <3>4
    <2> QED BY <1>4, <2>4, <2>5 DEF SpinReceive
  <1>5. ASSUME NEW f \in End(n), publish(n, f) PROVE Undisturbed(n, e) /\ (Connected(n) => Connected(n)')
    <2>1. f # e /\ queue'[n] = [queue[n] EXCEPT ![f] = Append(@, Message(n, f, published[n][f] + 1))]
      BY <1>0, <1>5 DEF publish, Domains
    <2>2. queue'[n][e] = queue[n][e]
      BY <1>0, <2>1 DEF NodeTypes
    <2> QED BY <1>5, <2>2 DEF publish, Undisturbed, Connected
  <1>6. ASSUME NEW f \in End(n), send_data(n, f) PROVE Undisturbed(n, e) /\ (Connected(n) => Connected(n)')
    <2>1. /\ f # e /\ UNCHANGED <<delivered, to_node>>
          /\ \/ queue' = queue
             \/ queue'[n] = [queue[n] EXCEPT ![f] = Tail(@)]
      BY <1>0, <1>6 DEF send_data, Domains
    <2>2. queue'[n][e] = queue[n][e]
      BY <1>0, <2>1 DEF NodeTypes
    <2>3. pc'[n] \in {"idle", "spin"}
      BY <1>0, <1>6 DEF send_data, Reaches, Goto, Domains
    <2> QED BY <2>1, <2>2, <2>3 DEF Undisturbed, Connected
  <1>7. ASSUME NEW f \in End(n), run_callback(n, f)
        PROVE  (Undisturbed(n, e) \/ Shows(n, e)) /\ (Connected(n) => Connected(n)')
    <2>1. /\ queue'[n] = [queue[n] EXCEPT ![f] = Tail(queue[n][f])]
          /\ delivered'[n] = [delivered[n] EXCEPT ![f] = Append(delivered[n][f], Head(queue[n][f]))]
          /\ UNCHANGED <<pc, to_node>> /\ pc[n] = "spin" /\ queue[n][f] # <<>>
      BY <1>0, <1>7 DEF run_callback, ShowFront, Reaches, Domains
    <2>2. CASE f # e
      BY <1>0, <2>1, <2>2 DEF NodeTypes, Undisturbed, Connected
    <2>3. CASE f = e
      <3>1. Len(queue[n][e]) = 1
        BY <2>1, <2>3 DEF ServedThisRound
      <3>2. /\ Tail(queue[n][e]) \in Seq(Payloads) /\ Len(Tail(queue[n][e])) = 0
            /\ Head(queue[n][e]) = queue[n][e][1]
        BY <1>0, <2>1, <2>3, <3>1, TailOfQueue
      <3>3. Tail(queue[n][e]) = <<>>
        BY <3>2, EmptySeq
      <3>4. queue'[n][e] = <<>> /\ delivered'[n][e] = Append(delivered[n][e], queue[n][e][1])
        BY <1>0, <2>1, <2>3, <3>2, <3>3 DEF NodeTypes
      <3> QED BY <2>1, <3>1, <3>4 DEF Shows, Connected
    <2> QED BY <2>2, <2>3
  <1> QED BY <1>1, <1>2, <1>3, <1>4, <1>5, <1>6, <1>7 DEF NodeStep
-----------------------------------------------------------------------------
(***************************************************************************)
(* The last message that was shown, and the last that left the inbox.       *)
(***************************************************************************)
LEMMA MaxIs ==
  ASSUME NEW S, S \subseteq Nat, NEW x \in S, \A y \in S : y <= x
  PROVE  Max(S) = x
  <1>1. \A y \in S : x >= y
    OBVIOUS
  <1>2. ASSUME NEW z \in S, \A y \in S : z >= y PROVE z = x
    <2>1. z >= x /\ x >= z /\ z \in Nat /\ x \in Nat
      BY <1>1, <1>2
    <2> QED BY <2>1
  <1> QED BY <1>1, <1>2 DEF Max

LEMMA LastShownKept ==
  ASSUME NEW n, NEW e, delivered'[n][e] = delivered[n][e], NEW m, NEW f
  PROVE  /\ LastShown(<<n, e>>, <<m, f>>)' = LastShown(<<n, e>>, <<m, f>>)
         /\ ShownAt(n, e, m, f)' = ShownAt(n, e, m, f)
  <1>1. ShownAt(n, e, m, f)' = ShownAt(n, e, m, f)
    BY DEF ShownAt
  <1>2. LastShown(<<n, e>>, <<m, f>>) =
          IF ShownAt(n, e, m, f) = {} THEN 0 ELSE delivered[n][e][Max(ShownAt(n, e, m, f))].seq
    BY DEF LastShown, ShownAt
  <1>3. LastShown(<<n, e>>, <<m, f>>)' =
          IF ShownAt(n, e, m, f)' = {} THEN 0 ELSE delivered'[n][e][Max(ShownAt(n, e, m, f)')].seq
    BY DEF LastShown, ShownAt
  <1> QED BY <1>1, <1>2, <1>3

LEMMA LastShownIs ==
  ASSUME TypeInv, NEW n \in Node, NEW e \in End(n), NEW m, NEW f
  PROVE  /\ ShownAt(n, e, m, f) \subseteq 1..Len(delivered[n][e])
         /\ ShownAt(n, e, m, f) = {} => LastShown(<<n, e>>, <<m, f>>) = 0
         /\ \A x \in ShownAt(n, e, m, f) :
              (\A y \in ShownAt(n, e, m, f) : y <= x) =>
                /\ LastShown(<<n, e>>, <<m, f>>) = delivered[n][e][x].seq
                /\ LastShown(<<n, e>>, <<m, f>>) \in Nat
  <1>1. delivered[n][e] \in Seq(Payloads) /\ DOMAIN delivered[n][e] = 1..Len(delivered[n][e])
    BY LenProperties DEF TypeInv, NodeTypes
  <1>2. ShownAt(n, e, m, f) \subseteq 1..Len(delivered[n][e])
    BY <1>1 DEF ShownAt
  <1>3. LastShown(<<n, e>>, <<m, f>>) =
          IF ShownAt(n, e, m, f) = {} THEN 0 ELSE delivered[n][e][Max(ShownAt(n, e, m, f))].seq
    BY DEF LastShown, ShownAt
  <1>4. ASSUME NEW x \in ShownAt(n, e, m, f), \A y \in ShownAt(n, e, m, f) : y <= x
        PROVE  /\ LastShown(<<n, e>>, <<m, f>>) = delivered[n][e][x].seq
               /\ LastShown(<<n, e>>, <<m, f>>) \in Nat
    <2>1. Max(ShownAt(n, e, m, f)) = x
      <3>1. ShownAt(n, e, m, f) \subseteq Nat
        BY <1>2
      <3> QED BY <1>4, <3>1, MaxIs
    <2>2. LastShown(<<n, e>>, <<m, f>>) = delivered[n][e][x].seq
      BY <1>3, <2>1
    <2>3. delivered[n][e][x] \in Payloads
      BY <1>1, <1>2, ElementOfSeq
    <2> QED BY <2>2, <2>3 DEF Payloads, Plain
  <1> QED BY <1>2, <1>3, <1>4

LEMMA LastShownNat ==
  ASSUME TypeInv, NEW n \in Node, NEW e \in End(n), ShownSoFar(n, e),
         NEW m \in Node, NEW f \in End(m)
  PROVE  /\ LastShown(<<n, e>>, <<m, f>>) \in Nat
         /\ ~Connected(n) => LastShown(<<n, e>>, <<m, f>>) = 0
  <1>1. CASE ShownAt(n, e, m, f) = {}
    BY <1>1, LastShownIs
  <1>2. CASE ShownAt(n, e, m, f) # {}
    <2>1. PICK x \in ShownAt(n, e, m, f) : \A y \in ShownAt(n, e, m, f) : y <= x
      BY <1>2 DEF ShownSoFar, HasLast
    <2>2. x \in 1..Len(delivered[n][e])
      BY LastShownIs
    <2>3. delivered[n][e] # <<>>
      <3>1. Len(<<>>) = 0
        OBVIOUS
      <3> QED BY <2>2, <3>1
    <2> QED BY <2>1, <2>3, LastShownIs DEF ShownSoFar
  <1> QED BY <1>1, <1>2

LEMMA LastShownNext ==
  ASSUME TypeInv, TypeInv', NEW n \in Node, NEW e \in End(n), ShownSoFar(n, e), NEW d \in Payloads,
         delivered'[n][e] = Append(delivered[n][e], d), NEW m \in Node, NEW f \in End(m)
  PROVE  /\ LastShown(<<n, e>>, <<m, f>>)' =
              IF d.node = m /\ d.end = f THEN d.seq ELSE LastShown(<<n, e>>, <<m, f>>)
         /\ HasLast(n, e, m, f)'
  <1> DEFINE old == delivered[n][e]
             new == delivered'[n][e]
             S == ShownAt(n, e, m, f)
             T == ShownAt(n, e, m, f)'
  <1>1. /\ old \in Seq(Payloads) /\ Len(old) \in Nat /\ DOMAIN old = 1..Len(old)
        /\ new \in Seq(Payloads) /\ DOMAIN new = 1..Len(new)
    BY LenProperties DEF TypeInv, NodeTypes
  <1>2. /\ Len(new) = Len(old) + 1 /\ new[Len(old) + 1] = d
        /\ \A i \in 1..Len(old) : new[i] = old[i]
    BY <1>1, AppendProperties
  <1>3. /\ S = {i \in 1..Len(old) : old[i].node = m /\ old[i].end = f}
        /\ T = {i \in 1..Len(new) : new[i].node = m /\ new[i].end = f}
    BY <1>1 DEF ShownAt
  <1>a. /\ T = {} => LastShown(<<n, e>>, <<m, f>>)' = 0
        /\ \A x \in T : (\A y \in T : y <= x) => LastShown(<<n, e>>, <<m, f>>)' = new[x].seq
    <2>1. DOMAIN new = 1..Len(new) /\ T \subseteq Nat
      BY <1>1, <1>3
    <2>2. LastShown(<<n, e>>, <<m, f>>)' = IF T = {} THEN 0 ELSE new[Max(T)].seq
      BY DEF LastShown, ShownAt
    <2>3. ASSUME NEW x \in T, \A y \in T : y <= x PROVE Max(T) = x
      BY <2>1, <2>3, MaxIs
    <2> HIDE DEF T
    <2> QED BY <2>2, <2>3
  <1>b. /\ S = {} => LastShown(<<n, e>>, <<m, f>>) = 0
        /\ \A x \in S : (\A y \in S : y <= x) => LastShown(<<n, e>>, <<m, f>>) = old[x].seq
    <2>1. S = {} => LastShown(<<n, e>>, <<m, f>>) = 0
      BY LastShownIs
    <2>2. ASSUME NEW x \in S, \A y \in S : y <= x PROVE LastShown(<<n, e>>, <<m, f>>) = old[x].seq
      BY <2>2, LastShownIs
    <2> QED BY <2>1, <2>2
  <1>c. S # {} => \E x \in S : \A y \in S : y <= x
    BY DEF ShownSoFar, HasLast
  <1>d. SUFFICES /\ LastShown(<<n, e>>, <<m, f>>)' =
                      IF d.node = m /\ d.end = f THEN d.seq ELSE LastShown(<<n, e>>, <<m, f>>)
                 /\ T # {} => \E x \in T : \A y \in T : y <= x
    BY DEF HasLast
  <1> HIDE DEF old, new, S, T
  <1>4. CASE d.node = m /\ d.end = f
    <2>1. Len(old) + 1 \in T /\ \A y \in T : y <= Len(old) + 1
      BY <1>1, <1>2, <1>3, <1>4
    <2> QED BY <1>2, <1>4, <1>a, <2>1
  <1>5. CASE ~(d.node = m /\ d.end = f)
    <2>1. T = S
      <3>1. ASSUME NEW i PROVE i \in T <=> i \in S
        <4>1. i \in 1..Len(new) <=> i \in 1..Len(old) \/ i = Len(old) + 1
          BY <1>1, <1>2
        <4> QED BY <1>2, <1>3, <1>5, <4>1
      <3> QED BY <3>1
    <2>2. CASE S = {}
      BY <1>5, <1>a, <1>b, <2>1, <2>2
    <2>3. CASE S # {}
      <3>1. PICK x \in S : \A y \in S : y <= x
        BY <1>c, <2>3
      <3>2. new[x] = old[x]
        BY <1>2, <1>3
      <3> QED BY <1>5, <1>a, <1>b, <2>1, <3>1, <3>2
    <2> QED BY <2>2, <2>3
  <1> QED BY <1>4, <1>5
LEMMA TakenIs ==
  ASSUME NEW n, NEW e, NEW m, NEW f
  PROVE  /\ queue[n][e] = <<>> => Taken(n, e, m, f) = LastShown(<<n, e>>, <<m, f>>)
         /\ Len(queue[n][e]) = 1 =>
              Taken(n, e, m, f) = IF queue[n][e][1].node = m /\ queue[n][e][1].end = f
                                  THEN queue[n][e][1].seq ELSE LastShown(<<n, e>>, <<m, f>>)
  <1>1. ASSUME queue[n][e] = <<>> PROVE Taken(n, e, m, f) = LastShown(<<n, e>>, <<m, f>>)
    <2>1. Len(queue[n][e]) = 0
      BY <1>1
    <2> QED BY <2>1 DEF Taken
  <1>2. ASSUME Len(queue[n][e]) = 1
        PROVE  Taken(n, e, m, f) = IF queue[n][e][1].node = m /\ queue[n][e][1].end = f
                                   THEN queue[n][e][1].seq ELSE LastShown(<<n, e>>, <<m, f>>)
    <2>1. \A i : i \in 1..Len(queue[n][e]) <=> i = 1
      BY <1>2
    <2> QED BY <2>1 DEF Taken
  <1> QED BY <1>1, <1>2

LEMMA TakenIsNext ==
  ASSUME NEW n, NEW e, NEW m, NEW f
  PROVE  /\ queue'[n][e] = <<>> => Taken(n, e, m, f)' = LastShown(<<n, e>>, <<m, f>>)'
         /\ \A d : queue'[n][e] = <<d>> =>
              Taken(n, e, m, f)' = IF d.node = m /\ d.end = f
                                   THEN d.seq ELSE LastShown(<<n, e>>, <<m, f>>)'
  <1>1. ASSUME queue'[n][e] = <<>> PROVE Taken(n, e, m, f)' = LastShown(<<n, e>>, <<m, f>>)'
    <2>1. Len(queue'[n][e]) = 0
      BY <1>1
    <2> QED BY <2>1 DEF Taken
  <1>2. ASSUME NEW d, queue'[n][e] = <<d>>
        PROVE  Taken(n, e, m, f)' = IF d.node = m /\ d.end = f
                                    THEN d.seq ELSE LastShown(<<n, e>>, <<m, f>>)'
    <2>1. Len(queue'[n][e]) = 1 /\ queue'[n][e][1] = d
      BY <1>2
    <2>2. \A i : i \in 1..Len(queue'[n][e]) <=> i = 1
      BY <2>1
    <2> QED BY <2>1, <2>2 DEF Taken
  <1> QED BY <1>1, <1>2

\* Topics have different names.
LEMMA OneTopicId ==
  ASSUME TypeInv, BrokerInv, NEW i, NEW j, NEW m, NEW f, NEW n, NEW e,
         IsTopicOf(i, m, f), IsTopicOf(j, n, e), Endpoint[n][e].topic = Endpoint[m][f].topic
  PROVE  i = j
  <1>1. /\ i \in Nat /\ j \in Nat /\ i < Len(m_topics) /\ j < Len(m_topics)
        /\ m_topics[i + 1].name = m_topics[j + 1].name
    BY DEF IsTopicOf, B!Known, B!At
  <1>2. Len(m_topics) \in Nat
    BY LenProperties DEF TypeInv, B!TypeOK
  <1>3. BP!NamesUnique(m_topics)
    BY DEF BrokerInv, BP!RegistryInv
  <1>4. i + 1 \in 1..Len(m_topics) /\ j + 1 \in 1..Len(m_topics)
    BY <1>1, <1>2
  <1>5. i + 1 = j + 1
    BY <1>1, <1>3, <1>4 DEF BP!NamesUnique
  <1> QED BY <1>1, <1>5

\* A node tells by the topic id whether a message is for a subscriber.
LEMMA FrontMatches ==
  ASSUME TypeInv, BrokerInv, NEW n \in Node, NEW e \in End(n), AgreeInv(n), Connected(n),
         NEW m, NEW f, SameTopic(n, e, m, f), NEW p, OnTopic(p), Matches(p, m, f)
  PROVE  p.topic_id = ids[n][e].topic_id
  <1>1. IsTopicOf(p.topic_id, m, f) /\ IsTopicOf(ids[n][e].topic_id, n, e)
    BY ConnectedTopic DEF OnTopic, Matches
  <1>2. Endpoint[n][e].topic = Endpoint[m][f].topic
    BY DEF SameTopic
  <1> QED BY <1>1, <1>2, OneTopicId

\* The front of an inbox.
LEMMA FrontOfInbox ==
  ASSUME TypeInv, NEW n \in Node, to_node[n] # <<>>
  PROVE  /\ Len(to_node[n]) \in Nat \ {0} /\ 1 \in 1..Len(to_node[n])
         /\ Head(to_node[n]) = to_node[n][1] /\ Head(to_node[n]) \in Downlink
         /\ Len(Tail(to_node[n])) = Len(to_node[n]) - 1
         /\ \A i \in 1..(Len(to_node[n]) - 1) : Tail(to_node[n])[i] = to_node[n][i + 1]
  <1>1. to_node[n] \in Seq(Downlink)
    BY DEF TypeInv, NodeTypes
  <1>2. /\ Len(to_node[n]) \in Nat \ {0}
        /\ Head(to_node[n]) = to_node[n][1] /\ Head(to_node[n]) \in Downlink
        /\ Len(Tail(to_node[n])) = Len(to_node[n]) - 1
        /\ \A i \in 1..(Len(to_node[n]) - 1) : Tail(to_node[n])[i] = to_node[n][i + 1]
    BY <1>1, TailOfQueue
  <1> QED BY <1>2

(***************************************************************************)
(* A step of a node keeps the line of messages from the inbox down to the   *)
(* callback.                                                                *)
(***************************************************************************)
LEMMA LineDown ==
  ASSUME TypeInv, TypeInv', BrokerInv, NEW n \in Node, NEW e \in End(n), IsSub(n, e), AgreeInv(n),
         InboxOnTopic(n), ServedThisRound(n), ShownSoFar(n, e),
         NEW m \in Node, NEW f \in End(m), SameTopic(n, e, m, f),
         NEW k \in Node, NodeStep(k), NEW U, NEW c \in Int, NEW b, NEW s,
         Line(to_node[n], U, c, b, s, Taken(n, e, m, f), m, f)
  PROVE  Line(to_node'[n], U, c, b, s, Taken(n, e, m, f)', m, f)
  <1>a. /\ queue'[n][e] = <<>> => Taken(n, e, m, f)' = LastShown(<<n, e>>, <<m, f>>)'
        /\ \A d : queue'[n][e] = <<d>> =>
             Taken(n, e, m, f)' = IF d.node = m /\ d.end = f
                                  THEN d.seq ELSE LastShown(<<n, e>>, <<m, f>>)'
    BY TakenIsNext
  <1>b. /\ queue[n][e] = <<>> => Taken(n, e, m, f) = LastShown(<<n, e>>, <<m, f>>)
        /\ Len(queue[n][e]) = 1 =>
             Taken(n, e, m, f) = IF queue[n][e][1].node = m /\ queue[n][e][1].end = f
                                 THEN queue[n][e][1].seq ELSE LastShown(<<n, e>>, <<m, f>>)
    BY TakenIs
  <1>1. CASE Undisturbed(n, e)
    <2>1. LastShown(<<n, e>>, <<m, f>>)' = LastShown(<<n, e>>, <<m, f>>)
      BY <1>1, LastShownKept DEF Undisturbed
    <2>2. Taken(n, e, m, f)' = Taken(n, e, m, f)
      BY <1>1, <2>1 DEF Undisturbed, Taken
    <2> QED BY <1>1, <2>2 DEF Undisturbed
  <1>2. CASE Shows(n, e)
    <2>1. PICK d : d = queue[n][e][1]
      OBVIOUS
    <2>2. d \in Payloads
      <3>1. queue[n][e] \in Seq(Payloads) /\ 1 \in 1..Len(queue[n][e])
        BY <1>2 DEF TypeInv, NodeTypes, Shows
      <3> QED BY <2>1, <3>1, ElementOfSeq
    <2>3. LastShown(<<n, e>>, <<m, f>>)' =
            IF d.node = m /\ d.end = f THEN d.seq ELSE LastShown(<<n, e>>, <<m, f>>)
      BY <1>2, <2>1, <2>2, LastShownNext DEF Shows
    <2>4. Taken(n, e, m, f)' = Taken(n, e, m, f)
      BY <1>2, <1>a, <1>b, <2>1, <2>3 DEF Shows
    <2> QED BY <1>2, <2>4 DEF Shows
  <1>3. CASE DropsFront(n, e) \/ TakesFront(n, e)
    <2>1. PICK I, J, h, g : /\ I = to_node[n] /\ J = to_node'[n]
                            /\ h = Taken(n, e, m, f) /\ g = Taken(n, e, m, f)'
      OBVIOUS
    <2>2. /\ Len(I) \in Nat /\ Len(J) \in Nat /\ Len(I) = Len(J) + 1
          /\ \A i \in 1..Len(J) : J[i] = I[i + 1]
      <3>1. to_node[n] # <<>> /\ J = Tail(I)
        BY <1>3, <2>1 DEF DropsFront, TakesFront
      <3>2. /\ Len(I) \in Nat \ {0} /\ Len(Tail(I)) = Len(I) - 1
            /\ \A i \in 1..(Len(I) - 1) : Tail(I)[i] = I[i + 1]
        BY <2>1, <3>1, FrontOfInbox
      <3> QED BY <3>1, <3>2
    <2>3. /\ I[1] = Head(to_node[n]) /\ OnTopic(I[1])
      BY <1>3, <2>1, FrontOfInbox DEF DropsFront, TakesFront, InboxOnTopic
    <2>4. h = LastShown(<<n, e>>, <<m, f>>) /\ LastShown(<<n, e>>, <<m, f>>)' = h
      BY <1>3, <1>b, <2>1, LastShownKept DEF DropsFront, TakesFront
    <2>5. \/ g = 0
          \/ Matches(I[1], m, f) /\ g = I[1].payload.seq
          \/ ~Matches(I[1], m, f) /\ g = h
      <3>1. CASE DropsFront(n, e)
        <4>1. g = h
          BY <1>a, <2>1, <2>4, <3>1 DEF DropsFront
        <4>2. CASE Connected(n)
          <5>1. ~FrontIsFor(n, e)
            BY <3>1, <4>2 DEF DropsFront
          <5>2. ~Matches(I[1], m, f)
            BY <2>3, <4>2, <5>1, FrontMatches DEF FrontIsFor, Matches
          <5> QED BY <4>1, <5>2
        <4>3. CASE ~Connected(n)
          BY <2>4, <4>1, <4>3, LastShownNat
        <4> QED BY <4>2, <4>3
      <3>2. CASE TakesFront(n, e)
        <4>1. queue'[n][e] = <<I[1].payload>> /\ I[1].type = "Data"
          BY <2>3, <3>2 DEF TakesFront, FrontIsFor
        <4>2. g = IF I[1].payload.node = m /\ I[1].payload.end = f THEN I[1].payload.seq ELSE h
          BY <1>a, <2>1, <2>4, <4>1
        <4> QED BY <4>1, <4>2 DEF Matches
      <3> QED BY <1>3, <3>1, <3>2
    <2>6. Line(I, U, c, b, s, h, m, f)
      BY <2>1
    <2>7. Line(J, U, c, b, s, g, m, f)
      BY <2>2, <2>5, <2>6, LineShift
    <2> QED BY <2>1, <2>7
  <1>4. CASE k = n
    BY <1>1, <1>2, <1>3, <1>4, SubscriberSteps
  <1>5. CASE k # n
    <2>1. SameNode(n)
      BY <1>5, NodeFrame DEF TypeInv
    <2> QED BY <1>1, <2>1 DEF SameNode, Undisturbed
  <1> QED BY <1>4, <1>5
-----------------------------------------------------------------------------
LEMMA ShownSoFarKept ==
  ASSUME TypeInv, TypeInv', NEW n \in Node, NEW e \in End(n), ShownSoFar(n, e),
         Connected(n) => Connected(n)',
         \/ delivered'[n][e] = delivered[n][e]
         \/ Connected(n) /\ \E d \in Payloads : delivered'[n][e] = Append(delivered[n][e], d)
  PROVE  ShownSoFar(n, e)'
  <1>1. delivered'[n][e] # <<>> => Connected(n)'
    BY DEF ShownSoFar
  <1>2. ASSUME NEW m \in Node, NEW f \in End(m) PROVE HasLast(n, e, m, f)'
    <2>1. CASE delivered'[n][e] = delivered[n][e]
      <3>1. ShownAt(n, e, m, f)' = ShownAt(n, e, m, f)
        BY <2>1, LastShownKept
      <3> QED BY <3>1 DEF ShownSoFar, HasLast
    <2>2. ASSUME NEW d \in Payloads, delivered'[n][e] = Append(delivered[n][e], d)
          PROVE  HasLast(n, e, m, f)'
      BY <2>2, LastShownNext
    <2> QED BY <2>1, <2>2
  <1> QED BY <1>1, <1>2 DEF ShownSoFar

LEMMA QueueFollowsKept ==
  ASSUME TypeInv, TypeInv', Progress, NEW n \in Node, NEW e \in End(n), QueueFollows(n, e),
         queue'[n][e] = queue[n][e], delivered'[n][e] = delivered[n][e]
  PROVE  QueueFollows(n, e)'
  <1>1. ASSUME NEW d \in Payloads, \E i \in 1..Len(queue'[n][e]) : queue'[n][e][i] = d
        PROVE  FollowsLast(n, e, d)'
    <2>1. FollowsLast(n, e, d)
      BY <1>1 DEF QueueFollows
    <2>2. Made(d)'
      BY <2>1, MadeKept DEF FollowsLast
    <2>3. LastShown(<<n, e>>, <<d.node, d.end>>)' = LastShown(<<n, e>>, <<d.node, d.end>>)
      BY LastShownKept
    <2> QED BY <2>1, <2>2, <2>3 DEF FollowsLast
  <1> QED BY <1>1 DEF QueueFollows

\* The next message for a subscriber is the one shown last, again, or its successor.
LEMMA FrontFollows ==
  ASSUME TypeInv, NEW n \in Node, NEW e \in End(n), AgreeInv(n), Connected(n), InboxOnTopic(n),
         InboxGenuine(n), ShownSoFar(n, e), queue[n][e] = <<>>, to_node[n] # <<>>, FrontIsFor(n, e),
         IsSub(n, e), NEW m \in Node, NEW f \in End(m), Pair(n, e, m, f) => LineOf(n, e, m, f),
         NEW d, d = Head(to_node[n]).payload, d.node = m, d.end = f
  PROVE  FollowsLast(n, e, d)
  <1>1. PICK I, p : I = to_node[n] /\ p = I[1]
    OBVIOUS
  <1>2. /\ p = Head(to_node[n]) /\ 1 \in 1..Len(I) /\ Len(I) \in Nat /\ Len(I) >= 1
    BY <1>1, FrontOfInbox
  <1>3. p.type = "Data" /\ p.topic_id = ids[n][e].topic_id /\ p.payload = d
    BY <1>2 DEF FrontIsFor
  <1>4. Made(d) /\ IsTopicOf(p.topic_id, m, f)
    BY <1>1, <1>2, <1>3 DEF InboxGenuine, InboxOnTopic, OnTopic
  <1>5. SameTopic(n, e, m, f)
    BY <1>3, <1>4, ConnectedTopic, SameTopicId
  <1>6. IsPub(m, f)
    BY <1>4 DEF Made
  <1>7. PICK a : a = LastShown(<<n, e>>, <<m, f>>)
    OBVIOUS
  <1>8. a \in Nat
    BY <1>7, LastShownNat
  <1>9. Taken(n, e, m, f) = a
    BY <1>7, TakenIs
  <1>10. InboxRuns(I, a, m, f)
    BY <1>1, <1>5, <1>6, <1>9 DEF Pair, LineOf, Line
  <1>11. ASSUME a # 0 PROVE d.seq \in {a, a + 1}
    <2>1. Passed(I, a, m, f, 0, a)
      BY <1>11 DEF Passed
    <2>2. Matches(I[1], m, f) /\ I[1].payload = d
      BY <1>1, <1>3 DEF Matches
    <2>3. ~Within(I, m, f, 0, 1, d.seq - 1)
      <3>1. ~\E x : x \in (0 + 1)..(1 - 1)
        OBVIOUS
      <3> QED BY <3>1 DEF Within
    <2>4. 0 \in Nat /\ 1 \in Nat /\ 0 < 1
      OBVIOUS
    <2> QED BY <1>2, <1>8, <1>10, <2>1, <2>2, <2>3, <2>4 DEF InboxRuns
  <1> QED BY <1>4, <1>7, <1>11 DEF FollowsLast

LEMMA SubscriberKept ==
  ASSUME TypeInv, TypeInv', Progress, NEW n \in Node, NEW e \in End(n), IsSub(n, e), AgreeInv(n),
         InboxOnTopic(n), ServedThisRound(n), InboxGenuine(n), QueueFollows(n, e), ShownSoFar(n, e),
         \A m \in Node : \A f \in End(m) : Pair(n, e, m, f) => LineOf(n, e, m, f),
         NEW k \in Node, NodeStep(k)
  PROVE  QueueFollows(n, e)' /\ ShownSoFar(n, e)'
  <1>1. /\ Connected(n) => Connected(n)'
        /\ Undisturbed(n, e) \/ DropsFront(n, e) \/ TakesFront(n, e) \/ Shows(n, e)
    <2>1. CASE k = n
      BY <2>1, SubscriberSteps
    <2>2. CASE k # n
      <3>1. SameNode(n)
        BY <2>2, NodeFrame DEF TypeInv
      <3> QED BY <3>1 DEF SameNode, Undisturbed, Connected
    <2> QED BY <2>1, <2>2
  <1>2. CASE Undisturbed(n, e) \/ DropsFront(n, e)
    <2>1. queue'[n][e] = queue[n][e] /\ delivered'[n][e] = delivered[n][e]
      BY <1>2 DEF Undisturbed, DropsFront
    <2> QED BY <1>1, <2>1, QueueFollowsKept, ShownSoFarKept
  <1>3. CASE Shows(n, e)
    <2>1. queue[n][e][1] \in Payloads
      <3>1. queue[n][e] \in Seq(Payloads) /\ 1 \in 1..Len(queue[n][e])
        BY <1>3 DEF TypeInv, NodeTypes, Shows
      <3> QED BY <3>1, ElementOfSeq
    <2>2. ShownSoFar(n, e)'
      BY <1>1, <1>3, <2>1, ShownSoFarKept DEF Shows
    <2>3. Len(queue'[n][e]) = 0
      BY <1>3 DEF Shows
    <2>4. QueueFollows(n, e)'
      BY <2>3 DEF QueueFollows
    <2> QED BY <2>2, <2>4
  <1>4. CASE TakesFront(n, e)
    <2>1. PICK d, m, f : d = Head(to_node[n]).payload /\ m = d.node /\ f = d.end
      OBVIOUS
    <2>2. m \in Node /\ f \in End(m)
      <3>1. /\ Head(to_node[n]) = to_node[n][1] /\ 1 \in 1..Len(to_node[n])
            /\ Head(to_node[n]).type = "Data"
        BY <1>4, FrontOfInbox DEF TakesFront, FrontIsFor
      <3>2. Made(d)
        BY <2>1, <3>1 DEF InboxGenuine
      <3> QED BY <2>1, <3>2 DEF Made
    <2>3. FollowsLast(n, e, d)
      BY <1>4, <2>1, <2>2, FrontFollows DEF TakesFront
    <2>4. Made(d)'
      BY <2>3, MadeKept DEF FollowsLast
    <2>5. LastShown(<<n, e>>, <<d.node, d.end>>)' = LastShown(<<n, e>>, <<d.node, d.end>>)
      BY <1>4, LastShownKept DEF TakesFront
    <2>6. FollowsLast(n, e, d)'
      BY <2>3, <2>4, <2>5 DEF FollowsLast
    <2>7. \A i \in 1..Len(queue'[n][e]) : queue'[n][e][i] = d
      <3>1. queue'[n][e] = <<d>>
        BY <1>4, <2>1 DEF TakesFront
      <3> QED BY <3>1
    <2>8. QueueFollows(n, e)'
      <3>1. ASSUME NEW x \in Payloads, \E i \in 1..Len(queue'[n][e]) : queue'[n][e][i] = x
            PROVE  FollowsLast(n, e, x)'
        BY <2>6, <2>7, <3>1
      <3> QED BY <3>1 DEF QueueFollows
    <2> QED BY <1>1, <1>4, <2>8, ShownSoFarKept DEF TakesFront
  <1> QED BY <1>1, <1>2, <1>3, <1>4
-----------------------------------------------------------------------------
(***************************************************************************)
(* What an iteration of the broker does to the inboxes when none of its     *)
(* sends fails: nothing; or answers; or one message, to every node that     *)
(* receives its topic and to no other.                                      *)
(***************************************************************************)
Extends(old, new, S) ==
  /\ Len(old) \in Nat /\ Len(new) \in Nat /\ Len(old) <= Len(new)
  /\ \A i \in 1..Len(old) : new[i] = old[i]
  /\ \A i \in (Len(old) + 1)..Len(new) : new[i] \in S

LEMMA ConcatExtends ==
  ASSUME NEW D, NEW old \in Seq(D), NEW S, NEW s \in Seq(S), NEW new, new = old \o s
  PROVE  Extends(old, new, S) /\ Len(new) = Len(old) + Len(s) /\ Len(s) \in Nat
  <1>1. s \in Seq(D \cup S) /\ old \in Seq(D \cup S)
    OBVIOUS
  <1>2. /\ Len(old) \in Nat /\ Len(s) \in Nat /\ Len(new) = Len(old) + Len(s)
        /\ \A i \in 1..Len(new) : new[i] = IF i <= Len(old) THEN old[i] ELSE s[i - Len(old)]
    BY <1>1, ConcatProperties, LenProperties
  <1>3. \A i \in 1..Len(old) : new[i] = old[i]
    BY <1>2
  <1>4. ASSUME NEW i \in (Len(old) + 1)..Len(new) PROVE new[i] \in S
    <2>1. i \in 1..Len(new) /\ ~(i <= Len(old)) /\ i - Len(old) \in 1..Len(s)
      BY <1>2
    <2>2. s[i - Len(old)] \in S
      BY <2>1, ElementOfSeq
    <2> QED BY <1>2, <2>1, <2>2
  <1>5. Len(old) <= Len(new)
    BY <1>2
  <1> QED BY <1>2, <1>3, <1>4, <1>5 DEF Extends

Accepted(c, p) ==
  /\ B!Accepts(c, p.counter)
  /\ m_client_counters' = [m_client_counters EXCEPT ![c] = p.counter]

Rejects == UNCHANGED m_client_counters /\ \A n \in Node : Extends(to_node[n], to_node'[n], {})

Responds(c, p) ==
  /\ p.type = "Control" /\ Accepted(c, p)
  /\ \A n \in Node : Extends(to_node[n], to_node'[n], Answers)

Delivers(c, p) ==
  /\ p.type = "Data" /\ Accepted(c, p)
  /\ \A n \in Node : /\ Extends(to_node[n], to_node'[n], {p})
                     /\ Receives(n, p.topic_id) <=> Len(to_node[n]) < Len(to_node'[n])
                     /\ Len(to_node'[n]) = Len(to_node[n]) + Cardinality(Entries(n, p.topic_id))

\* A message arrives once for each subscription of n, or not at all.
LEMMA CopiesArrive ==
  ASSUME TypeInv, NEW c \in Node, NEW p \in Messages, B!forward_data(c, p, {}), NEW n
  PROVE  /\ Arrivals(n) \in Seq({p})
         /\ Receives(n, p.topic_id) <=> Len(Arrivals(n)) > 0
         /\ Len(Arrivals(n)) = Cardinality(Entries(n, p.topic_id))
  <1>1. Arrivals(n) \in Seq({p})
    BY ForwardEffect, ForwardsArrive
  <1> DEFINE s == B!At(m_topics, p.topic_id).subscribers
             mine == {i \in DOMAIN sent' : sent'[i].to = n /\ sent'[i].ok}
  <1>2. /\ p.topic_id \in Nat /\ Len(m_topics) \in Nat /\ p.topic_id < Len(m_topics)
    BY PacketFields, LenProperties
       DEF TypeInv, B!TypeOK, B!forward_data, B!Forwardable, B!Known
  <1>3. m_topics[p.topic_id + 1] \in B!Topic
    BY <1>2, ElementOfSeq DEF TypeInv, B!TypeOK
  <1>4. s \in Seq(Nat) /\ Len(s) \in Nat
    BY <1>3, LenProperties DEF B!Topic, B!At
  <1>5. sent' = [i \in 1..Len(s) |-> [to |-> B!At(m_nodes, s[i]).address,
                                      packet |-> p, ok |-> i \notin {}]]
    BY DEF B!forward_data, B!Recipients
  <1>6. Receives(n, p.topic_id) <=> \E i \in 1..Len(s) : B!At(m_nodes, s[i]).address = n
    BY DEF Receives
  <1>7. Arrivals(n) = [k \in 1..Cardinality(mine) |-> sent'[1].packet]
    BY DEF Arrivals
  <1>a. Entries(n, p.topic_id) = {i \in 1..Len(s) : B!At(m_nodes, s[i]).address = n}
    BY DEF Entries
  <1> HIDE DEF s
  <1>8. /\ mine \subseteq 1..Len(s)
        /\ \A i \in 1..Len(s) : i \in mine <=> B!At(m_nodes, s[i]).address = n
    BY <1>5
  <1> HIDE DEF mine
  <1>9. IsFiniteSet(mine) /\ Cardinality(mine) \in Nat
    <2>1. IsFiniteSet(1..Len(s))
      BY <1>4, FS_Interval
    <2>2. IsFiniteSet(mine)
      BY <1>8, <2>1, FS_Subset
    <2> QED BY <2>2, FS_CardinalityType
  <1>10. Len(Arrivals(n)) = Cardinality(mine)
    BY <1>7, <1>9
  <1>11. mine = {} <=> Cardinality(mine) = 0
    BY <1>9, FS_EmptySet
  <1>12. Receives(n, p.topic_id) <=> mine # {}
    BY <1>6, <1>8
  <1>13. mine = Entries(n, p.topic_id)
    BY <1>8, <1>a
  <1> QED BY <1>1, <1>9, <1>10, <1>11, <1>12, <1>13

LEMMA SpinOutcome ==
  ASSUME DownlinkReliable, TypeInv, BrokerInv, UplinkOnTopic, UplinkGenuine, BrokerSpin
  PROVE  LET c == Head(to_broker).from
             p == Head(to_broker).packet
         IN  Rejects \/ Responds(c, p) \/ Delivers(c, p)
  <1> DEFINE c == Head(to_broker).from
             p == Head(to_broker).packet
  <1>1. /\ c \in Node /\ p \in Requests \cup Messages /\ OnTopic(p) /\ Genuine(c, p)
        /\ BrokerEffect(c, p)
    BY HeadOfUplink, BrokerSpinEffect DEF BrokerSpin, UplinkOnTopic, UplinkGenuine
  <1>2. Handle(c, p) /\ \A n \in Node : to_node'[n] = to_node[n] \o Arrivals(n)
    BY DEF BrokerSpin
  <1>3. \A n \in Node : to_node[n] \in Seq(Downlink)
    BY DEF TypeInv, NodeTypes
  <1> SUFFICES Rejects \/ Responds(c, p) \/ Delivers(c, p)
    OBVIOUS
  <1> HIDE DEF c, p
  <1>4. ASSUME sent' = <<>>, NEW n \in Node, NEW S PROVE Extends(to_node[n], to_node'[n], S)
    <2>1. Arrivals(n) \in Seq(S)
      BY <1>4, NoArrivals, EmptySeq
    <2> QED BY <1>2, <1>3, <2>1, ConcatExtends
  <1>5. CASE B!IgnoreCounter(c, p.counter)
    <2>1. sent' = <<>> /\ UNCHANGED m_client_counters
      BY <1>5 DEF B!IgnoreCounter
    <2> QED BY <1>4, <2>1 DEF Rejects
  <1>6. CASE \E ok \in BOOLEAN : B!process_control_request(c, p, ok)
    <2>1. p \in Requests /\ p.type = "Control"
      BY <1>1, <1>6, PacketFields DEF B!process_control_request
    <2>2. B!verify_and_update_client_counter(c, p.counter) /\ Replies(c, p)
      BY <1>1, <1>6, <2>1, ControlEffect
    <2>3. PICK a \in Answered, ok \in BOOLEAN :
            sent' = <<[to |-> c, packet |-> ControlPacket(p.counter, a), ok |-> ok]>>
      BY <2>2 DEF Replies
    <2>4. ControlPacket(p.counter, a) \in Answers
      BY <2>1, <2>3, PacketFields DEF Answers
    <2>5. ASSUME NEW n \in Node PROVE Extends(to_node[n], to_node'[n], Answers)
      <3>1. Arrivals(n) \in {<<>>, <<ControlPacket(p.counter, a)>>}
        BY <2>3, ReplyArrives
      <3>2. \A x \in Answers : <<>> \in Seq(Answers) /\ <<x>> \in Seq(Answers)
        OBVIOUS
      <3>3. Arrivals(n) \in Seq(Answers)
        BY <2>4, <3>1, <3>2
      <3> QED BY <1>2, <1>3, <3>3, ConcatExtends
    <2> QED BY <2>1, <2>2, <2>5 DEF Responds, Accepted, B!verify_and_update_client_counter
  <1>7. CASE B!forward_data(c, p, {})
    <2>1. p.type = "Data" /\ Accepted(c, p)
      BY <1>7 DEF B!forward_data, Accepted, B!verify_and_update_client_counter
    <2>2. p \in Messages
      BY <1>1, <2>1, PacketFields
    <2>3. ASSUME NEW n \in Node
          PROVE  /\ Extends(to_node[n], to_node'[n], {p})
                 /\ Receives(n, p.topic_id) <=> Len(to_node[n]) < Len(to_node'[n])
                 /\ Len(to_node'[n]) = Len(to_node[n]) + Cardinality(Entries(n, p.topic_id))
      <3>1. /\ Arrivals(n) \in Seq({p}) /\ (Receives(n, p.topic_id) <=> Len(Arrivals(n)) > 0)
            /\ Len(Arrivals(n)) = Cardinality(Entries(n, p.topic_id))
        BY <1>1, <1>7, <2>2, CopiesArrive
      <3>2. /\ Extends(to_node[n], to_node'[n], {p}) /\ Len(Arrivals(n)) \in Nat
            /\ Len(to_node'[n]) = Len(to_node[n]) + Len(Arrivals(n))
        BY <1>2, <1>3, <3>1, ConcatExtends
      <3>3. Len(to_node[n]) \in Nat
        BY <3>2 DEF Extends
      <3> QED BY <3>1, <3>2, <3>3
    <2> QED BY <2>1, <2>3 DEF Delivers
  <1>8. ~B!ignore_data(c, p)
    <2>1. ASSUME p.type = "Data" PROVE B!Forwardable(p)
      BY <1>1, <2>1 DEF OnTopic, IsTopicOf, Genuine, B!Forwardable
    <2> QED BY <2>1 DEF B!ignore_data
  <1>9. CASE B!crash(c, p)
    <2>1. p.type = "Control"
      BY <1>1, <1>9 DEF B!crash, B!LogsOutOfBounds, OnTopic, IsTopicOf
    <2>2. sent' = <<>> /\ Accepted(c, p)
      BY <1>9 DEF B!crash, Accepted, B!verify_and_update_client_counter
    <2> QED BY <1>4, <2>1, <2>2 DEF Responds
  <1>10. ~Fault("broker_send")
    BY DEF Fault, DownlinkReliable
  <1> QED BY <1>2, <1>5, <1>6, <1>7, <1>8, <1>9, <1>10 DEF Handle
-----------------------------------------------------------------------------
\* The broker sends the messages of a topic to those that connected for it.
LEMMA ConnectedReceives ==
  ASSUME TypeInv, NEW n \in Node, NEW e \in End(n), IsSub(n, e), AgreeInv(n), Connected(n)
  PROVE  Receives(n, ids[n][e].topic_id)
  <1>1. PICK id, s : id = ids[n][e].topic_id /\ s = B!At(m_topics, id).subscribers
    OBVIOUS
  <1>2. /\ id \in Nat /\ B!Known(m_topics, id) /\ NodeAgrees(n, m_node_id[n])
        /\ \E i \in DOMAIN s : s[i] = m_node_id[n]
    <2>1. ~IsPub(n, e) /\ id \in Nat
      BY <1>1 DEF IsSub, IsPub, TypeInv, NodeTypes, Ids
    <2>2. EndpointAgrees(n, e) /\ NodeAgrees(n, m_node_id[n])
      BY ConnectedAgrees
    <2> QED BY <1>1, <2>1, <2>2 DEF EndpointAgrees
  <1>3. s \in Seq(Nat)
    <2>1. Len(m_topics) \in Nat /\ id + 1 \in 1..Len(m_topics)
      BY <1>2, LenProperties DEF B!Known, TypeInv, B!TypeOK
    <2>2. m_topics[id + 1] \in B!Topic
      BY <2>1, ElementOfSeq DEF TypeInv, B!TypeOK
    <2> QED BY <1>1, <2>2 DEF B!Topic, B!At
  <1>4. DOMAIN s = 1..Len(s)
    BY <1>3, LenProperties
  <1>5. B!At(m_nodes, m_node_id[n]).address = n
    BY <1>2 DEF NodeAgrees
  <1> QED BY <1>1, <1>2, <1>4, <1>5 DEF Receives

\* Whoever got a message of f gets the next one too.
LEMMA PassedReceives ==
  ASSUME TypeInv, BrokerInv, NEW n \in Node, NEW e \in End(n), IsSub(n, e), AgreeInv(n),
         InboxOnTopic(n), InboxGenuine(n), ServedThisRound(n), ShownSoFar(n, e),
         NEW m \in Node, NEW f \in End(m), SameTopic(n, e, m, f),
         NEW p, OnTopic(p), Matches(p, m, f),
         NEW i \in Nat, NEW a, Passed(to_node[n], Taken(n, e, m, f), m, f, i, a)
  PROVE  Receives(n, p.topic_id)
  <1>1. CASE i \in 1..Len(to_node[n]) /\ Matches(to_node[n][i], m, f)
    <2>1. /\ IsTopicOf(to_node[n][i].topic_id, m, f) /\ Receives(n, to_node[n][i].topic_id)
      BY <1>1 DEF InboxOnTopic, InboxGenuine, OnTopic, Matches
    <2>2. IsTopicOf(p.topic_id, m, f)
      BY DEF OnTopic, Matches
    <2>3. to_node[n][i].topic_id = p.topic_id
      BY <2>1, <2>2, OneTopicId
    <2> QED BY <2>1, <2>3
  <1>2. CASE Taken(n, e, m, f) # 0
    <2>1. ASSUME ~Connected(n) PROVE FALSE
      <3>1. queue[n][e] = <<>>
        BY <2>1 DEF ServedThisRound, Connected
      <3>2. LastShown(<<n, e>>, <<m, f>>) = 0
        BY <2>1, LastShownNat
      <3> QED BY <1>2, <3>1, <3>2, TakenIs
    <2>2. p.topic_id = ids[n][e].topic_id
      BY <2>1, FrontMatches
    <2>3. Receives(n, ids[n][e].topic_id)
      BY <2>1, ConnectedReceives
    <2> QED BY <2>2, <2>3
  <1> QED BY <1>1, <1>2 DEF Passed

(***************************************************************************)
(* An iteration of the broker keeps the line of messages through it.        *)
(***************************************************************************)
LEMMA LineBroker ==
  ASSUME DownlinkReliable, TypeInv, TypeInv', BrokerInv, NoWrap, UplinkOnTopic, UplinkGenuine,
         NEW n \in Node, NEW e \in End(n), IsSub(n, e), AgreeInv(n),
         InboxOnTopic(n), InboxGenuine(n), ServedThisRound(n), ShownSoFar(n, e),
         NEW m \in Node, NEW f \in End(m), SameTopic(n, e, m, f), LineOf(n, e, m, f), BrokerSpin
  PROVE  LineOf(n, e, m, f)'
  <1>1. PICK I, J, U, k, d, b, s, h, c, p :
          /\ I = to_node[n] /\ J = to_node'[n] /\ U = to_broker
          /\ k = m_client_counters[m] /\ d = m_client_counters'[m]
          /\ b = m_bp_counter[m] /\ s = Sent(m, f) /\ h = Taken(n, e, m, f)
          /\ c = Head(to_broker).from /\ p = Head(to_broker).packet
    OBVIOUS
  <1>2. /\ c \in Node /\ p \in Requests \cup Messages /\ OnTopic(p) /\ Genuine(c, p)
        /\ 1 \in 1..Len(U) /\ U[1].from = c /\ U[1].packet = p
    <2>1. /\ Head(to_broker) = to_broker[1] /\ 1 \in 1..Len(to_broker)
          /\ c \in Node /\ p \in Requests \cup Messages
      BY <1>1, HeadOfUplink DEF BrokerSpin
    <2> QED BY <1>1, <2>1 DEF UplinkOnTopic, UplinkGenuine
  <1>3. k \in BpCounter \cup {-1} /\ k \in Int /\ d \in Int /\ b \in Nat /\ b + 1 < CounterMod /\ k <= b
    <2>1. k \in BpCounter \cup {-1} /\ d \in BpCounter \cup {-1}
      BY <1>1 DEF TypeInv, B!TypeOK, B!BpCounter, BpCounter, B!NoCounter
    <2>2. b \in Nat /\ b + 1 < CounterMod /\ k <= b
      BY <1>1 DEF TypeInv, NodeTypes, BpCounter, NoWrap, UplinkGenuine
    <2> QED BY <2>1, <2>2 DEF BpCounter
  <1>4. Line(I, U, k, b, s, h, m, f)
    BY <1>1 DEF LineOf
  <1>5. /\ m_bp_counter'[m] = b /\ Sent(m, f)' = s /\ Taken(n, e, m, f)' = h
    <2>1. UNCHANGED <<m_bp_counter, queue, published, delivered>>
      BY DEF BrokerSpin, local
    <2>2. LastShown(<<n, e>>, <<m, f>>)' = LastShown(<<n, e>>, <<m, f>>)
      BY <2>1, LastShownKept
    <2>3. Taken(n, e, m, f)' = Taken(n, e, m, f)
      BY <2>1, <2>2 DEF Taken
    <2> QED BY <1>1, <2>1, <2>3 DEF Sent
  <1>6. SUFFICES Line(J, U, d, b, s, h, m, f)
    <2>1. Uplinked(m) /\ Distinct(to_broker)
      BY UplinkShifts DEF UplinkGenuine
    <2>2. Line(J, to_broker', d, b, s, h, m, f)
      BY <1>1, <1>3, <1>6, <2>1, LineUplinked
    <2> QED BY <1>1, <1>5, <2>2 DEF LineOf
  <1>7. ASSUME Extends(I, J, {x \in Downlink : ~Matches(x, m, f)})
        PROVE  Line(J, U, k, b, s, h, m, f)
    <2>1. /\ Len(I) \in Nat /\ Len(J) \in Nat /\ Len(I) <= Len(J)
          /\ \A i \in 1..Len(I) : J[i] = I[i]
          /\ \A i \in (Len(I) + 1)..Len(J) : ~Matches(J[i], m, f)
      BY <1>7 DEF Extends
    <2> QED BY <1>3, <1>4, <2>1, LineArrives
  <1>8. ASSUME m_client_counters' = [m_client_counters EXCEPT ![c] = p.counter]
        PROVE  d = IF m = c THEN p.counter ELSE k
    BY <1>1, <1>8 DEF TypeInv, B!TypeOK
  <1>9. ASSUME B!Accepts(c, p.counter), m = c
        PROVE  p.counter \in Nat /\ (k \in Nat => p.counter = k + 1) /\ Carried(U, m, p.counter)
    <2>1. p.counter \in 1..b
      BY <1>1, <1>2, <1>9 DEF Genuine
    <2>2. k = -1 \/ NextCounter(k) = p.counter
      BY <1>1, <1>9 DEF B!Accepts, B!NoCounter, B!NextCounter, NextCounter
    <2>3. ASSUME k \in Nat PROVE p.counter = k + 1
      <3>1. k \in BpCounter /\ k + 1 < CounterMod
        BY <1>3, <2>3, CounterModAssumption DEF BpCounter
      <3> QED BY <2>2, <2>3, <3>1, CounterSteps
    <2> QED BY <1>2, <1>9, <2>1, <2>3 DEF Carried
  <1>10. CASE Rejects
    <2>1. d = k /\ Extends(I, J, {x \in Downlink : ~Matches(x, m, f)})
      BY <1>1, <1>10 DEF Rejects, Extends
    <2> QED BY <1>7, <2>1
  <1>11. ASSUME Accepted(c, p), Extends(I, J, {x \in Downlink : ~Matches(x, m, f)}),
                m = c => ~Matches(p, m, f)
         PROVE  Line(J, U, d, b, s, h, m, f)
    <2>1. CASE m # c
      BY <1>7, <1>8, <1>11, <2>1 DEF Accepted
    <2>2. CASE m = c
      <3>1. \A q : ~OnWay(U, m, f, p.counter, q)
        <4>1. ASSUME NEW u \in 1..Len(U), U[u].from = m, U[u].packet.counter = p.counter
              PROVE  U[u].packet = p
          BY <1>1, <1>2, <2>2, <4>1 DEF UplinkGenuine, Distinct
        <4> QED BY <1>11, <2>2, <4>1 DEF OnWay
      <3>2. p.counter \in Nat /\ (k \in Nat => p.counter = k + 1) /\ Carried(U, m, p.counter)
        BY <1>9, <1>11, <2>2 DEF Accepted
      <3>3. Line(J, U, k, b, s, h, m, f)
        BY <1>7, <1>11
      <3>4. Line(J, U, p.counter, b, s, h, m, f)
        BY <1>3, <3>1, <3>2, <3>3, LineOther
      <3> QED BY <1>8, <1>11, <2>2, <3>4 DEF Accepted
    <2> QED BY <2>1, <2>2
  <1>12. CASE Responds(c, p)
    <2>1. ~Matches(p, m, f) /\ \A x \in Answers : ~Matches(x, m, f)
      BY <1>12, PacketFields DEF Responds, Matches
    <2>2. Extends(I, J, {x \in Downlink : ~Matches(x, m, f)})
      BY <1>1, <1>12, <2>1 DEF Responds, Extends, Downlink
    <2> QED BY <1>11, <1>12, <2>1, <2>2 DEF Responds
  <1>13. CASE Delivers(c, p) /\ ~Matches(p, m, f)
    <2>1. p \in Downlink
      BY <1>2, <1>13, PacketFields DEF Delivers, Downlink
    <2>2. Extends(I, J, {x \in Downlink : ~Matches(x, m, f)})
      BY <1>1, <1>13, <2>1 DEF Delivers, Extends
    <2> QED BY <1>11, <1>13, <2>2 DEF Delivers
  <1>14. CASE Delivers(c, p) /\ Matches(p, m, f)
    <2>1. m = c
      BY <1>2, <1>14 DEF Genuine, Matches
    <2>2. p.payload.seq \in Nat
      <3>1. p.payload \in Payloads
        BY <1>2, <1>14, PacketFields DEF Matches
      <3> QED BY <3>1 DEF Payloads, Plain
    <2>3. /\ Len(I) \in Nat /\ Len(J) \in Nat /\ Len(I) <= Len(J)
          /\ \A i \in 1..Len(I) : J[i] = I[i]
          /\ \A i \in (Len(I) + 1)..Len(J) : J[i] = p
          /\ Receives(n, p.topic_id) <=> Len(I) < Len(J)
      BY <1>1, <1>14 DEF Delivers, Extends
    <2>4. \A i \in (Len(I) + 1)..Len(J) : Matches(J[i], m, f) /\ J[i].payload.seq = p.payload.seq
      BY <1>14, <2>3
    <2>5. (\E i, a \in Nat : Passed(I, h, m, f, i, a)) => Len(I) < Len(J)
      <3>1. ASSUME NEW i \in Nat, NEW a \in Nat, Passed(I, h, m, f, i, a) PROVE Receives(n, p.topic_id)
        <4>1. Passed(to_node[n], Taken(n, e, m, f), m, f, i, a)
          BY <1>1, <3>1
        <4> QED BY <1>2, <1>14, <4>1, PassedReceives
      <3> QED BY <2>3, <3>1
    <2>6. p.counter \in Nat /\ (k \in Nat => p.counter = k + 1)
      BY <1>9, <1>14, <2>1 DEF Delivers, Accepted
    <2>7. OnWay(U, m, f, p.counter, p.payload.seq)
      BY <1>2, <1>14, <2>1 DEF OnWay
    <2>8. Line(J, U, p.counter, b, s, h, m, f)
      <3>1. PICK x, r : x = p.counter /\ r = p.payload.seq
        OBVIOUS
      <3>2. /\ x \in Nat /\ r \in Nat /\ k \in Int /\ (k \in Nat => x = k + 1) /\ OnWay(U, m, f, x, r)
            /\ \A i \in (Len(I) + 1)..Len(J) : Matches(J[i], m, f) /\ J[i].payload.seq = r
        BY <1>3, <2>2, <2>4, <2>6, <2>7, <3>1
      <3>3. Line(J, U, x, b, s, h, m, f)
        BY <1>4, <2>3, <2>5, <3>2, LineAccepted
      <3> QED BY <3>1, <3>3
    <2> QED BY <1>8, <1>14, <2>1, <2>8 DEF Delivers, Accepted
  <1> QED BY <1>1, <1>10, <1>12, <1>13, <1>14, SpinOutcome
-----------------------------------------------------------------------------
\* A subscription is not cancelled.
LEMMA ReceivesKept ==
  ASSUME TypeInv, BrokerInv, Grown, NEW n, NEW id \in Nat, B!Known(m_topics, id), Receives(n, id)
  PROVE  Receives(n, id)'
  <1>1. PICK s, t : s = B!At(m_topics, id).subscribers /\ t = B!At(m_topics', id).subscribers
    OBVIOUS
  <1>2. PICK x \in 1..Len(s) : B!At(m_nodes, s[x]).address = n
    BY <1>1 DEF Receives
  <1>3. id + 1 \in 1..Len(m_topics)
    BY LenProperties DEF B!Known, TypeInv, B!TypeOK
  <1>4. s[x] \in Nat /\ B!Known(m_nodes, s[x])
    <2>1. m_topics[id + 1] \in B!Topic /\ s = m_topics[id + 1].subscribers
      BY <1>1, <1>3, ElementOfSeq DEF TypeInv, B!TypeOK, B!At
    <2>2. s \in Seq(Nat)
      BY <2>1 DEF B!Topic
    <2>3. s[x] \in Nat
      BY <2>2, ElementOfSeq
    <2>4. BP!Known(m_nodes, s[x])
      BY <1>3, <2>1 DEF BrokerInv, BP!RegistryInv, BP!EndpointsServable
    <2> QED BY <2>3, <2>4, SameLookUps
  <1>5. x \in 1..Len(t) /\ t[x] = s[x]
    BY <1>1, <1>2 DEF Grown, Longer
  <1>6. B!At(m_nodes', t[x]).address = n
    BY <1>2, <1>4, <1>5 DEF Grown
  <1> QED BY <1>1, <1>5, <1>6 DEF Receives

LEMMA InboxGenuineKept ==
  ASSUME TypeInv, TypeInv', BrokerInv, Grown, Progress, NEW n,
         \A i \in 1..Len(to_node'[n]) :
           /\ OnTopic(to_node'[n][i])
           /\ to_node'[n][i].type = "Data" =>
                Made(to_node'[n][i].payload) /\ Receives(n, to_node'[n][i].topic_id)
  PROVE  InboxGenuine(n)'
  <1> SUFFICES ASSUME NEW i \in 1..Len(to_node'[n]), to_node'[n][i].type = "Data"
               PROVE  Made(to_node[n][i].payload)' /\ Receives(n, to_node[n][i].topic_id)'
    BY DEF InboxGenuine
  <1>1. PICK d, id : d = to_node'[n][i].payload /\ id = to_node'[n][i].topic_id
    OBVIOUS
  <1>2. Made(d) /\ Receives(n, id) /\ id \in Nat /\ B!Known(m_topics, id)
    BY <1>1 DEF OnTopic, IsTopicOf
  <1>3. Made(d)'
    BY <1>2, MadeKept
  <1>4. Receives(n, id)'
    BY <1>2, ReceivesKept
  <1>5. Made(to_node[n][i].payload)'
    BY <1>1, <1>3 DEF Made
  <1>6. Receives(n, to_node[n][i].topic_id)'
    BY <1>1, <1>4 DEF Receives
  <1> QED BY <1>5, <1>6

LEMMA InboxGenuineSub ==
  ASSUME TypeInv, TypeInv', BrokerInv, Grown, Progress, NEW n, InboxOnTopic(n), InboxGenuine(n),
         \A i \in 1..Len(to_node'[n]) : \E k \in 1..Len(to_node[n]) : to_node'[n][i] = to_node[n][k]
  PROVE  InboxGenuine(n)'
  <1>1. \A i \in 1..Len(to_node'[n]) :
          /\ OnTopic(to_node'[n][i])
          /\ to_node'[n][i].type = "Data" =>
               Made(to_node'[n][i].payload) /\ Receives(n, to_node'[n][i].topic_id)
    BY DEF InboxOnTopic, InboxGenuine
  <1> QED BY <1>1, InboxGenuineKept

LEMMA InboxGenuineBroker ==
  ASSUME DownlinkReliable, TypeInv, TypeInv', BrokerInv, Grown, Progress, UplinkOnTopic,
         UplinkGenuine, NEW n \in Node, InboxOnTopic(n), InboxGenuine(n), BrokerSpin
  PROVE  InboxGenuine(n)'
  <1>1. PICK c, p : c = Head(to_broker).from /\ p = Head(to_broker).packet
    OBVIOUS
  <1>2. OnTopic(p) /\ Genuine(c, p)
    <2>1. Head(to_broker) = to_broker[1] /\ 1 \in 1..Len(to_broker)
      BY HeadOfUplink DEF BrokerSpin
    <2> QED BY <1>1, <2>1 DEF UplinkOnTopic, UplinkGenuine
  <1>3. PICK S : /\ Extends(to_node[n], to_node'[n], S)
                 /\ \A x \in S : \/ x.type # "Data"
                                 \/ x = p /\ p.type = "Data" /\ (Receives(n, p.topic_id) <=>
                                               Len(to_node[n]) < Len(to_node'[n]))
    <2>1. CASE Rejects
      BY <2>1 DEF Rejects
    <2>2. CASE Responds(c, p)
      <3>1. \A x \in Answers : x.type # "Data"
        BY PacketFields
      <3> QED BY <2>2, <3>1 DEF Responds
    <2>3. CASE Delivers(c, p)
      BY <2>3 DEF Delivers
    <2> QED BY <1>1, <2>1, <2>2, <2>3, SpinOutcome
  <1>4. ASSUME NEW i \in 1..Len(to_node'[n])
        PROVE  /\ OnTopic(to_node'[n][i])
               /\ to_node'[n][i].type = "Data" =>
                    Made(to_node'[n][i].payload) /\ Receives(n, to_node'[n][i].topic_id)
    <2>1. \/ i \in 1..Len(to_node[n]) /\ to_node'[n][i] = to_node[n][i]
          \/ to_node'[n][i] \in S /\ Len(to_node[n]) < Len(to_node'[n])
      BY <1>3 DEF Extends
    <2>2. CASE i \in 1..Len(to_node[n]) /\ to_node'[n][i] = to_node[n][i]
      BY <2>2 DEF InboxOnTopic, InboxGenuine
    <2>3. CASE to_node'[n][i] \in S /\ Len(to_node[n]) < Len(to_node'[n])
      <3>1. \/ to_node'[n][i].type # "Data"
            \/ to_node'[n][i] = p /\ p.type = "Data" /\ Receives(n, p.topic_id)
        BY <1>3, <2>3
      <3> QED BY <1>2, <3>1 DEF Genuine, OnTopic
    <2> QED BY <2>1, <2>2, <2>3
  <1> QED BY <1>4, InboxGenuineKept
-----------------------------------------------------------------------------
\* A step of the broker or the network.
LEMMA NobodySends ==
  ASSUME TypeInv, AllStocked, UNCHANGED <<m_bp_counter, queue, published>>
  PROVE  AllStocked' /\ Progress
  <1>1. AllStocked'
    BY DEF AllStocked, Stocked, Sent
  <1>2. ASSUME NEW m \in Node
        PROVE  /\ m_bp_counter[m] <= m_bp_counter'[m]
               /\ \A f \in End(m) : IsPub(m, f) =>
                    published[m][f] <= published'[m][f] /\ Sent(m, f) <= Sent(m, f)'
    <2>1. m_bp_counter[m] \in Int
      BY DEF TypeInv, NodeTypes, BpCounter
    <2>2. ASSUME NEW f \in End(m) PROVE published[m][f] \in Int /\ Len(queue[m][f]) \in Int
      BY LenProperties DEF TypeInv, NodeTypes
    <2> QED BY <2>1, <2>2 DEF Sent
  <1> QED BY <1>1, <1>2 DEF Progress

LEMMA UplinkGenuineOther ==
  ASSUME TypeInv, TypeInv', BrokerInv, Grown, AllStocked, AllStocked', Progress, UplinkOnTopic,
         UplinkGenuine, UNCHANGED m_bp_counter,
         BrokerSpin \/ (NetworkFault /\ UNCHANGED m_client_counters)
  PROVE  UplinkGenuine'
  <1>1. \A n : Uplinked(n)
    BY UplinkShifts, FaultKeepsUplink
  <1>2. \A i \in 1..Len(to_broker') : \E k \in 1..Len(to_broker) : to_broker'[i] = to_broker[k]
    BY <1>1 DEF Uplinked
  <1>3. ASSUME NEW m \in Node PROVE m_client_counters'[m] <= m_bp_counter'[m]
    <2>1. m_client_counters[m] <= m_bp_counter'[m]
      BY DEF UplinkGenuine
    <2>2. ASSUME BrokerSpin, m = Head(to_broker).from
          PROVE  Head(to_broker).packet.counter <= m_bp_counter'[m]
      <3>1. Head(to_broker) = to_broker[1] /\ 1 \in 1..Len(to_broker)
        BY <2>2, HeadOfUplink DEF BrokerSpin
      <3>2. Head(to_broker).packet.counter \in 1..m_bp_counter[m]
        BY <2>2, <3>1 DEF UplinkGenuine, Genuine
      <3>3. m_bp_counter[m] \in Int
        BY DEF TypeInv, NodeTypes, BpCounter
      <3> QED BY <3>2, <3>3
    <2> QED BY <2>1, <2>2, StoredCounter
  <1> QED BY <1>2, <1>3, UplinkGenuineSub
-----------------------------------------------------------------------------
\* The line of a subscription stays when only the uplink is disturbed.
LEMMA LineFault ==
  ASSUME TypeInv, NEW n, NEW e, NEW m \in Node, NEW f, LineOf(n, e, m, f), Distinct(to_broker),
         Uplinked(m), UNCHANGED <<to_node, m_bp_counter, m_client_counters, queue, published, delivered>>
  PROVE  LineOf(n, e, m, f)'
  <1>1. PICK I, c, b, s, h :
          /\ I = to_node[n] /\ c = m_client_counters[m] /\ b = m_bp_counter[m]
          /\ s = Sent(m, f) /\ h = Taken(n, e, m, f)
    OBVIOUS
  <1>2. c \in Int
    BY <1>1 DEF TypeInv, B!TypeOK, B!BpCounter, B!NoCounter
  <1>3. Line(I, to_broker, c, b, s, h, m, f)
    BY <1>1 DEF LineOf
  <1>4. Line(I, to_broker', c, b, s, h, m, f)
    BY <1>2, <1>3, LineUplinked
  <1>5. LastShown(<<n, e>>, <<m, f>>)' = LastShown(<<n, e>>, <<m, f>>)
    BY LastShownKept
  <1>6. Taken(n, e, m, f)' = h /\ Sent(m, f)' = s
    BY <1>1, <1>5 DEF Taken, Sent
  <1> QED BY <1>1, <1>4, <1>6 DEF LineOf

\* A step of a node keeps the line from end to end.
LEMMA LineNode ==
  ASSUME TypeInv, TypeInv', BrokerInv, NoWrap, UplinkGenuine, AllStocked,
         NEW n \in Node, NEW e \in End(n), IsSub(n, e), AgreeInv(n), InboxOnTopic(n),
         ServedThisRound(n), ShownSoFar(n, e),
         NEW m \in Node, NEW f \in End(m), IsPub(m, f), SameTopic(n, e, m, f), LineOf(n, e, m, f),
         NEW k \in Node, NodeStep(k), UNCHANGED broker_vars
  PROVE  LineOf(n, e, m, f)'
  <1>1. PICK I, h, V, c, b, s :
          /\ I = to_node[n] /\ h = Taken(n, e, m, f)
          /\ V = to_broker' /\ c = m_client_counters[m] /\ b = m_bp_counter'[m] /\ s = Sent(m, f)'
    OBVIOUS
  <1>2. c \in Int /\ m_client_counters'[m] = c
    BY <1>1 DEF TypeInv, B!TypeOK, B!BpCounter, B!NoCounter, broker_vars
  <1>3. Line(I, to_broker, m_client_counters[m], m_bp_counter[m], Sent(m, f), h, m, f)
    BY <1>1 DEF LineOf
  <1>4. \A x \in End(m) : IsPub(m, x) => Stocked(m, x)
    BY DEF AllStocked
  <1>5. Line(I, to_broker', m_client_counters[m], m_bp_counter'[m], Sent(m, f)', h, m, f)
    BY <1>3, <1>4, LineUp
  <1>6. Line(to_node[n], V, c, b, s, Taken(n, e, m, f), m, f)
    BY <1>1, <1>5
  <1>7. Line(to_node'[n], V, c, b, s, Taken(n, e, m, f)', m, f)
    BY <1>2, <1>6, LineDown
  <1> QED BY <1>1, <1>2, <1>7 DEF LineOf

LEMMA FeedStep ==
  ASSUME DownlinkReliable, BrokerStays, TypeInv, TypeInv', BrokerInv,
         \A n \in Node : AgreeInv(n) /\ ServedThisRound(n), RouteInv, NoWrap, FeedInv, [Next]_vars
  PROVE  FeedInv'
  <1>0. Grown /\ UplinkOnTopic /\ UplinkGenuine /\ AllStocked
    BY RegistryGrows DEF RouteInv, FeedInv, AllStocked
  <1>a. ASSUME NEW n \in Node
        PROVE  AgreeInv(n) /\ ServedThisRound(n) /\ InboxOnTopic(n) /\ InboxGenuine(n)
    BY DEF RouteInv, FeedInv
  <1>b. ASSUME NEW n \in Node, NEW e \in End(n), IsSub(n, e)
        PROVE  /\ QueueFollows(n, e) /\ ShownSoFar(n, e)
               /\ \A m \in Node : \A f \in End(m) : Pair(n, e, m, f) => LineOf(n, e, m, f)
    BY <1>b DEF FeedInv
  <1>c. SUFFICES /\ AllStocked' /\ UplinkGenuine' /\ \A n \in Node : InboxGenuine(n)'
                 /\ \A n \in Node : \A e \in End(n) :
                      IsSub(n, e) => QueueFollows(n, e)' /\ ShownSoFar(n, e)'
                 /\ \A n, m \in Node : \A e \in End(n), f \in End(m) :
                      Pair(n, e, m, f) => LineOf(n, e, m, f)'
    BY <1>c DEF FeedInv, AllStocked, Pair, SameTopic
  <1>1. ASSUME NEW k \in Node, NodeStep(k), UNCHANGED broker_vars
        PROVE  /\ AllStocked' /\ UplinkGenuine' /\ \A n \in Node : InboxGenuine(n)'
               /\ \A n \in Node : \A e \in End(n) :
                    IsSub(n, e) => QueueFollows(n, e)' /\ ShownSoFar(n, e)'
               /\ \A n, m \in Node : \A e \in End(n), f \in End(m) :
                    Pair(n, e, m, f) => LineOf(n, e, m, f)'
    <2>1. AllStocked' /\ Progress
      BY <1>0, <1>1, SenderProgress
    <2>2. UplinkGenuine'
      <3>1. AgreeInv(k)
        BY <1>a
      <3> QED BY <1>0, <1>1, <2>1, <3>1, UplinkGenuineNode
    <2>3. ASSUME NEW n \in Node PROVE InboxGenuine(n)'
      <3>1. \A i \in 1..Len(to_node'[n]) : \E x \in 1..Len(to_node[n]) : to_node'[n][i] = to_node[n][x]
        <4>1. CASE k = n
          BY <1>1, <4>1, InboxOfNode
        <4>2. CASE k # n
          <5>1. SameNode(n)
            BY <1>1, <4>2, NodeFrame DEF TypeInv
          <5> QED BY <5>1 DEF SameNode
        <4> QED BY <4>1, <4>2
      <3>2. InboxOnTopic(n) /\ InboxGenuine(n)
        BY <1>a
      <3> QED BY <1>0, <2>1, <3>1, <3>2, InboxGenuineSub
    <2>4. ASSUME NEW n \in Node, NEW e \in End(n), IsSub(n, e)
          PROVE  QueueFollows(n, e)' /\ ShownSoFar(n, e)'
      <3>1. AgreeInv(n) /\ ServedThisRound(n) /\ InboxOnTopic(n) /\ InboxGenuine(n)
        BY <1>a
      <3>2. /\ QueueFollows(n, e) /\ ShownSoFar(n, e)
            /\ \A m \in Node : \A f \in End(m) : Pair(n, e, m, f) => LineOf(n, e, m, f)
        BY <1>b, <2>4
      <3> QED BY <1>1, <2>1, <2>4, <3>1, <3>2, SubscriberKept
    <2>5. ASSUME NEW n \in Node, NEW m \in Node, NEW e \in End(n), NEW f \in End(m), Pair(n, e, m, f)
          PROVE  LineOf(n, e, m, f)'
      <3>1. IsSub(n, e) /\ IsPub(m, f) /\ SameTopic(n, e, m, f)
        BY <2>5 DEF Pair
      <3>2. AgreeInv(n) /\ ServedThisRound(n) /\ InboxOnTopic(n)
        BY <1>a
      <3>3. ShownSoFar(n, e) /\ LineOf(n, e, m, f)
        BY <1>b, <2>5, <3>1
      <3> QED BY <1>0, <1>1, <3>1, <3>2, <3>3, LineNode
    <2> QED BY <2>1, <2>2, <2>3, <2>4, <2>5
  <1>d. ASSUME UNCHANGED <<pc, m_bp_counter, local>>
        PROVE  /\ AllStocked' /\ Progress
               /\ \A n \in Node : \A e \in End(n) :
                    IsSub(n, e) => QueueFollows(n, e)' /\ ShownSoFar(n, e)'
    <2>1. UNCHANGED <<pc, m_bp_counter, queue, published, delivered>>
      BY <1>d DEF local
    <2>2. AllStocked' /\ Progress
      BY <1>0, <2>1, NobodySends
    <2>3. ASSUME NEW n \in Node, NEW e \in End(n), IsSub(n, e)
          PROVE  QueueFollows(n, e)' /\ ShownSoFar(n, e)'
      <3>1. QueueFollows(n, e) /\ ShownSoFar(n, e)
        BY <1>b, <2>3
      <3>2. queue'[n][e] = queue[n][e] /\ delivered'[n][e] = delivered[n][e]
        BY <2>1
      <3>3. QueueFollows(n, e)'
        BY <2>2, <3>1, <3>2, QueueFollowsKept
      <3>4. Connected(n) => Connected(n)'
        BY <2>1 DEF Connected
      <3> QED BY <3>1, <3>2, <3>3, <3>4, ShownSoFarKept
    <2> QED BY <2>2, <2>3
  <1>2. CASE BrokerSpin
    <2>1. UNCHANGED <<pc, m_bp_counter, local>>
      BY <1>2 DEF BrokerSpin
    <2>2. AllStocked' /\ Progress /\ UNCHANGED m_bp_counter
      BY <1>d, <2>1
    <2>3. UplinkGenuine'
      BY <1>0, <1>2, <2>2, UplinkGenuineOther
    <2>4. ASSUME NEW n \in Node PROVE InboxGenuine(n)'
      <3>1. InboxOnTopic(n) /\ InboxGenuine(n)
        BY <1>a
      <3> QED BY <1>0, <1>2, <2>2, <3>1, InboxGenuineBroker
    <2>5. ASSUME NEW n \in Node, NEW m \in Node, NEW e \in End(n), NEW f \in End(m), Pair(n, e, m, f)
          PROVE  LineOf(n, e, m, f)'
      <3>1. IsSub(n, e) /\ SameTopic(n, e, m, f)
        BY <2>5 DEF Pair
      <3>2. AgreeInv(n) /\ ServedThisRound(n) /\ InboxOnTopic(n) /\ InboxGenuine(n)
        BY <1>a
      <3>3. ShownSoFar(n, e) /\ LineOf(n, e, m, f)
        BY <1>b, <2>5, <3>1
      <3> QED BY <1>0, <1>2, <3>1, <3>2, <3>3, LineBroker
    <2> QED BY <1>d, <2>1, <2>3, <2>4, <2>5
  <1>3. ~BrokerRestart
    BY DEF BrokerRestart, Fault, BrokerStays
  <1>4. CASE (NetworkFault \/ UNCHANGED to_broker)
             /\ UNCHANGED <<pc, m_bp_counter, local, broker_vars, to_node>>
    <2>1. /\ UNCHANGED <<pc, m_bp_counter, local>> /\ UNCHANGED <<m_bp_counter, m_client_counters>>
          /\ UNCHANGED <<to_node, m_bp_counter, m_client_counters, queue, published, delivered>>
      BY <1>4 DEF broker_vars, local
    <2>2. AllStocked' /\ Progress
      BY <1>d, <2>1
    <2>3. UplinkGenuine'
      <3>1. CASE NetworkFault
        BY <1>0, <2>1, <2>2, <3>1, UplinkGenuineOther
      <3>2. CASE UNCHANGED to_broker
        BY <1>0, <2>1, <2>2, <3>2, UplinkGenuineSame
      <3> QED BY <1>4, <3>1, <3>2
    <2>4. ASSUME NEW n \in Node PROVE InboxGenuine(n)'
      <3>1. InboxOnTopic(n) /\ InboxGenuine(n) /\ to_node'[n] = to_node[n]
        BY <1>a, <2>1
      <3> QED BY <1>0, <2>2, <3>1, InboxGenuineSub
    <2>5. ASSUME NEW n \in Node, NEW m \in Node, NEW e \in End(n), NEW f \in End(m), Pair(n, e, m, f)
          PROVE  LineOf(n, e, m, f)'
      <3>1. LineOf(n, e, m, f) /\ Distinct(to_broker)
        BY <1>0, <1>b, <2>5 DEF Pair, UplinkGenuine
      <3>2. Uplinked(m)
        <4>1. CASE NetworkFault
          BY <4>1, FaultKeepsUplink
        <4>2. CASE UNCHANGED to_broker
          BY <4>2 DEF Uplinked
        <4> QED BY <1>4, <4>1, <4>2
      <3> QED BY <2>1, <3>1, <3>2, LineFault
    <2> QED BY <1>d, <2>1, <2>3, <2>4, <2>5
  <1>5. CASE NetworkFault
    <2>1. UNCHANGED <<pc, m_bp_counter, local, broker_vars>> /\ UNCHANGED to_node
      BY <1>5 DEF NetworkFault, Fault, DownlinkReliable
    <2> QED BY <1>4, <1>5, <2>1
  <1>6. CASE UNCHANGED vars
    BY <1>4, <1>6 DEF vars, node_vars
  <1> QED BY <1>1, <1>2, <1>3, <1>5, <1>6 DEF Next

LEMMA FeedInit ==
  ASSUME Init
  PROVE  FeedInv
  <1>0. Len(<<>>) = 0 /\ DOMAIN <<>> = {}
    OBVIOUS
  <1>1. /\ to_broker = <<>>
        /\ \A n \in Node :
             /\ to_node[n] = <<>> /\ m_bp_counter[n] = 0 /\ m_client_counters[n] = -1
             /\ \A e \in End(n) : queue[n][e] = <<>> /\ delivered[n][e] = <<>> /\ published[n][e] = 0
    BY DEF Init, NodeInit, B!Init, B!NoCounter
  <1>2. ASSUME NEW m \in Node, NEW f \in End(m) PROVE Stocked(m, f)
    <2>1. Len(queue[m][f]) = 0 /\ published[m][f] = 0
      BY <1>0, <1>1
    <2> QED BY <2>1 DEF Stocked
  <1>3. UplinkGenuine
    <2>1. Len(to_broker) = 0 /\ \A m \in Node : m_client_counters[m] <= m_bp_counter[m]
      BY <1>0, <1>1
    <2> QED BY <2>1 DEF UplinkGenuine, Distinct
  <1>4. ASSUME NEW n \in Node PROVE InboxGenuine(n) /\ Len(to_node[n]) = 0
    BY <1>0, <1>1 DEF InboxGenuine
  <1>5. ASSUME NEW n \in Node, NEW e \in End(n), NEW m, NEW f
        PROVE  ShownAt(n, e, m, f) = {} /\ LastShown(<<n, e>>, <<m, f>>) = 0
    BY <1>0, <1>1 DEF ShownAt, LastShown
  <1>6. ASSUME NEW n \in Node, NEW e \in End(n) PROVE QueueFollows(n, e) /\ ShownSoFar(n, e)
    <2>1. Len(queue[n][e]) = 0 /\ delivered[n][e] = <<>>
      BY <1>0, <1>1
    <2>2. QueueFollows(n, e)
      BY <2>1 DEF QueueFollows
    <2> QED BY <1>5, <2>1, <2>2 DEF ShownSoFar, HasLast
  <1>7. ASSUME NEW n \in Node, NEW e \in End(n), NEW m \in Node, NEW f \in End(m)
        PROVE  LineOf(n, e, m, f)
    <2>1. PICK I, U, c, b, s, h :
            /\ I = to_node[n] /\ U = to_broker /\ c = m_client_counters[m] /\ b = m_bp_counter[m]
            /\ s = Sent(m, f) /\ h = Taken(n, e, m, f)
      OBVIOUS
    <2>2. Len(I) = 0 /\ Len(U) = 0
      BY <1>0, <1>1, <1>4, <2>1
    <2>3. h = 0
      <3>1. queue[n][e] = <<>> /\ LastShown(<<n, e>>, <<m, f>>) = 0
        BY <1>1, <1>5
      <3>2. queue[n][e] = <<>> => Taken(n, e, m, f) = LastShown(<<n, e>>, <<m, f>>)
        BY TakenIs
      <3> QED BY <2>1, <3>1, <3>2
    <2>4. \A i, a : ~Passed(I, h, m, f, i, a)
      BY <2>2, <2>3 DEF Passed
    <2>5. \A k, q : ~OnWay(U, m, f, k, q)
      BY <2>2 DEF OnWay
    <2>6. Line(I, U, c, b, s, h, m, f)
      BY <2>4, <2>5 DEF Line, UplinkRuns, BrokerRuns, InboxRuns,
                         Sorted, UplinkSorted, BrokerSorted, InboxSorted
    <2> QED BY <2>1, <2>6 DEF LineOf
  <1> QED BY <1>2, <1>3, <1>4, <1>6, <1>7 DEF FeedInv
-----------------------------------------------------------------------------
(***************************************************************************)
(* The steps of the system as steps of TopicFeed.                           *)
(***************************************************************************)
FeedCount == [p \in Publishers |-> published[p[1]][p[2]]]
FeedShown == [s \in Subscriptions |-> [p \in Publishers |-> LastShown(s, p)]]

LEMMA FeedEnds ==
  /\ \A p : p \in Publishers <=> \E m \in Node : \E f \in End(m) : IsPub(m, f) /\ p = <<m, f>>
  /\ \A s : s \in Subscriptions <=> \E n \in Node : \E e \in End(n) : IsSub(n, e) /\ s = <<n, e>>
  BY DEF Publishers, Subscriptions

LEMMA SameShown ==
  ASSUME delivered' = delivered
  PROVE  FeedShown' = FeedShown
  <1>1. ASSUME NEW s \in Subscriptions, NEW p \in Publishers PROVE LastShown(s, p)' = LastShown(s, p)
    <2>1. PICK n, e, m, f : s = <<n, e>> /\ p = <<m, f>>
      BY FeedEnds
    <2>2. LastShown(<<n, e>>, <<m, f>>)' = LastShown(<<n, e>>, <<m, f>>)
      BY LastShownKept
    <2> QED BY <2>1, <2>2
  <1> QED BY <1>1 DEF FeedShown, Subscriptions, Publishers

LEMMA SameCount ==
  ASSUME published' = published
  PROVE  FeedCount' = FeedCount
  BY DEF FeedCount, Publishers

LEMMA CountNext ==
  ASSUME TypeInv, NEW n \in Node, NEW e \in End(n), IsPub(n, e),
         published' = [published EXCEPT ![n][e] = published[n][e] + 1]
  PROVE  /\ <<n, e>> \in Publishers
         /\ FeedCount' = [FeedCount EXCEPT ![<<n, e>>] = FeedCount[<<n, e>>] + 1]
  <1>1. <<n, e>> \in Publishers
    BY FeedEnds
  <1>2. /\ published'[n][e] = published[n][e] + 1
        /\ \A m \in Node : \A f \in End(m) : <<m, f>> # <<n, e>> => published'[m][f] = published[m][f]
    BY DEF TypeInv, Domains, NodeTypes
  <1>3. ASSUME NEW p \in Publishers
        PROVE  published'[p[1]][p[2]] = IF p = <<n, e>> THEN published[p[1]][p[2]] + 1
                                        ELSE published[p[1]][p[2]]
    <2>1. PICK m, f : m \in Node /\ f \in End(m) /\ p = <<m, f>>
      BY FeedEnds
    <2>2. p[1] = m /\ p[2] = f
      BY <2>1
    <2> QED BY <1>2, <2>1, <2>2
  <1> QED BY <1>1, <1>3 DEF FeedCount, Publishers
\* The subscriber e of n is shown one more message, and no other subscriber any.
ShowsOne(n, e, d) ==
  /\ delivered'[n][e] = Append(delivered[n][e], d)
  /\ \A a \in Node : \A b \in End(a) : <<a, b>> # <<n, e>> => delivered'[a][b] = delivered[a][b]

LEMMA CallbackShowsOne ==
  ASSUME TypeInv, NEW n \in Node, NEW e \in End(n), run_callback(n, e)
  PROVE  ShowsOne(n, e, Head(queue[n][e]))
  <1>1. PICK t : t = Append(delivered[n][e], Head(queue[n][e]))
    OBVIOUS
  <1>2. DOMAIN delivered = Node /\ \A a \in Node : DOMAIN delivered[a] = End(a)
    BY DEF TypeInv, Domains, NodeTypes
  <1>3. delivered' = [delivered EXCEPT ![n] = [delivered[n] EXCEPT ![e] = t]]
    BY <1>1 DEF run_callback, ShowFront
  <1>4. /\ delivered'[n][e] = t
        /\ \A a \in Node : \A b \in End(a) : <<a, b>> # <<n, e>> => delivered'[a][b] = delivered[a][b]
    BY <1>2, <1>3
  <1> QED BY <1>1, <1>4 DEF ShowsOne

LEMMA ShownNext ==
  ASSUME TypeInv, TypeInv', NEW n \in Node, NEW e \in End(n), IsSub(n, e), ShownSoFar(n, e),
         NEW d \in Payloads, NEW m \in Node, NEW f \in End(m), IsPub(m, f), d.node = m, d.end = f,
         ShowsOne(n, e, d)
  PROVE  /\ <<n, e>> \in Subscriptions /\ <<m, f>> \in Publishers
         /\ FeedShown' = [FeedShown EXCEPT ![<<n, e>>] = [FeedShown[<<n, e>>] EXCEPT ![<<m, f>>] = d.seq]]
  <1>1. <<n, e>> \in Subscriptions /\ <<m, f>> \in Publishers
    BY FeedEnds
  <1>2. /\ delivered'[n][e] = Append(delivered[n][e], d)
        /\ \A a \in Node : \A b \in End(a) : <<a, b>> # <<n, e>> => delivered'[a][b] = delivered[a][b]
    BY DEF ShowsOne
  <1>3. ASSUME NEW s \in Subscriptions, NEW p \in Publishers
        PROVE  LastShown(s, p)' = IF s = <<n, e>> /\ p = <<m, f>> THEN d.seq ELSE LastShown(s, p)
    <2>1. PICK a, b : a \in Node /\ b \in End(a) /\ s = <<a, b>>
      BY FeedEnds
    <2>2. PICK x, y : x \in Node /\ y \in End(x) /\ p = <<x, y>>
      BY FeedEnds
    <2>3. CASE <<a, b>> = <<n, e>>
      <3>1. LastShown(<<n, e>>, <<x, y>>)' =
              IF d.node = x /\ d.end = y THEN d.seq ELSE LastShown(<<n, e>>, <<x, y>>)
        BY <1>2, <2>2, LastShownNext
      <3>2. <<x, y>> = <<m, f>> <=> d.node = x /\ d.end = y
        OBVIOUS
      <3> QED BY <2>1, <2>2, <2>3, <3>1, <3>2
    <2>4. CASE <<a, b>> # <<n, e>>
      <3>1. delivered'[a][b] = delivered[a][b]
        BY <1>2, <2>1, <2>4
      <3>2. LastShown(<<a, b>>, <<x, y>>)' = LastShown(<<a, b>>, <<x, y>>)
        BY <3>1, LastShownKept
      <3> QED BY <2>1, <2>2, <2>4, <3>2
    <2> QED BY <2>3, <2>4
  <1>4. FeedShown' = [s \in Subscriptions |-> [p \in Publishers |-> LastShown(s, p)']]
    BY DEF FeedShown, Subscriptions, Publishers
  <1>5. FeedShown = [s \in Subscriptions |-> [p \in Publishers |-> LastShown(s, p)]]
    BY DEF FeedShown
  <1>6. PICK F, r : F = FeedShown /\ r = d.seq
    OBVIOUS
  <1>7. ASSUME NEW s \in Subscriptions
        PROVE  [p \in Publishers |-> LastShown(s, p)'] =
                 IF s = <<n, e>> THEN [F[<<n, e>>] EXCEPT ![<<m, f>>] = r] ELSE F[s]
    <2>1. F[s] = [p \in Publishers |-> LastShown(s, p)]
      BY <1>5, <1>6
    <2>2. CASE s = <<n, e>>
      BY <1>1, <1>3, <1>6, <2>1, <2>2
    <2>3. CASE s # <<n, e>>
      BY <1>3, <2>1, <2>3
    <2> QED BY <2>2, <2>3
  <1>8. DOMAIN F = Subscriptions /\ F = [s \in Subscriptions |-> F[s]]
    BY <1>5, <1>6
  <1>9. FeedShown' = [F EXCEPT ![<<n, e>>] = [F[<<n, e>>] EXCEPT ![<<m, f>>] = r]]
    BY <1>1, <1>4, <1>7, <1>8
  <1> QED BY <1>1, <1>6, <1>9

LEMMA FeedMapped ==
  ASSUME TypeInv, TypeInv', \A n \in Node : ServedThisRound(n), RouteInv, FeedInv, [Next]_vars
  PROVE  [Feed!Next]_(Feed!feedVars)
  <1>a. /\ Feed!feedVars = <<FeedCount, FeedShown>>
        /\ Feed!feedVars' = <<FeedCount, FeedShown>>'
    BY DEF Feed!feedVars, FeedCount, FeedShown
  <1>1. CASE UNCHANGED <<published, delivered>>
    <2>1. FeedCount' = FeedCount /\ FeedShown' = FeedShown
      BY <1>1, SameCount, SameShown
    <2> QED BY <1>a, <2>1
  <1>2. ASSUME NEW n \in Node, NEW e \in End(n), publish(n, e) PROVE Feed!Next
    <2>1. /\ published' = [published EXCEPT ![n][e] = published[n][e] + 1] /\ IsPub(n, e)
          /\ delivered' = delivered
      BY <1>2 DEF publish
    <2>2. /\ <<n, e>> \in Publishers
          /\ FeedCount' = [FeedCount EXCEPT ![<<n, e>>] = FeedCount[<<n, e>>] + 1]
          /\ FeedShown' = FeedShown
      BY <2>1, CountNext, SameShown
    <2>3. Feed!Publish(<<n, e>>)
      BY <2>2 DEF Feed!Publish, FeedCount, FeedShown
    <2> QED BY <2>2, <2>3 DEF Feed!Next
  <1>3. ASSUME NEW n \in Node, NEW e \in End(n), run_callback(n, e)
        PROVE  Feed!Next \/ UNCHANGED Feed!feedVars
    <2>1. PICK d, q : q = queue[n][e] /\ d = Head(q)
      OBVIOUS
    <2>2. ShowsOne(n, e, d) /\ IsSub(n, e) /\ published' = published /\ q # <<>>
      BY <1>3, <2>1, CallbackShowsOne DEF run_callback, ShowFront, Reaches
    <2>3. d \in Payloads /\ d = q[1] /\ 1 \in 1..Len(q)
      <3>1. q \in Seq(Payloads)
        BY <2>1 DEF TypeInv, NodeTypes
      <3> QED BY <2>1, <2>2, <3>1, TailOfQueue
    <2>4. FollowsLast(n, e, d) /\ ShownSoFar(n, e)
      BY <2>1, <2>2, <2>3 DEF FeedInv, QueueFollows
    <2>5. PICK m, f : m = d.node /\ f = d.end
      OBVIOUS
    <2>6. /\ m \in Node /\ f \in End(m) /\ IsPub(m, f) /\ d.seq \in 1..published[m][f]
          /\ LastShown(<<n, e>>, <<m, f>>) = 0 \/
             d.seq \in {LastShown(<<n, e>>, <<m, f>>), LastShown(<<n, e>>, <<m, f>>) + 1}
      BY <2>4, <2>5 DEF FollowsLast, Made
    <2>7. SameTopic(n, e, m, f)
      BY <2>1, <2>2, <2>3, <2>5 DEF RouteInv, QueuesFit, Fits, IsSub, IsPub
    <2>8. PICK s, p : s = <<n, e>> /\ p = <<m, f>>
      OBVIOUS
    <2>9. /\ s \in Subscriptions /\ p \in Publishers
          /\ FeedShown' = [FeedShown EXCEPT ![s] = [FeedShown[s] EXCEPT ![p] = d.seq]]
      <3>1. /\ <<n, e>> \in Subscriptions /\ <<m, f>> \in Publishers
            /\ FeedShown' =
                 [FeedShown EXCEPT ![<<n, e>>] = [FeedShown[<<n, e>>] EXCEPT ![<<m, f>>] = d.seq]]
        BY <2>2, <2>3, <2>4, <2>5, <2>6, ShownNext
      <3> QED BY <2>8, <3>1
    <2>10. /\ FeedShown[s][p] = LastShown(<<n, e>>, <<m, f>>)
           /\ FeedCount[p] = published[m][f] /\ FeedCount' = FeedCount
           /\ p \in DOMAIN FeedShown[s] /\ s \in DOMAIN FeedShown
      BY <2>2, <2>8, <2>9, SameCount DEF FeedShown, FeedCount
    <2>11. CASE d.seq = LastShown(<<n, e>>, <<m, f>>)
      <3>1. FeedShown' = FeedShown
        <4>1. PICK F, g : F = FeedShown /\ g = F[s]
          OBVIOUS
        <4>2. F = [x \in Subscriptions |-> F[x]] /\ g = [x \in Publishers |-> g[x]]
          BY <2>9, <4>1 DEF FeedShown
        <4>3. [g EXCEPT ![p] = d.seq] = g
          BY <2>9, <2>10, <2>11, <4>1, <4>2
        <4>4. [F EXCEPT ![s] = g] = F
          BY <2>9, <4>1, <4>2
        <4> QED BY <2>9, <4>1, <4>3, <4>4
      <3> QED BY <1>a, <2>10, <3>1
    <2>12. CASE d.seq # LastShown(<<n, e>>, <<m, f>>)
      <3>1. <<s, p>> \in TopicPairs
        BY <2>7, <2>8, <2>9 DEF TopicPairs
      <3>2. d.seq \in (1..FeedCount[p]) \cap
                        (IF FeedShown[s][p] = 0 THEN 1..FeedCount[p] ELSE {FeedShown[s][p] + 1})
        BY <2>6, <2>10, <2>12
      <3>3. d.seq \in Feed!Following(s, p)
        BY <3>2 DEF Feed!Following, FeedShown, FeedCount
      <3>4. Feed!Show(s, p)
        BY <2>9, <2>10, <3>1, <3>3 DEF Feed!Show, FeedShown, FeedCount
      <3> QED BY <2>9, <3>4 DEF Feed!Next
    <2> QED BY <2>11, <2>12
  <1>4. ASSUME NEW n \in Node, NodeStep(n) PROVE [Feed!Next]_(Feed!feedVars)
    <2>1. CASE connect(n) \/ send_control(n) \/ receive_response(n) \/ SpinReceive(n) \/ SpinReturn(n)
               \/ \E e \in End(n) : send_data(n, e)
      BY <1>1, <2>1 DEF connect, send_control, receive_response, SpinReceive, SpinReturn, send_data, local
    <2> QED BY <1>2, <1>3, <1>4, <2>1 DEF NodeStep
  <1>5. CASE BrokerSpin \/ BrokerRestart \/ NetworkFault \/ UNCHANGED vars
    BY <1>1, <1>5 DEF BrokerSpin, BrokerRestart, NetworkFault, vars, node_vars, local
  <1> QED BY <1>4, <1>5 DEF Next

(***************************************************************************)
(* A subscriber is shown the messages of each publisher of its topic one    *)
(* after the other, with nothing missing in between and nothing late: the   *)
(* nodes, the broker and the network implement TopicFeed.  This is so for   *)
(* every number of nodes, endpoints, messages and faults, with packets to   *)
(* the broker lost, repeated and delayed, failing sends and receives, and   *)
(* nodes that connect at any time, as long as the broker stays up, what it  *)
(* sends arrives, and no node counts past 2^32 packets.  The broker looks   *)
(* at nothing but its counters (verify_and_update_client_counter): they     *)
(* turn a lost packet into silence, never into a gap.                       *)
(***************************************************************************)
THEOREM TopicsAreFeeds ==
  ASSUME AnswersNotRepeated, BrokerStays, SendsStrandNobody, DownlinkReliable
  PROVE  Spec /\ []NoWrap => ImplementsFeed
<1> DEFINE Sys == /\ TypeInv /\ BrokerInv /\ RouteInv
                  /\ \A n \in Node : AgreeInv(n) /\ ServedThisRound(n)
<1>1. Init => FeedInv
  BY FeedInit
<1>2. Sys /\ Sys' /\ NoWrap /\ FeedInv /\ [Next]_vars => FeedInv'
  BY FeedStep
<1>3. Init => Feed!Init
  <2> SUFFICES ASSUME Init PROVE Feed!Init
    OBVIOUS
  <2>1. ASSUME NEW p \in Publishers PROVE published[p[1]][p[2]] = 0
    <3>1. PICK m, f : m \in Node /\ f \in End(m) /\ p = <<m, f>>
      BY FeedEnds
    <3> QED BY <3>1 DEF Init, NodeInit
  <2>2. ASSUME NEW s \in Subscriptions, NEW p \in Publishers PROVE LastShown(s, p) = 0
    <3>1. PICK n, e : n \in Node /\ e \in End(n) /\ s = <<n, e>>
      BY FeedEnds
    <3>2. delivered[s[1]][s[2]] = <<>>
      BY <3>1 DEF Init, NodeInit
    <3>3. DOMAIN <<>> = {}
      OBVIOUS
    <3> QED BY <3>2, <3>3 DEF LastShown, ShownAt
  <2> QED BY <2>1, <2>2 DEF Feed!Init
<1>4. Sys /\ Sys' /\ FeedInv /\ [Next]_vars => [Feed!Next]_(Feed!feedVars)
  BY FeedMapped
<1>5. Spec => []Sys
  <2>1. (\A n \in Node : AgreeInv(n)) /\ (\A n \in Node : ServedThisRound(n)) =>
          \A n \in Node : AgreeInv(n) /\ ServedThisRound(n)
    OBVIOUS
  <2> QED BY <2>1, SystemInv, RouteInvariant, AgreeInvariant, ServedInvariant, PTL
<1> HIDE DEF Sys
<1>6. Spec /\ []NoWrap => []FeedInv
  BY <1>1, <1>2, <1>5, PTL DEF Spec
<1> QED BY <1>3, <1>4, <1>5, <1>6, PTL DEF Spec, ImplementsFeed, Feed!Spec
=============================================================================
