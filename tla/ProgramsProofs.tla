--------------------------- MODULE ProgramsProofs ---------------------------
(***************************************************************************)
(* Proofs about Programs: any number of generators, reflectors and demo     *)
(* programs, on any topics.                                                 *)
(***************************************************************************)
EXTENDS Programs, PubSubProofs

LEMMA ProgramEnds ==
  ASSUME NEW n \in Node
  PROVE  /\ Program[n] \in {"demo_pub", "demo_sub", "generator", "reflector"}
         /\ 1 \in End(n) /\ End(n) \subseteq {1, 2}
         /\ Program[n] # "demo_sub" => IsPub(n, 1) /\ ~IsSub(n, 1)
         /\ 2 \in End(n) => /\ Program[n] \in {"generator", "reflector"}
                            /\ IsSub(n, 2) /\ ~IsPub(n, 2)
         /\ Program[n] \in {"generator", "reflector"} => 2 \in End(n)
         /\ \A e \in End(n) : Endpoint[n][e].priority = Endpoint[n][1].priority
  <1>1. /\ Program[n] \in {"demo_pub", "demo_sub", "generator", "reflector"}
        /\ Len(Endpoint[n]) = IF Program[n] \in {"generator", "reflector"} THEN 2 ELSE 1
        /\ Program[n] = "demo_sub" \/ IsPub(n, 1)
        /\ Program[n] = "demo_pub" \/ IsSub(n, Len(Endpoint[n]))
        /\ \A e, f \in End(n) : Endpoint[n][e].priority = Endpoint[n][f].priority
    BY ProgramAssumption
  <1>2. \A e : ~(IsSub(n, e) /\ IsPub(n, e))
    BY DEF IsSub, IsPub
  <1>3. CASE Len(Endpoint[n]) = 2
    <2>1. End(n) = {1, 2}
      BY <1>3 DEF End
    <2> QED BY <1>1, <1>2, <1>3, <2>1
  <1>4. CASE Len(Endpoint[n]) = 1
    <2>1. End(n) = {1}
      BY <1>4 DEF End
    <2>2. Program[n] \notin {"generator", "reflector"}
      <3>1. Program[n] \in {"generator", "reflector"} => Len(Endpoint[n]) = 2
        BY <1>1
      <3> QED BY <1>4, <3>1
    <2>3. Program[n] # "demo_sub" => IsPub(n, 1) /\ ~IsSub(n, 1)
      BY <1>1, <1>2
    <2>4. \A e \in End(n) : Endpoint[n][e].priority = Endpoint[n][1].priority
      BY <2>1
    <2> QED BY <1>1, <2>1, <2>2, <2>3, <2>4
  <1> QED BY <1>1, <1>3, <1>4

\* Of the programs' steps only the reflector's callback is none of module Node.
LEMMA StepsOfPrograms ==
  ASSUME NEW n \in Node, ProgramStep(n)
  PROVE  /\ UNCHANGED broker_vars
         /\ NodeStep(n) \/ ping_callback(n) \/ UNCHANGED vars
  <1>0. UNCHANGED broker_vars
    BY DEF ProgramStep
  <1>a. 1 \in End(n) /\ (Program[n] \in {"generator", "reflector"} => 2 \in End(n))
    BY ProgramEnds
  <1>1. CASE Start(n)
    BY <1>0, <1>1 DEF Start, NodeStep
  <1>2. CASE Publish(n)
    BY <1>0, <1>a, <1>2 DEF Publish, NodeStep, vars
  <1>3. CASE SpinOnce(n)
    BY <1>0, <1>3 DEF SpinOnce, NodeStep
  <1>4. CASE Send(n)
    BY <1>0, <1>a, <1>4 DEF Send, NodeStep
  <1>5. CASE Return(n)
    BY <1>0, <1>5 DEF Return, NodeStep
  <1>6. CASE SpinAgain(n) \/ PeriodOver(n)
    BY <1>0, <1>6 DEF SpinAgain, PeriodOver
  <1>7. CASE test_callback(n)
    BY <1>0, <1>a, <1>7 DEF test_callback, NodeStep
  <1>8. CASE pong_callback(n)
    BY <1>0, <1>a, <1>8 DEF pong_callback, NodeStep
  <1> QED BY <1>0, <1>1, <1>2, <1>3, <1>4, <1>5, <1>6, <1>7, <1>8 DEF ProgramStep
-----------------------------------------------------------------------------
(***************************************************************************)
(* Types.                                                                   *)
(***************************************************************************)
LEMMA PongIsPayload ==
  ASSUME TypeInv, NEW n \in Node, NEW d \in Payloads
  PROVE  Pong(n, d) \in Payloads
  <1>1. /\ 1 \in End(n) /\ published[n][1] \in Nat /\ m_node_id[n] \in Nat
    BY ProgramEnds DEF TypeInv, NodeTypes
  <1>2. Header(d) \in Plain
    <2>1. CASE d \in Plain
      <3>1. "ping" \notin DOMAIN d
        BY <2>1 DEF Plain
      <3> QED BY <2>1, <3>1 DEF Header
    <2>2. CASE d \notin Plain
      <3>1. d \in [node : Node, end : Nat, seq : Nat, ping : Plain, reflector_id : Nat]
        BY <2>2 DEF Payloads
      <3> HIDE DEF Plain
      <3>2. "ping" \in DOMAIN d /\ d.ping \in Plain
        BY <3>1
      <3> QED BY <3>2 DEF Header
    <2> QED BY <2>1, <2>2
  <1>3. PICK h \in Plain : h = Header(d)
    BY <1>2
  <1>4. PICK k \in Nat : k = published[n][1] + 1
    BY <1>1
  <1>5. Pong(n, d) = [node |-> n, end |-> 1, seq |-> k, ping |-> h, reflector_id |-> m_node_id[n]]
    BY <1>3, <1>4 DEF Pong
  <1> HIDE DEF Plain
  <1> QED BY <1>1, <1>5 DEF Payloads

\* What the reflector's callback does to its node.
Echoed(n) ==
  LET ping == Head(queue[n][2])
  IN  /\ queue'[n] = [queue[n] EXCEPT
           ![1] = IF full(n, 1) THEN queue[n][1] ELSE Append(queue[n][1], Pong(n, ping)),
           ![2] = Tail(queue[n][2])]
      /\ published'[n] = [published[n] EXCEPT
           ![1] = IF full(n, 1) THEN published[n][1] ELSE published[n][1] + 1]
      /\ delivered'[n] = [delivered[n] EXCEPT ![2] = Append(delivered[n][2], ping)]
      /\ todo'[n] = After(n, 2)

LEMMA EchoFrame ==
  ASSUME Domains, NEW n \in Node, ping_callback(n)
  PROVE  /\ Domains' /\ \A m \in Node \ {n} : SameNode(m)
         /\ Reaches(n, 2) /\ Program[n] = "reflector"
         /\ UNCHANGED <<pc, call, m_node_id, m_bp_counter, ids, to_broker, to_node, faults>>
         /\ Echoed(n)
  <1>1. /\ Reaches(n, 2) /\ Program[n] = "reflector"
        /\ UNCHANGED <<pc, call, m_node_id, m_bp_counter, ids, to_broker, to_node, faults>>
        /\ delivered' = [delivered EXCEPT ![n] =
             [delivered[n] EXCEPT ![2] = Append(delivered[n][2], Head(queue[n][2]))]]
        /\ todo' = [todo EXCEPT ![n] = After(n, 2)]
    BY DEF ping_callback, ShowFront, Reaches
  <1>2. queue' = [queue EXCEPT ![n] = [queue[n] EXCEPT
           ![1] = IF full(n, 1) THEN queue[n][1]
                  ELSE Append(queue[n][1], Pong(n, Head(queue[n][2]))),
           ![2] = Tail(queue[n][2])]]
    BY DEF ping_callback, Reflected
  <1>3. published' = [published EXCEPT ![n] = [published[n] EXCEPT
           ![1] = IF full(n, 1) THEN published[n][1] ELSE published[n][1] + 1]]
    BY DEF ping_callback
  <1>4. Echoed(n)
    BY <1>1, <1>2, <1>3 DEF Echoed, Domains
  <1>5. Domains' /\ \A m \in Node \ {n} : SameNode(m)
    BY <1>1, <1>2, <1>3 DEF Domains, SameNode
  <1> QED BY <1>1, <1>4, <1>5

\* A function of which two entries are replaced.
LEMMA TwoEntries ==
  ASSUME NEW S, NEW T, NEW f \in [S -> T], NEW x \in S, NEW y \in S, x # y, NEW a \in T, NEW b \in T
  PROVE  /\ [f EXCEPT ![x] = a, ![y] = b] \in [S -> T]
         /\ \A e \in S : [f EXCEPT ![x] = a, ![y] = b][e] =
                           IF e = x THEN a ELSE IF e = y THEN b ELSE f[e]
  OBVIOUS

LEMMA EchoTypes ==
  ASSUME TypeInv, NEW n \in Node, ping_callback(n)
  PROVE  NodeTypes(n)'
  <1>0. Domains /\ NodeTypes(n) /\ QueueCapacity \in Nat
    BY BoundAssumption DEF TypeInv
  <1>1. /\ Reaches(n, 2) /\ Echoed(n) /\ Program[n] = "reflector"
        /\ UNCHANGED <<pc, call, m_node_id, m_bp_counter, ids, to_node>>
    BY <1>0, EchoFrame
  <1>2. 1 \in End(n) /\ 2 \in End(n)
    BY <1>1, ProgramEnds
  <1>3. /\ queue[n][1] \in Seq(Payloads) /\ queue[n][2] \in Seq(Payloads) /\ queue[n][2] # <<>>
        /\ Len(queue[n][1]) \in Nat /\ delivered[n][2] \in Seq(Payloads)
        /\ published[n][1] \in Nat
        /\ Len(queue[n][1]) <= QueueCapacity /\ Len(queue[n][2]) <= QueueCapacity
    BY <1>0, <1>1, <1>2, LenProperties DEF NodeTypes, Reaches
  <1>4. PICK ping \in Payloads : ping = Head(queue[n][2])
    BY <1>3, TailOfQueue
  <1>5. PICK pong \in Payloads : pong = Pong(n, ping)
    BY PongIsPayload
  <1>6. PICK q, r, d, k :
          /\ q = IF full(n, 1) THEN queue[n][1] ELSE Append(queue[n][1], pong)
          /\ r = Tail(queue[n][2])
          /\ d = Append(delivered[n][2], ping)
          /\ k = IF full(n, 1) THEN published[n][1] ELSE published[n][1] + 1
    OBVIOUS
  <1>7. q \in Seq(Payloads) /\ Len(q) <= QueueCapacity
    BY <1>0, <1>3, <1>6, AppendProperties DEF full
  <1>8. r \in Seq(Payloads) /\ Len(r) <= QueueCapacity
    BY <1>0, <1>3, <1>6, TailOfQueue
  <1>9. d \in Seq(Payloads) /\ k \in Nat
    BY <1>3, <1>6, AppendProperties
  <1>10. /\ queue'[n] = [queue[n] EXCEPT ![1] = q, ![2] = r]
         /\ published'[n] = [published[n] EXCEPT ![1] = k]
         /\ delivered'[n] = [delivered[n] EXCEPT ![2] = d]
         /\ todo'[n] \subseteq todo[n]
    <2>1. todo'[n] \subseteq todo[n]
      BY <1>1 DEF Echoed, After
    <2>2. queue'[n] = [queue[n] EXCEPT ![1] = q, ![2] = r]
      BY <1>1, <1>4, <1>5, <1>6, Zenon DEF Echoed
    <2>3. published'[n] = [published[n] EXCEPT ![1] = k]
      BY <1>1, <1>6, Zenon DEF Echoed
    <2>4. delivered'[n] = [delivered[n] EXCEPT ![2] = d]
      BY <1>1, <1>4, <1>6, Zenon DEF Echoed
    <2> QED BY <2>1, <2>2, <2>3, <2>4
  <1>11. /\ queue[n] \in [End(n) -> Seq(Payloads)] /\ delivered[n] \in [End(n) -> Seq(Payloads)]
         /\ published[n] \in [End(n) -> Nat]
         /\ \A e \in End(n) : Len(queue[n][e]) <= QueueCapacity
    BY <1>0 DEF NodeTypes
  <1>a. PICK x, y : x = 1 /\ y = 2
    OBVIOUS
  <1>b. x # y /\ x \in End(n) /\ y \in End(n)
    BY <1>2, <1>a
  <1>c. /\ queue'[n] = [queue[n] EXCEPT ![x] = q, ![y] = r]
        /\ published'[n] = [published[n] EXCEPT ![x] = k]
        /\ delivered'[n] = [delivered[n] EXCEPT ![y] = d]
    BY <1>10, <1>a, Zenon
  <1>12. delivered'[n] \in [End(n) -> Seq(Payloads)]
    BY <1>9, <1>11, <1>b, <1>c
  <1>13. published'[n] \in [End(n) -> Nat]
    BY <1>9, <1>11, <1>b, <1>c
  <1>14. /\ queue'[n] \in [End(n) -> Seq(Payloads)]
         /\ \A e \in End(n) : queue'[n][e] = IF e = x THEN q ELSE IF e = y THEN r ELSE queue[n][e]
    <2>1. q \in Seq(Payloads) /\ r \in Seq(Payloads)
      BY <1>7, <1>8
    <2>2. queue[n] \in [End(n) -> Seq(Payloads)]
      BY <1>11
    <2>3. /\ [queue[n] EXCEPT ![x] = q, ![y] = r] \in [End(n) -> Seq(Payloads)]
          /\ \A e \in End(n) : [queue[n] EXCEPT ![x] = q, ![y] = r][e] =
                                  IF e = x THEN q ELSE IF e = y THEN r ELSE queue[n][e]
      BY ONLY <1>b, <2>1, <2>2, TwoEntries
    <2> QED BY <1>c, <2>3
  <1>15. \A e \in End(n) : Len(queue'[n][e]) <= QueueCapacity
    BY <1>7, <1>8, <1>11, <1>14
  <1> QED BY <1>0, <1>1, <1>10, <1>12, <1>13, <1>14, <1>15 DEF NodeTypes

LEMMA ProgramTypesStep ==
  ASSUME TypeInv, BrokerInv, [ProgramsNext]_all_vars
  PROVE  TypeInv' /\ BrokerInv'
  <1>1. CASE [Next]_vars
    BY <1>1, TypeInvStep
  <1>2. ASSUME NEW n \in Node, ping_callback(n), UNCHANGED broker_vars
        PROVE  TypeInv' /\ BrokerInv'
    <2>1. B!TypeOK' /\ BrokerInv'
      BY <1>2 DEF TypeInv, broker_vars, B!TypeOK, BrokerInv, BP!RegistryInv, BP!NamesUnique,
                  BP!EndpointsServable, BP!Known, BP!PrioritiesReal
    <2>2. /\ Domains' /\ \A m \in Node \ {n} : SameNode(m)
          /\ to_broker' = to_broker /\ to_broker \in Seq(Uplink)
      BY <1>2, EchoFrame DEF TypeInv
    <2>3. NodeTypes(n)'
      BY <1>2, EchoTypes
    <2>4. ASSUME NEW m \in Node \ {n} PROVE NodeTypes(m)'
      BY <2>2, <2>4 DEF TypeInv, SameNode, NodeTypes
    <2> QED BY <2>1, <2>2, <2>3, <2>4 DEF TypeInv
  <1>3. \/ UNCHANGED all_vars \/ BrokerSpin \/ \E n \in Node : ProgramStep(n)
    BY DEF ProgramsNext
  <1>4. ASSUME NEW n \in Node, ProgramStep(n) PROVE TypeInv' /\ BrokerInv'
    BY <1>1, <1>2, <1>4, StepsOfPrograms DEF Next
  <1> QED BY <1>1, <1>3, <1>4 DEF Next, all_vars

LEMMA ProgramTypes ==
  ProgramsSpec => [](TypeInv /\ BrokerInv)
<1>1. ProgramsInit => TypeInv /\ BrokerInv
  BY TypeInvInit DEF ProgramsInit
<1>2. TypeInv /\ BrokerInv /\ [ProgramsNext]_all_vars => TypeInv' /\ BrokerInv'
  BY ProgramTypesStep
<1> QED BY <1>1, <1>2, PTL DEF ProgramsSpec
-----------------------------------------------------------------------------
(***************************************************************************)
(* Priorities.  A process whose endpoints were created with a priority of   *)
(* their own keeps it: register_topic only succeeds with the priority asked *)
(* for, so that a subscriber takes over what it had.                        *)
(***************************************************************************)
Own(n) == Endpoint[n][1].priority
HasPriority(n) == Own(n) # dontcare_topic_priority

AsksTopic(p) == p.type = "Control" /\ p.json.op = "register_topic"
TellsTopic(p) == p.type = "Control" /\ "topic_id" \in DOMAIN p.json

OwnRequests ==
  {u \in Uplink : HasPriority(u.from) /\ AsksTopic(u.packet) => u.packet.json.priority = Own(u.from)}
OwnAnswers(n) ==
  {p \in Downlink : HasPriority(n) /\ TellsTopic(p) => p.json.topic_priority = Own(n)}

KeepsPriority(n) ==
  HasPriority(n) => \A e \in End(n) : ids[n][e].topic_priority = Own(n)

PriorityInv ==
  /\ to_broker \in Seq(OwnRequests)
  /\ \A n \in Node : to_node[n] \in Seq(OwnAnswers(n)) /\ KeepsPriority(n)

LEMMA PriorityStored ==
  ASSUME TypeInv, PriorityInv, NEW n \in Node, receive_response(n)
  PROVE  KeepsPriority(n)'
  <1> SUFFICES ASSUME HasPriority(n), NEW e \in End(n)
               PROVE  ids'[n][e].topic_priority = Own(n)
    BY DEF KeepsPriority
  <1>0. /\ Domains /\ NodeTypes(n) /\ to_node[n] \in Seq(OwnAnswers(n))
        /\ ids[n][e] \in Ids /\ ids[n] \in [End(n) -> Ids]
        /\ \A f \in End(n) : ids[n][f].topic_priority = Own(n)
    BY DEF TypeInv, PriorityInv, KeepsPriority, NodeTypes
  <1>1. CASE ids' = ids
    BY <1>0, <1>1
  <1>2. ASSUME NEW p \in OwnAnswers(n), RpcSucceeds(p), Wanted(n) \in DOMAIN p.json,
               StoreResult(n, p.json)
        PROVE  ids'[n][e].topic_priority = Own(n)
    <2>1. call[n] \in 1..LastCall(n)
      BY <1>0, EndsFinite DEF receive_response, NodeTypes
    <2>2. CallKind(n) # "node" => CallEnd(n) \in End(n)
      BY <2>1, CallEnds
    <2>3. CASE CallKind(n) = "type"
      <3>1. PICK f \in End(n) : f = CallEnd(n)
        BY <2>2, <2>3
      <3>2. ids'[n] = [ids[n] EXCEPT ![f] = WithTypeId(ids[n][f], p.json)]
        BY <1>0, <1>2, <2>3, <3>1, StoreCases DEF Domains
      <3>3. WithTypeId(ids[n][f], p.json).topic_priority = ids[n][f].topic_priority
        BY <1>0 DEF WithTypeId, Ids
      <3> QED BY <1>0, <3>2, <3>3
    <2>4. CASE CallKind(n) = "topic"
      <3>1. PICK f \in End(n) : f = CallEnd(n)
        BY <2>2, <2>4
      <3>2. ids'[n] = [ids[n] EXCEPT ![f] = WithTopic(n, f, ids[n][f], p.json)]
        BY <1>0, <1>2, <2>4, <3>1, StoreCases DEF Domains
      <3>3. p.json.topic_priority = Own(n)
        BY <1>2, <2>4 DEF OwnAnswers, TellsTopic, RpcSucceeds, Wanted
      <3>4. WithTopic(n, f, ids[n][f], p.json).topic_priority = Own(n)
        BY <1>0, <3>3 DEF WithTopic, Ids
      <3> QED BY <1>0, <3>2, <3>4
    <2>5. CASE ids' = ids
      BY <1>0, <2>5
    <2> QED BY <1>2, <2>3, <2>4, <2>5, StoreCases
  <1>3. to_node[n] # <<>> => Head(to_node[n]) \in OwnAnswers(n)
    BY <1>0, TailOfQueue
  <1> QED BY <1>1, <1>2, <1>3 DEF receive_response, RpcReturn

LEMMA OwnRequest ==
  ASSUME TypeInv, PriorityInv, NEW n \in Node, pc[n] = "rpc", NEW k \in BpCounter
  PROVE  [from |-> n, packet |-> ControlPacket(k, Request(n))] \in OwnRequests
  <1>1. Request(n) \in Asked /\ call[n] \in 1..LastCall(n)
    BY RequestAsked, EndsFinite DEF TypeInv, NodeTypes
  <1>2. [from |-> n, packet |-> ControlPacket(k, Request(n))] \in Uplink
    BY <1>1, PacketsMade
  <1>3. HasPriority(n) /\ Request(n).op = "register_topic" => Request(n).priority = Own(n)
    <2>1. CASE CallKind(n) = "topic"
      <3>1. CallEnd(n) \in End(n)
        BY <1>1, <2>1, CallEnds
      <3>2. Request(n).priority = ids[n][CallEnd(n)].topic_priority
        BY <2>1 DEF Request, RegisterTopicRequest
      <3> QED BY <3>1, <3>2 DEF PriorityInv, KeepsPriority
    <2>2. CASE CallKind(n) # "topic"
      <3>1. CallKind(n) \in {"node", "type", "endpoint"}
        BY <1>1, <2>2, CallEnds
      <3>2. Request(n).op # "register_topic"
        BY <3>1 DEF Request, RegisterNodeRequest, RegisterMessageTypeRequest, AddEndpointRequest
      <3> QED BY <3>2
    <2> QED BY <2>1, <2>2
  <1> QED BY <1>2, <1>3 DEF OwnRequests, AsksTopic, ControlPacket

LEMMA PriorityNodeStep ==
  ASSUME TypeInv, PriorityInv, NEW n \in Node, NodeStep(n)
  PROVE  PriorityInv'
  <1>0. /\ Domains /\ NodeTypes(n) /\ to_broker \in Seq(OwnRequests)
        /\ to_node[n] \in Seq(OwnAnswers(n)) /\ KeepsPriority(n)
    BY DEF TypeInv, PriorityInv
  <1>1. to_broker' \in Seq(OwnRequests)
    <2>1. NextCounter(m_bp_counter[n]) \in BpCounter
      BY <1>0, Counters DEF NodeTypes
    <2>2. CASE SendsRequest(n)
      <3>1. [from |-> n, packet |-> ControlPacket(NextCounter(m_bp_counter[n]), Request(n))]
              \in OwnRequests
        BY <2>1, <2>2, OwnRequest DEF SendsRequest
      <3> QED BY <1>0, <2>2, <3>1, AppendProperties DEF SendsRequest
    <2>3. ASSUME NEW e \in End(n), SendsMessage(n, e) PROVE to_broker' \in Seq(OwnRequests)
      <3>1. /\ Head(queue[n][e]) \in Payloads
            /\ ids[n][e].topic_id \in Nat /\ ids[n][e].message_type_id \in Nat
        BY <1>0, <2>3, TailOfQueue DEF NodeTypes, SendsMessage, Ids
      <3>2. PICK u : u = [from |-> n, packet |-> DataPacket(NextCounter(m_bp_counter[n]),
                            ids[n][e].topic_id, ids[n][e].message_type_id, Head(queue[n][e]))]
        OBVIOUS
      <3>3. u \in Uplink
        BY <2>1, <3>1, <3>2, PacketsMade
      <3>4. u.packet.type = "Data"
        BY <3>2 DEF DataPacket
      <3>5. u \in OwnRequests
        BY <3>3, <3>4 DEF OwnRequests, AsksTopic
      <3>6. to_broker' = Append(to_broker, u)
        BY <2>3, <3>2 DEF SendsMessage
      <3> QED BY <1>0, <3>5, <3>6, AppendProperties
    <2> QED BY <1>0, <2>2, <2>3, NodeSends
  <1>2. to_node'[n] = to_node[n] \/ (to_node[n] # <<>> /\ to_node'[n] = Tail(to_node[n]))
    BY <1>0 DEF NodeStep, connect, send_control, receive_response, SpinReceive, SpinReturn,
                publish, run_callback, ShowFront, send_data, Domains
  <1>3. to_node'[n] \in Seq(OwnAnswers(n))
    BY <1>0, <1>2, TailOfQueue
  <1>4. KeepsPriority(n)'
    <2>1. CASE receive_response(n)
      BY <2>1, PriorityStored
    <2>2. CASE ids' = ids
      BY <1>0, <2>2 DEF KeepsPriority
    <2> QED BY <2>1, <2>2 DEF NodeStep, connect, send_control, SpinReceive, SpinReturn, publish,
                              run_callback, ShowFront, send_data, local
  <1>5. ASSUME NEW m \in Node \ {n} PROVE to_node'[m] \in Seq(OwnAnswers(m)) /\ KeepsPriority(m)'
    <2>1. ids'[m] = ids[m] /\ to_node'[m] = to_node[m]
      BY <1>0, NodeFrame DEF SameNode
    <2> QED BY <2>1 DEF PriorityInv, KeepsPriority
  <1>6. \A m \in Node : to_node'[m] \in Seq(OwnAnswers(m)) /\ KeepsPriority(m)'
    BY <1>3, <1>4, <1>5
  <1> QED BY <1>1, <1>6 DEF PriorityInv

\* An answer that names a topic was asked for, and has the priority asked for.
GivesPriority(a, p) ==
  "topic_id" \in DOMAIN a =>
    /\ AsksTopic(p)
    /\ p.json.priority # dontcare_topic_priority => a.topic_priority = p.json.priority

LEMMA TopicReplies ==
  ASSUME NEW c \in Node, NEW p \in Requests, NEW ok \in BOOLEAN,
         B!process_control_request(c, p, ok)
  PROVE  \E a : /\ GivesPriority(a, p)
                /\ sent' = <<[to |-> c, packet |-> ControlPacket(p.counter, a), ok |-> ok]>>
  <1> DEFINE r == p.json
  <1>1. p.type = "Control" /\ r \in Asked
    BY PacketFields
  <1>2. r.op \in {"register_node", "register_message_type", "register_topic",
                  "add_publisher", "add_subscriber"}
    BY <1>1, AskedFields
  <1>3. ASSUME NEW a, GivesPriority(a, p), B!send_control_response(c, p.counter, a, ok)
        PROVE  \E b : /\ GivesPriority(b, p)
                      /\ sent' = <<[to |-> c, packet |-> ControlPacket(p.counter, b), ok |-> ok]>>
    BY <1>3 DEF B!send_control_response, ControlPacket, B!ControlPacket
  <1>4. ASSUME NEW id PROVE /\ GivesPriority(NodeAnswer(r.rpc_id, id), p)
                            /\ GivesPriority(TypeAnswer(r.rpc_id, id), p)
                            /\ GivesPriority(EndpointAnswer(r.rpc_id), p)
                            /\ GivesPriority(rpc_failure_response(r.rpc_id), p)
    BY DEF GivesPriority, NodeAnswer, TypeAnswer, EndpointAnswer, rpc_failure_response
  <1>5. CASE B!register_node(c, p.counter, r, ok)
    <2>1. \/ B!send_control_response(c, p.counter, NodeAnswer(r.rpc_id, Len(m_nodes)), ok)
          \/ B!send_control_response(c, p.counter, rpc_failure_response(r.rpc_id), ok)
      BY <1>5 DEF B!register_node, NodeAnswer, B!NewId, rpc_failure_response,
                  B!rpc_failure_response
    <2> QED BY <1>3, <1>4, <2>1
  <1>6. CASE B!register_message_type(c, p.counter, r, ok)
    <2>1. \/ B!send_control_response(c, p.counter,
                  TypeAnswer(r.rpc_id, Len(m_message_types)), ok)
          \/ B!send_control_response(c, p.counter,
                  TypeAnswer(r.rpc_id, B!IdOf(m_message_types, r.name)), ok)
          \/ B!send_control_response(c, p.counter, rpc_failure_response(r.rpc_id), ok)
      BY <1>6 DEF B!register_message_type, TypeAnswer, B!NewId, rpc_failure_response,
                  B!rpc_failure_response
    <2> QED BY <1>3, <1>4, <2>1
  <1>7. CASE r.op = "register_topic" /\ B!register_topic(c, p.counter, r, ok)
    <2> DEFINE id == B!IdOf(m_topics, r.name)
               q == B!At(m_topics, id).priority
    <2>1. \/ B!send_control_response(c, p.counter,
                TopicAnswer(r.rpc_id, Len(m_topics), r.priority), ok)
          \/ /\ r.priority \in {dontcare_topic_priority, q}
             /\ B!send_control_response(c, p.counter, TopicAnswer(r.rpc_id, id, q), ok)
          \/ B!send_control_response(c, p.counter, rpc_failure_response(r.rpc_id), ok)
      BY <1>7 DEF B!register_topic, TopicAnswer, B!NewId, rpc_failure_response,
                  B!rpc_failure_response, B!dontcare_topic_priority, dontcare_topic_priority
    <2> HIDE DEF id, q
    <2>2. ASSUME NEW i, NEW x, r.priority \in {dontcare_topic_priority, x}
          PROVE  GivesPriority(TopicAnswer(r.rpc_id, i, x), p)
      BY <1>1, <1>7, <2>2 DEF GivesPriority, AsksTopic, TopicAnswer
    <2> QED BY <1>3, <1>4, <2>1, <2>2
  <1>8. CASE B!AddEndpoint(c, p.counter, r, ok)
    <2>1. \/ B!send_control_response(c, p.counter, EndpointAnswer(r.rpc_id), ok)
          \/ B!send_control_response(c, p.counter, rpc_failure_response(r.rpc_id), ok)
      BY <1>8 DEF B!AddEndpoint, EndpointAnswer, rpc_failure_response, B!rpc_failure_response
    <2> QED BY <1>3, <1>4, <2>1
  <1> QED BY <1>2, <1>5, <1>6, <1>7, <1>8 DEF B!process_control_request

LEMMA OwnArrivals ==
  ASSUME TypeInv, BrokerInv, PriorityInv, BrokerSpin, NEW n \in Node
  PROVE  Arrivals(n) \in Seq(OwnAnswers(n))
  <1> DEFINE c == Head(to_broker).from
             p == Head(to_broker).packet
  <1>1. c \in Node /\ p \in Requests \cup Messages /\ BrokerEffect(c, p)
    BY HeadOfUplink, BrokerSpinEffect DEF BrokerSpin
  <1>2. HasPriority(c) /\ AsksTopic(p) => p.json.priority = Own(c)
    <2>1. Head(to_broker) \in OwnRequests
      BY TailOfQueue DEF PriorityInv, BrokerSpin
    <2> QED BY <2>1 DEF OwnRequests
  <1>a. Arrivals(n) \in Seq(Downlink)
    BY ArrivalsTyped
  <1> HIDE DEF c, p
  <1>3. CASE sent' = <<>>
    BY <1>3, NoArrivals, EmptySeq
  <1>4. ASSUME p \in Requests, NEW ok \in BOOLEAN, B!process_control_request(c, p, ok)
        PROVE  Arrivals(n) \in Seq(OwnAnswers(n))
    <2>1. PICK a : /\ GivesPriority(a, p)
                   /\ sent' = <<[to |-> c, packet |-> ControlPacket(p.counter, a), ok |-> ok]>>
      BY <1>1, <1>4, TopicReplies
    <2>2. PICK q : q = ControlPacket(p.counter, a)
      OBVIOUS
    <2>3. /\ n = c => Arrivals(n) \in {<<>>, <<q>>}
          /\ n # c => Arrivals(n) = <<>>
      BY <2>1, <2>2, ReplyArrives
    <2>4. CASE Arrivals(n) = <<>>
      BY <2>4, EmptySeq
    <2>5. CASE n = c /\ Arrivals(n) = <<q>>
      <3>1. q \in Downlink
        <4>1. <<q>> \in Seq(Downlink) /\ Len(<<q>>) = 1 /\ <<q>>[1] = q
          BY <1>a, <2>5
        <4> QED BY <4>1, ElementOfSeq
      <3>2. q.json = a
        BY <2>2 DEF ControlPacket
      <3>3. HasPriority(n) /\ TellsTopic(q) => q.json.topic_priority = Own(n)
        BY <1>2, <2>1, <2>5, <3>2 DEF TellsTopic, GivesPriority, HasPriority
      <3>4. q \in OwnAnswers(n)
        BY <3>1, <3>3 DEF OwnAnswers
      <3>5. \A x \in OwnAnswers(n) : <<x>> \in Seq(OwnAnswers(n))
        OBVIOUS
      <3> QED BY <2>5, <3>4, <3>5
    <2> QED BY <2>3, <2>4, <2>5
  <1>5. CASE p \in Messages /\ Forwards(p)
    <2>1. Arrivals(n) \in Seq({p})
      BY <1>5, ForwardsArrive
    <2>2. p.type = "Data" /\ p \in Downlink
      BY <1>5, PacketFields DEF Downlink
    <2>3. {p} \subseteq OwnAnswers(n)
      BY <2>2 DEF OwnAnswers, TellsTopic
    <2> QED BY <2>1, <2>3
  <1> QED BY <1>1, <1>3, <1>4, <1>5 DEF BrokerEffect

LEMMA PriorityStep ==
  ASSUME TypeInv, BrokerInv, PriorityInv, [ProgramsNext]_all_vars
  PROVE  PriorityInv'
  <1>1. CASE UNCHANGED <<to_broker, to_node, ids>>
    BY <1>1 DEF PriorityInv, KeepsPriority
  <1>2. CASE BrokerSpin
    <2>1. /\ to_broker' = Tail(to_broker) /\ to_broker # <<>> /\ ids' = ids
          /\ to_node' = [m \in Node |-> to_node[m] \o Arrivals(m)]
      BY <1>2 DEF BrokerSpin, local
    <2>2. to_broker' \in Seq(OwnRequests)
      BY <2>1, TailOfQueue DEF PriorityInv
    <2>3. ASSUME NEW m \in Node PROVE to_node'[m] \in Seq(OwnAnswers(m))
      <3>1. to_node[m] \in Seq(OwnAnswers(m)) /\ Arrivals(m) \in Seq(OwnAnswers(m))
        BY <1>2, OwnArrivals DEF PriorityInv
      <3> HIDE DEF Arrivals
      <3>2. to_node'[m] = to_node[m] \o Arrivals(m)
        BY <2>1
      <3> QED BY <3>1, <3>2, ConcatProperties
    <2>4. \A m \in Node : KeepsPriority(m)'
      BY <2>1 DEF PriorityInv, KeepsPriority
    <2> QED BY <2>2, <2>3, <2>4 DEF PriorityInv
  <1>3. ASSUME NEW n \in Node, ProgramStep(n) PROVE PriorityInv'
    <2>1. CASE NodeStep(n)
      BY <2>1, PriorityNodeStep
    <2>2. CASE ping_callback(n)
      BY <1>1, <2>2, EchoFrame DEF TypeInv
    <2>3. CASE UNCHANGED vars
      BY <1>1, <2>3 DEF vars, node_vars, local
    <2> QED BY <1>3, <2>1, <2>2, <2>3, StepsOfPrograms
  <1> QED BY <1>1, <1>2, <1>3 DEF ProgramsNext, all_vars, vars, node_vars, local

LEMMA PriorityInit ==
  ASSUME ProgramsInit
  PROVE  PriorityInv
  <1>1. to_broker = <<>> /\ \A n \in Node : to_node[n] = <<>>
    BY DEF ProgramsInit, Init, NodeInit
  <1>2. ASSUME NEW n \in Node, NEW e \in End(n) PROVE ids[n][e].topic_priority = Own(n)
    <2>1. ids[n][e].topic_priority = Endpoint[n][e].priority
      BY DEF ProgramsInit, Init, NodeInit
    <2> QED BY <2>1, ProgramEnds DEF Own
  <1> QED BY <1>1, <1>2, EmptySeq DEF PriorityInv, KeepsPriority
-----------------------------------------------------------------------------
(***************************************************************************)
(* The backlog of a program's publisher.                                    *)
(***************************************************************************)
\* One message more than failed sends account for may be queued: it was published
\* and spin_once() has not come to the publisher since.
OneMore(n) ==
  IF pc[n] = "spin" THEN 1 \in todo[n] /\ (Spins(n) => 2 \notin todo[n])
  ELSE ~Spins(n) /\ app[n] = "spin"

BacklogBound(n) == Len(queue[n][1]) <= IF OneMore(n) THEN faults + 1 ELSE faults

BacklogInv(n) ==
  /\ Spins(n) => app[n] \in {"spin", "exit"}
  /\ pc[n] = "spin" /\ 2 \in todo[n] => 1 \in todo[n]
  /\ Program[n] # "demo_sub" => BacklogBound(n)

BacklogsInv ==
  /\ DOMAIN app = Node /\ faults \in Nat
  /\ \A n \in Node : BacklogInv(n)

\* Benchmark programs are started with a priority, not with dontcare_topic_priority.
PrioritiesGiven ==
  \A n \in Node : Program[n] \in {"generator", "reflector"} => HasPriority(n)

LEMMA SubscriberFirst ==
  ASSUME PrioritiesGiven, TypeInv, PriorityInv, NEW n \in Node
  PROVE  /\ ~Before(n, 1, 1)
         /\ 2 \in End(n) => Before(n, 2, 1) /\ ~Before(n, 1, 2) /\ ~Before(n, 2, 2)
  <1>1. 1 \in End(n) /\ ids[n][1].topic_priority \in Int
    <2>1. 1 \in End(n)
      BY ProgramEnds
    <2>2. ids[n] \in [End(n) -> Ids]
      BY DEF TypeInv, NodeTypes
    <2>3. ids[n][1] \in Ids
      BY <2>1, <2>2
    <2> QED BY <2>1, <2>3, RegistryAssumption DEF Ids
  <1>2. ~Before(n, 1, 1)
    <2>1. ~(1 < 1) /\ ~(IsSub(n, 1) /\ IsPub(n, 1))
      BY DEF IsSub, IsPub
    <2> QED BY <1>1, <2>1 DEF Before
  <1>3. ASSUME 2 \in End(n) PROVE Before(n, 2, 1) /\ ~Before(n, 1, 2) /\ ~Before(n, 2, 2)
    <2>1. /\ IsSub(n, 2) /\ ~IsPub(n, 2) /\ Program[n] \in {"generator", "reflector"}
          /\ IsPub(n, 1) /\ ~IsSub(n, 1)
      BY <1>3, ProgramEnds
    <2>2. ids[n][2].topic_priority = ids[n][1].topic_priority
      BY <1>1, <1>3, <2>1 DEF PrioritiesGiven, PriorityInv, KeepsPriority
    <2>3. Endpoint[n][1].role # Endpoint[n][2].role
      BY <2>1 DEF IsSub, IsPub
    <2>4. ~(2 < 2)
      OBVIOUS
    <2> QED BY <1>1, <2>1, <2>2, <2>3, <2>4 DEF Before
  <1> QED BY <1>2, <1>3

\* The publisher's queue is not a subscriber's.
LEMMA ReceiveLeavesPublisher ==
  ASSUME TypeInv, NEW n \in Node, Program[n] # "demo_sub", SpinReceive(n)
  PROVE  queue'[n][1] = queue[n][1]
  <1>1. 1 \in End(n) /\ ~IsSub(n, 1) /\ DOMAIN queue = Node
    BY ProgramEnds DEF TypeInv, Domains
  <1>2. CASE queue' = queue
    BY <1>2
  <1>3. CASE queue' = [queue EXCEPT ![n] = [e \in End(n) |->
                   IF e \in Subscribers(n, Head(to_node[n]).topic_id) /\ ~full(n, e)
                   THEN Append(queue[n][e], Head(to_node[n]).payload) ELSE queue[n][e]]]
    <2>1. 1 \notin Subscribers(n, Head(to_node[n]).topic_id)
      BY <1>1 DEF Subscribers
    <2> QED BY <1>1, <1>3, <2>1
  <1> QED BY <1>2, <1>3 DEF SpinReceive, process_incoming_message

LEMMA AfterSpin ==
  ASSUME NEW n, NEW result, Spins(n)
  PROVE  AfterSpinOnce(n, result) = IF result = "Error" THEN "exit" ELSE "spin"
  <1>1. Program[n] # "demo_pub" /\ Program[n] # "generator"
    BY DEF Spins
  <1> QED BY <1>1 DEF AfterSpinOnce

LEMMA BacklogOwnStep ==
  ASSUME PrioritiesGiven, TypeInv, PriorityInv, BacklogsInv, NEW n \in Node, ProgramStep(n)
  PROVE  BacklogInv(n)' /\ faults' \in Nat /\ faults' >= faults
  <1>0. /\ Domains /\ NodeTypes(n) /\ BacklogInv(n) /\ DOMAIN app = Node /\ faults \in Nat
        /\ 1 \in End(n) /\ todo[n] \subseteq {1, 2}
        /\ queue[n][1] \in Seq(Payloads) /\ Len(queue[n][1]) \in Nat
    BY ProgramEnds, LenProperties DEF TypeInv, BacklogsInv, NodeTypes
  <1>1. CASE Start(n)
    <2>1. /\ pc[n] # "spin" /\ pc'[n] # "spin" /\ queue' = queue /\ app' = app
      BY <1>0, <1>1 DEF Start, connect, send_control, receive_response, RpcReturn, Goto, local,
                        program_vars, Domains
    <2>2. faults' = faults \/ faults' = faults + 1
      BY <1>1 DEF Start, connect, send_control, receive_response, NoFault, Fault
    <2>3. OneMore(n)' <=> OneMore(n)
      BY <2>1 DEF OneMore, Spins
    <2> QED BY <1>0, <2>1, <2>2, <2>3 DEF BacklogInv, BacklogBound, Spins
  <1>2. CASE Publish(n)
    <2>1. /\ pc[n] = "idle" /\ app[n] = "publish" /\ app'[n] = "spin" /\ pc' = pc
          /\ faults' = faults /\ todo' = todo
      BY <1>0, <1>2 DEF Publish, At, Then, publish, node_vars, local
    <2>2. ~Spins(n) /\ Program[n] # "demo_sub"
      BY <1>0, <2>1 DEF BacklogInv, Spins
    <2>3. Len(queue[n][1]) <= faults
      BY <1>0, <2>1, <2>2 DEF BacklogInv, BacklogBound, OneMore
    <2>4. Len(queue'[n][1]) <= faults + 1
      <3>1. CASE queue' = queue
        BY <1>0, <2>3, <3>1
      <3>2. CASE publish(n, 1)
        <4>1. queue'[n][1] = Append(queue[n][1], Message(n, 1, published[n][1] + 1))
          BY <1>0, <3>2 DEF publish, Domains, NodeTypes
        <4>2. \A d : Len(Append(queue[n][1], d)) = Len(queue[n][1]) + 1
          BY <1>0
        <4> QED BY <1>0, <2>3, <4>1, <4>2
      <3> QED BY <1>2, <3>1, <3>2 DEF Publish, node_vars, local
    <2>5. OneMore(n)'
      BY <2>1, <2>2 DEF OneMore, Spins
    <2> QED BY <1>0, <2>1, <2>2, <2>4, <2>5 DEF BacklogInv, BacklogBound, Spins
  <1>3. CASE SpinOnce(n)
    <2>1. /\ pc[n] = "idle" /\ pc'[n] = "spin" /\ app[n] = "spin" /\ app' = app
          /\ todo'[n] = End(n) /\ SpinReceive(n)
      BY <1>0, <1>3 DEF SpinOnce, At, SpinReceive, Goto, Domains
    <2>2. faults' = faults \/ faults' = faults + 1
      BY <2>1 DEF SpinReceive, NoFault, Fault
    <2>3. Program[n] # "demo_sub" => queue'[n][1] = queue[n][1]
      BY <2>1, ReceiveLeavesPublisher
    <2>4. OneMore(n) => OneMore(n)'
      BY <1>0, <2>1 DEF OneMore, Spins
    <2> QED BY <1>0, <2>1, <2>2, <2>3, <2>4 DEF BacklogInv, BacklogBound, Spins
  <1>4. CASE Send(n)
    <2>1. /\ send_data(n, 1) /\ Reaches(n, 1) /\ pc[n] = "spin" /\ 1 \in todo[n]
          /\ queue[n][1] # <<>> /\ IsPub(n, 1) /\ todo'[n] = After(n, 1)
      BY <1>0, <1>4 DEF Send, send_data, Reaches, Domains
    <2>2. Program[n] # "demo_sub"
      <3>1. Program[n] = "demo_sub" => IsSub(n, 1)
        BY ProgramAssumption
      <3> QED BY <2>1, <3>1 DEF IsSub, IsPub
    <2>3. 1 \notin todo'[n] /\ 2 \notin todo'[n]
      <3>1. todo[n] \subseteq End(n)
        BY <1>0 DEF NodeTypes
      <3> QED BY <2>1, <3>1, SubscriberFirst DEF After
    <2>4. Len(queue[n][1]) <= faults + 1 /\ Len(queue[n][1]) # 0
      BY <1>0, <2>1, <2>2, TailOfQueue DEF BacklogInv, BacklogBound
    <2>5. CASE pc' = pc /\ queue'[n][1] = Tail(queue[n][1]) /\ faults' = faults /\ app' = app
      <3>1. Len(queue'[n][1]) = Len(queue[n][1]) - 1
        BY <1>0, <2>1, <2>5, TailOfQueue
      <3> QED BY <1>0, <2>1, <2>2, <2>3, <2>4, <2>5, <3>1
              DEF BacklogInv, BacklogBound, OneMore, Spins
    <2>6. CASE /\ pc'[n] = "idle" /\ queue' = queue /\ faults' = faults + 1
               /\ app' = [app EXCEPT ![n] = AfterSpinOnce(n, "Error")]
      <3>1. /\ app'[n] = AfterSpinOnce(n, "Error")
            /\ Program[n] \in {"demo_pub", "demo_sub", "generator", "reflector"}
        BY <1>0, <2>6, ProgramEnds
      <3>2. AfterSpinOnce(n, "Error") \in {"exit", "publish"}
        BY <3>1 DEF AfterSpinOnce, Spins, NextPeriod
      <3>3. Spins(n) => AfterSpinOnce(n, "Error") = "exit"
        BY AfterSpin
      <3>4. ~OneMore(n)'
        BY <2>6, <3>1, <3>2 DEF OneMore, Spins
      <3> QED BY <1>0, <2>2, <2>4, <2>6, <3>1, <3>3, <3>4 DEF BacklogInv, BacklogBound, Spins
    <2>7. \/ /\ pc' = pc /\ queue'[n][1] = Tail(queue[n][1]) /\ faults' = faults
          \/ /\ pc'[n] = "idle" /\ queue' = queue /\ faults' = faults + 1
      BY <1>0, <2>1 DEF send_data, Goto, NoFault, Fault, Domains, NodeTypes
    <2>8. \/ pc'[n] = "spin" /\ app' = app
          \/ pc'[n] = "idle" /\ app' = [app EXCEPT ![n] = AfterSpinOnce(n, "Error")]
      BY <1>4 DEF Send, Then
    <2> QED BY <2>1, <2>5, <2>6, <2>7, <2>8
  <1>5. CASE Return(n)
    <2>1. /\ pc[n] = "spin" /\ pc'[n] = "idle" /\ queue' = queue /\ faults' = faults
          /\ \A e \in todo[n] : queue[n][e] = <<>>
          /\ \E result \in {"Success", "NoWork"} : app'[n] = AfterSpinOnce(n, result)
      BY <1>0, <1>5 DEF Return, SpinReturn, Goto, Then, Domains
    <2>2. Len(<<>>) = 0
      OBVIOUS
    <2>3. Program[n] # "demo_sub" => Len(queue[n][1]) <= faults
      <3>1. CASE 1 \in todo[n]
        BY <1>0, <2>1, <2>2, <3>1
      <3>2. CASE 1 \notin todo[n]
        BY <1>0, <2>1, <3>2 DEF BacklogInv, BacklogBound, OneMore
      <3> QED BY <3>1, <3>2
    <2>4. Spins(n) => app'[n] = "spin"
      <3>1. PICK result \in {"Success", "NoWork"} : app'[n] = AfterSpinOnce(n, result)
        BY <2>1
      <3>2. result # "Error"
        OBVIOUS
      <3> QED BY <3>1, <3>2, AfterSpin
    <2> QED BY <1>0, <2>1, <2>3, <2>4 DEF BacklogInv, BacklogBound, OneMore, Spins
  <1>6. CASE SpinAgain(n) \/ PeriodOver(n)
    <2>1. /\ pc[n] = "idle" /\ app[n] = "clock" /\ pc' = pc /\ queue' = queue /\ faults' = faults
      BY <1>6 DEF SpinAgain, PeriodOver, At, vars, node_vars, local
    <2>2. ~Spins(n)
      BY <1>0, <2>1 DEF BacklogInv
    <2>3. Program[n] # "demo_sub" => Len(queue[n][1]) <= faults
      BY <1>0, <2>1, <2>2 DEF BacklogInv, BacklogBound, OneMore
    <2> QED BY <1>0, <2>1, <2>2, <2>3 DEF BacklogInv, BacklogBound, Spins
  <1>7. CASE test_callback(n)
    <2>1. /\ Program[n] = "demo_sub" /\ app' = app /\ faults' = faults
          /\ todo'[n] \subseteq todo[n]
      BY <1>0, <1>7 DEF test_callback, run_callback, ShowFront, Reaches, After, Domains, program_vars
    <2>2. 2 \notin todo[n]
      <3>1. 2 \notin End(n)
        BY <2>1, ProgramEnds
      <3> QED BY <1>0, <3>1 DEF NodeTypes
    <2> QED BY <1>0, <2>1, <2>2 DEF BacklogInv, Spins
  <1>8. CASE ping_callback(n) \/ pong_callback(n)
    <2>1. /\ Reaches(n, 2) /\ pc' = pc /\ app' = app /\ faults' = faults
          /\ pc[n] = "spin" /\ 2 \in todo[n] /\ todo'[n] = After(n, 2)
      BY <1>0, <1>8 DEF ping_callback, pong_callback, run_callback, ShowFront, Reaches, Domains,
                        program_vars
    <2>2. 1 \in todo[n] /\ 2 \in End(n)
      BY <1>0, <2>1 DEF BacklogInv, NodeTypes
    <2>3. 1 \in todo'[n] /\ 2 \notin todo'[n]
      BY <2>1, <2>2, SubscriberFirst DEF After
    <2>4. OneMore(n)'
      BY <2>1, <2>3 DEF OneMore
    <2>5. CASE pong_callback(n)
      <3>1. queue'[n][1] = queue[n][1]
        <4>1. queue' = [queue EXCEPT ![n] = [queue[n] EXCEPT ![2] = Tail(queue[n][2])]]
          BY <2>5 DEF pong_callback, run_callback
        <4>2. queue[n] \in [End(n) -> Seq(Payloads)] /\ 1 # 2
          BY <1>0 DEF NodeTypes
        <4> QED BY <1>0, <4>1, <4>2 DEF Domains
      <3>2. Program[n] = "generator"
        BY <2>5 DEF pong_callback
      <3>3. Len(queue[n][1]) <= faults + 1
        BY <1>0, <3>2 DEF BacklogInv, BacklogBound
      <3> QED BY <1>0, <2>1, <2>3, <2>4, <3>1, <3>3 DEF BacklogInv, BacklogBound, Spins
    <2>6. CASE ping_callback(n)
      <3>1. Echoed(n) /\ Program[n] = "reflector"
        BY <1>0, <2>6, EchoFrame
      <3>2. PICK pong : pong = Pong(n, Head(queue[n][2]))
        OBVIOUS
      <3>3. queue'[n][1] = IF full(n, 1) THEN queue[n][1] ELSE Append(queue[n][1], pong)
        <4>1. PICK q, r : /\ q = IF full(n, 1) THEN queue[n][1] ELSE Append(queue[n][1], pong)
                          /\ r = Tail(queue[n][2])
          OBVIOUS
        <4>2. queue'[n] = [queue[n] EXCEPT ![1] = q, ![2] = r]
          BY <3>1, <3>2, <4>1, Zenon DEF Echoed
        <4>3. queue[n] \in [End(n) -> Seq(Payloads)] /\ 1 # 2
          BY <1>0 DEF NodeTypes
        <4> QED BY <1>0, <2>2, <4>1, <4>2, <4>3
      <3>4. Len(Append(queue[n][1], pong)) = Len(queue[n][1]) + 1
        BY <1>0
      <3>5. Len(queue[n][1]) <= faults
        BY <1>0, <2>1, <3>1 DEF BacklogInv, BacklogBound, OneMore, Spins
      <3>6. Len(queue'[n][1]) <= faults + 1
        BY <1>0, <3>3, <3>4, <3>5
      <3> QED BY <1>0, <2>1, <2>3, <2>4, <3>6 DEF BacklogInv, BacklogBound, Spins
    <2> QED BY <1>8, <2>5, <2>6
  <1> QED BY <1>1, <1>2, <1>3, <1>4, <1>5, <1>6, <1>7, <1>8 DEF ProgramStep

LEMMA BacklogStep ==
  ASSUME PrioritiesGiven, TypeInv, PriorityInv, BacklogsInv, [ProgramsNext]_all_vars
  PROVE  BacklogsInv'
  <1>0. DOMAIN app = Node /\ faults \in Nat /\ \A n \in Node : BacklogInv(n)
    BY DEF BacklogsInv
  <1>a. \A n \in Node : 1 \in End(n) /\ queue[n][1] \in Seq(Payloads) /\ Len(queue[n][1]) \in Nat
    BY ProgramEnds, LenProperties DEF TypeInv, NodeTypes
  <1>b. ASSUME NEW m \in Node, pc'[m] = pc[m], todo'[m] = todo[m], queue'[m] = queue[m],
               app'[m] = app[m], faults' \in Nat, faults' >= faults
        PROVE  BacklogInv(m)'
    <2>1. OneMore(m)' <=> OneMore(m)
      BY <1>b DEF OneMore, Spins
    <2> QED BY <1>0, <1>a, <1>b, <2>1 DEF BacklogInv, BacklogBound, Spins
  <1>1. CASE UNCHANGED all_vars
    BY <1>0, <1>1, <1>b DEF all_vars, vars, node_vars, local, program_vars, BacklogsInv
  <1>2. CASE BrokerSpin /\ UNCHANGED program_vars
    <2>1. UNCHANGED <<pc, todo, queue, app>>
      BY <1>2 DEF BrokerSpin, local, program_vars
    <2>2. faults' = faults \/ faults' = faults + 1
      BY <1>2, Zenon DEF BrokerSpin, Handle, NoFault, Fault
    <2>3. faults' \in Nat /\ faults' >= faults
      BY <1>0, <2>2
    <2> QED BY <1>0, <1>b, <2>1, <2>3 DEF BacklogsInv
  <1>3. ASSUME NEW n \in Node, ProgramStep(n) PROVE BacklogsInv'
    <2>1. BacklogInv(n)' /\ faults' \in Nat /\ faults' >= faults
      BY <1>3, BacklogOwnStep
    <2>2. DOMAIN app' = Node /\ \A m \in Node \ {n} : app'[m] = app[m]
      BY <1>0, <1>3 DEF ProgramStep, Start, Publish, SpinOnce, Send, Return, SpinAgain, PeriodOver,
                        test_callback, ping_callback, pong_callback, Then, program_vars
    <2>3. ASSUME NEW m \in Node \ {n} PROVE pc'[m] = pc[m] /\ todo'[m] = todo[m] /\ queue'[m] = queue[m]
      <3>1. Domains
        BY DEF TypeInv
      <3>2. CASE NodeStep(n)
        BY <3>1, <3>2, NodeFrame DEF SameNode
      <3>3. CASE ping_callback(n)
        BY <3>1, <3>3, EchoFrame DEF SameNode
      <3>4. CASE UNCHANGED vars
        BY <3>4 DEF vars, node_vars, local
      <3> QED BY <1>3, <3>2, <3>3, <3>4, StepsOfPrograms
    <2>4. ASSUME NEW m \in Node \ {n} PROVE BacklogInv(m)'
      BY <1>b, <2>1, <2>2, <2>3
    <2> QED BY <2>1, <2>2, <2>4 DEF BacklogsInv
  <1> QED BY <1>1, <1>2, <1>3 DEF ProgramsNext

LEMMA BacklogInit ==
  ASSUME ProgramsInit
  PROVE  BacklogsInv
  <1>1. /\ DOMAIN app = Node /\ faults = 0
        /\ \A n \in Node : /\ app[n] = IF Spins(n) THEN "spin" ELSE "publish"
                           /\ pc[n] = "new" /\ queue[n] = [e \in End(n) |-> <<>>]
    BY DEF ProgramsInit, Init, NodeInit
  <1>2. Len(<<>>) = 0
    OBVIOUS
  <1>3. ASSUME NEW n \in Node PROVE BacklogInv(n)
    <2>1. Len(queue[n][1]) = 0
      <3>1. queue[n][1] = <<>>
        <4>1. 1 \in End(n)
          BY ProgramEnds
        <4>2. queue[n] = [e \in End(n) |-> <<>>]
          BY <1>1
        <4> QED BY <4>1, <4>2
      <3> QED BY <1>2, <3>1
    <2>2. BacklogBound(n)
      BY <1>1, <2>1 DEF BacklogBound
    <2>3. Spins(n) => app[n] = "spin"
      BY <1>1
    <2>4. pc[n] # "spin"
      BY <1>1
    <2> QED BY <2>2, <2>3, <2>4 DEF BacklogInv
  <1> QED BY <1>1, <1>3 DEF BacklogsInv

(***************************************************************************)
(* Types hold in the programs too, where a callback publishes in mid        *)
(* spin_once(): the reflector's publisher and subscriber queues stay inside *)
(* the capacity, packet counters in range and connect() inside its plan.    *)
(***************************************************************************)
THEOREM ProgramsTypeCorrect == ProgramsSpec => []TypeOK
<1>1. TypeInv => TypeOK
  BY TypeInvImplies
<1> QED BY <1>1, ProgramTypes, PTL

(***************************************************************************)
(* With any number of generators, reflectors and demo programs, any queue   *)
(* capacity and any number of failed sends: between two spin_once() calls   *)
(* a program's publisher has no more messages queued than sends have        *)
(* failed.  Nothing piles up in a program whose sends succeed, although it  *)
(* ignores the result of publish(), and a pong leaves in the pass of        *)
(* spin_once() that made it.                                                *)
(***************************************************************************)
THEOREM BacklogsAreFailedSends ==
  ASSUME PrioritiesGiven
  PROVE  ProgramsSpec => []BacklogIsFailedSends
<1>1. ProgramsInit => PriorityInv /\ BacklogsInv
  BY PriorityInit, BacklogInit
<1>2. /\ TypeInv /\ BrokerInv /\ PriorityInv /\ BacklogsInv /\ [ProgramsNext]_all_vars
      => PriorityInv' /\ BacklogsInv'
  BY PriorityStep, BacklogStep
<1>3. TypeInv /\ BacklogsInv => BacklogIsFailedSends
  <2> SUFFICES ASSUME TypeInv, BacklogsInv, NEW n \in Node, Program[n] # "demo_sub",
                      At(n, "publish") \/ At(n, "clock") \/ (Spins(n) /\ At(n, "spin"))
               PROVE  Len(queue[n][1]) <= faults
    BY DEF BacklogIsFailedSends
  <2>1. ~OneMore(n)
    BY DEF At, OneMore
  <2>2. BacklogBound(n)
    BY DEF BacklogsInv, BacklogInv
  <2> QED BY <2>1, <2>2 DEF BacklogBound
<1> QED BY <1>1, <1>2, <1>3, ProgramTypes, PTL DEF ProgramsSpec
=============================================================================
