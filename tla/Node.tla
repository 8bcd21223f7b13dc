-------------------------------- MODULE Node --------------------------------
(***************************************************************************)
(* crps::Node, one single-threaded process per element of Node, with its    *)
(* publishers and subscribers and its two channels: to_broker is the        *)
(* broker's socket buffer, to_node[n] that of n.                            *)
(*                                                                         *)
(* connect() is a fixed plan of blocking calls: register_node, then for     *)
(* each publisher and after them for each subscriber register_message_type, *)
(* register_topic and add_publisher / add_subscriber.  Endpoint[n] lists    *)
(* the publishers, then the subscribers of n; endpoint e of n takes the     *)
(* calls 3e-1, 3e and 3e+1 of the plan.                                     *)
(*                                                                         *)
(* After connect() the application publishes and calls spin_once() in any   *)
(* order; spin() and spin_while_work() are loops of spin_once().  A message *)
(* queue is the bounded FIFO that MessageQueue implements.                  *)
(***************************************************************************)
EXTENDS BrokerProtocol, SequencesExt

CONSTANTS
  Node,          \* processes; a process is also its UDP address
  Name,          \* Name[n], the name n registers
  Endpoint,      \* Endpoint[n], what n created before connect()
  QueueCapacity, \* message_queue_capacity
  MaxPublish,    \* bound on the messages of one publisher
  FaultKind,     \* faults that may happen
  MaxFaults      \* bound on their number

End(n) == 1..Len(Endpoint[n])
IsSub(n, e) == Endpoint[n][e].role = "subscriber"
IsPub(n, e) == Endpoint[n][e].role = "publisher"

ASSUME EndpointAssumption ==
  \A n \in Node :
    /\ \A e \in End(n) : Endpoint[n][e].role \in {"publisher", "subscriber"}
    /\ \A e, f \in End(n) : e < f /\ IsPub(n, f) => IsPub(n, e)
ASSUME BoundAssumption == /\ QueueCapacity \in Nat \ {0}
                          /\ MaxPublish \in Nat
                          /\ MaxFaults \in Nat

VARIABLES
  pc,            \* "new"; in connect() "rpc" or "wait"; "idle"; "spin";
                 \* "failed" (connect() returned false); "abort" (exception)
  call,          \* the next call of the connect() plan
  todo,          \* endpoints this spin_once() has not reached yet
  m_node_id,
  m_bp_counter,
  ids,           \* per endpoint message_type_id, topic_id, topic_priority
  queue,         \* per endpoint m_message_queue
  published,     \* per publisher, how many messages it accepted
  delivered,     \* per subscriber, the messages its callback was shown
  to_broker, to_node,
  faults         \* faults so far

local == <<call, todo, m_node_id, ids, queue, published, delivered>>
node_vars == <<pc, m_bp_counter, local, to_broker, to_node, faults>>

NodeInit ==
  /\ pc = [n \in Node |-> "new"]
  /\ call = [n \in Node |-> 1]
  /\ todo = [n \in Node |-> {}]
  /\ m_node_id = [n \in Node |-> 0]
  /\ m_bp_counter = [n \in Node |-> 0]
  /\ ids = [n \in Node |-> [e \in End(n) |->
       [message_type_id |-> 0, topic_id |-> 0,
        topic_priority |-> Endpoint[n][e].priority]]]
  /\ queue = [n \in Node |-> [e \in End(n) |-> <<>>]]
  /\ published = [n \in Node |-> [e \in End(n) |-> 0]]
  /\ delivered = [n \in Node |-> [e \in End(n) |-> <<>>]]
  /\ to_broker = <<>>
  /\ to_node = [n \in Node |-> <<>>]
  /\ faults = 0

Fault(kind) == kind \in FaultKind /\ faults < MaxFaults /\ faults' = faults + 1
NoFault == UNCHANGED faults

Goto(n, label) == pc' = [pc EXCEPT ![n] = label]
Transmit(n, packet) == to_broker' = Append(to_broker, [from |-> n, packet |-> packet])

next_bp_counter(n) == NextCounter(m_bp_counter[n])
\* m_bp_counter before send_control increments it.
rpc_id(n) == m_bp_counter[n]
-----------------------------------------------------------------------------
(***************************************************************************)
(* connect().                                                              *)
(***************************************************************************)
LastCall(n) == 3 * Len(Endpoint[n]) + 1
CallEnd(n) == (call[n] + 1) \div 3
CallKind(n) ==
  IF call[n] = 1 THEN "node"
  ELSE CASE call[n] % 3 = 2 -> "type" [] call[n] % 3 = 0 -> "topic" [] OTHER -> "endpoint"

Request(n) ==
  LET e == CallEnd(n)
      created == Endpoint[n][e]
      mine == ids[n][e]
  IN  CASE CallKind(n) = "node" -> RegisterNodeRequest(rpc_id(n), Name[n])
        [] CallKind(n) = "type" ->
             RegisterMessageTypeRequest(rpc_id(n), created.type, created.size)
        [] CallKind(n) = "topic" ->
             RegisterTopicRequest(rpc_id(n), created.topic, mine.message_type_id,
                                  mine.topic_priority)
        [] CallKind(n) = "endpoint" ->
             AddEndpointRequest(IF IsPub(n, e) THEN "add_publisher" ELSE "add_subscriber",
                                rpc_id(n), m_node_id[n], mine.topic_id, mine.message_type_id)

\* socket() and connect() of the network may fail too.
connect(n) ==
  /\ pc[n] = "new"
  /\ \/ Goto(n, "rpc") /\ NoFault
     \/ Goto(n, "failed") /\ Fault("socket")
  /\ UNCHANGED <<m_bp_counter, local, to_broker, to_node>>

\* broker_rpc_blocking up to its receive.  A failed sendto() has used up a counter.
send_control(n) ==
  /\ pc[n] = "rpc"
  /\ m_bp_counter' = [m_bp_counter EXCEPT ![n] = next_bp_counter(n)]
  /\ \/ /\ Transmit(n, ControlPacket(next_bp_counter(n), Request(n)))
        /\ Goto(n, "wait")
        /\ NoFault
     \/ /\ Fault("send")
        /\ Goto(n, "failed")
        /\ UNCHANGED to_broker
  /\ UNCHANGED <<local, to_node>>

\* The member that the caller of broker_rpc_blocking reads from the response.
Wanted(n) == CASE CallKind(n) = "node" -> "node_id"
               [] CallKind(n) = "type" -> "message_type_id"
               [] CallKind(n) = "topic" -> "topic_id"
               [] CallKind(n) = "endpoint" -> "success"

\* A subscriber takes over the topic's priority, a publisher keeps its own.
WithTopic(n, e, mine, json) ==
  [mine EXCEPT !.topic_id = json.topic_id,
               !.topic_priority = IF IsSub(n, e) THEN json.topic_priority ELSE @]

StoreResult(n, json) ==
  LET e == CallEnd(n)
  IN  CASE CallKind(n) = "node" ->
             m_node_id' = [m_node_id EXCEPT ![n] = json.node_id] /\ UNCHANGED ids
        [] CallKind(n) = "type" ->
             /\ ids' = [ids EXCEPT ![n][e].message_type_id = json.message_type_id]
             /\ UNCHANGED m_node_id
        [] CallKind(n) = "topic" ->
             /\ ids' = [ids EXCEPT ![n][e] = WithTopic(n, e, @, json)]
             /\ UNCHANGED m_node_id
        [] CallKind(n) = "endpoint" -> UNCHANGED <<m_node_id, ids>>

RpcSucceeds(p) == p.type = "Control" /\ p.json # NullJson /\ p.json.success

\* The response is never compared with the request; a missing member is an exception.
RpcReturn(n, p) ==
  \/ /\ ~RpcSucceeds(p)
     /\ Goto(n, "failed")
     /\ UNCHANGED <<call, m_node_id, ids>>
  \/ /\ RpcSucceeds(p) /\ Wanted(n) \notin DOMAIN p.json
     /\ Goto(n, "abort")
     /\ UNCHANGED <<call, m_node_id, ids>>
  \/ /\ RpcSucceeds(p) /\ Wanted(n) \in DOMAIN p.json
     /\ StoreResult(n, p.json)
     /\ call' = [call EXCEPT ![n] = @ + 1]
     /\ Goto(n, IF call[n] = LastCall(n) THEN "idle" ELSE "rpc")

\* The rest of broker_rpc_blocking, which waits without a timeout, and of its caller.
receive_response(n) ==
  /\ pc[n] = "wait"
  /\ \/ /\ to_node[n] # <<>>
        /\ RpcReturn(n, Head(to_node[n]))
        /\ to_node' = [to_node EXCEPT ![n] = Tail(@)]
        /\ NoFault
     \/ /\ Fault("receive")
        /\ Goto(n, "failed")
        /\ UNCHANGED <<call, m_node_id, ids, to_node>>
  /\ UNCHANGED <<todo, m_bp_counter, queue, published, delivered, to_broker>>
-----------------------------------------------------------------------------
(***************************************************************************)
(* Publisher::publish, called by the application outside of the library.  A *)
(* message is named by its publisher and its number there.  When the queue  *)
(* is full publish() returns false and changes nothing.                     *)
(***************************************************************************)
Message(n, e, k) == [node |-> n, end |-> e, seq |-> k]

\* Mutant: full() allows one message too many.
full_late(n, e) == Len(queue[n][e]) > QueueCapacity
full(n, e) == Len(queue[n][e]) >= QueueCapacity

publish(n, e) ==
  /\ pc[n] \in {"new", "idle"}
  /\ IsPub(n, e)
  /\ published[n][e] < MaxPublish
  /\ ~full(n, e)
  /\ queue' = [queue EXCEPT ![n][e] = Append(@, Message(n, e, published[n][e] + 1))]
  /\ published' = [published EXCEPT ![n][e] = @ + 1]
  /\ UNCHANGED <<pc, call, todo, m_node_id, m_bp_counter, ids, delivered,
                 to_broker, to_node, faults>>
-----------------------------------------------------------------------------
(***************************************************************************)
(* spin_once().                                                            *)
(***************************************************************************)
\* Mutant: every subscriber of the node gets the message.
AllSubscribers(n, topic_id) == {e \in End(n) : IsSub(n, e)}

\* m_topics[topic_id].subscribers.
Subscribers(n, topic_id) == {e \in End(n) : IsSub(n, e) /\ ids[n][e].topic_id = topic_id}

\* queue_message's result is ignored: a full queue drops the message.
process_incoming_message(n, p) ==
  queue' = IF p.type # "Data" THEN queue
           ELSE [queue EXCEPT ![n] = [e \in End(n) |->
                   IF e \in Subscribers(n, p.topic_id) /\ ~full(n, e)
                   THEN Append(@[e], p.payload) ELSE @[e]]]

\* spin_once() first receives at most one packet, without blocking.
SpinReceive(n) ==
  /\ pc[n] = "idle"
  /\ \/ /\ to_node[n] # <<>>
        /\ process_incoming_message(n, Head(to_node[n]))
        /\ to_node' = [to_node EXCEPT ![n] = Tail(@)]
        /\ NoFault
     \/ /\ \/ to_node[n] = <<>> /\ NoFault
           \/ Fault("receive")
        /\ UNCHANGED <<queue, to_node>>
  /\ todo' = [todo EXCEPT ![n] = End(n)]
  /\ Goto(n, "spin")
  /\ UNCHANGED <<call, m_node_id, m_bp_counter, ids, published, delivered, to_broker>>

\* Mutant: the publishers of a priority come before its subscribers.
BeforePublishersFirst(n, e, f) ==
  LET pe == ids[n][e].topic_priority
      pf == ids[n][f].topic_priority
  IN  \/ pe > pf
      \/ pe = pf /\ IsPub(n, e) /\ IsSub(n, f)
      \/ pe = pf /\ Endpoint[n][e].role = Endpoint[n][f].role /\ e < f

(***************************************************************************)
(* The order of the loops over m_topics_by_prio: priorities descending, the *)
(* subscribers of a priority before its publishers, each in the order of    *)
(* registration.                                                            *)
(***************************************************************************)
Before(n, e, f) ==
  LET pe == ids[n][e].topic_priority
      pf == ids[n][f].topic_priority
  IN  \/ pe > pf
      \/ pe = pf /\ IsSub(n, e) /\ IsPub(n, f)
      \/ pe = pf /\ Endpoint[n][e].role = Endpoint[n][f].role /\ e < f

\* Mutant: spin_once() returns after the first endpoint it served.
NoneAfter(n, e) == {}
After(n, e) == {f \in todo[n] : Before(n, e, f)}

\* e is the next endpoint with a queued message.
Reaches(n, e) ==
  /\ pc[n] = "spin"
  /\ e \in todo[n]
  /\ queue[n][e] # <<>>
  /\ \A f \in todo[n] : Before(n, f, e) => queue[n][f] = <<>>
  /\ todo' = [todo EXCEPT ![n] = After(n, e)]

\* The callback is called with the front message, which is popped when it returns.
ShowFront(n, e) ==
  /\ Reaches(n, e)
  /\ IsSub(n, e)
  /\ delivered' = [delivered EXCEPT ![n][e] = Append(@, Head(queue[n][e]))]
  /\ UNCHANGED <<pc, call, m_node_id, m_bp_counter, ids, to_broker, to_node, faults>>

\* A callback that does not publish.
run_callback(n, e) ==
  /\ ShowFront(n, e)
  /\ queue' = [queue EXCEPT ![n][e] = Tail(@)]
  /\ UNCHANGED published

\* A failed send ends spin_once(): the message stays queued, its counter is used up.
send_data(n, e) ==
  /\ Reaches(n, e)
  /\ IsPub(n, e)
  /\ m_bp_counter' = [m_bp_counter EXCEPT ![n] = next_bp_counter(n)]
  /\ \/ /\ Transmit(n, DataPacket(next_bp_counter(n), ids[n][e].topic_id,
                                  ids[n][e].message_type_id, Head(queue[n][e])))
        /\ queue' = [queue EXCEPT ![n][e] = Tail(@)]
        /\ NoFault
        /\ UNCHANGED pc
     \/ /\ Fault("send")
        /\ Goto(n, "idle")
        /\ UNCHANGED <<queue, to_broker>>
  /\ UNCHANGED <<call, m_node_id, ids, published, delivered, to_node>>

SpinReturn(n) ==
  /\ pc[n] = "spin"
  /\ \A e \in todo[n] : queue[n][e] = <<>>
  /\ todo' = [todo EXCEPT ![n] = {}]
  /\ Goto(n, "idle")
  /\ UNCHANGED <<call, m_node_id, m_bp_counter, ids, queue, published, delivered,
                 to_broker, to_node, faults>>

NodeStep(n) ==
  \/ connect(n) \/ send_control(n) \/ receive_response(n)
  \/ SpinReceive(n) \/ SpinReturn(n)
  \/ \E e \in End(n) : publish(n, e) \/ run_callback(n, e) \/ send_data(n, e)
=============================================================================
