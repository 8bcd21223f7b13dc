# Verification of cpp_rt_pubsub (CRPS)

CRPS is a small real-time publish-subscribe library in C++. Processes create a
`Node` with publishers and subscribers; every node talks over UDP to one broker
process, which keeps the registry of nodes, message types and topics and forwards
each data packet to the subscribers of its topic. This directory holds TLA+
models of the library and the broker, the TLC configurations that check them on
small instances, and TLAPS proofs of the results that hold for every instance.

## 1. Inventory

| Component | State | Operations |
|---|---|---|
| `MessageQueue` (`message_queue.h`) | pool of buffers, free list, queue of buffer pointers | `push`, `pop`, `get`, `full`, `empty`, `size` |
| `Broker` (`broker.cpp`) | `m_client_counters`, `m_nodes`, `m_message_types`, `m_topics` | `spin()`: receive, verify the counter, answer a control request or forward a data packet |
| `Node` (`node.cpp`) with `Publisher`, `Subscriber` | `m_node_id`, `m_bp_counter`, `m_topics`, `m_topics_by_prio`, per endpoint identifiers, priority and queue | `create_*`, `connect()`, `publish()`, `spin_once()` (and the loops `spin()`, `spin_while_work()`) |
| Broker protocol (`broker_protocol.cpp`) | none | packet encoding and decoding |
| `LinuxNetwork` | socket, two address caches | `socket`, `bind`, `connect`, `listen`, `accept`, `sendto`, `recvfrom`, `close` |
| `OS`, `Logger` | output streams | logging |
| `benchmark_main.cpp`, demos | counters, histograms, position in their loops | publish / spin loops, callbacks, command line |
| `broker_main.cpp` | none | starts a `Broker` |

How they interact: a node sends control packets (JSON requests, answered one by
one) and data packets to the broker. Each packet of a node carries that node's
`m_bp_counter`, incremented per packet; the broker accepts only the successor of
the last counter it accepted from that address. The broker answers control
packets to the sender and copies data packets, byte for byte, to every entry of
the topic's subscriber list. Everything is single-threaded: the interleavings are
those of processes and of packets on their way.

What is hard here:

* the counter check never resynchronises, and counters are used up before the
  send that may fail;
* `broker_rpc_blocking` takes whatever packet comes next for its answer, compares
  no `rpc_id` and has no timeout;
* identifiers are vector indexes that nodes cache for ever, also past a broker
  restart;
* a topic is defined by whoever registers it first, and several nodes race;
* buffers are recycled, handed out as mutable pointers and reinterpreted as the
  message type without a check;
* `spin_once()` mixes receiving, callbacks and sending in one pass over the
  priorities, and a callback may publish in the middle of it;
* `create_*` returns pointers into vectors that move when they grow;
* one receive buffer serves all datagrams, and headers are read from it at fixed
  offsets;
* clients are told apart by a text made from their address, through caches that are
  never emptied.

What makes each part correct: the queue is a bounded FIFO; the registry is
consistent and its identifiers are stable; a node that connected agrees with the
broker; messages reach the right callbacks, in order, without gaps between the
first and the last, and, without losses, eventually. `PROJECT.json` lists every
hazard with the source line and the properties aimed at it.

## 2. Modules

| Module | Models |
|---|---|
| `BoundedFifo` | what a message queue promises (abstract) |
| `MessageQueue` | `MessageQueue`: recycled buffers, free list, queue, in-place edits of the front |
| `BrokerProtocol` | counters, packets, requests and responses; shared by the next two |
| `Broker` | `Broker` against an arbitrary environment: any packet from any client at any time |
| `BrokerProofs` | theorems about `Broker` |
| `MCBroker` | constants and symmetry for TLC |
| `Node` | `Node`, `Publisher`, `Subscriber` and the sockets |
| `TopicFeed` | what an application may rely on about the messages of a topic (abstract) |
| `PubSub` | nodes, one broker (`B == INSTANCE Broker`) and a faulty network, composed; implements `TopicFeed` |
| `PubSubProofs` | theorems about `PubSub`: types, the broker inside it, gaps, subscriber queues; and about `connect()`: answers, agreement, names |
| `RoutingProofs` | theorems about the way of a message to its callbacks: its topic, its turn (refinement of `TopicFeed`) |
| `OrderProofs` | theorem about what callbacks are shown: its order and the number of copies |
| `MCPubSub` | scenarios: who creates which publishers and subscribers |
| `Programs`, `MCPrograms` | demo publisher and subscriber, benchmark generator and reflector, as processes of `PubSub` |
| `ProgramsProofs` | theorems about `Programs` |
| `NodeStorage` | where `Publisher` and `Subscriber` objects and their buffers live, and the pointers to them |
| `StorageProofs` | theorems about message buffers: `MessageQueue` and `NodeStorage` |
| `Codec`, `MCCodec` | packet headers in the receive buffer, encoders and `decode_packet_buffer` |
| `LinuxNetwork`, `MCLinuxNetwork` | `LinuxNetwork`: socket, address texts, caches, byte order of ports |
| `NetworkProofs` | theorems about what goes over the wire: `Codec` and `LinuxNetwork` |
| `Options` | `parse_options`, `option_or_default` |
| `OptionsProofs` | theorem about `Options` |
| `MCParts` | for TLC: the parts that keep their state to themselves (`MessageQueue`, `Codec`, `LinuxNetwork`, `NodeStorage`, `Options`); a behaviour is one of one part |

**MessageQueue.** `m_buffers`, `m_free_buffers` and `m_queue` are the C++ members;
a buffer is a number, its content a header and a body. `push` with `NoHeader` is a
push with `p_header_data = nullptr`, which leaves the recycled buffer's header
alone. `FillHeader` is `Node::send_data` filling the header in place, `WriteBody`
a callback that writes into the message it is shown, as the benchmark's
`ping_callback` does.

**Broker.** One step is one iteration of `spin()`. The environment is any packet,
so loss, duplication, delay, reordering and packets with identifiers of an earlier
broker process need no modelling of their own. `verify_and_update_client_counter`
is a conjunct of every handler. A response that cannot be sent ends the loop
(`run = "exit"`). Reading past a vector in the operand of a log statement is
undefined behaviour: the handler may go on as if nothing happened, or the process
ends (`crash`). `sent` records the sends of the last iteration; the composition
puts them into the nodes' sockets. A `ControlPacket` with op `"other"` stands for
the scopes and actions the broker does not implement; malformed JSON is out of
scope.

**Node.** `connect()` is a plan of blocking calls, each in two steps: `send_control`
(request sent) and `receive_response` (answer taken, identifier stored). The
returned identifiers are kept per endpoint in `ids`; `m_topics` and
`m_topics_by_prio` are derived from them (`Subscribers`, `Before`). `spin_once()`
is `SpinReceive`, then one `run_callback` or `send_data` per endpoint with a queued
message, in priority order (`Reaches`), then `SpinReturn`; other processes run in
between. A message is named by its publisher and its number there, so that order,
gaps, copies and mixed-up topics are visible.

**PubSub.** `BrokerSpin` hands the first packet of the broker's socket to an action
of `Broker`. `NetworkFault`, `BrokerRestart`, and the failures of `socket`,
`sendto` and `recvfrom` share one budget, `MaxFaults`, and happen only when
`FaultKind` names them. A restarted broker has an empty registry and an empty
socket. A restarted node is a second process with the same `Name`: it has a new
socket and thus a new address. `Feed` maps the composition to `TopicFeed`: the
abstract count is what `publish()` accepted, what was shown last is read off the
callbacks, and a further copy of a message is a stutter.

**Programs.** `app` says what a program does next, `pc` of `Node` whether it is in
`connect()`, in `spin_once()` or between calls. `AfterSpinOnce` is what `spin()`,
`spin_while_work()` and the generator's inner loop make of a `SpinOnceResult`, for which
`work_done` is kept as in the code: receiving and sending are work, a callback is not. A
pong is the header of the message it answers with the reflector's id written into it,
published inside `ping_callback` while `spin_once()` is under way. A latency is filed as
the ping it was measured with, so that one can see whose it is. The size tests of the
callbacks compare a value with itself and are left out. `Launch` says which processes
run together, `StartAfter` in which order they start: those of the benchmark one after
the other, the demos in any order. `pong_callback` never looks at `generator_id`, so
with a second generator the histograms would mix the round trips of both;
`HistogramFaithful` is stated for one. Faults of the network and broker restarts are
left to `PubSub`.

**NodeStorage.** A pointer to an element of a vector is `<<allocation, index>>`; a
buffer is named by the object that allocated it. `create` grows the vector as libstdc++
does (capacity 1, 2, 4, ...) and copies the elements, because `std::queue`'s move
constructor is not `noexcept` there; a copied `MessageQueue` has new buffers but the old
pointers to them. Any use of memory that is gone sets `undefined`, and the model stops.

**Codec.** The buffer keeps the header fields that overlay each other; a datagram
overwrites those it reaches and leaves the others as they were. A field that it
reaches only in part may have any value. Offsets are computed modulo `OffsetMod`
(2^32 in the code). `ReceiveDamaged` delivers any header in any length.

**LinuxNetwork.** Ports are numbers below `PortMod` (2^16 in the code), turned into
network byte order and back; texts keep the number that is written, which is negative
for ports that do not fit `int16_t`. `meant` and `reached` in `last` say which peer a
caller meant and which socket address the system call was given.

**Options.** One step per turn of the `while` loop. An option at the very end of the
command line makes a `std::string` from the null pointer `argv[argc]`: `undefined`.

## 3. Runs

Run a configuration with `tlc -workers 2 -config <cfg> <module>`.

| Run | Module, configuration | Shows |
|---|---|---|
| `broker` | `MCBroker`, `MCBroker.cfg` | `TypeOK`, `RegistryInv`, `AnswersTruthful`, `IdsStable` for arbitrary packets |
| `connect` | `MCPubSub`, `PubSubConnect.cfg` | `RegistrationAgrees`, `AnswersMatch`, `NameIsFinal`: conflicting registrations, two processes of one name, one fault |
| `order` | `MCPubSub`, `PubSubOrder.cfg` | `InOrder`, `ImplementsFeed` (refinement of `TopicFeed`), `GapIsFinal`, `AnswersMatch`: one fault of the uplink, the socket calls or the broker process |
| `routing` | `MCPubSub`, `PubSubRouting.cfg` | `RoutedRight`, `ForwardedRight`, `SubscriberKeepsUp`: two topics created in opposite orders, one subscribed to twice, one downlink fault |
| `live` | `MCPubSub`, `PubSubLive.cfg` | `SubscriberKeepsUp` of nodes that also publish; `ConnectReturns`, `EventuallyDelivered` under fairness; counters that wrap |
| `programs` | `MCPrograms`, `Programs.cfg` | `TypeOK`, `HistogramFaithful`, `BacklogIsFailedSends`, and under fairness `LoopsReturn`: a generator with two reflectors, or the two demos; one failing send |
| `parts` | `MCParts`, `Parts.cfg` | queue: `TypeOK`, `QueueInv`, `ImplementsFifo`; packets: `RoundTrip`; network: `ReachesMeant`, `OneTextPerPeer`; storage: `OneOfEachIsSafe`; command line: `LastValueWins` |
| `priority` | `MCPubSub`, `PubSubPriority.cfg` | violated: `PriorityRespected` |
| `unknown_type` | `MCPubSub`, `PubSubUnknownType.cfg` | violated: `TopicTypeKnown` |
| `invalid_topic` | `MCPubSub`, `PubSubInvalidTopic.cfg` | violated: `InvalidTopicIgnored` |
| `storage_many` | `NodeStorage`, `StorageMany.cfg` | violated: `UsesLiveMemory` |
| `codec_data` | `MCCodec`, `CodecData.cfg` | violated: `DataInside` |

**Bounds.** In `MCBroker`, identifiers 0 and 1 include one that is known and one that is
not for every vector; two names per vector suffice for "first" and "already there"; the
counter has two values, so that after each packet one counter is the next and the other
a repeated one, and every second step wraps around; addresses, names and sizes are
symmetric because nothing orders or chooses them. In `PubSub` the packet counters have
16 or 32 values where wrap-around is not the question, more than the packets a behaviour
sends, and 4 in `live`, where they wrap several times. One fault suffices for the
hazards, which need one lost, repeated, delayed or unsent packet or one restart.
`MaxPublish`, `MaxFaults`, `MaxEndpoints` and `MaxCreate` are guards; the others are
sizes of sets. `MaxEndpoints = 2` is reached only by the node that subscribes twice (and
by the two reflectors) and stops nobody in the `PubSub` and `Programs` scenarios.
`order` needs three messages: one shown, one lost, one that must not be shown any more.
`routing` needs one per topic; a repeated packet makes it two. `programs` has two pings
and histograms of one entry, so that a histogram fills up, and queues of one entry, so
that a failed send makes a later `publish()` be refused. `parts` creates three objects
per vector, which copies the first one twice, command lines of up to five words, and
queues of three buffers, of which one is recycled while others wait. In `Codec` words
have two base-8 digits and take the values 0, 4 and 60, the last of which overflows the
offset (a damaged size; `RoundTrip` is not about those); the lengths are those around
every field boundary. In `LinuxNetwork` ports have two base-4 digits; the peers include
two whose ports are each other's byte swap, two hosts with one port, and a port whose
text is negative.

**Deadlock** is checked in `live` and `codec_data`. Elsewhere a behaviour may
really end: the broker left its loop or crashed, or a lost packet left a node
waiting in `connect()` for ever; a program exits or reaches `MaxPublish`; a command
line is read; memory that is gone was used.

**Fairness** (`FairSpec`): the broker's loop and every node's library code keep
running (weak fairness of `BrokerSpin` and of `LibraryStep(n)` per node), because
`Broker::spin()` and `Node::spin()` are endless loops in their own processes and
`connect()` is called by a running program. The application need not publish.
`live` has no faults: there is no retransmission anywhere, so nothing is delivered
after a loss. `ProgramsFairSpec` assumes weak fairness of the broker and of every
process, and strong fairness of `PeriodOver`: the generator looks at the clock again
and again, and since `steady_clock` advances it cannot find its period unfinished for
ever. The demo's `sleep_for` is no step: it returns.

**What the runs say about assumptions.** `AnswersMatch` holds for faults towards the
broker because the counter check filters repeated requests. It relies on UDP not
repeating or delaying an answer towards the node. `InOrder` likewise is about uplink
faults: the node does not check counters of what it receives, so a repeated packet on
the downlink is shown twice. `RoutedRight` and `ForwardedRight` hold over a faulty
downlink, but not across a broker restart, where cached identifiers of old and new nodes
mean different topics. `routing` has one message type and size; that a node never takes
another type or size for its own is checked where nodes conflict, in `connect`
(`RegistrationAgrees`), and both are proved together in `MessagesAreRoutedRight`.
`SubscriberKeepsUp` excludes failing sends of a node that also subscribes, which end
`spin_once()` before the lower priorities were reached. Counter wrap-around, a TODO of
the repository's README, works: the comparison in `verify_and_update_client_counter` is
done in 32 bits.

### Findings

* `priority`: README.md line 9 says that higher priority topics "are always handled
  before lower priority ones in both broker and nodes". `spin_once()` sends one
  message per publisher and pass, so a low-priority message leaves before the second
  queued high-priority one.
* `unknown_type`: `register_topic` logs "Cannot register new topic ... of unknown
  message type" and then registers it. A node whose `connect()` spans a broker
  restart gets there. `RegistryInv` shows the damage is contained: nobody can publish
  or subscribe to such a topic.
* `storage_many`: README.md line 13 says that a node "manages the publishers and
  subscribes in this process", in the plural. With a second `create_publisher` the
  pointer returned by the first dangles, and so do the pointers inside a copied queue.
  No program of the repository creates two of a kind, and `OneOfEachIsSafe` shows
  that they are safe.
* `codec_data`: `decode_packet_buffer` computes the end of a data packet with the size
  of the control header. A data packet that ends up to eight bytes early is accepted
  instead of reported with "This indicates corrupted packet data!".
* `invalid_topic`: the debug log in `spin()`, compiled in by default, indexes
  `m_topics` before the check that ends with "Ignoring packet and continuing".

## 4. Proofs

`tlapm <module>.tla` checks `BrokerProofs`, `PubSubProofs`, `RoutingProofs`,
`OrderProofs`, `ProgramsProofs`, `StorageProofs`, `NetworkProofs` and
`OptionsProofs`; the first six take some minutes each.

**MessageQueue** (assuming only `Capacity \in Nat`, `NoHeader` not a header, and
non-empty bodies and headers). `TypeCorrect` and `QueueInvariant` are proved from
`TypeOK /\ QueueInv`, which is inductive: a push needs the front of the free list
not to be queued, a pop needs the front of the queue not to be free. `Refinement`
shows `QueueSpec => Fifo!Spec` with the mapping "bodies of the queued buffers". The
invariant is what makes it true: without `NoAliasing` a push or an edit of the front
could change another queued body, without `NoLeak` a refused push could find fewer
than `Capacity` messages.

**Broker** (assuming `CounterMod >= 2`, identifiers are naturals, priorities
integers, `MaxEndpoints` natural; addresses, names, sizes and payloads are
arbitrary sets). `TypeCorrect` follows action by action. `RegistryInvariant` proves
`RegistryInv` from `TypeOK /\ RegistryInv`: the vectors only change by appending an
entry with a new name or by appending a validated node id to a topic (lemma
`RegistryChange`), the first keeps names unique (`UniqueAppend`) and keeps known
what was known (`KnownAppend`, `ServableKept`), the second adds an index that
`validate_topic_parameters` has just compared (`ServableWithEndpoint`).
`IdsKeepTheirMeaning` proves the action property `IdsStable` from the same case
split. `AnswersAreTruthful` proves the action property `AnswersTruthful`,
which compares the answer in `sent` and the registry after the step with the request
that was handled (`GrantedAsAsked`), handler by handler: the handlers compare a request
with an entry found by its name, and `PrioritiesReal` adds to `RegistryInv` that no topic
is ever registered with the don't-care priority.

**PubSub** (for every set of nodes, every plan of endpoints, every `FaultKind` and
`MaxFaults`). `SystemInv` is the base of what follows: `TypeInv` types the nodes, the
packets on their way and the registry, `BrokerInv` is the broker's own invariant. A
`BrokerSpin` is a step of `Broker`, and what the nodes and the network put into the
uplink are packets of `Broker`'s environment, so the lemmas of `BrokerProofs` carry
over. `TypeCorrect` follows. `GapsAreFinal` says that `Wedged` persists: the broker waits
for a counter that the node has used and that no packet carries, and no step of the node,
the network or the broker brings it back or lets the broker go on, except a restart of
the broker or the node's counter wrapping around. A send makes a packet with the node's
next number, which is past the missing one, the network repeats or delays only what is
there, and the broker accepts no other. `SubscribersKeepUp` assumes
`SendsStrandNobody` (sends do not fail, or no node both publishes and subscribes) and
needs `ServedThisRound`: a subscriber with a message is one that this `spin_once()`
has still to reach, for the queue lengths alone do not say that the message is gone
before the next is received.

**connect()**. `AnswersAreMatched` assumes `AnswersNotRepeated`: no `duplicate_down`,
and fewer calls in a `connect()` than counters. `ConnectInv` counts what is on its way
for a node that waits: its last request or one answer to it, never both, because the
broker takes each counter once. `RegistrationsAgree` and `NamesAreFinal` also assume
`BrokerStays` (no `restart`), without which they are false: a cached identifier is then
one of another registry. `AgreeInv` extends agreement from connected nodes to the calls
a connecting node has finished and to the answers on their way; `Grown` says what a
step may do to the registry, so that an agreement once made stays. In `NamesAreFinal` a
second process of a name would need a valid answer to `register_node`, which the broker
gives only to the address that holds the name.

**Routing**. `MessagesAreRoutedRight` has the same hypotheses. `RouteInv` follows a
message: a data packet in the uplink carries its publisher's topic id, one in an inbox
went out to a topic the receiver subscribed to, a queued and a shown message fit their
subscriber. Each step uses the agreement `AgreeInv`, since the broker compares
identifiers and never names. `ForwardsAreRight` (the invariant `ForwardedRight`) is about
what the broker sends. `spin()` forwards a data packet whoever sent it, so that the
publisher is a listed one only because packets on their way say what their sender may
say: `EntitledInv` has the broker list the publisher of every data packet in the uplink
(`UplinkEntitled`), a publisher with a granted topic be listed (`ServedRight`), and every
listed subscriber be one that was created so (`SubscribersRight`).

**Order** (`TopicsAreFeeds`, the refinement `ImplementsFeed`). For any number of nodes,
endpoints, messages and faults, with packets to the broker lost, repeated or delayed
and sends and receives of nodes that fail, a subscriber that has been shown a message
of a publisher is next shown the one published after it, or a copy, or none. The
hypotheses are those of routing and of `SubscribersKeepUp`, and two more; those that the
order depends on by itself:

* `BrokerStays`: a restarted broker accepts the first packet of a node whatever its
  counter, so one lost before it goes unnoticed, and the cached topic id in it may be
  in the new registry.
* `SendsStrandNobody`: otherwise a full queue of a subscriber drops a message that the
  node has received, and the next one is shown.
* `DownlinkReliable`: the node checks no counters of what it receives, so a packet lost
  there is a gap, one delayed is late. A `sendto` of the broker that fails is such a loss.
* `[]NoWrap`: no node has counted 2^32 packets. After that a delayed packet of the last
  round could carry the expected counter.

The inductive invariant `FeedInv` adds to routing what is in each place. `Stocked`: a
publisher's queue holds its last messages, in order, so the first one not yet sent is
known. `UplinkGenuine`, `InboxGenuine`: a data packet is one of a message that was sent,
the uplink has no packet that its sender's counter has not reached, and two packets with
the same sender and counter are copies. `LineOf` says of every pair of publisher and
subscriber that before each message its predecessor is on its way, or was the last to
leave the inbox, or a counter between the two is lost: in the uplink (`UplinkRuns`), from
the inbox to what the broker has yet to accept (`BrokerRuns`) and in the inbox
(`InboxRuns`, where nothing can be lost; with two subscriptions of one node a message may
come twice). The next message that the publisher will send counts as on its way, so that
the line says something of it before it is sent. A lost counter is one that the broker
waits for and no packet carries: what is behind it never enters the inbox. Each action
moves a message from one place to the next, and there is one lemma per action and place.
`QueueFollows` uses `ServedThisRound`: at most one message waits in a subscriber's queue.

**Copies** (`MessagesInOrder`, the invariant `InOrder`, under the same hypotheses). What
the refinement leaves open is how often a message is shown: the broker sends one copy
per entry of the node in the topic's list, and the node queues each copy for all its
subscribers of the topic. `InOrder` says that the count is `Copies`, the number of these
subscribers, for every message but the last one shown. The proof has three parts.

* `ListInv`: the broker lists a node with a topic once per subscriber whose
  `add_subscriber` was granted (`Listed`). An answer that is still on its way already
  counts (`Reached`). A request names its sender and is one of `connect()`
  (`OwnRequest`), and the broker has counted every request it answered (`CountedAll`), so
  that a repeated request is not granted again.
* `Tally`: of each message a connected node has none or `Copies` in its inbox, in the
  subscriber's queue and with the callback together (`Total`). The broker forwards a
  message only if the node has none of it, and then all of them in one step; a
  `spin_once()` only moves copies from one place to the next. A node that has still to
  find its last answer is counted as connected (`Ready`): messages are already queued
  behind that answer.
* `InSequence`: what was shown is ordered and complete. A message is shown after an
  earlier one only when no copy of that is left in the inbox or in the queue, which
  follows from `Sorted`, the part of the line that says that nothing comes before an
  earlier message; then the tally says that all of its copies were shown.

The lemmas `Number...` say how `Number`, the count of the elements of a sequence that
are in a set, changes when the sequence does.

**Programs** (for any number of generators, reflectors and demo programs on any topics,
any `QueueCapacity`, `Launch` and `StartAfter`). `ProgramAssumption` is what the
programs' code fixes: the publisher is created before the subscriber, and the benchmark
gives both the same `m_topic_priority`. Every step is one of `Node` or of the broker,
and the lemmas about `PubSub` apply to it, except `ping_callback`, which publishes in
the middle of `spin_once()` (`StepsOfPrograms`); `ProgramsTypeCorrect`, which is about
the ranges of counters and plans and the capacity of the queues, therefore needs one new
case. `BacklogsAreFailedSends` also assumes `PrioritiesGiven`: no benchmark process is
started with `dontcare_topic_priority`, with which its subscriber would take over the
topic's priority and its publisher would not, so that a publisher could come first.
`PriorityInv` follows the priority through `connect()`: requests carry the priority the
process was given, answers that name a topic carry the one asked for, so that the
subscriber's stays equal to the publisher's and `spin_once()` reaches the subscriber
first (`SubscriberFirst`). `BacklogInv` is the bound at every step and not only between
two calls: one message more than failed calls account for may be queued while the
publisher is still to be reached (`OneMore`), and a reflector's `spin_once()` that has
yet to reach the subscriber has yet to reach the publisher too.

**NodeStorage** (for every `QueueCapacity` and number of objects).
`OneOfEachStaysSafe` rests on `SafeInv`: with at most one object of a kind its place, its
registered pointer, the pointer handed out and the buffers in its queue are of one
allocation. With more it is false, as `storage_many` shows.

**Codec** (assuming that `ntohl` undoes `htonl` and that the words lie below
`OffsetMod`). `RoundTripHolds` needs no strengthening, because a datagram is decoded in the
step that receives it. It rests on `NoOverflow` (a packet shorter than `OffsetMod` has
its end computed exactly) and on what `decode_packet_buffer` returns for an accepted
packet (`DecodesControl`, `DecodesData`). `RoundTrip` also explains why the wrong header
size in the data check does no harm to intact packets: it only makes the check weaker.

**LinuxNetwork** (assuming that `ntohs` undoes `htons` and that peers have addresses
that `inet_pton` knows). The inductive invariant `Inv` says that each cache entry is
what the conversion would compute anew (`AddressCacheInv`, `NameCacheInv`) and that a
reported text is the one its sender is written as (`HeardInv`); without it nothing is
known of an entry made long ago. `PortSurvives` is the arithmetic of `int16_t` and
`uint16_t`, `WrittenPeer` says that a written address parses back to its sender, from
which `AddressesReachMeant` and `TextsIdentifyPeers` follow.

**Options** (for every command line). `LastValueAlwaysWins` has to connect a loop that
skips the word after each recognised option with a property that says which words are
names: a word is one when the longest run of option words before it has even length.
`LoopInv` carries that run along: the loop stands at the end of one of even length, and
what it has stored is the last value of the names behind it.

**Only model-checked:** liveness (`ConnectReturns`, `EventuallyDelivered`,
`LoopsReturn`: fairness is out of the prover's reach); `HistogramFaithful`, which
compares a histogram with a subsequence (`SelectSeq`), that is, needs induction over
data; `RoutedRight` with a repeated answer datagram, `InOrder` and `ImplementsFeed`
across a broker restart (which `order` includes), and everything else
about broker restarts but `GapIsFinal`.

## 5. Not modelled, and why

* Malformed JSON (an exception in `json::parse`) and the text of JSON documents: the
  vendored library's business.
* `spin_once()` or a second `connect()` after a failed `connect()`, and copies of
  network objects: no program does that.
* `OS`, `Logger`, `broker_main.cpp`, the statistics of `print_results` and the plot:
  output, and no state that anything depends on. Log operands that read outside a
  vector are modelled in `Broker`.
* What damaged packets may do beyond `DataInside`: a size field whose 32-bit sum with
  the header sizes overflows passes the check of `decode_packet_buffer`. `Codec` has
  the step, no property is stated about it.
* TCP: unimplemented; `socket` refuses it. Real time: a period is over at some time.
* A failed send of one response ends the broker for all nodes (`broker.cpp` line 73).
  It is modelled (`run = "exit"`), but neither code nor documentation says what should
  hold then.

## 6. Plan

Done: queue, broker, nodes, composition, then codec, network, storage, programs and
command line; proofs of the safety invariants of queue, broker, codec, network,
storage, command line and of the composition, of its refinement of `TopicFeed`, and of
the programs' types and backlog. Next:

1. Proofs: `ImplementsFeed` across a broker restart and for the programs' messages.
2. Identifiers of nodes that outlive a broker restart; a bound on priority inversion
   that does hold.
