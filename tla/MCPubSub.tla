------------------------------ MODULE MCPubSub ------------------------------
(* Constants of PubSub for TLC: small sets of processes and what they create. *)
EXTENDS PubSub

CONSTANTS p1, p2, s1

dontcare == dontcare_topic_priority
Pub(topic, type, size, priority) ==
  [role |-> "publisher", topic |-> topic, type |-> type, size |-> size, priority |-> priority]
Sub(topic, type, size, priority) ==
  [role |-> "subscriber", topic |-> topic, type |-> type, size |-> size, priority |-> priority]

OwnName == [n \in Node |-> n]

\* A process and the one that is started in its place.
SameName == [n \in Node |-> IF n \in {p1, p2} THEN "pub" ELSE "sub"]

MCTopicName == {"x", "y"}
MCTypeName == {"t", "u"}
MCSize == {4, 8}
MCPriority == {dontcare, 0, 1}

\* s1 subscribes twice, with the topic's priority and with its own.
Twice == (p1 :> <<Pub("x", "t", 4, 1)>>)
         @@ (s1 :> <<Sub("x", "t", 4, dontcare), Sub("x", "t", 4, 1)>>)

\* Each node publishes what the other one listens to.
PingPong == (p1 :> <<Pub("x", "t", 4, 1), Sub("y", "t", 4, dontcare)>>)
            @@ (s1 :> <<Pub("y", "t", 4, 0), Sub("x", "t", 4, dontcare)>>)

\* s1 disagrees with p1 on the priority of x, and with p2 on the size of t.
Clash == (p1 :> <<Pub("x", "t", 4, 1)>>)
         @@ (p2 :> <<Pub("y", "t", 8, 1)>>)
         @@ (s1 :> <<Sub("x", "t", 4, 0)>>)

\* Two topics of one message type, created in opposite orders; s1 subscribes
\* to one of them twice.
Crossing == (p1 :> <<Pub("x", "t", 4, 1), Pub("y", "t", 4, 0)>>)
            @@ (s1 :> <<Sub("y", "t", 4, 0), Sub("x", "t", 4, 1), Sub("x", "t", 4, dontcare)>>)

\* One node publishes on two priorities.
TwoPriorities == p1 :> <<Pub("x", "t", 4, 0), Pub("y", "t", 4, 1)>>
=============================================================================
