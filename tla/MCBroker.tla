------------------------------ MODULE MCBroker ------------------------------
(* Constants of Broker for TLC. *)
EXTENDS Broker, TLC

MCPriority == {dontcare_topic_priority, 0, 1}
MCId == 0..1

\* Nothing orders or chooses addresses, names or sizes.
Symmetry == Permutations(Address) \cup Permutations(NodeName)
            \cup Permutations(TypeName) \cup Permutations(MessageSize)
=============================================================================
