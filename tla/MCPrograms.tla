----------------------------- MODULE MCPrograms -----------------------------
(* Constants of Programs for TLC. *)
EXTENDS Programs

CONSTANTS g1, r1, r2, d1, d2

Pub(topic) ==
  [role |-> "publisher", topic |-> topic, type |-> "t", size |-> 4, priority |-> 1]
Sub(topic) ==
  [role |-> "subscriber", topic |-> topic, type |-> "t", size |-> 4, priority |-> 1]

OwnName == [n \in Node |-> n]
MCTopicName == {"ping", "pong", "demo"}
MCTypeName == {"t"}
MCSize == {4}
MCPriority == {1}

\* The benchmark with two reflectors, or the two demo programs.
MCProgram == [n \in Node |->
  CASE n = g1 -> "generator" [] n \in {r1, r2} -> "reflector"
    [] n = d1 -> "demo_pub" [] n = d2 -> "demo_sub"]
MCEndpoint == [n \in Node |->
  CASE n = g1 -> <<Pub("ping"), Sub("pong")>>
    [] n \in {r1, r2} -> <<Pub("pong"), Sub("ping")>>
    [] n = d1 -> <<Pub("demo")>>
    [] n = d2 -> <<Sub("demo")>>]
MCLaunch == {{g1, r1, r2}, {d1, d2}}

\* Reflectors one after the other, then the generator; the demos in any order.
InTurn == [n \in Node |->
  CASE n = r2 -> {r1} [] n = g1 -> {r1, r2} [] OTHER -> {}]
=============================================================================
