------------------------------ MODULE TopicFeed ------------------------------
(***************************************************************************)
(* What the system promises an application about the messages of one topic. *)
(* A publisher numbers its messages from 1.  A subscriber is shown the      *)
(* messages of each publisher of its topic one after the other; it may miss *)
(* some before the first one it is shown, and may stop being shown any, but *)
(* nothing in between is missing, and nothing comes late.                   *)
(***************************************************************************)
EXTENDS Naturals

CONSTANTS
  Publisher, Subscriber,
  Follows   \* the pairs <<subscriber, publisher>> of one topic

VARIABLES
  count,    \* messages of each publisher
  shown     \* shown[s][p], the last message of p that s was shown, 0 for none

feedVars == <<count, shown>>

Init ==
  /\ count = [p \in Publisher |-> 0]
  /\ shown = [s \in Subscriber |-> [p \in Publisher |-> 0]]

Publish(p) == count' = [count EXCEPT ![p] = @ + 1] /\ UNCHANGED shown

\* What s may be shown next of p: the successor, or at first any message.
Following(s, p) ==
  (1..count[p]) \cap (IF shown[s][p] = 0 THEN 1..count[p] ELSE {shown[s][p] + 1})

Show(s, p) ==
  /\ <<s, p>> \in Follows
  /\ UNCHANGED count
  /\ \E k \in Following(s, p) : shown' = [shown EXCEPT ![s][p] = k]

Next == \/ \E p \in Publisher : Publish(p)
        \/ \E s \in Subscriber, p \in Publisher : Show(s, p)

Spec == Init /\ [][Next]_feedVars
=============================================================================
