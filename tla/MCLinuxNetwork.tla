--------------------------- MODULE MCLinuxNetwork ---------------------------
(* Ports of two digits in base 4 stand for ports of two bytes. *)
EXTENDS LinuxNetwork, TLC

CONSTANTS a1, a2

SwapPort(p) == (p % 4) * 4 + p \div 4
MCinet_pton == "h1" :> a1 @@ "h2" :> a2

\* Two ports of one host that are each other with their bytes swapped, one port
\* of two hosts, one port from PortMod / 2 on.
MCPeer == {[ip |-> a1, port |-> 1], [ip |-> a1, port |-> 4],
           [ip |-> a2, port |-> 1], [ip |-> a1, port |-> 9]}
=============================================================================
