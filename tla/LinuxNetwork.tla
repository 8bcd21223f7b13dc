---------------------------- MODULE LinuxNetwork ----------------------------
(***************************************************************************)
(* One crps::LinuxNetwork object: its socket and the two caches that turn   *)
(* the texts "HOST:PORT", by which the broker knows its clients, into       *)
(* socket addresses and back.                                               *)
(*                                                                         *)
(* A peer is a remote socket, [ip, port].  A text is [host, port]; its port *)
(* is the number that is written there, which may be negative: Node and     *)
(* Broker take the port as int16_t.                                         *)
(***************************************************************************)
EXTENDS Integers

CONSTANTS
  PortMod,             \* 2^16
  htons(_), ntohs(_),
  inet_pton,           \* the hosts that parse, and their addresses
  Host,                \* hosts an application may name
  Port,                \* ports an application may name
  Peer                 \* sockets that send to this one

ASSUME PortAssumption ==
  /\ PortMod \in Nat \ {0}
  /\ Port \subseteq 0..(PortMod - 1)
  /\ \A p \in 0..(PortMod - 1) : ntohs(htons(p)) = p
ASSUME HostAssumption ==
  Peer \subseteq [ip : {inet_pton[h] : h \in DOMAIN inet_pton}, port : 0..(PortMod - 1)]
ASSUME NobodyAssumption == \A h \in DOMAIN inet_pton : inet_pton[h] # "none"

VARIABLES
  m_protocol,
  m_socket,               \* "none" is -1
  m_address_to_sockaddr,  \* cache of to_sockaddr
  m_sockaddr_to_address,  \* cache of to_address
  heard,                  \* the senders recvfrom reported, with their texts
  last                    \* the last call: who was meant, who was reached

caches == <<m_address_to_sockaddr, m_sockaddr_to_address>>
network_vars == <<m_protocol, m_socket, caches, heard, last>>

Nobody == [ip |-> "none", port |-> 0]
Call(name, ok, meant, reached) ==
  [name |-> name, ok |-> ok, meant |-> meant, reached |-> reached]
Returns(name, ok) == last' = Call(name, ok, Nobody, Nobody)

NetworkInit ==
  /\ m_protocol = "Invalid"
  /\ m_socket = "none"
  /\ m_address_to_sockaddr = <<>>
  /\ m_sockaddr_to_address = <<>>
  /\ heard = {}
  /\ last = Call("new", TRUE, Nobody, Nobody)
-----------------------------------------------------------------------------
Put(f, x, y) == [z \in DOMAIN f \cup {x} |-> IF z = x THEN y ELSE f[z]]

SockAddr(peer) == [sin_addr |-> peer.ip, sin_port |-> htons(peer.port)]
PeerAt(sockaddr) == [ip |-> sockaddr.sin_addr, port |-> ntohs(sockaddr.sin_port)]
inet_ntop(ip) == CHOOSE h \in DOMAIN inet_pton : inet_pton[h] = ip

\* The members m_listen_address and m_broker_address, from a 16-bit port.
Configured(host, port) ==
  [host |-> host, port |-> IF 2 * port >= PortMod THEN port - PortMod ELSE port]

\* std::stoi and the assignment to uint16_t.
Parsed(address) ==
  [sin_addr |-> inet_pton[address.host], sin_port |-> htons(address.port % PortMod)]

\* inet_pton is only asked about a text that is not cached.
Resolves(address) ==
  address \in DOMAIN m_address_to_sockaddr \/ address.host \in DOMAIN inet_pton

to_sockaddr(address) ==
  m_address_to_sockaddr' =
    IF Resolves(address) /\ address \notin DOMAIN m_address_to_sockaddr
    THEN Put(m_address_to_sockaddr, address, Parsed(address))
    ELSE m_address_to_sockaddr

\* Mutant: the host alone is the key.
sockaddr_key_host(sockaddr) == [sin_addr |-> sockaddr.sin_addr]
sockaddr_key(sockaddr) == sockaddr

\* Mutant: the port is written in network byte order.
Written_no_ntohs(sockaddr) == [host |-> inet_ntop(sockaddr.sin_addr), port |-> sockaddr.sin_port]
Written(sockaddr) == [host |-> inet_ntop(sockaddr.sin_addr), port |-> ntohs(sockaddr.sin_port)]

to_address(sockaddr) ==
  m_sockaddr_to_address' =
    IF sockaddr_key(sockaddr) \in DOMAIN m_sockaddr_to_address THEN m_sockaddr_to_address
    ELSE Put(m_sockaddr_to_address, sockaddr_key(sockaddr), Written(sockaddr))
-----------------------------------------------------------------------------
\* Only UDP is implemented.  The protocol is stored before it is looked at.
socket(protocol) ==
  /\ m_protocol' = protocol
  /\ \/ protocol = "UDP" /\ m_socket' = "open" /\ Returns("socket", TRUE)
     \/ protocol = "UDP" /\ m_socket' = "none" /\ Returns("socket", FALSE)
     \/ protocol # "UDP" /\ UNCHANGED m_socket /\ Returns("socket", FALSE)
  /\ UNCHANGED <<caches, heard>>

\* listen and accept have nothing to do but for TCP.
listen_accept ==
  /\ Returns("listen", m_protocol # "TCP")
  /\ UNCHANGED <<m_protocol, m_socket, caches, heard>>

close == Returns("close", FALSE) /\ UNCHANGED <<m_protocol, m_socket, caches, heard>>

\* bind, connect and sendto differ in the system call they make with the address.
UseAddress(name, address, meant) ==
  /\ to_sockaddr(address)
  /\ \/ Resolves(address) /\ m_socket = "open"
        /\ last' = Call(name, TRUE, meant, PeerAt(m_address_to_sockaddr'[address]))
     \/ last' = Call(name, FALSE, meant, Nobody)
  /\ UNCHANGED <<m_protocol, m_socket, m_sockaddr_to_address, heard>>

PeerNamed(host, port) ==
  IF host \in DOMAIN inet_pton THEN [ip |-> inet_pton[host], port |-> port] ELSE Nobody

bind == \E h \in Host, p \in Port : UseAddress("bind", Configured(h, p), PeerNamed(h, p))
connect == \E h \in Host, p \in Port : UseAddress("connect", Configured(h, p), PeerNamed(h, p))

\* A node sends to the broker it was given, the broker to clients it heard from.
sendto ==
  \/ \E h \in Host, p \in Port : UseAddress("sendto", Configured(h, p), PeerNamed(h, p))
  \/ \E x \in heard : UseAddress("sendto", x.address, x.peer)

\* The node passes no p_sender_address: nothing is looked up then.
recvfrom(peer, wants_address) ==
  /\ m_socket = "open"
  /\ IF wants_address
     THEN /\ to_address(SockAddr(peer))
          /\ heard' = heard \cup
               {[peer |-> peer, address |-> m_sockaddr_to_address'[sockaddr_key(SockAddr(peer))]]}
     ELSE UNCHANGED <<m_sockaddr_to_address, heard>>
  /\ Returns("recvfrom", TRUE)
  /\ UNCHANGED <<m_protocol, m_socket, m_address_to_sockaddr>>

\* An error, or nothing there.  With the empty sockaddr of a call that does not
\* block, inet_ntop fails before anything is cached.
recvfrom_fails == Returns("recvfrom", FALSE) /\ UNCHANGED <<m_protocol, m_socket, caches, heard>>

NetworkNext ==
  \/ \E protocol \in {"UDP", "TCP"} : socket(protocol)
  \/ listen_accept \/ close
  \/ bind \/ connect \/ sendto
  \/ \E peer \in Peer, wants_address \in BOOLEAN : recvfrom(peer, wants_address)
  \/ recvfrom_fails

NetworkSpec == NetworkInit /\ [][NetworkNext]_network_vars
-----------------------------------------------------------------------------
(***************************************************************************)
(* bind, connect and sendto reach the socket that is meant, or fail: the    *)
(* configured host and port, also ports from 2^15 that are negative in the  *)
(* text, and for a text that recvfrom reported the very sender it was       *)
(* reported for, however the caches were filled before.  A host that does   *)
(* not parse is never reached, however often it is tried.                   *)
(***************************************************************************)
ReachesMeant ==
  last.name \in {"bind", "connect", "sendto"} /\ last.ok =>
    last.meant # Nobody /\ last.reached = last.meant

(***************************************************************************)
(* recvfrom reports every sender under one text and no two senders under    *)
(* the same: the broker keeps its packet counters by that text, so a second *)
(* text would open a new count and a shared one would mix two counts.       *)
(***************************************************************************)
OneTextPerPeer ==
  \A x, y \in heard : x.peer = y.peer <=> x.address = y.address
=============================================================================
