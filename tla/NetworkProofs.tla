----------------------------- MODULE NetworkProofs --------------------------
(***************************************************************************)
(* Proofs about what goes over the network and to whom.  First the packets: *)
(* RoundTrip of Codec for every word size, every byte order and every set   *)
(* of damaged datagrams.  Then the addresses: those of LinuxNetwork for     *)
(* every set of hosts, ports and peers, every port width and byte order.    *)
(***************************************************************************)
EXTENDS Codec, LinuxNetwork, TLAPS

(***************************************************************************)
(* The end offset of a packet that is shorter than OffsetMod is computed    *)
(* without overflow.                                                        *)
(***************************************************************************)
LEMMA NoOverflow ==
  ASSUME NEW size \in Word, bp_header_size + bp_data_header_size + size < OffsetMod
  PROVE  /\ json_end_offset(size) = bp_header_size + bp_control_header_size + size
         /\ data_end_offset(size) = bp_header_size + bp_control_header_size + size
<1>1. size \in Nat /\ OffsetMod \in Nat
  BY WordAssumption
<1>2. 9 + size \in Nat /\ 9 + size < OffsetMod
  BY <1>1 DEF bp_header_size, bp_data_header_size
<1>3. \A a, b \in Nat : a < b => a % b = a
  OBVIOUS
<1>4. (9 + size) % OffsetMod = 9 + size
  BY <1>1, <1>2, <1>3
<1> QED
  BY <1>1, <1>4 DEF json_end_offset, data_end_offset, bp_header_size, bp_control_header_size

(***************************************************************************)
(* End offsets are numbers, so that comparing them is what it looks like.   *)
(***************************************************************************)
LEMMA EndIsNumber ==
  ASSUME NEW size \in Word
  PROVE  json_end_offset(size) \in Int /\ data_end_offset(size) \in Int
<1>1. 9 + size \in Int /\ OffsetMod \in Nat \ {0}
  BY WordAssumption
<1>2. \A a \in Int, b \in Nat \ {0} : a % b \in Int
  OBVIOUS
<1>3. (9 + size) % OffsetMod \in Int
  BY <1>1, <1>2
<1>4. bp_header_size + bp_control_header_size + size = 9 + size
  BY WordAssumption DEF bp_header_size, bp_control_header_size
<1> QED
  BY <1>3, <1>4 DEF json_end_offset, data_end_offset

(***************************************************************************)
(* What decode_packet_buffer makes of an accepted control packet and of an  *)
(* accepted data packet.                                                    *)
(***************************************************************************)
LEMMA DecodesControl ==
  ASSUME NEW b \in PacketBuffer, NEW n \in Nat, n >= bp_header_size, b.type = "Control",
         json_end_offset(ntohl(b.first)) <= n
  PROVE  decode_packet_buffer(b, n) = Control(ntohl(b.counter), ntohl(b.first))
<1>1. ntohl(b.first) \in Word
  BY ByteOrderAssumption DEF PacketBuffer
<1>2. json_end_offset(ntohl(b.first)) \in Int
  BY <1>1, EndIsNumber
<1>3. ~(n < bp_header_size) /\ ~(json_end_offset(ntohl(b.first)) > n)
  BY <1>2 DEF bp_header_size
<1> QED
  BY <1>3 DEF decode_packet_buffer

LEMMA DecodesData ==
  ASSUME NEW b \in PacketBuffer, NEW n \in Nat, n >= bp_header_size, b.type = "Data",
         data_end_offset(ntohl(b.third)) <= n
  PROVE  decode_packet_buffer(b, n) =
           Data(ntohl(b.counter), ntohl(b.first), ntohl(b.second), ntohl(b.third))
<1>1. ntohl(b.third) \in Word
  BY ByteOrderAssumption DEF PacketBuffer
<1>2. data_end_offset(ntohl(b.third)) \in Int
  BY <1>1, EndIsNumber
<1>3. ~(n < bp_header_size) /\ ~(data_end_offset(ntohl(b.third)) > n)
  BY <1>2 DEF bp_header_size
<1> QED
  BY <1>3 DEF decode_packet_buffer

(***************************************************************************)
(* RoundTrip: an intact packet is decoded to what was encoded, whatever the *)
(* receive buffer held before.  It needs no strengthening: a datagram is    *)
(* decoded in the step that receives it.                                    *)
(***************************************************************************)
THEOREM RoundTripHolds == CodecSpec => []RoundTrip
<1>1. CodecInit => RoundTrip
  BY DEF CodecInit, RoundTrip
<1>2. RoundTrip /\ [CodecNext]_codec_vars => RoundTrip'
  <2> SUFFICES ASSUME RoundTrip, [CodecNext]_codec_vars, meant' # Damaged, Fits(meant')
               PROVE  decoded' = meant'
    BY DEF RoundTrip
  <2>1. CASE ReceiveControl
    <3>1. PICK counter \in Word, size \in Size, b \in PacketBuffer :
            /\ bp_control_json_to_packet_buffer(b, Control(counter, size))
            /\ overwrite(b, bp_header_size + bp_control_header_size + size)
            /\ meant' = Control(counter, size)
      BY <2>1 DEF ReceiveControl
    <3>2. size \in Word /\ size \in Nat /\ Fits(Control(counter, size))
      BY <3>1, SizeAssumption, WordAssumption
    <3>3. b.type = "Control" /\ b.counter = htonl(counter) /\ b.first = htonl(size)
      BY <3>1 DEF bp_control_json_to_packet_buffer, Control
    <3>4. ntohl(b.counter) = counter /\ ntohl(b.first) = size
      BY <3>2, <3>3, ByteOrderAssumption
    <3>5. bp_header_size + bp_data_header_size + size < OffsetMod
      BY <3>2 DEF Fits, Control
    <3>6. json_end_offset(size) = bp_header_size + bp_control_header_size + size
      BY <3>2, <3>5, NoOverflow
    <3>7. decode_packet_buffer(b, bp_header_size + bp_control_header_size + size)
            = Control(counter, size)
      <4>1. /\ bp_header_size + bp_control_header_size + size \in Nat
            /\ bp_header_size + bp_control_header_size + size >= bp_header_size
            /\ bp_header_size + bp_control_header_size + size
                 <= bp_header_size + bp_control_header_size + size
        BY <3>2 DEF bp_header_size, bp_control_header_size
      <4> QED
        BY <4>1, <3>3, <3>4, <3>6, DecodesControl
    <3> QED
      BY <3>1, <3>7 DEF overwrite
  <2>2. CASE ReceiveData
    <3>1. PICK counter \in Word, topic_id \in Word, message_type_id \in Word,
               size \in Size, b \in PacketBuffer :
            /\ bp_fill_data_header(b, Data(counter, topic_id, message_type_id, size))
            /\ overwrite(b, bp_header_size + bp_data_header_size + size)
            /\ meant' = Data(counter, topic_id, message_type_id, size)
      BY <2>2 DEF ReceiveData
    <3>2. size \in Word /\ size \in Nat /\ Fits(Data(counter, topic_id, message_type_id, size))
      BY <3>1, SizeAssumption, WordAssumption
    <3>3. /\ b.type = "Data" /\ b.counter = htonl(counter) /\ b.first = htonl(topic_id)
          /\ b.second = htonl(message_type_id) /\ b.third = htonl(size)
      BY <3>1 DEF bp_fill_data_header, Data
    <3>4. /\ ntohl(b.counter) = counter /\ ntohl(b.first) = topic_id
          /\ ntohl(b.second) = message_type_id /\ ntohl(b.third) = size
      BY <3>2, <3>3, ByteOrderAssumption
    <3>5. bp_header_size + bp_data_header_size + size < OffsetMod
      BY <3>2 DEF Fits, Data
    <3>6. data_end_offset(size) = bp_header_size + bp_control_header_size + size
      BY <3>2, <3>5, NoOverflow
    <3>7. decode_packet_buffer(b, bp_header_size + bp_data_header_size + size)
            = Data(counter, topic_id, message_type_id, size)
      <4>1. /\ bp_header_size + bp_data_header_size + size \in Nat
            /\ bp_header_size + bp_data_header_size + size >= bp_header_size
            /\ data_end_offset(size) <= bp_header_size + bp_data_header_size + size
        BY <3>2, <3>6 DEF bp_header_size, bp_control_header_size, bp_data_header_size
      <4> QED
        BY <4>1, <3>3, <3>4, DecodesData
    <3> QED
      BY <3>1, <3>7 DEF overwrite
  <2>3. CASE ReceiveDamaged
    BY <2>3 DEF ReceiveDamaged
  <2>4. CASE UNCHANGED codec_vars
    BY <2>4 DEF codec_vars, RoundTrip, Fits
  <2> QED
    BY <2>1, <2>2, <2>3, <2>4 DEF CodecNext
<1> QED
  BY <1>1, <1>2, PTL DEF CodecSpec
-----------------------------------------------------------------------------
(***************************************************************************)
(* The inductive invariant: each cache holds what the conversion would      *)
(* compute anew, so that it does not matter when an entry was made, and a   *)
(* reported text is the one its sender's address is written as.             *)
(***************************************************************************)
AddressCacheInv ==
  \A a \in DOMAIN m_address_to_sockaddr :
    a.host \in DOMAIN inet_pton /\ m_address_to_sockaddr[a] = Parsed(a)

NameCacheInv ==
  \A k \in DOMAIN m_sockaddr_to_address : m_sockaddr_to_address[k] = Written(k)

HeardInv ==
  \A x \in heard : x.peer \in Peer /\ x.address = Written(SockAddr(x.peer))

Inv == AddressCacheInv /\ NameCacheInv /\ HeardInv /\ ReachesMeant

-----------------------------------------------------------------------------
(***************************************************************************)
(* A 16-bit port survives the way through int16_t, the text and uint16_t.   *)
(***************************************************************************)
LEMMA PortSurvives ==
  ASSUME NEW p \in 0..(PortMod - 1)
  PROVE  p % PortMod = p /\ (p - PortMod) % PortMod = p
<1>1. PortMod \in Nat \ {0} /\ p \in Nat /\ p < PortMod
  BY PortAssumption
<1>2. \A a \in Nat, b \in Nat \ {0} : a < b => a % b = a
  OBVIOUS
<1>3. \A a \in Nat, b \in Nat \ {0} : a < b => (a - b) % b = a
  OBVIOUS
<1> QED
  BY <1>1, <1>2, <1>3

(***************************************************************************)
(* The text of a configured address leads to the peer it names.             *)
(***************************************************************************)
LEMMA ConfiguredReached ==
  ASSUME NEW h \in DOMAIN inet_pton, NEW p \in Port
  PROVE  PeerAt(Parsed(Configured(h, p))) = PeerNamed(h, p)
<1>1. p \in 0..(PortMod - 1) /\ ntohs(htons(p)) = p
  BY PortAssumption
<1>2. Configured(h, p).host = h /\ Configured(h, p).port % PortMod = p
  BY <1>1, PortSurvives DEF Configured
<1>3. Parsed(Configured(h, p)) = [sin_addr |-> inet_pton[h], sin_port |-> htons(p)]
  BY <1>2 DEF Parsed
<1> QED
  BY <1>1, <1>3 DEF PeerAt, PeerNamed

(***************************************************************************)
(* The text a sender's address is written as determines the sender, and     *)
(* parsing it leads back to the sender.                                     *)
(***************************************************************************)
LEMMA WrittenPeer ==
  ASSUME NEW p \in Peer
  PROVE  LET a == Written(SockAddr(p))
         IN  /\ a = [host |-> inet_ntop(p.ip), port |-> p.port]
             /\ a.host \in DOMAIN inet_pton
             /\ inet_pton[a.host] = p.ip
             /\ PeerAt(Parsed(a)) = p
             /\ p # Nobody
<1> DEFINE a == Written(SockAddr(p))
<1>1. /\ p \in [ip : {inet_pton[h] : h \in DOMAIN inet_pton}, port : 0..(PortMod - 1)]
      /\ p = [ip |-> p.ip, port |-> p.port]
  BY HostAssumption
<1>2. p.port \in 0..(PortMod - 1) /\ \E h \in DOMAIN inet_pton : inet_pton[h] = p.ip
  BY <1>1
<1>3. inet_ntop(p.ip) \in DOMAIN inet_pton /\ inet_pton[inet_ntop(p.ip)] = p.ip
  BY <1>2 DEF inet_ntop
<1>4. ntohs(htons(p.port)) = p.port /\ p.port % PortMod = p.port
  BY <1>2, PortAssumption, PortSurvives
<1>5. a = [host |-> inet_ntop(p.ip), port |-> p.port]
  BY <1>4 DEF Written, SockAddr
<1>6. a.host = inet_ntop(p.ip) /\ a.port = p.port
  BY <1>5
<1>7. Parsed(a) = [sin_addr |-> p.ip, sin_port |-> htons(p.port)]
  BY <1>3, <1>4, <1>6 DEF Parsed
<1>8. PeerAt(Parsed(a)) = [ip |-> p.ip, port |-> p.port]
  BY <1>4, <1>7 DEF PeerAt
<1>9. p # Nobody
  BY <1>1, <1>2, NobodyAssumption DEF Nobody
<1> QED
  BY <1>1, <1>3, <1>5, <1>6, <1>8, <1>9

(***************************************************************************)
(* to_sockaddr keeps its cache sound, and what it hands out is what the     *)
(* text parses to.                                                          *)
(***************************************************************************)
LEMMA ToSockaddr ==
  ASSUME NEW a, AddressCacheInv, to_sockaddr(a)
  PROVE  /\ AddressCacheInv'
         /\ Resolves(a) => a.host \in DOMAIN inet_pton /\ m_address_to_sockaddr'[a] = Parsed(a)
<1>1. CASE Resolves(a) /\ a \notin DOMAIN m_address_to_sockaddr
  <2>1. m_address_to_sockaddr' = [z \in DOMAIN m_address_to_sockaddr \cup {a} |->
                                    IF z = a THEN Parsed(a) ELSE m_address_to_sockaddr[z]]
    BY <1>1 DEF to_sockaddr, Put
  <2>2. a.host \in DOMAIN inet_pton
    BY <1>1 DEF Resolves
  <2> QED
    BY <2>1, <2>2 DEF AddressCacheInv, Parsed
<1>2. CASE ~(Resolves(a) /\ a \notin DOMAIN m_address_to_sockaddr)
  <2>1. m_address_to_sockaddr' = m_address_to_sockaddr
    BY <1>2 DEF to_sockaddr
  <2> QED
    BY <1>2, <2>1 DEF AddressCacheInv, Parsed
<1> QED
  BY <1>1, <1>2

(***************************************************************************)
(* A call with a text that leads to the peer that is meant keeps Inv.       *)
(***************************************************************************)
LEMMA UseAddressKeeps ==
  ASSUME NEW name, NEW a, NEW who, Inv, UseAddress(name, a, who),
         a.host \in DOMAIN inet_pton => who # Nobody /\ PeerAt(Parsed(a)) = who
  PROVE  Inv'
<1>1. to_sockaddr(a)
  BY DEF UseAddress
<1>2. /\ AddressCacheInv'
      /\ Resolves(a) => a.host \in DOMAIN inet_pton /\ m_address_to_sockaddr'[a] = Parsed(a)
  BY <1>1, ToSockaddr DEF Inv
<1>3. NameCacheInv' /\ HeardInv'
  BY DEF UseAddress, Inv, NameCacheInv, HeardInv, Written, SockAddr
<1>4. ReachesMeant'
  <2>1. CASE Resolves(a) /\ last' = Call(name, TRUE, who, PeerAt(m_address_to_sockaddr'[a]))
    BY <1>2, <2>1 DEF ReachesMeant, Call
  <2>2. CASE last' = Call(name, FALSE, who, Nobody)
    BY <2>2 DEF ReachesMeant, Call
  <2> QED
    BY <2>1, <2>2 DEF UseAddress
<1> QED
  BY <1>2, <1>3, <1>4 DEF Inv

(***************************************************************************)
(* The same for an address that an application configured.                  *)
(***************************************************************************)
LEMMA ConfiguredKeeps ==
  ASSUME NEW name, NEW h \in Host, NEW p \in Port, Inv,
         UseAddress(name, Configured(h, p), PeerNamed(h, p))
  PROVE  Inv'
<1>1. Configured(h, p).host = h
  BY DEF Configured
<1>2. ASSUME h \in DOMAIN inet_pton
      PROVE  PeerNamed(h, p) # Nobody /\ PeerAt(Parsed(Configured(h, p))) = PeerNamed(h, p)
  <2>1. PeerNamed(h, p) = [ip |-> inet_pton[h], port |-> p]
    BY <1>2 DEF PeerNamed
  <2>2. PeerNamed(h, p) # Nobody
    BY <1>2, <2>1, NobodyAssumption DEF Nobody
  <2> QED
    BY <1>2, <2>2, ConfiguredReached
<1> QED
  BY <1>1, <1>2, UseAddressKeeps

-----------------------------------------------------------------------------
(***************************************************************************)
(* A step without a call that uses an address, or one that changes neither  *)
(* cache nor the reported senders.                                          *)
(***************************************************************************)
LEMMA OtherKeeps ==
  ASSUME Inv, UNCHANGED <<caches, heard>>, NEW name, NEW ok, Returns(name, ok),
         name \notin {"bind", "connect", "sendto"}
  PROVE  Inv'
<1>1. ReachesMeant'
  BY DEF Returns, Call, ReachesMeant
<1> QED
  BY <1>1 DEF Inv, AddressCacheInv, NameCacheInv, HeardInv, caches, Parsed, Written, SockAddr

LEMMA RecvfromKeeps ==
  ASSUME Inv, NEW p \in Peer, NEW wants_address \in BOOLEAN, recvfrom(p, wants_address)
  PROVE  Inv'
<1>1. ReachesMeant'
  BY DEF recvfrom, Returns, Call, ReachesMeant
<1>2. AddressCacheInv'
  BY DEF recvfrom, Inv, AddressCacheInv, Parsed
<1> DEFINE s == SockAddr(p)
<1>3. CASE wants_address
  <2>1. to_address(s)
    BY <1>3 DEF recvfrom
  <2>2. NameCacheInv' /\ m_sockaddr_to_address'[s] = Written(s)
    <3>1. CASE s \in DOMAIN m_sockaddr_to_address
      BY <2>1, <3>1 DEF to_address, sockaddr_key, Inv, NameCacheInv, Written
    <3>2. CASE s \notin DOMAIN m_sockaddr_to_address
      <4>1. m_sockaddr_to_address' = [z \in DOMAIN m_sockaddr_to_address \cup {s} |->
                                        IF z = s THEN Written(s) ELSE m_sockaddr_to_address[z]]
        BY <2>1, <3>2 DEF to_address, sockaddr_key, Put
      <4> QED
        BY <4>1 DEF Inv, NameCacheInv, Written
    <3> QED
      BY <3>1, <3>2
  <2>3. heard' = heard \cup {[peer |-> p, address |-> Written(s)]}
    BY <1>3, <2>2 DEF recvfrom, sockaddr_key
  <2>4. HeardInv'
    BY <2>3 DEF HeardInv, Inv, Written, SockAddr
  <2> QED
    BY <1>1, <1>2, <2>2, <2>4 DEF Inv
<1>4. CASE ~wants_address
  BY <1>1, <1>2, <1>4 DEF recvfrom, Inv, NameCacheInv, HeardInv, Written, SockAddr
<1> QED
  BY <1>3, <1>4

LEMMA Invariant == NetworkSpec => []Inv
<1>1. NetworkInit => Inv
  BY DEF NetworkInit, Inv, AddressCacheInv, NameCacheInv, HeardInv, ReachesMeant, Call
<1>2. Inv /\ [NetworkNext]_network_vars => Inv'
  <2> SUFFICES ASSUME Inv, [NetworkNext]_network_vars
               PROVE  Inv'
    OBVIOUS
  <2>1. ASSUME NEW protocol \in {"UDP", "TCP"}, socket(protocol)
        PROVE  Inv'
    <3>1. PICK ok \in BOOLEAN : Returns("socket", ok)
      BY <2>1 DEF socket
    <3> QED
      BY <2>1, <3>1, OtherKeeps DEF socket
  <2>2. CASE listen_accept
    BY <2>2, OtherKeeps DEF listen_accept
  <2>3. CASE close
    BY <2>3, OtherKeeps DEF close
  <2>4. CASE bind
    BY <2>4, ConfiguredKeeps DEF bind
  <2>5. CASE connect
    BY <2>5, ConfiguredKeeps DEF connect
  <2>6. CASE sendto
    <3>1. ASSUME NEW h \in Host, NEW p \in Port,
                 UseAddress("sendto", Configured(h, p), PeerNamed(h, p))
          PROVE  Inv'
      BY <3>1, ConfiguredKeeps
    <3>2. ASSUME NEW x \in heard, UseAddress("sendto", x.address, x.peer)
          PROVE  Inv'
      <4>1. x.peer \in Peer /\ x.address = Written(SockAddr(x.peer))
        BY DEF Inv, HeardInv
      <4>2. x.peer # Nobody /\ PeerAt(Parsed(x.address)) = x.peer
        BY <4>1, WrittenPeer
      <4> QED
        BY <3>2, <4>2, UseAddressKeeps
    <3> QED
      BY <2>6, <3>1, <3>2 DEF sendto
  <2>7. ASSUME NEW p \in Peer, NEW wants_address \in BOOLEAN, recvfrom(p, wants_address)
        PROVE  Inv'
    BY <2>7, RecvfromKeeps
  <2>8. CASE recvfrom_fails
    BY <2>8, OtherKeeps DEF recvfrom_fails
  <2>9. CASE UNCHANGED network_vars
    BY <2>9 DEF network_vars, caches, Inv, AddressCacheInv, NameCacheInv, HeardInv, ReachesMeant,
                Parsed, Written, SockAddr
  <2> QED
    BY <2>1, <2>2, <2>3, <2>4, <2>5, <2>6, <2>7, <2>8, <2>9 DEF NetworkNext
<1> QED
  BY <1>1, <1>2, PTL DEF NetworkSpec

(***************************************************************************)
(* ReachesMeant: whatever the caches hold, bind, connect and sendto of      *)
(* LinuxNetwork reach the socket that is meant.                             *)
(***************************************************************************)
THEOREM AddressesReachMeant == NetworkSpec => []ReachesMeant
<1>1. Inv => ReachesMeant
  BY DEF Inv
<1> QED
  BY <1>1, Invariant, PTL

(***************************************************************************)
(* OneTextPerPeer: recvfrom of LinuxNetwork reports each sender under one   *)
(* text of its own.                                                         *)
(***************************************************************************)
THEOREM TextsIdentifyPeers == NetworkSpec => []OneTextPerPeer
<1>1. Inv => OneTextPerPeer
  <2> SUFFICES ASSUME Inv, NEW x \in heard, NEW y \in heard
               PROVE  x.peer = y.peer <=> x.address = y.address
    BY DEF OneTextPerPeer
  <2>1. /\ x.peer \in Peer /\ x.address = Written(SockAddr(x.peer))
        /\ y.peer \in Peer /\ y.address = Written(SockAddr(y.peer))
    BY DEF Inv, HeardInv
  <2>2. ASSUME x.address = y.address PROVE x.peer = y.peer
    <3>1. PeerAt(Parsed(x.address)) = x.peer /\ PeerAt(Parsed(y.address)) = y.peer
      BY <2>1, WrittenPeer
    <3> QED
      BY <2>2, <3>1
  <2> QED
    BY <2>1, <2>2
<1> QED
  BY <1>1, Invariant, PTL
=============================================================================
