------------------------------- MODULE Codec -------------------------------
(***************************************************************************)
(* The packets of broker_protocol.cpp in the receive buffer of a broker or  *)
(* a node.  The buffer is reused: a datagram overwrites as many bytes of it *)
(* as it has, and decode_packet_buffer reads the packed headers at their    *)
(* fixed offsets without looking whether the datagram reached that far.     *)
(*                                                                         *)
(* Of the bytes only the headers are kept.  They overlay each other: the    *)
(* first word is the size of a control packet or the topic id of a data     *)
(* packet, the second and third are the rest of a data header or the start  *)
(* of the JSON text.                                                        *)
(***************************************************************************)
EXTENDS Integers

CONSTANTS
  OffsetMod,   \* 2^32: the offsets are computed in uint32_t
  Word,        \* the uint32_t values that are looked at
  WireWord,    \* their forms in network byte order
  htonl(_), ntohl(_),
  Size,        \* sizes of the JSON texts and messages that are sent
  Length       \* lengths of damaged datagrams

ASSUME WordAssumption ==
  /\ OffsetMod \in Nat \ {0}
  /\ Word \subseteq 0..(OffsetMod - 1)
  /\ 0 \in Word
ASSUME ByteOrderAssumption ==
  /\ \A w \in Word : htonl(w) \in WireWord /\ ntohl(htonl(w)) = w
  /\ \A x \in WireWord : ntohl(x) \in Word
ASSUME SizeAssumption == Size \subseteq Word /\ Length \subseteq Nat

bp_header_size == 5
bp_control_header_size == 4
bp_data_header_size == 12

BpType == {"Invalid", "Control", "Data", "Unknown"}

\* The part of the buffer that holds headers.
PacketBuffer == [type : BpType, counter : WireWord,
           first : WireWord, second : WireWord, third : WireWord]
Offset == [type |-> 0, counter |-> 1, first |-> 5, second |-> 9, third |-> 13]

VARIABLES
  buffer,   \* the receive buffer
  length,   \* of the last datagram
  meant,    \* what its sender encoded, or Damaged
  decoded   \* what decode_packet_buffer made of it

codec_vars == <<buffer, length, meant, decoded>>

Damaged == [type |-> "Damaged"]
-----------------------------------------------------------------------------
\* What an encoder is given and a decoder fills in.
Control(counter, size) == [type |-> "Control", counter |-> counter, size |-> size]
Data(counter, topic_id, message_type_id, size) ==
  [type |-> "Data", counter |-> counter, topic_id |-> topic_id,
   message_type_id |-> message_type_id, size |-> size]
Rejected(type, counter) == [type |-> type, counter |-> counter]

\* The bytes an encoder writes: b agrees with them.
bp_control_json_to_packet_buffer(b, m) ==
  b.type = "Control" /\ b.counter = htonl(m.counter) /\ b.first = htonl(m.size)

\* Mutant: the two identifiers change places.
bp_fill_swapped(b, m) ==
  /\ b.type = "Data" /\ b.counter = htonl(m.counter)
  /\ b.first = htonl(m.message_type_id) /\ b.second = htonl(m.topic_id)
  /\ b.third = htonl(m.size)
bp_fill_data_header(b, m) ==
  /\ b.type = "Data" /\ b.counter = htonl(m.counter)
  /\ b.first = htonl(m.topic_id) /\ b.second = htonl(m.message_type_id)
  /\ b.third = htonl(m.size)

json_end_offset(size) == (bp_header_size + bp_control_header_size + size) % OffsetMod

\* The size of the control header here is the code's, not a slip of the model.
data_end_offset(size) == (bp_header_size + bp_control_header_size + size) % OffsetMod

\* A packet too short for BpHeader leaves the caller's zeroed header alone.
decode_packet_buffer(b, n) ==
  LET counter == ntohl(b.counter)
      json_size == ntohl(b.first)
      data_size == ntohl(b.third)
  IN  IF n < bp_header_size THEN Rejected("Invalid", 0)
      ELSE IF b.type = "Control"
      THEN IF json_end_offset(json_size) > n THEN Rejected("Invalid", counter)
           ELSE Control(counter, json_size)
      ELSE IF b.type = "Data"
      THEN IF data_end_offset(data_size) > n THEN Rejected("Invalid", counter)
           ELSE Data(counter, ntohl(b.first), ntohl(b.second), data_size)
      ELSE Rejected(b.type, counter)
-----------------------------------------------------------------------------
CodecInit ==
  /\ buffer = [type |-> "Invalid", counter |-> htonl(0),
               first |-> htonl(0), second |-> htonl(0), third |-> htonl(0)]
  /\ length = 0
  /\ meant = Damaged
  /\ decoded = Rejected("Invalid", 0)

\* recvfrom: what the datagram does not reach keeps the bytes of earlier ones.
overwrite(b, n) ==
  /\ \A f \in DOMAIN Offset : Offset[f] >= n => b[f] = buffer[f]
  /\ buffer' = b
  /\ length' = n
  /\ decoded' = decode_packet_buffer(b, n)

ReceiveControl ==
  \E counter \in Word, size \in Size, b \in PacketBuffer :
    /\ bp_control_json_to_packet_buffer(b, Control(counter, size))
    /\ overwrite(b, bp_header_size + bp_control_header_size + size)
    /\ meant' = Control(counter, size)

ReceiveData ==
  \E counter, topic_id, message_type_id \in Word, size \in Size, b \in PacketBuffer :
    LET m == Data(counter, topic_id, message_type_id, size)
    IN  /\ bp_fill_data_header(b, m)
        /\ overwrite(b, bp_header_size + bp_data_header_size + size)
        /\ meant' = m

\* Cut short, altered on its way, or not from this library.
ReceiveDamaged ==
  \E b \in PacketBuffer, n \in Length : overwrite(b, n) /\ meant' = Damaged

CodecNext == ReceiveControl \/ ReceiveData \/ ReceiveDamaged

CodecSpec == CodecInit /\ [][CodecNext]_codec_vars
-----------------------------------------------------------------------------
(***************************************************************************)
(* What one side encodes the other decodes, whatever datagrams, damaged     *)
(* ones included, were in the buffer before.  (The headers and the text of  *)
(* a datagram, at most 64K, are far below OffsetMod.)                       *)
(***************************************************************************)
Fits(m) == bp_header_size + bp_data_header_size + m.size < OffsetMod
RoundTrip == meant # Damaged /\ Fits(meant) => decoded = meant

(***************************************************************************)
(* broker_protocol.cpp, decode_packet_buffer: "End of data would be at ...  *)
(* which is beyond packet size ... This indicates corrupted packet data!"   *)
(* No data packet is accepted whose message ends beyond the datagram.       *)
(***************************************************************************)
DataInside ==
  decoded.type = "Data" =>
    bp_header_size + bp_data_header_size + decoded.size <= length
=============================================================================
