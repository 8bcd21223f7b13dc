CONSTANTS
  Body = {b1, b2}
  Header = {h1, h2}
  NoHeader = NoHeader
  Capacity = 3
  OffsetMod = 64
  Word <- MCWord
  WireWord <- MCWireWord
  htonl <- SwapWord
  ntohl <- SwapWord
  Size = {0, 4}
  Length = {4, 5, 9, 13, 16, 21}
  a1 = a1
  a2 = a2
  PortMod = 16
  htons <- SwapPort
  ntohs <- SwapPort
  inet_pton <- MCinet_pton
  Host = {"h1", "h2", "localhost"}
  Port = {1, 4, 9}
  Peer <- MCPeer
  QueueCapacity = 2
  MaxCreate = 3
  OptionName = {node_name, topic_name}
  OptionWord = {w1, w2}
  Default = default
  MaxArgs = 5
SPECIFICATION Spec
INVARIANTS
  TypeOK QueueInv
  RoundTrip
  ReachesMeant OneTextPerPeer
  OneOfEachIsSafe
  LastValueWins
PROPERTIES ImplementsFifo
CHECK_DEADLOCK FALSE
