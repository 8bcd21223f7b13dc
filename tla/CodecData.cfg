CONSTANTS
  OffsetMod = 64
  Word <- MCWord
  WireWord <- MCWireWord
  htonl <- SwapWord
  ntohl <- SwapWord
  Size = {0, 4}
  Length = {4, 5, 9, 13, 16, 21}
SPECIFICATION CodecSpec
INVARIANTS DataInside
