------------------------------ MODULE MCCodec ------------------------------
(* Words of two digits in base 8 stand for 32-bit words of four bytes. *)
EXTENDS Codec

SwapWord(w) == (w % 8) * 8 + w \div 8

\* No message, one of four bytes, and a size whose end offset overflows.
MCWord == {0, 4, 60}
MCWireWord == {SwapWord(w) : w \in MCWord}
=============================================================================
