-------------------------- MODULE MCSerialDecoder ---------------------------
(***************************************************************************)
(* The decoder with bytes of two bits: the three magic bytes and one other.*)
(***************************************************************************)
EXTENDS SerialDecoder

MCBits == {0, 1}
MCStart == {0}
MCEnd == {0, 1}
MCEsc == {1}

=============================================================================
