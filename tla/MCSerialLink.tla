---------------------------- MODULE MCSerialLink ----------------------------
(***************************************************************************)
(* The link with bytes of two bits, and every payload up to a length.      *)
(***************************************************************************)
EXTENDS SerialLink

CONSTANT MaxLen     \* length of the longest payload

MCBits == {0, 1}
MCStart == {0}
MCEnd == {0, 1}
MCEsc == {1}

MCPayloads == UNION {[1 .. n -> SUBSET MCBits] : n \in 0 .. MaxLen}

=============================================================================
