-------------------------- MODULE MCSerialEncoder ---------------------------
(***************************************************************************)
(* The encoder with the real byte values, on payloads of up to two bytes   *)
(* over an alphabet with every magic byte, and on the example frame of     *)
(* docs/protocols/serial-protocol.rst.                                     *)
(***************************************************************************)
EXTENDS SerialEncoder, SequencesExt

MCBits == 0 .. 7
MCStart == {4}                       \* 0x10
MCEnd == 0 .. 7                      \* 0xFF
MCEsc == {0, 1, 3, 4}                \* 0x1B

Alphabet == {MCStart, MCEnd, MCEsc, {}, {0, 1, 3}, {0, 1, 2, 3, 5, 6, 7}}

\* 0x33 0x1A 0xFE 0x10 0xC0
ExamplePayload == <<{0, 1, 4, 5}, {1, 3, 4}, 1 .. 7, MCStart, {6, 7}>>

\* 0x10 0x33 0x1A 0xFE 0x1B 0x10 0xC0 0x07 0xFF
ExampleFrame ==
    <<MCStart, {0, 1, 4, 5}, {1, 3, 4}, 1 .. 7, MCEsc, MCStart, {6, 7}, {0, 1, 2}, MCEnd>>

MCPayloads == UNION {[1 .. n -> Alphabet] : n \in 0 .. 2} \cup {ExamplePayload}

(***************************************************************************)
(* The checksum is the exclusive or of the payload's bytes, as the loop of *)
(* compute_checksum accumulates it.                                        *)
(***************************************************************************)
ASSUME ChecksumIsXor == \A p \in MCPayloads : ComputeChecksum(p) = FoldLeft(SymDiff, {}, p)

(***************************************************************************)
(* The example of the documentation is the frame printed there.            *)
(***************************************************************************)
ASSUME DocumentedExample ==
    LET body == Body(ExamplePayload) IN
    <<START_BYTE>> \o FlattenSeq([k \in DOMAIN body |-> WriteByte(body[k])]) \o <<END_BYTE>>
        = ExampleFrame

(***************************************************************************)
(* The table of docs/protocols/serial-protocol.rst: a frame ends with      *)
(* END_BYTE, and END_BYTE is 0x1B.                                         *)
(***************************************************************************)
DocumentedEndByte == Done => Last(txbuf) = {0, 1, 3, 4}

=============================================================================
