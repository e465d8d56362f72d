--------------------------- MODULE SerialProtocol ---------------------------
(***************************************************************************)
(* The framing of src/serial-protocol.c as pure operators.                 *)
(*                                                                         *)
(* A byte is the set of the positions of its bits that are one, so the     *)
(* exclusive or of the C code is symmetric difference and a byte has any   *)
(* width: {3, 4} over eight positions is 0x18.  The protocol sees three    *)
(* kinds of byte only (start, end, escape, and everything else), and a     *)
(* small width keeps the checksum meaningful.                              *)
(***************************************************************************)
EXTENDS LibSmp, Sequences, FiniteSets

CONSTANTS
    Bits,           \* the bit positions of a byte
    START_BYTE,     \* 0x10
    END_BYTE,       \* 0xFF
    ESC_BYTE        \* 0x1B

Byte == SUBSET Bits

\* The byte the C code writes 0: realloc'd and calloc'd memory is made of it.
Zero == {}

ASSUME MagicBytesAssumption ==
    /\ IsFiniteSet(Bits)
    /\ START_BYTE \in Byte /\ END_BYTE \in Byte /\ ESC_BYTE \in Byte
    /\ START_BYTE # END_BYTE /\ START_BYTE # ESC_BYTE /\ END_BYTE # ESC_BYTE

IsMagicByte(byte) == byte \in {START_BYTE, END_BYTE, ESC_BYTE}

(***************************************************************************)
(* compute_checksum: a bit of the exclusive or of all bytes is one exactly *)
(* when an odd number of the bytes have it.                                *)
(***************************************************************************)
ComputeChecksum(bytes) ==
    {b \in Bits : Cardinality({i \in DOMAIN bytes : b \in bytes[i]}) % 2 = 1}

(***************************************************************************)
(* What follows START_BYTE in a frame, before escaping: payload, checksum. *)
(***************************************************************************)
Body(payload) == Append(payload, ComputeChecksum(payload))

MagicBytesIn(bytes) == Cardinality({i \in DOMAIN bytes : IsMagicByte(bytes[i])})

\* Mistake: the escape of the checksum is forgotten.
ComputePayloadSizeShort(payload) == Len(payload) + 3 + MagicBytesIn(payload)

\* Mistake: every byte is counted as escaped.
ComputePayloadSizeWorstCase(payload) == 2 * Len(payload) + 4

\* START, END, the checksum and the escape the checksum might need, then one
\* more for every payload byte that has to be escaped.
ComputePayloadSize(payload) == Len(payload) + 4 + MagicBytesIn(payload)

\* Mistake: the escape byte itself goes out bare.
WriteByteBareEscape(byte) ==
    IF byte \in {START_BYTE, END_BYTE} THEN <<ESC_BYTE, byte>> ELSE <<byte>>

WriteByte(byte) == IF IsMagicByte(byte) THEN <<ESC_BYTE, byte>> ELSE <<byte>>

=============================================================================
