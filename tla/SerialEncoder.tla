--------------------------- MODULE SerialEncoder ----------------------------
(***************************************************************************)
(* smp_serial_protocol_encode of src/serial-protocol.c, one action for     *)
(* each piece it writes.  The room is computed before anything is written, *)
(* from the payload alone, and no write is checked against it.             *)
(***************************************************************************)
EXTENDS SerialProtocol

CONSTANTS
    Payloads,       \* the payloads to encode
    OutSizes        \* sizes of the caller's buffer; 0 stands for no buffer

ASSUME EncoderAssumption == Payloads \subseteq Seq(Byte) /\ OutSizes \subseteq Nat

VARIABLES
    pc,
    inbuf,
    i,              \* payload bytes already written
    room,           \* size of the memory txbuf points to
    txbuf,          \* what has been written to it
    result          \* what the last call returned

vars == <<pc, inbuf, i, room, txbuf, result>>

offset == Len(txbuf)

TypeOK ==
    /\ pc \in {"idle", "start", "payload", "end"}
    /\ inbuf \in Seq(Byte)
    /\ i \in 0 .. Len(inbuf)
    /\ room \in Nat
    /\ txbuf \in Seq(Byte)
    /\ result \in Int

Init == pc = "idle" /\ inbuf = <<>> /\ i = 0 /\ room = 0 /\ txbuf = <<>> /\ result = 0

Begin(payload, size) ==
    /\ pc' = "start" /\ room' = size
    /\ inbuf' = payload /\ i' = 0 /\ txbuf' = <<>> /\ UNCHANGED result

Fail(payload, size, error) ==
    /\ result' = error /\ inbuf' = payload /\ room' = size /\ txbuf' = <<>> /\ i' = 0
    /\ UNCHANGED pc

\* Without a buffer the encoder allocates exactly what it computed, or nothing.
Encode(payload, outsize) ==
    /\ pc = "idle"
    /\ LET payload_size == ComputePayloadSize(payload) IN
        \/ outsize = 0 /\ Begin(payload, payload_size)
        \/ outsize = 0 /\ Fail(payload, outsize, SMP_ERROR_NO_MEM)
        \/ outsize > 0 /\ outsize < payload_size /\ Fail(payload, outsize, SMP_ERROR_OVERFLOW)
        \/ outsize > 0 /\ outsize >= payload_size /\ Begin(payload, outsize)

WriteStart ==
    /\ pc = "start" /\ pc' = "payload"
    /\ txbuf' = Append(txbuf, START_BYTE)
    /\ UNCHANGED <<inbuf, i, room, result>>

WritePayloadByte ==
    /\ pc = "payload" /\ i < Len(inbuf)
    /\ i' = i + 1 /\ txbuf' = txbuf \o WriteByte(inbuf[i + 1])
    /\ UNCHANGED <<pc, inbuf, room, result>>

WriteChecksum ==
    /\ pc = "payload" /\ i >= Len(inbuf) /\ pc' = "end"
    /\ txbuf' = txbuf \o WriteByte(ComputeChecksum(inbuf))
    /\ UNCHANGED <<inbuf, i, room, result>>

WriteEnd ==
    /\ pc = "end" /\ pc' = "idle"
    /\ txbuf' = Append(txbuf, END_BYTE) /\ result' = offset + 1
    /\ UNCHANGED <<inbuf, i, room>>

Next ==
    \/ \E payload \in Payloads, outsize \in OutSizes : Encode(payload, outsize)
    \/ WriteStart \/ WritePayloadByte \/ WriteChecksum \/ WriteEnd

Spec == Init /\ [][Next]_vars

-----------------------------------------------------------------------------
(* Properties *)

(***************************************************************************)
(* The encoder never writes past the memory it was given or allocated:     *)
(* compute_payload_size bounds every frame, escapes included.              *)
(***************************************************************************)
WithinRoom == offset <= room

Done == pc = "idle" /\ result > 0

(***************************************************************************)
(* The refusal is tight: a caller's buffer that is refused is no larger    *)
(* than the frame (it may have exactly the frame's size, since room is     *)
(* asked for a checksum that might need an escape).                        *)
(***************************************************************************)
RefusalIsTight ==
    result = SMP_ERROR_OVERFLOW /\ pc = "idle" =>
        room <= Len(inbuf) + MagicBytesIn(Body(inbuf)) + 3

\* A byte of the frame is bare when no escape byte makes it data.
Bare(f, k) ==
    LET run == {n \in 0 .. k - 1 : \A m \in (k - n) .. (k - 1) : f[m] = ESC_BYTE}
    IN  Cardinality(run) % 2 = 1

\* A frame whose first byte is the only bare start byte, its last one the only bare
\* end byte, and whose bytes that are neither those nor bare escapes are the body.
Transparent(f, body) ==
    LET bare  == {k \in DOMAIN f : Bare(f, k)}
        data  == {k \in DOMAIN f : ~(k \in bare /\ IsMagicByte(f[k]))}
        \* how many data bytes there are up to the k-th byte of the frame
        rank(k) == Cardinality({m \in data : m <= k})
    IN  /\ {k \in bare : f[k] = START_BYTE} = {1}
        /\ {k \in bare : f[k] = END_BYTE} = {Len(f)}
        /\ Cardinality(data) = Len(body)
        /\ \A k \in data : f[k] = body[rank(k)]

(***************************************************************************)
(* A frame can be told from its content: the marks of its start and end    *)
(* are nowhere inside, and what is not an escape is the payload and its    *)
(* checksum.                                                               *)
(***************************************************************************)
FrameIsTransparent == Done => Transparent(txbuf, Body(inbuf))

=============================================================================
