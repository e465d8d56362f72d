------------------------- MODULE SerialLink_proofs --------------------------
(***************************************************************************)
(* Proofs about the frame decoder, for every byte width, every choice of   *)
(* the magic bytes, every size_t and every buffer size, and, in the second *)
(* half, about the line with this decoder at its end, for every payload    *)
(* and any number of frames, truncations and stray bytes.                  *)
(***************************************************************************)
EXTENDS SerialLink, SequenceTheorems, TLAPS

-----------------------------------------------------------------------------
(* The decoder: memory *)

\* No decoder, no frame: needed because a failed decoder_new reports an error too.
IdleWhenNone == alloc = "none" => state = "WAIT_HEADER"

\* The inductive invariant.  TypeOK alone is not inductive: a byte is stored at
\* buf[offset], and only BufferBound keeps that inside the buffer.
Safe == TypeOK /\ BufferBound /\ IdleWhenNone

(***************************************************************************)
(* Growing never wraps unnoticed: a new size that is not below the old one *)
(* is above it.                                                            *)
(***************************************************************************)
LEMMA GrowthIsStrict ==
    ASSUME bufsize \in SizeT
    PROVE  NewSize \in SizeT /\ (NewSize >= bufsize => NewSize > bufsize)
BY SizesAssumption DEF SizeT, NewSize

LEMMA MagicByteIsByte == START_BYTE \in Byte /\ END_BYTE \in Byte /\ ESC_BYTE \in Byte /\ Zero \in Byte
BY MagicBytesAssumption DEF Byte, Zero

LEMMA InitSafe == Init => Safe
BY SizesAssumption DEF Init, NoDecoder, Safe, TypeOK, BufferBound, IdleWhenNone, States, SizeT, Byte

\* A stored byte lands inside the buffer, and the write position stays inside it.
LEMMA StoreSafe ==
    ASSUME TypeOK, BufferBound, state # "WAIT_HEADER", NEW byte \in Byte, Store(byte)
    PROVE  /\ bufsize' \in SizeT /\ bufsize' >= bufsize
           /\ buf' \in [0 .. bufsize' - 1 -> Byte]
           /\ offset' = offset + 1 /\ offset' \in SizeT /\ offset' <= bufsize'
           /\ buf'[offset] = byte
           /\ \A i \in 0 .. offset - 1 : buf'[i] = buf[i]
<1>1. offset \in SizeT /\ bufsize \in SizeT /\ offset <= bufsize
    BY DEF TypeOK, BufferBound
<1>2. CASE HasRoom
    <2>1. /\ bufsize' = bufsize /\ offset' = offset + 1 /\ offset \in 0 .. bufsize - 1
          /\ buf' = [buf EXCEPT ![offset] = byte]
        BY <1>1, <1>2 DEF Store, HasRoom, SizeT
    <2>2. buf' \in [0 .. bufsize - 1 -> Byte] /\ buf'[offset] = byte
        BY <2>1 DEF TypeOK
    <2>3. \A i \in 0 .. offset - 1 : buf'[i] = buf[i]
        BY <1>1, <2>1 DEF TypeOK, SizeT
    <2> QED
        BY <1>1, <2>1, <2>2, <2>3, SizesAssumption DEF SizeT
<1>3. CASE ~HasRoom
    <2>1. offset = bufsize /\ bufsize' = NewSize /\ NewSize \in SizeT /\ NewSize > bufsize
        BY <1>1, <1>3, GrowthIsStrict DEF Store, HasRoom, CanGrow, SizeT
    <2>2. buf' = [i \in 0 .. NewSize - 1 |->
                    IF i = offset THEN byte ELSE IF i < bufsize THEN buf[i] ELSE Zero]
        BY <1>3 DEF Store
    <2>3. \A i \in 0 .. bufsize - 1 : buf[i] \in Byte
        BY DEF TypeOK
    <2>4. buf' \in [0 .. NewSize - 1 -> Byte]
        BY <1>1, <2>1, <2>2, <2>3, MagicByteIsByte DEF SizeT
    <2>5. buf'[offset] = byte /\ \A i \in 0 .. offset - 1 : buf'[i] = buf[i]
        BY <1>1, <2>1, <2>2 DEF SizeT
    <2>6. offset' = offset + 1
        BY DEF Store
    <2> QED
        BY <1>1, <2>1, <2>4, <2>5, <2>6, SizesAssumption DEF SizeT
<1> QED
    BY <1>2, <1>3

LEMMA StepSafe == Safe /\ [Next]_vars => Safe'
<1> SUFFICES ASSUME Safe, [Next]_vars PROVE Safe'
    OBVIOUS
<1> USE DEF Safe, TypeOK, BufferBound, IdleWhenNone, States
<1>1. ASSUME NEW request \in HeapSizes, New(request) PROVE Safe'
    <2>1. request \in SizeT /\ 0 \in SizeT
        BY SizesAssumption DEF SizeT
    <2> QED
        BY <1>1, <2>1, SizesAssumption, MagicByteIsByte DEF New, Quiet, decoder, SizeT,
            SMP_ERROR_TOO_BIG, SMP_ERROR_NO_MEM
<1>2. ASSUME NEW size \in StaticSizes, NewFromStatic(size) PROVE Safe'
    BY <1>2, SizesAssumption DEF NewFromStatic, Quiet, SizeT
<1>3. CASE Free
    BY <1>3, SizesAssumption DEF Free, Quiet, SizeT
<1>4. ASSUME NEW max \in Maxima, SetMaximumCapacity(max) PROVE Safe'
    BY <1>4, SizesAssumption DEF SetMaximumCapacity, Quiet, SizeT, SMP_ERROR_INVALID_PARAM
<1>5. ASSUME NEW byte \in Byte, ProcessByte(byte) PROVE Safe'
    <2>0. UNCHANGED <<alloc, maxsize>> /\ alloc # "none" /\ 0 \in SizeT /\ given' \subseteq Byte
        BY <1>5, SizesAssumption DEF ProcessByte, storage, SizeT
    <2>1. CASE WaitHeader(byte)
        BY <2>0, <2>1 DEF WaitHeader, Return, NoFrame, SizeT
    <2>2. CASE InFrameStart(byte)
        BY <2>0, <2>2 DEF InFrameStart, Return, NoFrame, SizeT, SMP_ERROR_BAD_MESSAGE
    <2>3. CASE InFrameEscape(byte)
        BY <2>0, <2>3 DEF InFrameEscape, Return, NoFrame, SizeT
    <2>4. CASE InFrameEnd(byte)
        <3>1. CASE offset < 1
            BY <2>0, <2>4, <3>1 DEF InFrameEnd, Return, NoFrame, SizeT, SMP_ERROR_BAD_MESSAGE
        <3>2. CASE ~(offset < 1)
            <4>1. /\ framesize' \in SizeT /\ frame' \in {"NULL", "buf"}
                  /\ ret' \in Int /\ state' = "WAIT_HEADER"
                <5>1. framesize' \in SizeT
                    <6>1. framesize' = offset - 1
                        BY <2>4, <3>2 DEF InFrameEnd
                    <6> QED
                        BY <3>2, <6>1, SizesAssumption DEF SizeT
                <5>2. CASE ChecksumMatches
                    BY <2>4, <3>2, <5>1, <5>2 DEF InFrameEnd, Return
                <5>3. CASE ~ChecksumMatches
                    BY <2>4, <3>2, <5>1, <5>3 DEF InFrameEnd, Return, SMP_ERROR_BAD_MESSAGE
                <5> QED
                    BY <5>2, <5>3
            <4> QED
                BY <2>0, <2>4, <4>1 DEF InFrameEnd
        <3> QED
            BY <3>1, <3>2
    <2>5. ASSUME PutByte(byte), state # "WAIT_HEADER" PROVE Safe'
        <3>1. CASE Store(byte) /\ Return(byte, 0, "IN_FRAME")
            BY <2>0, <2>5, <3>1, StoreSafe DEF PutByte, Return, NoFrame
        <3>2. CASE Refused /\ Return(byte, GrowError, state)
            BY <2>0, <2>5, <3>2 DEF PutByte, Refused, Return, NoFrame, GrowError,
                SMP_ERROR_OVERFLOW, SMP_ERROR_TOO_BIG, SMP_ERROR_NO_MEM
        <3> QED
            BY <2>5, <3>1, <3>2 DEF PutByte
    <2> QED
        BY <1>5, <2>1, <2>2, <2>3, <2>4, <2>5 DEF ProcessByte, InFrameData, InFrameEsc
<1>6. CASE UNCHANGED vars
    BY <1>6 DEF vars, decoder
<1> QED
    BY <1>1, <1>2, <1>3, <1>4, <1>5, <1>6 DEF Next

(***************************************************************************)
(* Every variable of the decoder keeps its type, and in a frame the write  *)
(* position never passes the end of the buffer (put_byte, set_capacity,    *)
(* and the unset offset of a static decoder).                              *)
(***************************************************************************)
THEOREM TypeCorrect == Spec => []TypeOK
<1>1. Spec => []Safe
    BY InitSafe, StepSafe, PTL DEF Spec
<1>2. Safe => TypeOK
    BY DEF Safe
<1> QED
    BY <1>1, <1>2, PTL

THEOREM MemorySafe == Spec => []BufferBound
<1>1. Spec => []Safe
    BY InitSafe, StepSafe, PTL DEF Spec
<1>2. Safe => BufferBound
    BY DEF Safe
<1> QED
    BY <1>1, <1>2, PTL

-----------------------------------------------------------------------------
(* An error ends the frame *)

LEMMA PutByteEndsFrame ==
    ASSUME Safe, ErrorEndsFrame, NEW byte \in Byte, PutByte(byte),
           InFrameData(byte) \/ InFrameEsc(byte)
    PROVE  ErrorEndsFrame'
<1>1. CASE Store(byte) /\ Return(byte, 0, "IN_FRAME")
    BY <1>1 DEF Return, ErrorEndsFrame, DecodeErrors, SMP_ERROR_BAD_MESSAGE,
        SMP_ERROR_TOO_BIG, SMP_ERROR_NO_MEM, SMP_ERROR_OVERFLOW
<1>2. CASE Refused /\ Return(byte, GrowError, state)
    <2>1. CASE byte = START_BYTE
        <3>1. state = "IN_FRAME_ESC"
            BY <2>1 DEF InFrameData, InFrameEsc, IsMagicByte
        <3> QED
            BY <1>2, <2>1, <3>1 DEF Refused, Return, ErrorEndsFrame, HasRoom
    <2>2. CASE byte # START_BYTE
        <3>1. GrowError # 0
            BY DEF GrowError, SMP_ERROR_OVERFLOW, SMP_ERROR_TOO_BIG, SMP_ERROR_NO_MEM
        <3> QED
            BY <1>2, <2>2, <3>1 DEF Return, ErrorEndsFrame
    <2> QED
        BY <2>1, <2>2
<1> QED
    BY <1>1, <1>2 DEF PutByte

LEMMA StepEndsFrame == Safe /\ ErrorEndsFrame /\ [Next]_vars => ErrorEndsFrame'
<1> SUFFICES ASSUME Safe, ErrorEndsFrame, [Next]_vars PROVE ErrorEndsFrame'
    OBVIOUS
<1> USE DEF DecodeErrors, SMP_ERROR_BAD_MESSAGE, SMP_ERROR_TOO_BIG, SMP_ERROR_NO_MEM,
        SMP_ERROR_OVERFLOW, SMP_ERROR_INVALID_PARAM
<1>1. ASSUME NEW request \in HeapSizes, New(request) PROVE ErrorEndsFrame'
    BY <1>1 DEF New, Quiet, decoder, ErrorEndsFrame, Safe, IdleWhenNone
<1>2. ASSUME NEW size \in StaticSizes, NewFromStatic(size) PROVE ErrorEndsFrame'
    BY <1>2 DEF NewFromStatic, ErrorEndsFrame
<1>3. CASE Free
    BY <1>3 DEF Free, ErrorEndsFrame
<1>4. ASSUME NEW max \in Maxima, SetMaximumCapacity(max) PROVE ErrorEndsFrame'
    BY <1>4 DEF SetMaximumCapacity, Quiet, ErrorEndsFrame
<1>5. ASSUME NEW byte \in Byte, ProcessByte(byte) PROVE ErrorEndsFrame'
    <2>1. CASE WaitHeader(byte) \/ InFrameEscape(byte)
        BY <2>1 DEF WaitHeader, InFrameEscape, Return, ErrorEndsFrame
    <2>2. CASE InFrameStart(byte)
        BY <2>2 DEF InFrameStart, Return, ErrorEndsFrame
    <2>3. CASE InFrameEnd(byte)
        BY <2>3 DEF InFrameEnd, Return, ErrorEndsFrame
    <2>4. CASE InFrameData(byte) \/ InFrameEsc(byte)
        BY <2>4, PutByteEndsFrame DEF InFrameData, InFrameEsc
    <2> QED
        BY <1>5, <2>1, <2>2, <2>3, <2>4 DEF ProcessByte
<1>6. CASE UNCHANGED vars
    BY <1>6 DEF vars, decoder, ErrorEndsFrame, HasRoom
<1> QED
    BY <1>1, <1>2, <1>3, <1>4, <1>5, <1>6 DEF Next

(***************************************************************************)
(* After an error the frame being read is over (the last lines of          *)
(* process_byte, and the start byte's case of process_byte_inframe).       *)
(***************************************************************************)
THEOREM ErrorsEndFrames == Spec => []ErrorEndsFrame
<1>1. Init => ErrorEndsFrame
    BY DEF Init, NoDecoder, ErrorEndsFrame
<1> QED
    BY <1>1, InitSafe, StepSafe, StepEndsFrame, PTL DEF Spec

-----------------------------------------------------------------------------
(* The decoder implements the deframer *)

LEMMA ContentIsSeq ==
    ASSUME TypeOK, NEW n \in Nat, n <= bufsize
    PROVE  Content(n) \in Seq(Byte) /\ Len(Content(n)) = n
<1>1. \A i \in 1 .. n : buf[i - 1] \in Byte
    BY DEF TypeOK, SizeT
<1> QED
    BY <1>1 DEF Content

\* Storing a byte appends it to the content.
LEMMA StoreAppends ==
    ASSUME TypeOK, BufferBound, state # "WAIT_HEADER", NEW byte \in Byte, Store(byte)
    PROVE  Content(offset)' = Append(Content(offset), byte)
<1>1. offset \in Nat /\ offset <= bufsize /\ offset' = offset + 1
    BY StoreSafe DEF TypeOK, BufferBound, SizeT
<1>2. buf'[offset] = byte /\ \A i \in 0 .. offset - 1 : buf'[i] = buf[i]
    BY StoreSafe
<1>3. Content(offset) \in Seq(Byte) /\ Len(Content(offset)) = offset
    BY <1>1, ContentIsSeq
<1>4. /\ Content(offset)' = [i \in 1 .. offset + 1 |-> buf'[i - 1]]
      /\ \A i \in 1 .. offset + 1 : buf'[i - 1] \in Byte
    BY <1>1, StoreSafe DEF Content, SizeT
<1>5. Content(offset)' \in Seq(Byte) /\ Len(Content(offset)') = offset + 1
    BY <1>1, <1>4
<1>6. /\ Append(Content(offset), byte) \in Seq(Byte)
      /\ Len(Append(Content(offset), byte)) = offset + 1
      /\ Append(Content(offset), byte)[offset + 1] = byte
      /\ \A i \in 1 .. offset : Append(Content(offset), byte)[i] = buf[i - 1]
    BY <1>1, <1>3 DEF Content
<1>7. \A i \in 1 .. offset + 1 : Content(offset)'[i] = Append(Content(offset), byte)[i]
    BY <1>1, <1>2, <1>4, <1>6
<1> QED
    BY <1>5, <1>6, <1>7, SeqEqual

\* What InFrameEnd compares is what the deframer calls a valid content.
LEMMA EndIsValid ==
    ASSUME TypeOK, offset <= bufsize, offset >= 1
    PROVE  /\ SubSeq(Content(offset), 1, Len(Content(offset)) - 1) = Content(offset - 1)
           /\ Content(offset)[Len(Content(offset))] = buf[offset - 1]
           /\ Deframed!Valid(Content(offset)) <=> ChecksumMatches
<1>1. offset \in Nat /\ Content(offset) \in Seq(Byte) /\ Len(Content(offset)) = offset
    BY ContentIsSeq DEF TypeOK, SizeT
<1>2. SubSeq(Content(offset), 1, offset - 1) = Content(offset - 1)
    BY <1>1 DEF Content
<1>3. Content(offset)[offset] = buf[offset - 1]
    BY <1>1 DEF Content
<1> QED
    BY <1>1, <1>2, <1>3 DEF Deframed!Valid, ChecksumMatches

LEMMA InitDeframes == Init => Deframed!Init
BY DEF Init, NoDecoder, Deframed!Init

LEMMA ByteDeframes ==
    ASSUME Safe, NEW byte \in Byte, ProcessByte(byte)
    PROVE  Deframed!Accept(byte)
<1> USE DEF Deframed!Say, Deframed!Hunt, Deframed!Begin
<1>0. UNCHANGED <<alloc, maxsize>> /\ TypeOK /\ offset \in Nat /\ given' = {byte}
    BY DEF ProcessByte, storage, Safe, TypeOK, SizeT
<1>1. CASE WaitHeader(byte)
    <2>1. Content(0)' = <<>>
        BY DEF Content
    <2> QED
        BY <1>0, <1>1, <2>1 DEF WaitHeader, Return, NoFrame, Deframed!Accept, Deframed!Idle
<1>2. CASE InFrameStart(byte)
    <2>1. Content(0)' = <<>>
        BY DEF Content
    <2>2. ret' < 0
        BY <1>2 DEF InFrameStart, Return, SMP_ERROR_BAD_MESSAGE
    <2> QED
        BY <1>0, <1>2, <2>1, <2>2 DEF InFrameStart, Return, NoFrame, Deframed!Accept, Deframed!Restart
<1>3. CASE InFrameEscape(byte)
    <2>1. Content(offset)' = Content(offset)
        BY <1>3 DEF InFrameEscape, Content
    <2> QED
        BY <1>0, <1>3, <2>1 DEF InFrameEscape, Return, NoFrame, Deframed!Accept, Deframed!Escape
<1>4. CASE InFrameEnd(byte)
    <2>1. state' = "WAIT_HEADER" /\ state = "IN_FRAME" /\ byte = END_BYTE
        BY <1>4 DEF InFrameEnd, Return
    <2>2. CASE offset < 1
        <3>1. Content(offset) = <<>>
            BY <1>0, <2>2 DEF Content
        <3>2. ~Deframed!Valid(Content(offset))
            BY <3>1 DEF Deframed!Valid
        <3>3. ret' < 0 /\ frame' = "NULL"
            BY <1>4, <2>2 DEF InFrameEnd, Return, NoFrame, SMP_ERROR_BAD_MESSAGE
        <3> QED
            BY <1>0, <2>1, <3>2, <3>3 DEF Deframed!Accept, Deframed!Reject
    <2>3. CASE offset >= 1 /\ ChecksumMatches
        <3>1. ret' = 0 /\ frame' = "buf" /\ framesize' = offset - 1 /\ buf' = buf
            BY <1>0, <1>4, <2>3 DEF InFrameEnd, Return
        <3>2. Content(framesize)' = Content(offset - 1)
            BY <3>1 DEF Content
        <3>3. /\ SubSeq(Content(offset), 1, Len(Content(offset)) - 1) = Content(offset - 1)
              /\ Deframed!Valid(Content(offset))
            BY <1>0, <2>1, <2>3, EndIsValid DEF Safe, BufferBound
        <3> QED
            BY <1>0, <2>1, <3>1, <3>2, <3>3 DEF Deframed!Accept, Deframed!Deliver
    <2>4. CASE offset >= 1 /\ ~ChecksumMatches
        <3>1. ret' < 0 /\ frame' = "NULL"
            BY <1>0, <1>4, <2>4 DEF InFrameEnd, Return, SMP_ERROR_BAD_MESSAGE
        <3>2. ~Deframed!Valid(Content(offset))
            BY <1>0, <2>1, <2>4, EndIsValid DEF Safe, BufferBound
        <3> QED
            BY <1>0, <2>1, <3>1, <3>2 DEF Deframed!Accept, Deframed!Reject
    <2> QED
        BY <1>0, <2>2, <2>3, <2>4
<1>5. CASE InFrameData(byte) \/ InFrameEsc(byte)
    <2>1. PutByte(byte) /\ state # "WAIT_HEADER" /\ frame' = "NULL"
        BY <1>5 DEF InFrameData, InFrameEsc, PutByte, NoFrame
    <2>2. state = "IN_FRAME_ESC" \/ (state = "IN_FRAME" /\ byte \notin Deframed!Magic)
        BY <1>5 DEF InFrameData, InFrameEsc, IsMagicByte, Deframed!Magic
    <2>3. CASE Store(byte) /\ Return(byte, 0, "IN_FRAME")
        <3>1. Content(offset)' = Append(Content(offset), byte)
            BY <2>1, <2>3, StoreAppends DEF Safe
        <3> QED
            BY <1>0, <2>1, <2>2, <2>3, <3>1 DEF Return, Deframed!Accept, Deframed!Collect
    <2>4. CASE Refused /\ Return(byte, GrowError, state)
        <3>1. GrowError < 0
            BY DEF GrowError, SMP_ERROR_OVERFLOW, SMP_ERROR_TOO_BIG, SMP_ERROR_NO_MEM
        <3>2. Content(offset)' = Content(offset)
            BY <2>4 DEF Refused, Content
        <3> QED
            BY <1>0, <2>1, <2>2, <2>4, <3>1, <3>2 DEF Return, Deframed!Accept, Deframed!Refuse
    <2> QED
        BY <2>1, <2>3, <2>4 DEF PutByte
<1> QED
    BY <1>1, <1>2, <1>3, <1>4, <1>5 DEF ProcessByte

LEMMA StepDeframes == Safe /\ [Next]_vars => [Deframed!Next]_Deframed!vars
<1> SUFFICES ASSUME Safe, [Next]_vars PROVE [Deframed!Next]_Deframed!vars
    OBVIOUS
<1> USE DEF Deframed!Next, Deframed!Reset, Deframed!Other, Deframed!NoByte, Deframed!Hunt
<1>1. ASSUME NEW request \in HeapSizes, New(request) PROVE Deframed!Reset
    BY <1>1 DEF New, Quiet, decoder, Safe, IdleWhenNone
<1>2. ASSUME NEW size \in StaticSizes, NewFromStatic(size) PROVE Deframed!Reset
    BY <1>2 DEF NewFromStatic, Quiet
<1>3. CASE Free
    BY <1>3 DEF Free, Quiet
<1>4. ASSUME NEW max \in Maxima, SetMaximumCapacity(max) PROVE Deframed!Other
    <2>1. Content(offset)' = Content(offset)
        BY <1>4 DEF SetMaximumCapacity, Content
    <2> QED
        BY <1>4, <2>1 DEF SetMaximumCapacity, Quiet
<1>5. ASSUME NEW byte \in Byte, ProcessByte(byte) PROVE Deframed!Next
    BY <1>5, ByteDeframes
<1>6. CASE UNCHANGED vars
    <2>1. Content(offset)' = Content(offset) /\ Content(framesize)' = Content(framesize)
        BY <1>6 DEF vars, decoder, Content
    <2> QED
        BY <1>6, <2>1 DEF vars, decoder, Deframed!vars
<1> QED
    BY <1>1, <1>2, <1>3, <1>4, <1>5, <1>6 DEF Next

(***************************************************************************)
(* The decoder hands over what the deframer hands over, whatever its       *)
(* storage does: garbage in a static buffer, growth, failures of realloc.  *)
(***************************************************************************)
THEOREM DecoderDeframes == Spec => Deframes
<1>1. Spec => []Safe
    BY InitSafe, StepSafe, PTL DEF Spec
<1> QED
    BY <1>1, InitDeframes, StepDeframes, PTL DEF Spec, Deframes, Deframed!Spec

-----------------------------------------------------------------------------
(* The line *)

LEMMA BodyIsSeq ==
    ASSUME NEW p \in Seq(Byte)
    PROVE  /\ Body(p) \in Seq(Byte) /\ Len(Body(p)) = Len(p) + 1
           /\ Body(p)[Len(p) + 1] = ComputeChecksum(p)
           /\ \A k \in 1 .. Len(p) : Body(p)[k] = p[k]
<1>1. ComputeChecksum(p) \in Byte
    BY DEF ComputeChecksum, Byte
<1> QED
    BY <1>1 DEF Body

LEMMA IndexShift ==
    ASSUME NEW m \in Nat, NEW n \in Nat, m <= n
    PROVE  \A k \in 1 .. m : k - 1 \in 0 .. n - 1
OBVIOUS

\* What the sender transmits next is a byte, and it has a body to take it from.
LEMMA NextByte ==
    ASSUME LinkTypeOK
    PROVE  /\ Len(Body(payload)) \in Nat /\ Len(Body(payload)) >= 1
           /\ idx \in Nat /\ idx >= 1 /\ idx <= Len(Body(payload)) + 1
           /\ idx <= Len(Body(payload)) => Body1 \in Byte
BY BodyIsSeq DEF LinkTypeOK, Body1

-----------------------------------------------------------------------------
(* Types *)

\* An escape byte is only sent in front of a byte of the body.
EscapedHasByte == phase = "escaped" => idx <= Len(Body(payload))

FrameInBuffer == frame = "buf" => framesize <= bufsize

LinkSafe == Safe /\ LinkTypeOK /\ EscapedHasByte /\ FrameInBuffer

LEMMA LinkInitSafe == LinkInit => LinkSafe
<1> SUFFICES ASSUME LinkInit PROVE LinkSafe
    OBVIOUS
<1>1. Safe /\ alloc # "none"
    <2>1. bufsize \in SizeT /\ maxsize \in SizeT /\ offset \in SizeT /\ 0 \in SizeT
        <3>1. 0 \in SizeT
            BY SizesAssumption DEF SizeT
        <3> QED
            BY <3>1, SizesAssumption DEF LinkInit, Made
    <2>2. buf \in [0 .. bufsize - 1 -> Byte]
        BY MagicByteIsByte DEF LinkInit, Made
    <2> QED
        BY <2>1, <2>2 DEF LinkInit, Made, Safe, TypeOK, BufferBound, IdleWhenNone, States
<1>2. payload = <<>> /\ Len(Body(payload)) = 1
    <2>1. <<>> \in Seq(Byte) /\ Len(<<>>) = 0
        OBVIOUS
    <2>2. Len(Body(<<>>)) = 1
        BY <2>1 DEF Body
    <2> QED
        BY <2>2 DEF LinkInit
<1> QED
    BY <1>1, <1>2, LinkAssumption
    DEF LinkSafe, LinkInit, LinkTypeOK, EscapedHasByte, FrameInBuffer, Safe, Phases, States

LEMMA TransmitSafe ==
    ASSUME LinkSafe, NEW byte \in Byte, Transmit(byte)
    PROVE  Safe' /\ alloc' = alloc /\ FrameInBuffer' /\ received' \in Seq(Seq(Byte))
<1>1. ProcessByte(byte)
    BY DEF Transmit
<1>2. Safe'
    BY <1>1, StepSafe DEF LinkSafe, Next
<1>3. alloc' = alloc
    BY <1>1 DEF ProcessByte, storage
<1>4. FrameInBuffer'
    <2>1. CASE frame' = "NULL"
        BY <2>1 DEF FrameInBuffer
    <2>2. CASE frame' # "NULL"
        <3>1. InFrameEnd(byte) /\ ~(offset < 1)
            BY <1>1, <2>2 DEF ProcessByte, WaitHeader, InFrameStart, InFrameEscape, InFrameEnd,
                InFrameData, InFrameEsc, PutByte, NoFrame
        <3>2. framesize' = offset - 1 /\ bufsize' = bufsize /\ offset <= bufsize
            BY <3>1 DEF InFrameEnd, LinkSafe, Safe, BufferBound
        <3> QED
            BY <3>2 DEF FrameInBuffer, LinkSafe, Safe, TypeOK, SizeT
    <2> QED
        BY <2>1, <2>2
<1>5. received' \in Seq(Seq(Byte))
    <2>1. CASE frame' = "buf"
        <3>1. Content(framesize)' \in Seq(Byte)
            <4>1. \A k \in 1 .. framesize' : buf'[k - 1] \in Byte
                <5>1. framesize' \in Nat /\ bufsize' \in Nat /\ framesize' <= bufsize'
                    BY <1>2, <1>4, <2>1 DEF Safe, TypeOK, FrameInBuffer, SizeT
                <5>2. \A k \in 1 .. framesize' : k - 1 \in 0 .. bufsize' - 1
                    BY <5>1, IndexShift
                <5>3. buf' \in [0 .. bufsize' - 1 -> Byte]
                    BY <1>2 DEF Safe, TypeOK
                <5> QED
                    BY <5>2, <5>3
            <4>2. framesize' \in Nat
                BY <1>2 DEF Safe, TypeOK, SizeT
            <4> QED
                BY <4>1, <4>2 DEF Content
        <3> QED
            BY <2>1, <3>1 DEF Transmit, LinkSafe, LinkTypeOK
    <2>2. CASE frame' # "buf"
        BY <2>2 DEF Transmit, LinkSafe, LinkTypeOK
    <2> QED
        BY <2>1, <2>2
<1> QED
    BY <1>2, <1>3, <1>4, <1>5

LEMMA LinkStepSafe == LinkSafe /\ [LinkNext]_linkVars => LinkSafe'
<1> SUFFICES ASSUME LinkSafe, [LinkNext]_linkVars PROVE LinkSafe'
    OBVIOUS
<1>0. LinkTypeOK /\ Safe /\ TypeOK
    BY DEF LinkSafe, Safe
<1>a. ASSUME NEW byte \in Byte, Transmit(byte)
      PROVE  /\ Safe' /\ TypeOK' /\ alloc' # "none" /\ FrameInBuffer'
             /\ received' \in Seq(Seq(Byte)) /\ ret' \in Int /\ state \in States
    BY <1>0, <1>a, TransmitSafe DEF LinkTypeOK, Safe, TypeOK
<1>1. ASSUME NEW p \in Payloads, StartFrame(p) PROVE LinkSafe'
    <2>1. p \in Seq(Byte) /\ Len(Body(p)) \in Nat
        BY LinkAssumption, BodyIsSeq
    <2>2. Transmit(START_BYTE) /\ START_BYTE \in Byte
        BY <1>1, MagicByteIsByte DEF StartFrame
    <2> QED
        BY <1>0, <1>1, <1>a, <2>1, <2>2
        DEF StartFrame, LinkSafe, LinkTypeOK, EscapedHasByte, Phases
<1>2. CASE SendEscape
    <2>1. Transmit(ESC_BYTE) /\ ESC_BYTE \in Byte
        BY <1>2, MagicByteIsByte DEF SendEscape
    <2> QED
        BY <1>0, <1>2, <1>a, <2>1
        DEF SendEscape, Report, LinkSafe, LinkTypeOK, EscapedHasByte, Phases
<1>3. CASE SendData
    <2>1. Transmit(Body1) /\ Body1 \in Byte /\ idx <= Len(Body(payload))
        BY <1>0, <1>3, NextByte DEF SendData, LinkSafe, EscapedHasByte
    <2>2. idx' \in 1 .. Len(Body(payload)) + 1
        BY <1>0, <1>3, <2>1, NextByte DEF SendData
    <2> QED
        BY <1>0, <1>3, <1>a, <2>1, <2>2
        DEF SendData, Report, LinkSafe, LinkTypeOK, EscapedHasByte, Phases
<1>4. CASE SendEnd
    <2>1. Transmit(END_BYTE) /\ END_BYTE \in Byte
        BY <1>4, MagicByteIsByte DEF SendEnd
    <2> QED
        BY <1>0, <1>4, <1>a, <2>1
        DEF SendEnd, Report, LinkSafe, LinkTypeOK, EscapedHasByte, Phases
<1>5. CASE Truncate
    <2>1. Safe' /\ TypeOK' /\ FrameInBuffer'
        BY <1>0, <1>5 DEF Truncate, vars, decoder, Safe, TypeOK, BufferBound, IdleWhenNone,
            FrameInBuffer, LinkSafe
    <2> QED
        BY <1>0, <1>5, <2>1, LinkAssumption
        DEF Truncate, vars, decoder, LinkSafe, LinkTypeOK, EscapedHasByte, Phases
<1>6. ASSUME NEW byte \in Byte, Noise(byte) PROVE LinkSafe'
    BY <1>0, <1>6, <1>a, LinkAssumption
    DEF Noise, LinkSafe, LinkTypeOK, EscapedHasByte, Phases
<1>7. CASE UNCHANGED linkVars
    <2>1. Safe' /\ TypeOK' /\ FrameInBuffer'
        BY <1>0, <1>7 DEF linkVars, vars, decoder, Safe, TypeOK, BufferBound, IdleWhenNone,
            FrameInBuffer, LinkSafe
    <2> QED
        BY <1>0, <1>7, <2>1 DEF linkVars, vars, decoder, sender, LinkSafe, LinkTypeOK, EscapedHasByte
<1> QED
    BY <1>1, <1>2, <1>3, <1>4, <1>5, <1>6, <1>7 DEF LinkNext, Proceed

(***************************************************************************)
(* The sender's and the decoder's variables keep their types.              *)
(***************************************************************************)
THEOREM LinkTypeCorrect == LinkSpec => []LinkTypeOK
<1>1. LinkSafe => LinkTypeOK
    BY DEF LinkSafe
<1> QED
    BY <1>1, LinkInitSafe, LinkStepSafe, PTL DEF LinkSpec

-----------------------------------------------------------------------------
(* Self-synchronisation *)

(***************************************************************************)
(* Why it is true.  Inside a frame the decoder of a static buffer is never *)
(* one byte out of step with the sender's escaping for longer than it      *)
(* takes to refuse a byte: when the sender is about to send a bare byte,   *)
(* the decoder expects an escaped one only with a full buffer, so it will  *)
(* give up; and when the sender is about to send an escaped byte, the      *)
(* decoder cannot take it for a bare one.                                  *)
(***************************************************************************)
InStep ==
    alloc = "static" =>
        /\ phase = "quiet" => state = "WAIT_HEADER"
        /\ phase = "data" /\ state = "IN_FRAME_ESC" => ~HasRoom
        /\ phase = "escaped" => state # "IN_FRAME"

\* How a static decoder answers a byte, by its state.
LEMMA StaticStep ==
    ASSUME alloc = "static", NEW byte, ProcessByte(byte)
    PROVE  /\ alloc' = "static"
           /\ state = "WAIT_HEADER" => state' \in {"WAIT_HEADER", "IN_FRAME"}
           /\ state = "WAIT_HEADER" /\ byte # START_BYTE => state' = "WAIT_HEADER"
           /\ state = "IN_FRAME" /\ byte = ESC_BYTE => state' = "IN_FRAME_ESC"
           /\ state = "IN_FRAME" /\ byte = END_BYTE => state' = "WAIT_HEADER"
           /\ state = "IN_FRAME" /\ byte # ESC_BYTE => state' # "IN_FRAME_ESC"
           /\ state = "IN_FRAME_ESC" /\ HasRoom => state' = "IN_FRAME"
           /\ state = "IN_FRAME_ESC" /\ ~HasRoom /\ byte # START_BYTE => state' = "WAIT_HEADER"
           /\ state = "IN_FRAME_ESC" /\ state' = "IN_FRAME_ESC" => ~HasRoom'
<1>0. alloc' = "static"
    BY DEF ProcessByte, storage
<1>1. GrowError # 0
    BY DEF GrowError, SMP_ERROR_OVERFLOW, SMP_ERROR_TOO_BIG, SMP_ERROR_NO_MEM
<1>2. CASE WaitHeader(byte)
    BY <1>0, <1>2 DEF WaitHeader, Return
<1>3. CASE InFrameStart(byte)
    BY <1>0, <1>3, MagicBytesAssumption DEF InFrameStart, Return
<1>4. CASE InFrameEscape(byte)
    BY <1>0, <1>4, MagicBytesAssumption DEF InFrameEscape, Return
<1>5. CASE InFrameEnd(byte)
    <2>1. state' = "WAIT_HEADER" /\ state = "IN_FRAME" /\ byte = END_BYTE
        BY <1>5 DEF InFrameEnd, Return
    <2> QED
        BY <1>0, <2>1, MagicBytesAssumption
<1>6. CASE PutByte(byte) /\ state = "IN_FRAME" /\ ~IsMagicByte(byte)
    <2>1. state' \in {"WAIT_HEADER", "IN_FRAME"}
        BY <1>1, <1>6 DEF PutByte, Return
    <2> QED
        BY <1>0, <1>6, <2>1 DEF IsMagicByte
<1>7. CASE PutByte(byte) /\ state = "IN_FRAME_ESC"
    <2>1. CASE HasRoom
        BY <1>0, <1>7, <2>1 DEF PutByte, Refused, Return
    <2>2. CASE ~HasRoom
        <3>1. Refused /\ Return(byte, GrowError, state)
            BY <1>7, <2>2 DEF PutByte, Store, CanGrow
        <3>2. ~HasRoom'
            BY <2>2, <3>1 DEF Refused, HasRoom
        <3> QED
            BY <1>0, <1>1, <1>7, <2>2, <3>1, <3>2 DEF Return
    <2> QED
        BY <2>1, <2>2
<1> QED
    BY <1>2, <1>3, <1>4, <1>5, <1>6, <1>7 DEF ProcessByte, InFrameData, InFrameEsc

LEMMA LinkInitInStep == LinkInit => InStep
BY DEF LinkInit, Made, InStep

LEMMA LinkStepInStep == LinkSafe /\ InStep /\ [LinkNext]_linkVars => InStep'
<1> SUFFICES ASSUME LinkSafe, InStep, [LinkNext]_linkVars, alloc' = "static" PROVE InStep'
    BY DEF InStep
<1>0. state \in States
    BY DEF LinkSafe, Safe, TypeOK
<1>a. ASSUME NEW byte, Transmit(byte) PROVE ProcessByte(byte) /\ alloc = "static"
    BY <1>a DEF Transmit, ProcessByte, storage
<1>1. ASSUME NEW p \in Payloads, StartFrame(p) PROVE InStep'
    <2>1. Transmit(START_BYTE) /\ phase' = "data"
        BY <1>1 DEF StartFrame
    <2> QED
        BY <1>0, <1>a, <2>1, StaticStep, MagicBytesAssumption DEF InStep, States
<1>2. CASE SendEscape
    <2>1. Transmit(ESC_BYTE) /\ phase = "data" /\ phase' = "escaped"
        BY <1>2 DEF SendEscape
    <2> QED
        BY <1>0, <1>a, <2>1, StaticStep, MagicBytesAssumption DEF InStep, States
<1>3. CASE SendData
    <2>1. Transmit(Body1) /\ phase' = "data"
        BY <1>3 DEF SendData
    <2>2. CASE phase = "data" /\ ~IsMagicByte(Body1)
        BY <1>0, <1>a, <2>1, <2>2, StaticStep DEF InStep, States, IsMagicByte
    <2>3. CASE phase = "escaped"
        BY <1>0, <1>a, <2>1, <2>3, StaticStep DEF InStep, States
    <2> QED
        BY <1>3, <2>2, <2>3 DEF SendData
<1>4. CASE SendEnd
    <2>1. Transmit(END_BYTE) /\ phase = "data" /\ phase' = "quiet"
        BY <1>4 DEF SendEnd
    <2> QED
        BY <1>0, <1>a, <2>1, StaticStep, MagicBytesAssumption DEF InStep, States
<1>5. CASE Truncate
    BY <1>5 DEF Truncate, InStep
<1>6. ASSUME NEW byte \in Byte, Noise(byte) PROVE InStep'
    BY <1>6 DEF Noise, InStep
<1>7. CASE UNCHANGED linkVars
    BY <1>7 DEF linkVars, vars, decoder, sender, InStep, HasRoom
<1> QED
    BY <1>1, <1>2, <1>3, <1>4, <1>5, <1>6, <1>7 DEF LinkNext, Proceed

(***************************************************************************)
(* Once a complete frame has gone by, a static decoder waits for a header, *)
(* whatever truncated frames and stray bytes came before it.               *)
(***************************************************************************)
THEOREM SelfSynchronisation == LinkSpec => []SelfSynchronising
<1>1. InStep => SelfSynchronising
    BY DEF InStep, SelfSynchronising
<1> QED
    BY <1>1, LinkInitSafe, LinkStepSafe, LinkInitInStep, LinkStepInStep, PTL DEF LinkSpec

-----------------------------------------------------------------------------
(* Delivery *)

(***************************************************************************)
(* While a clean frame that fits goes by, the decoder has stored exactly   *)
(* the bytes of the body sent so far, and has reported nothing.            *)
(***************************************************************************)
InTransit ==
    /\ frame = "NULL" /\ reported = 0
    /\ state = IF phase = "data" THEN "IN_FRAME" ELSE "IN_FRAME_ESC"
    /\ offset = idx - 1
    /\ \A k \in 1 .. idx - 1 : buf[k - 1] = Body(payload)[k]

Carried ==
    Clean /\ Fits /\ sent # <<>> =>
        /\ Sending => InTransit
        /\ phase = "quiet" => Delivered

\* A byte of the body is one the decoder stores if it can.
LEMMA DataPut ==
    ASSUME InTransit, Sending, SendData
    PROVE  PutByte(Body1) /\ state # "WAIT_HEADER"
<1>1. ProcessByte(Body1)
    BY DEF SendData, Transmit
<1>2. CASE phase = "data"
    BY <1>1, <1>2 DEF SendData, InTransit, ProcessByte, WaitHeader, InFrameStart, InFrameEscape,
        InFrameEnd, InFrameData, InFrameEsc, IsMagicByte
<1>3. CASE phase = "escaped"
    BY <1>1, <1>3 DEF InTransit, ProcessByte, WaitHeader, InFrameStart, InFrameEscape,
        InFrameEnd, InFrameData, InFrameEsc
<1> QED
    BY <1>2, <1>3 DEF Sending

LEMMA GrowErrorIsError == GrowError \in Int /\ GrowError < 0
BY DEF GrowError, SMP_ERROR_OVERFLOW, SMP_ERROR_TOO_BIG, SMP_ERROR_NO_MEM

\* In a buffer the frame fits, there is room for it.
LEMMA DataFits ==
    ASSUME LinkSafe, InTransit, Fits, Sending, idx <= Len(Body(payload)), SendData
    PROVE  ret' = 0
<1>1. HasRoom
    BY NextByte DEF LinkSafe, Safe, InTransit, Fits, HasRoom, TypeOK, SizeT
<1> QED
    BY <1>1, DataPut DEF PutByte, Refused, Return

\* A byte of the body that is not refused lands behind the bytes before it.
LEMMA DataStored ==
    ASSUME LinkSafe, InTransit, Sending, idx <= Len(Body(payload)), SendData, ret' = 0
    PROVE  InTransit'
<1>0. /\ TypeOK /\ BufferBound /\ LinkTypeOK
      /\ idx \in Nat /\ idx >= 1 /\ Body1 \in Byte /\ Len(Body(payload)) \in Nat
    BY NextByte DEF LinkSafe, Safe
<1>2. PutByte(Body1) /\ state # "WAIT_HEADER"
    BY DataPut
<1>3. Store(Body1) /\ ret' = 0 /\ state' = "IN_FRAME" /\ frame' = "NULL"
    BY <1>2, GrowErrorIsError DEF PutByte, Return, NoFrame
<1>4. /\ offset' = offset + 1 /\ buf'[offset] = Body1
      /\ \A k \in 0 .. offset - 1 : buf'[k] = buf[k]
    BY <1>0, <1>2, <1>3, StoreSafe
<1>5. idx' = idx + 1 /\ payload' = payload /\ phase' = "data" /\ reported' = 0
    BY <1>3 DEF SendData, Report, InTransit
<1>6. ASSUME NEW k \in 1 .. idx PROVE buf'[k - 1] = Body(payload)[k]
    <2>1. CASE k = idx
        BY <1>0, <1>4, <2>1 DEF InTransit, Body1
    <2>2. CASE k # idx
        <3>1. k - 1 \in 0 .. offset - 1 /\ k \in 1 .. idx - 1
            BY <1>0, <2>2 DEF InTransit
        <3> QED
            BY <1>4, <3>1 DEF InTransit
    <2> QED
        BY <2>1, <2>2
<1> QED
    BY <1>0, <1>3, <1>4, <1>5, <1>6 DEF InTransit

\* At the end byte the checksum matches, and what is in front of it is the payload.
LEMMA EndDelivers ==
    ASSUME LinkSafe, InTransit, phase = "data", SendEnd
    PROVE  Delivered'
<1>0. /\ TypeOK /\ BufferBound /\ LinkTypeOK /\ payload \in Seq(Byte)
      /\ Len(payload) \in Nat /\ Len(Body(payload)) = Len(payload) + 1
      /\ idx \in Nat /\ idx <= Len(Body(payload)) + 1 /\ idx > Len(Body(payload))
    BY NextByte, BodyIsSeq DEF LinkSafe, Safe, LinkTypeOK, SendEnd
<1>1. offset = Len(payload) + 1
    BY <1>0 DEF InTransit
<1>2. buf[offset - 1] = ComputeChecksum(payload)
    BY <1>0, <1>1, BodyIsSeq DEF InTransit
<1>3. Content(offset - 1) = payload
    <2>1. \A k \in 1 .. Len(payload) : buf[k - 1] = payload[k]
        BY <1>0, <1>1, BodyIsSeq DEF InTransit
    <2>2. offset - 1 = Len(payload)
        BY <1>0, <1>1
    <2>3. payload = [k \in 1 .. Len(payload) |-> payload[k]]
        BY <1>0
    <2>4. Content(offset - 1) = [k \in 1 .. Len(payload) |-> payload[k]]
        BY <2>1, <2>2 DEF Content
    <2> QED
        BY <2>3, <2>4
<1>4. ChecksumMatches
    BY <1>2, <1>3 DEF ChecksumMatches
<1>5. InFrameEnd(END_BYTE) /\ payload' = payload
    BY MagicBytesAssumption DEF SendEnd, Transmit, InTransit, ProcessByte, WaitHeader, InFrameStart,
        InFrameEscape, InFrameEnd, InFrameData, InFrameEsc, IsMagicByte
<1>6. frame' = "buf" /\ framesize' = offset - 1 /\ buf' = buf
    BY <1>0, <1>1, <1>4, <1>5 DEF InFrameEnd
<1>7. Content(framesize)' = Content(offset - 1)
    BY <1>6 DEF Content
<1> QED
    BY <1>3, <1>5, <1>6, <1>7 DEF Delivered

LEMMA LinkStepCarried == LinkSafe /\ Carried /\ [LinkNext]_linkVars => Carried'
<1> SUFFICES ASSUME LinkSafe, Carried, [LinkNext]_linkVars, (Clean /\ Fits /\ sent # <<>>)'
             PROVE  (Sending => InTransit)' /\ (phase = "quiet" => Delivered)'
    BY DEF Carried
<1>0. state \in States /\ alloc' = "static" /\ LinkTypeOK
    BY DEF LinkSafe, Safe, TypeOK, Fits
<1>a. ASSUME NEW byte, Transmit(byte)
      PROVE  ProcessByte(byte) /\ alloc = "static" /\ (bufsize' = bufsize)
    <2>1. ProcessByte(byte) /\ alloc = "static"
        BY <1>0, <1>a DEF Transmit, ProcessByte, storage
    <2>2. ~CanGrow
        BY <2>1 DEF CanGrow
    <2> QED
        BY <2>1, <2>2 DEF ProcessByte, WaitHeader, InFrameStart, InFrameEscape, InFrameEnd,
            InFrameData, InFrameEsc, PutByte, Store, Refused
<1>1. ASSUME NEW p \in Payloads, StartFrame(p)
      PROVE  (Sending => InTransit)' /\ (phase = "quiet" => Delivered)'
    <2>1. /\ ProcessByte(START_BYTE) /\ entry' = state /\ state # "IN_FRAME_ESC"
          /\ phase' = "data" /\ idx' = 1 /\ reported' = 0
        BY <1>1, <1>a DEF StartFrame, Clean
    <2>2. state' = "IN_FRAME" /\ offset' = 0 /\ frame' = "NULL"
        BY <1>0, <2>1, MagicBytesAssumption DEF States, ProcessByte, WaitHeader, InFrameStart,
            InFrameEscape, InFrameEnd, InFrameData, InFrameEsc, IsMagicByte, Return, NoFrame
    <2> QED
        BY <2>1, <2>2 DEF InTransit
<1>2. CASE SendEscape
    <2>1. /\ ProcessByte(ESC_BYTE) /\ phase = "data" /\ phase' = "escaped" /\ bufsize' = bufsize
          /\ alloc = "static" /\ UNCHANGED <<payload, idx, entry, sent>>
        BY <1>2, <1>a DEF SendEscape
    <2>2. InTransit
        BY <2>1 DEF Carried, Clean, Fits, Sending
    <2>3. InFrameEscape(ESC_BYTE)
        BY <2>1, <2>2, MagicBytesAssumption DEF InTransit, ProcessByte, WaitHeader, InFrameStart,
            InFrameEscape, InFrameEnd, InFrameData, InFrameEsc, IsMagicByte
    <2>4. state' = "IN_FRAME_ESC" /\ frame' = "NULL" /\ ret' = 0 /\ UNCHANGED <<buf, offset>>
        BY <2>3 DEF InFrameEscape, Return, NoFrame
    <2> QED
        BY <1>2, <2>1, <2>2, <2>4 DEF SendEscape, Report, InTransit
<1>3. CASE SendData
    <2>1. /\ Transmit(Body1) /\ phase' = "data" /\ Sending /\ UNCHANGED <<payload, entry, sent>>
          /\ idx <= Len(Body(payload))
        BY <1>3 DEF SendData, Sending, LinkSafe, EscapedHasByte
    <2>2. bufsize' = bufsize /\ alloc = "static"
        BY <1>a, <2>1
    <2>3. InTransit /\ Fits
        BY <2>1, <2>2 DEF Carried, Clean, Fits
    <2>4. ret' = 0
        BY <1>3, <2>1, <2>3, DataFits
    <2> QED
        BY <1>3, <2>1, <2>3, <2>4, DataStored
<1>4. CASE SendEnd
    <2>1. /\ Transmit(END_BYTE) /\ phase = "data" /\ phase' = "quiet"
          /\ UNCHANGED <<payload, entry, sent>>
        BY <1>4 DEF SendEnd
    <2>2. InTransit
        BY <1>a, <2>1 DEF Carried, Clean, Fits, Sending
    <2> QED
        BY <1>4, <2>1, <2>2, EndDelivers DEF Sending
<1>5. CASE Truncate
    BY <1>5 DEF Truncate, Sending
<1>6. ASSUME NEW byte \in Byte, Noise(byte)
      PROVE  (Sending => InTransit)' /\ (phase = "quiet" => Delivered)'
    BY <1>6 DEF Noise, Sending
<1>7. CASE UNCHANGED linkVars
    BY <1>7 DEF linkVars, vars, decoder, sender, Carried, Clean, Fits, Sending, InTransit, Delivered, Content
<1> QED
    BY <1>1, <1>2, <1>3, <1>4, <1>5, <1>6, <1>7 DEF LinkNext, Proceed

(***************************************************************************)
(* Every complete frame that started clean and fits the buffer is handed   *)
(* over unaltered (process_byte against smp_serial_protocol_encode).       *)
(* With SelfSynchronisation: any complete frame that follows a complete    *)
(* frame is, if it fits.                                                   *)
(***************************************************************************)
THEOREM Delivery == LinkSpec => []CleanFrameDelivered
<1>1. LinkInit => Carried
    BY DEF LinkInit, Carried
<1>2. Carried => CleanFrameDelivered
    BY DEF Carried, CleanFrameDelivered
<1> QED
    BY <1>1, <1>2, LinkInitSafe, LinkStepSafe, LinkStepCarried, PTL DEF LinkSpec

\* Nothing is handed over or reported in the middle of such a frame either.
THEOREM NoForgery == LinkSpec => []NothingForged
<1>1. LinkInit => Carried /\ NothingForged
    BY DEF LinkInit, Carried, NothingForged, Sending
<1>2. Carried /\ (Sending => sent # <<>>) => NothingForged
    BY DEF Carried, NothingForged, InTransit
<1>3. LinkInit => (Sending => sent # <<>>)
    BY DEF LinkInit, Sending
<1>4. LinkSafe /\ (Sending => sent # <<>>) /\ [LinkNext]_linkVars => (Sending => sent # <<>>)'
    BY DEF LinkNext, StartFrame, Proceed, SendEscape, SendData, SendEnd, Truncate, Noise, linkVars,
        sender, Sending, LinkSafe, LinkTypeOK
<1> QED
    BY <1>1, <1>2, <1>3, <1>4, LinkInitSafe, LinkStepSafe, LinkStepCarried, PTL DEF LinkSpec

-----------------------------------------------------------------------------
(* No loss goes unreported *)

(***************************************************************************)
(* As long as nothing was reported of a clean frame the decoder, however   *)
(* it was made and however large the frame is, has stored all of the body  *)
(* that was sent: a byte that finds no room, and no memory for more, is an *)
(* error.                                                                  *)
(***************************************************************************)
Unreported ==
    Clean /\ sent # <<>> /\ reported = 0 =>
        /\ Sending => InTransit
        /\ phase = "quiet" => Delivered

\* Only an error is reported.
ReportsAreErrors == reported <= 0

LEMMA LinkStepReports == LinkSafe /\ ReportsAreErrors /\ [LinkNext]_linkVars => ReportsAreErrors'
<1> SUFFICES ASSUME LinkSafe, ReportsAreErrors, [LinkNext]_linkVars PROVE ReportsAreErrors'
    OBVIOUS
<1>1. ret' \in Int
    <2>1. LinkSafe'
        BY LinkStepSafe
    <2> QED
        BY <2>1 DEF LinkSafe, Safe, TypeOK
<1>2. ASSUME Report PROVE ReportsAreErrors'
    BY <1>1, <1>2 DEF Report, ReportsAreErrors
<1>3. ASSUME reported' = 0 \/ reported' = reported PROVE ReportsAreErrors'
    BY <1>3 DEF ReportsAreErrors
<1> QED
    BY <1>2, <1>3 DEF LinkNext, StartFrame, Proceed, SendEscape, SendData, SendEnd, Truncate, Noise,
        linkVars, sender

LEMMA LinkStepUnreported == LinkSafe /\ Unreported /\ [LinkNext]_linkVars => Unreported'
<1> SUFFICES ASSUME LinkSafe, Unreported, [LinkNext]_linkVars,
                    (Clean /\ sent # <<>> /\ reported = 0)'
             PROVE  (Sending => InTransit)' /\ (phase = "quiet" => Delivered)'
    BY DEF Unreported
<1>0. state \in States /\ LinkTypeOK /\ ret' \in Int
    <2>1. LinkSafe'
        BY LinkStepSafe
    <2> QED
        BY <2>1 DEF LinkSafe, Safe, TypeOK
\* While a frame goes by, an error that is reported stays so.
<1>a. ASSUME Report, UNCHANGED <<entry, sent>>, Sending PROVE InTransit /\ ~(ret' < 0)
    <2>1. ~(ret' < 0) /\ reported = 0
        BY <1>0, <1>a DEF Report
    <2> QED
        BY <1>a, <2>1 DEF Unreported, Clean
<1>1. ASSUME NEW p \in Payloads, StartFrame(p)
      PROVE  (Sending => InTransit)' /\ (phase = "quiet" => Delivered)'
    <2>1. /\ ProcessByte(START_BYTE) /\ entry' = state /\ state # "IN_FRAME_ESC"
          /\ phase' = "data" /\ idx' = 1 /\ reported' = 0
        BY <1>1 DEF StartFrame, Transmit, Clean
    <2>2. state' = "IN_FRAME" /\ offset' = 0 /\ frame' = "NULL"
        BY <1>0, <2>1, MagicBytesAssumption DEF States, ProcessByte, WaitHeader, InFrameStart,
            InFrameEscape, InFrameEnd, InFrameData, InFrameEsc, IsMagicByte, Return, NoFrame
    <2> QED
        BY <2>1, <2>2 DEF InTransit
<1>2. CASE SendEscape
    <2>1. /\ ProcessByte(ESC_BYTE) /\ phase = "data" /\ phase' = "escaped" /\ Sending /\ Report
          /\ UNCHANGED <<payload, idx, entry, sent>>
        BY <1>2 DEF SendEscape, Transmit, Sending
    <2>2. InTransit
        BY <1>a, <2>1
    <2>3. InFrameEscape(ESC_BYTE)
        BY <2>1, <2>2, MagicBytesAssumption DEF InTransit, ProcessByte, WaitHeader, InFrameStart,
            InFrameEscape, InFrameEnd, InFrameData, InFrameEsc, IsMagicByte
    <2>4. state' = "IN_FRAME_ESC" /\ frame' = "NULL" /\ ret' = 0 /\ UNCHANGED <<buf, offset>>
        BY <2>3 DEF InFrameEscape, Return, NoFrame
    <2> QED
        BY <1>2, <2>1, <2>2, <2>4 DEF SendEscape, Report, InTransit
<1>3. CASE SendData
    <2>1. /\ phase' = "data" /\ Sending /\ Report /\ UNCHANGED <<payload, entry, sent>>
          /\ idx <= Len(Body(payload))
        BY <1>3 DEF SendData, Sending, LinkSafe, EscapedHasByte
    <2>2. InTransit /\ ~(ret' < 0)
        BY <1>a, <2>1
    <2>3. ret' = 0
        <3>1. ret' = 0 \/ ret' = GrowError
            BY <1>3, <2>1, <2>2, DataPut DEF PutByte, Return
        <3> QED
            BY <2>2, <3>1, GrowErrorIsError
    <2> QED
        BY <1>3, <2>1, <2>2, <2>3, DataStored
<1>4. CASE SendEnd
    <2>1. phase = "data" /\ phase' = "quiet" /\ Sending /\ Report /\ UNCHANGED <<entry, sent>>
        BY <1>4 DEF SendEnd, Sending
    <2>2. InTransit
        BY <1>a, <2>1
    <2> QED
        BY <1>4, <2>1, <2>2, EndDelivers DEF Sending
<1>5. CASE Truncate
    BY <1>5 DEF Truncate, Sending
<1>6. ASSUME NEW byte \in Byte, Noise(byte)
      PROVE  (Sending => InTransit)' /\ (phase = "quiet" => Delivered)'
    BY <1>6 DEF Noise, Sending
<1>7. CASE UNCHANGED linkVars
    BY <1>7 DEF linkVars, vars, decoder, sender, Unreported, Clean, Sending, InTransit, Delivered,
        Content
<1> QED
    BY <1>1, <1>2, <1>3, <1>4, <1>5, <1>6, <1>7 DEF LinkNext, Proceed

(***************************************************************************)
(* Of every complete frame that started clean, the decoder hands over the  *)
(* payload or reports an error, whoever allocated its buffer, however      *)
(* large the frame is and whatever memory was refused meanwhile.           *)
(***************************************************************************)
THEOREM LossIsReported == LinkSpec => []NoSilentLoss
<1>1. LinkInit => Unreported /\ ReportsAreErrors
    BY DEF LinkInit, Unreported, ReportsAreErrors
<1>2. LinkSafe /\ Unreported /\ ReportsAreErrors => NoSilentLoss
    BY DEF LinkSafe, LinkTypeOK, Unreported, ReportsAreErrors, NoSilentLoss
<1>3. LinkSafe => LinkTypeOK
    BY DEF LinkSafe
<1> QED
    BY <1>1, <1>2, <1>3, LinkInitSafe, LinkStepSafe, LinkStepReports, LinkStepUnreported, PTL
    DEF LinkSpec

-----------------------------------------------------------------------------
(* The line as a channel *)

\* Decoders over static buffers that every frame fits, and a line without faults.
Faultless ==
    /\ HeapSizes \subseteq {0} /\ MaxTruncations = 0 /\ MaxNoise = 0
    /\ \A p \in Payloads : \A size \in StaticSizes : Len(Body(p)) <= size

(***************************************************************************)
(* Every frame starts clean, and what was sent is what was received and,   *)
(* while a frame goes by, its payload.                                     *)
(***************************************************************************)
ChannelInv ==
    /\ alloc = "static" /\ bufsize \in StaticSizes
    /\ phase # "broken" /\ Clean
    /\ phase = "quiet" => sent = received
    /\ Sending => payload \in Payloads /\ sent = Append(received, payload)

LEMMA LinkInitChannel == Faultless /\ LinkInit => ChannelInv
BY DEF Faultless, LinkInit, Made, ChannelInv, Clean, Sending

\* A decoder over static storage keeps its buffer.
LEMMA StaticBuffer ==
    ASSUME alloc = "static", NEW byte, ProcessByte(byte)
    PROVE  alloc' = "static" /\ bufsize' = bufsize
<1>1. ~CanGrow
    BY DEF CanGrow
<1> QED
    BY <1>1 DEF ProcessByte, storage, WaitHeader, InFrameStart, InFrameEscape, InFrameEnd, InFrameData,
        InFrameEsc, PutByte, Store, Refused

LEMMA LinkStepChannel ==
    ASSUME Faultless, LinkSafe, InStep, Carried, Carried', ChannelInv, [LinkNext]_linkVars
    PROVE  ChannelInv' /\ [Channel!Next]_<<sent, received>>
<1>0. /\ sent \in Seq(Seq(Byte)) /\ received \in Seq(Seq(Byte)) /\ payload \in Seq(Byte)
      /\ phase \in Phases /\ truncations = 0 /\ noise = 0
    BY DEF Faultless, LinkSafe, LinkTypeOK
<1>a. ASSUME NEW byte, Transmit(byte)
      PROVE  /\ alloc' = "static" /\ bufsize' = bufsize
             /\ frame' = "NULL" => received' = received
    BY <1>a, StaticBuffer DEF Transmit, ChannelInv
\* In the middle of a frame nothing is handed over.
<1>b. ASSUME Sending', Sending, UNCHANGED <<payload, sent, entry>>, NEW byte, Transmit(byte)
      PROVE  ChannelInv' /\ UNCHANGED <<sent, received>>
    <2>1. Clean' /\ Fits' /\ sent' # <<>>
        BY <1>0, <1>a, <1>b DEF Clean, Fits, ChannelInv, Faultless
    <2>2. frame' = "NULL"
        BY <1>b, <2>1 DEF Carried, InTransit
    <2> QED
        BY <1>a, <1>b, <2>1, <2>2 DEF ChannelInv, Sending
<1>1. ASSUME NEW p \in Payloads, StartFrame(p) PROVE ChannelInv' /\ Channel!Send(p)
    <2>1. phase = "quiet" /\ sent = received /\ state = "WAIT_HEADER"
        BY <1>0, <1>1 DEF StartFrame, Sending, Phases, ChannelInv, InStep
    <2>2. /\ Transmit(START_BYTE) /\ Len(sent) < MaxFrames /\ phase' = "data"
          /\ payload' = p /\ entry' = state /\ sent' = Append(sent, p)
        BY <1>1 DEF StartFrame
    <2>3. frame' = "NULL"
        BY <2>1, <2>2 DEF Transmit, ProcessByte, WaitHeader, InFrameStart, InFrameEscape,
            InFrameEnd, InFrameData, InFrameEsc, NoFrame
    <2> QED
        BY <1>a, <2>1, <2>2, <2>3 DEF ChannelInv, Clean, Sending, Channel!Send
<1>2. CASE SendEscape
    <2>1. Sending /\ Sending' /\ UNCHANGED <<payload, sent, entry>> /\ Transmit(ESC_BYTE)
        BY <1>2 DEF SendEscape, Sending
    <2> QED
        BY <1>b, <2>1
<1>3. CASE SendData
    <2>1. Sending /\ Sending' /\ UNCHANGED <<payload, sent, entry>> /\ Transmit(Body1)
        BY <1>3 DEF SendData, Sending
    <2> QED
        BY <1>b, <2>1
<1>4. CASE SendEnd
    <2>1. /\ Transmit(END_BYTE) /\ Sending /\ phase' = "quiet"
          /\ UNCHANGED <<payload, sent, entry>>
        BY <1>4 DEF SendEnd, Sending
    <2>2. sent = Append(received, payload) /\ payload \in Payloads
        BY <2>1 DEF ChannelInv
    <2>3. sent # <<>> /\ sent # received
        <3>1. Len(sent) = Len(received) + 1 /\ Len(received) \in Nat
            BY <1>0, <2>2
        <3> QED
            BY <3>1
    <2>4. Clean' /\ Fits'
        BY <1>a, <2>1, <2>2 DEF Clean, Fits, ChannelInv, Faultless
    <2>5. Delivered'
        BY <2>1, <2>3, <2>4 DEF Carried
    <2>6. received' = sent
        BY <2>1, <2>2, <2>5 DEF Transmit, Delivered
    <2>7. ChannelInv'
        BY <1>a, <2>1, <2>4, <2>6 DEF ChannelInv, Sending
    <2> QED
        BY <2>1, <2>3, <2>6, <2>7 DEF Channel!Next, Channel!Receive
<1>5. ~Truncate /\ \A byte \in Byte : ~Noise(byte)
    BY <1>0 DEF Truncate, Noise, Faultless
<1>6. CASE UNCHANGED linkVars
    BY <1>6 DEF linkVars, vars, decoder, sender, ChannelInv, Clean, Sending
<1> QED
    BY <1>1, <1>2, <1>3, <1>4, <1>5, <1>6 DEF LinkNext, Proceed, Channel!Next

(***************************************************************************)
(* Over a line without faults, and into static buffers that hold every     *)
(* frame, each step of encoder, line and decoder is one of the channel or  *)
(* none: payloads are handed over once each, unaltered and in order, each  *)
(* before the next is sent.                                                *)
(***************************************************************************)
THEOREM LinkIsChannel ==
    ASSUME Faultless
    PROVE  LinkSpec => Channel!Init /\ [][Channel!Next]_<<sent, received>>
<1> DEFINE Inv == LinkSafe /\ InStep /\ Carried /\ ChannelInv
<1>1. LinkInit => Inv /\ Channel!Init
    <2>1. LinkInit => Carried /\ Channel!Init
        BY DEF LinkInit, Carried, Channel!Init
    <2> QED
        BY <2>1, LinkInitSafe, LinkInitInStep, LinkInitChannel
<1>2. Inv /\ [LinkNext]_linkVars => Inv' /\ [Channel!Next]_<<sent, received>>
    BY LinkStepSafe, LinkStepInStep, LinkStepCarried, LinkStepChannel
<1> HIDE DEF Inv
<1> QED
    BY <1>1, <1>2, PTL DEF LinkSpec

=============================================================================
