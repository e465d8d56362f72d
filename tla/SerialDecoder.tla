--------------------------- MODULE SerialDecoder ----------------------------
(***************************************************************************)
(* The frame decoder of src/serial-protocol.c: one SmpSerialProtocolDecoder*)
(* with its storage, and one action per call of its interface.             *)
(*                                                                         *)
(* The variables are the members of the C structure, and `ret', `frame'    *)
(* and `framesize' are what the last call returned and stored through its  *)
(* out parameters: *frame is NULL or points to the decoder's own buffer.   *)
(* `given' is the byte that call was about.                                *)
(***************************************************************************)
EXTENDS SerialProtocol

CONSTANTS
    DEFAULT_BUFFER_SIZE,                   \* initial size and growth step
    DEFAULT_MAXIMUM_DECODER_BUFFER_SIZE,   \* limit of a heap decoder's buffer
    SizeMod,                               \* 2^w for a size_t of w bits
    HeapSizes,                             \* arguments of decoder_new
    StaticSizes,                           \* buffers given to decoder_new_from_static
    Maxima                                 \* arguments of set_maximum_capacity

SizeT == 0 .. SizeMod - 1

ASSUME SizesAssumption ==
    /\ SizeMod \in Nat
    /\ DEFAULT_BUFFER_SIZE \in SizeT \ {0}
    /\ DEFAULT_MAXIMUM_DECODER_BUFFER_SIZE \in SizeT
    /\ HeapSizes \subseteq SizeT
    /\ StaticSizes \subseteq SizeT \ {0}
    /\ Maxima \subseteq SizeT

VARIABLES
    alloc,      \* "none": no decoder; "heap" or "static": how it was made
    state,      \* the protocol state
    buf,        \* the bufsize bytes of the buffer
    bufsize,
    offset,     \* number of bytes of the current frame stored so far
    maxsize,    \* limit on bufsize
    given,      \* the byte the last call was given: {byte}, or {} when it takes none
    ret, frame, framesize

decoder == <<alloc, state, buf, bufsize, offset, maxsize>>
storage == <<alloc, maxsize>>
vars == <<decoder, given, ret, frame, framesize>>

States == {"WAIT_HEADER", "IN_FRAME", "IN_FRAME_ESC"}

TypeOK ==
    /\ alloc \in {"none", "heap", "static"}
    /\ state \in States
    /\ bufsize \in SizeT
    /\ buf \in [0 .. bufsize - 1 -> Byte]
    /\ offset \in SizeT
    /\ maxsize \in SizeT
    /\ given \subseteq Byte
    /\ ret \in Int
    /\ frame \in {"NULL", "buf"}
    /\ framesize \in SizeT

\* The first n bytes of the buffer, as the sequence the other operators take.
Content(n) == [i \in 1 .. n |-> buf[i - 1]]

-----------------------------------------------------------------------------
(* Making and freeing a decoder *)

NoDecoder ==
    /\ alloc = "none" /\ state = "WAIT_HEADER" /\ bufsize = 0 /\ offset = 0 /\ maxsize = 0
    /\ buf = [i \in {} |-> Zero]

Quiet(r) == ret' = r /\ frame' = "NULL" /\ framesize' = 0 /\ given' = {}

\* decoder_new: 0 asks for the default size; the structure and the buffer are zeroed.
New(request) ==
    LET size == IF request = 0 THEN DEFAULT_BUFFER_SIZE ELSE request IN
    /\ alloc = "none"
    /\ \/ /\ size <= DEFAULT_MAXIMUM_DECODER_BUFFER_SIZE
          /\ alloc' = "heap" /\ state' = "WAIT_HEADER"
          /\ bufsize' = size /\ buf' = [i \in 0 .. size - 1 |-> Zero]
          /\ offset' = 0 /\ maxsize' = DEFAULT_MAXIMUM_DECODER_BUFFER_SIZE
          /\ Quiet(0)
       \* the limit, or realloc, refuses: the caller gets NULL
       \/ /\ Quiet(IF size > DEFAULT_MAXIMUM_DECODER_BUFFER_SIZE
                   THEN SMP_ERROR_TOO_BIG ELSE SMP_ERROR_NO_MEM)
          /\ UNCHANGED decoder

(***************************************************************************)
(* decoder_new_from_static: the structure and the buffer are the caller's  *)
(* memory.  Neither the offset nor the buffer is initialised, so they hold *)
(* anything; and the caller may do it again over the same storage.         *)
(***************************************************************************)
NewFromStatic(size) ==
    /\ alloc # "heap"
    /\ alloc' = "static" /\ state' = "WAIT_HEADER"
    /\ bufsize' = size /\ buf' \in [0 .. size - 1 -> Byte]
    /\ offset' \in SizeT /\ maxsize' = size
    /\ Quiet(0)

\* decoder_free does nothing to a static decoder.
Free ==
    /\ alloc = "heap"
    /\ alloc' = "none" /\ state' = "WAIT_HEADER" /\ bufsize' = 0 /\ offset' = 0 /\ maxsize' = 0
    /\ buf' = [i \in {} |-> Zero]
    /\ Quiet(0)

\* An application reaches it through its context, which hands on only maxima above 16.
SetMaximumCapacity(max) ==
    /\ alloc # "none"
    /\ IF max >= 5 THEN maxsize' = max /\ Quiet(0)
                   ELSE UNCHANGED maxsize /\ Quiet(SMP_ERROR_INVALID_PARAM)
    /\ UNCHANGED <<alloc, state, buf, bufsize, offset>>

-----------------------------------------------------------------------------
(* put_byte and set_capacity *)

NewSize == (bufsize + DEFAULT_BUFFER_SIZE) % SizeMod

\* Mistake: the last byte of the buffer is never used.
HasRoomOffByOne == offset + 1 < bufsize

HasRoom == offset < bufsize

\* set_capacity succeeds: a heap decoder under its limit, when realloc does.
CanGrow == alloc = "heap" /\ NewSize >= bufsize /\ NewSize <= maxsize

\* Mistake: put_byte drops the byte and says nothing.
GrowErrorDropped == 0

GrowError ==
    IF NewSize < bufsize THEN SMP_ERROR_OVERFLOW
    ELSE IF alloc = "static" \/ NewSize > maxsize THEN SMP_ERROR_TOO_BIG
    ELSE SMP_ERROR_NO_MEM

Store(byte) ==
    /\ \/ /\ HasRoom
          /\ buf' = [buf EXCEPT ![offset] = byte]
          /\ UNCHANGED bufsize
       \/ /\ ~HasRoom /\ CanGrow
          /\ bufsize' = NewSize
          /\ buf' = [i \in 0 .. NewSize - 1 |->
                        IF i = offset THEN byte ELSE IF i < bufsize THEN buf[i] ELSE Zero]
    /\ offset' = offset + 1

\* No room and no growth; realloc may fail whenever it is called.
Refused == ~HasRoom /\ UNCHANGED <<buf, bufsize, offset>>

-----------------------------------------------------------------------------
(* process_byte: one action for each state, and in a frame for each byte *)

\* Mistake: an error leaves the state the handler chose.
ReturnWithoutReset(byte, r, next) == ret' = r /\ state' = next

\* The end of process_byte: an error leads to WAIT_HEADER whatever the handler
\* chose, unless the byte is a start byte.
Return(byte, r, next) ==
    /\ ret' = r
    /\ state' = IF r # 0 /\ byte # START_BYTE THEN "WAIT_HEADER" ELSE next

NoFrame == frame' = "NULL" /\ framesize' = 0

\* Mistake: a new frame is appended to what is left in the buffer.
WaitHeaderStaleOffset(byte) ==
    /\ state = "WAIT_HEADER"
    /\ Return(byte, 0, IF byte = START_BYTE THEN "IN_FRAME" ELSE "WAIT_HEADER")
    /\ NoFrame /\ UNCHANGED <<buf, bufsize, offset>>

WaitHeader(byte) ==
    /\ state = "WAIT_HEADER"
    /\ IF byte = START_BYTE
       THEN Return(byte, 0, "IN_FRAME") /\ offset' = 0
       ELSE Return(byte, 0, "WAIT_HEADER") /\ UNCHANGED offset
    /\ NoFrame /\ UNCHANGED <<buf, bufsize>>

\* Mistake: the frame that had no end stays in front of the new one.
InFrameStartStaleOffset(byte) ==
    /\ state = "IN_FRAME" /\ byte = START_BYTE
    /\ Return(byte, SMP_ERROR_BAD_MESSAGE, "IN_FRAME")
    /\ NoFrame /\ UNCHANGED <<buf, bufsize, offset>>

\* A start byte inside a frame: resynchronise on it.
InFrameStart(byte) ==
    /\ state = "IN_FRAME" /\ byte = START_BYTE
    /\ offset' = 0
    /\ Return(byte, SMP_ERROR_BAD_MESSAGE, "IN_FRAME")
    /\ NoFrame /\ UNCHANGED <<buf, bufsize>>

\* Mistake: the escape byte is dropped and the next byte is not data.
InFrameEscapeIgnored(byte) ==
    /\ state = "IN_FRAME" /\ byte = ESC_BYTE
    /\ Return(byte, 0, "IN_FRAME")
    /\ NoFrame /\ UNCHANGED <<buf, bufsize, offset>>

InFrameEscape(byte) ==
    /\ state = "IN_FRAME" /\ byte = ESC_BYTE
    /\ Return(byte, 0, "IN_FRAME_ESC")
    /\ NoFrame /\ UNCHANGED <<buf, bufsize, offset>>

ChecksumMatches == buf[offset - 1] = ComputeChecksum(Content(offset - 1))

\* Mistake: the checksum is handed over with the payload.
InFrameEndWithChecksum(byte) ==
    /\ state = "IN_FRAME" /\ byte = END_BYTE
    /\ IF offset < 1
       THEN Return(byte, SMP_ERROR_BAD_MESSAGE, "WAIT_HEADER") /\ NoFrame
       ELSE /\ framesize' = offset
            /\ frame' = IF ChecksumMatches THEN "buf" ELSE "NULL"
            /\ Return(byte, IF ChecksumMatches THEN 0 ELSE SMP_ERROR_BAD_MESSAGE, "WAIT_HEADER")
    /\ UNCHANGED <<buf, bufsize, offset>>

\* The frame is complete: hand it over if its last byte is its checksum.
InFrameEnd(byte) ==
    /\ state = "IN_FRAME" /\ byte = END_BYTE
    /\ IF offset < 1
       THEN Return(byte, SMP_ERROR_BAD_MESSAGE, "WAIT_HEADER") /\ NoFrame
       ELSE /\ framesize' = offset - 1
            /\ frame' = IF ChecksumMatches THEN "buf" ELSE "NULL"
            /\ Return(byte, IF ChecksumMatches THEN 0 ELSE SMP_ERROR_BAD_MESSAGE, "WAIT_HEADER")
    /\ UNCHANGED <<buf, bufsize, offset>>

PutByte(byte) ==
    /\ \/ Store(byte) /\ Return(byte, 0, "IN_FRAME")
       \/ Refused /\ Return(byte, GrowError, state)
    /\ NoFrame

InFrameData(byte) == state = "IN_FRAME" /\ ~IsMagicByte(byte) /\ PutByte(byte)

\* The byte after an escape is data, whatever it is.
InFrameEsc(byte) == state = "IN_FRAME_ESC" /\ PutByte(byte)

ProcessByte(byte) ==
    /\ alloc # "none"
    /\ \/ WaitHeader(byte)
       \/ InFrameStart(byte)
       \/ InFrameEscape(byte)
       \/ InFrameEnd(byte)
       \/ InFrameData(byte)
       \/ InFrameEsc(byte)
    /\ given' = {byte}
    /\ UNCHANGED storage

-----------------------------------------------------------------------------
Init == NoDecoder /\ given = {} /\ ret = 0 /\ frame = "NULL" /\ framesize = 0

Next ==
    \/ \E request \in HeapSizes : New(request)
    \/ \E size \in StaticSizes : NewFromStatic(size)
    \/ Free
    \/ \E max \in Maxima : SetMaximumCapacity(max)
    \/ \E byte \in Byte : ProcessByte(byte)

Spec == Init /\ [][Next]_vars

-----------------------------------------------------------------------------
(* Properties *)

(***************************************************************************)
(* Inside a frame the write position never passes the end of the buffer,   *)
(* although a static decoder starts with whatever offset its storage held, *)
(* buffers differ in size between two initialisations, and growth wraps.   *)
(***************************************************************************)
BufferBound == state # "WAIT_HEADER" => offset <= bufsize

(***************************************************************************)
(* After process_byte reports an error the frame it was reading is over:   *)
(* the decoder waits for a header, or has just started the next frame, or, *)
(* when an escaped start byte found no room, still holds a full buffer in  *)
(* the escape state so that nothing can be appended as it stands.          *)
(***************************************************************************)
DecodeErrors == {SMP_ERROR_BAD_MESSAGE, SMP_ERROR_TOO_BIG, SMP_ERROR_NO_MEM, SMP_ERROR_OVERFLOW}

ErrorEndsFrame ==
    ret \in DecodeErrors =>
        \/ state = "WAIT_HEADER"
        \/ state = "IN_FRAME" /\ offset = 0
        \/ state = "IN_FRAME_ESC" /\ ~HasRoom

(***************************************************************************)
(* The decoder implements the deframer: what it hands over is a function   *)
(* of the bytes since the start byte, and never of what the buffer or the  *)
(* structure held before, of how the buffer grew or of who allocated it.   *)
(***************************************************************************)
Deframed == INSTANCE Deframer WITH
    mode    <- IF state = "WAIT_HEADER" THEN "hunting"
               ELSE IF state = "IN_FRAME" THEN "collecting" ELSE "escaping",
    content <- IF state = "WAIT_HEADER" THEN <<>> ELSE Content(offset),
    verdict <- IF ret < 0 THEN "error" ELSE "quiet",
    out     <- IF frame = "buf" THEN {Content(framesize)} ELSE {}

Deframes == Deframed!Spec

(***************************************************************************)
(* A default decoder can be made: decoder_new refuses for lack of memory   *)
(* only.  tests/serial-protocol.c asks for the default size and asserts    *)
(* that it gets a decoder.                                                 *)
(***************************************************************************)
RefusedForMemoryOnly == alloc = "none" => ret # SMP_ERROR_TOO_BIG

=============================================================================
