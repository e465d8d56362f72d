------------------------------ MODULE Message -------------------------------
(***************************************************************************)
(* SmpMessage of src/message.c: an id and an array of typed values, set by *)
(* the application or built from a buffer, and encoded into one.           *)
(*                                                                         *)
(* A byte is a number; a scalar is the sequence of its bytes, so the byte  *)
(* order of the machine does not matter except for the size fields, which  *)
(* are little-endian as the protocol has them.  One message object, and    *)
(* the buffer it was last encoded into; the loop of build_from_buffer is a *)
(* step per value, every other call is one action.                         *)
(*                                                                         *)
(* Sizes are of type size_t and wrap at SIZE_MOD where the code adds and   *)
(* multiplies without looking.  Where an array is then larger than its     *)
(* block, or a string is read where there is none, the model stops.        *)
(***************************************************************************)
EXTENDS LibSmp, SequencesExt

CONSTANTS
    DEFAULT_CAPACITY,
    SIZE_MOD,           \* number of values of a size_t
    VALUE_SIZE,         \* sizeof(SmpValue)
    UINT16_MAX,         \* limit of the size field of strings and raw data
    UINT32_MAX,         \* limit of the size field of a message
    StaticCapacities,   \* arrays given to new_from_static
    Capacities,         \* arguments of set_capacity
    Ids,                \* message ids
    Settings,           \* argument lists of set: sequences of [index, value]
    SingleSettings,     \* arguments of set_value and of the setter of one type
    Requests,           \* argument lists of get: sequences of [index, type]
    SingleRequests,     \* arguments of the getter of one type
    Buffers,            \* buffers to build from, as long as nothing was encoded
    BufferSizes         \* sizes of the buffers given to encode

MSG_HEADER_SIZE == 8

TYPE_NONE == 0
TYPE_STRING == 9
TYPE_RAW == 16

\* The minimal encoded size of each type; a type that is not listed has size 0.
TypeSize(type) ==
    CASE type \in {1, 2}        -> 1
      [] type \in {3, 4}        -> 2
      [] type \in {5, 6, 10}    -> 4
      [] type \in {7, 8, 11}    -> 8
      [] type = TYPE_STRING          -> 3
      [] type = TYPE_RAW             -> 2
      [] OTHER                  -> 0

Known(type) == TypeSize(type) > 0

Byte == 0 .. 255

\* A string that is NULL, and data that is not the value's: of another type read as this
\* one, or what lies behind a buffer.
Null == <<-1>>
Wild == <<-2>>

Data == Seq(Byte) \cup {Null, Wild}

Value == [type : Byte, data : Data]

Empty == [type |-> TYPE_NONE, data |-> <<>>]

\* A scalar has all of its bytes, and a C string no zero byte before its end.
Whole(v) ==
    /\ Known(v.type) /\ v.type \notin {TYPE_STRING, TYPE_RAW} /\ v.data # Wild
           => Len(v.data) = TypeSize(v.type)
    /\ v.type = TYPE_STRING => \A k \in DOMAIN v.data : v.data[k] # 0

Setting == [index : Nat, value : Value]
Request == [index : Nat, type : Byte]

ASSUME MessageAssumption ==
    /\ SIZE_MOD \in Nat /\ SIZE_MOD >= 65536 /\ VALUE_SIZE \in Nat \ {0}
    /\ DEFAULT_CAPACITY \in Nat /\ StaticCapacities \subseteq Nat /\ Capacities \subseteq Nat
    /\ UINT16_MAX \in Nat /\ UINT16_MAX \div 256 \in Byte
    /\ UINT32_MAX \in Nat /\ UINT32_MAX \div 16777216 \in Byte
    /\ Ids \subseteq [1 .. 4 -> Byte]
    /\ Settings \subseteq Seq(Setting) /\ SingleSettings \subseteq Setting
    /\ \A list \in Settings : \A k \in DOMAIN list : Whole(list[k].value)
    /\ \A s \in SingleSettings : Whole(s.value)
    /\ Requests \subseteq Seq(Request) /\ SingleRequests \subseteq Request
    /\ Buffers \subseteq Seq(Byte) /\ \A bytes \in Buffers : Len(bytes) < SIZE_MOD
    /\ BufferSizes \subseteq 0 .. SIZE_MOD - 1

VARIABLES
    alloc,          \* "none", "heap" or "static"
    msgid, capacity, values,
    pc,             \* "idle", "build" in the loop of build_from_buffer, or "undefined"
    buffer, offset, i,      \* of that loop
    fresh,          \* whether the message was clear when the last build began: "yes", "no"
    ret,            \* what the last call returned
    got,            \* what the last call stored where its caller asked for it
    wire,           \* what the message was last encoded into, <<>> if never
    source          \* id and values at that time

message == <<alloc, msgid, capacity, values>>
loop == <<pc, buffer, offset, i, fresh>>
coded == <<wire, source>>
result == <<ret, got>>
vars == <<message, loop, result, coded>>

Slots == 0 .. capacity - 1

Clear(n) == [s \in 0 .. n - 1 |-> Empty]

TypeOK ==
    /\ alloc \in {"none", "heap", "static"}
    /\ msgid \in Seq(Byte) /\ capacity \in Nat
    /\ values \in [Slots -> Value]
    /\ pc \in {"idle", "build", "undefined"}
    /\ buffer \in Seq(Byte) /\ offset \in Nat /\ i \in Nat
    /\ fresh \in {"yes", "no"} /\ ret \in Int /\ got \in Seq(Data) /\ wire \in Seq(Byte)

NoId == <<0, 0, 0, 0>>

Init ==
    /\ alloc = "none" /\ msgid = NoId /\ capacity = 0 /\ values = Clear(0)
    /\ pc = "idle" /\ buffer = <<>> /\ offset = 0 /\ i = 0 /\ fresh = "no"
    /\ ret = 0 /\ got = <<>> /\ wire = <<>> /\ source = [msgid |-> NoId, values |-> <<>>]

\* A call that stores nothing for its caller.
Returns(r) == ret' = r /\ got' = <<>>

\* The program may do anything from here on.
Undefined == pc' = "undefined" /\ UNCHANGED <<buffer, offset, i, fresh, result>>

Stopped == pc = "undefined" /\ UNCHANGED vars

-----------------------------------------------------------------------------
(* Sizes and encoding of values *)

\* Mistake: the size of a string without its nul byte.
ComputeSizeNoNul(v) ==
    (IF v.type = TYPE_STRING THEN 2 ELSE TypeSize(v.type))
        + (IF v.type \in {TYPE_STRING, TYPE_RAW} /\ v.data # Null THEN Len(v.data) ELSE 0)

\* For the size of a string, a NULL pointer is an empty one.
ComputeSize(v) ==
    TypeSize(v.type) + (IF v.type \in {TYPE_STRING, TYPE_RAW} /\ v.data # Null
                        THEN Len(v.data) ELSE 0)

SizeInMessage(v) == IF v.type = TYPE_NONE THEN 0 ELSE 1 + ComputeSize(v)

\* The sum of the first n sizes.
Total(sizes, n) ==
    LET upto[k \in 0 .. n] == IF k = 0 THEN 0 ELSE upto[k - 1] + sizes[k - 1]
    IN  upto[n]

EncodedSize ==
    MSG_HEADER_SIZE + Total([s \in Slots |-> SizeInMessage(values[s])], capacity)

LE16(n) == <<n % 256, n \div 256>>
\* Mistake: the header is counted too.
LE32Whole(n) ==
    LET m == n + MSG_HEADER_SIZE
    IN  <<m % 256, (m \div 256) % 256, (m \div 65536) % 256, m \div 16777216>>
LE32(n) == <<n % 256, (n \div 256) % 256, (n \div 65536) % 256, n \div 16777216>>
FromLE16(bytes) == bytes[1] + 256 * bytes[2]
FromLE32(bytes) == FromLE16(bytes) + 65536 * FromLE16(SubSeq(bytes, 3, 4))

\* What a C string at the head of the bytes reads as: all of them, and whatever
\* comes behind, when none is its nul byte.
CString(bytes) ==
    LET nuls == {k \in DOMAIN bytes : bytes[k] = 0}
    IN  IF nuls = {} THEN bytes ELSE SubSeq(bytes, 1, Min(nuls) - 1)

\* A value too long for its size field, or of unknown type, is left out.
Fits(v) ==
    CASE v.type = TYPE_STRING -> Len(v.data) <= UINT16_MAX - 1
      [] v.type = TYPE_RAW    -> Len(v.data) <= UINT16_MAX
      [] OTHER                -> Known(v.type)

\* Data behind its size field.
Sized(data) == LE16(Len(data)) \o data

EncodedData(v) ==
    CASE v.type = TYPE_STRING -> Sized(Append(v.data, 0))
      [] v.type = TYPE_RAW    -> Sized(v.data)
      [] OTHER                -> v.data

EncodeValue(v) == IF Fits(v) THEN <<v.type>> \o EncodedData(v) ELSE <<>>

\* Of an empty slot nothing is encoded.
Payload == FlattenSeq([k \in 1 .. capacity |-> EncodeValue(values[k - 1])])

\* The members of a sequence at some of its places, in order.
Chosen(seq, places) == FlattenSeq([k \in DOMAIN seq |-> IF k \in places THEN <<seq[k]>> ELSE <<>>])

\* The values that are there.
Present == Chosen([k \in 1 .. capacity |-> values[k - 1]],
                  {k \in 1 .. capacity : values[k - 1].type # TYPE_NONE})

\* The size asked for is that of the values: it did not wrap, and nothing in it is wild.
SizeKnown == EncodedSize < SIZE_MOD /\ \A s \in Slots : values[s].data # Wild

\* encode takes the length of a string without looking whether there is one; of wild
\* data the model does not say what is written.
Encodable == \A s \in Slots : values[s].data \notin {Null, Wild}

Encode(size) ==
    /\ pc = "idle" /\ alloc # "none"
    /\ \/ /\ SizeKnown => size < EncodedSize
          /\ Returns(SMP_ERROR_NO_MEM) /\ UNCHANGED <<loop, coded>>
       \/ /\ SizeKnown => size >= EncodedSize
          /\ ~(SizeKnown /\ Encodable) /\ Undefined /\ UNCHANGED coded
       \/ /\ Encodable /\ size >= EncodedSize /\ Len(Payload) > UINT32_MAX
          /\ Returns(SMP_ERROR_OVERFLOW) /\ UNCHANGED <<loop, coded>>
       \/ /\ Encodable /\ size >= EncodedSize /\ Len(Payload) <= UINT32_MAX
          /\ wire' = msgid \o LE32(Len(Payload)) \o Payload
          /\ Returns(Len(wire'))
          /\ source' = [msgid |-> msgid, values |-> Present]
          /\ UNCHANGED loop
    /\ UNCHANGED message

-----------------------------------------------------------------------------
(* Making, setting, clearing *)

NewWithId(id) ==
    /\ pc = "idle" /\ alloc = "none"
    /\ \/ /\ alloc' = "heap" /\ msgid' = id /\ Returns(0)
          /\ capacity' = DEFAULT_CAPACITY /\ values' = Clear(DEFAULT_CAPACITY)
       \/ Returns(SMP_ERROR_NO_MEM) /\ UNCHANGED message
    /\ UNCHANGED <<loop, coded>>

NewFromStatic(n, id) ==
    /\ pc = "idle" /\ alloc # "heap"
    /\ alloc' = "static" /\ msgid' = id /\ Returns(0)
    /\ capacity' = n /\ values' = Clear(n)
    /\ UNCHANGED <<loop, coded>>

Free ==
    /\ pc = "idle" /\ alloc = "heap"
    /\ alloc' = "none" /\ msgid' = NoId /\ capacity' = 0 /\ values' = Clear(0)
    /\ UNCHANGED <<loop, result, coded>>

ClearMessage ==
    /\ pc = "idle" /\ alloc # "none"
    /\ msgid' = NoId /\ values' = Clear(capacity)
    /\ UNCHANGED <<alloc, capacity, loop, result, coded>>

SetId(id) ==
    /\ pc = "idle" /\ alloc # "none" /\ msgid' = id
    /\ UNCHANGED <<alloc, capacity, values, loop, result, coded>>

\* The pairs of the list are stored one after the other, up to the first index
\* that is out of range.
Set(list) ==
    LET refused == {k \in DOMAIN list : list[k].index >= capacity}
        stored  == IF refused = {} THEN Len(list) ELSE Min(refused) - 1
        at(s)   == {k \in 1 .. stored : list[k].index = s}
    IN  /\ pc = "idle" /\ alloc # "none"
        /\ values' = [s \in Slots |-> IF at(s) = {} THEN values[s] ELSE list[Max(at(s))].value]
        /\ Returns(IF refused = {} THEN 0 ELSE SMP_ERROR_NOT_FOUND)
        /\ UNCHANGED <<alloc, msgid, capacity, loop, coded>>

\* The setter of one type hands set a list of one.
SetTyped(index, value) == Set(<<[index |-> index, value |-> value]>>)

\* Mistakes: the array allocated anew, its new part not cleared, one slot short.
ExtendedAnew(n) == Clear(n)
ExtendedDirty(n) == [s \in 0 .. n - 1 |-> IF s < capacity THEN values[s] ELSE values[0]]
ExtendedShort(n) == [s \in 0 .. n - 2 |-> IF s < capacity THEN values[s] ELSE Empty]

Extended(n) == [s \in 0 .. n - 1 |-> IF s < capacity THEN values[s] ELSE Empty]

\* The size of the array in bytes is more than a size_t holds.
Overflows(n) == n * VALUE_SIZE >= SIZE_MOD

\* The block is of the size that wrapped, and the array reaches out of it: what is left of
\* the values, before the new part is cleared.
Wrapped(n) ==
    [s \in 0 .. n - 1 |-> IF s < capacity /\ (s + 1) * VALUE_SIZE <= (n * VALUE_SIZE) % SIZE_MOD
                          THEN values[s] ELSE [type |-> TYPE_NONE, data |-> Wild]]

GrowWrapped(n) ==
    /\ Overflows(n) /\ capacity' = n /\ values' = Wrapped(n)
    /\ Undefined

SetCapacity(n) ==
    /\ pc = "idle" /\ alloc # "none"
    /\ \/ /\ alloc = "heap" /\ n > capacity /\ ~Overflows(n)
          /\ capacity' = n /\ values' = Extended(n) /\ Returns(0) /\ UNCHANGED loop
       \/ alloc = "heap" /\ n > capacity /\ GrowWrapped(n)
       \/ /\ Returns(CASE alloc = "static" -> SMP_ERROR_NOT_SUPPORTED
                       [] alloc = "heap" /\ n < capacity -> SMP_ERROR_INVALID_PARAM
                       [] alloc = "heap" /\ n = capacity -> 0
                       [] alloc = "heap" /\ n > capacity -> SMP_ERROR_NO_MEM)
          /\ UNCHANGED <<capacity, values, loop>>
    /\ UNCHANGED <<alloc, msgid, coded>>

\* n_args counts up to the first slot that is empty.
NArgs == Min({s \in Slots : values[s].type = TYPE_NONE} \cup {capacity})

-----------------------------------------------------------------------------
(* Getting *)

\* A value of an unknown type cannot be asked for.
GetError(request) ==
    IF request.index >= capacity \/ values[request.index].type = TYPE_NONE THEN SMP_ERROR_NOT_FOUND
    ELSE IF request.type # values[request.index].type \/ ~Known(request.type) THEN SMP_ERROR_BAD_TYPE
    ELSE 0

\* Mistake: the second request is answered with the value of the first.
FetchedAgain(list) ==
    [error |-> 0, data |-> [k \in DOMAIN list |-> values[list[1].index].data]]

\* The requests are answered one after the other, up to the first that fails.
Fetched(list) ==
    LET failed == {k \in DOMAIN list : GetError(list[k]) # 0}
        stored == IF failed = {} THEN Len(list) ELSE Min(failed) - 1
    IN  [error |-> IF failed = {} THEN 0 ELSE GetError(list[Min(failed)]),
         data  |-> [k \in 1 .. stored |-> values[list[k].index].data]]

Get(list) ==
    /\ pc = "idle" /\ alloc # "none"
    /\ ret' = Fetched(list).error /\ got' = Fetched(list).data
    /\ UNCHANGED <<message, loop, coded>>

\* The getter of one type hands get a list of one.
GetTyped(index, type) == Get(<<[index |-> index, type |-> type]>>)

-----------------------------------------------------------------------------
(* build_from_buffer *)

\* Mistake: the nul byte is not looked for.
DecodeStringUnchecked(field) ==
    IF Len(field) >= 2 + FromLE16(field)
    THEN CString(SubSeq(field, 3, Len(field)))
    ELSE Null

\* The last byte of the string must be its nul byte; with a size of 0 the byte
\* looked at is the second one of the size itself.  Where 2 + size wraps, the byte
\* looked at is the type or the first one of the size, and neither is 0.
DecodeString(field) ==
    LET size == FromLE16(field) IN
    IF Len(field) >= 2 + size /\ field[2 + size] = 0
    THEN CString(SubSeq(field, 3, Len(field)))
    ELSE Null

\* What an empty slot, whose bytes are zero, reads as when it gets a type.
Zeroed(type) ==
    CASE type = TYPE_STRING -> Null
      [] type = TYPE_RAW    -> <<>>
      [] OTHER              -> [b \in 1 .. TypeSize(type) |-> 0]

\* What a slot reads as when its type changes and nothing else does: the union
\* keeps its bytes.
Retyped(old, type) ==
    IF type = old.type \/ ~Known(type) THEN old.data
    ELSE IF old.type = TYPE_NONE THEN Zeroed(type) ELSE Wild

\* The size of a raw value with its size field, which may wrap.
RawSize(field) == (2 + FromLE16(field)) % SIZE_MOD

\* On failure the slot keeps what it held.
DecodeRaw(field, old) ==
    LET end == 2 + FromLE16(field) IN
    IF Len(field) < RawSize(field) THEN Retyped(old, TYPE_RAW)
    ELSE IF Len(field) >= end THEN SubSeq(field, 3, end)
    ELSE Wild

Decoded(error, value, used) == [error |-> error, value |-> value, used |-> used]

(***************************************************************************)
(* decode_value on the bytes that are left, into a slot that holds old.    *)
(* The type is stored before it is known to be good; a string or raw       *)
(* value that does not decode is not an error and takes its minimal size.  *)
(***************************************************************************)
DecodeValue(rest, old) ==
    LET type  == rest[1]
        field == SubSeq(rest, 2, Len(rest))
        typed == [type |-> type, data |-> Retyped(old, type)]
    IN  IF Len(rest) < 2 THEN Decoded(SMP_ERROR_BAD_MESSAGE, old, 0)
        ELSE IF Len(field) < TypeSize(type) \/ ~Known(type)
             THEN Decoded(SMP_ERROR_BAD_MESSAGE, typed, 0)
        ELSE IF type = TYPE_STRING
             THEN LET v == [type |-> type, data |-> DecodeString(field)]
                  IN  Decoded(0, v, 1 + ComputeSize(v))
        ELSE IF type = TYPE_RAW
             THEN LET v == [type |-> type, data |-> DecodeRaw(field, old)]
                      failed == Len(field) < RawSize(field)
                  IN  Decoded(0, v, 1 + (IF failed THEN TypeSize(TYPE_RAW) ELSE RawSize(field)))
        ELSE Decoded(0, [type |-> type, data |-> SubSeq(field, 1, TypeSize(type))],
                     1 + TypeSize(type))

Return(r) ==
    /\ pc' = "idle" /\ Returns(r)
    /\ buffer' = <<>> /\ offset' = 0 /\ i' = 0 /\ fresh' = "no"

Build(bytes) ==
    /\ pc = "idle" /\ alloc # "none"
    /\ \/ /\ Len(bytes) < MSG_HEADER_SIZE
          /\ Return(SMP_ERROR_BAD_MESSAGE) /\ UNCHANGED msgid
       \/ /\ Len(bytes) >= MSG_HEADER_SIZE
          /\ msgid' = SubSeq(bytes, 1, 4)
          /\ IF Len(bytes) < (MSG_HEADER_SIZE + FromLE32(SubSeq(bytes, 5, 8))) % SIZE_MOD
             THEN Return(SMP_ERROR_BAD_MESSAGE)
             ELSE /\ pc' = "build" /\ buffer' = bytes /\ offset' = MSG_HEADER_SIZE /\ i' = 0
                  /\ fresh' = IF values = Clear(capacity) THEN "yes" ELSE "no"
                  /\ UNCHANGED result
    /\ UNCHANGED <<alloc, capacity, values, coded>>

\* A power of two has no odd divisor but 1.
IsPow2(p) == \A d, k \in 1 .. p : d * k = p => d = 1 \/ d % 2 = 0

\* The smallest power of two that is not below n.
NextPow2(n) == Min({p \in n .. 2 * n : IsPow2(p)})

DecodeInto(vals) ==
    LET d == DecodeValue(SubSeq(buffer, offset + 1, Len(buffer)), vals[i]) IN
    /\ values' = [vals EXCEPT ![i] = d.value]
    /\ \/ d.error < 0 /\ Return(d.error)
       \/ d.error = 0 /\ offset' = offset + d.used /\ i' = i + 1 /\ UNCHANGED <<pc, result, buffer, fresh>>

Grow ==
    LET n == NextPow2(capacity + 1) IN
    \/ ~Overflows(n) /\ capacity' = n /\ DecodeInto(Extended(n))
    \/ GrowWrapped(n)
    \/ Return(SMP_ERROR_NO_MEM) /\ UNCHANGED <<capacity, values>>

\* Mistake: what does not fit is skipped without an end.
TooManySkipped == UNCHANGED <<message, loop, result>>

TooMany == Return(SMP_ERROR_TOO_BIG) /\ UNCHANGED <<capacity, values>>

\* size - offset is unsigned: the loop would not end behind the buffer.  The
\* model stops there, and BuildInBuffer says that it never gets there.
BuildValue ==
    /\ pc = "build" /\ offset < Len(buffer)
    /\ \/ i < capacity /\ DecodeInto(values) /\ UNCHANGED capacity
       \/ i >= capacity /\ alloc = "heap" /\ Grow
       \/ i >= capacity /\ alloc = "static" /\ TooMany
    /\ UNCHANGED <<alloc, msgid, coded>>

BuildEnd ==
    /\ pc = "build" /\ offset = Len(buffer) /\ Return(0)
    /\ UNCHANGED <<message, coded>>

-----------------------------------------------------------------------------
BuildStep == BuildValue \/ BuildEnd

Next ==
    \/ \E id \in Ids : NewWithId(id) \/ SetId(id) \/ \E n \in StaticCapacities : NewFromStatic(n, id)
    \/ Free \/ ClearMessage
    \/ \E list \in Settings : Set(list)
    \/ \E s \in SingleSettings : SetTyped(s.index, s.value)
    \/ \E list \in Requests : Get(list)
    \/ \E r \in SingleRequests : GetTyped(r.index, r.type)
    \/ \E n \in Capacities : SetCapacity(n)
    \/ \E size \in BufferSizes : Encode(size)
    \/ \E bytes \in IF wire = <<>> THEN Buffers ELSE {wire} : Build(bytes)
    \/ BuildStep \/ Stopped

Spec == Init /\ [][Next]_vars

\* A call runs to its end.
FairSpec == Spec /\ WF_vars(BuildStep)

-----------------------------------------------------------------------------
(* Properties *)

\* The loop is done and about to return 0: the message is what it will be.
Built == pc = "build" /\ offset = Len(buffer)

\* What encode writes for the value is the value.
Writable(v) == EncodeValue(v) # <<>>

\* The values of the sender that are on the wire.
Kept == Chosen(source.values, {k \in DOMAIN source.values : Writable(source.values[k])})

(***************************************************************************)
(* A message built from the encoding of another one, into a clear message, *)
(* has its id, and a receiver that asks for the types and the values the   *)
(* sender set, in their order and without the holes, gets them and no      *)
(* more: set, encode, build_from_buffer and get agree.                     *)
(***************************************************************************)
RoundTrip ==
    Built /\ fresh = "yes" /\ buffer = wire =>
        LET asked   == [k \in DOMAIN Kept |-> [index |-> k - 1, type |-> Kept[k].type]]
            further == [index |-> Len(Kept), type |-> TYPE_STRING]
        IN  /\ msgid = source.msgid /\ NArgs = Len(Kept)
            /\ Fetched(asked) = [error |-> 0, data |-> [k \in DOMAIN Kept |-> Kept[k].data]]
            /\ Fetched(Append(asked, further)).error = SMP_ERROR_NOT_FOUND

(***************************************************************************)
(* build_from_buffer accepts what encode wrote: it fails for lack of       *)
(* memory, for an array whose size overflows, or of slots in a static      *)
(* message, and for nothing else.                                          *)
(***************************************************************************)
OwnEncodingAccepted ==
    [][ /\ wire # <<>> /\ Build(wire) => pc' = "build"
        /\ pc = "build" /\ pc' # "build" /\ buffer = wire =>
             \/ ret' = 0
             \/ alloc = "heap" /\ (ret' = SMP_ERROR_NO_MEM \/ Overflows(capacity'))
             \/ /\ alloc = "static" /\ ret' = SMP_ERROR_TOO_BIG
                /\ capacity < Len(Kept) ]_vars

(***************************************************************************)
(* The loop of build_from_buffer never reads past the buffer: the size it  *)
(* takes for a value, recomputed for strings and raw data from the decoded *)
(* value, is one the buffer has, whether the value decoded or not.         *)
(***************************************************************************)
BuildInBuffer == pc = "build" => offset <= Len(buffer)

(***************************************************************************)
(* Built into a clear message, n values are at 0 .. n - 1 and nothing is   *)
(* behind them, however often the array grew on the way.                   *)
(***************************************************************************)
NothingStale ==
    Built /\ fresh = "yes" => NArgs = i /\ \A s \in Slots : s >= i => values[s] = Empty

(***************************************************************************)
(* encode needs exactly the size it asks for, less what it leaves out: the *)
(* two functions that compute the size of a value agree with the one that  *)
(* writes it.                                                              *)
(***************************************************************************)
SizesAgree ==
    Encodable =>
        LET out == [s \in Slots |-> IF Writable(values[s]) THEN 0 ELSE SizeInMessage(values[s])]
        IN  EncodedSize = MSG_HEADER_SIZE + Len(Payload) + Total(out, capacity)

(***************************************************************************)
(* The array never shrinks, and growing keeps every value (set_capacity,   *)
(* and the growth inside build_from_buffer), unless its size overflows:    *)
(* and that size is the only thing that can make growing undefined.        *)
(***************************************************************************)
GrowthKeepsValues ==
    [][ alloc = "heap" /\ alloc' = "heap" /\ capacity' # capacity
            => /\ capacity' > capacity /\ (pc' = "undefined" <=> Overflows(capacity'))
               /\ ~Overflows(capacity') => \A s \in Slots : values'[s] = values[s] ]_vars

\* build_from_buffer ends: every value it takes brings it nearer to the end.
BuildEnds == pc = "build" ~> pc # "build"

(***************************************************************************)
(* A buffer with a bad string is refused (tests/message.c: "a buffer with  *)
(* a bad string size should fail"): no string of a message built is NULL.  *)
(***************************************************************************)
BadStringRefused ==
    Built /\ fresh = "yes" => \A s \in Slots : values[s].type = TYPE_STRING => values[s].data # Null

(***************************************************************************)
(* encode writes every value of the message or returns an error.           *)
(***************************************************************************)
EveryValueEncoded == wire # <<>> => \A k \in DOMAIN source.values : Writable(source.values[k])

=============================================================================
