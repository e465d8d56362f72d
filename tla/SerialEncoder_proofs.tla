------------------------ MODULE SerialEncoder_proofs ------------------------
(***************************************************************************)
(* For every payload and every size of the caller's buffer: the encoder,   *)
(* which checks no write, stays within the room it computed, and refuses   *)
(* only buffers that are no larger than the frame.                         *)
(***************************************************************************)
EXTENDS SerialEncoder, FiniteSetTheorems, TLAPS

\* The first k bytes of the payload that need an escape.
Escaped(bytes, k) == {j \in 1 .. k : IsMagicByte(bytes[j])}

\* What was written is a byte for each byte and each escape so far.
Written ==
    /\ pc = "start" => offset = 0 /\ i = 0
    /\ pc = "payload" => offset = 1 + i + Cardinality(Escaped(inbuf, i))
    /\ pc = "end" => offset < ComputePayloadSize(inbuf)

RoomInv ==
    /\ TypeOK /\ Written
    /\ IF pc = "idle" THEN WithinRoom /\ RefusalIsTight ELSE ComputePayloadSize(inbuf) <= room

-----------------------------------------------------------------------------
\* The bytes to be escaped are counted one by one, and are never more than all.
LEMMA EscapedIsCounted ==
    ASSUME NEW bytes \in Seq(Byte)
    PROVE  /\ MagicBytesIn(bytes) \in Nat
           /\ MagicBytesIn(bytes) = Cardinality(Escaped(bytes, Len(bytes)))
           /\ Escaped(bytes, 0) = {} /\ Cardinality({}) = 0
           /\ \A k \in 0 .. Len(bytes) : IsFiniteSet(Escaped(bytes, k))
                                         /\ Cardinality(Escaped(bytes, k)) \in Nat
                                         /\ Cardinality(Escaped(bytes, k)) <= MagicBytesIn(bytes)
           /\ \A k \in 0 .. Len(bytes) - 1 :
                Cardinality(Escaped(bytes, k + 1)) =
                    Cardinality(Escaped(bytes, k)) + (IF IsMagicByte(bytes[k + 1]) THEN 1 ELSE 0)
  <1>1. /\ DOMAIN bytes = 1 .. Len(bytes) /\ Len(bytes) \in Nat
        /\ {j \in DOMAIN bytes : IsMagicByte(bytes[j])} = Escaped(bytes, Len(bytes))
    BY DEF Escaped
  <1>2. ASSUME NEW k \in 0 .. Len(bytes) PROVE IsFiniteSet(Escaped(bytes, k))
    <2>1. Escaped(bytes, k) \in SUBSET (1 .. k) /\ k \in Int
      BY <1>1 DEF Escaped
    <2>2. IsFiniteSet(1 .. k)
      BY <2>1, FS_Interval
    <2> QED
      BY <2>1, <2>2, FS_Subset
  <1>3. \A k \in 0 .. Len(bytes) :
            /\ Escaped(bytes, k) \subseteq Escaped(bytes, Len(bytes))
            /\ Cardinality(Escaped(bytes, k)) <= Cardinality(Escaped(bytes, Len(bytes)))
    BY <1>1, <1>2, FS_Subset DEF Escaped
  <1>4. ASSUME NEW k \in 0 .. Len(bytes) - 1
        PROVE  Cardinality(Escaped(bytes, k + 1)) =
                    Cardinality(Escaped(bytes, k)) + (IF IsMagicByte(bytes[k + 1]) THEN 1 ELSE 0)
    <2>1. k + 1 \notin Escaped(bytes, k) /\ IsFiniteSet(Escaped(bytes, k))
      BY <1>1, <1>2 DEF Escaped
    <2>2. CASE IsMagicByte(bytes[k + 1])
      <3>1. Escaped(bytes, k + 1) = Escaped(bytes, k) \cup {k + 1}
        BY <1>1, <2>2 DEF Escaped
      <3> QED
        BY <2>1, <2>2, <3>1, FS_AddElement
    <2>3. CASE ~IsMagicByte(bytes[k + 1])
      <3>1. Escaped(bytes, k + 1) = Escaped(bytes, k)
        BY <1>1, <2>3 DEF Escaped
      <3>2. Cardinality(Escaped(bytes, k)) \in Nat
        BY <2>1, FS_CardinalityType
      <3> QED
        BY <2>3, <3>1, <3>2
    <2> QED
      BY <2>2, <2>3
  <1>5. Escaped(bytes, 0) = {} /\ Cardinality({}) = 0
    BY FS_EmptySet DEF Escaped
  <1>6. \A k \in 0 .. Len(bytes) : Cardinality(Escaped(bytes, k)) \in Nat
    BY <1>2, FS_CardinalityType
  <1>7. MagicBytesIn(bytes) = Cardinality(Escaped(bytes, Len(bytes)))
    BY <1>1 DEF MagicBytesIn
  <1> QED
    BY <1>1, <1>2, <1>3, <1>4, <1>5, <1>6, <1>7

\* The checksum adds at most its own escape.
LEMMA BodyHasAllEscapes ==
    ASSUME NEW bytes \in Seq(Byte)
    PROVE  MagicBytesIn(Body(bytes)) \in Nat /\ MagicBytesIn(bytes) <= MagicBytesIn(Body(bytes))
  <1> DEFINE body == Body(bytes)
  <1>1. ComputeChecksum(bytes) \in Byte
    BY DEF ComputeChecksum, Byte
  <1>2. body \in Seq(Byte) /\ Len(body) = Len(bytes) + 1 /\ Len(bytes) \in Nat
        /\ \A j \in 1 .. Len(bytes) : body[j] = bytes[j]
    BY <1>1 DEF Body
  <1>3. Escaped(bytes, Len(bytes)) = Escaped(body, Len(bytes))
    BY <1>2 DEF Escaped
  <1>4. Cardinality(Escaped(body, Len(bytes))) <= MagicBytesIn(body)
    BY <1>2, EscapedIsCounted
  <1> QED
    BY <1>2, <1>3, <1>4, EscapedIsCounted

\* A byte takes one byte of the frame, and one more with an escape.
LEMMA WrittenSize ==
    ASSUME NEW byte \in Byte, NEW out \in Seq(Byte)
    PROVE  /\ out \o WriteByte(byte) \in Seq(Byte)
           /\ Len(out \o WriteByte(byte)) = Len(out) + 1 + (IF IsMagicByte(byte) THEN 1 ELSE 0)
  <1>1. CASE IsMagicByte(byte)
    <2>1. WriteByte(byte) = <<ESC_BYTE, byte>> /\ <<ESC_BYTE, byte>> \in Seq(Byte)
          /\ Len(<<ESC_BYTE, byte>>) = 2
      BY <1>1, MagicBytesAssumption DEF WriteByte
    <2> QED
      BY <1>1, <2>1
  <1>2. CASE ~IsMagicByte(byte)
    <2>1. WriteByte(byte) = <<byte>> /\ <<byte>> \in Seq(Byte) /\ Len(<<byte>>) = 1
      BY <1>2 DEF WriteByte
    <2> QED
      BY <1>2, <2>1
  <1> QED
    BY <1>1, <1>2

\* The size asked for counts every byte, and its escapes.
LEMMA SizeIsNat ==
    ASSUME NEW bytes \in Seq(Byte)
    PROVE  /\ ComputePayloadSize(bytes) \in Nat /\ ComputeChecksum(bytes) \in Byte
           /\ ComputePayloadSize(bytes) = Len(bytes) + 4 + MagicBytesIn(bytes)
           /\ MagicBytesIn(bytes) \in Nat /\ Len(bytes) \in Nat
  <1>1. ComputeChecksum(bytes) \in Byte
    BY DEF ComputeChecksum, Byte
  <1> QED
    BY <1>1, EscapedIsCounted DEF ComputePayloadSize

-----------------------------------------------------------------------------
(* The room is enough *)

\* Nothing is written at the start.
LEMMA RoomInit == Init => RoomInv
  BY DEF Init, RoomInv, TypeOK, Written, WithinRoom, RefusalIsTight, offset, SMP_ERROR_OVERFLOW

\* The room computed, or refused, before anything is written.
LEMMA RoomEncode ==
    ASSUME RoomInv, NEW payload \in Payloads, NEW outsize \in OutSizes, Encode(payload, outsize)
    PROVE  RoomInv'
  <1>1. payload \in Seq(Byte) /\ outsize \in Nat
    BY EncoderAssumption
  <1>2. /\ ComputePayloadSize(payload) \in Nat /\ Len(payload) \in Nat
        /\ ComputePayloadSize(payload) <= Len(payload) + MagicBytesIn(Body(payload)) + 4
        /\ MagicBytesIn(Body(payload)) \in Nat
    BY <1>1, SizeIsNat, BodyHasAllEscapes
  <1>3. ASSUME NEW size \in Nat, Begin(payload, size), ComputePayloadSize(payload) <= size
        PROVE  RoomInv'
    BY <1>1, <1>2, <1>3 DEF Begin, RoomInv, TypeOK, Written, offset
  <1>4. ASSUME NEW error \in {SMP_ERROR_NO_MEM, SMP_ERROR_OVERFLOW}, Fail(payload, outsize, error),
               error = SMP_ERROR_OVERFLOW => outsize < ComputePayloadSize(payload)
        PROVE  RoomInv'
    <2>1. pc = "idle"
      BY DEF Encode
    <2>2. TypeOK' /\ Written' /\ WithinRoom' /\ pc' = "idle"
      BY <1>1, <1>2, <1>4, <2>1
      DEF Fail, RoomInv, TypeOK, Written, WithinRoom, offset, SMP_ERROR_NO_MEM, SMP_ERROR_OVERFLOW
    <2>3. RefusalIsTight'
      BY <1>1, <1>2, <1>4, <2>1 DEF Fail, RefusalIsTight
    <2> QED
      BY <2>2, <2>3 DEF RoomInv
  <1> QED
    BY <1>1, <1>2, <1>3, <1>4 DEF Encode, SMP_ERROR_NO_MEM, SMP_ERROR_OVERFLOW

\* A byte of the frame at a time.
LEMMA RoomWrite ==
    ASSUME RoomInv, WriteStart \/ WritePayloadByte \/ WriteChecksum \/ WriteEnd
    PROVE  RoomInv'
  <1> USE DEF RoomInv, TypeOK, Written
  <1>0. /\ inbuf \in Seq(Byte) /\ i \in 0 .. Len(inbuf) /\ txbuf \in Seq(Byte) /\ room \in Nat
        /\ ComputePayloadSize(inbuf) = Len(inbuf) + 4 + MagicBytesIn(inbuf)
        /\ ComputePayloadSize(inbuf) \in Nat /\ MagicBytesIn(inbuf) \in Nat /\ Len(inbuf) \in Nat
        /\ ComputeChecksum(inbuf) \in Byte /\ START_BYTE \in Byte /\ END_BYTE \in Byte
    BY SizeIsNat, MagicBytesAssumption
  <1>1. CASE WriteStart
    <2>1. Len(txbuf') = 1 /\ txbuf' \in Seq(Byte)
      BY <1>0, <1>1 DEF WriteStart, offset
    <2>2. Cardinality(Escaped(inbuf, 0)) = 0
      BY <1>0, EscapedIsCounted
    <2> QED
      BY <1>0, <1>1, <2>1, <2>2 DEF WriteStart, offset
  <1>2. CASE WritePayloadByte
    <2>1. inbuf[i + 1] \in Byte /\ i \in 0 .. Len(inbuf) - 1
      BY <1>0, <1>2 DEF WritePayloadByte
    <2>2. /\ txbuf' \in Seq(Byte)
          /\ Len(txbuf') = Len(txbuf) + 1 + (IF IsMagicByte(inbuf[i + 1]) THEN 1 ELSE 0)
      BY <1>0, <1>2, <2>1, WrittenSize DEF WritePayloadByte
    <2>3. /\ Cardinality(Escaped(inbuf, i + 1)) =
                Cardinality(Escaped(inbuf, i)) + (IF IsMagicByte(inbuf[i + 1]) THEN 1 ELSE 0)
          /\ Cardinality(Escaped(inbuf, i)) \in Nat
      BY <1>0, <2>1, EscapedIsCounted
    <2>4. Len(txbuf) = 1 + i + Cardinality(Escaped(inbuf, i)) /\ i \in Nat
      BY <1>0, <1>2 DEF WritePayloadByte, offset
    <2>5. Len(txbuf') = 1 + (i + 1) + Cardinality(Escaped(inbuf, i + 1))
      BY <2>2, <2>3, <2>4
    <2> QED
      BY <1>0, <1>2, <2>1, <2>2, <2>5 DEF WritePayloadByte, offset
  <1>3. CASE WriteChecksum
    <2> DEFINE written == txbuf \o WriteByte(ComputeChecksum(inbuf))
    <2>0. /\ written \in Seq(Byte) /\ Len(txbuf) \in Nat
          /\ Len(written) = Len(txbuf) + 1 + (IF IsMagicByte(ComputeChecksum(inbuf)) THEN 1 ELSE 0)
      BY <1>0, WrittenSize
    <2>1. txbuf' \in Seq(Byte) /\ Len(txbuf) \in Nat /\ Len(txbuf') <= Len(txbuf) + 2
      BY <1>3, <2>0 DEF WriteChecksum
    <2>2. i = Len(inbuf) /\ Cardinality(Escaped(inbuf, i)) = MagicBytesIn(inbuf)
      BY <1>0, <1>3, EscapedIsCounted DEF WriteChecksum
    <2>3. Len(txbuf') < ComputePayloadSize(inbuf)
      BY <1>0, <1>3, <2>1, <2>2 DEF WriteChecksum, offset
    <2> QED
      BY <1>0, <1>3, <2>1, <2>3 DEF WriteChecksum, offset
  <1>4. CASE WriteEnd
    <2>1. txbuf' \in Seq(Byte) /\ Len(txbuf') = Len(txbuf) + 1 /\ Len(txbuf) \in Nat
      BY <1>0, <1>4 DEF WriteEnd
    <2>2. Len(txbuf') <= room /\ result' # SMP_ERROR_OVERFLOW /\ result' \in Int
      BY <1>0, <1>4, <2>1 DEF WriteEnd, offset, SMP_ERROR_OVERFLOW
    <2> QED
      BY <1>0, <1>4, <2>1, <2>2 DEF WriteEnd, WithinRoom, RefusalIsTight, offset
  <1> QED
    BY <1>1, <1>2, <1>3, <1>4

\* Every step of the encoder.
LEMMA RoomStep == RoomInv /\ [Next]_vars => RoomInv'
  <1> SUFFICES ASSUME RoomInv, [Next]_vars PROVE RoomInv'
    OBVIOUS
  <1>1. CASE UNCHANGED vars
    BY <1>1 DEF vars, RoomInv, TypeOK, Written, WithinRoom, RefusalIsTight, offset
  <1> QED
    BY <1>1, RoomEncode, RoomWrite DEF Next

(***************************************************************************)
(* smp_serial_protocol_encode never writes behind the memory it allocated  *)
(* or was given, whatever the payload.                                     *)
(***************************************************************************)
THEOREM RoomSuffices == Spec => []WithinRoom
  <1>1. RoomInv => WithinRoom
    <2> SUFFICES ASSUME RoomInv, pc # "idle" PROVE WithinRoom
      BY DEF RoomInv
    <2>1. /\ inbuf \in Seq(Byte) /\ i \in 0 .. Len(inbuf) /\ Len(txbuf) \in Nat /\ room \in Nat
          /\ ComputePayloadSize(inbuf) = Len(inbuf) + 4 + MagicBytesIn(inbuf)
          /\ MagicBytesIn(inbuf) \in Nat /\ Len(inbuf) \in Nat
          /\ Cardinality(Escaped(inbuf, i)) <= MagicBytesIn(inbuf)
          /\ Cardinality(Escaped(inbuf, i)) \in Nat
      BY SizeIsNat, EscapedIsCounted DEF RoomInv, TypeOK
    <2> QED
      BY <2>1 DEF RoomInv, TypeOK, Written, WithinRoom, offset
  <1> QED
    BY <1>1, RoomInit, RoomStep, PTL DEF Spec

(***************************************************************************)
(* A caller's buffer that smp_serial_protocol_encode refuses is no larger  *)
(* than the frame it was for.                                              *)
(***************************************************************************)
THEOREM RefusalsAreTight == Spec => []RefusalIsTight
  <1>1. RoomInv => RefusalIsTight
    BY DEF RoomInv, RefusalIsTight
  <1> QED
    BY <1>1, RoomInit, RoomStep, PTL DEF Spec

-----------------------------------------------------------------------------
(* The frame can be told from its content *)

Run(f, k) == {n \in 0 .. k - 1 : \A m \in (k - n) .. (k - 1) : f[m] = ESC_BYTE}

\* As many elements as the function has arguments, when it is one to one.
LEMMA ImageSize ==
    ASSUME NEW S, IsFiniteSet(S), NEW T, NEW f \in [S -> T],
           \A x, y \in S : f[x] = f[y] => x = y,
           \A t \in T : \E x \in S : f[x] = t
    PROVE  IsFiniteSet(T) /\ Cardinality(T) = Cardinality(S)
  <1>1. f \in Bijection(S, T)
    BY DEF Bijection, Injection, Surjection, IsInjective
  <1> QED
    BY <1>1, FS_Bijection DEF ExistsBijection

\* The definition of Bare, with its set named.
LEMMA BareIsOdd == ASSUME NEW f, NEW k PROVE Bare(f, k) <=> Cardinality(Run(f, k)) % 2 = 1
  BY DEF Bare, Run

\* The first byte of a sequence is bare.
LEMMA BareFirst == ASSUME NEW f PROVE Bare(f, 1)
  <1>1. Run(f, 1) = {0}
    BY DEF Run
  <1>2. Cardinality({0}) = 1 /\ 1 % 2 = 1
    BY FS_Singleton
  <1> QED
    BY <1>1, <1>2, BareIsOdd

\* A byte is bare unless the byte before it is a bare escape.
LEMMA BareNext ==
    ASSUME NEW f, NEW k \in Nat \ {0}
    PROVE  Bare(f, k + 1) <=> (f[k] = ESC_BYTE => ~Bare(f, k))
  <1>1. CASE f[k] # ESC_BYTE
    <2>1. Run(f, k + 1) = {0}
      <3>1. ASSUME NEW n \in 0 .. k, n # 0 PROVE n \notin Run(f, k + 1)
        <4>1. k \in (k + 1 - n) .. (k + 1 - 1)
          BY <3>1
        <4> QED
          BY <1>1, <4>1 DEF Run
      <3>2. 0 \in Run(f, k + 1) /\ Run(f, k + 1) \subseteq 0 .. k
        BY DEF Run
      <3> QED
        BY <3>1, <3>2
    <2>2. Cardinality({0}) = 1 /\ 1 % 2 = 1
      BY FS_Singleton
    <2> QED
      BY <1>1, <2>1, <2>2, BareIsOdd
  <1>2. CASE f[k] = ESC_BYTE
    <2> DEFINE S == Run(f, k)
               T == Run(f, k + 1) \ {0}
               shift == [n \in S |-> n + 1]
    <2>1. S \in SUBSET (0 .. k - 1) /\ k - 1 \in Int
      BY DEF Run
    <2>2. IsFiniteSet(0 .. k - 1)
      BY <2>1, FS_Interval
    <2>3. IsFiniteSet(S) /\ Cardinality(S) \in Nat
      BY <2>1, <2>2, FS_Subset, FS_CardinalityType
    <2>4. ASSUME NEW n \in 1 .. k PROVE n \in Run(f, k + 1) <=> n - 1 \in S
      <3>1. \A m \in Int : m \in (k + 1 - n) .. (k + 1 - 1)
                           <=> m \in (k - (n - 1)) .. (k - 1) \/ m = k
        OBVIOUS
      <3>2. (\A m \in (k + 1 - n) .. (k + 1 - 1) : f[m] = ESC_BYTE)
              <=> (\A m \in (k - (n - 1)) .. (k - 1) : f[m] = ESC_BYTE)
        BY <1>2, <3>1
      <3> QED
        BY <3>2 DEF Run
    <2>5. 0 \in Run(f, k + 1) /\ T \subseteq 1 .. k
      BY DEF Run
    <2>6. IsFiniteSet(T) /\ Cardinality(T) = Cardinality(S)
      <3> HIDE DEF S, T
      <3>1. \A n \in 1 .. k : n \in T <=> n - 1 \in S
        BY <2>4 DEF T
      <3>2. \A n \in S : n + 1 \in T
        BY <2>1, <3>1
      <3>3. \A n \in T : n - 1 \in S
        BY <2>5, <3>1
      <3>4. shift \in [S -> T] /\ \A n \in T : shift[n - 1] = n
        BY <2>1, <2>5, <3>2, <3>3
      <3>5. \A x, y \in S : shift[x] = shift[y] => x = y
        BY <2>1
      <3>6. \A n \in T : \E x \in S : shift[x] = n
        BY <3>3, <3>4
      <3> HIDE DEF shift
      <3> QED
        BY <2>3, <3>4, <3>5, <3>6, ImageSize
    <2>7. Cardinality(Run(f, k + 1)) = Cardinality(S) + 1
      <3>1. Run(f, k + 1) = T \cup {0} /\ 0 \notin T
        BY <2>5
      <3> QED
        BY <2>6, <3>1, FS_AddElement
    <2>8. \A c \in Nat : (c + 1) % 2 = 1 <=> c % 2 # 1
      OBVIOUS
    <2> QED
      BY <1>2, <2>3, <2>7, <2>8, BareIsOdd
  <1> QED
    BY <1>1, <1>2

\* Whether a byte is bare depends on what comes before it only.
LEMMA BareSame ==
    ASSUME NEW f, NEW g, NEW k \in Nat \ {0}, \A m \in 1 .. k - 1 : f[m] = g[m]
    PROVE  Bare(f, k) <=> Bare(g, k)
  <1>1. \A n \in 0 .. k - 1 : (k - n) .. (k - 1) \subseteq 1 .. k - 1
    OBVIOUS
  <1>2. Run(f, k) = Run(g, k)
    BY <1>1 DEF Run
  <1> QED
    BY <1>2, BareIsOdd

\* The first n bytes of the body are at the positions pos of what is written, bare
\* unless they are magic, and everything between them is a bare escape.
At(out, body, n, pos) ==
    /\ \A j \in 1 .. n : /\ out[pos[j]] = body[j]
                         /\ Bare(out, pos[j]) <=> ~IsMagicByte(body[j])
    /\ \A j, l \in 1 .. n : j < l => pos[j] < pos[l]
    /\ \A k \in 2 .. Len(out) :
         (\A j \in 1 .. n : pos[j] # k) => out[k] = ESC_BYTE /\ Bare(out, k)

Laid(out, body, n) ==
    /\ Len(out) >= 1 /\ out[1] = START_BYTE
    /\ Bare(out, Len(out) + 1)
    /\ \E pos \in [1 .. n -> 2 .. Len(out)] : At(out, body, n, pos)

\* Behind the start byte.
LEMMA LaidStart == ASSUME NEW body PROVE Laid(<<START_BYTE>>, body, 0)
  <1> DEFINE out == <<START_BYTE>>
             pos == [j \in 1 .. 0 |-> 2]
  <1>1. Len(out) = 1 /\ out[1] = START_BYTE
    OBVIOUS
  <1>2. pos \in [1 .. 0 -> 2 .. Len(out)]
    OBVIOUS
  <1> HIDE DEF out, pos
  <1>3. 1 \in Nat \ {0} /\ Len(out) + 1 = 1 + 1
    BY <1>1
  <1>4. Bare(out, 1 + 1)
    BY <1>1, <1>3, BareNext, MagicBytesAssumption, Zenon
  <1>5. Bare(out, Len(out) + 1)
    BY <1>3, <1>4, Zenon
  <1>6. At(out, body, 0, pos)
    BY <1>1 DEF At
  <1>7. Len(out) >= 1
    BY <1>1
  <1>8. Laid(out, body, 0)
    BY <1>1, <1>2, <1>5, <1>6, <1>7, Zenon DEF Laid
  <1> QED
    BY <1>8 DEF out

\* A byte of the body, with its escape or without one, behind what is written.
Extends(new, out, b) ==
    /\ Len(new) = Len(out) + (IF IsMagicByte(b) THEN 2 ELSE 1)
    /\ \A k \in 1 .. Len(out) : new[k] = out[k]
    /\ new[Len(new)] = b
    /\ IsMagicByte(b) => new[Len(out) + 1] = ESC_BYTE

\* That is what the encoder writes for it.
LEMMA WriteExtends ==
    ASSUME NEW out \in Seq(Byte), NEW b \in Byte
    PROVE  Extends(out \o WriteByte(b), out, b)
  <1>1. CASE IsMagicByte(b)
    <2>1. WriteByte(b) = <<ESC_BYTE, b>> /\ <<ESC_BYTE, b>> \in Seq(Byte)
      BY <1>1, MagicBytesAssumption DEF WriteByte
    <2> QED
      BY <1>1, <2>1 DEF Extends
  <1>2. CASE ~IsMagicByte(b)
    <2>1. WriteByte(b) = <<b>> /\ <<b>> \in Seq(Byte)
      BY <1>2 DEF WriteByte
    <2> QED
      BY <1>2, <2>1 DEF Extends
  <1> QED
    BY <1>1, <1>2

\* It is bare unless it is magic, and what comes next is bare.
LEMMA ExtensionBare ==
    ASSUME NEW new, NEW out, NEW b, Len(out) \in Nat, Extends(new, out, b), Bare(out, Len(out) + 1)
    PROVE  /\ \A k \in 1 .. Len(out) + 1 : Bare(new, k) <=> Bare(out, k)
           /\ Bare(new, Len(new)) <=> ~IsMagicByte(b)
           /\ Bare(new, Len(new) + 1)
  <1>1. \A k \in 1 .. Len(out) + 1 : Bare(new, k) <=> Bare(out, k)
    BY BareSame DEF Extends
  <1>2. Bare(new, Len(out) + 1)
    BY <1>1
  <1>3. Len(out) + 1 \in Nat \ {0} /\ Len(new) \in Nat \ {0}
    BY DEF Extends
  <1>4. /\ Bare(new, Len(out) + 1 + 1) <=> (new[Len(out) + 1] = ESC_BYTE => ~Bare(new, Len(out) + 1))
        /\ Bare(new, Len(new) + 1) <=> (new[Len(new)] = ESC_BYTE => ~Bare(new, Len(new)))
    BY <1>3, BareNext, Zenon
  <1>5. CASE IsMagicByte(b)
    <2>1. Len(new) = Len(out) + 1 + 1 /\ new[Len(out) + 1] = ESC_BYTE
      BY <1>5 DEF Extends
    <2>2. ~Bare(new, Len(new))
      BY <1>2, <1>4, <2>1, Zenon
    <2> QED
      BY <1>1, <1>4, <1>5, <2>2, Zenon
  <1>6. CASE ~IsMagicByte(b)
    <2>1. Len(new) = Len(out) + 1 /\ new[Len(new)] # ESC_BYTE
      BY <1>6 DEF Extends, IsMagicByte
    <2> QED
      BY <1>1, <1>2, <1>4, <1>6, <2>1, Zenon
  <1> QED
    BY <1>5, <1>6

\* Behind one more byte of the body, escaped or not.
LEMMA LaidNext ==
    ASSUME NEW out \in Seq(Byte), NEW new \in Seq(Byte), NEW body, NEW n \in Nat,
           Extends(new, out, body[n + 1]), Laid(out, body, n)
    PROVE  Laid(new, body, n + 1)
  <1> DEFINE L == Len(out)
             M == Len(new)
  <1>1. PICK pos \in [1 .. n -> 2 .. L] : At(out, body, n, pos)
    BY DEF Laid
  <1>2. /\ L \in Nat /\ L >= 1 /\ out[1] = START_BYTE /\ Bare(out, L + 1)
        /\ M \in Nat /\ M \in {L + 1, L + 2} /\ new[1] = START_BYTE
        /\ \A k \in 1 .. L : new[k] = out[k]
        /\ new[M] = body[n + 1]
        /\ M = L + 2 => new[L + 1] = ESC_BYTE
    BY DEF Laid, Extends
  <1>3. /\ \A k \in 1 .. L + 1 : Bare(new, k) <=> Bare(out, k)
        /\ Bare(new, M) <=> ~IsMagicByte(body[n + 1])
        /\ Bare(new, M + 1)
    BY <1>2, ExtensionBare
  <1>4. /\ \A j \in 1 .. n : /\ pos[j] \in 2 .. L /\ out[pos[j]] = body[j]
                             /\ Bare(out, pos[j]) <=> ~IsMagicByte(body[j])
        /\ \A j, l \in 1 .. n : j < l => pos[j] < pos[l]
        /\ \A k \in 2 .. L : (\A j \in 1 .. n : pos[j] # k) => out[k] = ESC_BYTE /\ Bare(out, k)
    BY <1>1 DEF At
  <1> DEFINE pos2 == [j \in 1 .. n + 1 |-> IF j <= n THEN pos[j] ELSE M]
  <1> HIDE DEF L, M
  <1>5. /\ \A j \in 1 .. n : pos2[j] = pos[j]
        /\ pos2[n + 1] = M
        /\ pos2 \in [1 .. n + 1 -> 2 .. M]
    BY <1>2, <1>4
  <1> HIDE DEF pos2
  <1>6. ASSUME NEW j \in 1 .. n + 1
        PROVE  new[pos2[j]] = body[j] /\ (Bare(new, pos2[j]) <=> ~IsMagicByte(body[j]))
    <2>1. CASE j \in 1 .. n
      <3>1. pos2[j] \in 1 .. L /\ pos2[j] \in 1 .. L + 1
        BY <1>2, <1>4, <1>5, <2>1
      <3> QED
        <4>1. pos2[j] = pos[j]
          BY <1>5, <2>1
        <4>2. out[pos[j]] = body[j] /\ (Bare(out, pos[j]) <=> ~IsMagicByte(body[j]))
          BY <1>4, <2>1, Zenon
        <4>3. new[pos2[j]] = out[pos2[j]] /\ (Bare(new, pos2[j]) <=> Bare(out, pos2[j]))
          BY <1>2, <1>3, <3>1, Zenon
        <4> QED
          BY <4>1, <4>2, <4>3, Zenon
    <2>2. CASE j = n + 1
      BY <1>2, <1>3, <1>5, <2>2, Zenon
    <2> QED
      BY <2>1, <2>2
  <1>7. ASSUME NEW j \in 1 .. n + 1, NEW l \in 1 .. n + 1, j < l PROVE pos2[j] < pos2[l]
    <2>1. j \in 1 .. n /\ pos2[j] = pos[j] /\ pos[j] \in 2 .. L
      BY <1>4, <1>5, <1>7
    <2>2. CASE l \in 1 .. n
      <3>1. pos2[l] = pos[l] /\ pos[j] < pos[l]
        BY <1>4, <1>5, <1>7, <2>1, <2>2
      <3> QED
        BY <2>1, <3>1
    <2>3. CASE l = n + 1
      BY <1>2, <1>5, <2>1, <2>3
    <2> QED
      BY <2>2, <2>3
  <1>8. ASSUME NEW k \in 2 .. M, \A j \in 1 .. n + 1 : pos2[j] # k
        PROVE  new[k] = ESC_BYTE /\ Bare(new, k)
    <2>1. k # M /\ \A j \in 1 .. n : pos[j] # k
      BY <1>5, <1>8
    <2>2. CASE k \in 2 .. L
      <3>1. k \in 1 .. L /\ k \in 1 .. L + 1
        BY <1>2, <2>2
      <3> QED
        BY <1>2, <1>3, <1>4, <2>1, <2>2, <3>1, Zenon
    <2>3. CASE k = L + 1 /\ M = L + 2
      <3>1. L + 1 \in 1 .. L + 1
        BY <1>2
      <3> QED
        BY <1>2, <1>3, <2>3, <3>1, Zenon
    <2> QED
      BY <1>2, <2>1, <2>2, <2>3
  <1>9. At(new, body, n + 1, pos2)
    BY <1>6, <1>7, <1>8, Zenon DEF At, M
  <1>10. M >= 1
    BY <1>2
  <1> QED
    BY <1>2, <1>3, <1>5, <1>9, <1>10, Zenon DEF Laid, M

\* With the end byte behind the whole body, it is a frame that can be told from it.
LEMMA LaidIsTransparent ==
    ASSUME NEW out \in Seq(Byte), NEW body \in Seq(Byte), Laid(out, body, Len(body))
    PROVE  Transparent(Append(out, END_BYTE), body)
  <1> DEFINE f == Append(out, END_BYTE)
             L == Len(out)
             N == Len(body)
             bare == {k \in DOMAIN f : Bare(f, k)}
             data == {k \in DOMAIN f : ~(k \in bare /\ IsMagicByte(f[k]))}
  <1>1. PICK pos \in [1 .. N -> 2 .. L] : At(out, body, N, pos)
    BY DEF Laid
  <1>2. /\ L \in Nat /\ N \in Nat /\ DOMAIN f = 1 .. L + 1 /\ Len(f) = L + 1
        /\ \A k \in 1 .. L : f[k] = out[k]
        /\ f[L + 1] = END_BYTE /\ f[1] = START_BYTE /\ L >= 1 /\ Bare(out, L + 1)
    BY MagicBytesAssumption DEF Laid
  <1>3. \A j \in 1 .. N : /\ pos[j] \in 2 .. L /\ out[pos[j]] = body[j]
                          /\ Bare(out, pos[j]) <=> ~IsMagicByte(body[j])
    BY <1>1 DEF At
  <1>4. \A j, l \in 1 .. N : j < l => pos[j] < pos[l]
    BY <1>1 DEF At
  <1>5. \A k \in 2 .. L : (\A j \in 1 .. N : pos[j] # k) => out[k] = ESC_BYTE /\ Bare(out, k)
    BY <1>1 DEF At
  <1> HIDE DEF f, L, N
  <1>6. \A k \in 1 .. L + 1 : Bare(f, k) <=> Bare(out, k)
    BY <1>2, BareSame
  <1>7. Bare(f, 1) /\ Bare(f, L + 1)
    <2>1. L + 1 \in 1 .. L + 1
      BY <1>2
    <2> QED
      BY <1>2, <1>6, <2>1, BareFirst, Zenon
  <1>8. ASSUME NEW j \in 1 .. N
        PROVE  /\ pos[j] \in 2 .. L /\ pos[j] \in data /\ f[pos[j]] = body[j]
               /\ pos[j] \in bare => ~IsMagicByte(f[pos[j]])
    <2>1. pos[j] \in 1 .. L /\ pos[j] \in 1 .. L + 1
      BY <1>2, <1>3
    <2>2. /\ f[pos[j]] = out[pos[j]] /\ (Bare(f, pos[j]) <=> Bare(out, pos[j]))
          /\ out[pos[j]] = body[j] /\ (Bare(out, pos[j]) <=> ~IsMagicByte(body[j]))
          /\ pos[j] \in 2 .. L
      BY <1>2, <1>3, <1>6, <2>1, Zenon
    <2>3. (Bare(f, pos[j]) <=> ~IsMagicByte(f[pos[j]])) /\ f[pos[j]] = body[j]
      BY <2>2, Zenon
    <2> QED
      BY <1>2, <2>1, <2>2, <2>3, Zenon
  <1>9. ASSUME NEW k \in 2 .. L, \A j \in 1 .. N : pos[j] # k
        PROVE  f[k] = ESC_BYTE /\ k \in bare /\ k \notin data
    <2>1. k \in 1 .. L /\ k \in 1 .. L + 1
      BY <1>2
    <2>2. f[k] = ESC_BYTE /\ Bare(f, k)
      BY <1>2, <1>5, <1>6, <1>9, <2>1, Zenon
    <2>3. IsMagicByte(f[k])
      BY <2>2 DEF IsMagicByte
    <2> QED
      BY <1>2, <2>1, <2>2, <2>3, Zenon
  <1>10. 1 \in bare /\ L + 1 \in bare /\ 1 \notin data /\ L + 1 \notin data
    <2>1. 1 \in 1 .. L + 1 /\ L + 1 \in 1 .. L + 1
      BY <1>2
    <2>2. IsMagicByte(f[1]) /\ IsMagicByte(f[L + 1])
      BY <1>2 DEF IsMagicByte
    <2> QED
      BY <1>2, <1>7, <2>1, <2>2, Zenon
  <1>11. bare \subseteq 1 .. L + 1 /\ data \subseteq 1 .. L + 1
    BY <1>2
  <1> HIDE DEF bare, data
  <1>12. ASSUME NEW k \in bare, IsMagicByte(f[k])
         PROVE  k = 1 \/ k = L + 1 \/ f[k] = ESC_BYTE
    <2>1. CASE k \in 2 .. L
      BY <1>8, <1>9, <1>12, <2>1
    <2> QED
      BY <1>2, <1>11, <2>1
  <1>13. {k \in bare : f[k] = START_BYTE} = {1}
    <2>1. \A k \in bare : f[k] = START_BYTE => k = 1
      BY <1>2, <1>12, MagicBytesAssumption DEF IsMagicByte
    <2> QED
      BY <1>2, <1>10, <2>1
  <1>14. {k \in bare : f[k] = END_BYTE} = {Len(f)}
    <2>1. \A k \in bare : f[k] = END_BYTE => k = L + 1
      BY <1>2, <1>12, MagicBytesAssumption DEF IsMagicByte
    <2> QED
      BY <1>2, <1>10, <2>1
  <1>15. \A k \in data : \E j \in 1 .. N : k = pos[j]
    <2> SUFFICES ASSUME NEW k \in data, \A j \in 1 .. N : pos[j] # k PROVE FALSE
      BY Zenon
    <2>1. k \in 2 .. L \/ k = 1 \/ k = L + 1
      BY <1>2, <1>11
    <2> QED
      BY <1>9, <1>10, <2>1
  <1>16. \A j, l \in 1 .. N : pos[j] <= pos[l] => j <= l
    BY <1>3, <1>4
  <1>17. ASSUME NEW j \in 0 .. N, NEW S, S \subseteq data,
                \A l \in 1 .. N : pos[l] \in S <=> l <= j
         PROVE  Cardinality(S) = j
    <2> DEFINE at == [l \in 1 .. j |-> pos[l]]
    <2>1. IsFiniteSet(1 .. j) /\ Cardinality(1 .. j) = j
      BY FS_Interval
    <2>2. \A l \in 1 .. j : l \in 1 .. N /\ pos[l] \in S
      BY <1>2, <1>17
    <2>3. ASSUME NEW x \in 1 .. j, NEW y \in 1 .. j, pos[x] = pos[y] PROVE x = y
      <3>1. x \in 1 .. N /\ y \in 1 .. N /\ pos[x] \in 2 .. L /\ pos[y] \in 2 .. L
        BY <1>3, <2>2
      <3>2. pos[x] <= pos[y] /\ pos[y] <= pos[x]
        BY <1>2, <2>3, <3>1
      <3> QED
        BY <1>16, <3>1, <3>2
    <2>4. at \in [1 .. j -> S] /\ \A x, y \in 1 .. j : at[x] = at[y] => x = y
      BY <2>2, <2>3
    <2>5. \A t \in S : \E x \in 1 .. j : at[x] = t
      BY <1>15, <1>17
    <2> HIDE DEF at
    <2> QED
      BY <2>1, <2>4, <2>5, ImageSize
  <1>18. Cardinality(data) = N
    BY <1>2, <1>8, <1>17
  <1>19. ASSUME NEW k \in data
         PROVE  f[k] = body[Cardinality({m \in data : m <= k})]
    <2>1. PICK j \in 1 .. N : k = pos[j]
      BY <1>15
    <2>2. \A l \in 1 .. N : pos[l] <= pos[j] <=> l <= j
      BY <1>2, <1>3, <1>4, <1>16
    <2> DEFINE S == {m \in data : m <= k}
    <2>3. S \subseteq data /\ j \in 0 .. N /\ \A l \in 1 .. N : pos[l] \in S <=> l <= j
      BY <1>2, <1>8, <2>1, <2>2
    <2> HIDE DEF S
    <2>4. Cardinality(S) = j
      BY <1>17, <2>3
    <2> QED
      BY <1>8, <2>1, <2>4 DEF S
  <1> QED
    BY <1>13, <1>14, <1>18, <1>19, Zenon DEF Transparent, f, N, bare, data

\* What the frame is made of at each step.
FrameInv ==
    /\ RoomInv
    /\ pc = "payload" => Laid(txbuf, Body(inbuf), i)
    /\ pc = "end" => Laid(txbuf, Body(inbuf), Len(inbuf) + 1)
    /\ pc = "idle" /\ result > 0 => Transparent(txbuf, Body(inbuf))

\* Every step of the encoder keeps it.
LEMMA FrameStep == FrameInv /\ [Next]_vars => FrameInv'
  <1> SUFFICES ASSUME FrameInv, [Next]_vars PROVE FrameInv'
    OBVIOUS
  <1>1. RoomInv'
    BY RoomStep DEF FrameInv
  <1>2. /\ inbuf \in Seq(Byte) /\ txbuf \in Seq(Byte) /\ i \in 0 .. Len(inbuf) /\ Len(inbuf) \in Nat
        /\ ComputeChecksum(inbuf) \in Byte
        /\ Body(inbuf) \in Seq(Byte) /\ Len(Body(inbuf)) = Len(inbuf) + 1
        /\ \A k \in 1 .. Len(inbuf) : Body(inbuf)[k] = inbuf[k]
        /\ Body(inbuf)[Len(inbuf) + 1] = ComputeChecksum(inbuf)
    <2>1. inbuf \in Seq(Byte) /\ txbuf \in Seq(Byte) /\ i \in 0 .. Len(inbuf)
      BY DEF FrameInv, RoomInv, TypeOK
    <2> QED
      BY <2>1, SizeIsNat DEF Body
  <1>3. CASE \E payload \in Payloads, outsize \in OutSizes : Encode(payload, outsize)
    BY <1>1, <1>3 DEF Encode, Begin, Fail, FrameInv, SMP_ERROR_NO_MEM, SMP_ERROR_OVERFLOW
  <1>4. CASE WriteStart
    <2>1. txbuf' = <<START_BYTE>> /\ i = 0
      <3>1. txbuf = <<>> /\ i = 0
        BY <1>2, <1>4 DEF WriteStart, FrameInv, RoomInv, Written, offset
      <3> QED
        BY <1>4, <3>1 DEF WriteStart
    <2>2. Laid(txbuf', Body(inbuf), i)
      BY <2>1, LaidStart, Zenon
    <2> QED
      BY <1>1, <1>4, <2>2 DEF WriteStart, FrameInv
  <1>5. CASE WritePayloadByte
    <2>1. /\ i \in Nat /\ Laid(txbuf, Body(inbuf), i) /\ inbuf[i + 1] \in Byte
          /\ txbuf' = txbuf \o WriteByte(inbuf[i + 1]) /\ Body(inbuf)[i + 1] = inbuf[i + 1]
      <3>1. Laid(txbuf, Body(inbuf), i) /\ txbuf' = txbuf \o WriteByte(inbuf[i + 1]) /\ i < Len(inbuf)
        BY <1>5 DEF WritePayloadByte, FrameInv
      <3>2. i \in Nat /\ i + 1 \in 1 .. Len(inbuf)
        BY <1>2, <3>1
      <3>3. inbuf[i + 1] \in Byte
        BY <1>2, <3>2
      <3> QED BY <1>2, <3>1, <3>2, <3>3
    <2>2. txbuf' \in Seq(Byte) /\ Extends(txbuf', txbuf, Body(inbuf)[i + 1])
      BY <1>2, <2>1, WrittenSize, WriteExtends
    <2>3. Laid(txbuf', Body(inbuf), i + 1)
      BY <1>2, <2>1, <2>2, LaidNext
    <2> QED
      BY <1>1, <1>5, <2>3 DEF WritePayloadByte, FrameInv
  <1>6. CASE WriteChecksum
    <2>1. /\ i = Len(inbuf) /\ Laid(txbuf, Body(inbuf), i)
          /\ txbuf' = txbuf \o WriteByte(ComputeChecksum(inbuf))
          /\ Body(inbuf)[i + 1] = ComputeChecksum(inbuf)
      BY <1>2, <1>6 DEF WriteChecksum, FrameInv
    <2>2. txbuf' \in Seq(Byte) /\ Extends(txbuf', txbuf, Body(inbuf)[i + 1])
      BY <1>2, <2>1, WrittenSize, WriteExtends
    <2>3. Laid(txbuf', Body(inbuf), Len(inbuf) + 1)
      BY <1>2, <2>1, <2>2, LaidNext
    <2> QED
      BY <1>1, <1>6, <2>3 DEF WriteChecksum, FrameInv
  <1>7. CASE WriteEnd
    <2>1. Laid(txbuf, Body(inbuf), Len(Body(inbuf))) /\ txbuf' = Append(txbuf, END_BYTE)
      BY <1>2, <1>7 DEF WriteEnd, FrameInv
    <2>2. Transparent(txbuf', Body(inbuf))
      BY <1>2, <2>1, LaidIsTransparent
    <2> QED
      BY <1>1, <1>7, <2>2 DEF WriteEnd, FrameInv
  <1>8. CASE UNCHANGED vars
    BY <1>1, <1>8 DEF vars, FrameInv
  <1> QED
    BY <1>3, <1>4, <1>5, <1>6, <1>7, <1>8 DEF Next

(***************************************************************************)
(* A finished frame of smp_serial_protocol_encode can be told from its     *)
(* content, whatever the payload and however many of its bytes, the        *)
(* checksum among them, have to be escaped.                                *)
(***************************************************************************)
THEOREM FramesAreTransparent == Spec => []FrameIsTransparent
  <1>1. Init => FrameInv
    BY RoomInit DEF Init, FrameInv
  <1>2. FrameInv => FrameIsTransparent
    BY DEF FrameInv, FrameIsTransparent, Done
  <1> QED
    BY <1>1, <1>2, FrameStep, PTL DEF Spec

=============================================================================
