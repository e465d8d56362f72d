--------------------------- MODULE Message_proofs ---------------------------
(***************************************************************************)
(* Proofs about Message.                                                   *)
(***************************************************************************)
EXTENDS Message, TLAPS, FiniteSetTheorems, SequenceTheorems, WellFoundedInduction

-----------------------------------------------------------------------------
(* Induction over the natural numbers, for sets of them *)

\* The initial segments of the numbers of a set are finite, and so one of them has
\* no other below it.
LEMMA Smallest ==
  ASSUME NEW T \in SUBSET Nat, T # {}
  PROVE  \E x \in T : \A y \in T : x <= y
  <1> DEFINE R == StrictSubsetOrdering(Nat)
             F == FiniteSubsetsOf(Nat)
             W == {0 .. k : k \in T}
  <1>1. IsWellFoundedOn(R, F)
    BY FS_StrictSubsetOrderingWellFounded
  <1>2. W \subseteq F
    <2> SUFFICES ASSUME NEW k \in T PROVE 0 .. k \in F
      OBVIOUS
    <2>1. IsFiniteSet(0 .. k)
      BY FS_Interval
    <2> QED BY <2>1 DEF FiniteSubsetsOf
  <1>3. \A x, y \in T : x < y => <<0 .. x, 0 .. y>> \in R
    <2> SUFFICES ASSUME NEW x \in T, NEW y \in T, x < y PROVE <<0 .. x, 0 .. y>> \in R
      OBVIOUS
    <2>1. 0 .. x \subseteq 0 .. y /\ y \in 0 .. y /\ y \notin 0 .. x
      OBVIOUS
    <2>2. 0 .. x \in SUBSET Nat /\ 0 .. y \in SUBSET Nat /\ 0 .. x # 0 .. y
      BY <2>1
    <2> QED BY <2>1, <2>2 DEF StrictSubsetOrdering
  <1>a. W # {}
    OBVIOUS
  <1> HIDE DEF R, F, W
  <1>4. PICK w \in W : \A v \in W : ~(<<v, w>> \in R)
    BY <1>1, <1>2, <1>a, WFMin
  <1> USE DEF W
  <1>5. PICK x \in T : w = 0 .. x
    OBVIOUS
  <1>6. \A y \in T : ~(y < x)
    BY <1>3, <1>4, <1>5
  <1> QED BY <1>6

LEMMA Induction ==
  ASSUME NEW T \in SUBSET Nat, 0 \in T, \A n \in T : n + 1 \in T
  PROVE  T = Nat
  <1> DEFINE C == Nat \ T
  <1> SUFFICES ASSUME C # {} PROVE FALSE
    OBVIOUS
  <1>1. PICK x \in C : \A y \in C : x <= y
    BY Smallest
  <1>2. x - 1 \in Nat /\ x - 1 \in T
    BY <1>1
  <1> QED BY <1>1, <1>2

LEMMA Minimum ==
  ASSUME NEW T \in SUBSET Nat, T # {}
  PROVE  Min(T) \in T /\ \A y \in T : Min(T) <= y
  BY Smallest DEF Min

LEMMA Maximum ==
  ASSUME NEW n \in Nat, NEW T \in SUBSET (0 .. n), T # {}
  PROVE  Max(T) \in T /\ \A y \in T : Max(T) >= y
  <1> DEFINE D == {n - k : k \in T}
  <1>1. PICK d \in D : \A y \in D : d <= y
    <2>1. \A k \in T : n - k \in Nat
      OBVIOUS
    <2>2. D \subseteq Nat
      BY <2>1
    <2>3. D # {}
      OBVIOUS
    <2> QED BY <2>2, <2>3, Smallest
  <1>2. PICK x \in T : d = n - x
    OBVIOUS
  <1>3. \A y \in T : x >= y
    <2> SUFFICES ASSUME NEW y \in T PROVE x >= y
      OBVIOUS
    <2>1. n - x <= n - y
      BY <1>1, <1>2
    <2> QED BY <2>1
  <1> QED BY <1>3 DEF Max

-----------------------------------------------------------------------------
(* The functions defined by recursion *)

LEMMA TotalUpTo ==
  ASSUME NEW n \in Nat, NEW sizes \in [0 .. n - 1 -> Nat]
  PROVE  \E f \in [0 .. n -> Nat] :
             /\ f[0] = 0 /\ \A k \in 1 .. n : f[k] = f[k - 1] + sizes[k - 1]
             /\ Total(sizes, n) = f[n]
  <1> DEFINE Up(f, m) ==
                 f \in [0 .. m -> Nat] /\ f[0] = 0 /\ \A k \in 1 .. m : f[k] = f[k - 1] + sizes[k - 1]
             T == {m \in Nat : m <= n => \E f : Up(f, m)}
  <1>1. 0 \in T
    <2>1. Up([k \in 0 .. 0 |-> 0], 0)
      OBVIOUS
    <2> QED BY <2>1
  <1>2. ASSUME NEW m \in T PROVE m + 1 \in T
    <2>0. m \in Nat
      <3> HIDE DEF Up
      <3> QED OBVIOUS
    <2> SUFFICES ASSUME m + 1 <= n PROVE \E f : Up(f, m + 1)
      <3> HIDE DEF Up
      <3> QED BY <2>0
    <2>a. m <= n
      <3> HIDE DEF T
      <3> QED BY <2>0
    <2>b. m <= n => \E f : Up(f, m)
      <3> HIDE DEF Up
      <3> QED OBVIOUS
    <2>1. PICK f : Up(f, m)
      <3> HIDE DEF Up
      <3> QED BY <2>0, <2>a, <2>b
    <2> DEFINE g == [k \in 0 .. m + 1 |-> IF k <= m THEN f[k] ELSE f[m] + sizes[m]]
    <2>2. g \in [0 .. m + 1 -> Nat] /\ g[0] = 0
      BY <2>1
    <2>3. \A k \in 1 .. m + 1 : g[k] = g[k - 1] + sizes[k - 1]
      BY <2>1
    <2> QED BY <2>2, <2>3
  <1> HIDE DEF T
  <1>3. n \in T
    <2>1. T \in SUBSET Nat
      BY DEF T
    <2> QED BY <1>1, <1>2, <2>1, Induction
  <1>4. PICK f : Up(f, n)
    <2> HIDE DEF Up
    <2>1. n <= n
      OBVIOUS
    <2> QED BY <1>3, <2>1 DEF T
  <1>5. f = [k \in 0 .. n |-> IF k = 0 THEN 0 ELSE f[k - 1] + sizes[k - 1]]
    BY <1>4
  <1> DEFINE h == CHOOSE g : g = [k \in 0 .. n |-> IF k = 0 THEN 0 ELSE g[k - 1] + sizes[k - 1]]
  <1>6. h = [k \in 0 .. n |-> IF k = 0 THEN 0 ELSE h[k - 1] + sizes[k - 1]]
    BY <1>5
  <1>7. Total(sizes, n) = h[n]
    BY DEF Total
  <1> HIDE DEF h
  <1> DEFINE E == {k \in Nat : k <= n => h[k] = f[k]}
  <1>8. E = Nat
    <2>1. 0 \in E
      BY <1>4, <1>6
    <2>2. ASSUME NEW k \in E PROVE k + 1 \in E
      BY <1>4, <1>6
    <2> QED BY <2>1, <2>2, Induction
  <1>9. h[n] = f[n]
    BY <1>8
  <1> QED BY <1>4, <1>7, <1>9

LEMMA FlattenUpTo ==
  ASSUME NEW S, NEW n \in Nat, NEW seqs \in [1 .. n -> Seq(S)]
  PROVE  \E h \in [0 .. n -> Seq(S)] :
             /\ h[0] = <<>> /\ \A k \in 1 .. n : h[k] = h[k - 1] \o seqs[k]
             /\ FlattenSeq(seqs) = h[n]
  <1> DEFINE Up(h, m) ==
                 h \in [0 .. m -> Seq(S)] /\ h[0] = <<>> /\ \A k \in 1 .. m : h[k] = h[k - 1] \o seqs[k]
             T == {m \in Nat : m <= n => \E h : Up(h, m)}
  <1>1. 0 \in T
    <2>1. Up([k \in 0 .. 0 |-> <<>>], 0)
      OBVIOUS
    <2> QED BY <2>1
  <1>2. ASSUME NEW m \in T PROVE m + 1 \in T
    <2>0. m \in Nat
      <3> HIDE DEF Up
      <3> QED OBVIOUS
    <2> SUFFICES ASSUME m + 1 <= n PROVE \E h : Up(h, m + 1)
      <3> HIDE DEF Up
      <3> QED BY <2>0
    <2>a. m <= n
      <3> HIDE DEF T
      <3> QED BY <2>0
    <2>b. m <= n => \E h : Up(h, m)
      <3> HIDE DEF Up
      <3> QED OBVIOUS
    <2>1. PICK h : Up(h, m)
      <3> HIDE DEF Up
      <3> QED BY <2>0, <2>a, <2>b
    <2> DEFINE g == [k \in 0 .. m + 1 |-> IF k <= m THEN h[k] ELSE h[m] \o seqs[m + 1]]
    <2>2. g \in [0 .. m + 1 -> Seq(S)] /\ g[0] = <<>>
      <3>1. h[m] \o seqs[m + 1] \in Seq(S)
        <4>1. h[m] \in Seq(S) /\ seqs[m + 1] \in Seq(S)
          BY <2>0, <2>1
        <4> QED BY <4>1, ConcatProperties
      <3> QED BY <2>0, <2>1, <3>1
    <2>3. ASSUME NEW k \in 1 .. m + 1 PROVE g[k] = g[k - 1] \o seqs[k]
      <3>1. CASE k = m + 1
        <4>1. g[k] = h[m] \o seqs[m + 1] /\ k - 1 = m /\ g[m] = h[m]
          <5>1. m \in 0 .. m + 1 /\ m + 1 \in 0 .. m + 1 /\ ~(m + 1 <= m) /\ k - 1 = m
            BY <2>0, <3>1
          <5>2. \A j \in 0 .. m + 1 : g[j] = IF j <= m THEN h[j] ELSE h[m] \o seqs[m + 1]
            BY Zenon
          <5>3. m <= m
            BY <2>0
          <5> HIDE DEF g
          <5>4. g[m + 1] = h[m] \o seqs[m + 1] /\ g[m] = h[m]
            BY <5>1, <5>2, <5>3, Zenon
          <5> HIDE DEF g
          <5> QED BY <3>1, <5>1, <5>4
        <4> HIDE DEF g
        <4> QED BY <3>1, <4>1
      <3>2. CASE k # m + 1
        <4>1. k \in 1 .. m
          BY <2>0, <3>2
        <4>2. g[k] = h[k] /\ g[k - 1] = h[k - 1]
          BY <2>0, <4>1
        <4>3. h[k] = h[k - 1] \o seqs[k]
          BY <2>1, <4>1
        <4> QED BY <4>2, <4>3
      <3> QED BY <3>1, <3>2
    <2> QED BY <2>2, <2>3
  <1> HIDE DEF T
  <1>3. n \in T
    <2>1. T \in SUBSET Nat
      BY DEF T
    <2> QED BY <1>1, <1>2, <2>1, Induction
  <1>4. PICK h : Up(h, n)
    <2> HIDE DEF Up
    <2>1. n <= n
      OBVIOUS
    <2> QED BY <1>3, <2>1 DEF T
  <1>b. /\ h \in [0 .. n -> Seq(S)] /\ h[0] = <<>>
        /\ \A k \in 1 .. n : h[k] = h[k - 1] \o seqs[k]
    BY <1>4
  <1> HIDE DEF Up
  <1>0. Len(seqs) = n /\ DOMAIN seqs = 1 .. n
    OBVIOUS
  <1>5. CASE n = 0
    <2>1. FlattenSeq(seqs) = seqs
      BY <1>0, <1>5 DEF FlattenSeq
    <2>2. seqs = <<>>
      BY <1>5
    <2> QED BY <1>b, <1>5, <2>1, <2>2
  <1>6. CASE n > 0
    <2> DEFINE e == [k \in 1 .. n |-> h[k]]
               a == CHOOSE b : b = [k \in 1 .. n |-> IF k = 1 THEN seqs[k] ELSE b[k - 1] \o seqs[k]]
    <2>1. h[1] = seqs[1]
      <3>1. h[1] = <<>> \o seqs[1] /\ seqs[1] \in Seq(S)
        <4>1. 1 \in 1 .. n /\ 1 - 1 = 0
          BY <1>6
        <4>2. h[1] = h[1 - 1] \o seqs[1]
          BY <1>b, <4>1
        <4> QED BY <1>b, <4>1, <4>2
      <3> QED BY <3>1, ConcatEmptySeq
    <2>2. e = [k \in 1 .. n |-> IF k = 1 THEN seqs[k] ELSE e[k - 1] \o seqs[k]]
      <3>1. ASSUME NEW k \in 1 .. n
            PROVE e[k] = IF k = 1 THEN seqs[k] ELSE e[k - 1] \o seqs[k]
        <4>1. CASE k = 1
          BY <2>1, <4>1
        <4>2. CASE k # 1
          <5>1. k - 1 \in 1 .. n
            BY <4>2
          <5>2. e[k - 1] = h[k - 1] /\ e[k] = h[k]
            BY <5>1
          <5> HIDE DEF e
          <5> QED BY <1>b, <4>2, <5>2
        <4> QED BY <4>1, <4>2
      <3> QED BY <3>1
    <2>3. a = [k \in 1 .. n |-> IF k = 1 THEN seqs[k] ELSE a[k - 1] \o seqs[k]]
      BY <2>2
    <2>4. FlattenSeq(seqs) = a[n]
      BY <1>0, <1>6 DEF FlattenSeq
    <2> HIDE DEF a
    <2> DEFINE E == {k \in Nat : k + 1 <= n => a[k + 1] = h[k + 1]}
    <2>5. E = Nat
      <3>1. 0 \in E
        BY <2>1, <2>3, <1>6
      <3>2. ASSUME NEW k \in E PROVE k + 1 \in E
        <4> SUFFICES ASSUME k + 2 <= n PROVE a[k + 2] = h[k + 2]
          OBVIOUS
        <4>1. a[k + 1] = h[k + 1] /\ k + 2 \in 1 .. n /\ k + 2 # 1 /\ k + 2 - 1 = k + 1
          OBVIOUS
        <4>2. a[k + 2] = a[k + 1] \o seqs[k + 2]
          <5> DEFINE j == k + 2
          <5>1. j \in 1 .. n /\ j # 1
            BY <4>1
          <5> HIDE DEF j
          <5>2. a[j] = a[j - 1] \o seqs[j]
            BY <2>3, <5>1
          <5>3. j - 1 = k + 1
            BY DEF j
          <5> QED BY <5>2, <5>3 DEF j
        <4>3. h[k + 2] = h[k + 1] \o seqs[k + 2]
          <5> DEFINE j == k + 2
          <5>1. j \in 1 .. n
            BY <4>1
          <5> HIDE DEF j
          <5>2. h[j] = h[j - 1] \o seqs[j]
            BY <1>b, <5>1
          <5>3. j - 1 = k + 1
            BY DEF j
          <5> QED BY <5>2, <5>3 DEF j
        <4> QED BY <4>1, <4>2, <4>3
      <3> HIDE DEF E
      <3>3. E \in SUBSET Nat
        BY DEF E
      <3> QED BY <3>1, <3>2, <3>3, Induction
    <2>6. a[n] = h[n]
      <3>1. n - 1 \in E /\ n - 1 + 1 = n
        <4> HIDE DEF E
        <4>1. n - 1 \in Nat
          BY <1>6
        <4> QED BY <2>5, <4>1
      <3>2. n - 1 + 1 <= n => a[n - 1 + 1] = h[n - 1 + 1]
        BY <3>1, Zenon
      <3> QED BY <3>1, <3>2
    <2> QED BY <1>b, <2>4, <2>6
  <1>7. n = 0 \/ n > 0
    OBVIOUS
  <1> QED BY <1>5, <1>6, <1>7

LEMMA FlattenBytes ==
  ASSUME NEW n \in Nat, NEW seqs \in [1 .. n -> Seq(Byte)]
  PROVE  \E h \in [0 .. n -> Seq(Byte)] :
             /\ h[0] = <<>> /\ \A k \in 1 .. n : h[k] = h[k - 1] \o seqs[k]
             /\ FlattenSeq(seqs) = h[n]
  <1>1. PICK B : B = Byte
    OBVIOUS
  <1>2. seqs \in [1 .. n -> Seq(B)]
    BY <1>1
  <1>3. \E h \in [0 .. n -> Seq(B)] :
             /\ h[0] = <<>> /\ \A k \in 1 .. n : h[k] = h[k - 1] \o seqs[k]
             /\ FlattenSeq(seqs) = h[n]
    BY <1>2, FlattenUpTo, ZenonT(40)
  <1> QED BY <1>1, <1>3

LEMMA FlattenTyped ==
  ASSUME NEW S, NEW n \in Nat, NEW seqs \in [1 .. n -> Seq(S)]
  PROVE  FlattenSeq(seqs) \in Seq(S)
  <1>1. PICK h \in [0 .. n -> Seq(S)] :
             /\ h[0] = <<>> /\ \A k \in 1 .. n : h[k] = h[k - 1] \o seqs[k]
             /\ FlattenSeq(seqs) = h[n]
        BY FlattenUpTo
  <1> QED BY <1>1

-----------------------------------------------------------------------------
(* The array grows to a power of two *)

\* The double of a power of two is one.
LEMMA DoubleIsPow2 ==
  ASSUME NEW p \in Nat \ {0}, IsPow2(p)
  PROVE  IsPow2(2 * p)
  <1> SUFFICES ASSUME NEW d \in 1 .. 2 * p, NEW k \in 1 .. 2 * p, d * k = 2 * p, d % 2 # 0
               PROVE d = 1
    BY DEF IsPow2
  <1>1. PICK c \in Nat : d = 2 * c + 1
    <2>1. d = 2 * (d \div 2) + 1 /\ d \div 2 \in Nat
      OBVIOUS
    <2> QED BY <2>1
  <1>2. k = 2 * (p - c * k)
    <2>1. (2 * c + 1) * k = 2 * (c * k) + k
      OBVIOUS
    <2> QED BY <1>1, <2>1
  <1> DEFINE h == p - c * k
  <1>3. h \in Int
    BY <1>1
  <1>4. h \in 1 .. p
    <2> HIDE DEF h
    <2>1. k = 2 * h
      BY <1>2 DEF h
    <2> QED BY <1>3, <2>1
  <1>5. d * h = p
    <2> HIDE DEF h
    <2>1. d * (2 * h) = 2 * (d * h)
      BY <1>3
    <2>2. k = 2 * h
      BY <1>2 DEF h
    <2>3. d * h \in Int
      BY <1>3
    <2> QED BY <2>1, <2>2, <2>3
  <1>6. d <= p
    <2> HIDE DEF h
    <2>1. d * h >= d
      BY <1>4
    <2> QED BY <1>5, <2>1
  <1> HIDE DEF h
  <1> QED BY <1>4, <1>5, <1>6 DEF IsPow2

LEMMA NextPow2Bounds ==
  ASSUME NEW n \in Nat \ {0}
  PROVE  NextPow2(n) \in n .. 2 * n
  <1> DEFINE T == {m \in Nat : \E p \in m + 1 .. 2 * (m + 1) : IsPow2(p)}
  <1>1. 0 \in T
    <2>1. IsPow2(1)
      BY DEF IsPow2
    <2> QED BY <2>1
  <1>2. ASSUME NEW m \in T PROVE m + 1 \in T
    <2>1. PICK p \in m + 1 .. 2 * (m + 1) : IsPow2(p)
      OBVIOUS
    <2>2. CASE p > m + 1
      BY <2>1, <2>2
    <2>3. CASE p = m + 1
      <3>1. IsPow2(2 * p)
        BY <2>1, DoubleIsPow2
      <3>2. 2 * p \in m + 1 + 1 .. 2 * (m + 1 + 1)
        BY <2>3
      <3> QED BY <3>1, <3>2
    <2> QED BY <2>1, <2>2, <2>3
  <1>3. n - 1 \in T
    <2> HIDE DEF T
    <2>1. T \in SUBSET Nat
      BY DEF T
    <2> QED BY <1>1, <1>2, <2>1, Induction
  <1>4. \E p \in n .. 2 * n : IsPow2(p)
    BY <1>3
  <1> DEFINE Q == {p \in n .. 2 * n : IsPow2(p)}
  <1>5. Q \in SUBSET Nat /\ Q # {}
    BY <1>4
  <1>6. Min(Q) \in Q
    <2> HIDE DEF Q
    <2> QED BY <1>5, Minimum
  <1> QED BY <1>6 DEF NextPow2

-----------------------------------------------------------------------------
(* The values and their bytes *)

LEMMA TypeSizes ==
  /\ \A type \in Byte : TypeSize(type) \in 0 .. 8
  /\ TypeSize(TYPE_NONE) = 0 /\ TypeSize(TYPE_STRING) = 3 /\ TypeSize(TYPE_RAW) = 2
  <1>1. ASSUME NEW type \in Byte PROVE TypeSize(type) \in 0 .. 8
    BY DEF TypeSize, Byte, TYPE_STRING, TYPE_RAW
  <1>2. TypeSize(TYPE_NONE) = 0
    BY DEF TypeSize, TYPE_NONE, TYPE_STRING, TYPE_RAW
  <1>3. TypeSize(TYPE_STRING) = 3
    BY DEF TypeSize, TYPE_STRING, TYPE_RAW
  <1>4. TypeSize(TYPE_RAW) = 2
    BY DEF TypeSize, TYPE_STRING, TYPE_RAW
  <1> QED BY <1>1, <1>2, <1>3, <1>4

LEMMA Types == TYPE_NONE \in Byte /\ TYPE_STRING \in Byte /\ TYPE_RAW \in Byte
  BY DEF TYPE_NONE, TYPE_STRING, TYPE_RAW, Byte

\* The bytes of a value that is there.
LEMMA DataIsBytes ==
  ASSUME NEW v \in Value, v.data \notin {Null, Wild}
  PROVE  v.type \in Byte /\ v.data \in Seq(Byte)
  BY DEF Value, Data

LEMMA NullAndWild ==
  /\ Null # Wild /\ Null \notin Seq(Byte) /\ Wild \notin Seq(Byte) /\ Len(Null) = 1 /\ Len(Wild) = 1
  /\ \A k \in DOMAIN Null : Null[k] # 0
  /\ \A k \in DOMAIN Wild : Wild[k] # 0
  <1>1. Null[1] \notin Byte /\ Wild[1] \notin Byte /\ Null[1] # Wild[1]
    BY DEF Null, Wild, Byte
  <1>2. Len(Null) = 1 /\ Len(Wild) = 1
    BY DEF Null, Wild
  <1>3. \A s \in Seq(Byte) : Len(s) = 1 => s[1] \in Byte
    OBVIOUS
  <1>4. (\A k \in DOMAIN Null : Null[k] # 0) /\ (\A k \in DOMAIN Wild : Wild[k] # 0)
    BY DEF Null, Wild
  <1> QED BY <1>1, <1>2, <1>3, <1>4

LEMMA LE16Bytes ==
  ASSUME NEW n \in Nat, NEW m \in Nat, n <= m, m \div 256 \in Byte
  PROVE  LE16(n) \in Seq(Byte) /\ Len(LE16(n)) = 2
  <1>1. n % 256 \in Byte /\ n \div 256 \in Byte
    BY DEF Byte
  <1> QED BY <1>1 DEF LE16

LEMMA LE32Bytes ==
  ASSUME NEW n \in Nat, NEW m \in Nat, n <= m, m \div 16777216 \in Byte
  PROVE  LE32(n) \in Seq(Byte) /\ Len(LE32(n)) = 4
  <1>1. n % 256 \in Byte
    BY DEF Byte
  <1>2. n \div 256 \in Nat /\ n \div 65536 \in Nat
    OBVIOUS
  <1>3. (n \div 256) % 256 \in Byte /\ (n \div 65536) % 256 \in Byte
    BY <1>2 DEF Byte
  <1>4. n \div 16777216 \in Byte
    BY DEF Byte
  <1> QED BY <1>1, <1>3, <1>4 DEF LE32

LEMMA FromLE16Nat ==
  ASSUME NEW bytes \in Seq(Byte), Len(bytes) >= 2
  PROVE  FromLE16(bytes) \in Nat /\ (FromLE16(bytes) = 0 => bytes[1] = 0 /\ bytes[2] = 0)
  <1>1. bytes[1] \in Byte /\ bytes[2] \in Byte
    OBVIOUS
  <1>2. \A a, b \in Byte : a + 256 * b \in Nat /\ (a + 256 * b = 0 => a = 0 /\ b = 0)
    BY DEF Byte
  <1> QED BY <1>1, <1>2, Zenon DEF FromLE16

LEMMA CStrings ==
  ASSUME NEW bytes \in Seq(Byte)
  PROVE  /\ CString(bytes) \in Seq(Byte) /\ Len(CString(bytes)) <= Len(bytes)
         /\ \A k \in 1 .. Len(bytes) : bytes[k] = 0 => Len(CString(bytes)) < k
         /\ \A k \in DOMAIN CString(bytes) : CString(bytes)[k] # 0
  <1> DEFINE nuls == {k \in DOMAIN bytes : bytes[k] = 0}
  <1>1. nuls \in SUBSET Nat /\ \A k \in nuls : k \in 1 .. Len(bytes)
    OBVIOUS
  <1>2. CString(bytes) = IF nuls = {} THEN bytes ELSE SubSeq(bytes, 1, Min(nuls) - 1)
    BY DEF CString
  <1>3. \A k \in 1 .. Len(bytes) : bytes[k] = 0 => k \in nuls
    OBVIOUS
  <1> HIDE DEF nuls
  <1>4. CASE nuls = {}
    BY <1>2, <1>3, <1>4
  <1>5. CASE nuls # {}
    <2> DEFINE m == Min(nuls)
    <2>1. m \in 1 .. Len(bytes) /\ \A k \in nuls : m <= k
      BY <1>1, <1>5, Minimum
    <2> HIDE DEF m
    <2>2. CString(bytes) = SubSeq(bytes, 1, m - 1)
      BY <1>2, <1>5 DEF m
    <2>3. \A j \in 1 .. m - 1 : bytes[j] \in Byte
      BY <2>1
    <2>4. CString(bytes) \in Seq(Byte) /\ Len(CString(bytes)) = m - 1
      BY <2>1, <2>2, <2>3, SubSeqProperties
    <2>5. ASSUME NEW k \in 1 .. m - 1 PROVE CString(bytes)[k] # 0
      <3>1. CString(bytes)[k] = bytes[k] /\ k \in 1 .. Len(bytes)
        BY <2>1, <2>2
      <3>2. k \notin nuls
        BY <2>1
      <3> QED BY <1>3, <3>1, <3>2
    <2> QED BY <1>3, <2>1, <2>4, <2>5
  <1> QED BY <1>4, <1>5

LEMMA Sizes ==
  ASSUME NEW v \in Value
  PROVE  ComputeSize(v) \in Nat /\ SizeInMessage(v) \in Nat
  <1>1. TypeSize(v.type) \in Nat
    BY TypeSizes DEF Value
  <1>2. Len(v.data) \in Nat
    BY NullAndWild DEF Value, Data
  <1>3. ComputeSize(v) \in Nat
    BY <1>1, <1>2 DEF ComputeSize
  <1> QED BY <1>3 DEF SizeInMessage

LEMMA SizedBytes ==
  ASSUME NEW data \in Seq(Byte), Len(data) <= UINT16_MAX
  PROVE  Sized(data) \in Seq(Byte) /\ Len(Sized(data)) = 2 + Len(data)
  <1> DEFINE l == LE16(Len(data))
  <1>1. l \in Seq(Byte) /\ Len(l) = 2
    BY LE16Bytes, MessageAssumption
  <1>2. Sized(data) = l \o data
    BY DEF Sized
  <1> HIDE DEF l
  <1>3. l \o data \in Seq(Byte) /\ Len(l \o data) = Len(l) + Len(data)
    BY <1>1, ConcatProperties, Zenon
  <1> QED BY <1>1, <1>2, <1>3

LEMMA EncodedDataBytes ==
  ASSUME NEW v \in Value, v.data \notin {Null, Wild}, Whole(v), Fits(v)
  PROVE  /\ v.type # TYPE_NONE
         /\ EncodedData(v) \in Seq(Byte) /\ Len(EncodedData(v)) = ComputeSize(v)
  <1>0. v.type \in Byte /\ v.data \in Seq(Byte) /\ Len(v.data) \in Nat /\ v.data # Null
    BY DataIsBytes
  <1>1. CASE v.type = TYPE_STRING
    <2>0. v.type # TYPE_RAW
      BY <1>1 DEF TYPE_RAW, TYPE_STRING
    <2>1. EncodedData(v) = Sized(Append(v.data, 0)) /\ Len(v.data) <= UINT16_MAX - 1
      BY <1>1, <2>0 DEF EncodedData, Fits
    <2>2. Append(v.data, 0) \in Seq(Byte) /\ Len(Append(v.data, 0)) = Len(v.data) + 1
      BY <1>0 DEF Byte
    <2>3. Len(v.data) + 1 <= UINT16_MAX
      BY <1>0, <2>1, MessageAssumption
    <2>4. EncodedData(v) \in Seq(Byte) /\ Len(EncodedData(v)) = 3 + Len(v.data)
      <3> DEFINE d == Append(v.data, 0)
      <3>1. d \in Seq(Byte) /\ Len(d) = Len(v.data) + 1 /\ EncodedData(v) = Sized(d)
        BY <2>1, <2>2
      <3> HIDE DEF d
      <3> QED BY <1>0, <2>3, <3>1, SizedBytes
    <2> QED BY <1>0, <1>1, <2>4, TypeSizes DEF ComputeSize, TYPE_STRING, TYPE_NONE
  <1>2. CASE v.type = TYPE_RAW
    <2>0. v.type # TYPE_STRING
      BY <1>2 DEF TYPE_RAW, TYPE_STRING
    <2>1. EncodedData(v) = Sized(v.data) /\ Len(v.data) <= UINT16_MAX
      BY <1>2, <2>0 DEF EncodedData, Fits
    <2>2. EncodedData(v) \in Seq(Byte) /\ Len(EncodedData(v)) = 2 + Len(v.data)
      BY <1>0, <2>1, SizedBytes
    <2> QED BY <1>0, <1>2, <2>2, TypeSizes DEF ComputeSize, TYPE_RAW, TYPE_NONE
  <1>3. CASE v.type \notin {TYPE_STRING, TYPE_RAW}
    <2>1. EncodedData(v) = v.data /\ Known(v.type)
      BY <1>3 DEF EncodedData, Fits
    <2>2. Len(v.data) = TypeSize(v.type)
      BY <1>0, <1>3, <2>1, NullAndWild DEF Whole
    <2>3. v.type # TYPE_NONE
      BY <2>1, TypeSizes DEF Known
    <2> QED BY <1>0, <1>3, <2>1, <2>2, <2>3, TypeSizes DEF ComputeSize
  <1> QED BY <1>1, <1>2, <1>3

\* encode_value writes bytes, as many as the two functions that compute sizes say.
LEMMA EncodedValue ==
  ASSUME NEW v \in Value, v.data \notin {Null, Wild}, Whole(v)
  PROVE  /\ EncodeValue(v) \in Seq(Byte)
         /\ Len(EncodeValue(v)) = IF Writable(v) THEN SizeInMessage(v) ELSE 0
  <1>1. CASE Fits(v)
    <2> DEFINE d == EncodedData(v)
    <2>1. v.type \in Byte /\ v.type # TYPE_NONE /\ d \in Seq(Byte) /\ Len(d) = ComputeSize(v)
      BY <1>1, EncodedDataBytes, DataIsBytes
    <2>2. EncodeValue(v) = <<v.type>> \o d
      BY <1>1 DEF EncodeValue
    <2> HIDE DEF d
    <2>3. EncodeValue(v) \in Seq(Byte) /\ Len(EncodeValue(v)) = 1 + ComputeSize(v)
      BY <2>1, <2>2
    <2>4. ComputeSize(v) \in Nat
      BY Sizes
    <2>5. Writable(v)
      BY <2>3, <2>4 DEF Writable
    <2> QED BY <2>1, <2>3, <2>5 DEF SizeInMessage
  <1>2. CASE ~Fits(v)
    BY <1>2 DEF EncodeValue, Writable
  <1> QED BY <1>1, <1>2

-----------------------------------------------------------------------------
(* Decoding *)

LEMMA MadeValue ==
  ASSUME NEW type \in Byte, NEW data \in Data,
         Known(type) /\ type \notin {TYPE_STRING, TYPE_RAW} /\ data # Wild
             => Len(data) = TypeSize(type),
         type = TYPE_STRING => \A k \in DOMAIN data : data[k] # 0
  PROVE  /\ [type |-> type, data |-> data] \in Value
         /\ Whole([type |-> type, data |-> data])
  <1> DEFINE v == [type |-> type, data |-> data]
  <1>1. v \in Value /\ v.type = type /\ v.data = data
    BY DEF Value
  <1> HIDE DEF v
  <1>2. Whole(v)
    BY <1>1 DEF Whole
  <1> QED BY <1>1, <1>2 DEF v

LEMMA ZeroedData ==
  ASSUME NEW type \in Byte
  PROVE  /\ Zeroed(type) \in Data
         /\ type = TYPE_STRING => Zeroed(type) = Null
         /\ type \notin {TYPE_STRING, TYPE_RAW} => Len(Zeroed(type)) = TypeSize(type)
  <1>1. CASE type = TYPE_STRING
    <2>1. type # TYPE_RAW
      BY <1>1 DEF TYPE_STRING, TYPE_RAW
    <2>2. Zeroed(type) = Null
      BY <1>1, <2>1, Zenon DEF Zeroed
    <2> QED BY <1>1, <2>2 DEF Data
  <1>2. CASE type = TYPE_RAW
    <2>1. type # TYPE_STRING
      BY <1>2 DEF TYPE_STRING, TYPE_RAW
    <2>2. Zeroed(type) = <<>>
      BY <1>2, <2>1, Zenon DEF Zeroed
    <2>3. <<>> \in Seq(Byte)
      OBVIOUS
    <2> QED BY <1>2, <2>1, <2>2, <2>3 DEF Data
  <1>3. CASE type \notin {TYPE_STRING, TYPE_RAW}
    <2> DEFINE z == Zeroed(type)
    <2>1. z = [b \in 1 .. TypeSize(type) |-> 0]
      BY <1>3, Zenon DEF Zeroed
    <2>2. TypeSize(type) \in Nat
      BY TypeSizes
    <2>3. z \in Seq(Byte) /\ Len(z) = TypeSize(type)
      BY <2>1, <2>2 DEF Byte
    <2> HIDE DEF z
    <2>4. z \in Data
      BY <2>3 DEF Data
    <2> QED BY <1>3, <2>3, <2>4 DEF z
  <1> QED BY <1>1, <1>2, <1>3

\* A slot whose type changed holds data, and what is whole stays so.
LEMMA RetypedValue ==
  ASSUME NEW old \in Value, NEW type \in Byte, Whole(old)
  PROVE  /\ Retyped(old, type) \in Data
         /\ Known(type) /\ type \notin {TYPE_STRING, TYPE_RAW} /\ Retyped(old, type) # Wild
                => Len(Retyped(old, type)) = TypeSize(type)
         /\ type = TYPE_STRING => \A k \in DOMAIN Retyped(old, type) : Retyped(old, type)[k] # 0
  <1>0. old.type \in Byte /\ old.data \in Data
    BY DEF Value
  <1> DEFINE r == Retyped(old, type)
  <1>s. TYPE_STRING # TYPE_RAW /\ Known(TYPE_STRING)
    BY TypeSizes DEF Known, TYPE_STRING, TYPE_RAW
  <1>1. CASE type = old.type \/ ~Known(type)
    <2>1. r = old.data
      BY <1>1 DEF Retyped
    <2> HIDE DEF r
    <2>2. type = TYPE_STRING => type = old.type
      BY <1>s, <1>1
    <2> QED BY <1>0, <1>1, <2>1, <2>2 DEF Whole, r
  <1>2. CASE type # old.type /\ Known(type) /\ old.type # TYPE_NONE
    <2>1. r = Wild
      BY <1>2 DEF Retyped
    <2> HIDE DEF r
    <2> QED BY <2>1, NullAndWild DEF Data, r
  <1>3. CASE type # old.type /\ Known(type) /\ old.type = TYPE_NONE
    <2>1. r = Zeroed(type)
      BY <1>3 DEF Retyped
    <2> HIDE DEF r
    <2> QED BY <2>1, ZeroedData, NullAndWild DEF r
  <1> QED BY <1>1, <1>2, <1>3

\* A string that decodes fits the buffer; one of size 0 needs a nul byte further on.
LEMMA DecodedString ==
  ASSUME NEW field \in Seq(Byte), Len(field) >= 3
  PROVE  /\ DecodeString(field) \in Data
         /\ \A k \in DOMAIN DecodeString(field) : DecodeString(field)[k] # 0
         /\ DecodeString(field) # Null =>
                /\ DecodeString(field) \in Seq(Byte)
                /\ FromLE16(field) # 0 \/ (\E q \in 3 .. Len(field) : field[q] = 0)
                       => 3 + Len(DecodeString(field)) <= Len(field)
  <1> DEFINE size == FromLE16(field)
             tail == SubSeq(field, 3, Len(field))
  <1>1. size \in Nat /\ (size = 0 => field[1] = 0 /\ field[2] = 0)
    BY FromLE16Nat
  <1>2. tail \in Seq(Byte) /\ Len(tail) = Len(field) - 2
        /\ \A k \in 1 .. Len(field) - 2 : tail[k] = field[k + 2]
    BY SubSeqProperties
  <1>3. DecodeString(field) = IF Len(field) >= 2 + size /\ field[2 + size] = 0
                              THEN CString(tail) ELSE Null
    BY DEF DecodeString
  <1> HIDE DEF size, tail
  <1>4. /\ CString(tail) \in Seq(Byte) /\ \A k \in DOMAIN CString(tail) : CString(tail)[k] # 0
        /\ \A k \in 1 .. Len(tail) : tail[k] = 0 => Len(CString(tail)) < k
    BY <1>2, CStrings
  <1>5. CASE ~(Len(field) >= 2 + size /\ field[2 + size] = 0)
    BY <1>3, <1>5, NullAndWild DEF Data
  <1>6. CASE Len(field) >= 2 + size /\ field[2 + size] = 0
    <2>1. DecodeString(field) = CString(tail)
      BY <1>3, <1>6
    <2>2. ASSUME size # 0 PROVE 3 + Len(DecodeString(field)) <= Len(field)
      <3>1. size \in 1 .. Len(tail) /\ tail[size] = 0
        BY <1>1, <1>2, <1>6, <2>2
      <3>2. Len(CString(tail)) < size
        BY <1>4, <3>1
      <3> QED BY <1>1, <1>2, <1>4, <1>6, <2>1, <3>1, <3>2
    <2>3. ASSUME NEW q \in 3 .. Len(field), field[q] = 0
          PROVE  3 + Len(DecodeString(field)) <= Len(field)
      <3>1. q - 2 \in 1 .. Len(tail) /\ tail[q - 2] = 0
        BY <1>2, <2>3
      <3>2. Len(CString(tail)) < q - 2
        BY <1>4, <3>1
      <3> QED BY <1>2, <1>4, <2>1, <3>1, <3>2
    <2> QED BY <1>4, <2>1, <2>2, <2>3 DEF Data, size
  <1> QED BY <1>5, <1>6

\* The size of a raw value is that of its field, or less where that wraps.
LEMMA RawSizes ==
  ASSUME NEW field \in Seq(Byte), Len(field) >= 2
  PROVE  /\ RawSize(field) \in Nat /\ RawSize(field) <= 2 + FromLE16(field)
         /\ Len(field) < SIZE_MOD /\ Len(field) >= 2 + FromLE16(field)
                => RawSize(field) = 2 + FromLE16(field)
  <1>1. FromLE16(field) \in Nat
    BY FromLE16Nat
  <1>2. SIZE_MOD \in Nat /\ SIZE_MOD >= 65536
    BY MessageAssumption
  <1>3. ASSUME NEW a \in Nat, NEW m \in Nat, m > 0
        PROVE  a % m \in Nat /\ a % m <= a /\ (a < m => a % m = a)
    <2>1. a % m \in Nat /\ a % m < m
      BY <1>3
    <2>2. ASSUME a < m PROVE a % m = a
      BY <1>3, <2>2
    <2> QED BY <1>3, <2>1, <2>2
  <1> DEFINE n == 2 + FromLE16(field)
  <1>4. n \in Nat
    BY <1>1
  <1>5. RawSize(field) = n % SIZE_MOD
    BY DEF RawSize
  <1> HIDE DEF n
  <1>6. /\ RawSize(field) \in Nat /\ RawSize(field) <= n
        /\ n < SIZE_MOD => RawSize(field) = n
    BY <1>2, <1>3, <1>4, <1>5
  <1>7. Len(field) \in Nat
    OBVIOUS
  <1> QED BY <1>2, <1>4, <1>6, <1>7 DEF n

\* A raw value that is accepted has the size it says, unless that reaches out of the buffer.
LEMMA DecodedRaw ==
  ASSUME NEW field \in Seq(Byte), Len(field) >= 2, NEW old \in Value, Whole(old)
  PROVE  /\ DecodeRaw(field, old) \in Data
         /\ Len(field) >= 2 + FromLE16(field) =>
                /\ SubSeq(field, 3, 2 + FromLE16(field)) \in Seq(Byte)
                /\ Len(SubSeq(field, 3, 2 + FromLE16(field))) = FromLE16(field)
  <1> DEFINE size == FromLE16(field)
             r == SubSeq(field, 3, 2 + size)
  <1>1. size \in Nat
    BY FromLE16Nat
  <1>2. DecodeRaw(field, old) = IF Len(field) < RawSize(field) THEN Retyped(old, TYPE_RAW)
                                ELSE IF Len(field) >= 2 + size THEN r ELSE Wild
    BY Zenon DEF DecodeRaw
  <1>3. ASSUME Len(field) >= 2 + size PROVE r \in Seq(Byte) /\ Len(r) = size
    <2> HIDE DEF size
    <2>1. \A j \in 3 .. 2 + size : field[j] \in Byte
      BY <1>1, <1>3
    <2> QED BY <1>1, <2>1, SubSeqProperties
  <1>4. Retyped(old, TYPE_RAW) \in Data
    BY RetypedValue, Types
  <1> HIDE DEF size, r
  <1>5. DecodeRaw(field, old) \in Data
    BY <1>2, <1>3, <1>4 DEF Data
  <1> QED BY <1>3, <1>5 DEF size, r

LEMMA DecodedFields ==
  ASSUME NEW error, NEW value, NEW used
  PROVE  /\ Decoded(error, value, used).error = error
         /\ Decoded(error, value, used).value = value
         /\ Decoded(error, value, used).used = used
  BY DEF Decoded

\* What decode_value leaves in the slot, and what it takes from the buffer: too much
\* only for a string of size 0 with no zero byte behind it.
LEMMA DecodedValue ==
  ASSUME NEW rest \in Seq(Byte), rest # <<>>, NEW old \in Value, Whole(old),
         NEW d, d = DecodeValue(rest, old)
  PROVE  /\ d.value \in Value /\ Whole(d.value) /\ d.error \in {0, SMP_ERROR_BAD_MESSAGE}
         /\ d.error = 0 =>
                /\ d.value.type # TYPE_NONE /\ d.used \in Nat /\ d.used >= 1
                /\ \/ d.used <= Len(rest)
                   \/ /\ Len(rest) >= 4 /\ rest[1] = TYPE_STRING /\ rest[2] = 0 /\ rest[3] = 0
                      /\ \A q \in 4 .. Len(rest) : rest[q] # 0
  <1> DEFINE type  == rest[1]
             field == SubSeq(rest, 2, Len(rest))
             typed == [type |-> type, data |-> Retyped(old, type)]
             string == [type |-> type, data |-> DecodeString(field)]
             raw   == [type |-> type, data |-> DecodeRaw(field, old)]
             scalar == [type |-> type, data |-> SubSeq(field, 1, TypeSize(type))]
  <1>0. type \in Byte /\ TypeSize(type) \in Nat /\ Len(rest) \in Nat /\ Len(rest) >= 1
    BY TypeSizes
  <1>1. /\ field \in Seq(Byte) /\ Len(field) = Len(rest) - 1
        /\ \A k \in 1 .. Len(rest) - 1 : field[k] = rest[k + 1]
    <2>1. \A j \in 2 .. Len(rest) : rest[j] \in Byte
      OBVIOUS
    <2>2. field \in Seq(Byte) /\ Len(field) = Len(rest) - 1
      BY <1>0, <2>1
    <2>3. ASSUME NEW k \in 1 .. Len(rest) - 1 PROVE field[k] = rest[k + 1]
      BY <1>0
    <2> QED BY <2>2, <2>3
  <1>2. d = IF Len(rest) < 2 THEN Decoded(SMP_ERROR_BAD_MESSAGE, old, 0)
            ELSE IF Len(field) < TypeSize(type) \/ ~Known(type)
                 THEN Decoded(SMP_ERROR_BAD_MESSAGE, typed, 0)
            ELSE IF type = TYPE_STRING THEN Decoded(0, string, 1 + ComputeSize(string))
            ELSE IF type = TYPE_RAW
                 THEN Decoded(0, raw, 1 + (IF Len(field) < RawSize(field) THEN TypeSize(TYPE_RAW)
                                           ELSE RawSize(field)))
            ELSE Decoded(0, scalar, 1 + TypeSize(type))
    BY Zenon DEF DecodeValue
  <1>3. SMP_ERROR_BAD_MESSAGE # 0
    BY DEF SMP_ERROR_BAD_MESSAGE
  <1>b. typed \in Value /\ Whole(typed)
    BY <1>0, RetypedValue, MadeValue
  <1> HIDE DEF field, typed
  <1>4. CASE Len(rest) < 2
    <2>1. d = Decoded(SMP_ERROR_BAD_MESSAGE, old, 0)
      BY <1>2, <1>4
    <2> QED BY <2>1, <1>3, DecodedFields
  <1>5. CASE Len(rest) >= 2 /\ (Len(field) < TypeSize(type) \/ ~Known(type))
    <2>1. d = Decoded(SMP_ERROR_BAD_MESSAGE, typed, 0)
      BY <1>0, <1>2, <1>5
    <2> QED BY <2>1, <1>b, <1>3, DecodedFields
  <1>c. ASSUME Known(type) PROVE type # TYPE_NONE
    BY <1>c, TypeSizes DEF Known
  <1> DEFINE good == Len(rest) >= 2 /\ Len(field) >= TypeSize(type) /\ Known(type)
  <1>6. CASE good /\ type = TYPE_STRING
    <2>1. d = Decoded(0, string, 1 + ComputeSize(string))
      BY <1>0, <1>1, <1>2, <1>6
    <2>2. Len(field) >= 3
      BY <1>6, TypeSizes
    <2> DEFINE s == DecodeString(field)
    <2>3. /\ s \in Data /\ \A k \in DOMAIN s : s[k] # 0
          /\ s # Null =>
                /\ s \in Seq(Byte)
                /\ FromLE16(field) # 0 \/ (\E q \in 3 .. Len(field) : field[q] = 0)
                       => 3 + Len(s) <= Len(field)
      BY <1>1, <2>2, DecodedString
    <2>4. string = [type |-> type, data |-> s]
      OBVIOUS
    <2> HIDE DEF s, string
    <2>5. string \in Value /\ Whole(string)
      BY <1>0, <1>6, <2>3, <2>4, MadeValue
    <2>6. string.type = TYPE_STRING /\ string.data = s
      BY <1>6, <2>4
    <2>7. ComputeSize(string) = IF s # Null THEN 3 + Len(s) ELSE 3
      BY <2>3, <2>6, TypeSizes DEF ComputeSize
    <2>8. d.value = string /\ d.error = 0 /\ d.used = 1 + ComputeSize(string)
      BY <2>1, DecodedFields
    <2>9. string.type # TYPE_NONE
      BY <1>6, <1>c, <2>6
    <2>10. CASE s = Null
      <3>1. d.used = 4
        BY <2>7, <2>8, <2>10
      <3> QED BY <1>1, <2>2, <2>5, <2>8, <2>9, <3>1
    <2>11. CASE s # Null
      <3>1. d.used = 4 + Len(s) /\ Len(s) \in Nat
        BY <2>3, <2>7, <2>8, <2>11
      <3>2. d.used <= Len(rest) \/ (FromLE16(field) = 0 /\ \A q \in 3 .. Len(field) : field[q] # 0)
        <4>1. CASE FromLE16(field) # 0 \/ (\E q \in 3 .. Len(field) : field[q] = 0)
          <5>1. 3 + Len(s) <= Len(field)
            BY <2>3, <2>11, <4>1
          <5>2. Len(field) = Len(rest) - 1
            BY <1>1
          <5>3. d.used <= Len(rest)
            BY <1>0, <3>1, <5>1, <5>2
          <5> QED BY <5>3
        <4> QED BY <4>1
      <3>3. ASSUME FromLE16(field) = 0, \A q \in 3 .. Len(field) : field[q] # 0
            PROVE  /\ Len(rest) >= 4 /\ rest[2] = 0 /\ rest[3] = 0
                   /\ \A q \in 4 .. Len(rest) : rest[q] # 0
        <4>1. field[1] = 0 /\ field[2] = 0
          BY <1>1, <2>2, <3>3, FromLE16Nat
        <4>2. rest[2] = field[1] /\ rest[3] = field[2]
          BY <1>1, <2>2
        <4>3. ASSUME NEW q \in 4 .. Len(rest) PROVE rest[q] # 0
          <5>1. q - 1 \in 3 .. Len(field) /\ q - 1 \in 1 .. Len(rest) - 1
            BY <1>1
          <5>2. field[q - 1] = rest[q - 1 + 1] /\ q - 1 + 1 = q
            BY <1>1, <5>1
          <5> QED BY <3>3, <5>1, <5>2
        <4> QED BY <1>1, <2>2, <4>1, <4>2, <4>3
      <3> QED BY <1>6, <2>5, <2>8, <2>9, <3>1, <3>2, <3>3
    <2> QED BY <2>10, <2>11
  <1>7. CASE good /\ type = TYPE_RAW
    <2>0. TYPE_RAW # TYPE_STRING
      BY DEF TYPE_RAW, TYPE_STRING
    <2> DEFINE taken == IF Len(field) < RawSize(field) THEN TypeSize(TYPE_RAW) ELSE RawSize(field)
    <2>1. d = Decoded(0, raw, 1 + taken)
      BY <1>0, <1>1, <1>2, <1>7, <2>0
    <2>2. Len(field) >= 2
      BY <1>7, TypeSizes
    <2> DEFINE r == DecodeRaw(field, old)
    <2>3. r \in Data
      BY <1>1, <2>2, DecodedRaw
    <2>4. raw = [type |-> type, data |-> r]
      OBVIOUS
    <2> HIDE DEF r, raw
    <2>5. raw \in Value /\ Whole(raw)
      BY <1>0, <1>7, <2>0, <2>3, <2>4, MadeValue
    <2>6. raw.type = TYPE_RAW
      BY <1>7, <2>4
    <2>7. taken \in Nat /\ taken <= Len(field)
      <3>1. RawSize(field) \in Nat
        BY <1>1, <2>2, RawSizes
      <3>2. TypeSize(TYPE_RAW) = 2
        BY TypeSizes
      <3> QED BY <1>1, <2>2, <3>1, <3>2
    <2>8. d.value = raw /\ d.error = 0 /\ d.used = 1 + taken
      BY <2>1, DecodedFields
    <2>9. raw.type # TYPE_NONE
      BY <1>7, <1>c, <2>6
    <2> HIDE DEF taken
    <2> QED BY <1>0, <1>1, <2>5, <2>7, <2>8, <2>9
  <1>8. CASE good /\ type \notin {TYPE_STRING, TYPE_RAW}
    <2>1. d = Decoded(0, scalar, 1 + TypeSize(type))
      BY <1>0, <1>1, <1>2, <1>8
    <2> DEFINE b == SubSeq(field, 1, TypeSize(type))
    <2>2. b \in Seq(Byte) /\ Len(b) = TypeSize(type)
      <3>1. \A j \in 1 .. TypeSize(type) : field[j] \in Byte
        BY <1>0, <1>1, <1>8
      <3>2. TypeSize(type) >= 1
        BY <1>0, <1>8 DEF Known
      <3> QED BY <1>0, <3>1, <3>2, SubSeqProperties
    <2>3. scalar = [type |-> type, data |-> b]
      OBVIOUS
    <2> HIDE DEF b, scalar
    <2>4. b \in Data
      BY <2>2 DEF Data
    <2>5. scalar \in Value /\ Whole(scalar)
      <3>1. type # TYPE_STRING
        BY <1>8
      <3> QED BY <1>0, <2>2, <2>3, <2>4, <3>1, MadeValue
    <2>6. d.value = scalar /\ d.error = 0 /\ d.used = 1 + TypeSize(type)
      BY <2>1, DecodedFields
    <2>7. scalar.type # TYPE_NONE
      BY <1>8, <1>c, <2>3
    <2> QED BY <1>0, <1>1, <1>8, <2>5, <2>6, <2>7
  <1> QED BY <1>0, <1>1, <1>4, <1>5, <1>6, <1>7, <1>8

-----------------------------------------------------------------------------
(* The size of a message *)

\* What is written, and what it adds up to, slot by slot.
LEMMA PayloadSize ==
  ASSUME NEW n \in Nat, NEW vals \in [0 .. n - 1 -> Value],
         \A s \in 0 .. n - 1 : Whole(vals[s]) /\ vals[s].data \notin {Null, Wild}
  PROVE  /\ FlattenSeq([k \in 1 .. n |-> EncodeValue(vals[k - 1])]) \in Seq(Byte)
         /\ Total([s \in 0 .. n - 1 |-> SizeInMessage(vals[s])], n)
                = Len(FlattenSeq([k \in 1 .. n |-> EncodeValue(vals[k - 1])]))
                  + Total([s \in 0 .. n - 1 |-> IF Writable(vals[s]) THEN 0 ELSE SizeInMessage(vals[s])], n)
  <1> DEFINE seqs  == [k \in 1 .. n |-> EncodeValue(vals[k - 1])]
             sizes == [s \in 0 .. n - 1 |-> SizeInMessage(vals[s])]
             out   == [s \in 0 .. n - 1 |-> IF Writable(vals[s]) THEN 0 ELSE SizeInMessage(vals[s])]
  <1>1. \A s \in 0 .. n - 1 :
            /\ SizeInMessage(vals[s]) \in Nat /\ EncodeValue(vals[s]) \in Seq(Byte)
            /\ Len(EncodeValue(vals[s])) = IF Writable(vals[s]) THEN SizeInMessage(vals[s]) ELSE 0
    BY Sizes, EncodedValue
  <1>2. \A k \in 1 .. n : k - 1 \in 0 .. n - 1
    OBVIOUS
  <1>3. seqs \in [1 .. n -> Seq(Byte)] /\ \A k \in 1 .. n : seqs[k] = EncodeValue(vals[k - 1])
    BY <1>1, <1>2
  <1>4. /\ sizes \in [0 .. n - 1 -> Nat] /\ out \in [0 .. n - 1 -> Nat]
        /\ \A s \in 0 .. n - 1 :
               /\ sizes[s] = SizeInMessage(vals[s])
               /\ out[s] = IF Writable(vals[s]) THEN 0 ELSE SizeInMessage(vals[s])
    BY <1>1
  <1> HIDE DEF seqs, sizes, out
  <1>5. PICK h \in [0 .. n -> Seq(Byte)] :
            /\ h[0] = <<>> /\ \A k \in 1 .. n : h[k] = h[k - 1] \o seqs[k]
            /\ FlattenSeq(seqs) = h[n]
    BY <1>3, FlattenBytes
  <1>6. PICK f \in [0 .. n -> Nat] :
            /\ f[0] = 0 /\ \A k \in 1 .. n : f[k] = f[k - 1] + sizes[k - 1]
            /\ Total(sizes, n) = f[n]
    BY <1>4, TotalUpTo
  <1>7. PICK g \in [0 .. n -> Nat] :
            /\ g[0] = 0 /\ \A k \in 1 .. n : g[k] = g[k - 1] + out[k - 1]
            /\ Total(out, n) = g[n]
    BY <1>4, TotalUpTo
  <1> DEFINE E == {k \in Nat : k <= n => f[k] = Len(h[k]) + g[k]}
  <1>8. 0 \in E
    BY <1>5, <1>6, <1>7
  <1>9. ASSUME NEW k \in E PROVE k + 1 \in E
    <2> SUFFICES ASSUME k + 1 <= n PROVE f[k + 1] = Len(h[k + 1]) + g[k + 1]
      OBVIOUS
    <2> DEFINE j == k + 1
    <2>1. k \in Nat /\ f[k] = Len(h[k]) + g[k] /\ k \in 0 .. n /\ k \in 0 .. n - 1
      OBVIOUS
    <2>2. j \in 1 .. n /\ j - 1 = k
      BY <2>1
    <2> HIDE DEF E, j
    <2>3. h[j] = h[k] \o seqs[j] /\ f[j] = f[k] + sizes[k] /\ g[j] = g[k] + out[k]
      BY <1>5, <1>6, <1>7, <2>2
    <2>4. seqs[j] \in Seq(Byte) /\ Len(seqs[j]) = IF Writable(vals[k]) THEN SizeInMessage(vals[k]) ELSE 0
      BY <1>1, <1>3, <2>1, <2>2
    <2>5. h[k] \in Seq(Byte)
      BY <2>1
    <2>6. Len(h[j]) = Len(h[k]) + Len(seqs[j])
      <3>1. Len(h[k] \o seqs[j]) = Len(h[k]) + Len(seqs[j])
        BY <2>4, <2>5, ConcatProperties, Zenon
      <3> QED BY <2>3, <3>1, Zenon
    <2>7. sizes[k] = Len(seqs[j]) + out[k] /\ sizes[k] \in Nat /\ out[k] \in Nat /\ Len(seqs[j]) \in Nat
      BY <1>1, <1>4, <2>1, <2>4, SMTT(20)
    <2>8. f[k] \in Nat /\ g[k] \in Nat /\ Len(h[k]) \in Nat
      BY <2>1, <2>5
    <2>9. f[j] = Len(h[j]) + g[j]
      <3>1. f[j] = (Len(h[k]) + g[k]) + (Len(seqs[j]) + out[k])
        BY <2>1, <2>3, <2>7, Zenon
      <3>2. Len(h[j]) + g[j] = (Len(h[k]) + Len(seqs[j])) + (g[k] + out[k])
        BY <2>3, <2>6, Zenon
      <3>4. (Len(h[k]) + g[k]) + (Len(seqs[j]) + out[k]) = (Len(h[k]) + Len(seqs[j])) + (g[k] + out[k])
        <4> DEFINE a == Len(h[k])
                   b == g[k]
                   c == Len(seqs[j])
                   e == out[k]
        <4>1. a \in Nat /\ b \in Nat /\ c \in Nat /\ e \in Nat
          BY <2>7, <2>8, Zenon
        <4> HIDE DEF a, b, c, e
        <4>2. (a + b) + (c + e) = (a + c) + (b + e)
          BY <4>1
        <4> QED BY <4>2, Zenon DEF a, b, c, e
      <3> QED BY <3>1, <3>2, <3>4, Zenon
    <2> QED BY <2>9 DEF j
  <1>10. n \in E
    <2> HIDE DEF E
    <2>1. E \in SUBSET Nat
      BY DEF E
    <2> QED BY <1>8, <1>9, <2>1, Induction
  <1>11. f[n] = Len(h[n]) + g[n]
    BY <1>10
  <1>12. h[n] \in Seq(Byte)
    OBVIOUS
  <1>13. FlattenSeq(seqs) \in Seq(Byte) /\ Total(sizes, n) = Len(FlattenSeq(seqs)) + Total(out, n)
    BY <1>5, <1>6, <1>7, <1>11, <1>12
  <1> QED BY <1>13 DEF seqs, sizes, out

-----------------------------------------------------------------------------
(* Type correctness *)

\* The loop of build_from_buffer runs on a message, inside its array, and a value of
\* a scalar type has all of its bytes.
Sound ==
    /\ pc = "build" => alloc # "none" /\ i <= capacity
    /\ \A s \in Slots : Whole(values[s])

Inv == TypeOK /\ Sound

LEMMA EmptyIsWhole == Empty \in Value /\ Whole(Empty)
  <1>1. <<>> \in Data
    BY DEF Data
  <1>2. ~Known(TYPE_NONE)
    BY TypeSizes DEF Known
  <1> QED BY <1>1, <1>2, Types, MadeValue DEF Empty

LEMMA ClearValues ==
  ASSUME NEW n \in Nat
  PROVE  Clear(n) \in [0 .. n - 1 -> Value] /\ \A s \in 0 .. n - 1 : Clear(n)[s] = Empty
  BY EmptyIsWhole DEF Clear

LEMMA ExtendedValues ==
  ASSUME Inv, NEW n \in Nat
  PROVE  /\ Extended(n) \in [0 .. n - 1 -> Value]
         /\ \A s \in 0 .. n - 1 : Whole(Extended(n)[s])
         /\ \A s \in 0 .. n - 1 : s \in Slots => Extended(n)[s] = values[s]
         /\ \A s \in 0 .. n - 1 : s >= capacity => Extended(n)[s] = Empty
  <1>1. capacity \in Nat /\ values \in [Slots -> Value] /\ \A s \in Slots : Whole(values[s])
    BY DEF Inv, TypeOK, Sound
  <1>2. ASSUME NEW s \in 0 .. n - 1
        PROVE  /\ Extended(n)[s] = IF s < capacity THEN values[s] ELSE Empty
               /\ s < capacity <=> s \in Slots
    BY <1>1 DEF Extended, Slots
  <1>3. ASSUME NEW s \in 0 .. n - 1
        PROVE  Extended(n)[s] \in Value /\ Whole(Extended(n)[s])
    BY <1>1, <1>2, EmptyIsWhole, Zenon
  <1>4. Extended(n) \in [0 .. n - 1 -> Value]
    BY <1>3 DEF Extended
  <1>5. \A s \in 0 .. n - 1 : s >= capacity => ~(s < capacity)
    BY <1>1
  <1> QED BY <1>2, <1>3, <1>4, <1>5, Zenon

\* A call that stores nothing for its caller is typed when its result is a number.
LEMMA ReturnsTyped ==
  ASSUME NEW r \in Int, Returns(r)
  PROVE  ret' \in Int /\ got' \in Seq(Data)
  BY DEF Returns

LEMMA Errors ==
  /\ SMP_ERROR_NO_MEM \in Int /\ SMP_ERROR_NOT_FOUND \in Int /\ SMP_ERROR_BAD_MESSAGE \in Int
  /\ SMP_ERROR_TOO_BIG \in Int /\ SMP_ERROR_NOT_SUPPORTED \in Int /\ SMP_ERROR_BAD_TYPE \in Int
  /\ SMP_ERROR_INVALID_PARAM \in Int /\ SMP_ERROR_OVERFLOW \in Int
  /\ SMP_ERROR_BAD_TYPE # 0 /\ SMP_ERROR_NOT_FOUND # 0
  BY DEF SMP_ERROR_NO_MEM, SMP_ERROR_NOT_FOUND, SMP_ERROR_BAD_MESSAGE, SMP_ERROR_TOO_BIG,
         SMP_ERROR_NOT_SUPPORTED, SMP_ERROR_BAD_TYPE, SMP_ERROR_INVALID_PARAM, SMP_ERROR_OVERFLOW

\* What is left of an array that wrapped is values.
LEMMA WrappedValues ==
  ASSUME Inv, NEW n \in Nat
  PROVE  Wrapped(n) \in [0 .. n - 1 -> Value] /\ \A s \in 0 .. n - 1 : Whole(Wrapped(n)[s])
  <1> DEFINE wild == [type |-> TYPE_NONE, data |-> Wild]
             kept(s) == s < capacity /\ (s + 1) * VALUE_SIZE <= (n * VALUE_SIZE) % SIZE_MOD
  <1>1. capacity \in Nat /\ values \in [Slots -> Value] /\ \A s \in Slots : Whole(values[s])
    BY DEF Inv, TypeOK, Sound
  <1>2. wild \in Value /\ Whole(wild)
    <2>1. Wild \in Data
      BY DEF Data
    <2>2. ~Known(TYPE_NONE) /\ TYPE_NONE # TYPE_STRING
      BY TypeSizes DEF Known, TYPE_NONE, TYPE_STRING
    <2> QED BY <2>1, <2>2, Types, MadeValue
  <1>3. Wrapped(n) = [s \in 0 .. n - 1 |-> IF kept(s) THEN values[s] ELSE wild]
    BY Zenon DEF Wrapped
  <1> HIDE DEF wild
  <1>4. ASSUME NEW s \in 0 .. n - 1
        PROVE  (IF kept(s) THEN values[s] ELSE wild) \in Value
               /\ Whole(IF kept(s) THEN values[s] ELSE wild)
    <2>1. CASE kept(s)
      <3>1. s \in Slots
        BY <1>1, <2>1 DEF Slots
      <3> HIDE DEF kept
      <3> QED BY <1>1, <2>1, <3>1
    <2>2. CASE ~kept(s)
      <3> HIDE DEF kept
      <3> QED BY <1>2, <2>2
    <2> QED BY <2>1, <2>2
  <1> HIDE DEF kept
  <1> QED BY <1>3, <1>4

\* When anything may happen, nothing has happened yet.
LEMMA UndefinedTyped ==
  ASSUME Inv, Undefined
  PROVE  /\ pc' = "undefined" /\ buffer' \in Seq(Byte) /\ offset' \in Nat /\ i' \in Nat
         /\ fresh' \in {"yes", "no"} /\ ret' \in Int /\ got' \in Seq(Data)
  BY DEF Undefined, Inv, TypeOK, result

LEMMA GrowWrappedInv ==
  ASSUME Inv, NEW n \in Nat, GrowWrapped(n), UNCHANGED <<alloc, msgid, coded>>
  PROVE  Inv'
  <1>1. capacity' = n /\ values' = Wrapped(n) /\ Undefined
    BY DEF GrowWrapped
  <1>2. Slots' = 0 .. n - 1
    BY <1>1 DEF Slots
  <1>3. values' \in [Slots' -> Value] /\ \A s \in Slots' : Whole(values'[s])
    BY <1>1, <1>2, WrappedValues
  <1>4. /\ pc' = "undefined" /\ buffer' \in Seq(Byte) /\ offset' \in Nat /\ i' \in Nat
        /\ fresh' \in {"yes", "no"} /\ ret' \in Int /\ got' \in Seq(Data)
    BY <1>1, UndefinedTyped
  <1>5. alloc' \in {"none", "heap", "static"} /\ msgid' \in Seq(Byte) /\ wire' \in Seq(Byte)
    BY DEF Inv, TypeOK, coded
  <1>6. TypeOK'
    BY <1>1, <1>3, <1>4, <1>5 DEF TypeOK
  <1>7. Sound'
    BY <1>3, <1>4 DEF Sound
  <1> QED BY <1>6, <1>7 DEF Inv

LEMMA FunctionIsSeq ==
  ASSUME NEW S, NEW n \in Nat, NEW f \in [1 .. n -> S]
  PROVE  f \in Seq(S) /\ Len(f) = n
  <1>1. f = [k \in 1 .. n |-> f[k]]
    OBVIOUS
  <1>2. \A k \in 1 .. n : f[k] \in S
    OBVIOUS
  <1> QED BY <1>1, <1>2

\* An id has four bytes.
LEMMA NoIdIsId == NoId \in Seq(Byte) /\ Len(NoId) = 4
  BY DEF NoId, Byte

LEMMA IdBytes ==
  ASSUME NEW id \in Ids
  PROVE  id \in Seq(Byte) /\ Len(id) = 4
  <1>1. id \in [1 .. 4 -> Byte]
    BY MessageAssumption
  <1> QED BY <1>1, FunctionIsSeq

\* An array of empty slots, of any size, is as it should be.
LEMMA ClearedInv ==
  ASSUME NEW n \in Nat, capacity' = n, values' = Clear(n)
  PROVE  /\ capacity' \in Nat /\ values' \in [Slots' -> Value]
         /\ \A s \in Slots' : Whole(values'[s])
  BY ClearValues, EmptyIsWhole DEF Slots

LEMMA NewInv ==
  ASSUME Inv, NEW id \in Ids, NewWithId(id)
  PROVE  Inv'
  <1>1. TypeOK /\ pc = "idle"
    BY DEF Inv, NewWithId
  <1>2. CASE alloc' = "heap" /\ msgid' = id /\ Returns(0)
             /\ capacity' = DEFAULT_CAPACITY /\ values' = Clear(DEFAULT_CAPACITY)
    <2>1. /\ capacity' \in Nat /\ values' \in [Slots' -> Value]
          /\ \A s \in Slots' : Whole(values'[s])
      BY <1>2, ClearedInv, MessageAssumption
    <2>2. UNCHANGED <<loop, coded>>
      BY DEF NewWithId
    <2>3. msgid' \in Seq(Byte)
      BY <1>2, IdBytes
    <2>4. ret' \in Int /\ got' \in Seq(Data)
      BY <1>2, ReturnsTyped
    <2> QED BY <1>1, <1>2, <2>1, <2>2, <2>3, <2>4 DEF Inv, Sound, TypeOK, loop, coded
  <1>3. CASE Returns(SMP_ERROR_NO_MEM) /\ UNCHANGED message
    <2>1. ret' \in Int /\ got' \in Seq(Data)
      BY <1>3, ReturnsTyped, Errors
    <2>2. UNCHANGED <<message, loop, coded>>
      BY <1>3 DEF NewWithId
    <2> QED BY <2>1, <2>2 DEF Inv, Sound, TypeOK, loop, coded, message, Slots
  <1> QED BY <1>2, <1>3 DEF NewWithId

LEMMA NewFromStaticInv ==
  ASSUME Inv, NEW id \in Ids, NEW n \in StaticCapacities, NewFromStatic(n, id)
  PROVE  Inv'
  <1>1. /\ capacity' \in Nat /\ values' \in [Slots' -> Value]
        /\ \A s \in Slots' : Whole(values'[s])
    BY ClearedInv, MessageAssumption DEF NewFromStatic
  <1>2. msgid' \in Seq(Byte)
    BY IdBytes DEF NewFromStatic
  <1>3. ret' \in Int /\ got' \in Seq(Data)
    BY ReturnsTyped DEF NewFromStatic
  <1>4. alloc' = "static" /\ pc = "idle" /\ UNCHANGED <<loop, coded>>
    BY DEF NewFromStatic
  <1> QED BY <1>1, <1>2, <1>3, <1>4 DEF Inv, Sound, TypeOK, loop, coded

LEMMA FreeInv ==
  ASSUME Inv, Free
  PROVE  Inv'
  <1>1. /\ capacity' \in Nat /\ values' \in [Slots' -> Value]
        /\ \A s \in Slots' : Whole(values'[s])
    BY ClearedInv DEF Free
  <1>2. /\ alloc' = "none" /\ msgid' = NoId /\ pc = "idle"
        /\ UNCHANGED <<loop, result, coded>>
    BY DEF Free
  <1> QED BY <1>1, <1>2, NoIdIsId DEF Inv, Sound, TypeOK, loop, coded, result

LEMMA ClearMessageInv ==
  ASSUME Inv, ClearMessage
  PROVE  Inv'
  <1>1. capacity' = capacity /\ capacity \in Nat
    BY DEF ClearMessage, Inv, TypeOK
  <1>2. /\ capacity' \in Nat /\ values' \in [Slots' -> Value]
        /\ \A s \in Slots' : Whole(values'[s])
    BY <1>1, ClearedInv DEF ClearMessage
  <1>3. msgid' = NoId /\ UNCHANGED <<alloc, capacity, loop, result, coded>>
    BY DEF ClearMessage
  <1> QED BY <1>2, <1>3, NoIdIsId DEF Inv, Sound, TypeOK, loop, coded, result

LEMMA SetIdInv ==
  ASSUME Inv, NEW id \in Ids, SetId(id)
  PROVE  Inv'
  <1>1. msgid' \in Seq(Byte)
    BY IdBytes DEF SetId
  <1>2. UNCHANGED <<alloc, capacity, values, loop, result, coded>>
    BY DEF SetId
  <1> QED BY <1>1, <1>2 DEF Inv, Sound, TypeOK, loop, coded, result, Slots

LEMMA SetInv ==
  ASSUME Inv, NEW list \in Seq(Setting),
         \A k \in DOMAIN list : Whole(list[k].value), Set(list)
  PROVE  Inv'
  <1> DEFINE refused == {k \in DOMAIN list : list[k].index >= capacity}
             stored  == IF refused = {} THEN Len(list) ELSE Min(refused) - 1
             at(s)   == {k \in 1 .. stored : list[k].index = s}
  <1>1. values' = [s \in Slots |-> IF at(s) = {} THEN values[s] ELSE list[Max(at(s))].value]
    BY DEF Set
  <1>2. ret' \in Int /\ got' \in Seq(Data)
    BY ReturnsTyped, Errors DEF Set
  <1>3. UNCHANGED <<alloc, msgid, capacity, loop, coded>>
    BY DEF Set
  <1>4. stored \in Nat /\ stored <= Len(list)
    <2>1. refused \in SUBSET Nat /\ \A k \in refused : k \in 1 .. Len(list)
      OBVIOUS
    <2>2. Len(list) \in Nat
      OBVIOUS
    <2>3. CASE refused = {}
      BY <2>2, <2>3
    <2>4. CASE refused # {}
      <3> HIDE DEF refused
      <3>1. Min(refused) \in 1 .. Len(list)
        BY <2>1, <2>4, Minimum
      <3> QED BY <2>2, <2>4, <3>1
    <2> QED BY <2>3, <2>4
  <1> HIDE DEF refused, stored
  <1>5. ASSUME NEW s \in Slots PROVE values'[s] \in Value /\ Whole(values'[s])
    <2>1. CASE at(s) = {}
      <3>1. values'[s] = values[s]
        BY <1>1, <2>1
      <3> QED BY <3>1 DEF Inv, TypeOK, Sound
    <2>2. CASE at(s) # {}
      <3>1. values'[s] = list[Max(at(s))].value
        BY <1>1, <2>2
      <3>2. at(s) \in SUBSET (0 .. stored)
        BY <1>4
      <3>3. Max(at(s)) \in at(s)
        <4> HIDE DEF at
        <4> QED BY <1>4, <2>2, <3>2, Maximum
      <3>4. PICK k \in 1 .. stored : Max(at(s)) = k
        BY <3>3
      <3>5. k \in 1 .. Len(list)
        <4>1. Len(list) \in Nat /\ k \in 1 .. stored
          OBVIOUS
        <4> QED BY <1>4, <4>1
      <3>6. k \in DOMAIN list
        BY <3>5
      <3>8. list[k] \in Setting
        BY <3>5, ElementOfSeq, Zenon
      <3>7. list[k].value \in Value
        BY <3>8 DEF Setting
      <3> HIDE DEF at
      <3> QED BY <3>1, <3>4, <3>6, <3>7
    <2> QED BY <2>1, <2>2
  <1>6. Slots' = Slots
    BY <1>3 DEF Slots
  <1> HIDE DEF at
  <1>7. values' \in [Slots' -> Value] /\ \A s \in Slots' : Whole(values'[s])
    BY <1>1, <1>5, <1>6
  <1> QED BY <1>2, <1>3, <1>7 DEF Inv, Sound, TypeOK, loop, coded

LEMMA SetTypedInv ==
  ASSUME Inv, NEW s \in SingleSettings, SetTyped(s.index, s.value)
  PROVE  Inv'
  <1> DEFINE list == <<[index |-> s.index, value |-> s.value]>>
  <1>1. s.index \in Nat /\ s.value \in Value /\ Whole(s.value)
    BY MessageAssumption DEF Setting
  <1>a. [index |-> s.index, value |-> s.value] \in Setting
    BY <1>1 DEF Setting
  <1>2. list \in Seq(Setting)
    BY <1>a
  <1>3. \A k \in DOMAIN list : Whole(list[k].value)
    BY <1>1
  <1>4. Set(list)
    BY DEF SetTyped
  <1> HIDE DEF list
  <1> QED BY <1>2, <1>3, <1>4, SetInv

LEMMA SetCapacityInv ==
  ASSUME Inv, NEW n \in Capacities, SetCapacity(n)
  PROVE  Inv'
  <1>1. UNCHANGED <<alloc, msgid, coded>> /\ pc = "idle"
    BY DEF SetCapacity
  <1>0. n \in Nat
    BY MessageAssumption
  <1>2. CASE alloc = "heap" /\ n > capacity /\ capacity' = n /\ values' = Extended(n) /\ Returns(0)
             /\ UNCHANGED loop
    <2>1. n \in Nat
      BY <1>0
    <2>2. /\ Extended(n) \in [0 .. n - 1 -> Value]
          /\ \A s \in 0 .. n - 1 : Whole(Extended(n)[s])
      BY <2>1, ExtendedValues
    <2>3. Slots' = 0 .. n - 1
      BY <1>2 DEF Slots
    <2>4. values' \in [Slots' -> Value] /\ \A s \in Slots' : Whole(values'[s])
      BY <1>2, <2>2, <2>3
    <2>5. ret' \in Int /\ got' \in Seq(Data)
      BY <1>2, ReturnsTyped
    <2> QED BY <1>1, <1>2, <2>1, <2>4, <2>5 DEF Inv, Sound, TypeOK, loop, coded
  <1>3. CASE UNCHANGED <<capacity, values, loop>> /\ ret' \in Int /\ got' = <<>>
    BY <1>1, <1>3 DEF Inv, Sound, TypeOK, loop, coded, Slots
  <1>4. \/ /\ alloc = "heap" /\ n > capacity /\ capacity' = n /\ values' = Extended(n) /\ Returns(0)
           /\ UNCHANGED loop
        \/ GrowWrapped(n)
        \/ /\ Returns(CASE alloc = "static" -> SMP_ERROR_NOT_SUPPORTED
                        [] alloc = "heap" /\ n < capacity -> SMP_ERROR_INVALID_PARAM
                        [] alloc = "heap" /\ n = capacity -> 0
                        [] alloc = "heap" /\ n > capacity -> SMP_ERROR_NO_MEM)
           /\ UNCHANGED <<capacity, values, loop>>
    BY Zenon DEF SetCapacity
  <1>5. ASSUME NEW r, Returns(r), r = CASE alloc = "static" -> SMP_ERROR_NOT_SUPPORTED
                        [] alloc = "heap" /\ n < capacity -> SMP_ERROR_INVALID_PARAM
                        [] alloc = "heap" /\ n = capacity -> 0
                        [] alloc = "heap" /\ n > capacity -> SMP_ERROR_NO_MEM
        PROVE  ret' \in Int /\ got' = <<>>
    <2>1. alloc \in {"static", "heap"} /\ capacity \in Nat /\ n \in Nat
      BY MessageAssumption DEF Inv, TypeOK, SetCapacity
    <2>2. r \in Int
      <3>1. CASE alloc = "static"
        BY <1>5, <3>1, Errors
      <3>2. CASE alloc = "heap" /\ n < capacity
        BY <1>5, <2>1, <3>2, Errors
      <3>3. CASE alloc = "heap" /\ n = capacity
        BY <1>5, <2>1, <3>3, Errors
      <3>4. CASE alloc = "heap" /\ n > capacity
        BY <1>5, <2>1, <3>4, Errors
      <3> QED BY <2>1, <3>1, <3>2, <3>3, <3>4
    <2> QED BY <1>5, <2>2 DEF Returns
  <1>6. CASE GrowWrapped(n)
    BY <1>0, <1>1, <1>6, GrowWrappedInv
  <1> QED BY <1>2, <1>3, <1>4, <1>5, <1>6

LEMMA GetErrorTyped ==
  ASSUME Inv, NEW request \in Request
  PROVE  GetError(request) \in Int /\ (GetError(request) = 0 => request.index \in Slots)
  <1>1. request.index \in Nat /\ capacity \in Nat
    BY DEF Inv, TypeOK, Request
  <1> QED BY <1>1, Errors DEF GetError, Slots

LEMMA GetInv ==
  ASSUME Inv, NEW list \in Seq(Request), Get(list)
  PROVE  Inv'
  <1> DEFINE failed == {k \in DOMAIN list : GetError(list[k]) # 0}
             stored == IF failed = {} THEN Len(list) ELSE Min(failed) - 1
             data   == [k \in 1 .. stored |-> values[list[k].index].data]
             error  == IF failed = {} THEN 0 ELSE GetError(list[Min(failed)])
  <1>1. ret' = error /\ got' = data
    BY DEF Get, Fetched
  <1>2. \A k \in 1 .. Len(list) : list[k] \in Request
    BY ElementOfSeq, Zenon
  <1>3. failed \in SUBSET Nat /\ \A k \in failed : k \in 1 .. Len(list)
    OBVIOUS
  <1>4. \A k \in 1 .. Len(list) : k \notin failed => GetError(list[k]) = 0
    <2>1. \A k \in DOMAIN list : k \notin failed => GetError(list[k]) = 0
      BY Zenon
    <2>2. DOMAIN list = 1 .. Len(list)
      OBVIOUS
    <2> QED BY <2>1, <2>2, Zenon
  <1>5. Len(list) \in Nat
    OBVIOUS
  <1> HIDE DEF failed
  <1>6. failed # {} => Min(failed) \in 1 .. Len(list) /\ \A k \in failed : Min(failed) <= k
    BY <1>3, Minimum
  <1>7. stored \in Nat /\ stored <= Len(list) /\ \A k \in 1 .. stored : k \notin failed
    <2>1. CASE failed = {}
      BY <1>5, <2>1
    <2>2. CASE failed # {}
      <3> DEFINE m == Min(failed)
      <3>1. m \in 1 .. Len(list) /\ \A k \in failed : m <= k
        BY <1>6, <2>2
      <3>2. stored = m - 1
        BY <2>2
      <3> HIDE DEF m, stored
      <3> QED BY <1>5, <3>1, <3>2
    <2> QED BY <2>1, <2>2
  <1>8. error \in Int
    BY <1>2, <1>6, GetErrorTyped
  <1> HIDE DEF stored, error
  <1>9. ASSUME NEW k \in 1 .. stored PROVE values[list[k].index].data \in Data
    <2>1. k \in 1 .. Len(list) /\ GetError(list[k]) = 0
      BY <1>4, <1>5, <1>7
    <2>2. list[k].index \in Slots
      BY <1>2, <2>1, GetErrorTyped
    <2>3. values[list[k].index] \in Value
      BY <2>2 DEF Inv, TypeOK
    <2> QED BY <2>3 DEF Value
  <1>10. data \in Seq(Data)
    BY <1>7, <1>9
  <1> HIDE DEF data
  <1>11. UNCHANGED <<message, loop, coded>>
    BY DEF Get
  <1> QED BY <1>1, <1>8, <1>10, <1>11 DEF Inv, Sound, TypeOK, loop, coded, message, Slots

LEMMA GetTypedInv ==
  ASSUME Inv, NEW r \in SingleRequests, GetTyped(r.index, r.type)
  PROVE  Inv'
  <1> DEFINE list == <<[index |-> r.index, type |-> r.type]>>
  <1>1. r.index \in Nat /\ r.type \in Byte
    BY MessageAssumption DEF Request
  <1>a. [index |-> r.index, type |-> r.type] \in Request
    BY <1>1 DEF Request
  <1>2. list \in Seq(Request)
    BY <1>a
  <1>3. Get(list)
    BY DEF GetTyped
  <1> HIDE DEF list
  <1> QED BY <1>2, <1>3, GetInv

LEMMA PayloadBytes ==
  ASSUME Inv, Encodable
  PROVE  /\ Payload \in Seq(Byte)
         /\ EncodedSize = MSG_HEADER_SIZE + Len(Payload)
              + Total([s \in Slots |-> IF Writable(values[s]) THEN 0 ELSE SizeInMessage(values[s])], capacity)
         /\ Total([s \in Slots |-> IF Writable(values[s]) THEN 0 ELSE SizeInMessage(values[s])], capacity)
              \in Nat
  <1> DEFINE out == [s \in Slots |-> IF Writable(values[s]) THEN 0 ELSE SizeInMessage(values[s])]
  <1>1. capacity \in Nat /\ values \in [Slots -> Value]
    BY DEF Inv, TypeOK
  <1>2. \A s \in Slots : Whole(values[s]) /\ values[s].data \notin {Null, Wild}
    BY DEF Inv, Sound, Encodable
  <1>3. Slots = 0 .. capacity - 1
    BY DEF Slots
  <1>4. PICK n \in Nat : n = capacity
    BY <1>1
  <1>5. PICK vals \in [0 .. n - 1 -> Value] : vals = values
    BY <1>1, <1>3, <1>4
  <1>6. /\ FlattenSeq([k \in 1 .. n |-> EncodeValue(vals[k - 1])]) \in Seq(Byte)
        /\ Total([s \in 0 .. n - 1 |-> SizeInMessage(vals[s])], n)
                = Len(FlattenSeq([k \in 1 .. n |-> EncodeValue(vals[k - 1])]))
                  + Total([s \in 0 .. n - 1 |-> IF Writable(vals[s]) THEN 0 ELSE SizeInMessage(vals[s])], n)
    BY <1>2, <1>3, <1>4, <1>5, PayloadSize
  <1>7. Payload \in Seq(Byte)
    BY <1>4, <1>5, <1>6 DEF Payload
  <1>8. Total([s \in Slots |-> SizeInMessage(values[s])], capacity) = Len(Payload) + Total(out, capacity)
    BY <1>3, <1>4, <1>5, <1>6 DEF Payload
  <1>9. Total(out, capacity) \in Nat
    <2>1. out \in [0 .. n - 1 -> Nat]
      BY <1>1, <1>3, <1>4, Sizes
    <2>2. PICK sizes \in [0 .. n - 1 -> Nat] : sizes = out
      BY <2>1
    <2>3. \E f \in [0 .. n -> Nat] : Total(sizes, n) = f[n]
      BY TotalUpTo
    <2>4. Total(sizes, n) \in Nat
      BY <2>3
    <2> QED BY <1>4, <2>2, <2>4
  <1> HIDE DEF out
  <1>10. EncodedSize = MSG_HEADER_SIZE + Len(Payload) + Total(out, capacity)
    <2>1. EncodedSize = MSG_HEADER_SIZE + (Len(Payload) + Total(out, capacity))
      BY <1>8 DEF EncodedSize
    <2>2. Len(Payload) \in Nat
      BY <1>7
    <2> QED BY <1>9, <2>1, <2>2 DEF MSG_HEADER_SIZE
  <1> QED BY <1>7, <1>9, <1>10 DEF out

LEMMA EncodeInv ==
  ASSUME Inv, NEW size \in BufferSizes, Encode(size)
  PROVE  Inv'
  <1>1. UNCHANGED message
    BY DEF Encode
  <1>2. ASSUME ret' \in Int, got' = <<>>, wire' \in Seq(Byte), UNCHANGED loop
        PROVE  Inv'
    BY <1>1, <1>2 DEF Inv, Sound, TypeOK, loop, message, Slots
  <1>3. CASE Returns(SMP_ERROR_NO_MEM) /\ UNCHANGED <<loop, coded>>
    BY <1>2, <1>3, Errors DEF Returns, coded, Inv, TypeOK
  <1>4. CASE Returns(SMP_ERROR_OVERFLOW) /\ UNCHANGED <<loop, coded>>
    BY <1>2, <1>4, Errors DEF Returns, coded, Inv, TypeOK
  <1>6. CASE Undefined /\ UNCHANGED coded
    <2>1. /\ pc' = "undefined" /\ buffer' \in Seq(Byte) /\ offset' \in Nat /\ i' \in Nat
          /\ fresh' \in {"yes", "no"} /\ ret' \in Int /\ got' \in Seq(Data)
      BY <1>6, UndefinedTyped
    <2> QED BY <1>1, <1>6, <2>1 DEF Inv, Sound, TypeOK, message, coded, Slots
  <1>5. CASE /\ Encodable /\ Len(Payload) <= UINT32_MAX
             /\ wire' = msgid \o LE32(Len(Payload)) \o Payload
             /\ Returns(Len(wire')) /\ UNCHANGED loop
    <2>1. Payload \in Seq(Byte) /\ Len(Payload) \in Nat
      BY <1>5, PayloadBytes
    <2>2. PICK n \in Nat : n = Len(Payload)
      BY <2>1
    <2>3. LE32(n) \in Seq(Byte)
      BY <1>5, <2>2, LE32Bytes, MessageAssumption
    <2>4. msgid \in Seq(Byte)
      BY DEF Inv, TypeOK
    <2> DEFINE h == msgid \o LE32(n)
    <2>5. h \in Seq(Byte)
      BY <2>3, <2>4, ConcatProperties
    <2>6. wire' = h \o Payload
      BY <1>5, <2>2
    <2> HIDE DEF h
    <2>7. wire' \in Seq(Byte)
      BY <2>1, <2>5, <2>6, ConcatProperties
    <2>8. ret' \in Int /\ got' = <<>>
      BY <1>5, <2>7 DEF Returns
    <2> QED BY <1>2, <1>5, <2>7, <2>8
  <1> QED BY <1>3, <1>4, <1>5, <1>6, Zenon DEF Encode

\* The buffer is given back and the loop is over.
LEMMA ReturnTyped ==
  ASSUME NEW r \in Int, Return(r)
  PROVE  /\ pc' = "idle" /\ buffer' \in Seq(Byte) /\ offset' \in Nat /\ i' \in Nat
         /\ fresh' = "no" /\ ret' \in Int /\ got' \in Seq(Data)
  BY DEF Return, Returns

LEMMA BuildInv ==
  ASSUME Inv, NEW bytes \in Seq(Byte), Build(bytes)
  PROVE  Inv' /\ (pc' = "build" => offset' <= Len(buffer'))
  <1>1. UNCHANGED <<alloc, capacity, values, coded>> /\ alloc # "none"
    BY DEF Build
  <1>2. ASSUME msgid' \in Seq(Byte),
               /\ pc' = "idle" /\ buffer' \in Seq(Byte) /\ offset' \in Nat /\ i' \in Nat
               /\ fresh' = "no" /\ ret' \in Int /\ got' \in Seq(Data)
        PROVE  Inv' /\ (pc' = "build" => offset' <= Len(buffer'))
    BY <1>1, <1>2 DEF Inv, Sound, TypeOK, coded, Slots
  <1>3. CASE Len(bytes) < MSG_HEADER_SIZE
    <2>1. Return(SMP_ERROR_BAD_MESSAGE) /\ msgid' = msgid
      BY <1>3 DEF Build, MSG_HEADER_SIZE
    <2> QED BY <1>2, <2>1, ReturnTyped, Errors DEF Inv, TypeOK
  <1>4. CASE Len(bytes) >= MSG_HEADER_SIZE
    <2>1. msgid' \in Seq(Byte)
      <3>1. msgid' = SubSeq(bytes, 1, 4)
        BY <1>4 DEF Build, MSG_HEADER_SIZE
      <3>2. \A j \in 1 .. 4 : bytes[j] \in Byte
        BY <1>4 DEF MSG_HEADER_SIZE
      <3> QED BY <3>1, <3>2, SubSeqProperties
    <2>2. CASE Return(SMP_ERROR_BAD_MESSAGE)
      BY <1>2, <2>1, <2>2, ReturnTyped, Errors
    <2>3. CASE /\ pc' = "build" /\ buffer' = bytes /\ offset' = MSG_HEADER_SIZE /\ i' = 0
               /\ fresh' = (IF values = Clear(capacity) THEN "yes" ELSE "no")
               /\ UNCHANGED result
      <3>1. fresh' \in {"yes", "no"}
        BY <2>3
      <3>2. offset' \in Nat /\ offset' <= Len(buffer') /\ i' \in Nat
        BY <1>4, <2>3 DEF MSG_HEADER_SIZE
      <3>3. capacity \in Nat
        BY DEF Inv, TypeOK
      <3>4. Sound'
        BY <1>1, <2>3, <3>3 DEF Sound, Inv, Slots
      <3>5. TypeOK'
        BY <1>1, <2>1, <2>3, <3>1, <3>2 DEF Inv, TypeOK, coded, result, Slots
      <3> QED BY <3>2, <3>4, <3>5 DEF Inv
    <2> QED BY <1>4, <2>2, <2>3 DEF Build, MSG_HEADER_SIZE
  <1> QED BY <1>3, <1>4 DEF MSG_HEADER_SIZE

\* Every string of size 0 in the buffer has a zero byte somewhere behind it.
StringsEnd(b) ==
    \A p \in DOMAIN b :
        p + 3 <= Len(b) /\ b[p] = TYPE_STRING /\ b[p + 1] = 0 /\ b[p + 2] = 0
            => \E q \in p + 3 .. Len(b) : b[q] = 0

\* A step of the loop: the value at i is decoded, the others stay.
LEMMA DecodeStep ==
  ASSUME Inv, pc = "build", offset < Len(buffer),
         NEW n \in Nat, i < n, NEW vals \in [0 .. n - 1 -> Value],
         \A s \in 0 .. n - 1 : Whole(vals[s]), DecodeInto(vals)
  PROVE  /\ values' \in [0 .. n - 1 -> Value]
         /\ \A s \in 0 .. n - 1 : Whole(values'[s]) /\ (s # i => values'[s] = vals[s])
         /\ \/ /\ pc' = "idle" /\ buffer' \in Seq(Byte) /\ offset' \in Nat /\ i' \in Nat
               /\ fresh' = "no" /\ ret' \in Int /\ got' \in Seq(Data)
            \/ /\ UNCHANGED <<pc, result, buffer, fresh>> /\ i' = i + 1
               /\ offset' \in Nat /\ offset' > offset /\ values'[i].type # TYPE_NONE
               /\ StringsEnd(buffer) => offset' <= Len(buffer)
  <1>1. /\ buffer \in Seq(Byte) /\ offset \in Nat /\ i \in Nat /\ i \in 0 .. n - 1 /\ Len(buffer) \in Nat
    BY DEF Inv, TypeOK
  <1> DEFINE rest == SubSeq(buffer, offset + 1, Len(buffer))
             d == DecodeValue(rest, vals[i])
  <1>2. /\ rest \in Seq(Byte) /\ Len(rest) = Len(buffer) - offset
        /\ \A k \in 1 .. Len(buffer) - offset : rest[k] = buffer[offset + k]
    <2>1. \A j \in offset + 1 .. Len(buffer) : buffer[j] \in Byte
      BY <1>1
    <2>2. rest \in Seq(Byte) /\ Len(rest) = Len(buffer) - offset
      BY <1>1, <2>1
    <2>3. ASSUME NEW k \in 1 .. Len(buffer) - offset PROVE rest[k] = buffer[offset + k]
      BY <1>1
    <2> QED BY <2>2, <2>3
  <1>3. values' = [vals EXCEPT ![i] = d.value]
    BY DEF DecodeInto
  <1>4. \/ d.error < 0 /\ Return(d.error)
        \/ /\ d.error = 0 /\ offset' = offset + d.used /\ i' = i + 1
           /\ UNCHANGED <<pc, result, buffer, fresh>>
    BY DEF DecodeInto
  <1>5. /\ d.value \in Value /\ Whole(d.value) /\ d.error \in {0, SMP_ERROR_BAD_MESSAGE}
        /\ d.error = 0 =>
                /\ d.value.type # TYPE_NONE /\ d.used \in Nat /\ d.used >= 1
                /\ \/ d.used <= Len(rest)
                   \/ /\ Len(rest) >= 4 /\ rest[1] = TYPE_STRING /\ rest[2] = 0 /\ rest[3] = 0
                      /\ \A q \in 4 .. Len(rest) : rest[q] # 0
    <2>1. rest # <<>>
      BY <1>1, <1>2
    <2>2. vals[i] \in Value /\ Whole(vals[i])
      BY <1>1
    <2> HIDE DEF rest, d
    <2>3. PICK r \in Seq(Byte) : r = rest
      BY <1>2
    <2>4. PICK old \in Value : old = vals[i]
      BY <2>2
    <2>5. PICK e : e = DecodeValue(r, old)
      OBVIOUS
    <2>6. e = d
      BY <2>3, <2>4, <2>5 DEF d
    <2> QED BY <2>1, <2>2, <2>3, <2>4, <2>5, <2>6, DecodedValue
  <1> HIDE DEF d
  <1>6. values' \in [0 .. n - 1 -> Value]
    BY <1>1, <1>3, <1>5
  <1>7. values'[i] = d.value
    BY <1>1, <1>3
  <1>8. \A s \in 0 .. n - 1 : s # i => values'[s] = vals[s]
    BY <1>3
  <1>9. \A s \in 0 .. n - 1 : Whole(values'[s])
    BY <1>5, <1>7, <1>8
  <1>10. CASE d.error < 0 /\ Return(d.error)
    BY <1>5, <1>6, <1>8, <1>9, <1>10, ReturnTyped, Errors
  <1>11. CASE /\ d.error = 0 /\ offset' = offset + d.used /\ i' = i + 1
              /\ UNCHANGED <<pc, result, buffer, fresh>>
    <2>1. offset' \in Nat /\ offset' > offset
      BY <1>1, <1>5, <1>11
    <2>2. ASSUME StringsEnd(buffer) PROVE offset' <= Len(buffer)
      <3>1. CASE d.used <= Len(rest)
        BY <1>1, <1>2, <1>5, <1>11, <3>1
      <3>2. CASE /\ Len(rest) >= 4 /\ rest[1] = TYPE_STRING /\ rest[2] = 0 /\ rest[3] = 0
                 /\ \A q \in 4 .. Len(rest) : rest[q] # 0
        <4> HIDE DEF rest
        <4> DEFINE p == offset + 1
        <4>1. p \in 1 .. Len(buffer) /\ p + 3 <= Len(buffer)
          BY <1>1, <1>2, <3>2
        <4>2. buffer[p] = TYPE_STRING /\ buffer[p + 1] = 0 /\ buffer[p + 2] = 0
          <5>1. offset + 1 = p /\ offset + 2 = p + 1 /\ offset + 3 = p + 2
            BY <1>1
          <5>2. 1 \in 1 .. Len(buffer) - offset /\ 2 \in 1 .. Len(buffer) - offset
                /\ 3 \in 1 .. Len(buffer) - offset
            BY <1>1, <1>2, <3>2
          <5> HIDE DEF p
          <5> QED BY <1>2, <3>2, <5>1, <5>2
        <4> HIDE DEF p
        <4>3. PICK q \in p + 3 .. Len(buffer) : buffer[q] = 0
          <5>1. p \in DOMAIN buffer
            BY <1>1, <4>1
          <5> QED BY <2>2, <4>1, <4>2, <5>1, Zenon DEF StringsEnd
        <4> USE DEF p
        <4>4. q - offset \in 4 .. Len(rest) /\ q - offset \in 1 .. Len(buffer) - offset
              /\ offset + (q - offset) = q
          BY <1>1, <1>2, <3>2
        <4>5. rest[q - offset] = buffer[offset + (q - offset)]
          BY <1>2, <4>4
        <4> QED BY <3>2, <4>3, <4>4, <4>5
      <3> QED BY <1>5, <1>11, <3>1, <3>2
    <2> QED BY <1>5, <1>6, <1>7, <1>8, <1>9, <1>11, <2>1, <2>2
  <1> QED BY <1>4, <1>10, <1>11

\* One slot of build_from_buffer, in the array it has or in the one grown for it.
LEMMA BuildValueStep ==
  ASSUME Inv, BuildValue
  PROVE  \/ UNCHANGED <<alloc, msgid, capacity, values, coded>> /\ \E r \in Int : Return(r)
         \/ UNCHANGED <<alloc, msgid, coded>> /\ alloc = "heap"
            /\ \E n \in Nat : n > capacity /\ GrowWrapped(n)
         \/ \E n \in Nat : \E vals \in [0 .. n - 1 -> Value] :
              /\ i < n /\ capacity' = n /\ n >= capacity /\ (n # capacity => i = capacity /\ ~Overflows(n))
              /\ \A s \in 0 .. n - 1 : Whole(vals[s])
              /\ \A s \in 0 .. n - 1 : vals[s] = IF s \in Slots THEN values[s] ELSE Empty
              /\ DecodeInto(vals) /\ UNCHANGED <<alloc, msgid, coded>>
  <1>1. capacity \in Nat /\ i \in Nat /\ i <= capacity /\ Slots = 0 .. capacity - 1
        /\ values \in [Slots -> Value] /\ \A s \in Slots : Whole(values[s])
    BY DEF Inv, TypeOK, Sound, BuildValue, Slots
  <1>2. UNCHANGED <<alloc, msgid, coded>>
    BY DEF BuildValue
  <1>3. CASE i < capacity /\ DecodeInto(values) /\ UNCHANGED capacity
    <2>1. PICK n \in Nat : n = capacity
      BY <1>1
    <2>2. PICK vals \in [0 .. n - 1 -> Value] : vals = values
      BY <1>1, <2>1
    <2>3. /\ i < n /\ capacity' = n /\ n >= capacity /\ (n # capacity => i = capacity /\ ~Overflows(n))
          /\ \A s \in 0 .. n - 1 : Whole(vals[s])
          /\ \A s \in 0 .. n - 1 : vals[s] = IF s \in Slots THEN values[s] ELSE Empty
      BY <1>1, <1>3, <2>1, <2>2
    <2>4. DecodeInto(vals)
      BY <1>3, <2>2
    <2> QED BY <1>2, <2>3, <2>4
  <1>0. NextPow2(capacity + 1) \in capacity + 1 .. 2 * (capacity + 1)
    <2>1. PICK n \in Nat \ {0} : n = capacity + 1
      BY <1>1
    <2> QED BY <2>1, NextPow2Bounds
  <1>6. CASE alloc = "heap" /\ GrowWrapped(NextPow2(capacity + 1))
    <2>1. PICK n \in Nat : n = NextPow2(capacity + 1) /\ n > capacity
      BY <1>0, <1>1
    <2> QED BY <1>2, <1>6, <2>1
  <1>4. CASE /\ i >= capacity /\ alloc = "heap"
             /\ ~Overflows(NextPow2(capacity + 1)) /\ capacity' = NextPow2(capacity + 1)
             /\ DecodeInto(Extended(NextPow2(capacity + 1)))
    <2>2. PICK n \in Nat : n = NextPow2(capacity + 1) /\ n = capacity' /\ n >= capacity + 1
      BY <1>0, <1>1, <1>4
    <2>3. /\ Extended(n) \in [0 .. n - 1 -> Value]
          /\ \A s \in 0 .. n - 1 : Whole(Extended(n)[s])
          /\ \A s \in 0 .. n - 1 : s \in Slots => Extended(n)[s] = values[s]
          /\ \A s \in 0 .. n - 1 : s >= capacity => Extended(n)[s] = Empty
      BY ExtendedValues
    <2>4. PICK vals \in [0 .. n - 1 -> Value] : vals = Extended(n)
      BY <2>3
    <2>5. \A s \in 0 .. n - 1 : Whole(vals[s])
      BY <2>3, <2>4
    <2>6. \A s \in 0 .. n - 1 : vals[s] = IF s \in Slots THEN values[s] ELSE Empty
      <3> SUFFICES ASSUME NEW s \in 0 .. n - 1 PROVE vals[s] = IF s \in Slots THEN values[s] ELSE Empty
        OBVIOUS
      <3>1. s \in Slots \/ s >= capacity
        BY <1>1
      <3>2. s >= capacity => s \notin Slots
        BY <1>1
      <3> QED BY <2>3, <2>4, <3>1, <3>2
    <2>7. DecodeInto(vals)
      BY <1>4, <2>2, <2>4
    <2>8. i < n /\ n >= capacity /\ i = capacity /\ ~Overflows(n)
      BY <1>1, <1>4, <2>2
    <2> QED BY <1>2, <1>4, <2>2, <2>5, <2>6, <2>7, <2>8
  <1>5. CASE UNCHANGED <<capacity, values>> /\ (Return(SMP_ERROR_NO_MEM) \/ Return(SMP_ERROR_TOO_BIG))
    BY <1>2, <1>5, Errors
  <1>7. CASE i >= capacity /\ alloc = "heap" /\ Grow
    BY <1>4, <1>5, <1>6, <1>7, Zenon DEF Grow
  <1>8. CASE i >= capacity /\ alloc = "static" /\ TooMany
    BY <1>5, <1>8 DEF TooMany
  <1> QED BY <1>3, <1>7, <1>8, Zenon DEF BuildValue

LEMMA BuildValueInv ==
  ASSUME Inv, BuildValue
  PROVE  Inv'
  <1>1. pc = "build" /\ offset < Len(buffer)
    BY DEF BuildValue
  <1>2. CASE UNCHANGED <<alloc, msgid, capacity, values, coded>> /\ \E r \in Int : Return(r)
    <2>1. /\ pc' = "idle" /\ buffer' \in Seq(Byte) /\ offset' \in Nat /\ i' \in Nat
          /\ fresh' = "no" /\ ret' \in Int /\ got' \in Seq(Data)
      BY <1>2, ReturnTyped
    <2> QED BY <1>2, <2>1 DEF Inv, Sound, TypeOK, coded, Slots
  <1>3. ASSUME NEW n \in Nat, NEW vals \in [0 .. n - 1 -> Value],
               i < n, capacity' = n, \A s \in 0 .. n - 1 : Whole(vals[s]),
               DecodeInto(vals), UNCHANGED <<alloc, msgid, coded>>
        PROVE  Inv'
    <2>1. /\ values' \in [0 .. n - 1 -> Value]
          /\ \A s \in 0 .. n - 1 : Whole(values'[s])
          /\ \/ /\ pc' = "idle" /\ buffer' \in Seq(Byte) /\ offset' \in Nat /\ i' \in Nat
                /\ fresh' = "no" /\ ret' \in Int /\ got' \in Seq(Data)
             \/ /\ UNCHANGED <<pc, result, buffer, fresh>> /\ i' = i + 1 /\ offset' \in Nat
      BY <1>1, <1>3, DecodeStep
    <2>2. Slots' = 0 .. n - 1
      BY <1>3 DEF Slots
    <2>3. values' \in [Slots' -> Value] /\ \A s \in Slots' : Whole(values'[s])
      BY <2>1, <2>2
    <2>4. /\ pc' \in {"idle", "build"} /\ buffer' \in Seq(Byte) /\ offset' \in Nat /\ i' \in Nat
          /\ fresh' \in {"yes", "no"} /\ ret' \in Int /\ got' \in Seq(Data)
          /\ pc' = "build" => i' <= n
      <3>1. CASE /\ pc' = "idle" /\ buffer' \in Seq(Byte) /\ offset' \in Nat /\ i' \in Nat
                 /\ fresh' = "no" /\ ret' \in Int /\ got' \in Seq(Data)
        BY <3>1
      <3>2. CASE UNCHANGED <<pc, result, buffer, fresh>> /\ i' = i + 1 /\ offset' \in Nat
        BY <1>3, <3>2 DEF Inv, TypeOK, result
      <3> QED BY <2>1, <3>1, <3>2
    <2>5. alloc' \in {"none", "heap", "static"} /\ alloc' # "none" /\ msgid' \in Seq(Byte) /\ wire' \in Seq(Byte)
      BY <1>1, <1>3 DEF Inv, TypeOK, Sound, coded
    <2>6. TypeOK'
      BY <1>3, <2>3, <2>4, <2>5 DEF TypeOK
    <2>7. Sound'
      BY <1>3, <2>3, <2>4, <2>5 DEF Sound
    <2> QED BY <2>6, <2>7 DEF Inv
  <1>4. CASE UNCHANGED <<alloc, msgid, coded>> /\ \E n \in Nat : n > capacity /\ GrowWrapped(n)
    BY <1>4, GrowWrappedInv
  <1> HIDE DEF Inv
  <1> QED BY <1>2, <1>3, <1>4, BuildValueStep

LEMMA BuildEndInv ==
  ASSUME Inv, BuildEnd
  PROVE  Inv'
  <1>1. /\ pc' = "idle" /\ buffer' \in Seq(Byte) /\ offset' \in Nat /\ i' \in Nat
        /\ fresh' = "no" /\ ret' \in Int /\ got' \in Seq(Data)
    BY ReturnTyped DEF BuildEnd
  <1>2. UNCHANGED <<message, coded>>
    BY DEF BuildEnd
  <1> QED BY <1>1, <1>2 DEF Inv, Sound, TypeOK, message, coded, Slots

LEMMA InitInv ==
  ASSUME Init
  PROVE  Inv
  <1>1. Slots = {} /\ values = Clear(0) /\ 0 .. 0 - 1 = {}
    BY DEF Init, Slots
  <1>2. values \in [Slots -> Value]
    BY <1>1 DEF Clear
  <1>3. <<>> \in Seq(Byte) /\ <<>> \in Seq(Data)
    OBVIOUS
  <1> QED BY <1>1, <1>2, <1>3, NoIdIsId DEF Init, Inv, TypeOK, Sound

\* The buffers build_from_buffer is given: arbitrary ones, and what encode wrote.
LEMMA BuffersAreBytes ==
  ASSUME Inv, NEW bytes \in IF wire = <<>> THEN Buffers ELSE {wire}
  PROVE  bytes \in Seq(Byte)
  BY MessageAssumption DEF Inv, TypeOK

LEMMA StepInv ==
  ASSUME Inv, [Next]_vars
  PROVE  Inv'
  <1>1. CASE UNCHANGED vars
    BY <1>1 DEF vars, message, loop, result, coded, Inv, Sound, TypeOK, Slots
  <1>2. ASSUME NEW id \in Ids, NewWithId(id) \/ SetId(id) \/ \E n \in StaticCapacities : NewFromStatic(n, id)
        PROVE  Inv'
    BY <1>2, NewInv, SetIdInv, NewFromStaticInv
  <1>3. CASE Free \/ ClearMessage
    BY <1>3, FreeInv, ClearMessageInv
  <1>4. ASSUME NEW list \in Settings, Set(list) PROVE Inv'
    <2>1. list \in Seq(Setting)
      BY MessageAssumption
    <2>2. \A k \in DOMAIN list : Whole(list[k].value)
      BY MessageAssumption
    <2> QED BY <1>4, <2>1, <2>2, SetInv
  <1>5. ASSUME NEW s \in SingleSettings, SetTyped(s.index, s.value) PROVE Inv'
    BY <1>5, SetTypedInv
  <1>6. ASSUME NEW list \in Requests, Get(list) PROVE Inv'
    <2>1. list \in Seq(Request)
      BY MessageAssumption
    <2> QED BY <1>6, <2>1, GetInv
  <1>7. ASSUME NEW r \in SingleRequests, GetTyped(r.index, r.type) PROVE Inv'
    BY <1>7, GetTypedInv
  <1>8. ASSUME NEW n \in Capacities, SetCapacity(n) PROVE Inv'
    BY <1>8, SetCapacityInv
  <1>9. ASSUME NEW size \in BufferSizes, Encode(size) PROVE Inv'
    BY <1>9, EncodeInv
  <1>10. ASSUME NEW bytes \in IF wire = <<>> THEN Buffers ELSE {wire}, Build(bytes) PROVE Inv'
    <2>1. bytes \in Seq(Byte)
      BY BuffersAreBytes
    <2> QED BY <1>10, <2>1, BuildInv
  <1>11. CASE BuildStep
    BY <1>11, BuildValueInv, BuildEndInv DEF BuildStep
  <1>13. CASE Stopped
    BY <1>1, <1>13 DEF Stopped
  <1>12. CASE Next
    BY <1>12, <1>2, <1>3, <1>4, <1>5, <1>6, <1>7, <1>8, <1>9, <1>10, <1>11, <1>13 DEF Next
  <1> QED BY <1>1, <1>12

LEMMA InvHolds == Spec => []Inv
  <1>1. Init => Inv
    BY InitInv
  <1>2. Inv /\ [Next]_vars => Inv'
    BY StepInv
  <1> QED BY <1>1, <1>2, PTL DEF Spec

(***************************************************************************)
(* Whatever is built, set, grown and encoded, in any order and also after  *)
(* a build that failed half way, the array has as many slots as the        *)
(* message says, and every slot holds a value.                             *)
(***************************************************************************)
THEOREM TypeCorrect == Spec => []TypeOK
  BY InvHolds, PTL DEF Inv

-----------------------------------------------------------------------------
(* What the steps leave alone *)

\* Outside of build_from_buffer nothing touches its loop, and no other call runs
\* while it does.
LEMMA StepKinds ==
  ASSUME Inv, Next
  PROVE  \/ pc = "idle" /\ (UNCHANGED loop \/ pc' = "undefined")
         \/ \E bytes \in Seq(Byte) : Build(bytes)
         \/ BuildStep
         \/ UNCHANGED vars
  <1>1. ASSUME NEW id \in Ids, NewWithId(id) \/ SetId(id) \/ \E n \in StaticCapacities : NewFromStatic(n, id)
        PROVE  pc = "idle" /\ UNCHANGED loop
    BY <1>1 DEF NewWithId, SetId, NewFromStatic
  <1>2. CASE Free \/ ClearMessage
    BY <1>2 DEF Free, ClearMessage
  <1>3. ASSUME NEW list, Set(list) \/ Get(list)
        PROVE  pc = "idle" /\ UNCHANGED loop
    BY <1>3 DEF Set, Get
  <1>4. ASSUME NEW n \in Capacities, SetCapacity(n)
        PROVE  pc = "idle" /\ (UNCHANGED loop \/ pc' = "undefined")
    BY <1>4, Zenon DEF SetCapacity, GrowWrapped, Undefined
  <1>5. ASSUME NEW size \in BufferSizes, Encode(size)
        PROVE  pc = "idle" /\ (UNCHANGED loop \/ pc' = "undefined")
    BY <1>5, Zenon DEF Encode, Undefined
  <1>6. ASSUME NEW bytes \in IF wire = <<>> THEN Buffers ELSE {wire}, Build(bytes)
        PROVE  \E b \in Seq(Byte) : Build(b)
    BY <1>6, BuffersAreBytes
  <1>7. ASSUME NEW s \in SingleSettings, SetTyped(s.index, s.value)
        PROVE  pc = "idle" /\ UNCHANGED loop
    BY <1>3, <1>7 DEF SetTyped
  <1>8. ASSUME NEW r \in SingleRequests, GetTyped(r.index, r.type)
        PROVE  pc = "idle" /\ UNCHANGED loop
    BY <1>3, <1>8 DEF GetTyped
  <1> HIDE DEF Inv
  <1>9. CASE Stopped
    BY <1>9 DEF Stopped
  <1> QED BY <1>1, <1>2, <1>3, <1>4, <1>5, <1>6, <1>7, <1>8, <1>9 DEF Next

-----------------------------------------------------------------------------
(* The loop stays in its buffer *)

ReadsInBuffer == StringsEnd(buffer) => BuildInBuffer

LEMMA StepReadsInBuffer ==
  ASSUME Inv, ReadsInBuffer, [Next]_vars
  PROVE  ReadsInBuffer'
  <1>1. CASE UNCHANGED loop
    BY <1>1 DEF ReadsInBuffer, StringsEnd, BuildInBuffer, loop
  <1>2. ASSUME NEW bytes \in Seq(Byte), Build(bytes)
        PROVE  ReadsInBuffer'
    BY <1>2, BuildInv DEF ReadsInBuffer, BuildInBuffer
  <1>3. CASE pc' # "build"
    BY <1>3 DEF ReadsInBuffer, BuildInBuffer
  <1>4. CASE BuildValue
    <2>1. pc = "build" /\ offset < Len(buffer)
      BY <1>4 DEF BuildValue
    <2>2. ASSUME NEW n \in Nat, NEW vals \in [0 .. n - 1 -> Value],
                 i < n, \A s \in 0 .. n - 1 : Whole(vals[s]), DecodeInto(vals)
          PROVE  pc' # "build" \/ (buffer' = buffer /\ (StringsEnd(buffer) => offset' <= Len(buffer)))
      BY <2>1, <2>2, DecodeStep
    <2>3. pc' # "build" \/ (buffer' = buffer /\ (StringsEnd(buffer) => offset' <= Len(buffer)))
      <3>1. CASE \E r \in Int : Return(r)
        BY <3>1, ReturnTyped
      <3>2. CASE \E n \in Nat : GrowWrapped(n)
        BY <3>2 DEF GrowWrapped, Undefined
      <3> HIDE DEF Inv
      <3> QED BY <1>4, <2>2, <3>1, <3>2, BuildValueStep
    <2>4. CASE buffer' = buffer /\ (StringsEnd(buffer) => offset' <= Len(buffer))
      BY <2>4 DEF ReadsInBuffer, BuildInBuffer
    <2> QED BY <1>3, <2>3, <2>4
  <1>5. CASE BuildEnd
    <2>1. pc' = "idle"
      BY <1>5 DEF BuildEnd, Return
    <2> QED BY <1>3, <2>1
  <1>6. CASE UNCHANGED vars
    BY <1>1, <1>6 DEF vars
  <1>7. CASE Next
    BY <1>1, <1>2, <1>3, <1>4, <1>5, <1>6, <1>7, StepKinds DEF BuildStep
  <1> QED BY <1>6, <1>7

(***************************************************************************)
(* build_from_buffer never reads past its buffer, unless a string of size  *)
(* 0 has no zero byte behind it: the one case in which the size it takes   *)
(* for a decoded value is not one the buffer has.                          *)
(***************************************************************************)
THEOREM StaysInBuffer == Spec => [](StringsEnd(buffer) => BuildInBuffer)
  <1>1. Init => ReadsInBuffer
    BY DEF Init, ReadsInBuffer, BuildInBuffer
  <1>2. Inv /\ ReadsInBuffer /\ [Next]_vars => ReadsInBuffer'
    BY StepReadsInBuffer
  <1>3. ReadsInBuffer => (StringsEnd(buffer) => BuildInBuffer)
    BY DEF ReadsInBuffer
  <1> QED BY <1>1, <1>2, <1>3, InvHolds, PTL DEF Spec

-----------------------------------------------------------------------------
(* What is behind the values *)

\* Of a build that began on a clear message: the slots it is through hold values, the
\* others are empty, those the array grew by included.
Filled ==
    pc = "build" /\ fresh = "yes" =>
        \A s \in Slots : IF s < i THEN values[s].type # TYPE_NONE ELSE values[s] = Empty

LEMMA StepFilled ==
  ASSUME Inv, Filled, [Next]_vars
  PROVE  Filled'
  <1>1. CASE pc' # "build"
    BY <1>1 DEF Filled
  <1>2. CASE pc = "idle" /\ (UNCHANGED loop \/ pc' = "undefined")
    BY <1>1, <1>2 DEF loop
  <1>3. ASSUME NEW bytes \in Seq(Byte), Build(bytes)
        PROVE  Filled'
    <2> SUFFICES ASSUME pc' = "build", fresh' = "yes"
                 PROVE  i' = 0 /\ values' = Clear(capacity) /\ capacity' = capacity
      <3>1. ASSUME i' = 0, values' = Clear(capacity), capacity' = capacity
            PROVE  Filled'
        <4>1. capacity \in Nat /\ Slots' = 0 .. capacity - 1
          BY <3>1 DEF Inv, TypeOK, Slots
        <4>2. \A s \in 0 .. capacity - 1 : values'[s] = Empty
          BY <3>1, <4>1, ClearValues
        <4> QED BY <3>1, <4>1, <4>2 DEF Filled
      <3> QED BY <3>1 DEF Filled
    <2>1. pc = "idle" /\ UNCHANGED <<alloc, capacity, values, coded>>
      BY <1>3 DEF Build
    <2>2. ASSUME NEW r, Return(r) PROVE FALSE
      BY <2>2 DEF Return
    <2>3. i' = 0 /\ fresh' = IF values = Clear(capacity) THEN "yes" ELSE "no"
      BY <1>3, <2>2 DEF Build
    <2> QED BY <2>1, <2>3
  <1>4. CASE BuildValue
    <2>1. /\ pc = "build" /\ offset < Len(buffer) /\ capacity \in Nat /\ i \in Nat /\ i <= capacity
          /\ Slots = 0 .. capacity - 1
      BY <1>4 DEF BuildValue, Inv, TypeOK, Sound, Slots
    <2>2. ASSUME NEW n \in Nat, NEW vals \in [0 .. n - 1 -> Value],
                 i < n, capacity' = n, n >= capacity, \A s \in 0 .. n - 1 : Whole(vals[s]),
                 \A s \in 0 .. n - 1 : vals[s] = IF s \in Slots THEN values[s] ELSE Empty,
                 DecodeInto(vals)
          PROVE  Filled'
      <3> SUFFICES ASSUME pc' = "build", fresh' = "yes", NEW s \in 0 .. n - 1
                   PROVE  IF s < i' THEN values'[s].type # TYPE_NONE ELSE values'[s] = Empty
        BY <2>2 DEF Filled, Slots
      <3>1. /\ \A q \in 0 .. n - 1 : q # i => values'[q] = vals[q]
            /\ fresh' = fresh /\ i' = i + 1 /\ values'[i].type # TYPE_NONE
        BY <2>1, <2>2, DecodeStep
      <3>2. \A q \in Slots : IF q < i THEN values[q].type # TYPE_NONE ELSE values[q] = Empty
        BY <2>1, <3>1 DEF Filled
      <3>3. CASE s = i
        BY <2>1, <3>1, <3>3
      <3>4. CASE s < i
        <4>1. s \in Slots /\ s # i
          BY <2>1, <3>4
        <4>2. values'[s] = values[s]
          BY <2>2, <3>1, <4>1
        <4> QED BY <2>1, <3>1, <3>2, <3>4, <4>1, <4>2
      <3>5. CASE s > i
        <4>1. values'[s] = IF s \in Slots THEN values[s] ELSE Empty
          BY <2>1, <2>2, <3>1, <3>5
        <4>2. values'[s] = Empty
          BY <2>1, <3>2, <3>5, <4>1
        <4> QED BY <2>1, <3>1, <3>5, <4>2
      <3> QED BY <2>1, <3>3, <3>4, <3>5
    <2>3. CASE \E r \in Int : Return(r)
      BY <1>1, <2>3, ReturnTyped
    <2>4. CASE \E n \in Nat : GrowWrapped(n)
      BY <1>1, <2>4 DEF GrowWrapped, Undefined
    <2> HIDE DEF Inv
    <2> QED BY <1>4, <2>2, <2>3, <2>4, BuildValueStep
  <1>5. CASE BuildEnd
    <2>1. pc' = "idle"
      BY <1>5 DEF BuildEnd, Return
    <2> QED BY <1>1, <2>1
  <1>6. CASE UNCHANGED vars
    BY <1>6 DEF vars, message, loop, Filled, Slots
  <1>7. CASE Next
    BY <1>2, <1>3, <1>4, <1>5, <1>6, <1>7, StepKinds DEF BuildStep
  <1> QED BY <1>6, <1>7

LEMMA FilledIsEnough ==
  ASSUME Inv, Filled
  PROVE  NothingStale
  <1> SUFFICES ASSUME Built, fresh = "yes"
               PROVE  NArgs = i /\ \A s \in Slots : s >= i => values[s] = Empty
    BY DEF NothingStale
  <1>1. capacity \in Nat /\ i \in Nat /\ i <= capacity /\ Slots = 0 .. capacity - 1
    BY DEF Inv, TypeOK, Sound, Slots, Built
  <1>2. \A s \in Slots : IF s < i THEN values[s].type # TYPE_NONE ELSE values[s] = Empty
    BY DEF Filled, Built
  <1>3. \A s \in Slots : s >= i => values[s] = Empty
    BY <1>1, <1>2
  <1> DEFINE T == {s \in Slots : values[s].type = TYPE_NONE} \cup {capacity}
  <1>4. \A y \in T : y \in Nat /\ i <= y
    BY <1>1, <1>2
  <1>5. i \in T
    <2>1. CASE i = capacity
      BY <2>1
    <2>2. CASE i < capacity
      <3>1. i \in Slots /\ values[i] = Empty
        BY <1>1, <1>3, <2>2
      <3> QED BY <3>1 DEF Empty
    <2> QED BY <1>1, <2>1, <2>2
  <1> HIDE DEF T
  <1>6. T \in SUBSET Nat /\ T # {}
    BY <1>4, <1>5
  <1>7. Min(T) \in T /\ \A y \in T : Min(T) <= y
    <2>1. PICK Q \in SUBSET Nat : Q = T
      BY <1>6
    <2> QED BY <1>6, <2>1, Minimum
  <1>8. Min(T) = i
    BY <1>4, <1>5, <1>7
  <1> QED BY <1>3, <1>8 DEF NArgs, T

(***************************************************************************)
(* Built into a clear message, n values are at 0 .. n - 1 and the slots    *)
(* behind them are empty, however large the message is and however often   *)
(* build_from_buffer grew its array.                                       *)
(***************************************************************************)
THEOREM BuiltWithoutHoles == Spec => []NothingStale
  <1>1. Init => Filled
    BY DEF Init, Filled
  <1>2. Inv /\ Filled /\ [Next]_vars => Filled'
    BY StepFilled
  <1>3. Inv /\ Filled => NothingStale
    BY FilledIsEnough
  <1> QED BY <1>1, <1>2, <1>3, InvHolds, PTL DEF Spec

-----------------------------------------------------------------------------
(* Sizes, and growing *)

(***************************************************************************)
(* encode writes as many bytes as it asks for room, less the values that   *)
(* do not fit their size field: the sizes computed before agree with what  *)
(* is written, for every message it may be called with.                    *)
(***************************************************************************)
THEOREM ComputedSizesAreWritten == Spec => []SizesAgree
  <1>1. Inv => SizesAgree
    <2> SUFFICES ASSUME Inv, Encodable
                 PROVE  LET out == [s \in Slots |-> IF Writable(values[s]) THEN 0 ELSE SizeInMessage(values[s])]
                        IN  EncodedSize = MSG_HEADER_SIZE + Len(Payload) + Total(out, capacity)
      BY DEF SizesAgree
    <2> QED BY PayloadBytes
  <1> QED BY <1>1, InvHolds, PTL

Keeps ==
    alloc = "heap" /\ alloc' = "heap" /\ capacity' # capacity
        => /\ capacity' > capacity /\ (pc' = "undefined" <=> Overflows(capacity'))
           /\ ~Overflows(capacity') => \A s \in Slots : values'[s] = values[s]

LEMMA StepKeeps ==
  ASSUME Inv, [Next]_vars
  PROVE  Keeps
  <1>0. capacity \in Nat /\ Slots = 0 .. capacity - 1
    BY DEF Inv, TypeOK, Slots
  <1>1. CASE UNCHANGED capacity
    BY <1>1 DEF Keeps
  <1>2. ASSUME NEW id \in Ids, NewWithId(id) \/ SetId(id) \/ \E n \in StaticCapacities : NewFromStatic(n, id)
        PROVE  Keeps
    BY <1>2 DEF NewWithId, SetId, NewFromStatic, Keeps
  <1>3. CASE Free \/ ClearMessage
    BY <1>3 DEF Free, ClearMessage, Keeps
  <1>4. ASSUME NEW n \in Capacities, SetCapacity(n)
        PROVE  Keeps
    <2>1. CASE UNCHANGED capacity
      BY <1>1, <2>1
    <2>0. pc = "idle"
      BY <1>4 DEF SetCapacity
    <2>3. CASE n > capacity /\ GrowWrapped(n)
      BY <2>3 DEF Keeps, GrowWrapped, Undefined
    <2>2. CASE n > capacity /\ ~Overflows(n) /\ capacity' = n /\ values' = Extended(n) /\ UNCHANGED loop
      <3>1. n \in Nat
        BY MessageAssumption
      <3>2. \A s \in 0 .. n - 1 : s \in Slots => Extended(n)[s] = values[s]
        BY <3>1, ExtendedValues
      <3>3. \A s \in Slots : s \in 0 .. n - 1
        BY <1>0, <2>2, <3>1
      <3>4. pc' # "undefined"
        BY <2>0, <2>2 DEF loop
      <3> QED BY <2>2, <3>2, <3>3, <3>4 DEF Keeps
    <2> QED BY <1>4, <2>1, <2>2, <2>3, Zenon DEF SetCapacity
  <1>5. CASE BuildValue
    <2>1. ASSUME NEW n \in Nat, NEW vals \in [0 .. n - 1 -> Value],
                 i < n, capacity' = n, n >= capacity,
                 n # capacity => i = capacity /\ ~Overflows(n),
                 \A s \in 0 .. n - 1 : Whole(vals[s]),
                 \A s \in 0 .. n - 1 : vals[s] = IF s \in Slots THEN values[s] ELSE Empty,
                 DecodeInto(vals)
          PROVE  Keeps
      <3>1. CASE n = capacity
        BY <1>1, <2>1, <3>1
      <3>2. CASE n # capacity
        <4>1. \A s \in 0 .. n - 1 : s # i => values'[s] = vals[s]
          BY <1>5, <2>1, DecodeStep DEF BuildValue
        <4>2. ASSUME NEW s \in Slots PROVE values'[s] = values[s]
          <5>1. s \in 0 .. n - 1 /\ s # i
            BY <1>0, <2>1, <3>2
          <5> QED BY <2>1, <4>1, <5>1
        <4>3. capacity' > capacity /\ ~Overflows(capacity')
          BY <1>0, <2>1, <3>2
        <4>4. pc' # "undefined"
          BY <1>5, <2>1, DecodeStep DEF BuildValue
        <4> QED BY <4>2, <4>3, <4>4 DEF Keeps
      <3> QED BY <3>1, <3>2
    <2>2. ASSUME NEW n \in Nat, n > capacity, GrowWrapped(n) PROVE Keeps
      BY <2>2 DEF Keeps, GrowWrapped, Undefined
    <2> HIDE DEF Inv
    <2> QED BY <1>1, <1>5, <2>1, <2>2, BuildValueStep
  <1>6. ASSUME NEW bytes, Build(bytes) PROVE UNCHANGED capacity
    BY <1>6 DEF Build
  <1>7. CASE BuildEnd
    BY <1>1, <1>7 DEF BuildEnd, message
  <1>8. ASSUME NEW list, Set(list) \/ Get(list) PROVE UNCHANGED capacity
    BY <1>8 DEF Set, Get, message
  <1>9. ASSUME NEW size \in BufferSizes, Encode(size) PROVE UNCHANGED capacity
    BY <1>9 DEF Encode, message
  <1>10. CASE UNCHANGED vars
    BY <1>1, <1>10 DEF vars, message
  <1>11. ASSUME NEW s \in SingleSettings, SetTyped(s.index, s.value) PROVE UNCHANGED capacity
    BY <1>8, <1>11 DEF SetTyped
  <1>12. ASSUME NEW r \in SingleRequests, GetTyped(r.index, r.type) PROVE UNCHANGED capacity
    BY <1>8, <1>12 DEF GetTyped
  <1>14. CASE Stopped
    BY <1>10, <1>14 DEF Stopped
  <1>13. CASE Next
    BY <1>1, <1>2, <1>3, <1>4, <1>5, <1>6, <1>7, <1>8, <1>9, <1>11, <1>12, <1>13, <1>14 DEF Next, BuildStep
  <1> QED BY <1>10, <1>13

(***************************************************************************)
(* An array on the heap never shrinks, and growing it, in set_capacity and *)
(* in the loop of build_from_buffer, keeps every value as long as the size *)
(* in bytes is one a size_t holds; when it is not, and only then, nothing  *)
(* is sure any more.                                                       *)
(***************************************************************************)
THEOREM GrowingKeepsValues == Spec => GrowthKeepsValues
  <1>1. Inv /\ [Next]_vars => Keeps
    BY StepKeeps
  <1>2. Inv /\ [Next]_vars =>
           [ alloc = "heap" /\ alloc' = "heap" /\ capacity' # capacity
               => /\ capacity' > capacity /\ (pc' = "undefined" <=> Overflows(capacity'))
                  /\ ~Overflows(capacity') => \A s \in Slots : values'[s] = values[s] ]_vars
    BY <1>1 DEF Keeps
  <1> QED BY <1>2, InvHolds, PTL DEF Spec, GrowthKeepsValues

-----------------------------------------------------------------------------
(* The parts of an encoding *)

\* What comes behind the others goes behind the rest.
LEMMA FlattenStep ==
  ASSUME NEW S, NEW n \in Nat, NEW m \in Nat, m < n, NEW seqs \in [1 .. n -> Seq(S)]
  PROVE  /\ FlattenSeq([k \in 1 .. m |-> seqs[k]]) \in Seq(S)
         /\ FlattenSeq([k \in 1 .. m + 1 |-> seqs[k]])
                = FlattenSeq([k \in 1 .. m |-> seqs[k]]) \o seqs[m + 1]
  <1> DEFINE p == m + 1
             short == [k \in 1 .. m |-> seqs[k]]
             long  == [k \in 1 .. p |-> seqs[k]]
  <1>0. p \in Nat /\ 1 .. m \subseteq 1 .. n /\ 1 .. p \subseteq 1 .. n /\ m \in 0 .. p /\ p \in 1 .. p /\ p - 1 = m
    OBVIOUS
  <1>1. short \in [1 .. m -> Seq(S)] /\ \A k \in 1 .. m : short[k] = seqs[k]
    BY <1>0
  <1>2. long \in [1 .. p -> Seq(S)] /\ \A k \in 1 .. p : long[k] = seqs[k]
    BY <1>0
  <1> HIDE DEF p, short, long
  <1>3. PICK g \in [0 .. m -> Seq(S)] :
            /\ g[0] = <<>> /\ \A k \in 1 .. m : g[k] = g[k - 1] \o short[k]
            /\ FlattenSeq(short) = g[m]
    BY <1>1, FlattenUpTo
  <1>4. PICK h \in [0 .. p -> Seq(S)] :
            /\ h[0] = <<>> /\ \A k \in 1 .. p : h[k] = h[k - 1] \o long[k]
            /\ FlattenSeq(long) = h[p]
    BY <1>0, <1>2, FlattenUpTo, ZenonT(40)
  <1> DEFINE E == {k \in Nat : k <= m => g[k] = h[k]}
  <1>5. E = Nat
    <2>1. 0 \in E
      BY <1>3, <1>4
    <2>2. ASSUME NEW k \in E PROVE k + 1 \in E
      <3> SUFFICES ASSUME k + 1 <= m PROVE g[k + 1] = h[k + 1]
        OBVIOUS
      <3> DEFINE j == k + 1
      <3>1. j \in 1 .. m /\ j \in 1 .. p /\ j - 1 = k /\ g[k] = h[k]
        BY DEF p
      <3> HIDE DEF j, E
      <3>2. g[j] = g[j - 1] \o short[j] /\ h[j] = h[j - 1] \o long[j]
        BY <1>3, <1>4, <3>1
      <3>3. short[j] = long[j]
        BY <1>1, <1>2, <3>1
      <3>4. g[j] = h[j]
        BY <3>1, <3>2, <3>3
      <3> QED BY <3>4 DEF j
    <2> HIDE DEF E
    <2>3. E \in SUBSET Nat
      BY DEF E
    <2> QED BY <2>1, <2>2, <2>3, Induction
  <1>6. g[m] = h[m]
    BY <1>5
  <1>7. h[p] = h[m] \o long[p] /\ long[p] = seqs[p]
    BY <1>0, <1>2, <1>4
  <1>8. FlattenSeq(short) \in Seq(S) /\ FlattenSeq(long) = FlattenSeq(short) \o seqs[p]
    BY <1>3, <1>4, <1>6, <1>7
  <1> QED BY <1>8 DEF short, long, p

LEMMA FlattenNone ==
  FlattenSeq([k \in 1 .. 0 |-> <<>>]) = <<>>
  <1>1. [k \in 1 .. 0 |-> <<>>] = <<>> /\ Len(<<>>) = 0
    OBVIOUS
  <1> QED BY <1>1 DEF FlattenSeq

Begins(a, b) == Len(a) <= Len(b) /\ \A j \in 1 .. Len(a) : b[j] = a[j]

\* The whole begins with its first parts.
LEMMA FlattenBegins ==
  ASSUME NEW S, NEW n \in Nat, NEW seqs \in [1 .. n -> Seq(S)], NEW m \in Nat, m <= n
  PROVE  Begins(FlattenSeq([k \in 1 .. m |-> seqs[k]]), FlattenSeq(seqs))
  <1> DEFINE F(k) == FlattenSeq([l \in 1 .. k |-> seqs[l]])
             E == {d \in Nat : d <= n => F(n - d) \in Seq(S) /\ Begins(F(n - d), F(n))}
  <1>1. \A k \in Nat : k < n => F(k) \in Seq(S) /\ F(k + 1) = F(k) \o seqs[k + 1] /\ seqs[k + 1] \in Seq(S)
    <2> SUFFICES ASSUME NEW k \in Nat, k < n
                 PROVE F(k) \in Seq(S) /\ F(k + 1) = F(k) \o seqs[k + 1] /\ seqs[k + 1] \in Seq(S)
      OBVIOUS
    <2>1. seqs[k + 1] \in Seq(S)
      OBVIOUS
    <2> QED BY <2>1, FlattenStep, ZenonT(40)
  <1>2. F(n) \in Seq(S) /\ FlattenSeq(seqs) = F(n)
    <2>1. [l \in 1 .. n |-> seqs[l]] = seqs
      OBVIOUS
    <2>2. FlattenSeq(seqs) \in Seq(S)
      BY FlattenTyped
    <2> QED BY <2>1, <2>2
  <1> HIDE DEF F
  <1>3. E = Nat
    <2>1. 0 \in E
      BY <1>2 DEF Begins
    <2>2. ASSUME NEW d \in E PROVE d + 1 \in E
      <3> SUFFICES ASSUME d + 1 <= n
                   PROVE F(n - (d + 1)) \in Seq(S) /\ Begins(F(n - (d + 1)), F(n))
        OBVIOUS
      <3> DEFINE k == n - (d + 1)
      <3>1. k \in Nat /\ k < n /\ k + 1 = n - d /\ d <= n
        OBVIOUS
      <3>2. d <= n => F(n - d) \in Seq(S) /\ Begins(F(n - d), F(n))
        OBVIOUS
      <3> HIDE DEF k, E
      <3>3. F(k) \in Seq(S) /\ F(k + 1) = F(k) \o seqs[k + 1] /\ seqs[k + 1] \in Seq(S)
        BY <1>1, <3>1
      <3>4. Begins(F(k), F(k + 1))
        BY <3>3, ConcatProperties DEF Begins
      <3>5. Begins(F(k + 1), F(n)) /\ F(k + 1) \in Seq(S)
        <4>1. d <= n
          BY <3>1
        <4>2. F(n - d) \in Seq(S) /\ Begins(F(n - d), F(n))
          BY <3>2, <4>1, Zenon
        <4> QED BY <3>1, <4>2
      <3>6. Begins(F(k), F(n))
        BY <1>2, <3>3, <3>4, <3>5 DEF Begins
      <3> QED BY <3>3, <3>6 DEF k
    <2> HIDE DEF E
    <2>3. E \in SUBSET Nat
      BY DEF E
    <2> QED BY <2>1, <2>2, <2>3, Induction
  <1>4. n - m \in E /\ n - (n - m) = m /\ n - m <= n
    <2> HIDE DEF E
    <2> QED BY <1>3
  <1>5. n - m <= n => F(n - (n - m)) \in Seq(S) /\ Begins(F(n - (n - m)), F(n))
    BY <1>4, Zenon
  <1> HIDE DEF E
  <1>6. Begins(F(m), F(n))
    BY <1>4, <1>5
  <1> QED BY <1>2, <1>6 DEF F

\* What encode takes: values that are there, and whole.
Sendable == {v \in Value : v.data \notin {Null, Wild} /\ Whole(v)}

\* The encodings of the values of a sequence, one behind the other.
Joined(vs) == FlattenSeq([k \in 1 .. Len(vs) |-> EncodeValue(vs[k])])

LEMMA SendableEncoded ==
  ASSUME NEW v \in Sendable
  PROVE  v \in Value /\ EncodeValue(v) \in Seq(Byte) /\ (EncodeValue(v) # <<>> => Fits(v))
  BY EncodedValue DEF Sendable, EncodeValue

LEMMA EncodingsTyped ==
  ASSUME NEW vs \in Seq(Sendable)
  PROVE  [k \in 1 .. Len(vs) |-> EncodeValue(vs[k])] \in [1 .. Len(vs) -> Seq(Byte)]
  <1>1. \A k \in 1 .. Len(vs) : vs[k] \in Sendable
    OBVIOUS
  <1>2. \A k \in 1 .. Len(vs) : EncodeValue(vs[k]) \in Seq(Byte)
    BY <1>1, SendableEncoded
  <1> QED BY <1>2

LEMMA JoinedAppend ==
  ASSUME NEW vs \in Seq(Sendable), NEW v \in Sendable
  PROVE  Joined(Append(vs, v)) = Joined(vs) \o EncodeValue(v)
  <1> DEFINE more == Append(vs, v)
             n == Len(vs)
             p == n + 1
             seqs == [k \in 1 .. p |-> EncodeValue(more[k])]
  <1>1. more \in Seq(Sendable) /\ Len(more) = p /\ more[p] = v /\ \A k \in 1 .. n : more[k] = vs[k]
    BY AppendProperties
  <1>2. n \in Nat /\ n < p /\ p \in Nat /\ p \in 1 .. p /\ 1 .. n \subseteq 1 .. p
    OBVIOUS
  <1> HIDE DEF more
  <1>3. seqs \in [1 .. p -> Seq(Byte)]
    BY <1>1, EncodingsTyped, Zenon
  <1>4. /\ \A k \in 1 .. n : seqs[k] = EncodeValue(vs[k])
        /\ seqs[n + 1] = EncodeValue(v)
    BY <1>1, <1>2
  <1>5. Joined(more) = FlattenSeq(seqs)
    BY <1>1, Zenon DEF Joined
  <1> HIDE DEF seqs
  <1>6. [k \in 1 .. p |-> seqs[k]] = seqs
    BY <1>3
  <1>7. [k \in 1 .. n |-> seqs[k]] = [k \in 1 .. n |-> EncodeValue(vs[k])]
    BY <1>4
  <1>8. PICK B : B = Byte
    OBVIOUS
  <1>9. seqs \in [1 .. p -> Seq(B)]
    BY <1>3, <1>8
  <1>10. FlattenSeq([k \in 1 .. n + 1 |-> seqs[k]]) = FlattenSeq([k \in 1 .. n |-> seqs[k]]) \o seqs[n + 1]
    <2> HIDE DEF n
    <2> QED BY <1>2, <1>9, FlattenStep
  <1>11. FlattenSeq(seqs) = FlattenSeq([k \in 1 .. n |-> EncodeValue(vs[k])]) \o EncodeValue(v)
    BY <1>4, <1>6, <1>7, <1>10
  <1> QED BY <1>5, <1>11 DEF Joined, more

\* Values that are left out write nothing.
LEMMA ChosenWritesAll ==
  ASSUME NEW vs \in Seq(Sendable), NEW places \in SUBSET (DOMAIN vs),
         \A k \in DOMAIN vs : k \notin places => EncodeValue(vs[k]) = <<>>
  PROVE  /\ Chosen(vs, places) \in Seq(Sendable)
         /\ \A j \in DOMAIN Chosen(vs, places) : \E k \in places : Chosen(vs, places)[j] = vs[k]
         /\ Joined(Chosen(vs, places)) = Joined(vs)
  <1> DEFINE n == Len(vs)
             some == [k \in 1 .. n |-> IF k \in places THEN <<vs[k]>> ELSE <<>>]
             all  == [k \in 1 .. n |-> EncodeValue(vs[k])]
             S(m) == FlattenSeq([k \in 1 .. m |-> some[k]])
             A(m) == FlattenSeq([k \in 1 .. m |-> all[k]])
             Good(s) == s \in Seq(Sendable) /\ \A j \in DOMAIN s : \E k \in places : s[j] = vs[k]
             T == {m \in Nat : m <= n => Good(S(m)) /\ Joined(S(m)) = A(m)}
  <1>1. n \in Nat /\ DOMAIN vs = 1 .. n /\ \A k \in 1 .. n : vs[k] \in Sendable
    OBVIOUS
  <1>2. some \in [1 .. n -> Seq(Sendable)]
    BY <1>1
  <1>3. \A k \in 1 .. n : some[k] = IF k \in places THEN <<vs[k]>> ELSE <<>>
    BY Zenon
  <1>4. all \in [1 .. n -> Seq(Byte)]
    BY <1>1, EncodingsTyped, Zenon
  <1>5. \A k \in 1 .. n : all[k] = EncodeValue(vs[k])
    BY Zenon
  <1>6. Chosen(vs, places) = S(n) /\ Joined(vs) = A(n)
    <2>1. [k \in 1 .. n |-> some[k]] = some /\ [k \in 1 .. n |-> all[k]] = all
      BY <1>2, <1>4
    <2>2. Chosen(vs, places) = FlattenSeq(some)
      BY <1>1 DEF Chosen
    <2>3. Joined(vs) = FlattenSeq(all)
      BY DEF Joined
    <2> QED BY <2>1, <2>2, <2>3
  <1> HIDE DEF some, all
  <1>7. \A m \in Nat : m < n =>
            /\ S(m) \in Seq(Sendable) /\ S(m + 1) = S(m) \o some[m + 1]
            /\ A(m) \in Seq(Byte) /\ A(m + 1) = A(m) \o all[m + 1]
    <2> SUFFICES ASSUME NEW m \in Nat, m < n
                 PROVE /\ S(m) \in Seq(Sendable) /\ S(m + 1) = S(m) \o some[m + 1]
                       /\ A(m) \in Seq(Byte) /\ A(m + 1) = A(m) \o all[m + 1]
      BY Zenon
    <2> HIDE DEF n
    <2>1. PICK B, V : B = Byte /\ V = Sendable
      OBVIOUS
    <2>2. some \in [1 .. n -> Seq(V)] /\ all \in [1 .. n -> Seq(B)]
      BY <1>2, <1>4, <2>1
    <2>3. S(m) \in Seq(V) /\ S(m + 1) = S(m) \o some[m + 1]
      BY <1>1, <2>2, FlattenStep
    <2>4. A(m) \in Seq(B) /\ A(m + 1) = A(m) \o all[m + 1]
      BY <1>1, <2>2, FlattenStep
    <2> QED BY <2>1, <2>3, <2>4
  <1>8. S(0) = <<>> /\ A(0) = <<>>
    <2>1. [k \in 1 .. 0 |-> some[k]] = [k \in 1 .. 0 |-> <<>>]
          /\ [k \in 1 .. 0 |-> all[k]] = [k \in 1 .. 0 |-> <<>>]
      OBVIOUS
    <2> QED BY <2>1, FlattenNone
  <1> HIDE DEF S, A, n
  <1>9. T = Nat
    <2>1. 0 \in T
      <3>1. Joined(<<>>) = <<>>
        <4>1. [k \in 1 .. 0 |-> EncodeValue(<<>>[k])] = [k \in 1 .. 0 |-> <<>>] /\ Len(<<>>) = 0
          OBVIOUS
        <4> QED BY <4>1, FlattenNone DEF Joined
      <3>2. Good(<<>>)
        OBVIOUS
      <3> QED BY <1>8, <3>1, <3>2
    <2>2. ASSUME NEW m \in T PROVE m + 1 \in T
      <3>0. m \in Nat
        OBVIOUS
      <3>a. m + 1 \in Nat
        BY <3>0
      <3> SUFFICES ASSUME m + 1 <= n PROVE Good(S(m + 1)) /\ Joined(S(m + 1)) = A(m + 1)
        BY <3>a, Zenon
      <3> DEFINE p == m + 1
      <3>1. p \in 1 .. n /\ m < n /\ m <= n
        BY <1>1, <3>0
      <3>2. Good(S(m)) /\ Joined(S(m)) = A(m)
        BY <3>1, Zenon
      <3>3. /\ S(m) \in Seq(Sendable) /\ S(p) = S(m) \o some[p]
            /\ A(m) \in Seq(Byte) /\ A(p) = A(m) \o all[p]
        BY <1>7, <3>0, <3>1
      <3>4. all[p] = EncodeValue(vs[p]) /\ vs[p] \in Sendable
        BY <1>1, <1>5, <3>1
      <3> HIDE DEF T, p
      <3>5. CASE p \in places
        <4> DEFINE v == vs[p]
                   s == S(m)
        <4>1. some[p] = <<v>> /\ v \in Sendable
          BY <1>3, <3>1, <3>4, <3>5
        <4>2. S(p) = Append(s, v)
          BY <3>3, <4>1
        <4>3. Good(Append(s, v))
          <5> HIDE DEF s, v
          <5>1. s \in Seq(Sendable) /\ \A j \in DOMAIN s : \E k \in places : s[j] = vs[k]
            BY <3>2 DEF s
          <5>2. v \in Sendable /\ v = vs[p]
            BY <4>1 DEF v
          <5>3. Append(s, v) \in Seq(Sendable)
            BY <5>1, <5>2
          <5>4. ASSUME NEW j \in DOMAIN Append(s, v) PROVE \E k \in places : Append(s, v)[j] = vs[k]
            <6>1. (j \in DOMAIN s /\ Append(s, v)[j] = s[j]) \/ Append(s, v)[j] = v
              BY <5>1, <5>2
            <6> QED BY <3>5, <5>1, <5>2, <6>1
          <5> QED BY <5>3, <5>4
        <4>4. Joined(Append(s, v)) = Joined(s) \o EncodeValue(v)
          BY <3>3, <4>1, JoinedAppend
        <4> HIDE DEF s
        <4> QED BY <3>2, <3>3, <3>4, <4>2, <4>3, <4>4 DEF p, s
      <3>6. CASE p \notin places
        <4>1. some[p] = <<>> /\ all[p] = <<>>
          BY <1>1, <1>3, <3>1, <3>4, <3>6
        <4>2. S(p) = S(m) /\ A(p) = A(m)
          BY <3>3, <4>1, ConcatEmptySeq
        <4> HIDE DEF Good
        <4> QED BY <3>2, <4>2 DEF p
      <3> QED BY <3>5, <3>6
    <2> HIDE DEF T
    <2>3. T \in SUBSET Nat
      BY DEF T
    <2> QED BY <2>1, <2>2, <2>3, Induction
  <1>10. n \in T /\ n <= n
    <2> HIDE DEF T
    <2> QED BY <1>1, <1>9
  <1>11. Good(S(n)) /\ Joined(S(n)) = A(n)
    BY <1>10, Zenon
  <1> HIDE DEF T
  <1> QED BY <1>6, <1>11

-----------------------------------------------------------------------------
(* What was encoded is decoded *)

\* What comes out of a size field is what went in.
LEMMA SizeField ==
  ASSUME NEW n \in Nat, NEW bytes \in Seq(Byte), bytes[1] = LE16(n)[1], bytes[2] = LE16(n)[2]
  PROVE  FromLE16(bytes) = n
  <1>1. bytes[1] = n % 256 /\ bytes[2] = n \div 256
    BY DEF LE16
  <1> QED BY <1>1 DEF FromLE16

LEMMA MessageSizeField ==
  ASSUME NEW n \in Nat, NEW bytes \in Seq(Byte), Len(bytes) = 4,
         \A k \in 1 .. 4 : bytes[k] = LE32(n)[k]
  PROVE  FromLE32(bytes) = n
  <1>1. /\ bytes[1] = n % 256 /\ bytes[2] = (n \div 256) % 256
        /\ bytes[3] = (n \div 65536) % 256 /\ bytes[4] = n \div 16777216
    BY DEF LE32
  <1> DEFINE high == SubSeq(bytes, 3, 4)
  <1>2. high[1] = bytes[3] /\ high[2] = bytes[4]
    BY SubSeqProperties
  <1> HIDE DEF high
  <1>3. FromLE32(bytes) = bytes[1] + 256 * bytes[2] + 65536 * (bytes[3] + 256 * bytes[4])
    BY <1>2 DEF FromLE32, FromLE16, high
  <1>4. n = (n % 256) + 256 * (n \div 256) /\ n \div 256 \in Nat
    OBVIOUS
  <1>5. n \div 256 = ((n \div 256) % 256) + 256 * (n \div 65536) /\ n \div 65536 \in Nat
    OBVIOUS
  <1>6. n \div 65536 = ((n \div 65536) % 256) + 256 * (n \div 16777216) /\ n \div 16777216 \in Nat
    OBVIOUS
  <1>7. n % 256 \in Nat /\ (n \div 256) % 256 \in Nat /\ (n \div 65536) % 256 \in Nat
    OBVIOUS
  <1> QED BY <1>1, <1>3, <1>4, <1>5, <1>6, <1>7

\* The data behind a size field.
LEMMA BehindSize ==
  ASSUME NEW size \in Seq(Byte), Len(size) = 2, NEW data \in Seq(Byte), NEW d \in Seq(Byte), d = size \o data
  PROVE  /\ Len(d) = 2 + Len(data) /\ d[1] = size[1] /\ d[2] = size[2]
         /\ \A k \in 1 .. Len(data) : d[2 + k] = data[k]
  <1>a. PICK B : B = Byte
    OBVIOUS
  <1>b. size \in Seq(B) /\ data \in Seq(B)
    BY <1>a
  <1>c. /\ Len(size \o data) = Len(size) + Len(data)
        /\ \A k \in 1 .. Len(size) + Len(data) :
             (size \o data)[k] = IF k <= Len(size) THEN size[k] ELSE data[k - Len(size)]
    BY <1>b, ConcatProperties, Zenon
  <1>1. /\ Len(d) = 2 + Len(data)
        /\ \A k \in 1 .. 2 + Len(data) : d[k] = IF k <= 2 THEN size[k] ELSE data[k - 2]
    BY <1>c, Zenon
  <1>2. Len(data) \in Nat
    OBVIOUS
  <1>3. d[1] = size[1] /\ d[2] = size[2]
    BY <1>1, <1>2
  <1>4. ASSUME NEW k \in 1 .. Len(data) PROVE d[2 + k] = data[k]
    <2>1. 2 + k \in 1 .. 2 + Len(data) /\ ~(2 + k <= 2) /\ (2 + k) - 2 = k
      BY <1>2
    <2> QED BY <1>1, <2>1
  <1> QED BY <1>1, <1>3, <1>4

\* What is read where data were written behind their size.
LEMMA SizedRead ==
  ASSUME NEW data \in Seq(Byte), Len(data) <= UINT16_MAX,
         NEW field \in Seq(Byte), Len(field) >= Len(Sized(data)),
         \A k \in 1 .. Len(Sized(data)) : field[k] = Sized(data)[k]
  PROVE  /\ Len(field) >= 2 + Len(data) /\ FromLE16(field) = Len(data)
         /\ \A k \in 1 .. Len(data) : field[k + 2] = data[k]
  <1>1. PICK n \in Nat : n = Len(data)
    OBVIOUS
  <1>2. LE16(n) \in Seq(Byte) /\ Len(LE16(n)) = 2
    BY <1>1, LE16Bytes, MessageAssumption
  <1>3. PICK size \in Seq(Byte) : size = LE16(n) /\ Len(size) = 2
    BY <1>2
  <1>4. Sized(data) \in Seq(Byte)
    BY SizedBytes
  <1>5. PICK d \in Seq(Byte) : d = Sized(data)
    BY <1>4
  <1>6. d = size \o data
    BY <1>1, <1>3, <1>5 DEF Sized
  <1>7. /\ Len(d) = 2 + n /\ d[1] = size[1] /\ d[2] = size[2]
        /\ \A k \in 1 .. n : d[2 + k] = data[k]
    <2>1. /\ Len(d) = 2 + Len(data) /\ d[1] = size[1] /\ d[2] = size[2]
          /\ \A k \in 1 .. Len(data) : d[2 + k] = data[k]
      BY <1>3, <1>5, <1>6, BehindSize, Zenon
    <2> QED BY <1>1, <2>1
  <1>8. Len(field) >= 2 + n /\ \A k \in 1 .. 2 + n : field[k] = d[k]
    BY <1>5, <1>7
  <1>9. FromLE16(field) = n
    <2>1. field[1] = LE16(n)[1] /\ field[2] = LE16(n)[2]
      BY <1>3, <1>7, <1>8
    <2> QED BY <2>1, SizeField
  <1>10. ASSUME NEW k \in 1 .. n PROVE field[k + 2] = data[k]
    <2>1. k + 2 \in 1 .. 2 + n /\ k + 2 = 2 + k
      OBVIOUS
    <2> QED BY <1>7, <1>8, <2>1
  <1> QED BY <1>1, <1>8, <1>9, <1>10

\* A C string ends at its zero byte.
LEMMA CStringEnds ==
  ASSUME NEW data \in Seq(Byte), \A k \in DOMAIN data : data[k] # 0,
         NEW bytes \in Seq(Byte), Len(bytes) > Len(data),
         \A k \in DOMAIN data : bytes[k] = data[k], bytes[Len(data) + 1] = 0
  PROVE  CString(bytes) = data
  <1> DEFINE n == Len(data)
             nuls == {k \in DOMAIN bytes : bytes[k] = 0}
  <1>1. n \in Nat /\ DOMAIN data = 1 .. n /\ DOMAIN bytes = 1 .. Len(bytes)
    OBVIOUS
  <1>2. nuls \in SUBSET Nat /\ n + 1 \in nuls /\ \A k \in nuls : k >= n + 1
    BY <1>1
  <1>3. CString(bytes) = IF nuls = {} THEN bytes ELSE SubSeq(bytes, 1, Min(nuls) - 1)
    BY DEF CString
  <1> HIDE DEF nuls
  <1>4. Min(nuls) \in nuls /\ \A y \in nuls : Min(nuls) <= y
    BY <1>2, Minimum
  <1>5. Min(nuls) - 1 = n
    <2>1. PICK m : m = Min(nuls)
      OBVIOUS
    <2>2. m \in Nat /\ m >= n + 1 /\ m <= n + 1
      BY <1>2, <1>4, <2>1
    <2> QED BY <1>1, <2>1, <2>2
  <1>6. CString(bytes) = SubSeq(bytes, 1, n)
    BY <1>2, <1>3, <1>5
  <1> QED BY <1>1, <1>6

\* decode_value reads back what encode_value wrote, whatever the slot held before.
LEMMA DecodeEncoded ==
  ASSUME NEW v \in Sendable, Fits(v), NEW old \in Value,
         NEW e \in Seq(Byte), e = EncodeValue(v),
         NEW rest \in Seq(Byte), Len(rest) < SIZE_MOD, Len(rest) >= Len(e),
         \A j \in 1 .. Len(e) : rest[j] = e[j]
  PROVE  Len(e) >= 1 /\ v.type # TYPE_NONE /\ DecodeValue(rest, old) = Decoded(0, v, Len(e))
  <1> DEFINE t == v.type
             d == EncodedData(v)
             field == SubSeq(rest, 2, Len(rest))
             typed == [type |-> t, data |-> Retyped(old, t)]
             string == [type |-> t, data |-> DecodeString(field)]
             raw   == [type |-> t, data |-> DecodeRaw(field, old)]
             scalar == [type |-> t, data |-> SubSeq(field, 1, TypeSize(t))]
  <1>1. v \in Value /\ v.data \notin {Null, Wild} /\ Whole(v)
    BY DEF Sendable
  <1>2. t \in Byte /\ v.data \in Seq(Byte) /\ t # TYPE_NONE /\ d \in Seq(Byte) /\ Len(d) = ComputeSize(v)
    BY <1>1, EncodedDataBytes, DataIsBytes
  <1>3. e = <<t>> \o d
    BY DEF EncodeValue
  <1>4. Known(t) /\ TypeSize(t) \in Nat /\ TypeSize(t) >= 1 /\ ComputeSize(v) >= TypeSize(t)
    <2>1. Known(t)
      BY TypeSizes DEF Fits, Known, TYPE_STRING, TYPE_RAW
    <2>2. Len(v.data) >= 0
      BY <1>2
    <2> QED BY <1>2, <2>1, <2>2, TypeSizes, SMTT(20) DEF Known, ComputeSize
  <1>5. v = [type |-> t, data |-> v.data]
    BY <1>1 DEF Value
  <1> HIDE DEF d, t
  <1>6. Len(e) = 1 + Len(d) /\ e[1] = t /\ \A k \in 1 .. Len(d) : e[k + 1] = d[k]
    BY <1>2, <1>3
  <1>7. rest[1] = t /\ Len(rest) >= 2
    BY <1>2, <1>4, <1>6
  <1>8. /\ field \in Seq(Byte) /\ Len(field) = Len(rest) - 1
        /\ \A k \in 1 .. Len(rest) - 1 : field[k] = rest[k + 1]
    <2>1. \A j \in 2 .. Len(rest) : rest[j] \in Byte
      OBVIOUS
    <2>2. field \in Seq(Byte) /\ Len(field) = Len(rest) - 1
      BY <1>7, <2>1
    <2>3. ASSUME NEW k \in 1 .. Len(rest) - 1 PROVE field[k] = rest[k + 1]
      BY <1>7
    <2> QED BY <2>2, <2>3
  <1> HIDE DEF field
  <1>9. Len(field) >= Len(d) /\ \A k \in 1 .. Len(d) : field[k] = d[k]
    <2>1. Len(field) >= Len(d)
      BY <1>2, <1>6, <1>8
    <2>2. ASSUME NEW k \in 1 .. Len(d) PROVE field[k] = d[k]
      <3>1. k \in 1 .. Len(rest) - 1 /\ k + 1 \in 1 .. Len(e)
        BY <1>2, <1>6, <1>8, <2>1
      <3>2. field[k] = rest[k + 1] /\ rest[k + 1] = e[k + 1] /\ e[k + 1] = d[k]
        BY <1>6, <1>8, <3>1
      <3> QED BY <3>2
    <2> QED BY <2>1, <2>2
  <1>10. DecodeValue(rest, old) =
            IF t = TYPE_STRING THEN Decoded(0, string, 1 + ComputeSize(string))
            ELSE IF t = TYPE_RAW
                 THEN Decoded(0, raw, 1 + (IF Len(field) < RawSize(field) THEN TypeSize(TYPE_RAW)
                                           ELSE RawSize(field)))
            ELSE Decoded(0, scalar, 1 + TypeSize(t))
    <2>1. DecodeValue(rest, old) =
            IF Len(rest) < 2 THEN Decoded(SMP_ERROR_BAD_MESSAGE, old, 0)
            ELSE IF Len(field) < TypeSize(t) \/ ~Known(t)
                 THEN Decoded(SMP_ERROR_BAD_MESSAGE, typed, 0)
            ELSE IF t = TYPE_STRING THEN Decoded(0, string, 1 + ComputeSize(string))
            ELSE IF t = TYPE_RAW
                 THEN Decoded(0, raw, 1 + (IF Len(field) < RawSize(field) THEN TypeSize(TYPE_RAW)
                                           ELSE RawSize(field)))
            ELSE Decoded(0, scalar, 1 + TypeSize(t))
      BY <1>7, Zenon DEF DecodeValue, field
    <2>2. ~(Len(rest) < 2) /\ ~(Len(field) < TypeSize(t) \/ ~Known(t))
      BY <1>2, <1>4, <1>7, <1>8, <1>9
    <2> HIDE DEF typed, string, raw, scalar
    <2> QED BY <2>1, <2>2, Zenon
  <1>n. TYPE_STRING # TYPE_RAW
    BY DEF TYPE_STRING, TYPE_RAW
  <1>11. CASE t = TYPE_STRING
    <2> DEFINE data == v.data
               n == Len(data) + 1
               text == Append(data, 0)
               tail == SubSeq(field, 3, Len(field))
    <2>1. data \in Seq(Byte) /\ Len(data) \in Nat /\ \A k \in DOMAIN data : data[k] # 0
      BY <1>1, <1>2, <1>11 DEF Whole, t
    <2>2. d = Sized(text) /\ Len(data) <= UINT16_MAX - 1
      BY <1>n, <1>11, Zenon DEF d, t, EncodedData, Fits
    <2> HIDE DEF data
    <2>3. text \in Seq(Byte) /\ Len(text) = n /\ text[n] = 0 /\ \A k \in DOMAIN data : text[k] = data[k]
      BY <2>1 DEF Byte
    <2> HIDE DEF text
    <2>4. /\ Len(field) >= 2 + n /\ FromLE16(field) = n
          /\ \A k \in 1 .. n : field[k + 2] = text[k]
      <3>1. PICK x \in Seq(Byte) : x = text
        BY <2>3
      <3>2. Len(x) <= UINT16_MAX
        BY <2>1, <2>2, <2>3, <3>1, MessageAssumption
      <3>3. Len(field) >= Len(Sized(x)) /\ \A k \in 1 .. Len(Sized(x)) : field[k] = Sized(x)[k]
        BY <1>9, <2>2, <3>1
      <3>4. /\ Len(field) >= 2 + Len(x) /\ FromLE16(field) = Len(x)
            /\ \A k \in 1 .. Len(x) : field[k + 2] = x[k]
        BY <1>8, <3>2, <3>3, SizedRead
      <3> QED BY <2>3, <3>1, <3>4
    <2>5. /\ tail \in Seq(Byte) /\ Len(tail) = Len(field) - 2
          /\ \A k \in 1 .. Len(field) - 2 : tail[k] = field[k + 2]
      BY <1>8, <2>1, <2>4, SubSeqProperties
    <2> HIDE DEF tail
    <2>6. CString(tail) = data
      <3>0. \A k \in 1 .. n : tail[k] = text[k]
        <4> TAKE k \in 1 .. n
        <4>1. k \in 1 .. Len(field) - 2
          BY <1>8, <2>1, <2>4
        <4>2. tail[k] = field[k + 2] /\ field[k + 2] = text[k]
          BY <2>4, <2>5, <4>1
        <4> QED BY <4>2
      <3>1. Len(tail) > Len(data) /\ tail[Len(data) + 1] = 0
        BY <1>8, <2>1, <2>3, <2>4, <2>5, <3>0
      <3>2. \A k \in DOMAIN data : tail[k] = data[k]
        <4>1. \A k \in DOMAIN data : k \in 1 .. n
          BY <2>1
        <4> HIDE DEF n
        <4> QED BY <2>3, <3>0, <4>1
      <3> QED BY <2>1, <2>5, <3>1, <3>2, CStringEnds
    <2>7. DecodeString(field) = data
      <3>1. field[2 + n] = 0
        <4>1. n \in 1 .. n /\ n + 2 = 2 + n
          BY <2>1
        <4> QED BY <2>3, <2>4, <4>1
      <3> HIDE DEF n
      <3>2. DecodeString(field) = IF Len(field) >= 2 + FromLE16(field) /\ field[2 + FromLE16(field)] = 0
                                  THEN CString(tail) ELSE Null
        BY Zenon DEF DecodeString, tail
      <3> QED BY <2>4, <2>6, <3>1, <3>2
    <2>8. string = v
      BY <1>5, <2>7 DEF data
    <2> HIDE DEF string
    <2>9. DecodeValue(rest, old) = Decoded(0, v, 1 + ComputeSize(v))
      BY <1>10, <1>11, <2>8, Zenon
    <2> QED BY <1>2, <1>6, <2>9 DEF t
  <1>12. CASE t = TYPE_RAW
    <2> DEFINE data == v.data
               n == Len(data)
               part == SubSeq(field, 3, 2 + n)
    <2>1. data \in Seq(Byte) /\ Len(data) \in Nat
      BY <1>2
    <2>2. d = Sized(data) /\ Len(data) <= UINT16_MAX
      BY <1>n, <1>12, Zenon DEF d, t, EncodedData, Fits
    <2> HIDE DEF data
    <2>3. /\ Len(field) >= 2 + n /\ FromLE16(field) = n
          /\ \A k \in 1 .. n : field[k + 2] = data[k]
      <3>1. PICK x \in Seq(Byte) : x = data
        BY <2>1
      <3>2. Len(x) <= UINT16_MAX
        BY <2>2, <3>1
      <3>3. Len(field) >= Len(Sized(x)) /\ \A k \in 1 .. Len(Sized(x)) : field[k] = Sized(x)[k]
        BY <1>9, <2>2, <3>1
      <3>4. /\ Len(field) >= 2 + Len(x) /\ FromLE16(field) = Len(x)
            /\ \A k \in 1 .. Len(x) : field[k + 2] = x[k]
        BY <1>8, <3>2, <3>3, SizedRead
      <3> QED BY <3>1, <3>4
    <2>4. part = data
      <3>1. n \in Nat /\ n = Len(data)
        BY <2>1
      <3> HIDE DEF n
      <3>2. \A j \in 3 .. 2 + n : field[j] \in Byte
        BY <1>8, <2>3, <3>1
      <3>3. part \in Seq(Byte) /\ Len(part) = n /\ \A k \in 1 .. n : part[k] = field[k + 2]
        BY <1>8, <2>3, <3>1, <3>2, SubSeqProperties
      <3> HIDE DEF part
      <3>4. \A k \in 1 .. n : part[k] = data[k]
        BY <2>3, <3>3
      <3> QED BY <2>1, <3>1, <3>3, <3>4
    <2>7. RawSize(field) = 2 + FromLE16(field) /\ ~(Len(field) < RawSize(field))
      <3>1. Len(field) >= 2 /\ FromLE16(field) \in Nat /\ Len(field) \in Nat
        BY <1>8, <2>1, <2>3
      <3>2. Len(field) < SIZE_MOD
        BY <1>8, MessageAssumption
      <3> HIDE DEF n
      <3>3. Len(field) >= 2 + FromLE16(field)
        BY <2>3
      <3>4. RawSize(field) = 2 + FromLE16(field)
        BY <1>8, <3>1, <3>2, <3>3, RawSizes
      <3> QED BY <3>1, <3>3, <3>4
    <2> HIDE DEF part, n
    <2>5. DecodeRaw(field, old) = data
      <3>1. DecodeRaw(field, old) = IF Len(field) < RawSize(field) THEN Retyped(old, TYPE_RAW)
                                    ELSE IF Len(field) >= 2 + FromLE16(field)
                                         THEN SubSeq(field, 3, 2 + FromLE16(field)) ELSE Wild
        BY Zenon DEF DecodeRaw
      <3> QED BY <2>3, <2>4, <2>7, <3>1 DEF part
    <2>6. raw = v
      BY <1>5, <2>5 DEF data
    <2> HIDE DEF raw
    <2>9. ComputeSize(v) = RawSize(field)
      <3>1. v.data # Null /\ v.type = TYPE_RAW
        BY <1>1, <1>12 DEF t
      <3> QED BY <2>1, <2>3, <2>7, <3>1, TypeSizes DEF ComputeSize, n, data
    <2>8. DecodeValue(rest, old) = Decoded(0, v, 1 + ComputeSize(v))
      BY <1>n, <1>10, <1>12, <2>6, <2>7, <2>9, Zenon
    <2> QED BY <1>2, <1>6, <2>8 DEF t
  <1>13. CASE t \notin {TYPE_STRING, TYPE_RAW}
    <2> DEFINE data == v.data
               n == TypeSize(t)
               part == SubSeq(field, 1, n)
    <2>1. d = data /\ ComputeSize(v) = n /\ data \in Seq(Byte)
      <3>1. d = data
        BY <1>13, Zenon DEF d, t, EncodedData
      <3>2. ComputeSize(v) = TypeSize(t) + 0
        BY <1>13 DEF ComputeSize, t
      <3> QED BY <1>2, <1>4, <3>1, <3>2
    <2> HIDE DEF data
    <2>2. Len(data) = n /\ n \in Nat /\ Len(field) >= n /\ \A k \in 1 .. n : field[k] = data[k]
      BY <1>2, <1>4, <1>9, <2>1
    <2> HIDE DEF n
    <2>3. part = data
      <3>1. \A j \in 1 .. n : field[j] \in Byte
        BY <1>8, <2>2
      <3>2. part \in Seq(Byte) /\ Len(part) = n /\ \A k \in 1 .. n : part[k] = field[k]
        BY <1>8, <2>2, <3>1, SubSeqProperties
      <3> HIDE DEF part
      <3> QED BY <2>1, <2>2, <3>2, SMTT(20)
    <2>4. scalar = v
      BY <1>5, <2>3 DEF data, n
    <2> HIDE DEF scalar
    <2>5. DecodeValue(rest, old) = Decoded(0, v, 1 + ComputeSize(v))
      BY <1>10, <1>13, <2>1, <2>4 DEF n
    <2> QED BY <1>2, <1>6, <2>1, <2>2, <2>5 DEF t
  <1>14. v.type # TYPE_NONE /\ Len(e) >= 1
    BY <1>2, <1>6 DEF t
  <1> QED BY <1>11, <1>12, <1>13, <1>14

-----------------------------------------------------------------------------
(* What is on the wire *)

\* An id has four bytes, and what is on the wire is the id, the size and the encodings
\* of the values the sender had, those that are left out having none.
OnWire ==
    /\ Len(msgid) = 4
    /\ wire # <<>> =>
         /\ source.values \in Seq(Sendable) /\ source.msgid \in Seq(Byte) /\ Len(source.msgid) = 4
         /\ Joined(Kept) \in Seq(Byte) /\ Len(Joined(Kept)) <= UINT32_MAX
         /\ wire = source.msgid \o LE32(Len(Joined(Kept))) \o Joined(Kept)
         /\ 8 + Len(Joined(Kept)) < SIZE_MOD

LEMMA KeptValues ==
  ASSUME OnWire, wire # <<>>
  PROVE  /\ Kept \in Seq(Sendable) /\ Joined(Kept) = Joined(source.values)
         /\ \A k \in DOMAIN Kept : Fits(Kept[k])
  <1>1. PICK vs \in Seq(Sendable) : vs = source.values
    BY DEF OnWire
  <1>2. PICK places \in SUBSET (DOMAIN vs) : places = {k \in DOMAIN vs : Writable(vs[k])}
    OBVIOUS
  <1>3. Kept = Chosen(vs, places)
    BY <1>1, <1>2 DEF Kept
  <1>4. \A k \in DOMAIN vs : k \notin places => EncodeValue(vs[k]) = <<>>
    BY <1>2 DEF Writable
  <1>5. /\ Kept \in Seq(Sendable) /\ Joined(Kept) = Joined(vs)
        /\ \A j \in DOMAIN Kept : \E k \in places : Kept[j] = vs[k]
    <2>1. /\ Chosen(vs, places) \in Seq(Sendable) /\ Joined(Chosen(vs, places)) = Joined(vs)
          /\ \A j \in DOMAIN Chosen(vs, places) : \E k \in places : Chosen(vs, places)[j] = vs[k]
      BY <1>1, <1>2, <1>4, ChosenWritesAll, ZenonT(40)
    <2> QED BY <1>3, <2>1, Zenon
  <1>6. ASSUME NEW j \in DOMAIN Kept PROVE Fits(Kept[j])
    <2>1. Writable(Kept[j])
      BY <1>2, <1>5
    <2> QED BY <2>1 DEF Writable, EncodeValue
  <1> QED BY <1>1, <1>5, <1>6

LEMMA EncodeOnWire ==
  ASSUME Inv, OnWire, NEW size \in BufferSizes, Encode(size)
  PROVE  OnWire'
  <1>1. UNCHANGED message
    BY DEF Encode
  <1>2. msgid' = msgid /\ Len(msgid) = 4 /\ msgid \in Seq(Byte)
    BY <1>1 DEF message, OnWire, Inv, TypeOK
  <1>3. CASE UNCHANGED coded
    BY <1>2, <1>3 DEF OnWire, coded, Kept
  <1>4. CASE /\ Encodable /\ size >= EncodedSize
             /\ Len(Payload) <= UINT32_MAX /\ wire' = msgid \o LE32(Len(Payload)) \o Payload
             /\ source' = [msgid |-> msgid, values |-> Present]
    <2> DEFINE all == [k \in 1 .. capacity |-> values[k - 1]]
               places == {k \in 1 .. capacity : values[k - 1].type # TYPE_NONE}
    <2>1. capacity \in Nat /\ Slots = 0 .. capacity - 1
      BY DEF Inv, TypeOK, Slots
    <2>2. \A k \in 1 .. capacity : values[k - 1] \in Sendable
      <3> TAKE k \in 1 .. capacity
      <3>1. k - 1 \in Slots
        BY <2>1
      <3>2. values[k - 1] \in Value /\ Whole(values[k - 1]) /\ values[k - 1].data \notin {Null, Wild}
        BY <1>4, <3>1 DEF Inv, TypeOK, Sound, Encodable
      <3> QED BY <3>2 DEF Sendable
    <2>3. all \in [1 .. capacity -> Sendable]
      BY <2>2
    <2>4. \A k \in 1 .. capacity : all[k] = values[k - 1]
      OBVIOUS
    <2>5. Present = Chosen(all, places)
      BY Zenon DEF Present
    <2> HIDE DEF all
    <2>6. all \in Seq(Sendable) /\ Len(all) = capacity /\ DOMAIN all = 1 .. capacity
      <3>1. PICK S : S = Sendable
        OBVIOUS
      <3>2. all \in [1 .. capacity -> S]
        BY <2>3, <3>1
      <3>3. all \in Seq(S) /\ Len(all) = capacity
        BY <2>1, <3>2, FunctionIsSeq
      <3> QED BY <2>3, <3>1, <3>3
    <2>7. Joined(all) = Payload
      <3>1. [k \in 1 .. capacity |-> EncodeValue(all[k])] = [k \in 1 .. capacity |-> EncodeValue(values[k - 1])]
        BY <2>4
      <3> QED BY <2>6, <3>1 DEF Joined, Payload
    <2>8. \A k \in DOMAIN all : k \notin places => EncodeValue(all[k]) = <<>>
      <3> SUFFICES ASSUME NEW k \in DOMAIN all, k \notin places PROVE ~Fits(all[k])
        BY DEF EncodeValue
      <3>1. all[k].type = TYPE_NONE
        BY <2>4, <2>6
      <3>2. TYPE_NONE # TYPE_STRING /\ TYPE_NONE # TYPE_RAW
        BY DEF TYPE_NONE, TYPE_STRING, TYPE_RAW
      <3> QED BY <3>1, <3>2, TypeSizes DEF Fits, Known
    <2>9. Present \in Seq(Sendable) /\ Joined(Present) = Payload
      <3>1. places \in SUBSET (DOMAIN all)
        BY <2>6
      <3> HIDE DEF places
      <3> QED BY <2>5, <2>6, <2>7, <2>8, <3>1, ChosenWritesAll
    <2>10. source'.values = Present /\ source'.msgid = msgid
      BY <1>4
    <2>11. Joined(Kept') = Payload
      <3>1. PICK vs \in Seq(Sendable) : vs = Present
        BY <2>9
      <3>2. PICK kept \in SUBSET (DOMAIN vs) : kept = {k \in DOMAIN vs : Writable(vs[k])}
        OBVIOUS
      <3>3. Kept' = Chosen(vs, kept)
        BY <2>10, <3>1, <3>2 DEF Kept, Writable
      <3>4. \A k \in DOMAIN vs : k \notin kept => EncodeValue(vs[k]) = <<>>
        BY <3>2 DEF Writable
      <3>5. Joined(Chosen(vs, kept)) = Joined(vs)
        BY <3>1, <3>2, <3>4, ChosenWritesAll
      <3> QED BY <2>9, <3>1, <3>3, <3>5
    <2>12. Payload \in Seq(Byte)
      BY <1>4, PayloadBytes
    <2> HIDE DEF places
    <2>15. 8 + Len(Payload) < SIZE_MOD
      <3>1. PICK out \in Nat : EncodedSize = 8 + Len(Payload) + out
        BY <1>4, PayloadBytes DEF MSG_HEADER_SIZE
      <3>2. size \in Nat /\ size < SIZE_MOD /\ SIZE_MOD \in Nat
        BY MessageAssumption
      <3>3. Len(Payload) \in Nat
        BY <2>12
      <3> QED BY <1>4, <3>1, <3>2, <3>3
    <2>13. /\ source.values' \in Seq(Sendable) /\ source.msgid' \in Seq(Byte) /\ Len(source.msgid') = 4
      BY <1>2, <2>9, <2>10
    <2>14. wire' = source.msgid' \o LE32(Len(Joined(Kept'))) \o Joined(Kept')
      BY <1>4, <2>10, <2>11
    <2> QED BY <1>2, <1>4, <2>11, <2>12, <2>13, <2>14, <2>15 DEF OnWire, Joined
  <1> QED BY <1>3, <1>4, Zenon DEF Encode

LEMMA StepOnWire ==
  ASSUME Inv, OnWire, [Next]_vars
  PROVE  OnWire'
  <1>1. ASSUME Len(msgid') = 4, UNCHANGED coded PROVE OnWire'
    BY <1>1 DEF OnWire, coded, Kept
  <1>2. Len(msgid) = 4
    BY DEF OnWire
  <1>3. CASE UNCHANGED vars
    BY <1>1, <1>2, <1>3 DEF vars, message
  <1>4. ASSUME NEW id \in Ids, NewWithId(id) \/ SetId(id) \/ \E n \in StaticCapacities : NewFromStatic(n, id)
        PROVE  OnWire'
    <2>1. (msgid' = id \/ msgid' = msgid) /\ UNCHANGED coded
      BY <1>4 DEF NewWithId, SetId, NewFromStatic, message
    <2> QED BY <1>1, <1>2, <2>1, IdBytes
  <1>5. CASE Free \/ ClearMessage
    <2>1. msgid' = NoId /\ UNCHANGED coded
      BY <1>5 DEF Free, ClearMessage
    <2> QED BY <1>1, <2>1, NoIdIsId
  <1>6. ASSUME NEW list, Set(list) \/ Get(list) PROVE OnWire'
    <2>1. msgid' = msgid /\ UNCHANGED coded
      BY <1>6 DEF Set, Get, message
    <2> QED BY <1>1, <1>2, <2>1
  <1>7. ASSUME NEW n \in Capacities, SetCapacity(n) PROVE OnWire'
    <2>1. msgid' = msgid /\ UNCHANGED coded
      BY <1>7 DEF SetCapacity
    <2> QED BY <1>1, <1>2, <2>1
  <1>8. ASSUME NEW bytes \in IF wire = <<>> THEN Buffers ELSE {wire}, Build(bytes) PROVE OnWire'
    <2>1. PICK b \in Seq(Byte) : b = bytes
      BY BuffersAreBytes, <1>8
    <2>2. UNCHANGED coded /\ (msgid' = msgid \/ (Len(b) >= 8 /\ msgid' = SubSeq(b, 1, 4)))
      BY <1>8, <2>1 DEF Build, MSG_HEADER_SIZE
    <2>3. ASSUME Len(b) >= 8 PROVE Len(SubSeq(b, 1, 4)) = 4
      BY <2>1, <2>3, SubSeqProperties
    <2> QED BY <1>1, <1>2, <2>2, <2>3
  <1>9. CASE BuildStep
    <2>1. msgid' = msgid /\ UNCHANGED coded
      BY <1>9 DEF BuildStep, BuildValue, BuildEnd, message
    <2> QED BY <1>1, <1>2, <2>1
  <1>10. ASSUME NEW s \in SingleSettings, SetTyped(s.index, s.value) PROVE OnWire'
    BY <1>6, <1>10 DEF SetTyped
  <1>11. ASSUME NEW r \in SingleRequests, GetTyped(r.index, r.type) PROVE OnWire'
    BY <1>6, <1>11 DEF GetTyped
  <1>12. CASE Stopped
    BY <1>3, <1>12 DEF Stopped
  <1> HIDE DEF Inv, OnWire
  <1> QED BY <1>3, <1>4, <1>5, <1>6, <1>7, <1>8, <1>9, <1>10, <1>11, <1>12, EncodeOnWire DEF Next

LEMMA OnWireHolds == Spec => []OnWire
  <1>1. Init => OnWire
    BY NoIdIsId DEF Init, OnWire
  <1>2. Inv /\ OnWire /\ [Next]_vars => OnWire'
    BY StepOnWire
  <1> QED BY <1>1, <1>2, InvHolds, PTL DEF Spec

-----------------------------------------------------------------------------
(* The loop follows what was encoded *)

\* The encodings of the first n values on the wire.
Written(n) == FlattenSeq([k \in 1 .. n |-> EncodeValue(Kept[k])])

\* A build from what encode wrote has the id of the sender, is at the end of a value, and
\* has the values before it in its slots, whatever was there when it began.
Following ==
    pc = "build" =>
        /\ Len(buffer) >= MSG_HEADER_SIZE
        /\ buffer = wire =>
             /\ msgid = source.msgid /\ i <= Len(Kept)
             /\ offset = MSG_HEADER_SIZE + Len(Written(i))
             /\ \A s \in 0 .. i - 1 : values[s] = Kept[s + 1]

LEMMA WrittenBytes ==
  ASSUME Kept \in Seq(Sendable), NEW m \in Nat, m <= Len(Kept)
  PROVE  Written(m) \in Seq(Byte)
  <1>1. \A k \in 1 .. m : Kept[k] \in Sendable
    OBVIOUS
  <1>2. \A k \in 1 .. m : EncodeValue(Kept[k]) \in Seq(Byte)
    BY <1>1, SendableEncoded
  <1>3. PICK B : B = Byte
    OBVIOUS
  <1>4. [k \in 1 .. m |-> EncodeValue(Kept[k])] \in [1 .. m -> Seq(B)]
    BY <1>2, <1>3
  <1>5. Written(m) \in Seq(B)
    BY <1>4, FlattenTyped DEF Written
  <1> QED BY <1>3, <1>5

\* The wire: four bytes of the id, four of the size, the encodings.
LEMMA WireParts ==
  ASSUME OnWire, wire # <<>>
  PROVE  /\ Len(wire) = 8 + Len(Joined(Kept)) /\ SubSeq(wire, 1, 4) = source.msgid
         /\ FromLE32(SubSeq(wire, 5, 8)) = Len(Joined(Kept))
         /\ \A k \in 1 .. Len(Joined(Kept)) : wire[8 + k] = Joined(Kept)[k]
  <1>1. PICK J \in Seq(Byte), id \in Seq(Byte) :
            /\ J = Joined(Kept) /\ id = source.msgid
            /\ Len(id) = 4 /\ Len(J) <= UINT32_MAX /\ wire = id \o LE32(Len(J)) \o J
    BY DEF OnWire
  <1>2. PICK n \in Nat : n = Len(J)
    BY <1>1
  <1>3. LE32(n) \in Seq(Byte) /\ Len(LE32(n)) = 4
    BY <1>1, <1>2, LE32Bytes, MessageAssumption
  <1>4. PICK size \in Seq(Byte) : size = LE32(n) /\ Len(size) = 4
    BY <1>3
  <1>5. PICK h \in Seq(Byte) : h = id \o size
    BY <1>1, <1>4, ConcatProperties
  <1>6. Len(h) = 8 /\ \A k \in 1 .. 8 : h[k] = IF k <= 4 THEN id[k] ELSE size[k - 4]
    <2>1. /\ Len(id \o size) = Len(id) + Len(size)
          /\ \A k \in 1 .. Len(id) + Len(size) :
               (id \o size)[k] = IF k <= Len(id) THEN id[k] ELSE size[k - Len(id)]
      BY <1>1, <1>4, ConcatProperties, ZenonT(40)
    <2>2. Len(h) = 8
      BY <1>1, <1>4, <1>5, <2>1
    <2>3. ASSUME NEW k \in 1 .. 8 PROVE h[k] = IF k <= 4 THEN id[k] ELSE size[k - 4]
      <3>1. Len(id) = 4 /\ Len(size) = 4 /\ k \in 1 .. 4 + 4
        BY <1>1, <1>4
      <3> QED BY <1>5, <2>1, <3>1
    <2> QED BY <2>2, <2>3
  <1>7. wire = h \o J
    BY <1>1, <1>2, <1>4, <1>5
  <1>8. /\ wire \in Seq(Byte) /\ Len(wire) = 8 + n
        /\ \A k \in 1 .. 8 + n : wire[k] = IF k <= 8 THEN h[k] ELSE J[k - 8]
    <2>1. /\ h \o J \in Seq(Byte) /\ Len(h \o J) = Len(h) + Len(J)
          /\ \A k \in 1 .. Len(h) + Len(J) : (h \o J)[k] = IF k <= Len(h) THEN h[k] ELSE J[k - Len(h)]
      BY <1>1, <1>5, ConcatProperties
    <2> QED BY <1>2, <1>6, <1>7, <2>1
  <1>9. PICK w \in Seq(Byte) : w = wire
    BY <1>8
  <1>10. \A k \in 1 .. 4 : w[k] = id[k] /\ w[k + 4] = size[k]
    <2> TAKE k \in 1 .. 4
    <2>1. k \in 1 .. 8 + n /\ k + 4 \in 1 .. 8 + n /\ k <= 4 /\ k \in 1 .. 8 /\ k + 4 \in 1 .. 8
          /\ k <= 8 /\ k + 4 <= 8 /\ ~(k + 4 <= 4) /\ (k + 4) - 4 = k
      BY <1>2
    <2>2. w[k] = h[k] /\ w[k + 4] = h[k + 4]
      BY <1>8, <1>9, <2>1
    <2>3. h[k] = id[k] /\ h[k + 4] = size[k]
      BY <1>6, <2>1
    <2> QED BY <2>2, <2>3
  <1>11. Len(w) >= 8 /\ \A j \in 1 .. 8 : w[j] \in Byte
    BY <1>2, <1>8, <1>9
  <1>12. SubSeq(w, 1, 4) = id
    <2> DEFINE part == SubSeq(w, 1, 4)
    <2>1. part \in Seq(Byte) /\ Len(part) = 4 /\ \A k \in 1 .. 4 : part[k] = w[k]
      BY <1>11, <1>9, SubSeqProperties
    <2> HIDE DEF part
    <2>2. part = id
      <3>1. \A k \in 1 .. 4 : part[k] = id[k]
        BY <1>10, <2>1
      <3>2. id \in Seq(Byte) /\ Len(id) = 4 /\ part \in Seq(Byte) /\ Len(part) = 4
        BY <1>1, <2>1
      <3> QED BY <3>1, <3>2, SeqEqual
    <2> QED BY <2>2 DEF part
  <1>13. FromLE32(SubSeq(w, 5, 8)) = n
    <2> DEFINE part == SubSeq(w, 5, 8)
    <2>1. part \in Seq(Byte) /\ Len(part) = 4 /\ \A k \in 1 .. 4 : part[k] = w[k + 4]
      BY <1>11, <1>9, SubSeqProperties
    <2> HIDE DEF part
    <2>2. \A k \in 1 .. 4 : part[k] = LE32(n)[k]
      BY <1>4, <1>10, <2>1
    <2>3. FromLE32(part) = n
      BY <2>1, <2>2, MessageSizeField
    <2> QED BY <2>3 DEF part
  <1>14. ASSUME NEW k \in 1 .. n PROVE wire[8 + k] = J[k]
    <2>1. 8 + k \in 1 .. 8 + n /\ ~(8 + k <= 8) /\ (8 + k) - 8 = k
      BY <1>2
    <2> QED BY <1>8, <2>1
  <1> QED BY <1>1, <1>2, <1>8, <1>9, <1>12, <1>13, <1>14

\* The value decode_value is about to decode is the next one on the wire.
LEMMA NextOnWire ==
  ASSUME Inv, OnWire, Following, pc = "build", offset <= Len(buffer), buffer = wire, NEW old \in Value
  PROVE  /\ wire # <<>> /\ Kept \in Seq(Sendable)
         /\ offset < Len(buffer) <=> i < Len(Kept)
         /\ i < Len(Kept) =>
              LET v == Kept[i + 1]
                  e == EncodeValue(v)
              IN  /\ v \in Sendable /\ e \in Seq(Byte) /\ v.type # TYPE_NONE
                  /\ DecodeValue(SubSeq(buffer, offset + 1, Len(buffer)), old) = Decoded(0, v, Len(e))
                  /\ Len(Written(i + 1)) = Len(Written(i)) + Len(e)
  <1> DEFINE n == Len(Kept)
             seqs == [k \in 1 .. n |-> EncodeValue(Kept[k])]
  <1>1. wire # <<>> /\ buffer \in Seq(Byte) /\ offset \in Nat /\ i \in Nat /\ Len(buffer) \in Nat
    BY DEF Following, MSG_HEADER_SIZE, Inv, TypeOK
  <1>2. Kept \in Seq(Sendable) /\ \A k \in DOMAIN Kept : Fits(Kept[k])
    BY <1>1, KeptValues
  <1>3. n \in Nat /\ DOMAIN Kept = 1 .. n /\ i <= n
    BY <1>1, <1>2 DEF Following
  <1>4. seqs \in [1 .. n -> Seq(Byte)] /\ FlattenSeq(seqs) = Joined(Kept)
    BY <1>2, EncodingsTyped DEF Joined
  <1>5. \A k \in 1 .. n : seqs[k] = EncodeValue(Kept[k])
    OBVIOUS
  <1> HIDE DEF seqs, n
  <1>6. \A m \in Nat : m <= n => Written(m) = FlattenSeq([k \in 1 .. m |-> seqs[k]])
    <2> TAKE m \in Nat
    <2> HAVE m <= n
    <2>1. [k \in 1 .. m |-> EncodeValue(Kept[k])] = [k \in 1 .. m |-> seqs[k]]
      BY <1>3, <1>5
    <2> QED BY <2>1 DEF Written
  <1>7. PICK B, J : B = Byte /\ J = Joined(Kept)
    OBVIOUS
  <1>8. J \in Seq(Byte) /\ FlattenSeq(seqs) = J /\ Written(n) = J
    <2>1. J \in Seq(Byte)
      BY <1>1, <1>7 DEF OnWire
    <2> QED BY <1>4, <1>7, <2>1 DEF Written, Joined, n
  <1>9. /\ Len(buffer) = 8 + Len(J) /\ offset = 8 + Len(Written(i))
        /\ \A k \in 1 .. Len(J) : buffer[8 + k] = J[k]
    BY <1>1, <1>7, WireParts DEF Following, MSG_HEADER_SIZE
  <1>10. CASE ~(i < n)
    <2>1. i = n
      BY <1>1, <1>3, <1>10
    <2>2. ~(offset < Len(buffer))
      BY <1>8, <1>9, <2>1
    <2> QED BY <1>1, <1>2, <1>10, <2>2 DEF n
  <1>11. CASE i < n
    <2> DEFINE v == Kept[i + 1]
               e == EncodeValue(v)
               p == Len(Written(i))
               q == i + 1
               rest == SubSeq(buffer, offset + 1, Len(buffer))
    <2>1. q \in 1 .. n /\ q \in Nat /\ q <= n /\ i <= n
      BY <1>1, <1>3, <1>11
    <2>2. v \in Sendable /\ Fits(v) /\ e = seqs[q] /\ e \in Seq(Byte)
      BY <1>2, <1>3, <1>5, <2>1, SendableEncoded
    <2> HIDE DEF v, e
    <2>3. seqs \in [1 .. n -> Seq(B)]
      BY <1>4, <1>7
    <2>4. Written(i) \in Seq(Byte) /\ Written(q) = Written(i) \o e
      <3>1. /\ FlattenSeq([k \in 1 .. i |-> seqs[k]]) \in Seq(B)
            /\ FlattenSeq([k \in 1 .. i + 1 |-> seqs[k]]) = FlattenSeq([k \in 1 .. i |-> seqs[k]]) \o seqs[i + 1]
        BY <1>1, <1>3, <1>11, <2>3, FlattenStep
      <3>2. /\ Written(i) = FlattenSeq([k \in 1 .. i |-> seqs[k]])
            /\ Written(i + 1) = FlattenSeq([k \in 1 .. i + 1 |-> seqs[k]])
        BY <1>1, <1>6, <2>1
      <3> QED BY <1>7, <2>2, <3>1, <3>2
    <2>5. Begins(Written(q), J)
      <3>1. Begins(FlattenSeq([k \in 1 .. q |-> seqs[k]]), FlattenSeq(seqs))
        <4> HIDE DEF q
        <4> QED BY <1>3, <2>1, <2>3, FlattenBegins
      <3> HIDE DEF q
      <3>2. Written(q) = FlattenSeq([k \in 1 .. q |-> seqs[k]])
        BY <1>6, <2>1
      <3> QED BY <1>8, <3>1, <3>2
    <2> HIDE DEF q
    <2>6. PICK x \in Seq(Byte), y \in Seq(Byte) : x = Written(i) /\ y = e
      BY <2>2, <2>4
    <2>7. Len(x \o y) = p + Len(y) /\ p \in Nat /\ Len(y) \in Nat
          /\ \A k \in 1 .. Len(y) : (x \o y)[p + k] = y[k]
      <3>1. /\ Len(x \o y) = Len(x) + Len(y)
            /\ \A k \in 1 .. Len(x) + Len(y) : (x \o y)[k] = IF k <= Len(x) THEN x[k] ELSE y[k - Len(x)]
        BY <2>6, ConcatProperties
      <3>2. Len(x) = p /\ p \in Nat /\ Len(y) \in Nat
        BY <2>6
      <3> HIDE DEF p
      <3>3. ASSUME NEW k \in 1 .. Len(y) PROVE (x \o y)[p + k] = y[k]
        <4>1. p + k \in 1 .. p + Len(y) /\ ~(p + k <= p) /\ (p + k) - p = k
          BY <3>2
        <4> QED BY <3>1, <3>2, <4>1
      <3> QED BY <3>1, <3>2, <3>3
    <2>8. p \in Nat /\ Len(e) \in Nat /\ p + Len(e) <= Len(J) /\ \A j \in 1 .. Len(e) : J[p + j] = e[j]
      <3>1. Written(q) = x \o y
        BY <2>4, <2>6
      <3> HIDE DEF p
      <3>2. p + Len(y) <= Len(J) /\ \A k \in 1 .. p + Len(y) : J[k] = (x \o y)[k]
        BY <2>5, <2>7, <3>1 DEF Begins
      <3>3. ASSUME NEW j \in 1 .. Len(y) PROVE J[p + j] = y[j]
        <4>1. p + j \in 1 .. p + Len(y)
          BY <2>7
        <4> QED BY <2>7, <3>2, <4>1
      <3> QED BY <2>6, <2>7, <3>2, <3>3
    <2>9. Len(Written(q)) = p + Len(e)
      BY <2>4, <2>6, <2>7
    <2> HIDE DEF p
    <2>10. /\ rest \in Seq(Byte) /\ Len(rest) = Len(buffer) - offset
           /\ \A k \in 1 .. Len(buffer) - offset : rest[k] = buffer[offset + k]
      <3>1. \A j \in offset + 1 .. Len(buffer) : buffer[j] \in Byte
        BY <1>1
      <3>2. rest \in Seq(Byte) /\ Len(rest) = Len(buffer) - offset
        BY <1>1, <3>1
      <3>3. ASSUME NEW k \in 1 .. Len(buffer) - offset PROVE rest[k] = buffer[offset + k]
        BY <1>1
      <3> QED BY <3>2, <3>3
    <2> HIDE DEF rest
    <2>11. /\ offset = 8 + p /\ Len(J) \in Nat /\ Len(buffer) = 8 + Len(J)
           /\ Len(buffer) - offset = Len(J) - p /\ Len(rest) >= Len(e)
      BY <1>8, <1>9, <2>8, <2>10 DEF p
    <2>15. Len(rest) < SIZE_MOD
      <3>1. 8 + Len(J) < SIZE_MOD /\ SIZE_MOD \in Nat
        BY <1>1, <1>7, MessageAssumption DEF OnWire
      <3> QED BY <1>1, <2>8, <2>10, <2>11, <3>1
    <2>12. ASSUME NEW j \in 1 .. Len(e) PROVE rest[j] = e[j]
      <3>1. j \in 1 .. Len(buffer) - offset /\ p + j \in 1 .. Len(J) /\ offset + j = 8 + (p + j)
        <4>1. j \in Nat /\ j >= 1 /\ j <= Len(J) - p /\ p + j <= Len(J) /\ Len(J) - p \in Nat
          BY <2>8, <2>11
        <4> QED BY <2>8, <2>11, <4>1
      <3>2. rest[j] = buffer[offset + j] /\ buffer[8 + (p + j)] = J[p + j] /\ J[p + j] = e[j]
        BY <1>9, <2>8, <2>10, <3>1
      <3> QED BY <3>1, <3>2
    <2>13. Len(e) >= 1 /\ v.type # TYPE_NONE /\ DecodeValue(rest, old) = Decoded(0, v, Len(e))
      <3>1. PICK w \in Sendable, d \in Seq(Byte), r \in Seq(Byte) : w = v /\ d = e /\ r = rest
        BY <2>2, <2>10
      <3>2. Fits(w) /\ d = EncodeValue(w) /\ Len(r) < SIZE_MOD /\ Len(r) >= Len(d)
              /\ \A j \in 1 .. Len(d) : r[j] = d[j]
        BY <2>2, <2>11, <2>12, <2>15, <3>1 DEF e
      <3>3. Len(d) >= 1 /\ w.type # TYPE_NONE /\ DecodeValue(r, old) = Decoded(0, w, Len(d))
        BY <3>1, <3>2, DecodeEncoded
      <3> QED BY <3>1, <3>3
    <2>14. offset < Len(buffer)
      BY <2>8, <2>11, <2>13
    <2> QED BY <1>1, <1>2, <1>11, <2>2, <2>9, <2>13, <2>14 DEF n, v, e, p, q, rest
  <1> QED BY <1>10, <1>11

\* A step of the loop on what encode wrote: no error, the value, and all of its bytes.
LEMMA DecodeOnWire ==
  ASSUME Inv, OnWire, Following, pc = "build", offset < Len(buffer), buffer = wire,
         NEW n \in Nat, i < n, NEW vals \in [0 .. n - 1 -> Value], DecodeInto(vals)
  PROVE  /\ i < Len(Kept) /\ values' = [vals EXCEPT ![i] = Kept[i + 1]]
         /\ i' = i + 1 /\ UNCHANGED <<pc, result, buffer, fresh>>
         /\ offset' = MSG_HEADER_SIZE + Len(Written(i + 1))
  <1> DEFINE d == DecodeValue(SubSeq(buffer, offset + 1, Len(buffer)), vals[i])
             v == Kept[i + 1]
             e == EncodeValue(v)
  <1>1. i \in 0 .. n - 1 /\ vals[i] \in Value /\ offset \in Nat /\ offset <= Len(buffer)
    BY DEF Inv, TypeOK
  <1>2. PICK old \in Value : old = vals[i]
    BY <1>1
  <1>3. /\ i < Len(Kept) /\ d = Decoded(0, v, Len(e)) /\ e \in Seq(Byte)
        /\ Len(Written(i + 1)) = Len(Written(i)) + Len(e)
    BY <1>1, <1>2, NextOnWire
  <1>4. /\ values' = [vals EXCEPT ![i] = d.value]
        /\ \/ d.error < 0 /\ Return(d.error)
           \/ /\ d.error = 0 /\ offset' = offset + d.used /\ i' = i + 1
              /\ UNCHANGED <<pc, result, buffer, fresh>>
    BY DEF DecodeInto
  <1> HIDE DEF d, v, e
  <1>5. d.error = 0 /\ d.value = v /\ d.used = Len(e)
    BY <1>3, DecodedFields
  <1>6. offset' = offset + Len(e) /\ i' = i + 1 /\ UNCHANGED <<pc, result, buffer, fresh>>
    BY <1>4, <1>5
  <1>7. offset = MSG_HEADER_SIZE + Len(Written(i))
    BY DEF Following
  <1>8. offset' = MSG_HEADER_SIZE + Len(Written(i + 1))
    <2>1. PICK k : k = Len(Written(i))
      OBVIOUS
    <2>2. offset = 8 + k /\ k \in Int
      <3>1. Written(i) \in Seq(Byte)
        BY <1>1, <1>3, NextOnWire, WrittenBytes
      <3> QED BY <1>7, <2>1, <3>1 DEF MSG_HEADER_SIZE
    <2>3. Len(e) \in Nat
      BY <1>3
    <2>4. Len(Written(i + 1)) = k + Len(e)
      BY <1>3, <2>1
    <2>5. offset + Len(e) = 8 + (k + Len(e))
      BY <2>2, <2>3
    <2> QED BY <1>6, <2>4, <2>5 DEF MSG_HEADER_SIZE
  <1> QED BY <1>3, <1>4, <1>5, <1>6, <1>8 DEF v

\* What is on the wire is what a build of it takes the id and the size from.
LEMMA BuildFollows ==
  ASSUME Inv, OnWire, NEW bytes \in Seq(Byte), Build(bytes)
  PROVE  /\ Following'
         /\ bytes = wire /\ wire # <<>> => pc' = "build"
  <1>1. UNCHANGED <<capacity, values, coded>>
    BY DEF Build
  <1>2. ASSUME wire # <<>>
        PROVE  /\ Len(wire) >= 8 /\ SubSeq(wire, 1, 4) = source.msgid
               /\ ~(Len(wire) < (8 + FromLE32(SubSeq(wire, 5, 8))) % SIZE_MOD)
    <2>1. PICK J \in Seq(Byte) : J = Joined(Kept)
      BY <1>2 DEF OnWire
    <2>2. Len(wire) = 8 + Len(J) /\ FromLE32(SubSeq(wire, 5, 8)) = Len(J) /\ Len(J) \in Nat
      BY <1>2, <2>1, WireParts
    <2>3. 8 + Len(J) < SIZE_MOD /\ SIZE_MOD \in Nat
      BY <1>2, <2>1, MessageAssumption DEF OnWire
    <2>4. PICK n \in Nat : n = 8 + Len(J)
      BY <2>2
    <2>5. n % SIZE_MOD = n
      BY <2>3, <2>4
    <2>6. (8 + FromLE32(SubSeq(wire, 5, 8))) % SIZE_MOD = Len(wire)
      BY <2>2, <2>4, <2>5
    <2>7. Len(wire) >= 8 /\ ~(Len(wire) < Len(wire))
      BY <2>2
    <2> QED BY <1>2, <2>6, <2>7, WireParts
  <1>3. ASSUME bytes = wire, wire # <<>>
        PROVE  pc' = "build"
    <2>1. ~(Len(bytes) < 8) /\ ~(Len(bytes) < (8 + FromLE32(SubSeq(bytes, 5, 8))) % SIZE_MOD)
      BY <1>2, <1>3
    <2> QED BY <2>1 DEF Build, MSG_HEADER_SIZE
  <1>4. ASSUME pc' = "build"
        PROVE  Following'
    <2>1. ASSUME NEW r, Return(r) PROVE FALSE
      BY <1>4, <2>1 DEF Return
    <2>2. /\ Len(bytes) >= 8 /\ msgid' = SubSeq(bytes, 1, 4)
          /\ buffer' = bytes /\ offset' = MSG_HEADER_SIZE /\ i' = 0
      BY <2>1 DEF Build, MSG_HEADER_SIZE
    <2>3. wire' = wire /\ source' = source /\ Kept' = Kept
      BY <1>1 DEF coded, Kept
    <2>4. ASSUME bytes = wire
          PROVE  /\ msgid' = source.msgid /\ 0 <= Len(Kept)
                 /\ Written(0) = <<>>
      <3>1. wire # <<>>
        BY <2>2, <2>4
      <3>2. Kept \in Seq(Sendable)
        BY <3>1, KeptValues
      <3>3. [k \in 1 .. 0 |-> EncodeValue(Kept[k])] = [k \in 1 .. 0 |-> <<>>]
        OBVIOUS
      <3> QED BY <1>2, <2>2, <2>4, <3>1, <3>2, <3>3, FlattenNone DEF Written
    <2>5. ASSUME bytes = wire
          PROVE  offset' = MSG_HEADER_SIZE + Len(Written(0)) /\ \A s \in 0 .. 0 - 1 : values'[s] = Kept[s + 1]
      <3>1. Len(Written(0)) = 0
        BY <2>4, <2>5
      <3> QED BY <2>2, <3>1 DEF MSG_HEADER_SIZE
    <2>6. Written(0)' = Written(0)
      BY <2>3 DEF Written
    <2> QED BY <2>2, <2>3, <2>4, <2>5, <2>6 DEF Following, MSG_HEADER_SIZE, Written
  <1>5. ASSUME pc' # "build"
        PROVE  Following'
    BY <1>5 DEF Following
  <1> QED BY <1>3, <1>4, <1>5

LEMMA StepFollowing ==
  ASSUME Inv, OnWire, Following, [Next]_vars
  PROVE  Following'
  <1>1. CASE pc' # "build"
    BY <1>1 DEF Following
  <1>2. CASE pc = "idle" /\ (UNCHANGED loop \/ pc' = "undefined")
    BY <1>1, <1>2 DEF loop
  <1>3. ASSUME NEW bytes \in Seq(Byte), Build(bytes)
        PROVE  Following'
    BY <1>3, BuildFollows
  <1>4. CASE BuildValue
    <2>1. /\ pc = "build" /\ offset < Len(buffer) /\ capacity \in Nat /\ i \in Nat /\ i <= capacity
          /\ Slots = 0 .. capacity - 1 /\ Len(buffer) >= MSG_HEADER_SIZE
      BY <1>4 DEF BuildValue, Inv, TypeOK, Sound, Slots, Following
    <2>2. ASSUME NEW n \in Nat, NEW vals \in [0 .. n - 1 -> Value],
                 i < n, n >= capacity, \A s \in 0 .. n - 1 : Whole(vals[s]),
                 \A s \in 0 .. n - 1 : vals[s] = IF s \in Slots THEN values[s] ELSE Empty,
                 DecodeInto(vals), UNCHANGED <<msgid, coded>>
          PROVE  Following'
      <3> SUFFICES ASSUME pc' = "build" PROVE Following'
        BY DEF Following
      <3>1. buffer' = buffer
        BY <2>1, <2>2, DecodeStep
      <3>2. wire' = wire /\ source' = source /\ msgid' = msgid /\ Kept' = Kept
        BY <2>2 DEF coded, Kept
      <3>3. ASSUME buffer = wire
            PROVE  /\ msgid' = source.msgid /\ i' <= Len(Kept)
                   /\ offset' = MSG_HEADER_SIZE + Len(Written(i'))
                   /\ \A s \in 0 .. i' - 1 : values'[s] = Kept[s + 1]
        <4>1. /\ i < Len(Kept) /\ values' = [vals EXCEPT ![i] = Kept[i + 1]]
              /\ i' = i + 1 /\ offset' = MSG_HEADER_SIZE + Len(Written(i + 1))
          BY <2>1, <2>2, <3>3, DecodeOnWire
        <4>2. /\ msgid = source.msgid /\ \A s \in 0 .. i - 1 : values[s] = Kept[s + 1]
          BY <2>1, <3>3 DEF Following
        <4>3. Len(Kept) \in Nat
          <5>1. Kept \in Seq(Sendable)
            BY <2>1, <3>3, KeptValues DEF MSG_HEADER_SIZE
          <5> QED BY <5>1
        <4>4. ASSUME NEW s \in 0 .. i' - 1 PROVE values'[s] = Kept[s + 1]
          <5>1. CASE s = i
            BY <2>1, <2>2, <4>1, <5>1
          <5>2. CASE s # i
            <6>1. s \in 0 .. i - 1 /\ s \in 0 .. n - 1 /\ s \in Slots
              BY <2>1, <2>2, <4>1, <5>2
            <6>2. values'[s] = vals[s] /\ vals[s] = values[s]
              BY <2>2, <4>1, <5>2, <6>1
            <6> QED BY <4>2, <6>1, <6>2
          <5> QED BY <5>1, <5>2
        <4>5. i' <= Len(Kept)
          BY <2>1, <4>1, <4>3
        <4> QED BY <3>2, <4>1, <4>2, <4>4, <4>5
      <3>4. \A m : Written(m)' = Written(m)
        BY <3>2 DEF Written
      <3> QED BY <2>1, <3>1, <3>2, <3>3, <3>4 DEF Following, Written
    <2>3. CASE \E r \in Int : Return(r)
      BY <1>1, <2>3, ReturnTyped
    <2>4. CASE \E n \in Nat : GrowWrapped(n)
      BY <1>1, <2>4 DEF GrowWrapped, Undefined
    <2> HIDE DEF Inv, Following, OnWire
    <2> QED BY <1>4, <2>2, <2>3, <2>4, BuildValueStep
  <1>5. CASE BuildEnd
    <2>1. pc' = "idle"
      BY <1>5 DEF BuildEnd, Return
    <2> QED BY <1>1, <2>1
  <1>6. CASE UNCHANGED vars
    BY <1>6 DEF vars, message, loop, coded, Following, Written, Kept
  <1>7. CASE Next
    BY <1>2, <1>3, <1>4, <1>5, <1>6, <1>7, StepKinds DEF BuildStep
  <1> QED BY <1>6, <1>7

LEMMA FollowingHolds == Spec => []Following
  <1>1. Init => Following
    BY DEF Init, Following
  <1>2. Inv /\ OnWire /\ Following /\ [Next]_vars => Following'
    BY StepFollowing
  <1> QED BY <1>1, <1>2, InvHolds, OnWireHolds, PTL DEF Spec

-----------------------------------------------------------------------------
(* A message comes back *)

\* The receiver of what encode wrote asks for the values the sender had.
LEMMA FollowingIsEnough ==
  ASSUME Inv, OnWire, Filled, Following
  PROVE  RoundTrip
  <1> DEFINE n == Len(Kept)
             asked == [k \in DOMAIN Kept |-> [index |-> k - 1, type |-> Kept[k].type]]
             further == [index |-> n, type |-> TYPE_STRING]
             more == Append(asked, further)
  <1> SUFFICES ASSUME Built, fresh = "yes", buffer = wire
               PROVE  /\ msgid = source.msgid /\ NArgs = n
                      /\ Fetched(asked) = [error |-> 0, data |-> [k \in DOMAIN Kept |-> Kept[k].data]]
                      /\ Fetched(more).error = SMP_ERROR_NOT_FOUND
    BY DEF RoundTrip
  <1>1. /\ pc = "build" /\ offset = Len(buffer) /\ offset \in Nat /\ i \in Nat /\ i <= capacity
        /\ capacity \in Nat /\ Slots = 0 .. capacity - 1
    BY DEF Built, Inv, TypeOK, Sound, Slots
  <1>2. wire # <<>> /\ Kept \in Seq(Sendable) /\ i = n
    <2>1. PICK old \in Value : TRUE
      BY EmptyIsWhole
    <2>2. wire # <<>> /\ Kept \in Seq(Sendable) /\ ~(i < n)
      BY <1>1, <2>1, NextOnWire
    <2>3. i <= n
      BY <1>1 DEF Following
    <2>4. n \in Nat
      BY <2>2
    <2> HIDE DEF n
    <2> QED BY <1>1, <2>2, <2>3, <2>4
  <1>3. n \in Nat /\ DOMAIN Kept = 1 .. n /\ n <= capacity
    BY <1>1, <1>2
  <1>4. msgid = source.msgid /\ \A s \in 0 .. n - 1 : values[s] = Kept[s + 1]
    BY <1>1, <1>2 DEF Following
  <1>5. NArgs = n /\ \A s \in Slots : s >= n => values[s] = Empty
    BY <1>2, FilledIsEnough DEF NothingStale
  <1> HIDE DEF n
  <1>6. ASSUME NEW k \in 1 .. n
        PROVE  /\ asked[k] = [index |-> k - 1, type |-> Kept[k].type]
               /\ k - 1 \in Slots /\ values[k - 1] = Kept[k] /\ GetError(asked[k]) = 0
    <2>1. asked[k].index = k - 1 /\ asked[k].type = Kept[k].type
          /\ asked[k] = [index |-> k - 1, type |-> Kept[k].type]
      BY <1>3
    <2>2. k - 1 \in Slots /\ k - 1 \in 0 .. n - 1 /\ (k - 1) + 1 = k /\ ~(k - 1 >= capacity)
      BY <1>1, <1>3
    <2>3. values[k - 1] = Kept[k]
      BY <1>4, <2>2
    <2>4. Kept[k] \in Sendable /\ Fits(Kept[k])
      BY <1>2, <1>3, KeptValues
    <2>5. Kept[k].type # TYPE_NONE /\ Known(Kept[k].type)
      BY <2>4, TypeSizes DEF Fits, Known, TYPE_STRING, TYPE_RAW
    <2> HIDE DEF asked
    <2> QED BY <2>1, <2>2, <2>3, <2>5 DEF GetError
  <1>7. asked \in Seq([index : Nat, type : Byte]) /\ Len(asked) = n /\ DOMAIN asked = 1 .. n
    <2>1. PICK S : S = [index : Nat, type : Byte]
      OBVIOUS
    <2>2. ASSUME NEW k \in 1 .. n PROVE asked[k] \in S
      <3>1. Kept[k] \in Value /\ k - 1 \in Nat
        BY <1>2, <1>3 DEF Sendable
      <3>2. Kept[k].type \in Byte
        BY <3>1 DEF Value
      <3>3. [index |-> k - 1, type |-> Kept[k].type] \in S
        BY <2>1, <3>1, <3>2
      <3>4. asked[k] = [index |-> k - 1, type |-> Kept[k].type]
        BY <1>6
      <3> QED BY <3>3, <3>4, Zenon
    <2>3. asked \in [1 .. n -> S]
      BY <1>3, <2>2
    <2> HIDE DEF asked
    <2>4. asked \in Seq(S) /\ Len(asked) = n
      BY <1>3, <2>3, FunctionIsSeq
    <2> QED BY <2>1, <2>3, <2>4
  <1> HIDE DEF asked
  <1>8. Fetched(asked) = [error |-> 0, data |-> [k \in DOMAIN Kept |-> Kept[k].data]]
    <2> DEFINE failed == {k \in DOMAIN asked : GetError(asked[k]) # 0}
               stored == IF failed = {} THEN Len(asked) ELSE Min(failed) - 1
               data   == [k \in 1 .. stored |-> values[asked[k].index].data]
               error  == IF failed = {} THEN 0 ELSE GetError(asked[Min(failed)])
    <2>1. Fetched(asked) = [error |-> error, data |-> data]
      BY Zenon DEF Fetched
    <2>2. failed = {}
      BY <1>6, <1>7
    <2>3. error = 0 /\ stored = n
      BY <1>7, <2>2
    <2>4. data = [k \in 1 .. n |-> Kept[k].data]
      <3>1. ASSUME NEW k \in 1 .. n PROVE values[asked[k].index].data = Kept[k].data
        <4>1. asked[k] = [index |-> k - 1, type |-> Kept[k].type] /\ values[k - 1] = Kept[k]
          BY <1>6
        <4>2. asked[k].index = k - 1
          BY <4>1
        <4> QED BY <4>1, <4>2
      <3> HIDE DEF stored
      <3> QED BY <2>3, <3>1
    <2> HIDE DEF data, error
    <2> QED BY <1>3, <2>1, <2>3, <2>4
  <1>9. Fetched(more).error = SMP_ERROR_NOT_FOUND
    <2> DEFINE failed == {k \in DOMAIN more : GetError(more[k]) # 0}
               stored == IF failed = {} THEN Len(more) ELSE Min(failed) - 1
               data   == [k \in 1 .. stored |-> values[more[k].index].data]
               error  == IF failed = {} THEN 0 ELSE GetError(more[Min(failed)])
    <2>1. Fetched(more) = [error |-> error, data |-> data]
      BY Zenon DEF Fetched
    <2>2. further \in [index : Nat, type : Byte] /\ further.index = n
      BY <1>3, Types
    <2>3. DOMAIN more = 1 .. n + 1 /\ more[n + 1] = further /\ \A k \in 1 .. n : more[k] = asked[k]
      <3> HIDE DEF further
      <3> QED BY <1>3, <1>7, <2>2
    <2>4. GetError(further) = SMP_ERROR_NOT_FOUND
      <3>1. n >= capacity \/ values[n].type = TYPE_NONE
        <4>1. CASE n < capacity
          <5>1. n \in Slots
            BY <1>1, <1>3, <4>1
          <5>2. values[n] = Empty
            BY <1>3, <1>5, <5>1
          <5> QED BY <5>2 DEF Empty
        <4> QED BY <1>1, <1>3, <4>1
      <3> HIDE DEF further
      <3> QED BY <2>2, <3>1 DEF GetError
    <2> HIDE DEF more, further
    <2>5. failed = {n + 1}
      <3>1. n + 1 \in failed
        BY <1>3, <2>3, <2>4, Errors
      <3>2. ASSUME NEW k \in failed PROVE k = n + 1
        <4>1. k \in 1 .. n + 1 /\ GetError(more[k]) # 0
          BY <2>3, <3>2
        <4>2. k \notin 1 .. n
          BY <1>6, <2>3, <4>1
        <4> QED BY <1>3, <4>1, <4>2
      <3> HIDE DEF failed
      <3> QED BY <3>1, <3>2
    <2> HIDE DEF failed, data
    <2>6. Min(failed) = n + 1
      <3>0. {n + 1} \in SUBSET Nat
        BY <1>3
      <3>1. PICK T \in SUBSET Nat : T = {n + 1}
        BY <3>0
      <3>2. Min(T) \in T
        BY <3>1, Minimum
      <3> QED BY <2>5, <3>1, <3>2
    <2>7. error = SMP_ERROR_NOT_FOUND
      BY <2>3, <2>4, <2>5, <2>6
    <2> HIDE DEF error
    <2> QED BY <2>1, <2>7
  <1> QED BY <1>4, <1>5, <1>8, <1>9

(***************************************************************************)
(* Whatever the sender set and wherever, its arrays, its capacity and the  *)
(* capacity of the receiver: a message built from what encode wrote, into  *)
(* a clear message, has the id of the sender and hands out the values that *)
(* were encoded, of their types, in their order, without holes, and no     *)
(* more.                                                                   *)
(***************************************************************************)
THEOREM MessagesComeBack == Spec => []RoundTrip
  <1>1. Init => Filled
    BY DEF Init, Filled
  <1>2. Inv /\ Filled /\ [Next]_vars => Filled'
    BY StepFilled
  <1>3. Inv /\ OnWire /\ Filled /\ Following => RoundTrip
    BY FollowingIsEnough
  <1> QED BY <1>1, <1>2, <1>3, InvHolds, OnWireHolds, FollowingHolds, PTL DEF Spec

Accepts ==
    /\ wire # <<>> /\ Build(wire) => pc' = "build"
    /\ pc = "build" /\ pc' # "build" /\ buffer = wire =>
         \/ ret' = 0
         \/ alloc = "heap" /\ (ret' = SMP_ERROR_NO_MEM \/ Overflows(capacity'))
         \/ alloc = "static" /\ ret' = SMP_ERROR_TOO_BIG /\ capacity < Len(Kept)

LEMMA StepAccepts ==
  ASSUME Inv, OnWire, Following, [Next]_vars
  PROVE  Accepts
  <1>1. ASSUME wire # <<>>, Build(wire) PROVE pc' = "build"
    <2>1. wire \in Seq(Byte)
      BY DEF Inv, TypeOK
    <2>2. PICK bytes \in Seq(Byte) : bytes = wire
      BY <2>1
    <2> QED BY <1>1, <2>2, BuildFollows
  <1>2. ASSUME pc = "build", pc' # "build", buffer = wire
        PROVE  \/ ret' = 0
               \/ alloc = "heap" /\ (ret' = SMP_ERROR_NO_MEM \/ Overflows(capacity'))
               \/ alloc = "static" /\ ret' = SMP_ERROR_TOO_BIG /\ capacity < Len(Kept)
    <2>1. CASE UNCHANGED vars \/ pc = "idle"
      BY <1>2, <2>1 DEF vars, loop
    <2>2. ASSUME NEW bytes \in Seq(Byte), Build(bytes) PROVE FALSE
      BY <1>2, <2>2 DEF Build
    <2>3. CASE BuildEnd
      BY <2>3 DEF BuildEnd, Return, Returns
    <2>4. CASE BuildValue
      <3>1. /\ offset < Len(buffer) /\ i \in Nat /\ capacity \in Nat /\ values \in [0 .. capacity - 1 -> Value]
            /\ alloc \in {"none", "heap", "static"}
        BY <2>4 DEF BuildValue, Inv, TypeOK, Slots
      <3>2. ASSUME NEW m \in Nat, i < m, NEW vals \in [0 .. m - 1 -> Value], DecodeInto(vals)
            PROVE  FALSE
        BY <1>2, <3>1, <3>2, DecodeOnWire
      <3>3. CASE i < capacity /\ DecodeInto(values)
        BY <3>1, <3>2, <3>3
      <3>4. CASE i >= capacity /\ alloc = "heap" /\ Grow
        <4>1. CASE Return(SMP_ERROR_NO_MEM)
          BY <3>4, <4>1 DEF Return, Returns
        <4>3. CASE GrowWrapped(NextPow2(capacity + 1))
          BY <3>4, <4>3 DEF GrowWrapped
        <4>2. CASE DecodeInto(Extended(NextPow2(capacity + 1)))
          <5>1. PICK m \in Nat : m = NextPow2(capacity + 1) /\ m >= capacity + 1
            <6>1. PICK p \in Nat \ {0} : p = capacity + 1
              BY <3>1
            <6>2. NextPow2(p) \in p .. 2 * p
              BY NextPow2Bounds, <6>1
            <6> QED BY <6>1, <6>2
          <5>2. Extended(m) \in [0 .. m - 1 -> Value]
            BY <5>1, ExtendedValues
          <5>3. i < m
            BY <1>2, <3>1, <5>1 DEF Inv, Sound
          <5> QED BY <3>2, <4>2, <5>1, <5>2, <5>3
        <4> QED BY <3>4, <4>1, <4>2, <4>3, Zenon DEF Grow
      <3>5. CASE i >= capacity /\ alloc = "static" /\ TooMany
        <4>1. ret' = SMP_ERROR_TOO_BIG
          BY <3>5 DEF TooMany, Return, Returns
        <4>2. i < Len(Kept) /\ Kept \in Seq(Sendable)
          <5>1. PICK old \in Value : TRUE
            BY EmptyIsWhole
          <5>2. offset <= Len(buffer)
            BY <3>1 DEF Inv, TypeOK
          <5> QED BY <1>2, <3>1, <5>1, <5>2, NextOnWire
        <4>3. capacity < Len(Kept)
          <5>1. Len(Kept) \in Nat
            BY <4>2
          <5> QED BY <3>1, <3>5, <4>2, <5>1
        <4> QED BY <3>5, <4>1, <4>3
      <3> HIDE DEF Inv, OnWire, Following
      <3> QED BY <2>4, <3>3, <3>4, <3>5 DEF BuildValue
    <2> HIDE DEF Inv, OnWire, Following
    <2> QED BY <2>1, <2>2, <2>3, <2>4, StepKinds DEF BuildStep
  <1> QED BY <1>1, <1>2 DEF Accepts

(***************************************************************************)
(* build_from_buffer takes whatever encode wrote: it begins to decode it,  *)
(* and fails for lack of memory, for an array whose size overflows, or in  *)
(* a static message with fewer slots than there are values on the wire,    *)
(* and for nothing else.                                                   *)
(***************************************************************************)
THEOREM OwnEncodingIsAccepted == Spec => OwnEncodingAccepted
  <1>1. Inv /\ OnWire /\ Following /\ [Next]_vars => Accepts
    BY StepAccepts
  <1>2. Inv /\ OnWire /\ Following /\ [Next]_vars =>
           [ /\ wire # <<>> /\ Build(wire) => pc' = "build"
             /\ pc = "build" /\ pc' # "build" /\ buffer = wire =>
                  \/ ret' = 0
                  \/ alloc = "heap" /\ (ret' = SMP_ERROR_NO_MEM \/ Overflows(capacity'))
                  \/ /\ alloc = "static" /\ ret' = SMP_ERROR_TOO_BIG
                     /\ capacity < Len(Kept) ]_vars
    BY <1>1 DEF Accepts
  <1> QED BY <1>2, InvHolds, OnWireHolds, FollowingHolds, PTL DEF Spec, OwnEncodingAccepted

=============================================================================
