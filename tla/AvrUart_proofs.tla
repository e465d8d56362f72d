--------------------------- MODULE AvrUart_proofs ---------------------------
(***************************************************************************)
(* For every size of the ring and every width of its indexes, and wherever *)
(* the interrupt comes between two steps of the main program: as long as   *)
(* the ring did not overrun its bytes come out in order, and it looks      *)
(* empty exactly when it is.                                               *)
(***************************************************************************)
EXTENDS AvrUart, TLAPS

\* The slot j places behind slot s, for j up to RingSize.
Behind(s, j) == IF s + j >= RingSize THEN s + j - RingSize ELSE s + j

RingType ==
    /\ cbuf \in [Cells -> Nat] /\ windex \in Slots
    /\ rindex \in 0 .. RingSize /\ Wrap(rindex) \in Slots
    /\ pc # "wrap" => rindex \in Slots
    /\ arrived \in Nat /\ taken \in Seq(Nat) /\ peak \in Nat

\* The bytes not yet read lie between the next slot to read and the next to write.
RingOrder ==
    /\ Waiting = IF NextRead <= windex THEN windex - NextRead
                 ELSE windex - NextRead + RingSize
    /\ \A j \in Nat : j < Waiting => cbuf[Behind(NextRead, j)] = Len(taken) + 1 + j
    /\ \A k \in DOMAIN taken : taken[k] = k
    /\ pc = "copy" => Waiting > 0

RingInv == RingType /\ Waiting <= peak /\ (NoOverrun => RingOrder)

-----------------------------------------------------------------------------
\* The indexes reach at least one slot, and each of them is a byte of the ring.
LEMMA RingSizeType == RingSize \in Nat /\ 1 <= RingSize /\ Slots \subseteq Cells
  BY UartAssumption DEF RingSize, Slots, Cells

\* The index update of the interrupt and of read goes to the next slot, and from the
\* last to the first, also where the index itself wraps there.
LEMMA NextSlot ==
    ASSUME NEW s \in Slots
    PROVE  /\ Wrap(Bump(s)) = IF s + 1 = RingSize THEN 0 ELSE s + 1
           /\ Bump(s) \in 0 .. RingSize
           /\ Wrap(Bump(s)) \in Slots
  <1>0. /\ IndexMod \in Nat /\ CBUF_SIZE \in Nat /\ RingSize \in Nat /\ 1 <= RingSize
        /\ RingSize <= IndexMod /\ RingSize <= CBUF_SIZE
        /\ RingSize = CBUF_SIZE \/ RingSize = IndexMod
        /\ s \in Nat /\ s < RingSize
    BY UartAssumption DEF Slots, RingSize
  <1>1. Bump(s) = IF s + 1 = IndexMod THEN 0 ELSE s + 1
    <2>0. IndexMod \in Nat /\ s \in Nat /\ IndexMod > 0 /\ s + 1 <= IndexMod
      BY <1>0
    <2>1. CASE s + 1 < IndexMod
      <3>1. (s + 1) % IndexMod = s + 1
        BY <2>0, <2>1
      <3> QED
        BY <2>0, <2>1, <3>1 DEF Bump
    <2>2. CASE s + 1 = IndexMod
      <3>1. (s + 1) % IndexMod = 0
        BY <2>0, <2>2
      <3> QED
        BY <2>0, <2>2, <3>1 DEF Bump
    <2> QED
      BY <2>0, <2>1, <2>2
  <1>2. Wrap(Bump(s)) = IF s + 1 = RingSize THEN 0 ELSE s + 1
    <2>1. CASE RingSize = CBUF_SIZE
      BY <1>0, <1>1, <2>1 DEF Wrap
    <2>2. CASE RingSize = IndexMod
      BY <1>0, <1>1, <2>2 DEF Wrap
    <2> QED
      BY <1>0, <2>1, <2>2
  <1> QED
    BY <1>0, <1>1, <1>2 DEF Slots

\* A slot is not past the ring.
LEMMA SlotStays == ASSUME NEW s \in Slots PROVE Wrap(s) = s
  <1>0. CBUF_SIZE \in Nat /\ RingSize \in Nat /\ RingSize <= CBUF_SIZE
    BY UartAssumption DEF RingSize
  <1> QED
    BY <1>0 DEF Wrap, Slots

\* Where read looks next is a slot.
LEMMA NextReadIsSlot == RingType => NextRead \in Slots
  <1> SUFFICES ASSUME RingType PROVE NextRead \in Slots
    OBVIOUS
  <1>0. RingSize \in Nat /\ 1 <= RingSize
    BY RingSizeType
  <1>1. CASE pc = "bump"
    <2>1. rindex \in Slots
      BY <1>1 DEF RingType
    <2> QED
      BY <1>1, <2>1, NextSlot DEF NextRead
  <1>2. CASE pc = "wrap"
    BY <1>0, <1>2 DEF RingType, NextRead, Wrap, Slots
  <1>3. CASE pc \notin {"bump", "wrap"}
    BY <1>3 DEF RingType, NextRead
  <1> QED
    BY <1>1, <1>2, <1>3

\* The ring is empty at the start.
LEMMA RingInit == Init => RingInv
  <1> SUFFICES ASSUME Init PROVE RingInv
    OBVIOUS
  <1>0. RingSize \in Nat /\ 1 <= RingSize
    BY RingSizeType
  <1>1. RingType
    <2>1. 0 \in Slots /\ Wrap(0) = 0
      BY <1>0, SlotStays DEF Slots
    <2> QED
      BY <1>0, <2>1 DEF Init, RingType
  <1>2. arrived = 0 /\ peak = 0 /\ windex = 0 /\ rindex = 0 /\ pc = "idle"
    BY DEF Init
  <1>3. Len(taken) = 0
    BY DEF Init
  <1>4. Waiting = 0
    BY <1>2, <1>3 DEF Waiting
  <1>5. NextRead = 0
    BY <1>2 DEF NextRead
  <1> QED
    BY <1>1, <1>2, <1>3, <1>4, <1>5 DEF RingInv, RingOrder, RingType

\* A step that leaves the ring and the index of read alone, and does not go to copy.
LEMMA RingUntouched ==
    ASSUME RingInv, UNCHANGED <<ring, rindex, taken>>,
           pc \notin {"bump", "wrap"}, pc' \notin {"bump", "wrap", "copy"}
    PROVE  RingInv'
  <1>1. RingType'
    BY DEF RingInv, RingType, ring
  <1>2. UNCHANGED <<Waiting, NextRead, peak, cbuf, windex, taken>>
    BY DEF Waiting, NextRead, ring
  <1>3. NoOverrun' => RingOrder'
    BY <1>2 DEF RingInv, RingOrder, NoOverrun, Behind
  <1> QED
    BY <1>1, <1>2, <1>3 DEF RingInv

\* The interrupt writes where no byte waits, unless it overruns.
LEMMA InterruptKeepsRing == RingInv /\ RxInterrupt => RingInv'
  <1> SUFFICES ASSUME RingInv, RxInterrupt PROVE RingInv'
    OBVIOUS
  <1>0. RingSize \in Nat /\ 1 <= RingSize
    BY RingSizeType
  <1>1. /\ windex' = IF windex + 1 = RingSize THEN 0 ELSE windex + 1
        /\ windex' \in Slots
    BY NextSlot DEF RingInv, RingType, RxInterrupt
  <1>2. RingType'
    <2>0. arrived \in Nat /\ Len(taken) \in Nat /\ peak \in Nat /\ Waiting \in Int
      BY DEF RingInv, RingType, Waiting
    <2>1. cbuf' \in [Cells -> Nat] /\ arrived' \in Nat /\ peak' \in Nat
      <3>1. arrived' \in Nat /\ arrived' = arrived + 1
        BY <2>0 DEF RxInterrupt
      <3>2. cbuf' \in [Cells -> Nat]
        BY <2>0, <3>1 DEF RingInv, RingType, RxInterrupt
      <3>3. peak' \in Nat
        BY <2>0 DEF RxInterrupt
      <3> QED
        BY <3>1, <3>2, <3>3
    <2>2. UNCHANGED <<rindex, pc, taken>> /\ Wrap(rindex') = Wrap(rindex)
      BY DEF RxInterrupt
    <2> QED
      BY <1>1, <2>1, <2>2 DEF RingInv, RingType
  <1>3. Waiting \in Int /\ Waiting' = Waiting + 1 /\ UNCHANGED <<NextRead, taken, pc>>
        /\ arrived = Len(taken) + Waiting /\ Len(taken) \in Nat
    BY DEF RingInv, RingType, RxInterrupt, Waiting, NextRead
  <1>4. Waiting' <= peak' /\ peak <= peak'
    BY <1>3 DEF RingInv, RingType, RxInterrupt
  <1>5. ASSUME NoOverrun' PROVE RingOrder'
    <2>1. RingOrder /\ Waiting + 1 < RingSize
      BY <1>0, <1>2, <1>3, <1>4, <1>5 DEF RingInv, RingType, NoOverrun
    <2>2. NextRead \in Slots /\ windex \in Slots
      BY NextReadIsSlot DEF RingInv, RingType
    <2>3. Waiting \in Nat /\ Behind(NextRead, Waiting) = windex
      BY <1>0, <2>1, <2>2 DEF RingOrder, Behind, Slots
    <2>4. Waiting' = IF NextRead' <= windex' THEN windex' - NextRead'
                     ELSE windex' - NextRead' + RingSize
      BY <1>0, <1>1, <1>3, <2>1, <2>2 DEF RingOrder, Slots
    <2>5. ASSUME NEW j \in Nat, j < Waiting'
          PROVE  cbuf'[Behind(NextRead, j)] = Len(taken) + 1 + j
      <3>1. CASE j < Waiting
        <4>1. Behind(NextRead, j) # windex /\ Behind(NextRead, j) \in Slots
          BY <1>0, <2>1, <2>2, <2>3, <3>1 DEF Behind, Slots
        <4>2. cbuf[Behind(NextRead, j)] = Len(taken) + 1 + j
          BY <2>1, <3>1 DEF RingOrder
        <4> QED
          BY <4>1, <4>2 DEF RxInterrupt, RingInv, RingType
      <3>2. CASE j = Waiting
        BY <1>3, <2>2, <2>3, <3>2, RingSizeType DEF RxInterrupt, RingInv, RingType
      <3> QED
        BY <1>3, <2>3, <2>5, <3>1, <3>2
    <2>6. \A j \in Nat : j < Waiting' => cbuf'[Behind(NextRead', j)] = Len(taken') + 1 + j
      BY <1>3, <2>5
    <2>7. \A k \in DOMAIN taken' : taken'[k] = k
      BY <1>3, <2>1 DEF RingOrder
    <2>8. pc' = "copy" => Waiting' > 0
      BY <1>3, <2>3
    <2> QED
      BY <2>4, <2>6, <2>7, <2>8 DEF RingOrder, Behind
  <1> QED
    BY <1>2, <1>4, <1>5 DEF RingInv

\* Read goes to copy only when a byte waits.
LEMMA CheckKeepsRing == RingInv /\ ReadCheck => RingInv'
  <1> SUFFICES ASSUME RingInv, ReadCheck PROVE RingInv'
    OBVIOUS
  <1>0. RingSize \in Nat /\ 1 <= RingSize
    BY RingSizeType
  <1>1. CASE pc' # "copy"
    <2>1. pc = "check" /\ pc' = "idle" /\ UNCHANGED <<ring, rindex, taken>>
      BY <1>1 DEF ReadCheck, Return
    <2> QED
      BY <2>1, RingUntouched
  <1>2. CASE pc' = "copy"
    <2>1. pc = "check" /\ rindex # windex /\ UNCHANGED <<ring, rindex, taken>>
      BY <1>2 DEF ReadCheck, Return
    <2>2. RingType'
      BY <1>2, <2>1 DEF RingInv, RingType, ring
    <2>3. NextRead = rindex /\ UNCHANGED <<Waiting, NextRead, peak, cbuf, windex, taken>>
      BY <1>2, <2>1 DEF Waiting, NextRead, ring
    <2>4. ASSUME NoOverrun' PROVE RingOrder'
      <3>1. RingOrder
        BY <2>3, <2>4 DEF RingInv, NoOverrun
      <3>2. Waiting > 0
        BY <1>0, <2>1, <2>3, <3>1, NextReadIsSlot DEF RingInv, RingType, RingOrder, Slots
      <3> QED
        BY <2>3, <3>1, <3>2 DEF RingOrder, Behind
    <2> QED
      BY <2>2, <2>3, <2>4 DEF RingInv
  <1> QED
    BY <1>1, <1>2

\* The byte copied is the oldest one that waits.
LEMMA CopyKeepsRing == RingInv /\ ReadCopy => RingInv'
  <1> SUFFICES ASSUME RingInv, ReadCopy PROVE RingInv'
    OBVIOUS
  <1>0. RingSize \in Nat /\ 1 <= RingSize
    BY RingSizeType
  <1>1. /\ pc = "copy" /\ pc' = "bump" /\ rindex \in Slots /\ rindex' = rindex
        /\ NextRead = rindex /\ NextRead' = Wrap(Bump(rindex))
        /\ taken' = Append(taken, cbuf[rindex])
        /\ UNCHANGED <<cbuf, windex, arrived, peak>>
    BY DEF ReadCopy, RingInv, RingType, NextRead, ring, Wrap, Bump
  <1>2. NextRead' = IF rindex + 1 = RingSize THEN 0 ELSE rindex + 1
    BY <1>1, NextSlot
  <1>3. cbuf[rindex] \in Nat
    BY <1>1, RingSizeType DEF RingInv, RingType
  <1>4. RingType'
    BY <1>1, <1>3 DEF RingInv, RingType
  <1>5. /\ Len(taken') = Len(taken) + 1 /\ Len(taken) \in Nat
        /\ Waiting' = Waiting - 1 /\ Waiting \in Int
    BY <1>1, <1>3 DEF RingInv, RingType, Waiting
  <1>6. Waiting' <= peak'
    BY <1>1, <1>5 DEF RingInv, RingType
  <1>7. ASSUME NoOverrun' PROVE RingOrder'
    <2>1. RingOrder /\ Waiting > 0
      BY <1>1, <1>7 DEF RingInv, RingOrder, NoOverrun
    <2>2. windex \in Slots /\ rindex \in Slots
      BY <1>1 DEF RingInv, RingType
    <2>3. Waiting' = IF NextRead' <= windex' THEN windex' - NextRead'
                     ELSE windex' - NextRead' + RingSize
      BY <1>0, <1>1, <1>2, <1>5, <2>1, <2>2 DEF RingOrder, Slots
    <2>4. cbuf[rindex] = Len(taken) + 1
      <3>1. cbuf[Behind(rindex, 0)] = Len(taken) + 1 + 0
        BY <1>1, <1>5, <2>1 DEF RingOrder
      <3>2. Behind(rindex, 0) = rindex
        BY <1>0, <2>2 DEF Behind, Slots
      <3> QED
        BY <1>5, <3>1, <3>2
    <2>5. ASSUME NEW j \in Nat, j < Waiting'
          PROVE  cbuf[Behind(NextRead', j)] = Len(taken') + 1 + j
      <3>1. j + 1 \in Nat /\ j + 1 < Waiting
        BY <1>5, <2>5
      <3>2. cbuf[Behind(rindex, j + 1)] = Len(taken) + 1 + (j + 1)
        BY <1>1, <2>1, <3>1 DEF RingOrder
      <3>3. Waiting <= RingSize
        BY <1>0, <1>1, <2>1, <2>2 DEF RingOrder, Slots
      <3>4. Behind(rindex, j + 1) = Behind(NextRead', j)
        BY <1>0, <1>2, <1>5, <2>2, <3>1, <3>3 DEF Behind, Slots
      <3> QED
        BY <1>5, <3>2, <3>4
    <2>6. \A k \in DOMAIN taken' : taken'[k] = k
      BY <1>1, <1>3, <1>5, <2>1, <2>4 DEF RingOrder, RingInv, RingType
    <2> QED
      BY <1>1, <2>3, <2>5, <2>6 DEF RingOrder, Behind
  <1> QED
    BY <1>4, <1>6, <1>7 DEF RingInv

\* The two halves of the index update leave the next slot to read where it is.
LEMMA UpdateKeepsRing == RingInv /\ (ReadBump \/ ReadWrap) => RingInv'
  <1> SUFFICES ASSUME RingInv, ReadBump \/ ReadWrap PROVE RingInv'
    OBVIOUS
  <1>0. RingSize \in Nat /\ 1 <= RingSize
    BY RingSizeType
  <1>1. RingType' /\ NextRead' = NextRead /\ pc' # "copy" /\ UNCHANGED <<ring, taken>>
    <2>1. CASE ReadBump
      <3>1. rindex \in Slots /\ rindex' = Bump(rindex) /\ pc = "bump" /\ pc' = "wrap"
            /\ UNCHANGED <<ring, taken>>
        BY <2>1 DEF ReadBump, RingInv, RingType
      <3>2. RingType'
        BY <3>1, NextSlot DEF RingInv, RingType, ring
      <3> QED
        BY <3>1, <3>2 DEF NextRead, Wrap, Bump
    <2>2. CASE ReadWrap
      <3>1. rindex' = Wrap(rindex) /\ pc = "wrap" /\ pc' = "check" /\ UNCHANGED <<ring, taken>>
        BY <2>2 DEF ReadWrap
      <3>2. Wrap(rindex) \in Slots
        BY DEF RingInv, RingType
      <3>3. rindex' \in Slots /\ rindex' \in 0 .. RingSize /\ Wrap(rindex') \in Slots
        BY <1>0, <3>1, <3>2, SlotStays DEF Slots
      <3>4. RingType'
        BY <3>1, <3>3 DEF RingInv, RingType, ring, Wrap
      <3> QED
        BY <3>1, <3>2, <3>4, SlotStays DEF NextRead
    <2> QED
      BY <2>1, <2>2
  <1>2. UNCHANGED <<Waiting, peak, cbuf, windex>>
    BY <1>1 DEF Waiting, ring
  <1>3. NoOverrun' => RingOrder'
    BY <1>1, <1>2 DEF RingInv, RingOrder, NoOverrun, Behind
  <1> QED
    BY <1>1, <1>2, <1>3 DEF RingInv

\* The steps of open, close, set_config, write and wait, and the start of read.
LEMMA CallKeepsRing ==
    RingInv /\ (Calls \/ Configured \/ WriteStep \/ WaitStep) => RingInv'
  <1> SUFFICES ASSUME RingInv, Calls \/ Configured \/ WriteStep \/ WaitStep PROVE RingInv'
    OBVIOUS
  <1> DEFINE Aside == /\ UNCHANGED <<ring, rindex, taken>>
                     /\ pc \notin {"bump", "wrap"} /\ pc' \notin {"bump", "wrap", "copy"}
  <1>1. Open => Aside
    BY DEF Open, Return, call
  <1>2. Close => Aside
    BY DEF Close, call
  <1>3. Write => Aside
    BY DEF Write
  <1>4. Read => Aside
    <2> SUFFICES ASSUME Read PROVE Aside
      OBVIOUS
    <2>1. pc = "idle" /\ UNCHANGED <<ring, rindex, taken>>
      BY DEF Read
    <2>2. GetDevice(fd) \in {"NULL", "device", "wild"}
      BY DEF GetDevice
    <2>3. pc' \in {"idle", "check"}
      BY <2>2 DEF Read, Return
    <2> QED
      BY <2>1, <2>3
  <1>5. ASSUME NEW wanted \in Configs, SetConfig(wanted) PROVE Aside
    <2>1. pc = "idle" /\ UNCHANGED <<ring, rindex, taken>>
      BY <1>5 DEF SetConfig, call
    <2>2. GetDevice(fd) \in {"NULL", "device", "wild"}
      BY DEF GetDevice
    <2>3. pc' \in {"idle", "configure"}
      BY <1>5, <2>2 DEF SetConfig, Return
    <2> QED
      BY <2>1, <2>3
  <1>6. ASSUME NEW t \in Timeouts, Wait(t) PROVE Aside
    BY <1>6 DEF Wait, Return
  <1>7. Configured => Aside
    BY DEF Configured, Return
  <1>8. WriteByte => Aside
    BY DEF WriteByte
  <1>9. WriteEnds => Aside
    BY DEF WriteEnds, Return
  <1>10. WaitSpin => Aside
    BY DEF WaitSpin, Return
  <1>11. WaitDelay => Aside
    BY DEF WaitDelay
  <1>12. WaitReturn => Aside
    BY DEF WaitReturn, Return
  <1>13. Aside
    BY <1>1, <1>2, <1>3, <1>4, <1>5, <1>6, <1>7, <1>8, <1>9, <1>10, <1>11, <1>12 DEF Calls, WriteStep, WaitStep
  <1> QED
    BY <1>13, RingUntouched

\* Every step keeps the invariant.
LEMMA RingStep == RingInv /\ [Next]_vars => RingInv'
  <1> SUFFICES ASSUME RingInv, [Next]_vars PROVE RingInv'
    OBVIOUS
  <1>1. CASE Calls \/ Configured \/ WriteStep \/ WaitStep
    BY <1>1, CallKeepsRing
  <1>2. CASE Transmit \/ UNCHANGED vars
    <2>1. UNCHANGED <<ring, rindex, taken, pc>>
      BY <1>2 DEF Transmit, vars
    <2>2. RingType'
      BY <2>1 DEF RingInv, RingType, ring
    <2>3. UNCHANGED <<Waiting, NextRead, peak, cbuf, windex, taken, pc>>
      BY <2>1 DEF Waiting, NextRead, ring, Wrap, Bump
    <2>4. NoOverrun' => RingOrder'
      BY <2>3 DEF RingInv, RingOrder, NoOverrun, Behind
    <2> QED
      BY <2>2, <2>3, <2>4 DEF RingInv
  <1>3. CASE RxInterrupt
    BY <1>3, InterruptKeepsRing
  <1>4. CASE ReadStep
    BY <1>4, CheckKeepsRing, CopyKeepsRing, UpdateKeepsRing DEF ReadStep
  <1> QED
    BY <1>1, <1>2, <1>3, <1>4 DEF Next, Goes

(***************************************************************************)
(* As long as the ring did not overrun, read returns the bytes in the      *)
(* order the interrupt stored them.                                        *)
(***************************************************************************)
THEOREM RingIsFifo == Spec => []Fifo
  <1>1. RingInv => Fifo
    BY DEF RingInv, RingOrder, Fifo
  <1> QED
    BY <1>1, RingInit, RingStep, PTL DEF Spec

(***************************************************************************)
(* As long as the ring did not overrun, the indexes are equal exactly when *)
(* every byte was read.                                                    *)
(***************************************************************************)
THEOREM EmptyIsDrained == Spec => []EmptyMeansDrained
  <1>1. RingInv => EmptyMeansDrained
    <2> SUFFICES ASSUME RingInv, NoOverrun PROVE NextRead = windex <=> Waiting = 0
      BY DEF EmptyMeansDrained
    <2>1. NextRead \in Slots /\ windex \in Slots /\ RingSize \in Nat
      BY NextReadIsSlot, RingSizeType DEF RingInv, RingType
    <2>2. Waiting = IF NextRead <= windex THEN windex - NextRead
                    ELSE windex - NextRead + RingSize
      BY DEF RingInv, RingOrder
    <2> QED
      BY <2>1, <2>2 DEF Slots
  <1> QED
    BY <1>1, RingInit, RingStep, PTL DEF Spec

-----------------------------------------------------------------------------
(* The rest of the device *)

Rates == [baudrate : Baudrates \cup {0}, parity : {"none", "odd", "even"}]

\* In the middle of a read there is room in the chunk for the byte at hand.
CallType ==
    /\ pc \in {"idle", "check", "copy", "bump", "wrap", "spin", "poll", "configure", "send"}
    /\ count \in 0 .. IF pc = "send" THEN FrameSize ELSE CHUNK_SIZE
    /\ pc \in {"copy", "bump", "wrap"} => count < CHUNK_SIZE
    /\ timeout \in Int /\ elapsed \in Nat /\ ret \in Int

DeviceType ==
    /\ fd \in {-1, 0} /\ csr_b \subseteq {"RXEN0", "TXEN0", "RXCIE0"}
    /\ config \in Rates /\ dr \subseteq Rates /\ wild \in {"yes", "no"}

\* Numbers that are all in range at the start.
LEMMA DeviceInit == Init => CallType /\ DeviceType
  BY UartAssumption DEF Init, CallType, DeviceType, Rates

\* What open and set_config write to the registers is a configuration.
LEMMA RatesSet ==
    ASSUME DeviceType
    PROVE  /\ \A wanted \in Configs :
                [baudrate |-> SetBaudrate(wanted.baudrate), parity |-> wanted.parity] \in Rates
           /\ [baudrate |-> SetBaudrate(115200), parity |-> "none"] \in Rates
  BY UartAssumption DEF DeviceType, SetBaudrate, Rates

\* The registers.
LEMMA DeviceStep == DeviceType /\ [Next]_vars => DeviceType'
  <1> SUFFICES ASSUME DeviceType, [Next]_vars PROVE DeviceType'
    OBVIOUS
  <1>1. CASE Open \/ Close \/ Configured
    <2>1. /\ UNCHANGED <<dr, wild>> /\ fd' \in {fd, 0, -1}
          /\ config' = config \/ config' = [baudrate |-> SetBaudrate(115200), parity |-> "none"]
      BY <1>1 DEF Open, Close, Configured, line
    <2>2. config' \in Rates /\ dr' \subseteq Rates
      BY <2>1, RatesSet DEF DeviceType
    <2>3. csr_b' \subseteq {"RXEN0", "TXEN0", "RXCIE0"}
      <3>1. \A b \in csr_b : b \in {"RXEN0", "TXEN0", "RXCIE0"}
        BY DEF DeviceType
      <3>2. CASE Open
        BY <3>1, <3>2 DEF Open
      <3>3. CASE Close
        BY <3>1, <3>3 DEF Close
      <3>4. CASE Configured
        BY <3>1, <3>4 DEF Configured
      <3> QED
        BY <1>1, <3>2, <3>3, <3>4
    <2>4. fd' \in {-1, 0} /\ wild' \in {"yes", "no"}
      BY <2>1 DEF DeviceType
    <2> QED
      BY <2>2, <2>3, <2>4 DEF DeviceType
  <1>2. ASSUME NEW wanted \in Configs, SetConfig(wanted) PROVE DeviceType'
    <2>1. GetDevice(fd) \in {"device", "wild"} /\ UNCHANGED <<fd, dr>>
      <3>1. GetDevice(fd) \in {"device", "wild"}
        BY DEF DeviceType, GetDevice
      <3> QED
        BY <1>2, <3>1 DEF SetConfig
    <2>2. /\ config' = config \/ config' = [baudrate |-> SetBaudrate(wanted.baudrate),
                                            parity |-> wanted.parity]
          /\ wild' = wild \/ wild' = "yes"
      BY <1>2, <2>1 DEF SetConfig
    <2>3. csr_b' = csr_b \/ csr_b' = csr_b \ {"RXEN0", "TXEN0"}
      BY <1>2, <2>1 DEF SetConfig
    <2>4. csr_b' \subseteq {"RXEN0", "TXEN0", "RXCIE0"}
      BY <2>3, Zenon DEF DeviceType
    <2>5. config' \in Rates /\ wild' \in {"yes", "no"}
      BY <2>2, RatesSet DEF DeviceType
    <2> QED
      BY <2>1, <2>4, <2>5 DEF DeviceType
  <1>3. CASE WriteByte \/ Transmit
    BY <1>3 DEF WriteByte, Transmit, DeviceType
  <1>4. CASE RxInterrupt \/ Write \/ WriteEnds \/ ReadStep \/ WaitStep \/ UNCHANGED vars
    <2>1. UNCHANGED device
      BY <1>4 DEF RxInterrupt, Write, WriteEnds, ReadStep, ReadCheck, ReadCopy, ReadBump, ReadWrap,
                  WaitStep, WaitSpin, WaitDelay, WaitReturn, vars
    <2> QED
      BY <2>1 DEF DeviceType, device, line
  <1>5. ASSUME NEW t \in Timeouts, Wait(t) PROVE DeviceType'
    BY <1>5 DEF Wait, device, line, DeviceType
  <1>6. CASE Read
    <2>1. UNCHANGED <<fd, csr_b, config, dr>>
      BY <1>6 DEF Read, line
    <2>2. GetDevice(fd) \in {"device", "wild"}
      BY DEF DeviceType, GetDevice
    <2>3. wild' = wild \/ wild' = "yes"
      BY <1>6, <2>2 DEF Read
    <2> QED
      BY <2>1, <2>3 DEF DeviceType
  <1> QED
    BY <1>1, <1>2, <1>3, <1>4, <1>5, <1>6 DEF Next, Calls, Goes, WriteStep

\* The calls.
LEMMA CallStep == CallType /\ DeviceType /\ [Next]_vars => CallType'
  <1> SUFFICES ASSUME CallType, DeviceType, [Next]_vars PROVE CallType'
    OBVIOUS
  <1>0. CHUNK_SIZE \in Nat /\ CHUNK_SIZE > 0 /\ FrameSize \in Nat /\ count \in Nat
    BY UartAssumption DEF CallType
  <1>1. CASE Open \/ Close \/ Configured
    BY <1>1 DEF Open, Close, Configured, CallType, call, Return, SMP_ERROR_BUSY
  <1>2. ASSUME NEW wanted \in Configs, SetConfig(wanted) PROVE CallType'
    <2>1. GetDevice(fd) \in {"device", "wild"} /\ UNCHANGED call /\ pc = "idle"
      BY <1>2 DEF DeviceType, GetDevice, SetConfig
    <2>2. pc' \in {"configure", "idle"} /\ (ret' = ret \/ ret' = 0)
      BY <1>2, <2>1 DEF SetConfig, Return
    <2> QED
      BY <2>1, <2>2 DEF CallType, call
  <1>3. CASE Write \/ WriteStep
    BY <1>0, <1>3 DEF Write, WriteStep, WriteByte, WriteEnds, Return, CallType
  <1>4. CASE ReadStep
    BY <1>0, <1>4 DEF ReadStep, ReadCheck, ReadCopy, ReadBump, ReadWrap, Return, CallType, call
  <1>5. ASSUME NEW t \in Timeouts, Wait(t) PROVE CallType'
    BY <1>5, UartAssumption DEF Wait, Return, CallType
  <1>6. CASE WaitStep
    BY <1>6 DEF WaitStep, WaitSpin, WaitDelay, WaitReturn, Return, CallType, call, SMP_ERROR_TIMEDOUT
  <1>7. CASE RxInterrupt \/ Transmit \/ UNCHANGED vars
    BY <1>7 DEF RxInterrupt, Transmit, CallType, call, vars
  <1>8. CASE Read
    <2>1. pc = "idle" /\ UNCHANGED <<timeout, elapsed>>
      BY <1>8 DEF Read
    <2>2. GetDevice(fd) \in {"device", "wild"}
      BY DEF DeviceType, GetDevice
    <2>3. \/ pc' = "check" /\ count' = 0 /\ ret' = ret
          \/ pc' = "idle" /\ count' = count /\ ret' \in 0 .. CHUNK_SIZE
      BY <1>8, <2>2 DEF Read, Return
    <2> QED
      BY <1>0, <2>1, <2>3 DEF CallType
  <1> QED
    BY <1>1, <1>2, <1>3, <1>4, <1>5, <1>6, <1>7, <1>8 DEF Next, Calls, Goes

(***************************************************************************)
(* The types: the indexes stay in the ring, and read and write stay within *)
(* what they were asked for, wherever the interrupt comes.                 *)
(***************************************************************************)
THEOREM TypeCorrect == Spec => []TypeOK
  <1>1. RingInv /\ CallType /\ DeviceType => TypeOK
    <2> SUFFICES ASSUME RingInv, CallType, DeviceType PROVE TypeOK
      OBVIOUS
    <2>1. config.baudrate \in Baudrates \cup {0} /\ config.parity \in {"none", "odd", "even"}
          /\ \A c \in dr : c.baudrate \in Baudrates \cup {0}
      BY DEF DeviceType, Rates
    <2> QED
      BY <2>1 DEF TypeOK, RingInv, RingType, CallType, DeviceType
  <1> QED
    BY <1>1, RingInit, RingStep, DeviceInit, DeviceStep, CallStep, PTL DEF Spec

=============================================================================
