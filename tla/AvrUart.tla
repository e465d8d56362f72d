------------------------------ MODULE AvrUart -------------------------------
(***************************************************************************)
(* The AVR serial device of src/serial-device-avr.c: a ring of CBUF_SIZE   *)
(* bytes filled by the receive interrupt and drained by                    *)
(* smp_serial_device_read, with smp_serial_device_wait polling it.         *)
(*                                                                         *)
(* The interrupt is one atomic action (the main program does not run in    *)
(* the middle of it); each access of the main program to the ring and its  *)
(* indexes is a step of its own, so the interrupt comes between any two.   *)
(* One device and one SmpSerialDevice; the bytes themselves do not matter, *)
(* so the n-th byte received is the number n.                              *)
(***************************************************************************)
EXTENDS LibSmp, Sequences

CONSTANTS
    CBUF_SIZE,      \* size of the ring (option avr-uart-buffer-size)
    IndexMod,       \* 256: the indexes are uint8_t, whatever the size of the ring
    CHUNK_SIZE,     \* SMP_CONTEXT_PROCESS_CHUNK_SIZE, what one read asks for
    FrameSize,      \* bytes of a message, what one write is given
    Timeouts,       \* arguments of wait, in ms; negative: none
    Baudrates,      \* those of SmpSerialBaudrate
    Configs,        \* arguments of set_config
    MaxBytes        \* bound on the bytes received

ASSUME UartAssumption ==
    /\ IndexMod \in Nat \ {0} /\ CBUF_SIZE \in Nat \ {0}
    /\ CHUNK_SIZE \in Nat \ {0} /\ FrameSize \in Nat \ {0}
    /\ Timeouts \subseteq Int
    /\ \A c \in Configs : c.parity \in {"none", "odd", "even"}
    /\ MaxBytes \in Nat

VARIABLES
    fd,             \* of the SmpSerialDevice: 0, the index of the device, or -1
    csr_b,          \* the bits set in the control and status register B
    config,         \* baud rate and parity, in the other registers
    dr,             \* the configuration the byte in the data register was written under,
                    \* {} when the register is empty
    cbuf, rindex, windex,
    pc,             \* where the main program is
    count,          \* bytes the current read or write has copied
    timeout, elapsed,   \* of the current wait
    ret,            \* what the last call returned
    wild,           \* whether memory that is not a device was used as one
    arrived,        \* number of bytes the interrupt has stored
    taken,          \* the bytes copied out by read, in order
    peak            \* the largest number of bytes that ever waited in the ring

ring == <<cbuf, windex, arrived, peak>>
line == <<config, dr>>
device == <<fd, csr_b, line, wild>>
call == <<count, timeout, elapsed>>
vars == <<ring, device, call, rindex, pc, ret, taken>>

\* The bytes of the ring, and those of them that its indexes reach: a ring of more bytes
\* than an index counts is one of IndexMod bytes.
Cells == 0 .. CBUF_SIZE - 1
RingSize == IF CBUF_SIZE <= IndexMod THEN CBUF_SIZE ELSE IndexMod
Slots == 0 .. RingSize - 1

TypeOK ==
    /\ fd \in {-1, 0}
    /\ csr_b \subseteq {"RXEN0", "TXEN0", "RXCIE0"}
    /\ cbuf \in [Cells -> Nat]
    /\ windex \in Slots /\ rindex \in 0 .. RingSize
    /\ config.baudrate \in Baudrates \cup {0} /\ config.parity \in {"none", "odd", "even"}
    /\ pc \in {"idle", "check", "copy", "bump", "wrap", "spin", "poll", "configure", "send"}
    /\ count \in 0 .. IF pc = "send" THEN FrameSize ELSE CHUNK_SIZE
    /\ timeout \in Int /\ elapsed \in Nat /\ ret \in Int
    /\ wild \in {"yes", "no"} /\ \A c \in dr : c.baudrate \in Baudrates \cup {0}
    /\ arrived \in Nat /\ taken \in Seq(Nat) /\ peak \in Nat

Init ==
    /\ fd = -1 /\ csr_b = {} /\ wild = "no"
    /\ config = [baudrate |-> 0, parity |-> "none"] /\ dr = {}
    /\ cbuf = [s \in Cells |-> 0] /\ rindex = 0 /\ windex = 0
    /\ pc = "idle" /\ count = 0 /\ timeout = 0 /\ elapsed = 0 /\ ret = 0
    /\ arrived = 0 /\ taken = <<>> /\ peak = 0

Return(r) == pc' = "idle" /\ ret' = r

-----------------------------------------------------------------------------
(* The interrupt *)

Bump(index) == (index + 1) % IndexMod

\* Mistake: the index may stand one past the ring.
WrapOffByOne(index) == IF index > CBUF_SIZE THEN 0 ELSE index

\* Mistake: the index goes back to the second slot.
WrapToOne(index) == IF index >= CBUF_SIZE THEN 1 ELSE index

Wrap(index) == IF index >= CBUF_SIZE THEN 0 ELSE index

Waiting == arrived - Len(taken)

\* It stores the byte and moves on, and never looks at rindex.
RxInterrupt ==
    /\ {"RXEN0", "RXCIE0"} \subseteq csr_b /\ arrived < MaxBytes
    /\ arrived' = arrived + 1
    /\ cbuf' = [cbuf EXCEPT ![windex] = arrived + 1]
    /\ windex' = Wrap(Bump(windex))
    /\ peak' = IF Waiting + 1 > peak THEN Waiting + 1 ELSE peak
    /\ UNCHANGED <<device, call, rindex, pc, ret, taken>>

-----------------------------------------------------------------------------
(* Open, close and configure *)

\* A rate the driver does not know leaves the old one.
SetBaudrate(baudrate) == IF baudrate \in Baudrates THEN baudrate ELSE config.baudrate

\* The ring and its indexes are not touched.
Open ==
    /\ pc = "idle" /\ fd = -1
    /\ IF csr_b \cap {"RXEN0", "TXEN0"} # {}
       THEN Return(SMP_ERROR_BUSY) /\ UNCHANGED <<fd, csr_b, config>>
       ELSE /\ Return(0) /\ fd' = 0 /\ csr_b' = {"RXEN0", "TXEN0", "RXCIE0"}
            /\ config' = [baudrate |-> SetBaudrate(115200), parity |-> "none"]
    /\ UNCHANGED <<ring, call, rindex, dr, wild, taken>>

Close ==
    /\ pc = "idle" /\ fd = 0
    /\ csr_b' = csr_b \ {"RXEN0", "TXEN0"} /\ fd' = -1
    /\ UNCHANGED <<ring, line, call, rindex, pc, ret, wild, taken>>

\* get_device_from_fd only checks that fd is below the number of devices.
GetDevice(f) == IF f >= 1 THEN "NULL" ELSE IF f = 0 THEN "device" ELSE "wild"

\* The receiver is off while the configuration changes; whether a byte is still being
\* sent is not looked at, and flow control is ignored.
SetConfig(wanted) ==
    /\ pc = "idle"
    /\ CASE GetDevice(fd) = "NULL"   -> /\ Return(SMP_ERROR_NO_DEVICE)
                                        /\ UNCHANGED <<csr_b, config, wild>>
         [] GetDevice(fd) = "device" -> /\ pc' = "configure" /\ csr_b' = csr_b \ {"RXEN0", "TXEN0"}
                                        /\ config' = [baudrate |-> SetBaudrate(wanted.baudrate),
                                                      parity |-> wanted.parity]
                                        /\ UNCHANGED <<ret, wild>>
         [] GetDevice(fd) = "wild"   -> /\ wild' = "yes" /\ Return(0)
                                        /\ UNCHANGED <<csr_b, config>>
    /\ UNCHANGED <<ring, call, rindex, fd, dr, taken>>

Configured ==
    /\ pc = "configure"
    /\ csr_b' = csr_b \cup {"RXEN0", "TXEN0"} /\ Return(0)
    /\ UNCHANGED <<ring, line, call, rindex, fd, wild, taken>>

-----------------------------------------------------------------------------
(* Write *)

Write ==
    /\ pc = "idle" /\ fd = 0
    /\ pc' = "send" /\ count' = 0
    /\ UNCHANGED <<ring, device, rindex, timeout, elapsed, ret, taken>>

\* When the bit UDRE0 says that the data register is empty.
WriteByte ==
    /\ pc = "send" /\ count < FrameSize /\ dr = {}
    /\ dr' = {config} /\ count' = count + 1
    /\ UNCHANGED <<ring, fd, csr_b, config, wild, rindex, timeout, elapsed, pc, ret, taken>>

WriteEnds ==
    /\ pc = "send" /\ count = FrameSize /\ Return(count) /\ count' = 0
    /\ UNCHANGED <<ring, device, timeout, elapsed, rindex, taken>>

\* The transmitter finishes the byte, even when it was disabled meanwhile.
Transmit ==
    /\ dr # {} /\ dr' = {}
    /\ UNCHANGED <<ring, fd, csr_b, config, wild, call, rindex, pc, ret, taken>>

-----------------------------------------------------------------------------
(* Read *)

\* The loop of the context reads on after a callback closed the device: then the memory
\* in front of the table of devices is taken for one, and any number of bytes comes out.
Read ==
    /\ pc = "idle"
    /\ CASE GetDevice(fd) = "NULL"   -> /\ Return(SMP_ERROR_NO_DEVICE)
                                        /\ UNCHANGED <<count, wild>>
         [] GetDevice(fd) = "device" -> pc' = "check" /\ count' = 0 /\ UNCHANGED <<ret, wild>>
         [] GetDevice(fd) = "wild"   -> /\ \E n \in 0 .. CHUNK_SIZE : Return(n)
                                        /\ wild' = "yes" /\ UNCHANGED count
    /\ UNCHANGED <<ring, fd, csr_b, line, rindex, timeout, elapsed, taken>>

ReadCheck ==
    /\ pc = "check"
    /\ IF count < CHUNK_SIZE /\ rindex # windex
       THEN pc' = "copy" /\ UNCHANGED ret
       ELSE Return(count)
    /\ UNCHANGED <<ring, device, call, rindex, taken>>

\* Mistake: the index moves on before the byte is copied.
ReadCopyLate ==
    /\ pc = "copy" /\ pc' = "bump"
    /\ taken' = Append(taken, cbuf[Wrap(Bump(rindex))])
    /\ UNCHANGED <<ring, device, call, rindex, ret>>

ReadCopy ==
    /\ pc = "copy" /\ pc' = "bump"
    /\ taken' = Append(taken, cbuf[rindex])
    /\ UNCHANGED <<ring, device, call, rindex, ret>>

ReadBump ==
    /\ pc = "bump" /\ pc' = "wrap"
    /\ rindex' = Bump(rindex)
    /\ UNCHANGED <<ring, device, call, ret, taken>>

ReadWrap ==
    /\ pc = "wrap" /\ pc' = "check"
    /\ rindex' = Wrap(rindex) /\ count' = count + 1
    /\ UNCHANGED <<ring, device, timeout, elapsed, ret, taken>>

-----------------------------------------------------------------------------
(* Wait *)

Wait(t) ==
    /\ pc = "idle" /\ fd = 0
    /\ timeout' = t /\ elapsed' = 0
    /\ IF rindex # windex THEN Return(0)
       ELSE pc' = (IF t < 0 THEN "spin" ELSE "poll") /\ UNCHANGED ret
    /\ UNCHANGED <<ring, device, count, rindex, taken>>

\* Mistake: the loop waits for the index it read first to change.
WaitSpinStale ==
    /\ pc = "spin" /\ windex = 0 /\ rindex # windex /\ Return(0)
    /\ UNCHANGED <<ring, device, call, rindex, taken>>

WaitSpin ==
    /\ pc = "spin" /\ rindex # windex /\ Return(0)
    /\ UNCHANGED <<ring, device, call, rindex, taken>>

\* Nothing yet: let 5 ms pass.
WaitDelay ==
    /\ pc = "poll" /\ elapsed < timeout /\ rindex = windex
    /\ elapsed' = elapsed + 5
    /\ UNCHANGED <<ring, device, count, timeout, rindex, pc, ret, taken>>

WaitReturn ==
    /\ pc = "poll"
    /\ \/ rindex # windex /\ Return(0)
       \/ rindex = windex /\ elapsed >= timeout /\ Return(SMP_ERROR_TIMEDOUT)
    /\ UNCHANGED <<ring, device, call, rindex, taken>>

-----------------------------------------------------------------------------
Calls ==
    \/ Open \/ Close \/ Write \/ Read
    \/ (\E wanted \in Configs : SetConfig(wanted)) \/ \E t \in Timeouts : Wait(t)

WriteStep == WriteByte \/ WriteEnds

ReadStep == ReadCheck \/ ReadCopy \/ ReadBump \/ ReadWrap
WaitStep == WaitSpin \/ WaitDelay \/ WaitReturn

Goes == Configured \/ WriteStep \/ ReadStep \/ WaitStep

Next == RxInterrupt \/ Transmit \/ Calls \/ Goes

Spec == Init /\ [][Next]_vars

\* A call that has started runs: the interrupt is short and cannot starve it.  The
\* transmitter finishes its byte.
FairSpec == Spec /\ WF_vars(Goes) /\ WF_vars(Transmit)

-----------------------------------------------------------------------------
(* Properties *)

\* No byte ever came in while RingSize - 1 bytes were waiting.
NoOverrun == peak < RingSize

(***************************************************************************)
(* Without overrun the bytes come out of read in the order the interrupt   *)
(* stored them, none lost, none twice, across calls, wrap-arounds and      *)
(* close and open.                                                         *)
(***************************************************************************)
Fifo == NoOverrun => \A k \in DOMAIN taken : taken[k] = k

\* Where read will look next, whatever step of the index update it is in.
NextRead ==
    IF pc = "bump" THEN Wrap(Bump(rindex)) ELSE IF pc = "wrap" THEN Wrap(rindex) ELSE rindex

(***************************************************************************)
(* Without overrun the ring looks empty exactly when every stored byte has *)
(* been read: read and wait never miss a byte, and never invent one.       *)
(***************************************************************************)
EmptyMeansDrained == NoOverrun => (NextRead = windex <=> Waiting = 0)

(***************************************************************************)
(* A ring of CBUF_SIZE bytes has room for CBUF_SIZE bytes: with no more    *)
(* than that waiting it does not look empty.                               *)
(***************************************************************************)
HoldsItsSize == peak <= CBUF_SIZE => (NextRead = windex => Waiting = 0)

(***************************************************************************)
(* A byte leaves under the configuration it was written under: neither     *)
(* set_config nor close and open change it under way.                      *)
(***************************************************************************)
SentAsWritten == [][dr # {} /\ dr' = {} => dr = {config}]_vars

(***************************************************************************)
(* A wait without a timeout ends once a byte has come in, unless the ring  *)
(* overran; every other call ends by itself.                               *)
(***************************************************************************)
CallsEnd ==
    /\ (pc = "spin" /\ Waiting > 0) ~> (pc = "idle" \/ ~NoOverrun)
    /\ (pc # "spin") ~> (pc = "idle")

=============================================================================
