# libsmp in TLA+

libsmp sends and receives small typed messages over a serial line. A message (an id and
up to a few dozen typed values) is encoded into a payload, the payload is framed for the
line (start byte, escaped payload and checksum, end byte) and handed to a serial device;
on the way back a decoder consumes the line byte by byte, and each frame with a matching
checksum is decoded into a message for the user's callback. This directory holds the
models of that program, the TLC runs that check them and the proofs that TLAPS checks.

## The system

| component | source | state | operations | what makes it correct |
|---|---|---|---|---|
| frame decoder | `src/serial-protocol.c`, `.h` | protocol state, buffer and its size, write position, limit, who allocated it | `decoder_new`, `_new_from_static`, `_free`, `_process_byte`, `_set_maximum_capacity` | never outside its buffer; what it hands over depends on the bytes since the start byte only; an error ends the frame; it falls into step again |
| frame encoder | `src/serial-protocol.c` | none beyond a call | `smp_serial_protocol_encode` | never past the room it computed; frames can be told from their content |
| message | `src/message.c` | id, value array, capacity, who allocated it | new, clear, get, set, `set_capacity`, `encode`, `build_from_buffer` | decoding what was encoded gives the message back; a failure leaves nothing of itself |
| buffer | `src/buffer.c` | data, size, free function | new, free | freed once, by whoever owns it |
| context | `src/context.c` | opened, decoder, device, optional static buffers and reception message | new, free, open, close, `get_fd`, `set_serial_config`, `send_message`, `process_fd`, `wait_and_process`, `set_decoder_maximum_capacity` | frames reach the callback once each and in order; every error is reported; nothing is used when closed |
| AVR UART device | `src/serial-device-avr.c` | receive ring and its two indexes, control, baud and data registers, fd | open, close, `set_config`, read, write, wait, receive interrupt | no byte lost, doubled or reordered; calls end |
| POSIX and Win32 devices | `src/serial-device-posix.c`, `-win32.c` | a file descriptor or handle; the port's configuration is the system's | the same interface over system calls | files opened are closed, once, and nobody else's; errors name their cause; a port that is gone is reported |
| Arduino device | `src/serial-device-arduino.cpp` | an index into the board's ports | the same interface over the Arduino class of the port | waits keep their time across the wrap of `millis()`; calls end |
| error strings | `src/libsmp.c` | none | `smp_error_to_string` | stays in its table |

How they interact: the application calls the context; the context owns one decoder and one
device and calls them directly; the decoder's frame pointer is its own buffer, which the context
turns into a message before it feeds the next byte; messages and errors leave through two
callbacks that run inside `process_fd` and may call the context again. The only concurrency
inside the library is the receive interrupt of the boards, but on a host its files share their
numbers with every other thread of the process; the only persistent media are the line and the
configuration the port keeps. What is hard: frames that stop in the middle (a short write, a
reset peer), bytes of no frame, a decoder over storage that is never initialised, memory that is
refused in the middle of a frame, an interrupt between any two steps of a read, callbacks that
call back, a port that is unplugged during a call, a clock that wraps during a wait.
`PROJECT.json` lists each such place under `hazards`, with the properties that cover it.

## The modules

| module | models | notes |
|---|---|---|
| `LibSmp` | the error codes of `include/libsmp.h` | |
| `SerialProtocol` | magic bytes, checksum, frame size and escaping, as operators | a byte is the set of its one bits, of any width |
| `SerialDecoder` | the decoder: one action per call and, in `process_byte`, per state and kind of byte | variables are the members of the C structure and what the last call returned |
| `Deframer` | the abstract decoder: collects the bytes since a start byte, hands over those before the checksum | no buffer, no sizes, no allocation |
| `SerialEncoder` | `smp_serial_protocol_encode`, piece by piece | the room is memory the encoder never looks at again |
| `SerialLink` | a sender writing encoded frames into the decoder, with frames cut short and stray bytes | extends `SerialDecoder`; `Transmit` is one turn of the loop of `smp_context_process_fd` |
| `FrameChannel` | the abstract link: one payload at a time, delivered | |
| `AvrUart` | the AVR device: interrupt, transmitter, open, close, configure, write, read and wait | a step per access to the shared indexes and registers |
| `ArduinoDevice` | the Arduino device over one port | a step per look at the ring or the clock |
| `HostDevice` | contexts over files of the system, and the system: bytes that come in, the port unplugged, other threads | making, freeing, opening and closing contexts; what `process_fd`, `wait_and_process` and `send_message` make of the device's answers |
| `PosixDevice`, `Win32Device` | the device functions of the two systems | a step per system call; both extend `HostDevice` |
| `Message` | one message object: made, set, read, grown, encoded, built from a buffer | the loop of `build_from_buffer` is a step per value |
| `Context` | `open`, `close`, `process_fd`, `wait_and_process`, callbacks that call again | the calls of a thread are a stack; bytes are known by what they make the decoder do |
| `ContextSend` | `smp_context_send_message` with `src/buffer.c` | a step per thing that can fail |
| `MCSerialDecoder`, `MCSerialLink`, `MCSerialEncoder`, `MCAvrUart`, `MCArduinoDevice`, `MCMessage`, `MCContext` | values of the constants for TLC | `MCSerialEncoder` also assumes, and TLC evaluates, that the checksum is what the loop computes and that the documentation's example comes out |
| `MCHostDevice` | `HostDevice` over an instance of `PosixDevice` and one of `Win32Device`, with the properties both must have | |
| `SerialLink_proofs` (the decoder and the link), `SerialEncoder_proofs`, `Message_proofs`, `Context_proofs`, `ContextSend_proofs`, `AvrUart_proofs`, `HostDevice_proofs`, `ArduinoDevice_proofs` | theorems and proofs | |

Decoder. `state`, `buf`, `bufsize`, `offset`, `maxsize` are the C members; `ret`, `frame`
and `framesize` are the result and the out parameters of the last call. `WaitHeader`,
`InFrameStart`, `InFrameEscape`, `InFrameEnd`, `InFrameData` and `InFrameEsc` are the
cases of the two switches, `Return` the end of `process_byte`, which turns an error into
`WAIT_HEADER` unless the byte is a start byte. `Store`, `CanGrow` and `GrowError` are
`put_byte` with `set_capacity`; `realloc` fails or not by choice. `NewFromStatic` leaves
`offset` and the buffer arbitrary, because `decoder_init` does. `SetMaximumCapacity` is the
decoder's own function, which takes any maximum; the context hands on those above 16 only
(`context.c:427`), so an application reaches a part of what the model does.

Link. `entry` remembers the state in which a frame's start byte found the decoder, and a
frame is *clean* unless that was `IN_FRAME_ESC`; `reported` is the last error of the frame.
Between sender and decoder there is no queue: the decoder is driven by the bytes alone and
a queue that keeps their order changes nothing it can see.

Hosts. `table` is the process's table of open files, which the library shares with the
threads of the application (`ApplicationOpens`, `ApplicationCloses`): a number that is closed
may be somebody else's at the next step, so a second close, or a close of the wrong number,
closes another's file. `call` is the call the library is in: its next system call, the file
an open has so far, the first system call that failed and the error number as it is now.
`RawClears` and `CloseErrno` are what the source leaves to the C library: which flags
`cfmakeraw` clears (IXON, and in some libraries IXOFF), and what `close` leaves in `errno`.
`config` starts as the last user of the port left it: speed, parity, stop bits, the flow control
by the lines RTS and CTS (on Win32 DSR and DTR too) and that by characters. Win32 sets all of it,
POSIX leaves the stop bits and the lines alone, so `OpenedRaw` speaks of what each sets, and
`OpenedPlain`, that the whole is the protocol's, is a counterexample of the findings. In the same
way `FailureReported` says of POSIX that a failure is reported, possibly with another cause, and
`HangupReported` speaks of each call whose last system call came after the port was removed,
before the call or during it. `handle` is `device.fd` on one system and `device.handle` on the other.

Arduino. `lag` counts the milliseconds since `wait` looked at the clock, so that the model
can say that its loop is not arbitrarily slow; `elapsed` is the true length of the wait, which
the code does not know. One port and two devices, as two names of the same port, which both
may have open.

UART. The interrupt is one step, as it cannot be interrupted by the main program; a read is
check, copy, increment, wrap, and a wait is one step per test of the indexes. The n-th byte
received is the number n, so what `read` returns is compared with 1, 2, 3, ... `peak`
is the largest number of bytes that ever waited; the UART properties speak of lines on
which it stays below the size of the ring (see the findings for the rest). That size is an option
of the build nobody checks while the indexes have eight bits: of a ring above 256 bytes only 256
slots are ever used, which is `RingSize`. A call with a closed device passes the check of its
file descriptor (`GetDevice`) and takes the memory in front of the devices for one; `wild` records
that, and what such a read returns is left open. `dr` holds the
configurations the byte being sent was written under; the registers of a baud rate and a
parity are one value, `config`.

Message. A scalar is the sequence of its bytes, so that the byte order of the machine
matters for the size fields only, which the protocol has little-endian. A slot whose type
changes while its data stays (a failed decode) reads as `Retyped` says: zero bytes in an
empty slot, and otherwise `Wild`, data that the model says nothing about. Sizes are of type
`size_t` and wrap at `SIZE_MOD`; a value of an array takes `VALUE_SIZE` bytes. Where the code
computes with a size that wrapped the model does the same: a header or a raw value whose size
wraps is accepted, and an array whose size wraps (`message.c:624`, "FIXME: check for overflow")
is smaller than its capacity, of which the model keeps what is left in `Wrapped` and stops in the
state `"undefined"`. It stops there as well when `encode` takes the length of a string that is
NULL, which a build that met a bad string leaves (`message.c:331`). A string or raw value points
into the buffer it was built from; here it is copied, and the life of that buffer is part of
`Context`. `fresh` remembers whether the message was clear before the build, which is what
the context promises for a message on the heap.

Context. `stack[t]` is the call stack of thread `t`: `process_fd` of some context, the
callback it is in, the `process_fd` that callback called, and so on. A byte carries the
context whose line it came over and its number, which lets `DeliveredInOrder` tell a byte
that reached the wrong decoder. `buf` is the frame in the decoder's buffer, until a further
byte overwrites or moves it. A message holds numbers itself, and of strings and raw data
(`Strings`) the place in that buffer: `Found` is what a look at the message gives, and `at` the
number of bytes its decoder had been given when the callback began. `MessageLasts`, that a message
stays what it was for the whole of its callback, fails when the callback processes its context
again, for one on the heap too; `MessageIntact` says that nothing else can change it. A context that
its callback closes goes on with its loop: `ClosedReads = "yes"` lets a read of a closed device give
bytes of nobody, as on AVR, and `OnlyChunkAfterClose` says what may still come then. `MaxBytes`
bounds these bytes too, so that `ProcessEnds` does not speak of a closed device that gives bytes
without end. `live` and `lost` count heap messages, because a message
whose build fails is not freed (`context.c:78-81`); `MessagesAccounted` says that nothing
else is lost. The decoder inside is the one of `SerialDecoder`, the message that of
`Message`; only what they can answer is kept here.

Sending. A buffer of `smp_buffer_new_allocate` is two blocks, its structure and its data, and
`AllocateData` is the second: when it is refused the first is freed again (`buffer.c:57-61`).

Operators named with a comment that starts *Mistake:* are not part of any specification.
Each is a definition next to it with one plausible slip; `PROJECT.json` pairs them with
the property that notices the slip, so that no property holds for want of trying.

## The runs

| run | result | what it shows |
|---|---|---|
| `decoder` | passes, 775,600 states | every sequence of calls on one decoder: `BufferBound`, `ErrorEndsFrame`, and `Deframes`, the refinement to `Deframer` |
| `link_faults` | passes, 578,700 states | with truncated, oversize and stray bytes: `SelfSynchronising`, `CleanFrameDelivered`, `NoSilentLoss`, `NothingForged` |
| `link_channel` | passes, 80,000 states | without faults, the link implements `FrameChannel`, liveness included |
| `encoder` | passes, 8,300 states | `WithinRoom`, `RefusalIsTight`, `FrameIsTransparent` |
| `message` | passes, 398,200 states | `RoundTrip` from the setters over the line to the getters, `OwnEncodingAccepted`, `SizesAgree` between encoder and decoder; `BuildInBuffer`, `NothingStale`, `GrowthKeepsValues`, `BuildEnds` of the build |
| `context` | passes, 436,800 states | with chunks of one byte: `DeliveredInOrder`, `OnlyChunkAfterClose`, `MessageIntact`, `StaleOnlyAfterError`, `MessagesAccounted`, `ProcessEnds` |
| `context_send` | passes, 1,200 states | `BuffersReturned` and `SuccessMeansSent` on every way out of `send_message` |
| `host_device` | passes, 1,039,600 states | on both systems: `OwnHandles`, `FailureReported`, `OpenedRaw`, `HangupReported` |
| `arduino` | passes, 100,100 states | `TimedOutInTime` wherever the clock wraps, and `CallsEnd` |
| `avr_uart` | passes, 1,008,900 states | `Fifo`, `EmptyMeansDrained`, and `CallsEnd` |
| `link_oversize`, `message_bad_string` | violated | the findings below |

Bounds. Two-bit bytes give the three magic bytes and one other, every kind the decoder
distinguishes, and a checksum that can be magic itself. The decoder's buffers hold 1 to 6
bytes, grow by 3 under limits on both sides of the next size, and sizes wrap at 7, so that
exact fits, refusals, growth and wrap-around all happen; the proofs remove these bounds.
The link has two frames after two truncations and a stray byte (the second frame tells
whether the first upset was overcome), buffers of 1 and 2 bytes and payloads of up to 2,
so that frames fit exactly, are one byte too large, and need the escape of the checksum.
The encoder runs on eight-bit bytes. The UART's ring has three slots, is filled more than
twice over with seven bytes and read in chunks of two; its indexes wrap at 4.

A message has one slot on the heap, grown to 2, 3, 4 and, in a `size_t` of 16 bits with values
so large that it overflows, to 8 and 9, or two in static storage; strings
and raw data reach 3 bytes where their size field ends at 2, and the size of a message overflows
at 10, so that `encode` refuses some for that alone. The buffers it is built from are
short of a header, short of what the header says, hold an unknown type, half a scalar, more
values than fit, a raw value too long, a string without its nul byte and one with a nul byte inside,
and a raw value and a header whose sizes wrap. They come before the
first encoding only, and afterwards the message is built from what was encoded: the two halves
share no state but the message, and their product is large. Strings with a size field of 0
are outside the buffers of the run (the decoder looks at the byte before the data for them,
see `message_zero_string` below), so `BuildInBuffer` is about size fields of 1 and more. A list
of two requests asks for a scalar and a string, whatever is there, and a single one for a type
that does not exist.
Two contexts, three bytes on each line and calls two deep are enough for a callback in a
callback, a frame behind a failed one and a close in between; the heap context is processed
from its own callback as well, and closed devices give bytes. One of the two values of a payload
is a number and one a string. Three calls of `send_message` go through every pair of outcomes.

Two contexts and three handles let both be open while another thread has a file, and let each
number change hands; contexts are interchangeable, which the symmetry uses. Error numbers
are one the library translates, one that is another of its errors and one it does not know; `close`
may leave another one behind, and `cfmakeraw` is the one that leaves IXOFF alone. Two
bytes come in, for chunks of two, so that reads are short and whole. The counter of the
Arduino wraps at 8 ms and starts anywhere, and waits last 0, 1 and 3 ms with at most one
between two looks at the clock, so that it wraps before, in and after a wait. The UART
has two configurations, and messages of two bytes, so that one byte waits for another.

The type invariants of the decoder and of the link are theorems, and not among the
properties of their runs.

Fairness. `FairLinkSpec` asks that a frame once started goes on: the device keeps writing bytes
it has accepted. Nobody has to start a frame. `FairSpec` of the UART asks that a call once
started runs: there is one main program and the interrupt returns. No fairness is put on the
interrupt; the transmitter finishes the byte it has, as the hardware does. `FairSpec` of the
Arduino asks that a call goes on and that time passes; bytes and the host of a port over USB
need not come, and calls that wait for them may wait for ever. `FairSpec` of `Message` lets a
build go on. In `Context` the library's steps are weakly fair, which includes that a wait has a
timeout, and the return of a callback is strongly fair, since a callback may call the library
again and again but is assumed to return in the end; bytes stop coming after `MaxBytes`.
Deadlock checking is off where a system may stop: all frames sent, all calls made, or a wait
without a timeout and no byte coming.

## The proofs

`tlapm` checks the theorems below for all values of the constants. The assumptions are named
in the modules that declare the constants: `MagicBytesAssumption` (three different magic bytes),
`SizesAssumption` (sizes fit a `size_t`, static buffers are not empty), `LinkAssumption`,
`EncoderAssumption` and `MessageAssumption` (payloads and buffers are sequences of bytes, a
scalar set by the application has all its bytes, the limits of the size fields fit them, a `size_t`
has 16 bits or more),
`ContextAssumption` (finitely many threads; a message has at least one slot and no more values
than fit), `HostAssumption` (handles are numbers), `RawAssumption` (every `cfmakeraw` clears IXON),
`UartAssumption` (the ring, its indexes and the chunks are not empty), `ArduinoAssumption` (a time-out and three turns of the loop are shorter than the range of the
counter). They are what the types of the C code say, and TLC evaluates them. A condition
that a theorem needs beyond them is part of its statement, and in each case a `.cfg` of the
findings shows that it fails without, but for the threads of the context.

Decoder and link (`SerialLink_proofs`):

* `TypeCorrect`, `MemorySafe`, `ErrorsEndFrames`. The inductive invariant `Safe` adds to
  the type invariant and the bound itself that there is no decoder in a frame without
  storage. The bound holds in a frame only: the position of a static decoder is arbitrary
  until the first start byte resets it.
* `DecoderDeframes`: every step of the decoder is a step of `Deframer` or a stutter, under
  the mapping of the `INSTANCE` in `SerialDecoder`. The one fact beyond `Safe` is that
  storing a byte at `offset` extends the first `offset` bytes by it, with or without growth.
* `LinkTypeCorrect`; `SelfSynchronisation`, from `InStep`: at the start of a frame body
  and after it the decoder's state follows from the sender's phase, or the decoder is out
  of step and waits; `Delivery` and `NoForgery`, from `Carried`: while a clean frame that
  fits goes by, the first `idx - 1` bytes of its body are exactly what the decoder holds.
  These are about static decoders: a heap decoder that is refused memory on an escaped start
  byte and given it on the next byte goes on with a frame that lacks a byte, which the
  checksum does not always see.
* `LossIsReported`, for heap decoders as well: a clean frame in which no error was reported
  has a decoder that still follows it (`Unreported`), and the only way off is an error
  (`ReportsAreErrors`).
* `LinkIsChannel`: without faults, and with static buffers that hold every payload
  (`Faultless`), each step of encoder, line and decoder is a step of `FrameChannel` or a stutter.
  `ChannelInv` says that every frame starts clean, and relates what was sent and received. It is
  the safety half of `IsChannel`; the fairness half stays with the run.

Encoder (`SerialEncoder_proofs`):

* `RoomSuffices` and `RefusalsAreTight`. The encoder writes without looking at the room left,
  so `RoomInv` says where it is: at 1 + the bytes done + the escapes among them, and the size
  computed before is that of all of them. A byte still to be written has its place.
* `FramesAreTransparent`, from `FrameInv`: what is written so far is the start byte, then
  the bytes done, each as it is or behind an escape, at rising positions (`Laid`).

Message (`Message_proofs`). Its operators are recursive functions and folds over the values.
`Induction` is stated for sets of numbers, which leaves no operator to instantiate, and
follows from the library's well-foundedness of finite sets; with it `Total` (the computed
size), `FlattenSeq` and `NextPow2` are shown to be what the model needs of them.

* `TypeCorrect`: an array has as many slots as it says, and each holds a value. `Sound` adds
  what makes it inductive: a scalar has all its bytes, unless a failed build retyped it (`Wild`),
  and the loop of a build stays inside its array.
* `StaysInBuffer`: `BuildInBuffer`, unless a string of size 0 has no zero byte behind it
  (`StringsEnd`), which is the case `message_zero_string` shows. It is the only one.
* `BuiltWithoutHoles` (`NothingStale`), from `Filled`: in a build from a clear message the
  slots below `i` hold values and the others are empty, through every growth.
* `ComputedSizesAreWritten` (`SizesAgree`): `encode` computes a size, refuses by it and then
  writes; the pieces it writes add up to the size, less the values it leaves out.
* `GrowingKeepsValues` (`GrowthKeepsValues`), an action property: an array grows and keeps its
  values unless its size overflows, and only then growing is undefined. The invariants above hold
  of the state that is left then as well.
* `MessagesComeBack` (`RoundTrip`): for every list of values an application may set, every
  array on either side and every growth. Three invariants carry it. `OnWire`: what `encode`
  left is the id, the size and one piece per value, in order; it comes from `EncodedData`, whose
  empty pieces (a hole, a value too long) drop out. `Sendable`: what is encoded can be told from
  its piece, so a scalar has the size of its type and a string no zero byte of its own (a
  C string has none, and a build keeps it so). `Following`: while a build reads a buffer that
  holds what was encoded, its offset is where piece `i` begins and the slots below `i` hold the
  values of the pieces before. `DecodeEncoded` says that a turn of the loop decodes the one
  piece it stands at, whatever follows it, and advances by its size; `FollowingIsEnough` that at
  the end of the data the slots are the values sent.
* `OwnEncodingIsAccepted` (`OwnEncodingAccepted`), an action property, from the same invariants:
  a turn that stands at a piece never meets a type or a size it refuses. What ends the build then is
  memory, the slots of a static message, or an array whose size overflows.

Context (`Context_proofs`, `ContextSend_proofs`):

* `TypeCorrect`, from `CallsInv`: of a stack of calls only the top is not in a callback, and
  none has decoded more than it read.
* `MessageStaysIntact`, for any number of threads and without a condition: `IntactInv` says that a
  message in a callback is found as it was as long as its decoder was given no further byte, and
  that only contexts whose callbacks process them are given one. `UseInv`: a context is in calls of
  one thread only, and in one of them unless its own callbacks process it, so that a step of
  another call leaves its message and its buffer alone.
* `StaleAfterErrorOnly`, when no callback processes its own static context (`NotAgain`; the
  message of the inner call would show values of the outer one's). `MessageInv` says what a message
  holds between the steps of a build.
* `HeapMessagesAccounted`, whatever the callbacks do: `live` is the number of heap callbacks
  in all stacks and `lost` what failed builds left.
* `ClosedLeavesOnlyChunk`, without a condition (that nothing at all follows a close is not so, see
  `context_closed`): `OpenInv` says that a call at the first byte of its chunk has an open context,
  or a byte that is not of its line.
* `BytesInOrder`, for one thread, with chunks of one byte or with callbacks that process
  nothing. `OrderInv`: what a line gave is what was decoded, but for the bytes of the chunk that the
  last call of the stack has read and not yet decoded.
* `NoLeak` and `ReturnTellsSent` of `send_message`. `HeapInv` says what is allocated at each
  point of a call, `CountInv` how many frames are on the line by then.

Devices:

* AVR: `TypeCorrect`; `RingIsFifo` and `EmptyIsDrained`, for every size of the ring, every
  width of its indexes, the narrow ones too, and every interleaving with the interrupt. The inductive invariant
  `RingInv` says where the bytes are: between the slot `read` will look at next and the slot the
  interrupt will write there are as many as were received and not yet read, and the one j places
  behind the first is the j-th of them. The next slot, not `rindex`, because `rindex` stands
  still between the copy of a byte and the increment, and past the ring before it wraps. It
  holds without overrun only.
* POSIX and Win32 (`HostDevice_proofs`), for any number of contexts and handles and on both
  systems: `TypeCorrect`; `FilesAreOwned`, when contexts are closed before they are freed
  (`MayFreeOpen = "no"`). `FileInv` adds to `OwnHandles` that the context an open is for is
  there and has no handle, so that a success overwrites none, and that a context that is not there has
  none. Its lemmas say what an open may do (begin, go on, end, give up) for either system;
  `PosixStep` and `Win32Step` show that each system's steps do nothing else. The action
  properties, for every `cfmakeraw` and whatever `close` does to `errno`: `FailuresAreReported`,
  `PortIsRaw` and `HangupIsReported`. `MemoryInv` says that only an open that gives up has a failed
  system call behind it, whose error is still the current one, and that between the two settings of
  a Win32 open the port is set up.
* Arduino: `TypeCorrect`; `WaitsKeepTime`, from `WaitInv`: the difference of the counter and
  its first reading, modulo its range, is the time elapsed, as long as that is below the range, and
  the reading the loop goes by is at most `lag` behind.

Assumed of the application (`MessageAssumption`): an id has four bytes, a scalar the bytes of
its type and a string no zero byte. A receiver passes the buffer `encode` wrote; other
buffers are decoded too, and `RoundTrip` says nothing of them.

Only model-checked: every liveness property (`BuildEnds`, `ProcessEnds`, `CallsEnd` and the
fairness half of `IsChannel`), which the prover does not reach, and what the context's
properties say outside the conditions of their theorems. Every invariant a passing run checks
is a theorem, under the conditions named above.

## Findings

In the regular runs:

* `link_oversize`: what is left of a frame that was too large is scanned for a header
  without regard to escapes; an escaped start byte opens a frame nobody sent, and its
  content is handed over if the checksum agrees (`serial-protocol.c:292`, `318`).
* `message_bad_string`: a string that does not decode is not an error, and what follows its
  size field is read as values (`message.c:272-276`).

Further counterexamples have a `.cfg` of the same name and are run by hand, for instance
`tlc -config context_chunk.cfg MCContext`; each checks one property and finds it violated:

| cfg, property | module | what it shows |
|---|---|---|
| `link_truncated`, `ResyncOnStartByte` | `MCSerialLink` | a frame cut short behind an escape byte costs the next frame as well (`serial-protocol.c:305`; the comment at 153 says the decoder resyncs on a start byte) |
| `encoder_doc`, `DocumentedEndByte` | `MCSerialEncoder` | the table of `docs/protocols/serial-protocol.rst` exchanges END_BYTE and ESC_BYTE |
| `decoder_avr_default`, `RefusedForMemoryOnly` | `MCSerialDecoder` | on AVR the default buffer size is above the default maximum, and a decoder of default size can never be made (`serial-protocol.c:38-41`, `93`) |
| `avr_capacity`, `HoldsItsSize` | `MCAvrUart` | a ring of N bytes holds N - 1; the N-th makes it look empty (`serial-device-avr.c:154-160`), and a wait spins although bytes are there (593) |
| `message_too_long`, `EveryValueEncoded` | `MCMessage` | a value too long for its size field is left out and `encode` reports success (`message.c:332-335`, `344-345`) |
| `message_zero_string`, `BuildInBuffer` | `MCMessage` | a string whose size field is 0 is checked, and read, outside its bytes (`message.c:205`) |
| `context_message`, `MessageLasts` | `MCContext` | a callback that processes its own context loses the message it was called with: a static context builds into the same message, and strings and raw values point into the decoder's buffer in any (`context.c:67`, `88`; `message.c:208`, `224`; `libsmp.h:297`) |
| `context_closed`, `NoEventWhenClosed` | `MCContext` | with larger chunks callbacks go on after one of them closed the context (`context.c:377`) |
| `context_chunk`, `DeliveredInOrder` | `MCContext` | the chunk `process_fd` reads into is static: with chunks of more than one byte a callback that processes another context overwrites bytes not yet decoded (`context.c:354`, `377`). Two threads with a context each share the chunk too, and with two threads the property fails even for chunks of one byte: the theorem `BytesInOrder` has both as conditions |
| `context_stale`, `MessageIsFrame` | `MCContext` | a static reception message keeps the values of a frame that did not decode, and the next message shows them behind its own (`context.c:78-88`) |
| `avr_reconfigure`, `SentAsWritten` | `MCAvrUart` | `set_config` and `close` do not wait for the byte being sent: its rest goes out under another configuration, or not at all (`serial-device-avr.c:472`, `509`) |
| `host_errno`, `CauseReported` | `MCHostDevice` | on POSIX `open` reads `errno` after `close`, which may have set it (`serial-device-posix.c:88-89`) |
| `host_plain`, `OpenedPlain` | `MCHostDevice` | `open` on POSIX leaves the stop bits and the flow control by RTS and CTS as the port's last user set them (`serial-device-posix.c:92-94`; Win32 sets them), even where `cfmakeraw` clears IXOFF, which most do not |
| `host_free_open`, `OwnHandles` | `MCHostDevice` | `smp_context_free` does not close the device: the file of an open context is leaked (`context.c:170-179`) |
| `arduino_shared`, `OpenPortRuns` | `MCArduinoDevice` | two devices may open one port, and closing one ends it for the other (`serial-device-arduino.cpp:185`, `202`) |

## Not modelled

NULL parameter checks (they change nothing); which bits of which register make a baud rate or
a parity; results of `encode` and of a decode above 32767, which a `ssize_t` of 16 bits does not
hold; the table of error strings, a constant (its bound is off by one, see the hazards);
a user's own function to free a buffer, which the library never calls for itself (it frees the
buffers it allocated only); the static storage headers, the build and the
packaging. On Arduino the class of the port is external: its ring, its interrupt and the wait of
its `write`. What `read` finds in a file that is no terminal is left open, but for its end.
`process_fd` appears twice: in `Context` with what bytes do, and in `HostDevice` with what the
device may answer; the two share no state but the device's answers, and their product is not
explored.

## Plan

Done: the serial protocol, the AVR and Arduino devices, the two host systems, `Message`,
`Context` and `ContextSend`, with the proofs above. Next, in this order:

1. `Context` joined to `SerialDecoder`: the byte kinds replaced by the decoder itself, two
   contexts sending to each other over `SerialLink`; an abstract mailbox per context, and
   `Context` with chunks of one byte shown to implement it.
2. `Buffer` with a user's own free function.
