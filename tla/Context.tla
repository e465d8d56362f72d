------------------------------ MODULE Context -------------------------------
(***************************************************************************)
(* SmpContext of src/context.c, its receiving side: open and close, the    *)
(* loop of smp_context_process_fd over the bytes the device has, and the   *)
(* callbacks, which may call the library again.                            *)
(*                                                                         *)
(* The decoder and the message have modules of their own; here a byte is   *)
(* known by the context whose line it came over, its place among the bytes *)
(* read for that context, and what it makes the decoder do: nothing, an    *)
(* error, or the end of a frame with a payload.  A payload is a sequence   *)
(* of values, of which Bad is one that does not decode.  A byte is made up *)
(* when it is read, so the line holds no bytes of its own.                 *)
(*                                                                         *)
(* A message holds numbers itself, and of strings and raw data only where  *)
(* they lie in the buffer of the decoder, which the next byte the decoder  *)
(* is given may overwrite or move.                                         *)
(*                                                                         *)
(* Each thread of the application has a stack of the calls it is in: a     *)
(* call deeper in the stack was made by the callback of the one before.    *)
(* The chunk the bytes are read into is a static variable, the same for    *)
(* all of them.  Calls that are refused and change nothing are no steps.   *)
(***************************************************************************)
EXTENDS Integers, Sequences, FiniteSets

CONSTANTS
    Contexts,
    StaticContexts,     \* those made by new_from_static
    Threads,
    CHUNK_SIZE,         \* SMP_CONTEXT_PROCESS_CHUNK_SIZE
    Payloads,           \* of the frames, sequences of values
    Bad,                \* a value that does not decode, or bytes that are a value no more
    None,               \* an empty slot of a message; no context
    Strings,            \* the values a message holds the place of
    ClosedReads,        \* whether reading from a closed device may give bytes: "yes" on
                        \* AVR, where it reads the memory in front of its devices, or "no"
    Capacity,           \* of the reception message of a static context
    Width,              \* of the longest payload
    Reentrant,          \* contexts that their own callbacks process
    MaxBytes,           \* bytes read, for each context
    MaxDepth            \* calls in calls

ASSUME ContextAssumption ==
    /\ StaticContexts \subseteq Contexts /\ Reentrant \subseteq Contexts
    /\ IsFiniteSet(Threads)
    /\ CHUNK_SIZE \in Nat \ {0}
    /\ Width \in Nat /\ Capacity \in 1 .. Width
    /\ \A p \in Payloads : Len(p) \in 1 .. Width /\ DOMAIN p = 1 .. Len(p)
    /\ None \notin Contexts /\ None \notin Strings
    /\ MaxBytes \in [Contexts -> Nat] /\ MaxDepth \in Nat

VARIABLES
    opened,     \* ctx->opened: "yes" or "no"
    device,     \* whether the device has a file descriptor: "open" or "closed"
    buf,        \* the payload in the decoder's buffer, <<>> once it is overwritten
    msg_rx,     \* values of the reception message
    soiled,     \* whether a build failed since it was last cleared: "yes" or "no"
    chunk,      \* the static chunk buffer
    stack,      \* of calls, per thread
    sent,       \* number of bytes read
    done,       \* number of bytes the decoder was given
    live,       \* messages on the heap
    lost        \* messages whose build failed on the heap

receiver == <<opened, device>>
heap == <<live, lost>>
messages == <<buf, msg_rx, soiled, heap>>
progress == <<sent, done>>
vars == <<receiver, messages, progress, chunk, stack>>

-----------------------------------------------------------------------------
Slots == 1 .. Width

Values == UNION {{p[k] : k \in DOMAIN p} : p \in Payloads}

Clear == [s \in Slots |-> None]

NoByte == [of |-> None, n |-> 0, kind |-> "nothing", payload |-> <<>>]

\* What the n-th byte read can be, of the line of a context or of None.
BytesAt(of, n) ==
    {[of |-> of, n |-> n, kind |-> k, payload |-> <<>>] : k \in {"nothing", "error"}}
        \cup {[of |-> of, n |-> n, kind |-> "frame", payload |-> p] : p \in Payloads}

Callback == {"error", "message"}

\* In a callback: the frame, the message as it was when the callback began, and the
\* number of bytes the decoder had been given then.
Call == [ctx : Contexts, pc : {"wait", "read", "loop"} \cup Callback,
         rbytes : 0 .. CHUNK_SIZE, i : 0 .. CHUNK_SIZE,
         payload : Payloads \cup {<<>>}, msg : [Slots -> Values \cup {None, Bad}], at : Nat]

TypeOK ==
    /\ opened \in [Contexts -> {"yes", "no"}]
    /\ device \in [Contexts -> {"open", "closed"}]
    /\ \A c \in Contexts : opened[c] = "yes" <=> device[c] = "open"
    /\ DOMAIN chunk = 1 .. CHUNK_SIZE
    /\ \A t \in Threads : \A k \in DOMAIN stack[t] : stack[t][k] \in Call
    /\ sent \in [Contexts -> Nat] /\ done \in [Contexts -> Nat]
    /\ buf \in [Contexts -> Payloads \cup {<<>>}]
    /\ lost \in [Contexts -> Nat] /\ live \in [Contexts -> Int]

Init ==
    /\ opened = [c \in Contexts |-> "no"] /\ device = [c \in Contexts |-> "closed"]
    /\ buf = [c \in Contexts |-> <<>>]
    /\ msg_rx = [c \in Contexts |-> Clear] /\ soiled = [c \in Contexts |-> "no"]
    /\ chunk = [k \in 1 .. CHUNK_SIZE |-> NoByte]
    /\ stack = [t \in Threads |-> <<>>]
    /\ sent = [c \in Contexts |-> 0] /\ done = [c \in Contexts |-> 0]
    /\ live = [c \in Contexts |-> 0] /\ lost = [c \in Contexts |-> 0]

-----------------------------------------------------------------------------
(* Who may call what *)

Depth(t) == Len(stack[t])
Top(t) == stack[t][Depth(t)]
In(t, pc) == stack[t] # <<>> /\ Top(t).pc = pc

Set(t, call) == stack' = [stack EXCEPT ![t][Depth(t)] = call]
Push(t, call) == stack' = [stack EXCEPT ![t] = Append(@, call)]
Pop(t) == stack' = [stack EXCEPT ![t] = SubSeq(@, 1, Len(@) - 1)]

Processing(t, c) == \E k \in DOMAIN stack[t] : stack[t][k].ctx = c

\* The application calls from its own code or from a callback, and uses a
\* context in one thread at a time.
MayUse(t, c) ==
    /\ stack[t] # <<>> => Top(t).pc \in Callback
    /\ \A u \in Threads \ {t} : ~Processing(u, c)

MayProcess(t, c) ==
    /\ MayUse(t, c) /\ Depth(t) < MaxDepth
    /\ Processing(t, c) => c \in Reentrant

-----------------------------------------------------------------------------
Open(t, c) ==
    /\ MayUse(t, c) /\ opened[c] = "no"
    /\ opened' = [opened EXCEPT ![c] = "yes"] /\ device' = [device EXCEPT ![c] = "open"]
    /\ UNCHANGED <<messages, progress, chunk, stack>>

\* Mistake: the device stays open.
CloseWithoutDevice(t, c) ==
    /\ MayUse(t, c) /\ opened[c] = "yes"
    /\ opened' = [opened EXCEPT ![c] = "no"]
    /\ UNCHANGED <<device, messages, progress, chunk, stack>>

Close(t, c) ==
    /\ MayUse(t, c) /\ opened[c] = "yes"
    /\ opened' = [opened EXCEPT ![c] = "no"] /\ device' = [device EXCEPT ![c] = "closed"]
    /\ UNCHANGED <<messages, progress, chunk, stack>>

Enter(t, c, pc) ==
    /\ MayProcess(t, c) /\ opened[c] = "yes"
    /\ Push(t, [ctx |-> c, pc |-> pc, rbytes |-> 0, i |-> 0,
                payload |-> <<>>, msg |-> Clear, at |-> 0])
    /\ UNCHANGED <<receiver, messages, progress, chunk>>

ProcessFd(t, c) == Enter(t, c, "read")

WaitAndProcess(t, c) == Enter(t, c, "wait")

\* Bytes, or a timeout or an error of the device.
Wait(t) ==
    /\ In(t, "wait")
    /\ Set(t, [Top(t) EXCEPT !.pc = "read"]) \/ Pop(t)
    /\ UNCHANGED <<receiver, messages, progress, chunk>>

\* smp_serial_device_read has between one byte and a chunk of them, whether or not a
\* callback closed the device meanwhile, ...
Read(t) ==
    LET c == Top(t).ctx
        of == IF device[c] = "open" THEN c ELSE None
    IN  /\ In(t, "read") /\ (device[c] = "open" \/ ClosedReads = "yes")
        /\ \E n \in 1 .. CHUNK_SIZE :
            /\ sent[c] + n <= MaxBytes[c]
            /\ \E b \in {f \in [1 .. n -> UNION {BytesAt(of, sent[c] + k) : k \in 1 .. n}] :
                            \A k \in 1 .. n : f[k].n = sent[c] + k} :
                chunk' = [k \in 1 .. CHUNK_SIZE |-> IF k <= n THEN b[k] ELSE chunk[k]]
            /\ sent' = [sent EXCEPT ![c] = @ + n]
            /\ Set(t, [Top(t) EXCEPT !.pc = "loop", !.rbytes = n, !.i = 0])
        /\ UNCHANGED <<receiver, messages, done>>

\* Mistake: read is tried again.
ReadNothingRetries(t) == In(t, "read") /\ UNCHANGED vars

\* ... or it has none, would block, or fails.
ReadNothing(t) ==
    /\ In(t, "read") /\ Pop(t)
    /\ UNCHANGED <<receiver, messages, progress, chunk>>

-----------------------------------------------------------------------------
(* One byte: the decoder, the message, and into the callback *)

\* Mistake: the loop goes on with the same byte.
AfterCallbackAgain(t) ==
    [Top(t) EXCEPT !.pc = "loop", !.payload = <<>>, !.msg = Clear, !.at = 0]

AfterCallback(t) ==
    [Top(t) EXCEPT !.pc = "loop", !.i = @ + 1, !.payload = <<>>, !.msg = Clear, !.at = 0]

Good(c, p) == (\A k \in DOMAIN p : p[k] # Bad) /\ (c \in StaticContexts => Len(p) <= Capacity)

\* The slots build_from_buffer stores into: up to the value that does not decode,
\* or the end of the array of a static message.
Stored(c, p) ==
    {k \in DOMAIN p : /\ \A j \in 1 .. k - 1 : p[j] # Bad
                      /\ c \in StaticContexts => k <= Capacity}

\* The array of the message: its slots of Strings point to the value of that place in
\* the buffer.
BuiltInto(msg, c, p) == [s \in Slots |-> IF s \in Stored(c, p) THEN p[s] ELSE msg[s]]

\* What smp_message_get finds in an array that points into a buffer.
Found(msg, buffer) ==
    [s \in Slots |-> IF msg[s] \notin Strings THEN msg[s]
                     ELSE IF s \in DOMAIN buffer THEN buffer[s] ELSE Bad]

Byte(t) == chunk[Top(t).i + 1]

AtByte(t) == In(t, "loop") /\ Top(t).i < Top(t).rbytes

\* The decoder is given the next byte of the chunk.
Decode(t) ==
    /\ AtByte(t)
    /\ done' = [done EXCEPT ![Top(t).ctx] = @ + 1]
    /\ UNCHANGED <<receiver, chunk, sent>>

\* The decoder drops the byte, or puts it into its buffer, which it may have to move.
Nothing(t) ==
    /\ Decode(t) /\ Byte(t).kind = "nothing"
    /\ Set(t, [Top(t) EXCEPT !.i = @ + 1])
    /\ buf' = buf \/ buf' = [buf EXCEPT ![Top(t).ctx] = <<>>]
    /\ UNCHANGED <<msg_rx, soiled, heap>>

InCallback(t, pc, msg) ==
    Set(t, [Top(t) EXCEPT !.pc = pc, !.payload = Byte(t).payload, !.msg = msg,
                          !.at = done[Top(t).ctx] + 1])

DecoderError(t) ==
    /\ Decode(t) /\ Byte(t).kind = "error"
    /\ InCallback(t, "error", Clear)
    /\ UNCHANGED messages

\* The byte ends a frame, which the buffer holds now.
Frame(t) ==
    /\ Decode(t) /\ Byte(t).kind = "frame"
    /\ buf' = [buf EXCEPT ![Top(t).ctx] = Byte(t).payload]

\* Mistake: the message is cleared before the callback.
FrameStaticClearedEarly(t) ==
    LET c == Top(t).ctx
        p == Byte(t).payload
        msg == BuiltInto(msg_rx[c], c, p)
    IN  /\ Frame(t) /\ c \in StaticContexts
        /\ msg_rx' = [msg_rx EXCEPT ![c] = Clear]
        /\ InCallback(t, IF Good(c, p) THEN "message" ELSE "error", Found(msg, p))
        /\ UNCHANGED <<soiled, heap>>

\* The frame goes into the message the context was given.
FrameStatic(t) ==
    LET c == Top(t).ctx
        p == Byte(t).payload
        msg == BuiltInto(msg_rx[c], c, p)
    IN  /\ Frame(t) /\ c \in StaticContexts
        /\ msg_rx' = [msg_rx EXCEPT ![c] = msg]
        /\ \/ Good(c, p) /\ InCallback(t, "message", Found(msg, p)) /\ UNCHANGED soiled
           \/ /\ ~Good(c, p) /\ InCallback(t, "error", Clear)
              /\ soiled' = [soiled EXCEPT ![c] = "yes"]
        /\ UNCHANGED heap

\* The frame goes into a new message; memory for it, or for its values, may be
\* lacking.  A message whose build failed is not freed.
FrameHeap(t) ==
    LET c == Top(t).ctx
        p == Byte(t).payload
    IN  /\ Frame(t) /\ c \notin StaticContexts
        /\ \/ InCallback(t, "error", Clear) /\ UNCHANGED heap
           \/ /\ InCallback(t, "error", Clear)
              /\ live' = [live EXCEPT ![c] = @ + 1] /\ lost' = [lost EXCEPT ![c] = @ + 1]
           \/ /\ Good(c, p) /\ InCallback(t, "message", Found(BuiltInto(Clear, c, p), p))
              /\ live' = [live EXCEPT ![c] = @ + 1] /\ UNCHANGED lost
        /\ UNCHANGED <<msg_rx, soiled>>

ErrorReturns(t) ==
    /\ In(t, "error") /\ Set(t, AfterCallback(t))
    /\ UNCHANGED <<receiver, messages, progress, chunk>>

\* Mistakes: the static message is not cleared; the one on the heap is not freed.
MessageReturnsDirty(t) ==
    LET c == Top(t).ctx IN
    /\ In(t, "message") /\ Set(t, AfterCallback(t))
    /\ live' = IF c \in StaticContexts THEN live ELSE [live EXCEPT ![c] = @ - 1]
    /\ UNCHANGED <<receiver, progress, chunk, buf, msg_rx, soiled, lost>>

MessageReturnsKept(t) ==
    LET c == Top(t).ctx IN
    /\ In(t, "message") /\ Set(t, AfterCallback(t))
    /\ msg_rx' = [msg_rx EXCEPT ![c] = Clear] /\ soiled' = [soiled EXCEPT ![c] = "no"]
    /\ UNCHANGED <<receiver, progress, chunk, buf, heap>>

MessageReturns(t) ==
    LET c == Top(t).ctx IN
    /\ In(t, "message") /\ Set(t, AfterCallback(t))
    /\ \/ /\ c \in StaticContexts
          /\ msg_rx' = [msg_rx EXCEPT ![c] = Clear] /\ soiled' = [soiled EXCEPT ![c] = "no"]
          /\ UNCHANGED live
       \/ /\ c \notin StaticContexts /\ live' = [live EXCEPT ![c] = @ - 1]
          /\ UNCHANGED <<msg_rx, soiled>>
    /\ UNCHANGED <<receiver, progress, chunk, buf, lost>>

ChunkDone(t) ==
    /\ In(t, "loop") /\ Top(t).i >= Top(t).rbytes
    /\ Set(t, [Top(t) EXCEPT !.pc = "read", !.rbytes = 0, !.i = 0])
    /\ UNCHANGED <<receiver, messages, progress, chunk>>

-----------------------------------------------------------------------------
CallbackReturns(t) == ErrorReturns(t) \/ MessageReturns(t)

Library(t) ==
    \/ Wait(t) \/ Read(t) \/ ReadNothing(t) \/ ChunkDone(t)
    \/ Nothing(t) \/ DecoderError(t) \/ FrameStatic(t) \/ FrameHeap(t)

Next ==
    \E t \in Threads :
        \/ Library(t) \/ CallbackReturns(t)
        \/ \E c \in Contexts : Open(t, c) \/ Close(t, c) \/ ProcessFd(t, c) \/ WaitAndProcess(t, c)

Spec == Init /\ [][Next]_vars

\* The library runs, waits have a timeout, and callbacks return.
FairSpec == Spec /\ \A t \in Threads : WF_vars(Library(t)) /\ SF_vars(CallbackReturns(t))

-----------------------------------------------------------------------------
(* Properties *)

(***************************************************************************)
(* The decoder of a context gets the bytes read for it, each once and in   *)
(* their order, and has got them all when no call is left: those of its    *)
(* own line, or what a closed device gave, never those of another line.    *)
(***************************************************************************)
DeliveredInOrder ==
    /\ \A t \in Threads :
         AtByte(t) => /\ Byte(t).of \in {Top(t).ctx, None}
                      /\ Byte(t).n = done[Top(t).ctx] + 1
    /\ \A c \in Contexts : (\A t \in Threads : ~Processing(t, c)) => done[c] = sent[c]

\* A byte takes the call at the top of the stack of t into a callback.
EventOf(t) ==
    /\ In(t, "loop") /\ stack'[t] # stack[t] /\ Len(stack'[t]) = Depth(t)
    /\ stack'[t][Depth(t)].pc \in Callback

(***************************************************************************)
(* No callback is called for a context that is closed, whoever closed it:  *)
(* process_fd asks for an open context only at its start.                  *)
(***************************************************************************)
NoEventWhenClosed == [][\A t \in Threads : EventOf(t) => opened[Top(t).ctx] = "yes"]_vars

(***************************************************************************)
(* After a context was closed in a callback, the bytes behind in the same  *)
(* chunk are all that can still lead to callbacks: nothing more is taken   *)
(* from its line.                                                          *)
(***************************************************************************)
OnlyChunkAfterClose ==
    [][ \A t \in Threads :
          EventOf(t) /\ opened[Top(t).ctx] = "no"
            => Top(t).i > 0 \/ Byte(t).of # Top(t).ctx ]_vars

\* The message that holds the values of p and nothing else.
Exactly(p) == [s \in Slots |-> IF s \in DOMAIN p THEN p[s] ELSE None]

InMessage == {k \in Threads \X (1 .. MaxDepth) :
                /\ k[2] \in DOMAIN stack[k[1]] /\ stack[k[1]][k[2]].pc = "message"}

CallAt(k) == stack[k[1]][k[2]]

(***************************************************************************)
(* The message a callback is called with has the values of the frame and   *)
(* no others.                                                              *)
(***************************************************************************)
MessageIsFrame == \A k \in InMessage : CallAt(k).msg = Exactly(CallAt(k).payload)

(***************************************************************************)
(* It can have others only in a static context where a build failed since  *)
(* the message was last cleared.                                           *)
(***************************************************************************)
StaleOnlyAfterError ==
    \A k \in InMessage :
        \/ CallAt(k).msg = Exactly(CallAt(k).payload)
        \/ CallAt(k).ctx \in StaticContexts /\ soiled[CallAt(k).ctx] = "yes"

\* What the callback of a call finds in its message now.
FoundNow(call) ==
    Found(IF call.ctx \in StaticContexts THEN msg_rx[call.ctx] ELSE call.msg, buf[call.ctx])

(***************************************************************************)
(* A message does not change while the callback it was given to runs       *)
(* (libsmp.h: "msg is only valid in the callback").                        *)
(***************************************************************************)
MessageLasts == \A k \in InMessage : FoundNow(CallAt(k)) = CallAt(k).msg

(***************************************************************************)
(* Until its context is processed again, which only that callback can do,  *)
(* a message does not change while the callback it was given to runs,      *)
(* whatever is done with other contexts and in other threads, and whether  *)
(* or not the context is closed.                                           *)
(***************************************************************************)
MessageIntact ==
    \A k \in InMessage :
        LET call == CallAt(k) IN
        /\ done[call.ctx] = call.at => FoundNow(call) = call.msg
        /\ call.ctx \notin Reentrant => done[call.ctx] = call.at

(***************************************************************************)
(* Every message on the heap is in a callback, or it is one whose build    *)
(* failed, which nobody frees.                                             *)
(***************************************************************************)
MessagesAccounted ==
    \A c \in Contexts \ StaticContexts :
        live[c] = lost[c] + Cardinality({k \in InMessage : CallAt(k).ctx = c})

(***************************************************************************)
(* When no more bytes come, every call returns.                            *)
(***************************************************************************)
ProcessEnds == \A t \in Threads : stack[t] # <<>> ~> stack[t] = <<>>

=============================================================================
