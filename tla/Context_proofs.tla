--------------------------- MODULE Context_proofs ---------------------------
(***************************************************************************)
(* The receiving side of a context, for any number of contexts, threads    *)
(* and payloads: what the callbacks of smp_context_process_fd may rely on, *)
(* under the conditions each theorem names.                                *)
(***************************************************************************)
EXTENDS Context, FiniteSetTheorems, SequenceTheorems, TLAPS

Messages == [Slots -> Values \cup {None, Bad}]

\* The messages without the buffers of the decoders.
arrays == <<msg_rx, soiled, live, lost>>

\* What a byte of the chunk carries.
Bytes == {b \in [of : Contexts \cup {None}, n : Nat, kind : {"nothing", "error", "frame"},
                 payload : Payloads \cup {<<>>}] : b.kind = "frame" => b.payload \in Payloads}

\* A call and the bytes it has read; only the top call of a stack is not in a callback.
CallOK(call) ==
    /\ call.i <= call.rbytes
    /\ call.pc \in {"wait", "read"} => call.rbytes = 0 /\ call.i = 0
    /\ call.pc \in Callback => call.i < call.rbytes

StackOK(t) ==
    /\ Len(stack[t]) <= MaxDepth
    /\ \A k \in DOMAIN stack[t] : CallOK(stack[t][k])
    /\ \A k \in 1 .. Depth(t) - 1 : stack[t][k].pc \in Callback

StacksOK == stack \in [Threads -> Seq(Call)] /\ \A t \in Threads : StackOK(t)

CallsInv ==
    /\ opened \in [Contexts -> {"yes", "no"}] /\ device \in [Contexts -> {"open", "closed"}]
    /\ \A c \in Contexts : opened[c] = "yes" <=> device[c] = "open"
    /\ chunk \in [1 .. CHUNK_SIZE -> Bytes]
    /\ StacksOK
    /\ sent \in [Contexts -> Nat] /\ done \in [Contexts -> Nat]
    /\ buf \in [Contexts -> Payloads \cup {<<>>}]
    /\ lost \in [Contexts -> Nat] /\ live \in [Contexts -> Int]
    /\ msg_rx \in [Contexts -> Messages]
    /\ soiled \in [Contexts -> {"yes", "no"}]

\* A context is in the calls of one thread at a time, and in one call of it unless it
\* is one its own callbacks process.
UseInv ==
    \A t, u \in Threads : \A k \in DOMAIN stack[t], l \in DOMAIN stack[u] :
         stack[t][k].ctx = stack[u][l].ctx =>
             t = u /\ (k = l \/ stack[t][k].ctx \in Reentrant)

\* The message of a static context is clear, or in a callback, or soiled.
MessageInv ==
    /\ \A c \in StaticContexts :
         soiled[c] = "no" /\ (\A t \in Threads : \A k \in DOMAIN stack[t] :
                                 ~(stack[t][k].ctx = c /\ stack[t][k].pc = "message"))
             => msg_rx[c] = Clear
    /\ \A t \in Threads : \A k \in DOMAIN stack[t] :
         LET call == stack[t][k] IN
         call.pc = "message" =>
             \/ call.ctx \in StaticContexts /\ soiled[call.ctx] = "yes"
             \/ call.msg = Exactly(call.payload)

\* A message is as it was until the decoder of its context is given another byte, and the
\* callbacks of a context began in the order of its bytes.
IntactInv ==
    \A t \in Threads : \A k \in DOMAIN stack[t] :
         LET call == stack[t][k] IN
         call.pc = "message" =>
             /\ call.at \in Nat /\ call.at <= done[call.ctx]
             /\ done[call.ctx] = call.at => FoundNow(call) = call.msg
             /\ call.ctx \notin Reentrant => done[call.ctx] = call.at
             /\ \A l \in DOMAIN stack[t] :
                  l > k /\ stack[t][l].pc = "message" /\ stack[t][l].ctx = call.ctx
                      => call.at < stack[t][l].at

\* The bytes of the chunk a call has decoded, the one its callback is about included.
Decoded(call) == IF call.pc \in Callback THEN call.i + 1 ELSE call.i

Behind(call) ==
    /\ sent[call.ctx] = done[call.ctx] + (call.rbytes - Decoded(call))
    /\ \A j \in Decoded(call) + 1 .. call.rbytes :
         chunk[j].of \in {call.ctx, None} /\ chunk[j].n = done[call.ctx] + (j - Decoded(call))

\* Only the top call has bytes in the chunk that are not decoded yet.
OrderInv ==
    \A t \in Threads :
         /\ \A k \in 1 .. Depth(t) - 1 : Decoded(stack[t][k]) = stack[t][k].rbytes
         /\ stack[t] # <<>> => Behind(Top(t))
         /\ \A c \in Contexts : stack[t] = <<>> \/ Top(t).ctx # c => done[c] = sent[c]

\* When the first byte of a chunk is still to be decoded its context is open, unless it is
\* not a byte of its line.
OpenInv ==
    \A t \in Threads :
        AtByte(t) /\ Top(t).i = 0 => opened[Top(t).ctx] = "yes" \/ Byte(t).of # Top(t).ctx

-----------------------------------------------------------------------------
(* What a step does to the stacks *)

\* The top call changes.
LEMMA SetEffect ==
    ASSUME stack \in [Threads -> Seq(Call)], NEW t \in Threads, stack[t] # <<>>,
           NEW call \in Call, Set(t, call)
    PROVE  /\ stack' \in [Threads -> Seq(Call)]
           /\ \A u \in Threads : u # t => stack'[u] = stack[u]
           /\ Len(stack[t]) \in Nat \ {0} /\ Len(stack'[t]) = Len(stack[t])
           /\ stack'[t][Len(stack[t])] = call
           /\ \A k \in 1 .. Len(stack[t]) - 1 : stack'[t][k] = stack[t][k]
  <1>1. stack[t] \in Seq(Call) /\ Len(stack[t]) \in Nat \ {0}
    OBVIOUS
  <1> DEFINE s == [stack[t] EXCEPT ![Len(stack[t])] = call]
  <1>2. /\ s \in Seq(Call) /\ Len(s) = Len(stack[t]) /\ s[Len(stack[t])] = call
        /\ \A k \in 1 .. Len(stack[t]) - 1 : s[k] = stack[t][k]
    BY <1>1
  <1>3. stack' = [stack EXCEPT ![t] = s]
    BY DEF Set, Depth
  <1> HIDE DEF s
  <1>4. stack'[t] = s /\ stack' \in [Threads -> Seq(Call)]
        /\ \A u \in Threads : u # t => stack'[u] = stack[u]
    BY <1>2, <1>3
  <1> QED
    BY <1>1, <1>2, <1>4

\* A call on top.
LEMMA PushEffect ==
    ASSUME stack \in [Threads -> Seq(Call)], NEW t \in Threads, NEW call \in Call, Push(t, call)
    PROVE  /\ stack' \in [Threads -> Seq(Call)]
           /\ \A u \in Threads : u # t => stack'[u] = stack[u]
           /\ Len(stack[t]) \in Nat /\ Len(stack'[t]) = Len(stack[t]) + 1
           /\ stack'[t][Len(stack[t]) + 1] = call
           /\ \A k \in 1 .. Len(stack[t]) : stack'[t][k] = stack[t][k]
  <1>1. stack[t] \in Seq(Call) /\ Len(stack[t]) \in Nat
    OBVIOUS
  <1> DEFINE s == Append(stack[t], call)
  <1>2. /\ s \in Seq(Call) /\ Len(s) = Len(stack[t]) + 1 /\ s[Len(stack[t]) + 1] = call
        /\ \A k \in 1 .. Len(stack[t]) : s[k] = stack[t][k]
    BY <1>1
  <1>3. stack' = [stack EXCEPT ![t] = s]
    BY DEF Push
  <1> HIDE DEF s
  <1>4. stack'[t] = s /\ stack' \in [Threads -> Seq(Call)]
        /\ \A u \in Threads : u # t => stack'[u] = stack[u]
    BY <1>2, <1>3
  <1> QED
    BY <1>1, <1>2, <1>4

\* One call less.
LEMMA PopEffect ==
    ASSUME stack \in [Threads -> Seq(Call)], NEW t \in Threads, stack[t] # <<>>, Pop(t)
    PROVE  /\ stack' \in [Threads -> Seq(Call)]
           /\ \A u \in Threads : u # t => stack'[u] = stack[u]
           /\ Len(stack[t]) \in Nat \ {0} /\ Len(stack'[t]) = Len(stack[t]) - 1
           /\ \A k \in 1 .. Len(stack[t]) - 1 : stack'[t][k] = stack[t][k]
  <1>1. stack[t] \in Seq(Call) /\ Len(stack[t]) \in Nat \ {0}
    OBVIOUS
  <1> DEFINE s == SubSeq(stack[t], 1, Len(stack[t]) - 1)
  <1>2. /\ s \in Seq(Call) /\ Len(s) = Len(stack[t]) - 1
        /\ \A k \in 1 .. Len(stack[t]) - 1 : s[k] = stack[t][k]
    <2> DEFINE n == Len(stack[t]) - 1
    <2>1. n \in Nat /\ 1 \in Int /\ \A k \in 1 .. n : stack[t][k] \in Call
      BY <1>1
    <2> HIDE DEF n
    <2>2. /\ SubSeq(stack[t], 1, n) \in Seq(Call)
          /\ Len(SubSeq(stack[t], 1, n)) = IF 1 <= n THEN n - 1 + 1 ELSE 0
          /\ \A k \in 1 .. n - 1 + 1 : SubSeq(stack[t], 1, n)[k] = stack[t][1 + k - 1]
      BY <2>1, SubSeqProperties
    <2>3. /\ SubSeq(stack[t], 1, n) \in Seq(Call)
          /\ Len(SubSeq(stack[t], 1, n)) = n
          /\ \A k \in 1 .. n : SubSeq(stack[t], 1, n)[k] = stack[t][k]
      BY <2>1, <2>2
    <2> QED
      BY <2>3 DEF n
  <1>3. stack' = [stack EXCEPT ![t] = s]
    BY DEF Pop
  <1> HIDE DEF s
  <1>4. stack'[t] = s /\ stack' \in [Threads -> Seq(Call)]
        /\ \A u \in Threads : u # t => stack'[u] = stack[u]
    BY <1>2, <1>3
  <1> QED
    BY <1>1, <1>2, <1>4

-----------------------------------------------------------------------------
(* Types and shape of the calls *)

\* The top call of a thread.
LEMMA TopCall ==
    ASSUME StacksOK, NEW t \in Threads, stack[t] # <<>>
    PROVE  /\ Top(t) \in Call /\ CallOK(Top(t))
           /\ Depth(t) \in Nat \ {0} /\ DOMAIN stack[t] = 1 .. Depth(t) /\ Depth(t) \in DOMAIN stack[t]
           /\ Depth(t) = Len(stack[t]) /\ Top(t) = stack[t][Depth(t)]
  <1>1. stack[t] \in Seq(Call) /\ StackOK(t)
    BY DEF StacksOK
  <1>2. Len(stack[t]) \in Nat \ {0} /\ DOMAIN stack[t] = 1 .. Len(stack[t]) /\ Len(stack[t]) \in DOMAIN stack[t]
    BY <1>1
  <1> QED
    BY <1>1, <1>2 DEF Top, Depth, StackOK

\* A top call that stays a call with the bytes it says.
LEMMA SetKeeps ==
    ASSUME StacksOK, NEW t \in Threads, stack[t] # <<>>, NEW call \in Call, CallOK(call), Set(t, call)
    PROVE  StacksOK'
  <1>1. stack \in [Threads -> Seq(Call)] /\ \A u \in Threads : StackOK(u)
    BY DEF StacksOK
  <1>2. /\ stack' \in [Threads -> Seq(Call)]
        /\ \A u \in Threads : u # t => stack'[u] = stack[u]
        /\ Len(stack[t]) \in Nat \ {0} /\ Len(stack'[t]) = Len(stack[t])
        /\ stack'[t][Len(stack[t])] = call
        /\ \A k \in 1 .. Len(stack[t]) - 1 : stack'[t][k] = stack[t][k]
    BY <1>1, SetEffect
  <1>3. StackOK(t)'
    <2>1. DOMAIN stack'[t] = 1 .. Len(stack[t]) /\ DOMAIN stack[t] = 1 .. Len(stack[t])
      BY <1>1, <1>2
    <2>2. ASSUME NEW k \in DOMAIN stack'[t] PROVE CallOK(stack'[t][k])
      <3>1. CASE k = Len(stack[t])
        BY <1>2, <3>1
      <3>2. CASE k \in 1 .. Len(stack[t]) - 1
        BY <1>1, <1>2, <2>1, <3>2 DEF StackOK
      <3> QED
        BY <1>2, <2>1, <3>1, <3>2
    <2> QED
      BY <1>1, <1>2, <2>2 DEF StackOK, Depth, CallOK
  <1>4. ASSUME NEW u \in Threads, u # t PROVE StackOK(u)'
    <2>1. stack'[u] = stack[u] /\ StackOK(u)
      BY <1>1, <1>2, <1>4
    <2> QED
      BY <2>1 DEF StackOK, Depth, CallOK
  <1> QED
    BY <1>2, <1>3, <1>4 DEF StacksOK

\* A call made by the application or by a callback.
LEMMA PushKeeps ==
    ASSUME StacksOK, NEW t \in Threads, NEW call \in Call, CallOK(call), Push(t, call),
           Depth(t) < MaxDepth, stack[t] # <<>> => Top(t).pc \in Callback
    PROVE  StacksOK'
  <1>1. stack \in [Threads -> Seq(Call)] /\ \A u \in Threads : StackOK(u)
    BY DEF StacksOK
  <1>2. /\ stack' \in [Threads -> Seq(Call)]
        /\ \A u \in Threads : u # t => stack'[u] = stack[u]
        /\ Len(stack[t]) \in Nat /\ Len(stack'[t]) = Len(stack[t]) + 1
        /\ stack'[t][Len(stack[t]) + 1] = call
        /\ \A k \in 1 .. Len(stack[t]) : stack'[t][k] = stack[t][k]
    BY <1>1, PushEffect
  <1>3. StackOK(t)'
    <2>1. DOMAIN stack'[t] = 1 .. Len(stack[t]) + 1 /\ DOMAIN stack[t] = 1 .. Len(stack[t])
      BY <1>1, <1>2
    <2>2. \A k \in DOMAIN stack'[t] : CallOK(stack'[t][k])
      BY <1>1, <1>2, <2>1 DEF StackOK
    <2>3. ASSUME NEW k \in 1 .. Len(stack[t]) PROVE stack'[t][k].pc \in Callback
      <3>1. CASE k = Len(stack[t])
        <4>1. stack[t] # <<>> /\ stack[t][k] = Top(t)
          BY <1>1, <3>1 DEF Top, Depth
        <4> QED
          BY <1>2, <4>1
      <3>2. CASE k \in 1 .. Len(stack[t]) - 1
        BY <1>1, <1>2, <3>2 DEF StackOK, Depth
      <3> QED
        BY <1>2, <3>1, <3>2
    <2>4. Len(stack'[t]) <= MaxDepth
      BY <1>2, ContextAssumption DEF Depth
    <2> QED
      BY <1>2, <2>2, <2>3, <2>4 DEF StackOK, Depth, CallOK
  <1>4. ASSUME NEW u \in Threads, u # t PROVE StackOK(u)'
    <2>1. stack'[u] = stack[u] /\ StackOK(u)
      BY <1>1, <1>2, <1>4
    <2> QED
      BY <2>1 DEF StackOK, Depth, CallOK
  <1> QED
    BY <1>2, <1>3, <1>4 DEF StacksOK

\* A call that returns.
LEMMA PopKeeps ==
    ASSUME StacksOK, NEW t \in Threads, stack[t] # <<>>, Pop(t)
    PROVE  StacksOK'
  <1>1. stack \in [Threads -> Seq(Call)] /\ \A u \in Threads : StackOK(u)
    BY DEF StacksOK
  <1>2. /\ stack' \in [Threads -> Seq(Call)]
        /\ \A u \in Threads : u # t => stack'[u] = stack[u]
        /\ Len(stack[t]) \in Nat \ {0} /\ Len(stack'[t]) = Len(stack[t]) - 1
        /\ \A k \in 1 .. Len(stack[t]) - 1 : stack'[t][k] = stack[t][k]
    BY <1>1, PopEffect
  <1>3. StackOK(t)'
    <2>1. DOMAIN stack'[t] = 1 .. Len(stack[t]) - 1 /\ DOMAIN stack[t] = 1 .. Len(stack[t])
      BY <1>1, <1>2
    <2>2. \A k \in DOMAIN stack'[t] : CallOK(stack'[t][k])
      BY <1>1, <1>2, <2>1 DEF StackOK
    <2>3. Len(stack'[t]) <= MaxDepth
      BY <1>1, <1>2, ContextAssumption DEF StackOK
    <2>4. \A k \in 1 .. Len(stack'[t]) - 1 : stack'[t][k].pc \in Callback
      <3>1. \A k \in 1 .. Len(stack[t]) - 1 : stack[t][k].pc \in Callback
        BY <1>1 DEF StackOK, Depth
      <3>2. \A k \in 1 .. Len(stack'[t]) - 1 : k \in 1 .. Len(stack[t]) - 1
        BY <1>2
      <3> QED
        BY <1>2, <3>1, <3>2
    <2> QED
      BY <2>2, <2>3, <2>4 DEF StackOK, Depth, CallOK
  <1>4. ASSUME NEW u \in Threads, u # t PROVE StackOK(u)'
    <2>1. stack'[u] = stack[u] /\ StackOK(u)
      BY <1>1, <1>2, <1>4
    <2> QED
      BY <2>1 DEF StackOK, Depth, CallOK
  <1> QED
    BY <1>2, <1>3, <1>4 DEF StacksOK

\* No call at all.
LEMMA SameKeeps == StacksOK /\ UNCHANGED stack => StacksOK'
  BY DEF StacksOK, StackOK, Depth, CallOK

\* Messages are arrays of values.
LEMMA MessageTypes ==
    /\ Clear \in Messages
    /\ \A msg \in Messages, c \in Contexts, p \in Payloads : BuiltInto(msg, c, p) \in Messages
    /\ \A msg \in Messages, p \in Payloads : Found(msg, p) \in Messages
  <1>1. ASSUME NEW p \in Payloads, NEW k \in DOMAIN p PROVE p[k] \in Values
    BY DEF Values
  <1>2. Clear \in Messages
    BY DEF Clear, Messages
  <1>3. ASSUME NEW msg \in Messages, NEW c \in Contexts, NEW p \in Payloads
        PROVE  BuiltInto(msg, c, p) \in Messages
    <2>1. \A k \in Stored(c, p) : p[k] \in Values
      BY <1>1 DEF Stored
    <2> QED
      BY <2>1 DEF BuiltInto, Messages
  <1>4. ASSUME NEW msg \in Messages, NEW p \in Payloads PROVE Found(msg, p) \in Messages
    BY <1>1 DEF Found, Messages
  <1> QED
    BY <1>2, <1>3, <1>4

\* Calls that change are calls.
Moved(call, pc, n, j) == [call EXCEPT !.pc = pc, !.rbytes = n, !.i = j]

LEMMA CallTypes ==
    ASSUME NEW call \in Call, NEW pc \in {"wait", "read", "loop"} \cup Callback,
           NEW n \in 0 .. CHUNK_SIZE, NEW j \in 0 .. CHUNK_SIZE
    PROVE  /\ Moved(call, pc, n, j) \in Call
           /\ Moved(call, pc, n, j).pc = pc /\ Moved(call, pc, n, j).ctx = call.ctx
           /\ Moved(call, pc, n, j).rbytes = n /\ Moved(call, pc, n, j).i = j
  BY DEF Call, Moved

Calling(call, pc, p, msg, n) == [call EXCEPT !.pc = pc, !.payload = p, !.msg = msg, !.at = n]

LEMMA CallingTypes ==
    ASSUME NEW call \in Call, NEW pc \in Callback, NEW p \in Payloads \cup {<<>>},
           NEW msg \in Messages, NEW n \in Nat
    PROVE  /\ Calling(call, pc, p, msg, n) \in Call
           /\ Calling(call, pc, p, msg, n).at = n
           /\ Calling(call, pc, p, msg, n).ctx = call.ctx /\ Calling(call, pc, p, msg, n).pc = pc
           /\ Calling(call, pc, p, msg, n).payload = p /\ Calling(call, pc, p, msg, n).msg = msg
           /\ Calling(call, pc, p, msg, n).rbytes = call.rbytes
           /\ Calling(call, pc, p, msg, n).i = call.i
  BY DEF Call, Messages, Calling

\* The call a callback returns to.
LEMMA AfterTypes ==
    ASSUME NEW t, Top(t) \in Call, Top(t).i + 1 \in 0 .. CHUNK_SIZE
    PROVE  /\ AfterCallback(t) \in Call
           /\ AfterCallback(t).pc = "loop" /\ AfterCallback(t).ctx = Top(t).ctx
           /\ AfterCallback(t).i = Top(t).i + 1 /\ AfterCallback(t).rbytes = Top(t).rbytes
  <1> DEFINE call == Top(t)
  <1>1. Clear \in [Slots -> Values \cup {None, Bad}]
    BY MessageTypes DEF Messages
  <1>2. AfterCallback(t) =
           [call EXCEPT !.pc = "loop", !.i = @ + 1, !.payload = <<>>, !.msg = Clear, !.at = 0]
    BY DEF AfterCallback
  <1>3. call \in Call /\ call.i + 1 \in 0 .. CHUNK_SIZE
    OBVIOUS
  <1> HIDE DEF call
  <1>5. AfterCallback(t) =
           [ctx |-> call.ctx, pc |-> "loop", rbytes |-> call.rbytes, i |-> call.i + 1,
            payload |-> <<>>, msg |-> Clear, at |-> 0]
    BY <1>2, <1>3 DEF Call
  <1>4. /\ AfterCallback(t) \in Call
        /\ AfterCallback(t).pc = "loop" /\ AfterCallback(t).ctx = call.ctx
        /\ AfterCallback(t).i = call.i + 1 /\ AfterCallback(t).rbytes = call.rbytes
    BY <1>1, <1>3, <1>5 DEF Call
  <1> QED
    BY <1>4 DEF call

\* A byte of the chunk with what it carries.
LEMMA ChunkByte ==
    ASSUME CallsInv, NEW t \in Threads, In(t, "loop"), Top(t).i < Top(t).rbytes
    PROVE  /\ Top(t) \in Call /\ Top(t).ctx \in Contexts /\ Top(t).i \in 0 .. CHUNK_SIZE
           /\ Byte(t) \in Bytes /\ Byte(t) = chunk[Top(t).i + 1]
           /\ Top(t).rbytes \in 0 .. CHUNK_SIZE /\ Top(t).i + 1 \in 0 .. CHUNK_SIZE
  <1>1. Top(t) \in Call
    BY TopCall DEF CallsInv, In
  <1>2. Top(t).i \in 0 .. CHUNK_SIZE /\ Top(t).rbytes \in 0 .. CHUNK_SIZE /\ Top(t).ctx \in Contexts
    BY <1>1 DEF Call
  <1>3. Top(t).i + 1 \in 1 .. CHUNK_SIZE
    BY <1>2, ContextAssumption
  <1>4. chunk[Top(t).i + 1] \in Bytes
    BY <1>3 DEF CallsInv
  <1> QED
    BY <1>1, <1>2, <1>3, <1>4 DEF Byte

\* The steps of CallsInv, one action after the other.
LEMMA CallsInit == Init => CallsInv
  <1> SUFFICES ASSUME Init PROVE CallsInv
    OBVIOUS
  <1>1. NoByte \in Bytes
    BY DEF NoByte, Bytes
  <1>2. StacksOK
    BY ContextAssumption DEF Init, StacksOK, StackOK, Depth
  <1> QED
    BY <1>1, <1>2, MessageTypes DEF Init, CallsInv

LEMMA CallsOpenClose ==
    ASSUME CallsInv, NEW t \in Threads, NEW c \in Contexts, Open(t, c) \/ Close(t, c)
    PROVE  CallsInv'
  <1>1. StacksOK'
    BY SameKeeps DEF CallsInv, Open, Close
  <1> QED
    BY <1>1 DEF CallsInv, Open, Close, messages, heap, progress

LEMMA CallsEnter ==
    ASSUME CallsInv, NEW t \in Threads, NEW c \in Contexts, NEW pc \in {"wait", "read"}, Enter(t, c, pc)
    PROVE  CallsInv'
  <1> DEFINE call == [ctx |-> c, pc |-> pc, rbytes |-> 0, i |-> 0, payload |-> <<>>, msg |-> Clear,
                     at |-> 0]
  <1>1. call \in Call /\ CallOK(call)
    BY MessageTypes, ContextAssumption DEF Call, Callback, CallOK, Messages
  <1>2. StacksOK /\ Push(t, call) /\ Depth(t) < MaxDepth /\ (stack[t] # <<>> => Top(t).pc \in Callback)
    BY DEF CallsInv, Enter, MayProcess, MayUse
  <1>3. StacksOK'
    BY <1>1, <1>2, PushKeeps
  <1> QED
    BY <1>3 DEF CallsInv, Enter, receiver, messages, heap, progress

LEMMA CallsWait ==
    ASSUME CallsInv, NEW t \in Threads, Wait(t) \/ ReadNothing(t) \/ ChunkDone(t) PROVE CallsInv'
  <1>1. StacksOK /\ stack[t] # <<>> /\ Top(t) \in Call /\ CallOK(Top(t))
    BY TopCall DEF CallsInv, Wait, ReadNothing, ChunkDone, In
  <1>2. StacksOK'
    <2>1. CASE Pop(t)
      BY <1>1, <2>1, PopKeeps
    <2>2. CASE Wait(t) /\ Set(t, [Top(t) EXCEPT !.pc = "read"])
      <3>1. [Top(t) EXCEPT !.pc = "read"] \in Call /\ CallOK([Top(t) EXCEPT !.pc = "read"])
        BY <1>1, <2>2 DEF Wait, In, Call, CallOK, Callback
      <3> QED
        BY <1>1, <2>2, <3>1, SetKeeps
    <2>3. CASE ChunkDone(t)
      <3> DEFINE call == Moved(Top(t), "read", 0, 0)
      <3>1. 0 \in 0 .. CHUNK_SIZE /\ "read" \in {"wait", "read", "loop"} \cup Callback
        BY ContextAssumption
      <3>2. call \in Call /\ call.pc = "read" /\ call.rbytes = 0 /\ call.i = 0
        BY <1>1, <3>1, CallTypes
      <3> HIDE DEF call
      <3>3. CallOK(call)
        BY <3>2 DEF CallOK, Callback
      <3>4. Set(t, call)
        BY <2>3 DEF ChunkDone, call, Moved
      <3> QED
        BY <1>1, <3>2, <3>3, <3>4, SetKeeps
    <2> QED
      BY <2>1, <2>2, <2>3 DEF Wait, ReadNothing
  <1> QED
    BY <1>2 DEF CallsInv, Wait, ReadNothing, ChunkDone, receiver, messages, heap, progress

LEMMA CallsRead ==
    ASSUME CallsInv, NEW t \in Threads, Read(t) PROVE CallsInv'
  <1>1. StacksOK /\ stack[t] # <<>> /\ Top(t) \in Call /\ CallOK(Top(t)) /\ Top(t).ctx \in Contexts
    <2>1. Top(t) \in Call
      BY TopCall DEF CallsInv, Read, In
    <2> QED
      BY <2>1, TopCall DEF CallsInv, Read, In, Call
  <1> DEFINE c == Top(t).ctx
             of == IF device[c] = "open" THEN c ELSE None
  <1>2. PICK n \in 1 .. CHUNK_SIZE :
          /\ \E b \in [1 .. n -> UNION {BytesAt(of, sent[c] + k) : k \in 1 .. n}] :
                chunk' = [k \in 1 .. CHUNK_SIZE |-> IF k <= n THEN b[k] ELSE chunk[k]]
          /\ sent' = [sent EXCEPT ![c] = @ + n]
          /\ Set(t, [Top(t) EXCEPT !.pc = "loop", !.rbytes = n, !.i = 0])
    BY DEF Read
  <1>3. StacksOK'
    <2> DEFINE call == Moved(Top(t), "loop", n, 0)
    <2>1. /\ 0 \in 0 .. CHUNK_SIZE /\ n \in 0 .. CHUNK_SIZE
          /\ "loop" \in {"wait", "read", "loop"} \cup Callback
      BY ContextAssumption
    <2>2. call \in Call /\ call.pc = "loop" /\ call.i = 0 /\ call.rbytes = n /\ 0 <= n
      BY <1>1, <2>1, CallTypes
    <2>3. Set(t, call)
      BY <1>2 DEF Moved
    <2> HIDE DEF call
    <2>4. CallOK(call)
      BY <2>2 DEF CallOK, Callback
    <2> QED
      BY <1>1, <2>2, <2>3, <2>4, SetKeeps
  <1>4. \A k \in 1 .. n : BytesAt(of, sent[c] + k) \subseteq Bytes
    <2>1. \A k \in 1 .. n : sent[c] + k \in Nat
      BY <1>1 DEF CallsInv
    <2> QED
      BY <1>1, <2>1 DEF BytesAt, Bytes
  <1>5. chunk' \in [1 .. CHUNK_SIZE -> Bytes]
    <2>1. PICK b \in [1 .. n -> UNION {BytesAt(of, sent[c] + k) : k \in 1 .. n}] :
            chunk' = [k \in 1 .. CHUNK_SIZE |-> IF k <= n THEN b[k] ELSE chunk[k]]
      BY <1>2
    <2>2. \A k \in 1 .. n : b[k] \in Bytes
      BY <1>4, <2>1
    <2> QED
      BY <2>1, <2>2 DEF CallsInv
  <1>6. sent' \in [Contexts -> Nat]
    <2>1. sent[c] + n \in Nat
      BY <1>1, ContextAssumption DEF CallsInv
    <2> QED
      BY <1>1, <1>2, <2>1 DEF CallsInv
  <1> QED
    BY <1>3, <1>5, <1>6 DEF CallsInv, Read, receiver, messages, heap

LEMMA CallsDecode ==
    ASSUME CallsInv, NEW t \in Threads, Nothing(t) \/ DecoderError(t) \/ FrameStatic(t) \/ FrameHeap(t)
    PROVE  CallsInv'
  <1>1. Decode(t) /\ In(t, "loop") /\ Top(t).i < Top(t).rbytes
    BY DEF Nothing, DecoderError, FrameStatic, FrameHeap, Frame, Decode, AtByte
  <1> DEFINE c == Top(t).ctx
             p == Byte(t).payload
  <1>2. /\ StacksOK /\ stack[t] # <<>> /\ Top(t) \in Call /\ c \in Contexts /\ CallOK(Top(t))
        /\ Byte(t) \in Bytes /\ p \in Payloads \cup {<<>>} /\ (Byte(t).kind = "frame" => p \in Payloads)
        /\ Top(t).i + 1 \in 0 .. CHUNK_SIZE /\ Top(t).i \in Nat /\ Top(t).rbytes \in Nat
        /\ done[c] + 1 \in Nat
    BY <1>1, TopCall, ChunkByte DEF CallsInv, In, Bytes
  <1>3. ASSUME NEW pc \in Callback, NEW msg \in Messages, InCallback(t, pc, msg) PROVE StacksOK'
    <2> DEFINE n == done[c] + 1
               call == Calling(Top(t), pc, p, msg, n)
    <2>4. n \in Nat /\ Top(t) \in Call /\ p \in Payloads \cup {<<>>}
      BY <1>2
    <2> HIDE DEF n, p
    <2>1. /\ call \in Call /\ call.pc = pc /\ call.i = Top(t).i /\ call.rbytes = Top(t).rbytes
      BY <2>4, CallingTypes
    <2>2. Set(t, call)
      BY <1>3 DEF InCallback, Calling, n, p
    <2> HIDE DEF call
    <2>3. CallOK(call)
      BY <1>1, <1>2, <2>1 DEF CallOK, Callback
    <2> QED
      BY <1>2, <2>1, <2>2, <2>3, SetKeeps
  <1>4. ASSUME Set(t, [Top(t) EXCEPT !.i = @ + 1]) PROVE StacksOK'
    <2> DEFINE call == [Top(t) EXCEPT !.i = @ + 1]
    <2>1. call \in Call /\ CallOK(call)
      BY <1>1, <1>2 DEF Call, CallOK, Callback, In
    <2> QED
      BY <1>2, <1>4, <2>1, SetKeeps
  <1>5. StacksOK'
    <2>1. msg_rx[c] \in Messages
      BY <1>2 DEF CallsInv
    <2>2. /\ Clear \in Messages
          /\ p \in Payloads => /\ Found(BuiltInto(msg_rx[c], c, p), p) \in Messages
                                /\ Found(BuiltInto(Clear, c, p), p) \in Messages
      BY <1>2, <2>1, MessageTypes
    <2> QED
      BY <1>2, <1>3, <1>4, <2>2 DEF Nothing, DecoderError, FrameStatic, FrameHeap, Frame, Callback
  <1>6. done' \in [Contexts -> Nat] /\ UNCHANGED <<receiver, chunk, sent>>
    <2>1. done' = [done EXCEPT ![c] = @ + 1] /\ UNCHANGED <<receiver, chunk, sent>>
      BY <1>1 DEF Decode
    <2> QED
      BY <1>2, <2>1 DEF CallsInv
  <1>8. buf' \in [Contexts -> Payloads \cup {<<>>}]
    <2>1. \/ buf' = buf \/ buf' = [buf EXCEPT ![c] = <<>>]
          \/ buf' = [buf EXCEPT ![c] = p] /\ p \in Payloads
      BY <1>2 DEF Nothing, DecoderError, FrameStatic, FrameHeap, Frame, messages
    <2> QED
      BY <1>2, <2>1 DEF CallsInv
  <1>7. /\ lost' \in [Contexts -> Nat] /\ live' \in [Contexts -> Int]
        /\ msg_rx' \in [Contexts -> Messages] /\ soiled' \in [Contexts -> {"yes", "no"}]
    <2>1. CASE Nothing(t) \/ DecoderError(t)
      BY <2>1 DEF CallsInv, Nothing, DecoderError, messages, heap
    <2>2. CASE FrameStatic(t)
      <3>1. BuiltInto(msg_rx[c], c, p) \in Messages
        BY <1>2, <2>2, MessageTypes DEF FrameStatic, Frame, CallsInv
      <3> QED
        BY <1>2, <2>2, <3>1 DEF FrameStatic, CallsInv, heap
    <2>3. CASE FrameHeap(t)
      <3>1. /\ live' = live \/ live' = [live EXCEPT ![c] = @ + 1]
            /\ lost' = lost \/ lost' = [lost EXCEPT ![c] = @ + 1]
            /\ UNCHANGED <<msg_rx, soiled>>
        BY <2>3, Zenon DEF FrameHeap, heap
      <3>2. live \in [Contexts -> Int] /\ lost \in [Contexts -> Nat] /\ c \in Contexts
        BY <1>2 DEF CallsInv
      <3>3. live' \in [Contexts -> Int]
        BY <3>1, <3>2
      <3>4. lost' \in [Contexts -> Nat]
        BY <3>1, <3>2
      <3> QED
        BY <3>1, <3>3, <3>4 DEF CallsInv
    <2> QED
      BY <2>1, <2>2, <2>3
  <1> QED
    BY <1>5, <1>6, <1>7, <1>8 DEF CallsInv, receiver

LEMMA CallsReturn ==
    ASSUME CallsInv, NEW t \in Threads, CallbackReturns(t) PROVE CallsInv'
  <1>1. In(t, "error") \/ In(t, "message")
    BY DEF CallbackReturns, ErrorReturns, MessageReturns
  <1>2. StacksOK /\ stack[t] # <<>> /\ Top(t) \in Call /\ CallOK(Top(t)) /\ Top(t).ctx \in Contexts
        /\ Top(t).i \in Nat /\ Top(t).rbytes \in 0 .. CHUNK_SIZE /\ Top(t).i < Top(t).rbytes
    <2>1. Top(t) \in Call /\ CallOK(Top(t)) /\ StacksOK /\ stack[t] # <<>>
      BY <1>1, TopCall DEF CallsInv, In
    <2> QED
      BY <1>1, <2>1 DEF In, Call, CallOK, Callback
  <1>3. AfterCallback(t) \in Call /\ CallOK(AfterCallback(t))
    <2>1. Top(t).i + 1 \in 0 .. CHUNK_SIZE
      BY <1>2, ContextAssumption
    <2> QED
      BY <1>2, <2>1, AfterTypes DEF CallOK, Callback
  <1>4. StacksOK'
    BY <1>2, <1>3, SetKeeps DEF CallbackReturns, ErrorReturns, MessageReturns
  <1> DEFINE c == Top(t).ctx
  <1>5. CASE ErrorReturns(t)
    BY <1>4, <1>5 DEF CallsInv, ErrorReturns, receiver, messages, heap, progress
  <1>6. CASE MessageReturns(t)
    <2>1. /\ live' = live \/ live' = [live EXCEPT ![c] = @ - 1]
          /\ msg_rx' = msg_rx \/ msg_rx' = [msg_rx EXCEPT ![c] = Clear]
          /\ soiled' = soiled \/ soiled' = [soiled EXCEPT ![c] = "no"]
          /\ UNCHANGED <<receiver, progress, chunk, buf, lost>>
      BY <1>6, Zenon DEF MessageReturns
    <2>2. /\ live \in [Contexts -> Int] /\ msg_rx \in [Contexts -> Messages]
          /\ soiled \in [Contexts -> {"yes", "no"}] /\ c \in Contexts
      BY <1>2 DEF CallsInv
    <2>3. live' \in [Contexts -> Int]
      BY <2>1, <2>2
    <2>4. msg_rx' \in [Contexts -> Messages] /\ soiled' \in [Contexts -> {"yes", "no"}]
      BY <2>1, <2>2, MessageTypes
    <2> QED
      BY <1>4, <2>1, <2>3, <2>4 DEF CallsInv, receiver, progress
  <1> QED
    BY <1>5, <1>6 DEF CallbackReturns

LEMMA CallsStep == CallsInv /\ [Next]_vars => CallsInv'
  <1> SUFFICES ASSUME CallsInv, [Next]_vars PROVE CallsInv'
    OBVIOUS
  <1>1. CASE UNCHANGED vars
    BY <1>1, SameKeeps DEF vars, CallsInv, receiver, messages, heap, progress
  <1> QED
    BY <1>1, CallsOpenClose, CallsEnter, CallsWait, CallsRead, CallsDecode, CallsReturn
    DEF Next, Library, ProcessFd, WaitAndProcess

(***************************************************************************)
(* The types, with no condition on the constants: a context is opened and  *)
(* closed with its device, and every call has the bytes it has read.       *)
(***************************************************************************)
THEOREM TypeCorrect == Spec => []TypeOK
  <1>1. CallsInv => TypeOK
    <2>1. ASSUME CallsInv, NEW t \in Threads, NEW k \in DOMAIN stack[t] PROVE stack[t][k] \in Call
      BY <2>1 DEF CallsInv, StacksOK
    <2> QED
      BY <2>1 DEF CallsInv, TypeOK
  <1> QED
    BY <1>1, CallsInit, CallsStep, PTL DEF Spec

-----------------------------------------------------------------------------
(* Where the calls are after a step *)

LEMMA CallsAfterSet ==
    ASSUME StacksOK, NEW t \in Threads, stack[t] # <<>>, NEW call \in Call, Set(t, call)
    PROVE  \A u \in Threads :
             /\ DOMAIN stack'[u] = DOMAIN stack[u]
             /\ \A k \in DOMAIN stack[u] :
                  stack'[u][k] = IF u = t /\ k = Depth(t) THEN call ELSE stack[u][k]
  <1>1. /\ stack' \in [Threads -> Seq(Call)]
        /\ \A u \in Threads : u # t => stack'[u] = stack[u]
        /\ Len(stack[t]) \in Nat \ {0} /\ Len(stack'[t]) = Len(stack[t])
        /\ stack'[t][Len(stack[t])] = call
        /\ \A k \in 1 .. Len(stack[t]) - 1 : stack'[t][k] = stack[t][k]
    BY SetEffect DEF StacksOK
  <1>2. DOMAIN stack'[t] = 1 .. Len(stack[t]) /\ DOMAIN stack[t] = 1 .. Len(stack[t])
    BY <1>1 DEF StacksOK
  <1> QED
    BY <1>1, <1>2 DEF Depth

LEMMA CallsAfterPush ==
    ASSUME StacksOK, NEW t \in Threads, NEW call \in Call, Push(t, call)
    PROVE  /\ Depth(t) \in Nat /\ DOMAIN stack[t] = 1 .. Depth(t)
           /\ DOMAIN stack'[t] = 1 .. Depth(t) + 1 /\ stack'[t][Depth(t) + 1] = call
           /\ \A u \in Threads : u # t => DOMAIN stack'[u] = DOMAIN stack[u]
           /\ \A u \in Threads : \A k \in DOMAIN stack[u] : stack'[u][k] = stack[u][k]
  <1>1. /\ stack' \in [Threads -> Seq(Call)]
        /\ \A u \in Threads : u # t => stack'[u] = stack[u]
        /\ Len(stack[t]) \in Nat /\ Len(stack'[t]) = Len(stack[t]) + 1
        /\ stack'[t][Len(stack[t]) + 1] = call
        /\ \A k \in 1 .. Len(stack[t]) : stack'[t][k] = stack[t][k]
    BY PushEffect DEF StacksOK
  <1>2. DOMAIN stack'[t] = 1 .. Len(stack[t]) + 1 /\ DOMAIN stack[t] = 1 .. Len(stack[t])
    BY <1>1 DEF StacksOK
  <1> QED
    BY <1>1, <1>2 DEF Depth

LEMMA CallsAfterPop ==
    ASSUME StacksOK, NEW t \in Threads, stack[t] # <<>>, Pop(t)
    PROVE  /\ Depth(t) \in Nat \ {0} /\ DOMAIN stack[t] = 1 .. Depth(t)
           /\ DOMAIN stack'[t] = 1 .. Depth(t) - 1
           /\ \A u \in Threads : u # t => DOMAIN stack'[u] = DOMAIN stack[u]
           /\ \A u \in Threads : \A k \in DOMAIN stack'[u] : stack'[u][k] = stack[u][k]
  <1>1. /\ stack' \in [Threads -> Seq(Call)]
        /\ \A u \in Threads : u # t => stack'[u] = stack[u]
        /\ Len(stack[t]) \in Nat \ {0} /\ Len(stack'[t]) = Len(stack[t]) - 1
        /\ \A k \in 1 .. Len(stack[t]) - 1 : stack'[t][k] = stack[t][k]
    BY PopEffect DEF StacksOK
  <1>2. DOMAIN stack'[t] = 1 .. Len(stack[t]) - 1 /\ DOMAIN stack[t] = 1 .. Len(stack[t])
    BY <1>1 DEF StacksOK
  <1> QED
    BY <1>1, <1>2 DEF Depth

(***************************************************************************)
(* What a step does to the calls, besides what it is for: the top call     *)
(* stays one of the same context, or returns, or another is made that may  *)
(* be made.                                                                *)
(***************************************************************************)
CallsMove(t) ==
    \/ UNCHANGED stack
    \/ stack[t] # <<>> /\ Pop(t)
    \/ stack[t] # <<>> /\ \E call \in Call : Set(t, call) /\ call.ctx = Top(t).ctx
    \/ \E call \in Call : Push(t, call) /\ MayProcess(t, call.ctx)

LEMMA DecodeTop ==
    ASSUME CallsInv, NEW t \in Threads, Nothing(t) \/ DecoderError(t) \/ FrameStatic(t) \/ FrameHeap(t)
    PROVE  /\ StacksOK /\ stack[t] # <<>> /\ Top(t) \in Call /\ Top(t).ctx \in Contexts
           /\ In(t, "loop") /\ Top(t).pc = "loop" /\ Decode(t)
           /\ Top(t).i \in Nat /\ Top(t).rbytes \in 0 .. CHUNK_SIZE /\ Top(t).i < Top(t).rbytes
           /\ Top(t).i + 1 \in 0 .. CHUNK_SIZE
           /\ Byte(t) \in Bytes /\ Byte(t).payload \in Payloads \cup {<<>>}
           /\ done[Top(t).ctx] + 1 \in Nat
  <1>1. Decode(t) /\ In(t, "loop") /\ Top(t).i < Top(t).rbytes
    BY DEF Nothing, DecoderError, FrameStatic, FrameHeap, Frame, Decode, AtByte
  <1>2. /\ Top(t) \in Call /\ Top(t).ctx \in Contexts /\ Top(t).i \in 0 .. CHUNK_SIZE
        /\ Byte(t) \in Bytes /\ Top(t).rbytes \in 0 .. CHUNK_SIZE /\ Top(t).i + 1 \in 0 .. CHUNK_SIZE
    BY <1>1, ChunkByte
  <1>3. Byte(t).payload \in Payloads \cup {<<>>}
    BY <1>2 DEF Bytes
  <1>4. Top(t).i \in Nat /\ done[Top(t).ctx] + 1 \in Nat
    BY <1>2 DEF CallsInv
  <1> QED
    BY <1>1, <1>2, <1>3, <1>4 DEF In, CallsInv

\* A byte takes the loop on, or into a callback.
LEMMA DecodeMoves ==
    ASSUME CallsInv, NEW t \in Threads, Nothing(t) \/ DecoderError(t) \/ FrameStatic(t) \/ FrameHeap(t)
    PROVE  \E call \in Call :
             /\ Set(t, call) /\ call.ctx = Top(t).ctx /\ call.rbytes = Top(t).rbytes
             /\ \/ call.pc = "loop" /\ call.i = Top(t).i + 1
                \/ call.pc \in Callback /\ call.i = Top(t).i
  <1> DEFINE c == Top(t).ctx
             p == Byte(t).payload
  <1>1. /\ Top(t) \in Call /\ c \in Contexts /\ Byte(t) \in Bytes /\ p \in Payloads \cup {<<>>}
        /\ Top(t).i + 1 \in 0 .. CHUNK_SIZE /\ Top(t).pc = "loop" /\ done[c] + 1 \in Nat
    BY DecodeTop
  <1>2. CASE Nothing(t)
    <2>1. /\ [Top(t) EXCEPT !.i = @ + 1] \in Call /\ [Top(t) EXCEPT !.i = @ + 1].pc = "loop"
          /\ [Top(t) EXCEPT !.i = @ + 1].ctx = c /\ [Top(t) EXCEPT !.i = @ + 1].i = Top(t).i + 1
          /\ [Top(t) EXCEPT !.i = @ + 1].rbytes = Top(t).rbytes
      BY <1>1 DEF Call
    <2> QED
      BY <1>2, <2>1, Zenon DEF Nothing
  <1>3. ASSUME NEW pc \in Callback, NEW msg \in Messages, Set(t, Calling(Top(t), pc, p, msg, done[c] + 1))
        PROVE  \E call \in Call :
                 /\ Set(t, call) /\ call.ctx = c /\ call.rbytes = Top(t).rbytes
                 /\ call.pc \in Callback /\ call.i = Top(t).i
    <2> DEFINE n == done[c] + 1
               call == Calling(Top(t), pc, p, msg, n)
    <2>1. n \in Nat /\ Set(t, call)
      BY <1>1, <1>3
    <2> HIDE DEF n
    <2>2. /\ call \in Call /\ call.ctx = c /\ call.pc = pc /\ call.i = Top(t).i
          /\ call.rbytes = Top(t).rbytes
      BY <1>1, <2>1, CallingTypes
    <2> QED
      BY <2>1, <2>2, Zenon
  <1>4. CASE DecoderError(t)
    <2>1. Set(t, Calling(Top(t), "error", p, Clear, done[c] + 1))
      BY <1>4 DEF DecoderError, InCallback, Calling
    <2>2. "error" \in Callback /\ Clear \in Messages
      BY MessageTypes DEF Callback
    <2> QED
      BY <1>3, <2>1, <2>2, Zenon
  <1>5. CASE FrameStatic(t) \/ FrameHeap(t)
    <2>1. msg_rx[c] \in Messages /\ p \in Payloads
      BY <1>1, <1>5 DEF CallsInv, FrameStatic, FrameHeap, Frame, Bytes
    <2>2. "error" \in Callback /\ "message" \in Callback /\ Clear \in Messages
          /\ Found(BuiltInto(msg_rx[c], c, p), p) \in Messages
          /\ Found(BuiltInto(Clear, c, p), p) \in Messages
      BY <1>1, <2>1, MessageTypes DEF Callback
    <2>3. \/ Set(t, Calling(Top(t), "message", p, Found(BuiltInto(msg_rx[c], c, p), p), done[c] + 1))
          \/ Set(t, Calling(Top(t), "message", p, Found(BuiltInto(Clear, c, p), p), done[c] + 1))
          \/ Set(t, Calling(Top(t), "error", p, Clear, done[c] + 1))
      BY <1>5 DEF FrameStatic, FrameHeap, InCallback, Calling
    <2> QED
      BY <1>3, <2>2, <2>3, Zenon
  <1> QED
    BY <1>2, <1>3, <1>4, <1>5, Zenon

\* The steps a thread takes itself.
ThreadStep(t) ==
    \/ \E c \in Contexts, pc \in {"wait", "read"} : Enter(t, c, pc)
    \/ Library(t) \/ CallbackReturns(t)

LEMMA NextSteps ==
    [Next]_vars => \/ UNCHANGED vars
                   \/ \E t \in Threads, c \in Contexts : Open(t, c) \/ Close(t, c)
                   \/ \E t \in Threads : ThreadStep(t)
  BY DEF Next, ThreadStep, ProcessFd, WaitAndProcess

LEMMA ThreadMoves ==
    ASSUME CallsInv, NEW t \in Threads, ThreadStep(t)
    PROVE  CallsMove(t) /\ UNCHANGED receiver
  <1>1. ASSUME NEW c \in Contexts, NEW pc \in {"wait", "read"}, Enter(t, c, pc)
        PROVE  CallsMove(t)
    <2> DEFINE call == [ctx |-> c, pc |-> pc, rbytes |-> 0, i |-> 0, payload |-> <<>>, msg |-> Clear,
                     at |-> 0]
    <2>1. call \in Call /\ call.ctx = c
      BY MessageTypes, ContextAssumption DEF Call, Messages
    <2>2. Push(t, call) /\ MayProcess(t, c)
      BY <1>1 DEF Enter
    <2> QED
      BY <2>1, <2>2 DEF CallsMove
  <1>2. ASSUME Wait(t) \/ ReadNothing(t) PROVE CallsMove(t)
    <2>1. stack[t] # <<>> /\ Top(t) \in Call
      BY <1>2, TopCall DEF CallsInv, Wait, ReadNothing, In
    <2>2. [Top(t) EXCEPT !.pc = "read"] \in Call /\ [Top(t) EXCEPT !.pc = "read"].ctx = Top(t).ctx
      BY <2>1 DEF Call
    <2> QED
      BY <1>2, <2>1, <2>2, Zenon DEF Wait, ReadNothing, CallsMove
  <1>3. ASSUME Read(t) \/ ChunkDone(t) PROVE CallsMove(t)
    <2>1. stack[t] # <<>> /\ Top(t) \in Call
      BY <1>3, TopCall DEF CallsInv, Read, ChunkDone, In
    <2>2. 0 \in 0 .. CHUNK_SIZE /\ \A n \in 1 .. CHUNK_SIZE : n \in 0 .. CHUNK_SIZE
      BY ContextAssumption
    <2>3. \E n \in 0 .. CHUNK_SIZE, pc \in {"read", "loop"} : Set(t, Moved(Top(t), pc, n, 0))
      BY <1>3, <2>2 DEF Read, ChunkDone, Moved
    <2>4. PICK n \in 0 .. CHUNK_SIZE, pc \in {"read", "loop"} : Set(t, Moved(Top(t), pc, n, 0))
      BY <2>3
    <2>5. Moved(Top(t), pc, n, 0) \in Call /\ Moved(Top(t), pc, n, 0).ctx = Top(t).ctx
      BY <2>1, <2>2, CallTypes
    <2> QED
      BY <2>1, <2>4, <2>5 DEF CallsMove
  <1>4. ASSUME Nothing(t) \/ DecoderError(t) \/ FrameStatic(t) \/ FrameHeap(t)
        PROVE  CallsMove(t)
    <2>1. stack[t] # <<>> /\ \E call \in Call : Set(t, call) /\ call.ctx = Top(t).ctx
      BY <1>4, DecodeTop, DecodeMoves, Zenon
    <2> QED
      BY <2>1 DEF CallsMove
  <1>5. ASSUME CallbackReturns(t) PROVE CallsMove(t)
    <2>1. In(t, "error") \/ In(t, "message")
      BY <1>5 DEF CallbackReturns, ErrorReturns, MessageReturns
    <2>2. stack[t] # <<>> /\ Top(t) \in Call /\ Top(t).i + 1 \in 0 .. CHUNK_SIZE
      <3>1. stack[t] # <<>> /\ Top(t) \in Call /\ CallOK(Top(t)) /\ Top(t).pc \in Callback
        BY <2>1, TopCall DEF CallsInv, In, Callback
      <3> QED
        BY <3>1, ContextAssumption DEF Call, CallOK
    <2>3. AfterCallback(t) \in Call /\ AfterCallback(t).ctx = Top(t).ctx
      BY <2>2, AfterTypes
    <2>4. Set(t, AfterCallback(t))
      BY <1>5 DEF CallbackReturns, ErrorReturns, MessageReturns
    <2> QED
      BY <2>2, <2>3, <2>4 DEF CallsMove
  <1>6. UNCHANGED receiver
    BY DEF ThreadStep, Enter, Library, Wait, Read, ReadNothing, ChunkDone, Nothing, DecoderError,
           FrameStatic, FrameHeap, Frame, Decode, CallbackReturns, ErrorReturns, MessageReturns
  <1> QED
    BY <1>1, <1>2, <1>3, <1>4, <1>5, <1>6 DEF ThreadStep, Library

LEMMA StepMoves ==
    ASSUME CallsInv, [Next]_vars
    PROVE  UNCHANGED stack \/ \E t \in Threads : CallsMove(t)
  <1>1. ASSUME NEW t \in Threads, NEW c \in Contexts, Open(t, c) \/ Close(t, c) PROVE UNCHANGED stack
    BY <1>1 DEF Open, Close
  <1> QED
    BY <1>1, NextSteps, ThreadMoves DEF vars

LEMMA UseInit == Init => UseInv
  BY DEF Init, UseInv

LEMMA UseStep == CallsInv /\ UseInv /\ [Next]_vars => UseInv'
  <1> SUFFICES ASSUME CallsInv, UseInv, [Next]_vars PROVE UseInv'
    OBVIOUS
  <1> USE DEF UseInv
  <1>1. StacksOK
    BY DEF CallsInv
  <1>2. CASE UNCHANGED stack
    BY <1>2
  <1>3. ASSUME NEW t \in Threads, CallsMove(t) PROVE UseInv'
    <2>1. CASE stack[t] # <<>> /\ Pop(t)
      <3>1. \A u \in Threads : DOMAIN stack'[u] \subseteq DOMAIN stack[u]
                                 /\ \A k \in DOMAIN stack'[u] : stack'[u][k] = stack[u][k]
        BY <1>1, <2>1, CallsAfterPop
      <3> QED
        BY <3>1
    <2>2. ASSUME stack[t] # <<>>, NEW call \in Call, Set(t, call), call.ctx = Top(t).ctx
          PROVE  UseInv'
      <3>1. \A u \in Threads : DOMAIN stack'[u] = DOMAIN stack[u]
                                 /\ \A k \in DOMAIN stack[u] : stack'[u][k].ctx = stack[u][k].ctx
        BY <1>1, <2>2, TopCall, CallsAfterSet
      <3> QED
        BY <3>1
    <2>3. ASSUME NEW call \in Call, Push(t, call), MayProcess(t, call.ctx) PROVE UseInv'
      <3> DEFINE c == call.ctx
      <3>1. /\ \A u \in Threads : u # t => \A k \in DOMAIN stack[u] : stack[u][k].ctx # c
            /\ \A k \in DOMAIN stack[t] : stack[t][k].ctx = c => c \in Reentrant
        BY <2>3 DEF MayProcess, MayUse, Processing
      <3>2. /\ Depth(t) \in Nat /\ DOMAIN stack[t] = 1 .. Depth(t)
            /\ DOMAIN stack'[t] = 1 .. Depth(t) + 1 /\ stack'[t][Depth(t) + 1] = call
            /\ \A u \in Threads : u # t => DOMAIN stack'[u] = DOMAIN stack[u]
            /\ \A u \in Threads : \A k \in DOMAIN stack[u] : stack'[u][k] = stack[u][k]
        BY <1>1, <2>3, CallsAfterPush
      <3>3. \A k \in DOMAIN stack'[t] : k = Depth(t) + 1 \/ k \in DOMAIN stack[t]
        BY <3>2
      <3>4. ASSUME NEW u \in Threads, NEW v \in Threads,
                   NEW k \in DOMAIN stack'[u], NEW l \in DOMAIN stack'[v],
                   stack'[u][k].ctx = stack'[v][l].ctx
            PROVE  u = v /\ (k = l \/ stack'[u][k].ctx \in Reentrant)
        <4>1. (u = t /\ k = Depth(t) + 1) \/ k \in DOMAIN stack[u]
          BY <3>2, <3>3
        <4>2. (v = t /\ l = Depth(t) + 1) \/ l \in DOMAIN stack[v]
          BY <3>2, <3>3
        <4>3. CASE k \in DOMAIN stack[u] /\ l \in DOMAIN stack[v]
          BY <3>2, <3>4, <4>3
        <4>4. CASE u = t /\ k = Depth(t) + 1 /\ l \in DOMAIN stack[v]
          BY <3>1, <3>2, <3>4, <4>4
        <4>5. CASE k \in DOMAIN stack[u] /\ v = t /\ l = Depth(t) + 1
          BY <3>1, <3>2, <3>4, <4>5
        <4> QED
          BY <4>1, <4>2, <4>3, <4>4, <4>5
      <3> QED
        BY <3>4
    <2> QED
      BY <1>2, <1>3, <2>1, <2>2, <2>3 DEF CallsMove
  <1> QED
    BY <1>2, <1>3, StepMoves

-----------------------------------------------------------------------------
(***************************************************************************)
(* The message a callback is given.  The callbacks of a static context     *)
(* must not process it again: the one of the inner call would be given     *)
(* values of the message of the outer one.                                 *)
(***************************************************************************)
NotAgain == Reentrant \cap StaticContexts = {}

\* A frame that decodes, built into a message that is clear, gives its values and
\* no others, and it finds them in the buffer that holds the frame.
LEMMA GoodIsExact ==
    ASSUME NEW c \in Contexts, NEW p \in Payloads, Good(c, p)
    PROVE  BuiltInto(Clear, c, p) = Exactly(p) /\ Found(Exactly(p), p) = Exactly(p)
  <1>1. DOMAIN p = 1 .. Len(p) /\ Len(p) \in 1 .. Width
    BY ContextAssumption
  <1>2. Stored(c, p) = DOMAIN p
    <2>1. Width \in Nat /\ Capacity \in Nat
      BY ContextAssumption
    <2>2. \A k \in DOMAIN p : \A j \in 1 .. k - 1 : j \in DOMAIN p
      BY <1>1, <2>1
    <2>3. c \in StaticContexts => \A k \in DOMAIN p : k <= Capacity
      BY <1>1, <2>1 DEF Good
    <2> QED
      BY <2>2, <2>3 DEF Good, Stored
  <1>3. BuiltInto(Clear, c, p) = Exactly(p)
    BY <1>2 DEF BuiltInto, Exactly, Clear
  <1>4. \A s \in Slots : Exactly(p)[s] \in Strings => s \in DOMAIN p /\ Exactly(p)[s] = p[s]
    BY ContextAssumption DEF Exactly
  <1>5. Found(Exactly(p), p) = [s \in Slots |-> Exactly(p)[s]]
    BY <1>4 DEF Found
  <1>6. Exactly(p) = [s \in Slots |-> Exactly(p)[s]]
    BY DEF Exactly
  <1> QED
    BY <1>3, <1>5, <1>6

\* No call comes into a message callback or out of it.
Quiet(t) ==
    \/ UNCHANGED stack
    \/ stack[t] # <<>> /\ Pop(t) /\ Top(t).pc # "message"
    \/ /\ stack[t] # <<>> /\ Top(t).pc # "message"
       /\ \E call \in Call : Set(t, call) /\ call.pc # "message"
    \/ \E call \in Call : Push(t, call) /\ call.pc # "message"

LEMMA QuietKeeps ==
    ASSUME StacksOK, NEW t \in Threads, Quiet(t)
    PROVE  /\ \A u \in Threads : \A k \in DOMAIN stack'[u] :
                stack'[u][k].pc = "message" => k \in DOMAIN stack[u] /\ stack'[u][k] = stack[u][k]
           /\ \A u \in Threads : \A k \in DOMAIN stack[u] :
                stack[u][k].pc = "message" => k \in DOMAIN stack'[u] /\ stack'[u][k] = stack[u][k]
  <1> DEFINE Kept ==
        /\ \A u \in Threads : \A k \in DOMAIN stack'[u] :
             stack'[u][k].pc = "message" => k \in DOMAIN stack[u] /\ stack'[u][k] = stack[u][k]
        /\ \A u \in Threads : \A k \in DOMAIN stack[u] :
             stack[u][k].pc = "message" => k \in DOMAIN stack'[u] /\ stack'[u][k] = stack[u][k]
  <1>1. CASE UNCHANGED stack
    BY <1>1
  <1>2. CASE stack[t] # <<>> /\ Pop(t) /\ Top(t).pc # "message"
    <2>1. /\ Depth(t) \in Nat \ {0} /\ DOMAIN stack[t] = 1 .. Depth(t)
          /\ DOMAIN stack'[t] = 1 .. Depth(t) - 1
          /\ \A u \in Threads : u # t => DOMAIN stack'[u] = DOMAIN stack[u]
          /\ \A u \in Threads : \A k \in DOMAIN stack'[u] : stack'[u][k] = stack[u][k]
      BY <1>2, CallsAfterPop
    <2>2. \A k \in DOMAIN stack[t] : k = Depth(t) \/ k \in DOMAIN stack'[t]
      BY <2>1
    <2>3. \A k \in DOMAIN stack'[t] : k \in DOMAIN stack[t]
      BY <2>1
    <2>4. stack[t][Depth(t)].pc # "message"
      BY <1>2 DEF Top
    <2> QED
      BY <2>1, <2>2, <2>3, <2>4
  <1>3. ASSUME stack[t] # <<>>, Top(t).pc # "message", NEW call \in Call, Set(t, call), call.pc # "message"
        PROVE  Kept
    <2>1. \A u \in Threads :
             /\ DOMAIN stack'[u] = DOMAIN stack[u]
             /\ \A k \in DOMAIN stack[u] :
                  stack'[u][k] = IF u = t /\ k = Depth(t) THEN call ELSE stack[u][k]
      BY <1>3, CallsAfterSet
    <2>2. stack[t][Depth(t)].pc # "message"
      BY <1>3 DEF Top
    <2> QED
      BY <1>3, <2>1, <2>2
  <1>4. ASSUME NEW call \in Call, Push(t, call), call.pc # "message" PROVE Kept
    <2>1. /\ Depth(t) \in Nat /\ DOMAIN stack[t] = 1 .. Depth(t)
          /\ DOMAIN stack'[t] = 1 .. Depth(t) + 1 /\ stack'[t][Depth(t) + 1] = call
          /\ \A u \in Threads : u # t => DOMAIN stack'[u] = DOMAIN stack[u]
          /\ \A u \in Threads : \A k \in DOMAIN stack[u] : stack'[u][k] = stack[u][k]
      BY <1>4, CallsAfterPush
    <2>2. \A k \in DOMAIN stack'[t] : k = Depth(t) + 1 \/ k \in DOMAIN stack[t]
      BY <2>1
    <2>3. \A k \in DOMAIN stack[t] : k \in DOMAIN stack'[t]
      BY <2>1
    <2> QED
      BY <1>4, <2>1, <2>2, <2>3
  <1> QED
    BY <1>1, <1>2, <1>3, <1>4 DEF Quiet

\* Every step but those three.
LEMMA QuietSteps ==
    ASSUME CallsInv, [Next]_vars
    PROVE  \/ UNCHANGED vars
           \/ \E t \in Threads : UNCHANGED <<messages, done>> /\ Quiet(t)
           \/ \E t \in Threads : UNCHANGED arrays /\ Quiet(t) /\ (Nothing(t) \/ DecoderError(t))
           \/ \E t \in Threads : FrameStatic(t) \/ FrameHeap(t) \/ MessageReturns(t)
  <1>1. ASSUME NEW t \in Threads, NEW c \in Contexts, Open(t, c) \/ Close(t, c)
        PROVE  UNCHANGED <<messages, done>> /\ Quiet(t)
    BY <1>1 DEF Open, Close, messages, progress, Quiet
  <1>2. ASSUME NEW t \in Threads, NEW c \in Contexts, NEW pc \in {"wait", "read"}, Enter(t, c, pc)
        PROVE  UNCHANGED <<messages, done>> /\ Quiet(t)
    <2> DEFINE call == [ctx |-> c, pc |-> pc, rbytes |-> 0, i |-> 0, payload |-> <<>>, msg |-> Clear,
                     at |-> 0]
    <2>1. call \in Call /\ call.pc # "message"
      BY MessageTypes, ContextAssumption DEF Call, Messages
    <2>2. Push(t, call) /\ UNCHANGED <<messages, done>>
      BY <1>2 DEF Enter, progress
    <2> QED
      BY <2>1, <2>2 DEF Quiet
  <1>3. ASSUME NEW t \in Threads, Wait(t) \/ Read(t) \/ ReadNothing(t) \/ ChunkDone(t)
        PROVE  UNCHANGED <<messages, done>> /\ Quiet(t)
    <2>1. stack[t] # <<>> /\ Top(t) \in Call /\ Top(t).pc # "message"
      BY <1>3, TopCall DEF CallsInv, Wait, Read, ReadNothing, ChunkDone, In
    <2>2. UNCHANGED <<messages, done>>
      BY <1>3 DEF Wait, Read, ReadNothing, ChunkDone, progress
    <2>3. CASE Pop(t)
      BY <2>1, <2>2, <2>3 DEF Quiet
    <2>4. CASE Set(t, [Top(t) EXCEPT !.pc = "read"])
      <3>1. [Top(t) EXCEPT !.pc = "read"] \in Call /\ [Top(t) EXCEPT !.pc = "read"].pc # "message"
        BY <2>1 DEF Call
      <3> QED
        BY <2>1, <2>2, <2>4, <3>1 DEF Quiet
    <2>5. ASSUME NEW n \in 0 .. CHUNK_SIZE, NEW pc \in {"read", "loop"}, Set(t, Moved(Top(t), pc, n, 0))
          PROVE  UNCHANGED <<messages, done>> /\ Quiet(t)
      <3>1. 0 \in 0 .. CHUNK_SIZE
        BY ContextAssumption
      <3>2. Moved(Top(t), pc, n, 0) \in Call /\ Moved(Top(t), pc, n, 0).pc # "message"
        BY <2>1, <3>1, CallTypes
      <3> QED
        BY <2>1, <2>2, <2>5, <3>2 DEF Quiet
    <2>6. 0 \in 0 .. CHUNK_SIZE /\ \A n \in 1 .. CHUNK_SIZE : n \in 0 .. CHUNK_SIZE
      BY ContextAssumption
    <2>7. Read(t) \/ ChunkDone(t) =>
            \E n \in 0 .. CHUNK_SIZE, pc \in {"read", "loop"} : Set(t, Moved(Top(t), pc, n, 0))
      BY <2>6 DEF Read, ChunkDone, Moved
    <2> QED
      BY <1>3, <2>3, <2>4, <2>5, <2>7 DEF Wait, ReadNothing
  <1>4. ASSUME NEW t \in Threads, Nothing(t) \/ DecoderError(t) PROVE UNCHANGED arrays /\ Quiet(t)
    <2>1. stack[t] # <<>> /\ Top(t) \in Call /\ Top(t).pc # "message" /\ Byte(t).payload \in Payloads \cup {<<>>}
      BY <1>4, DecodeTop
    <2>2. UNCHANGED arrays
      BY <1>4 DEF Nothing, DecoderError, arrays, messages, heap
    <2>3. CASE Nothing(t)
      <3>1. Top(t).i < Top(t).rbytes /\ In(t, "loop")
        BY <2>3 DEF Nothing, Decode, AtByte
      <3>2. Top(t).i + 1 \in 0 .. CHUNK_SIZE
        BY <3>1, ChunkByte
      <3>3. [Top(t) EXCEPT !.i = @ + 1] \in Call /\ [Top(t) EXCEPT !.i = @ + 1].pc # "message"
        BY <2>1, <3>2 DEF Call
      <3> QED
        BY <2>1, <2>2, <2>3, <3>3 DEF Nothing, Quiet
    <2>4. CASE DecoderError(t)
      <3>1. Clear \in Messages /\ "error" \in Callback /\ "error" # "message"
        BY MessageTypes DEF Callback
      <3> DEFINE n == done[Top(t).ctx] + 1
                 call == Calling(Top(t), "error", Byte(t).payload, Clear, n)
      <3>4. n \in Nat
        BY <1>4, DecodeTop
      <3>3. Set(t, call)
        BY <2>4 DEF DecoderError, InCallback, Calling
      <3> HIDE DEF n
      <3>2. call \in Call /\ call.pc # "message"
        BY <2>1, <3>1, <3>4, CallingTypes
      <3> QED
        BY <2>1, <2>2, <3>2, <3>3 DEF Quiet
    <2> QED
      BY <1>4, <2>3, <2>4
  <1>5. ASSUME NEW t \in Threads, ErrorReturns(t) PROVE UNCHANGED <<messages, done>> /\ Quiet(t)
    <2>1. stack[t] # <<>> /\ Top(t) \in Call /\ CallOK(Top(t)) /\ Top(t).pc \in Callback /\ Top(t).pc # "message"
      BY <1>5, TopCall DEF ErrorReturns, CallsInv, In, Callback
    <2>2. Top(t).i + 1 \in 0 .. CHUNK_SIZE
      BY <2>1, ContextAssumption DEF Call, CallOK
    <2>3. AfterCallback(t) \in Call /\ AfterCallback(t).pc # "message"
      BY <2>1, <2>2, AfterTypes
    <2>4. Set(t, AfterCallback(t)) /\ UNCHANGED <<messages, done>>
      BY <1>5 DEF ErrorReturns, progress
    <2> QED
      BY <2>1, <2>3, <2>4 DEF Quiet
  <1> QED
    BY <1>1, <1>2, <1>3, <1>4, <1>5 DEF Next, Library, CallbackReturns, ProcessFd, WaitAndProcess

\* The top call is the only one of a static context.
LEMMA StaticAlone ==
    ASSUME NotAgain, StacksOK, UseInv, NEW t \in Threads, stack[t] # <<>>, Top(t).ctx \in StaticContexts
    PROVE  \A u \in Threads : \A k \in DOMAIN stack[u] :
             stack[u][k].ctx = Top(t).ctx => u = t /\ k = Depth(t)
  <1>1. Depth(t) \in DOMAIN stack[t] /\ Top(t) = stack[t][Depth(t)] /\ Top(t).ctx \notin Reentrant
    BY TopCall DEF NotAgain
  <1> QED
    BY <1>1 DEF UseInv

LEMMA MessageFrameStatic ==
    ASSUME NotAgain, CallsInv, UseInv, MessageInv, NEW t \in Threads, FrameStatic(t)
    PROVE  MessageInv'
  <1> DEFINE c == Top(t).ctx
             p == Byte(t).payload
             msg == BuiltInto(msg_rx[c], c, p)
  <1>1. Decode(t) /\ Byte(t).kind = "frame" /\ c \in StaticContexts /\ c \in Contexts /\ p \in Payloads
        /\ Top(t) \in Call /\ stack[t] # <<>> /\ StacksOK /\ Top(t).pc = "loop"
    BY DecodeTop DEF FrameStatic, Frame, Bytes
  <1>2. msg_rx[c] \in Messages /\ msg \in Messages /\ Clear \in Messages /\ Found(msg, p) \in Messages
    BY <1>1, MessageTypes DEF CallsInv
  <1>3. PICK call \in Call :
          /\ Set(t, call) /\ call.ctx = c
          /\ call.pc = "message" => Good(c, p) /\ call.payload = p /\ call.msg = Found(msg, p) /\ UNCHANGED soiled
          /\ call.pc # "message" => soiled' = [soiled EXCEPT ![c] = "yes"]
    <2> DEFINE n == done[c] + 1
               Cl(pc, m) == Calling(Top(t), pc, p, m, n)
    <2>3. n \in Nat /\ p \in Payloads \cup {<<>>}
      BY <1>1, DecodeTop
    <2>2. \/ Good(c, p) /\ Set(t, Cl("message", Found(msg, p))) /\ UNCHANGED soiled
          \/ Set(t, Cl("error", Clear)) /\ soiled' = [soiled EXCEPT ![c] = "yes"]
      BY DEF FrameStatic, InCallback, Calling
    <2> HIDE DEF n, msg, c, p
    <2>1. \A pc \in Callback, m \in Messages :
            /\ Cl(pc, m) \in Call /\ Cl(pc, m).ctx = c /\ Cl(pc, m).pc = pc
            /\ Cl(pc, m).payload = p /\ Cl(pc, m).msg = m
      BY <1>1, <2>3, CallingTypes DEF c
    <2> HIDE DEF Cl
    <2> QED
      BY <1>2, <2>1, <2>2 DEF Callback
  <1>4. msg_rx' = [msg_rx EXCEPT ![c] = msg]
    BY DEF FrameStatic
  <1>5. \A u \in Threads : \A k \in DOMAIN stack[u] : stack[u][k].ctx = c => u = t /\ k = Depth(t)
    BY <1>1, StaticAlone
  <1>6. \A u \in Threads :
          /\ DOMAIN stack'[u] = DOMAIN stack[u]
          /\ \A k \in DOMAIN stack[u] :
                stack'[u][k] = IF u = t /\ k = Depth(t) THEN call ELSE stack[u][k]
    BY <1>1, <1>3, CallsAfterSet
  <1>7. Depth(t) \in DOMAIN stack[t] /\ stack[t][Depth(t)] = Top(t)
    BY <1>1, TopCall
  <1>8. soiled[c] = "no" => msg_rx[c] = Clear
    BY <1>1, <1>5, <1>7 DEF MessageInv
  <1>9. call.pc = "message" /\ soiled[c] = "no" => call.msg = Exactly(call.payload)
    BY <1>1, <1>3, <1>8, GoodIsExact
  <1>10. msg_rx \in [Contexts -> Messages] /\ soiled \in [Contexts -> {"yes", "no"}]
    BY DEF CallsInv
  <1> HIDE DEF c, p, msg
  <1>11. /\ msg_rx'[c] = msg /\ \A d \in Contexts : d # c => msg_rx'[d] = msg_rx[d] /\ soiled'[d] = soiled[d]
         /\ call.pc = "message" => soiled'[c] = soiled[c]
         /\ call.pc # "message" => soiled'[c] = "yes"
    BY <1>1, <1>3, <1>4, <1>10
  <1>12. ASSUME NEW d \in StaticContexts, soiled'[d] = "no",
                \A u \in Threads : \A k \in DOMAIN stack'[u] :
                    ~(stack'[u][k].ctx = d /\ stack'[u][k].pc = "message")
         PROVE  msg_rx'[d] = Clear
    <2>1. d \in Contexts
      BY ContextAssumption
    <2>2. CASE d = c
      BY <1>3, <1>6, <1>7, <1>11, <1>12, <2>2
    <2>3. CASE d # c
      <3>1. \A u \in Threads : \A k \in DOMAIN stack[u] :
                ~(stack[u][k].ctx = d /\ stack[u][k].pc = "message")
        BY <1>6, <1>7, <1>12, <1>1, <2>3 DEF c
      <3> QED
        BY <1>11, <1>12, <2>1, <2>3, <3>1 DEF MessageInv
    <2> QED
      BY <2>2, <2>3
  <1>13. ASSUME NEW u \in Threads, NEW k \in DOMAIN stack'[u], stack'[u][k].pc = "message"
         PROVE  \/ stack'[u][k].ctx \in StaticContexts /\ soiled'[stack'[u][k].ctx] = "yes"
                \/ stack'[u][k].msg = Exactly(stack'[u][k].payload)
    <2>1. CASE u = t /\ k = Depth(t)
      <3>1. stack'[u][k] = call
        BY <1>6, <1>7, <2>1
      <3>2. soiled[c] \in {"yes", "no"}
        BY <1>1, <1>10
      <3> QED
        BY <1>1, <1>3, <1>9, <1>11, <1>13, <3>1, <3>2
    <2>2. CASE ~(u = t /\ k = Depth(t))
      <3>1. k \in DOMAIN stack[u] /\ stack'[u][k] = stack[u][k] /\ stack[u][k].ctx # c
        BY <1>5, <1>6, <2>2
      <3>2. stack[u][k].ctx \in StaticContexts => stack[u][k].ctx \in Contexts
        BY ContextAssumption
      <3>3. \/ stack[u][k].ctx \in StaticContexts /\ soiled[stack[u][k].ctx] = "yes"
            \/ stack[u][k].msg = Exactly(stack[u][k].payload)
        BY <1>13, <3>1 DEF MessageInv
      <3> QED
        BY <1>11, <3>1, <3>2, <3>3
    <2> QED
      BY <2>1, <2>2
  <1> QED
    BY <1>12, <1>13 DEF MessageInv, Exactly

LEMMA MessageFrameHeap ==
    ASSUME CallsInv, MessageInv, NEW t \in Threads, FrameHeap(t)
    PROVE  MessageInv'
  <1> DEFINE c == Top(t).ctx
             p == Byte(t).payload
             msg == Found(BuiltInto(Clear, c, p), p)
  <1>1. Byte(t).kind = "frame" /\ c \notin StaticContexts /\ c \in Contexts /\ p \in Payloads
        /\ Top(t) \in Call /\ stack[t] # <<>> /\ StacksOK /\ Top(t).pc = "loop"
    BY DecodeTop DEF FrameHeap, Frame, Bytes
  <1>2. msg \in Messages /\ Clear \in Messages
    BY <1>1, MessageTypes
  <1>3. PICK call \in Call :
          Set(t, call) /\ call.ctx = c /\ (call.pc = "message" => call.msg = Exactly(call.payload))
    <2> DEFINE n == done[c] + 1
               Cl(pc, m) == Calling(Top(t), pc, p, m, n)
    <2>4. n \in Nat /\ p \in Payloads \cup {<<>>}
      BY <1>1, DecodeTop
    <2>2. \/ Good(c, p) /\ Set(t, Cl("message", msg))
          \/ Set(t, Cl("error", Clear))
      BY DEF FrameHeap, InCallback, Calling
    <2>3. Good(c, p) => msg = Exactly(p)
      BY <1>1, GoodIsExact
    <2> HIDE DEF n, msg, c, p
    <2>1. \A pc \in Callback, m \in Messages :
            /\ Cl(pc, m) \in Call /\ Cl(pc, m).ctx = c /\ Cl(pc, m).pc = pc
            /\ Cl(pc, m).payload = p /\ Cl(pc, m).msg = m
      BY <1>1, <2>4, CallingTypes DEF c
    <2> HIDE DEF Cl
    <2> QED
      BY <1>2, <2>1, <2>2, <2>3 DEF Callback
  <1>4. UNCHANGED <<msg_rx, soiled>>
    BY DEF FrameHeap
  <1>5. \A u \in Threads :
          /\ DOMAIN stack'[u] = DOMAIN stack[u]
          /\ \A k \in DOMAIN stack[u] :
                stack'[u][k] = IF u = t /\ k = Depth(t) THEN call ELSE stack[u][k]
    BY <1>1, <1>3, CallsAfterSet
  <1>6. Depth(t) \in DOMAIN stack[t] /\ stack[t][Depth(t)] = Top(t)
    BY <1>1, TopCall
  <1> HIDE DEF c, p, msg
  <1>7. ASSUME NEW d \in StaticContexts, soiled'[d] = "no",
               \A u \in Threads : \A k \in DOMAIN stack'[u] :
                   ~(stack'[u][k].ctx = d /\ stack'[u][k].pc = "message")
        PROVE  msg_rx'[d] = Clear
    <2>1. \A u \in Threads : \A k \in DOMAIN stack[u] :
             ~(stack[u][k].ctx = d /\ stack[u][k].pc = "message")
      BY <1>1, <1>5, <1>6, <1>7
    <2> QED
      BY <1>4, <1>7, <2>1 DEF MessageInv
  <1>8. ASSUME NEW u \in Threads, NEW k \in DOMAIN stack'[u], stack'[u][k].pc = "message"
        PROVE  \/ stack'[u][k].ctx \in StaticContexts /\ soiled'[stack'[u][k].ctx] = "yes"
               \/ stack'[u][k].msg = Exactly(stack'[u][k].payload)
    <2>1. CASE u = t /\ k = Depth(t)
      BY <1>1, <1>3, <1>5, <1>6, <1>8, <2>1
    <2>2. CASE ~(u = t /\ k = Depth(t))
      BY <1>4, <1>5, <1>8, <2>2 DEF MessageInv
    <2> QED
      BY <2>1, <2>2
  <1> QED
    BY <1>7, <1>8 DEF MessageInv, Exactly

LEMMA MessageReturnsStep ==
    ASSUME NotAgain, CallsInv, UseInv, MessageInv, NEW t \in Threads, MessageReturns(t)
    PROVE  MessageInv'
  <1> DEFINE c == Top(t).ctx
             call == AfterCallback(t)
  <1>1. /\ Top(t) \in Call /\ stack[t] # <<>> /\ StacksOK /\ c \in Contexts
        /\ Top(t).i + 1 \in 0 .. CHUNK_SIZE
    <2>1. Top(t) \in Call /\ stack[t] # <<>> /\ StacksOK /\ CallOK(Top(t)) /\ Top(t).pc \in Callback
      BY TopCall DEF MessageReturns, In, CallsInv, Callback
    <2> QED
      BY <2>1, ContextAssumption DEF Call, CallOK
  <1>2. call \in Call /\ call.ctx = c /\ call.pc = "loop"
    BY <1>1, AfterTypes
  <1>3. Set(t, call)
    BY DEF MessageReturns
  <1>4. \A u \in Threads :
          /\ DOMAIN stack'[u] = DOMAIN stack[u]
          /\ \A k \in DOMAIN stack[u] :
                stack'[u][k] = IF u = t /\ k = Depth(t) THEN call ELSE stack[u][k]
    BY <1>1, <1>2, <1>3, CallsAfterSet
  <1>5. Depth(t) \in DOMAIN stack[t] /\ stack[t][Depth(t)] = Top(t)
    BY <1>1, TopCall
  <1>6. msg_rx \in [Contexts -> Messages] /\ soiled \in [Contexts -> {"yes", "no"}]
    BY DEF CallsInv
  <1>7. c \in StaticContexts => \A u \in Threads : \A k \in DOMAIN stack[u] :
                                   stack[u][k].ctx = c => u = t /\ k = Depth(t)
    BY <1>1, StaticAlone
  <1>8. \/ /\ c \in StaticContexts
           /\ msg_rx' = [msg_rx EXCEPT ![c] = Clear] /\ soiled' = [soiled EXCEPT ![c] = "no"]
        \/ c \notin StaticContexts /\ UNCHANGED <<msg_rx, soiled>>
    BY DEF MessageReturns
  <1> HIDE DEF c, call
  <1>9. \A d \in Contexts : d # c => msg_rx'[d] = msg_rx[d] /\ soiled'[d] = soiled[d]
    BY <1>6, <1>8
  <1>10. c \in StaticContexts => msg_rx'[c] = Clear
    BY <1>1, <1>6, <1>8
  <1>11. ASSUME NEW d \in StaticContexts, soiled'[d] = "no",
                \A u \in Threads : \A k \in DOMAIN stack'[u] :
                    ~(stack'[u][k].ctx = d /\ stack'[u][k].pc = "message")
         PROVE  msg_rx'[d] = Clear
    <2>1. CASE d = c
      BY <1>10, <2>1
    <2>2. CASE d # c
      <3>1. d \in Contexts
        BY ContextAssumption
      <3>2. \A u \in Threads : \A k \in DOMAIN stack[u] :
              ~(stack[u][k].ctx = d /\ stack[u][k].pc = "message")
        BY <1>4, <1>5, <1>11, <2>2 DEF c
      <3> QED
        BY <1>9, <1>11, <2>2, <3>1, <3>2 DEF MessageInv
    <2> QED
      BY <2>1, <2>2
  <1>12. ASSUME NEW u \in Threads, NEW k \in DOMAIN stack'[u], stack'[u][k].pc = "message"
         PROVE  \/ stack'[u][k].ctx \in StaticContexts /\ soiled'[stack'[u][k].ctx] = "yes"
                \/ stack'[u][k].msg = Exactly(stack'[u][k].payload)
    <2>1. ~(u = t /\ k = Depth(t)) /\ k \in DOMAIN stack[u] /\ stack'[u][k] = stack[u][k]
      BY <1>2, <1>4, <1>5, <1>12
    <2>2. stack[u][k].ctx \in StaticContexts => stack[u][k].ctx \in Contexts /\ stack[u][k].ctx # c
      BY <1>7, <2>1, ContextAssumption
    <2>3. \/ stack[u][k].ctx \in StaticContexts /\ soiled[stack[u][k].ctx] = "yes"
          \/ stack[u][k].msg = Exactly(stack[u][k].payload)
      BY <1>12, <2>1 DEF MessageInv
    <2> QED
      BY <1>9, <2>1, <2>2, <2>3
  <1> QED
    BY <1>11, <1>12 DEF MessageInv, Exactly

LEMMA MessageStep ==
    ASSUME NotAgain, CallsInv, UseInv, MessageInv, [Next]_vars PROVE MessageInv'
  <1>1. StacksOK
    BY DEF CallsInv
  <1>2. CASE UNCHANGED vars
    BY <1>2 DEF vars, messages, MessageInv, Exactly
  <1>3. ASSUME NEW t \in Threads, UNCHANGED <<msg_rx, soiled>>, Quiet(t) PROVE MessageInv'
    BY <1>1, <1>3, QuietKeeps DEF MessageInv, Exactly
  <1> QED
    BY <1>2, <1>3, QuietSteps, MessageFrameStatic, MessageFrameHeap, MessageReturnsStep DEF messages, arrays

LEMMA MessageInit == Init => MessageInv
  BY ContextAssumption DEF Init, MessageInv

(***************************************************************************)
(* A message has values of another frame only in a static context, and     *)
(* only after a build that failed, when callbacks do not process their own *)
(* static context.                                                         *)
(***************************************************************************)
THEOREM StaleAfterErrorOnly == ASSUME NotAgain PROVE Spec => []StaleOnlyAfterError
  <1>1. MessageInv => StaleOnlyAfterError
    BY DEF MessageInv, StaleOnlyAfterError, InMessage, CallAt
  <1>2. CallsInv /\ UseInv /\ MessageInv /\ [Next]_vars => (CallsInv /\ UseInv /\ MessageInv)'
    BY CallsStep, UseStep, MessageStep
  <1> QED
    BY <1>1, <1>2, CallsInit, UseInit, MessageInit, PTL DEF Spec

-----------------------------------------------------------------------------
(* How long a message lasts *)

\* What the callback of a call finds in its message after a step.
FoundThen(call) ==
    Found(IF call.ctx \in StaticContexts THEN msg_rx'[call.ctx] ELSE call.msg, buf'[call.ctx])

\* What a byte does to the calls, and to the message and the buffer of its context.
LEMMA DecodeCall ==
    ASSUME CallsInv, NEW t \in Threads, Nothing(t) \/ DecoderError(t) \/ FrameStatic(t) \/ FrameHeap(t)
    PROVE  LET c == Top(t).ctx IN
           /\ \E call \in Call :
                /\ Set(t, call) /\ call.ctx = c
                /\ call.pc = "message" => call.at = done[c] + 1 /\ FoundThen(call) = call.msg
           /\ done'[c] = done[c] + 1
           /\ \A d \in Contexts \ {c} :
                done'[d] = done[d] /\ msg_rx'[d] = msg_rx[d] /\ buf'[d] = buf[d]
  <1> DEFINE c == Top(t).ctx
             p == Byte(t).payload
             n == done[c] + 1
             Cl(pc, m) == Calling(Top(t), pc, p, m, n)
             In2(call) == /\ Set(t, call) /\ call.ctx = c
                          /\ call.pc = "message" => call.at = n /\ FoundThen(call) = call.msg
  <1>1. /\ Top(t) \in Call /\ c \in Contexts /\ Decode(t) /\ n \in Nat /\ p \in Payloads \cup {<<>>}
        /\ Top(t).i + 1 \in 0 .. CHUNK_SIZE /\ Top(t).pc = "loop"
        /\ Byte(t).kind = "frame" => p \in Payloads
    BY DecodeTop DEF Bytes
  <1>2. /\ done \in [Contexts -> Nat] /\ msg_rx \in [Contexts -> Messages]
        /\ buf \in [Contexts -> Payloads \cup {<<>>}]
    BY DEF CallsInv
  <1>3. done'[c] = n /\ \A d \in Contexts \ {c} : done'[d] = done[d]
    BY <1>1, <1>2 DEF Decode
  <1>4. \A d \in Contexts \ {c} : msg_rx'[d] = msg_rx[d] /\ buf'[d] = buf[d]
    <2>1. \/ msg_rx' = msg_rx
          \/ \E m : msg_rx' = [msg_rx EXCEPT ![c] = m]
      BY DEF Nothing, DecoderError, FrameStatic, FrameHeap, messages
    <2>2. buf' = buf \/ \E b : buf' = [buf EXCEPT ![c] = b]
      BY DEF Nothing, DecoderError, FrameStatic, FrameHeap, Frame, messages
    <2> QED
      BY <1>2, <2>1, <2>2
  <1>5. ASSUME NEW pc \in Callback, NEW m \in Messages
        PROVE  /\ Cl(pc, m) \in Call /\ Cl(pc, m).ctx = c /\ Cl(pc, m).pc = pc /\ Cl(pc, m).msg = m
               /\ Cl(pc, m).at = n
    <2> HIDE DEF n, p
    <2> QED
      BY <1>1, CallingTypes
  <1>6. "error" \in Callback /\ "message" \in Callback /\ Clear \in Messages
    BY MessageTypes DEF Callback
  <1>7. CASE Nothing(t)
    <2>1. /\ [Top(t) EXCEPT !.i = @ + 1] \in Call /\ [Top(t) EXCEPT !.i = @ + 1].pc = "loop"
          /\ [Top(t) EXCEPT !.i = @ + 1].ctx = c
      BY <1>1 DEF Call
    <2>2. Set(t, [Top(t) EXCEPT !.i = @ + 1])
      BY <1>7 DEF Nothing
    <2>3. In2([Top(t) EXCEPT !.i = @ + 1])
      BY <2>1, <2>2
    <2>4. \E call \in Call : In2(call)
      BY <2>1, <2>3
    <2> QED
      BY <1>3, <1>4, <2>4
  <1>8. ASSUME Set(t, Cl("error", Clear)) PROVE \E call \in Call : In2(call)
    <2>1. In2(Cl("error", Clear)) /\ Cl("error", Clear) \in Call
      BY <1>5, <1>6, <1>8
    <2> HIDE DEF In2, Cl
    <2> QED
      BY <2>1
  <1>9. ASSUME NEW m \in Messages, Set(t, Cl("message", m)), FoundThen(Cl("message", m)) = m
        PROVE  \E call \in Call : In2(call)
    <2>1. In2(Cl("message", m)) /\ Cl("message", m) \in Call
      BY <1>5, <1>6, <1>9
    <2> HIDE DEF In2, Cl
    <2> QED
      BY <2>1
  <1>10. CASE DecoderError(t)
    <2>1. Set(t, Cl("error", Clear))
      BY <1>10 DEF DecoderError, InCallback, Calling
    <2> QED
      BY <1>3, <1>4, <1>8, <2>1
  <1>11. CASE FrameStatic(t)
    <2> DEFINE m == BuiltInto(msg_rx[c], c, p)
    <2>1. /\ c \in StaticContexts /\ p \in Payloads
          /\ msg_rx' = [msg_rx EXCEPT ![c] = m] /\ buf' = [buf EXCEPT ![c] = p]
          /\ Set(t, Cl("message", Found(m, p))) \/ Set(t, Cl("error", Clear))
      BY <1>1, <1>11 DEF FrameStatic, Frame, InCallback, Calling
    <2>2. Found(m, p) \in Messages
      BY <1>1, <1>2, <2>1, MessageTypes
    <2>3. msg_rx'[c] = m /\ buf'[c] = p
      BY <1>1, <1>2, <2>1
    <2>4. Cl("message", Found(m, p)).ctx = c
      BY <1>5, <1>6, <2>2
    <2>5. FoundThen(Cl("message", Found(m, p))) = Found(m, p)
      <3> HIDE DEF Cl, m, p
      <3>1. ASSUME NEW call, call.ctx = c PROVE FoundThen(call) = Found(m, p)
        BY <2>1, <2>3, <3>1 DEF FoundThen
      <3> QED
        BY <2>4, <3>1
    <2> QED
      BY <1>3, <1>4, <1>8, <1>9, <2>1, <2>2, <2>5
  <1>12. CASE FrameHeap(t)
    <2> DEFINE m == Found(BuiltInto(Clear, c, p), p)
    <2>1. /\ c \notin StaticContexts /\ p \in Payloads /\ buf' = [buf EXCEPT ![c] = p]
          /\ \/ Good(c, p) /\ Set(t, Cl("message", m))
             \/ Set(t, Cl("error", Clear))
      BY <1>1, <1>12 DEF FrameHeap, Frame, InCallback, Calling
    <2>2. m \in Messages
      BY <1>1, <2>1, MessageTypes
    <2>3. buf'[c] = p
      BY <1>1, <1>2, <2>1
    <2>4. Cl("message", m).ctx = c /\ Cl("message", m).msg = m
      BY <1>5, <1>6, <2>2
    <2>5. Good(c, p) => Found(m, p) = m
      BY <1>1, <2>1, GoodIsExact
    <2>6. Good(c, p) => FoundThen(Cl("message", m)) = m
      <3> HIDE DEF Cl, m, p
      <3>1. ASSUME NEW call, call.ctx = c, call.msg = m PROVE FoundThen(call) = Found(m, p)
        BY <2>1, <2>3, <3>1 DEF FoundThen
      <3> QED
        BY <2>4, <2>5, <3>1
    <2> QED
      BY <1>3, <1>4, <1>8, <1>9, <2>1, <2>2, <2>6
  <1> QED
    BY <1>7, <1>10, <1>11, <1>12

\* A byte for the decoder of a context.
LEMMA IntactDecode ==
    ASSUME CallsInv, UseInv, IntactInv, NEW t \in Threads,
           Nothing(t) \/ DecoderError(t) \/ FrameStatic(t) \/ FrameHeap(t)
    PROVE  IntactInv'
  <1> DEFINE c == Top(t).ctx
  <1>1. /\ StacksOK /\ stack[t] # <<>> /\ c \in Contexts
        /\ Depth(t) \in Nat /\ DOMAIN stack[t] = 1 .. Depth(t)
        /\ Depth(t) \in DOMAIN stack[t] /\ stack[t][Depth(t)] = Top(t)
    BY DecodeTop, TopCall
  <1>2. PICK new \in Call :
          /\ Set(t, new) /\ new.ctx = c
          /\ new.pc = "message" => new.at = done[c] + 1 /\ FoundThen(new) = new.msg
    BY DecodeCall
  <1>3. /\ done'[c] = done[c] + 1 /\ done[c] \in Nat
        /\ \A d \in Contexts \ {c} : done'[d] = done[d] /\ msg_rx'[d] = msg_rx[d] /\ buf'[d] = buf[d]
    BY <1>1, DecodeCall DEF CallsInv
  <1>4. \A u \in Threads :
          /\ DOMAIN stack'[u] = DOMAIN stack[u]
          /\ \A k \in DOMAIN stack[u] :
                stack'[u][k] = IF u = t /\ k = Depth(t) THEN new ELSE stack[u][k]
    BY <1>1, <1>2, CallsAfterSet
  <1> HIDE DEF c
  <1>5. ASSUME NEW u \in Threads, NEW k \in DOMAIN stack'[u], stack'[u][k].pc = "message"
        PROVE  LET call == stack'[u][k] IN
               /\ call.at \in Nat /\ call.at <= done'[call.ctx]
               /\ done'[call.ctx] = call.at => FoundThen(call) = call.msg
               /\ call.ctx \notin Reentrant => done'[call.ctx] = call.at
               /\ \A l \in DOMAIN stack'[u] :
                    l > k /\ stack'[u][l].pc = "message" /\ stack'[u][l].ctx = call.ctx
                        => call.at < stack'[u][l].at
    <2>1. CASE u = t /\ k = Depth(t)
      <3>1. stack'[u][k] = new
        BY <1>1, <1>4, <2>1
      <3>2. \A l \in DOMAIN stack'[u] : ~(l > k)
        BY <1>1, <1>4, <2>1
      <3> QED
        BY <1>2, <1>3, <1>5, <3>1, <3>2
    <2>2. CASE ~(u = t /\ k = Depth(t))
      <3> DEFINE call == stack[u][k]
      <3>1. k \in DOMAIN stack[u] /\ stack'[u][k] = call
        BY <1>4, <2>2
      <3>2. /\ call.at \in Nat /\ call.at <= done[call.ctx]
            /\ done[call.ctx] = call.at => FoundNow(call) = call.msg
            /\ call.ctx \notin Reentrant => done[call.ctx] = call.at
            /\ \A l \in DOMAIN stack[u] :
                 l > k /\ stack[u][l].pc = "message" /\ stack[u][l].ctx = call.ctx
                     => call.at < stack[u][l].at
        BY <1>5, <3>1 DEF IntactInv
      <3>6. call \in Call
        BY <1>1, <3>1 DEF StacksOK
      <3>3. call.ctx \in Contexts
        BY <3>6 DEF Call
      <3>4. CASE call.ctx # c
        <4>1. done'[call.ctx] = done[call.ctx] /\ FoundThen(call) = FoundNow(call)
          BY <1>3, <3>3, <3>4 DEF FoundNow, FoundThen
        <4>2. ASSUME NEW l \in DOMAIN stack'[u], l > k, stack'[u][l].pc = "message",
                     stack'[u][l].ctx = call.ctx
              PROVE  call.at < stack'[u][l].at
          <5>1. stack'[u][l] = stack[u][l] /\ l \in DOMAIN stack[u]
            BY <1>2, <1>4, <3>4, <4>2
          <5> QED
            BY <3>2, <4>2, <5>1
        <4> QED
          BY <3>1, <3>2, <4>1, <4>2
      <3>5. CASE call.ctx = c
        <4>1. u = t /\ c \in Reentrant
          BY <1>1, <2>2, <3>1, <3>5 DEF UseInv, c
        <4>2. ASSUME NEW l \in DOMAIN stack'[u], l > k, stack'[u][l].pc = "message",
                     stack'[u][l].ctx = c
              PROVE  call.at < stack'[u][l].at
          <5>1. CASE l = Depth(t)
            <6>1. stack'[u][l] = new
              BY <1>1, <1>4, <4>1, <5>1
            <6> QED
              BY <1>2, <1>3, <3>2, <3>5, <4>2, <6>1
          <5>2. CASE l # Depth(t)
            BY <1>4, <3>2, <3>5, <4>2, <5>2
          <5> QED
            BY <5>1, <5>2
        <4>3. call.at < done'[c]
          BY <1>3, <3>2, <3>5
        <4> QED
          BY <1>3, <3>1, <3>2, <3>5, <4>1, <4>2, <4>3
      <3> QED
        BY <3>4, <3>5
    <2> QED
      BY <2>1, <2>2
  <1> QED
    BY <1>5 DEF IntactInv, FoundNow, FoundThen

\* A callback that returns clears the message of a static context.
LEMMA IntactReturns ==
    ASSUME CallsInv, UseInv, IntactInv, NEW t \in Threads, MessageReturns(t)
    PROVE  IntactInv'
  <1> DEFINE c == Top(t).ctx
             new == AfterCallback(t)
  <1>1. /\ Top(t) \in Call /\ stack[t] # <<>> /\ StacksOK /\ c \in Contexts
        /\ Top(t).pc = "message" /\ Top(t).i + 1 \in 0 .. CHUNK_SIZE
    <2>1. /\ Top(t) \in Call /\ stack[t] # <<>> /\ StacksOK /\ CallOK(Top(t)) /\ Top(t).pc = "message"
          /\ Top(t).pc \in Callback
      BY TopCall DEF MessageReturns, In, CallsInv, Callback
    <2> QED
      BY <2>1, ContextAssumption DEF Call, CallOK
  <1>2. new \in Call /\ new.pc = "loop" /\ Set(t, new)
    BY <1>1, AfterTypes DEF MessageReturns
  <1>3. /\ Depth(t) \in Nat /\ DOMAIN stack[t] = 1 .. Depth(t)
        /\ Depth(t) \in DOMAIN stack[t] /\ stack[t][Depth(t)] = Top(t)
    BY <1>1, TopCall
  <1> HIDE DEF new
  <1>4. \A u \in Threads :
          /\ DOMAIN stack'[u] = DOMAIN stack[u]
          /\ \A k \in DOMAIN stack[u] :
                stack'[u][k] = IF u = t /\ k = Depth(t) THEN new ELSE stack[u][k]
    BY <1>1, <1>2, CallsAfterSet
  <1>5. /\ \A d \in Contexts \ {c} : msg_rx'[d] = msg_rx[d]
        /\ UNCHANGED <<buf, done>>
    BY <1>1 DEF MessageReturns, progress, CallsInv
  <1> HIDE DEF c
  <1>6. ASSUME NEW u \in Threads, NEW k \in DOMAIN stack'[u], stack'[u][k].pc = "message"
        PROVE  LET call == stack'[u][k] IN
               /\ call.at \in Nat /\ call.at <= done'[call.ctx]
               /\ done'[call.ctx] = call.at => FoundThen(call) = call.msg
               /\ call.ctx \notin Reentrant => done'[call.ctx] = call.at
               /\ \A l \in DOMAIN stack'[u] :
                    l > k /\ stack'[u][l].pc = "message" /\ stack'[u][l].ctx = call.ctx
                        => call.at < stack'[u][l].at
    <2> DEFINE call == stack[u][k]
    <2>1. k \in DOMAIN stack[u] /\ stack'[u][k] = call /\ ~(u = t /\ k = Depth(t))
      BY <1>2, <1>3, <1>4, <1>6
    <2>2. /\ call.at \in Nat /\ call.at <= done[call.ctx]
          /\ done[call.ctx] = call.at => FoundNow(call) = call.msg
          /\ call.ctx \notin Reentrant => done[call.ctx] = call.at
          /\ \A l \in DOMAIN stack[u] :
               l > k /\ stack[u][l].pc = "message" /\ stack[u][l].ctx = call.ctx
                   => call.at < stack[u][l].at
      BY <1>6, <2>1 DEF IntactInv
    <2>6. call \in Call
      BY <1>1, <2>1 DEF StacksOK
    <2>3. call.ctx \in Contexts
      BY <2>6 DEF Call
    <2>4. done'[call.ctx] = call.at => FoundThen(call) = call.msg
      <3>1. CASE call.ctx # c
        <4>1. FoundThen(call) = FoundNow(call)
          BY <1>5, <2>3, <3>1 DEF FoundNow, FoundThen
        <4> QED
          BY <1>5, <2>2, <4>1
      <3>2. CASE call.ctx = c
        <4>1. u = t /\ k # Depth(t) /\ k \in 1 .. Depth(t)
          BY <1>3, <2>1, <3>2 DEF UseInv, c
        <4>2. call.at < Top(t).at
          BY <1>1, <1>3, <2>2, <3>2, <4>1 DEF c
        <4>3. Top(t).at \in Nat /\ Top(t).at <= done[c]
          BY <1>1, <1>3 DEF IntactInv, c
        <4>4. done[c] \in Nat /\ c \in Contexts
          BY <1>1 DEF CallsInv, c
        <4> QED
          BY <1>5, <2>2, <3>2, <4>2, <4>3, <4>4
      <3> QED
        BY <3>1, <3>2
    <2>5. ASSUME NEW l \in DOMAIN stack'[u], l > k, stack'[u][l].pc = "message",
                 stack'[u][l].ctx = call.ctx
          PROVE  call.at < stack'[u][l].at
      <3>1. l \in DOMAIN stack[u] /\ stack'[u][l] = stack[u][l]
        BY <1>2, <1>4, <2>5
      <3> QED
        BY <2>2, <2>5, <3>1
    <2> QED
      BY <1>5, <2>1, <2>2, <2>4, <2>5
  <1> QED
    BY <1>6 DEF IntactInv, FoundNow, FoundThen

LEMMA IntactStep ==
    ASSUME CallsInv, UseInv, IntactInv, [Next]_vars PROVE IntactInv'
  <1>1. StacksOK
    BY DEF CallsInv
  <1>2. ASSUME UNCHANGED <<messages, done>>,
               \A u \in Threads : \A k \in DOMAIN stack'[u] :
                   stack'[u][k].pc = "message" => k \in DOMAIN stack[u] /\ stack'[u][k] = stack[u][k]
        PROVE  IntactInv'
    <2>1. \A call : FoundThen(call) = FoundNow(call)
      BY <1>2 DEF FoundNow, FoundThen, messages
    <2> QED
      BY <1>2, <2>1 DEF IntactInv, FoundNow, FoundThen
  <1>3. CASE UNCHANGED vars
    BY <1>2, <1>3 DEF vars, progress
  <1>4. ASSUME NEW t \in Threads, UNCHANGED <<messages, done>>, Quiet(t) PROVE IntactInv'
    BY <1>1, <1>2, <1>4, QuietKeeps
  <1> QED
    BY <1>3, <1>4, QuietSteps, IntactDecode, IntactReturns

(***************************************************************************)
(* Until its context is processed again a message does not change while    *)
(* the callback it was given to runs, and a context its callbacks do not   *)
(* process is not processed meanwhile: with no condition on the constants. *)
(***************************************************************************)
THEOREM MessageStaysIntact == Spec => []MessageIntact
  <1>1. Init => IntactInv
    BY DEF Init, IntactInv
  <1>2. IntactInv => MessageIntact
    BY DEF IntactInv, MessageIntact, InMessage, CallAt
  <1>3. CallsInv /\ UseInv /\ IntactInv /\ [Next]_vars => (CallsInv /\ UseInv /\ IntactInv)'
    BY CallsStep, UseStep, IntactStep
  <1> QED
    BY <1>1, <1>2, <1>3, CallsInit, UseInit, PTL DEF Spec

-----------------------------------------------------------------------------
(* The messages on the heap *)

\* The message callbacks a context is in.
InMessageOf(c) == {k \in InMessage : CallAt(k).ctx = c}

LEMMA InMessageFinite ==
    ASSUME NEW c PROVE IsFiniteSet(InMessageOf(c)) /\ Cardinality(InMessageOf(c)) \in Nat
  <1>1. IsFiniteSet(Threads \X (1 .. MaxDepth))
    <2>1. IsFiniteSet(1 .. MaxDepth) /\ IsFiniteSet(Threads)
      BY FS_Interval, ContextAssumption
    <2> QED
      BY <2>1, FS_Product, Zenon
  <1>2. InMessageOf(c) \subseteq Threads \X (1 .. MaxDepth)
    BY DEF InMessageOf, InMessage
  <1> QED
    BY <1>1, <1>2, FS_Subset, FS_CardinalityType

\* A call in a stack is at one of the places that are counted.
LEMMA CallPlaces ==
    ASSUME StacksOK, NEW t \in Threads, NEW k \in DOMAIN stack[t]
    PROVE  k \in 1 .. MaxDepth
  BY ContextAssumption DEF StacksOK, StackOK

LEMMA QuietAccounted ==
    ASSUME CallsInv, NEW t \in Threads, Quiet(t), NEW c
    PROVE  InMessageOf(c)' = InMessageOf(c)
  <1>1. StacksOK
    BY DEF CallsInv
  <1> QED
    BY <1>1, QuietKeeps DEF InMessageOf, InMessage, CallAt

\* What the top call being set does to the places.
LEMMA SetAccounted ==
    ASSUME StacksOK, NEW t \in Threads, stack[t] # <<>>, NEW call \in Call, Set(t, call),
           call.ctx = Top(t).ctx, NEW c
    PROVE  /\ <<t, Depth(t)>> \in InMessageOf(c) <=> Top(t).ctx = c /\ Top(t).pc = "message"
           /\ InMessageOf(c)' = IF Top(t).ctx = c /\ call.pc = "message"
                                THEN InMessageOf(c) \cup {<<t, Depth(t)>>}
                                ELSE InMessageOf(c) \ {<<t, Depth(t)>>}
  <1>1. Depth(t) \in DOMAIN stack[t] /\ stack[t][Depth(t)] = Top(t)
    BY TopCall
  <1>2. Depth(t) \in 1 .. MaxDepth
    BY <1>1, CallPlaces
  <1>3. \A u \in Threads :
          /\ DOMAIN stack'[u] = DOMAIN stack[u]
          /\ \A k \in DOMAIN stack[u] :
                stack'[u][k] = IF u = t /\ k = Depth(t) THEN call ELSE stack[u][k]
    BY CallsAfterSet
  <1> DEFINE Places == Threads \X (1 .. MaxDepth)
             place == <<t, Depth(t)>>
  <1>4. \A k \in Places : k # place => k[1] # t \/ k[2] # Depth(t)
    OBVIOUS
  <1>5. \A k \in Places : k \in InMessageOf(c) <=> /\ k[2] \in DOMAIN stack[k[1]]
                                                   /\ stack[k[1]][k[2]].pc = "message"
                                                   /\ stack[k[1]][k[2]].ctx = c
    BY DEF InMessageOf, InMessage, CallAt
  <1>6. \A k \in Places : k \in InMessageOf(c)' <=> /\ k[2] \in DOMAIN stack'[k[1]]
                                                    /\ stack'[k[1]][k[2]].pc = "message"
                                                    /\ stack'[k[1]][k[2]].ctx = c
    BY DEF InMessageOf, InMessage, CallAt
  <1>7. place \in Places /\ place[1] = t /\ place[2] = Depth(t)
    BY <1>2
  <1>8. InMessageOf(c) \subseteq Places /\ InMessageOf(c)' \subseteq Places
    BY DEF InMessageOf, InMessage
  <1>9. place \in InMessageOf(c) <=> Top(t).ctx = c /\ Top(t).pc = "message"
    BY <1>1, <1>5, <1>7
  <1>10. place \in InMessageOf(c)' <=> Top(t).ctx = c /\ call.pc = "message"
    BY <1>1, <1>3, <1>6, <1>7
  <1>11. \A k \in Places : k # place => (k \in InMessageOf(c)' <=> k \in InMessageOf(c))
    BY <1>3, <1>4, <1>5, <1>6
  <1> QED
    BY <1>8, <1>9, <1>10, <1>11

Accounted(c) == live[c] = lost[c] + Cardinality(InMessageOf(c))

LEMMA AccountedByContext == MessagesAccounted <=> \A c \in Contexts \ StaticContexts : Accounted(c)
  BY Zenon DEF MessagesAccounted, Accounted, InMessageOf

LEMMA AccountedInit == Init => \A c \in Contexts \ StaticContexts : Accounted(c)
  <1> SUFFICES ASSUME Init, NEW c \in Contexts PROVE Accounted(c)
    OBVIOUS
  <1>1. InMessageOf(c) = {}
    BY DEF Init, InMessageOf, InMessage
  <1> QED
    BY <1>1, FS_EmptySet DEF Init, Accounted

\* A frame of another context, or a call that leaves the callback of another one.
LEMMA AccountedOthers ==
    ASSUME StacksOK, NEW t \in Threads, stack[t] # <<>>, NEW call \in Call, Set(t, call),
           call.ctx = Top(t).ctx, NEW c \in Contexts, c # Top(t).ctx, Accounted(c),
           live'[c] = live[c], lost'[c] = lost[c]
    PROVE  Accounted(c)'
  <1>1. /\ <<t, Depth(t)>> \notin InMessageOf(c)
        /\ InMessageOf(c)' = InMessageOf(c) \ {<<t, Depth(t)>>}
    BY SetAccounted, Zenon
  <1>2. InMessageOf(c)' = InMessageOf(c)
    BY <1>1
  <1> QED
    BY <1>2 DEF Accounted

LEMMA AccountedFrame ==
    ASSUME CallsInv, NEW t \in Threads, FrameStatic(t) \/ FrameHeap(t),
           \A c \in Contexts \ StaticContexts : Accounted(c)
    PROVE  (\A c \in Contexts \ StaticContexts : Accounted(c))'
  <1> DEFINE x == Top(t).ctx
             p == Byte(t).payload
             n == done[x] + 1
             Cl(pc, m) == Calling(Top(t), pc, p, m, n)
             place == <<t, Depth(t)>>
  <1>1. Byte(t).kind = "frame" /\ x \in Contexts /\ p \in Payloads
        /\ Top(t) \in Call /\ stack[t] # <<>> /\ StacksOK /\ Top(t).pc = "loop"
    BY DecodeTop DEF FrameStatic, FrameHeap, Frame, Bytes
  <1>2. \A pc \in Callback, m \in Messages :
          Cl(pc, m) \in Call /\ Cl(pc, m).ctx = x /\ Cl(pc, m).pc = pc
    <2>1. n \in Nat /\ p \in Payloads \cup {<<>>}
      BY <1>1, DecodeTop
    <2> HIDE DEF n, p
    <2> QED
      BY <1>1, <2>1, CallingTypes
  <1>3. live \in [Contexts -> Int] /\ lost \in [Contexts -> Nat] /\ msg_rx[x] \in Messages
    BY <1>1 DEF CallsInv
  <1>4. /\ Found(BuiltInto(msg_rx[x], x, p), p) \in Messages
        /\ Found(BuiltInto(Clear, x, p), p) \in Messages /\ Clear \in Messages
    BY <1>1, <1>3, MessageTypes
  <1>5. "message" \in Callback /\ "error" \in Callback
    BY DEF Callback
  <1>6. \E call \in Call :
          /\ Set(t, call) /\ call.ctx = x
          /\ \/ x \in StaticContexts /\ UNCHANGED <<live, lost>>
             \/ call.pc # "message" /\ UNCHANGED <<live, lost>>
             \/ /\ call.pc # "message" /\ live' = [live EXCEPT ![x] = @ + 1]
                /\ lost' = [lost EXCEPT ![x] = @ + 1]
             \/ call.pc = "message" /\ live' = [live EXCEPT ![x] = @ + 1] /\ UNCHANGED lost
    <2>1. CASE FrameStatic(t)
      <3>1. /\ Set(t, Cl("message", Found(BuiltInto(msg_rx[x], x, p), p))) \/ Set(t, Cl("error", Clear))
            /\ x \in StaticContexts /\ UNCHANGED <<live, lost>>
        BY <2>1 DEF FrameStatic, heap, InCallback, Calling
      <3> HIDE DEF Cl, n, x, p
      <3> QED
        BY <1>2, <1>4, <1>5, <3>1
    <2>2. CASE FrameHeap(t)
      <3>1. \/ Set(t, Cl("error", Clear)) /\ UNCHANGED <<live, lost>>
            \/ /\ Set(t, Cl("error", Clear)) /\ live' = [live EXCEPT ![x] = @ + 1]
               /\ lost' = [lost EXCEPT ![x] = @ + 1]
            \/ /\ Set(t, Cl("message", Found(BuiltInto(Clear, x, p), p)))
               /\ live' = [live EXCEPT ![x] = @ + 1] /\ UNCHANGED lost
        BY <2>2 DEF FrameHeap, heap, InCallback, Calling
      <3> HIDE DEF Cl, n, x, p
      <3>2. Cl("error", Clear) \in Call /\ Cl("error", Clear).ctx = x /\ Cl("error", Clear).pc # "message"
        BY <1>2, <1>4, <1>5
      <3>3. /\ Cl("message", Found(BuiltInto(Clear, x, p), p)) \in Call
            /\ Cl("message", Found(BuiltInto(Clear, x, p), p)).ctx = x
            /\ Cl("message", Found(BuiltInto(Clear, x, p), p)).pc = "message"
        BY <1>2, <1>4, <1>5
      <3> QED
        BY <3>1, <3>2, <3>3, Zenon
    <2> QED
      BY <2>1, <2>2
  <1>7. PICK call \in Call :
          /\ Set(t, call) /\ call.ctx = x
          /\ \/ x \in StaticContexts /\ UNCHANGED <<live, lost>>
             \/ call.pc # "message" /\ UNCHANGED <<live, lost>>
             \/ /\ call.pc # "message" /\ live' = [live EXCEPT ![x] = @ + 1]
                /\ lost' = [lost EXCEPT ![x] = @ + 1]
             \/ call.pc = "message" /\ live' = [live EXCEPT ![x] = @ + 1] /\ UNCHANGED lost
    BY <1>6, Zenon
  <1>8. ASSUME NEW c \in Contexts \ StaticContexts, c # x PROVE Accounted(c)'
    <2>1. live'[c] = live[c] /\ lost'[c] = lost[c]
      BY <1>3, <1>7, <1>8
    <2> QED
      BY <1>1, <1>7, <1>8, <2>1, AccountedOthers
  <1>9. ASSUME NEW c \in Contexts \ StaticContexts, c = x PROVE Accounted(c)'
    <2>1. /\ place \notin InMessageOf(c)
          /\ InMessageOf(c)' = IF call.pc = "message" THEN InMessageOf(c) \cup {place}
                                                      ELSE InMessageOf(c) \ {place}
      BY <1>1, <1>7, <1>9, SetAccounted, Zenon
    <2>2. IsFiniteSet(InMessageOf(c)) /\ Cardinality(InMessageOf(c)) \in Nat
      BY InMessageFinite
    <2>3. Cardinality(InMessageOf(c) \cup {place}) = Cardinality(InMessageOf(c)) + 1
      BY <2>1, <2>2, FS_AddElement
    <2>4. InMessageOf(c) \ {place} = InMessageOf(c)
      BY <2>1
    <2>5. live[c] = lost[c] + Cardinality(InMessageOf(c))
      BY <1>1, <1>9 DEF Accounted
    <2>6. CASE call.pc = "message"
      <3>1. live'[c] = live[c] + 1 /\ lost'[c] = lost[c]
        BY <1>1, <1>3, <1>7, <1>9, <2>6
      <3>2. Cardinality(InMessageOf(c)') = Cardinality(InMessageOf(c)) + 1
        BY <2>1, <2>3, <2>6
      <3>3. lost[c] \in Nat
        BY <1>1, <1>3
      <3> QED
        BY <2>2, <2>5, <3>1, <3>2, <3>3 DEF Accounted
    <2>7. CASE call.pc # "message"
      <3>1. \/ live'[c] = live[c] /\ lost'[c] = lost[c]
            \/ live'[c] = live[c] + 1 /\ lost'[c] = lost[c] + 1
        BY <1>1, <1>3, <1>7, <1>9, <2>7
      <3>2. InMessageOf(c)' = InMessageOf(c)
        BY <2>1, <2>4, <2>7
      <3>3. lost[c] \in Nat
        BY <1>1, <1>3
      <3> QED
        BY <2>2, <2>5, <3>1, <3>2, <3>3 DEF Accounted
    <2> QED
      BY <2>6, <2>7
  <1> QED
    BY <1>8, <1>9

LEMMA AccountedReturns ==
    ASSUME CallsInv, NEW t \in Threads, MessageReturns(t),
           \A c \in Contexts \ StaticContexts : Accounted(c)
    PROVE  (\A c \in Contexts \ StaticContexts : Accounted(c))'
  <1> DEFINE x == Top(t).ctx
             call == AfterCallback(t)
             place == <<t, Depth(t)>>
  <1>1. /\ Top(t) \in Call /\ stack[t] # <<>> /\ StacksOK /\ x \in Contexts
        /\ Top(t).i + 1 \in 0 .. CHUNK_SIZE /\ Top(t).pc = "message"
    <2>1. Top(t) \in Call /\ stack[t] # <<>> /\ StacksOK /\ CallOK(Top(t)) /\ Top(t).pc = "message"
      BY TopCall DEF MessageReturns, In, CallsInv
    <2> QED
      BY <2>1, ContextAssumption DEF Call, CallOK, Callback
  <1>2. call \in Call /\ call.ctx = x /\ call.pc # "message" /\ Set(t, call)
    BY <1>1, AfterTypes DEF MessageReturns
  <1>3. live \in [Contexts -> Int] /\ lost \in [Contexts -> Nat]
    BY DEF CallsInv
  <1>4. /\ \/ x \in StaticContexts /\ UNCHANGED live
           \/ x \notin StaticContexts /\ live' = [live EXCEPT ![x] = @ - 1]
        /\ UNCHANGED lost
    BY DEF MessageReturns
  <1>5. ASSUME NEW c \in Contexts \ StaticContexts, c # x PROVE Accounted(c)'
    <2>1. live'[c] = live[c] /\ lost'[c] = lost[c]
      BY <1>3, <1>4, <1>5
    <2> QED
      BY <1>1, <1>2, <1>5, <2>1, AccountedOthers
  <1>6. ASSUME NEW c \in Contexts \ StaticContexts, c = x PROVE Accounted(c)'
    <2>1. place \in InMessageOf(c) /\ InMessageOf(c)' = InMessageOf(c) \ {place}
      BY <1>1, <1>2, <1>6, SetAccounted, Zenon
    <2>2. IsFiniteSet(InMessageOf(c)) /\ Cardinality(InMessageOf(c)) \in Nat
      BY InMessageFinite
    <2>3. Cardinality(InMessageOf(c)') = Cardinality(InMessageOf(c)) - 1
      BY <2>1, <2>2, FS_RemoveElement
    <2>4. live[c] = lost[c] + Cardinality(InMessageOf(c)) /\ lost[c] \in Nat
      BY <1>1, <1>3, <1>6 DEF Accounted
    <2>5. live'[c] = live[c] - 1 /\ lost'[c] = lost[c]
      BY <1>1, <1>3, <1>4, <1>6
    <2> QED
      BY <2>2, <2>3, <2>4, <2>5 DEF Accounted
  <1> QED
    BY <1>5, <1>6

(***************************************************************************)
(* Every message on the heap is in a callback or was lost when its build   *)
(* failed, whatever the callbacks call.                                    *)
(***************************************************************************)
THEOREM HeapMessagesAccounted == Spec => []MessagesAccounted
  <1> DEFINE Inv == CallsInv /\ \A c \in Contexts \ StaticContexts : Accounted(c)
  <1>1. Init => Inv
    BY CallsInit, AccountedInit
  <1>2. Inv /\ [Next]_vars => Inv'
    <2> SUFFICES ASSUME Inv, [Next]_vars PROVE (\A c \in Contexts \ StaticContexts : Accounted(c))'
      BY CallsStep
    <2>1. CASE UNCHANGED vars
      BY <2>1 DEF vars, messages, heap, Accounted, InMessageOf, InMessage, CallAt
    <2>2. ASSUME NEW t \in Threads, UNCHANGED <<live, lost>>, Quiet(t)
          PROVE  (\A c \in Contexts \ StaticContexts : Accounted(c))'
      BY <2>2, QuietAccounted DEF Accounted
    <2> QED
      BY <2>1, <2>2, QuietSteps, AccountedFrame, AccountedReturns DEF messages, heap, arrays
  <1>3. Inv => MessagesAccounted
    BY AccountedByContext
  <1> HIDE DEF Inv
  <1> QED
    BY <1>1, <1>2, <1>3, PTL DEF Spec

-----------------------------------------------------------------------------
(* The top call after a step *)

LEMMA TopAfterSet ==
    ASSUME StacksOK, NEW t \in Threads, stack[t] # <<>>, NEW call \in Call, Set(t, call)
    PROVE  (stack[t] # <<>>)' /\ Top(t)' = call /\ Depth(t)' = Depth(t) /\ Depth(t) \in Nat \ {0}
           /\ \A k \in 1 .. Depth(t) - 1 : stack'[t][k] = stack[t][k]
           /\ \A u \in Threads : u # t => stack'[u] = stack[u]
  <1>1. /\ stack' \in [Threads -> Seq(Call)]
        /\ \A u \in Threads : u # t => stack'[u] = stack[u]
        /\ Len(stack[t]) \in Nat \ {0} /\ Len(stack'[t]) = Len(stack[t])
        /\ stack'[t][Len(stack[t])] = call
        /\ \A k \in 1 .. Len(stack[t]) - 1 : stack'[t][k] = stack[t][k]
    BY SetEffect DEF StacksOK
  <1> QED
    BY <1>1 DEF Top, Depth

LEMMA TopAfterPush ==
    ASSUME StacksOK, NEW t \in Threads, NEW call \in Call, Push(t, call)
    PROVE  (stack[t] # <<>>)' /\ Top(t)' = call /\ Depth(t)' = Depth(t) + 1 /\ Depth(t) \in Nat
           /\ \A k \in 1 .. Depth(t) : stack'[t][k] = stack[t][k]
           /\ \A u \in Threads : u # t => stack'[u] = stack[u]
  <1>1. /\ stack' \in [Threads -> Seq(Call)]
        /\ \A u \in Threads : u # t => stack'[u] = stack[u]
        /\ Len(stack[t]) \in Nat /\ Len(stack'[t]) = Len(stack[t]) + 1
        /\ stack'[t][Len(stack[t]) + 1] = call
        /\ \A k \in 1 .. Len(stack[t]) : stack'[t][k] = stack[t][k]
    BY PushEffect DEF StacksOK
  <1> QED
    BY <1>1 DEF Top, Depth

\* Under a call that returns there is a callback.
LEMMA TopAfterPop ==
    ASSUME StacksOK, NEW t \in Threads, stack[t] # <<>>, Pop(t)
    PROVE  /\ Depth(t)' = Depth(t) - 1 /\ Depth(t) \in Nat \ {0}
           /\ (stack[t] # <<>>)' => /\ Depth(t) - 1 \in 1 .. Depth(t) - 1
                                    /\ Top(t)' = stack[t][Depth(t) - 1] /\ Top(t)'.pc \in Callback
           /\ \A k \in 1 .. Depth(t) - 1 : stack'[t][k] = stack[t][k]
           /\ \A u \in Threads : u # t => stack'[u] = stack[u]
  <1>1. /\ stack' \in [Threads -> Seq(Call)]
        /\ \A u \in Threads : u # t => stack'[u] = stack[u]
        /\ Len(stack[t]) \in Nat \ {0} /\ Len(stack'[t]) = Len(stack[t]) - 1
        /\ \A k \in 1 .. Len(stack[t]) - 1 : stack'[t][k] = stack[t][k]
    BY PopEffect DEF StacksOK
  <1>2. \A k \in 1 .. Len(stack[t]) - 1 : stack[t][k].pc \in Callback
    BY DEF StacksOK, StackOK, Depth
  <1>3. stack'[t] # <<>> => Len(stack'[t]) \in Nat \ {0}
    <2>1. stack'[t] \in Seq(Call)
      BY <1>1
    <2> QED
      BY <2>1
  <1> QED
    BY <1>1, <1>2, <1>3 DEF Top, Depth

\* A step moves the calls of its own thread only.
LEMMA OthersStay ==
    ASSUME StacksOK, NEW t \in Threads, CallsMove(t), NEW u \in Threads, u # t
    PROVE  stack'[u] = stack[u]
  <1>1. CASE UNCHANGED stack
    BY <1>1
  <1>2. CASE stack[t] # <<>> /\ Pop(t)
    BY <1>2, TopAfterPop
  <1>3. ASSUME stack[t] # <<>>, NEW call \in Call, Set(t, call) PROVE stack'[u] = stack[u]
    BY <1>3, SetEffect DEF StacksOK
  <1>4. ASSUME NEW call \in Call, Push(t, call) PROVE stack'[u] = stack[u]
    BY <1>4, PushEffect DEF StacksOK
  <1> QED
    BY <1>1, <1>2, <1>3, <1>4 DEF CallsMove

-----------------------------------------------------------------------------
(***************************************************************************)
(* Callbacks of a closed context.  While a call has bytes to decode no     *)
(* other thread may close its context, and its own thread reaches the      *)
(* first byte of a chunk only by reading it.                               *)
(***************************************************************************)
LEMMA OpenInit == Init => OpenInv
  BY DEF Init, OpenInv, AtByte, In

\* Whose bytes a read puts into the chunk.
LEMMA ReadByte ==
    ASSUME CallsInv, NEW t \in Threads, Read(t)
    PROVE  /\ Top(t).ctx \in Contexts /\ stack[t] # <<>> /\ Top(t) \in Call
           /\ chunk'[1].of = IF device[Top(t).ctx] = "open" THEN Top(t).ctx ELSE None
  <1> DEFINE c == Top(t).ctx
             of == IF device[c] = "open" THEN c ELSE None
  <1>1. Top(t) \in Call /\ stack[t] # <<>>
    BY TopCall DEF CallsInv, Read, In
  <1>2. PICK n \in 1 .. CHUNK_SIZE :
          \E b \in [1 .. n -> UNION {BytesAt(of, sent[c] + k) : k \in 1 .. n}] :
             chunk' = [k \in 1 .. CHUNK_SIZE |-> IF k <= n THEN b[k] ELSE chunk[k]]
    BY DEF Read
  <1>3. PICK b \in [1 .. n -> UNION {BytesAt(of, sent[c] + k) : k \in 1 .. n}] :
          chunk' = [k \in 1 .. CHUNK_SIZE |-> IF k <= n THEN b[k] ELSE chunk[k]]
    BY <1>2
  <1>4. \A m : \A x \in BytesAt(of, m) : x.of = of
    BY DEF BytesAt
  <1>5. 1 \in 1 .. n /\ 1 \in 1 .. CHUNK_SIZE
    BY ContextAssumption
  <1>6. b[1].of = of
    BY <1>3, <1>4, <1>5
  <1>7. chunk'[1] = b[1]
    BY <1>3, <1>5
  <1> QED
    BY <1>1, <1>6, <1>7 DEF Call

\* A step that leaves a call with the first byte of a chunk to decode.
First(t) == AtByte(t) /\ Top(t).i = 0

LEMMA FirstStarts ==
    ASSUME CallsInv, UseInv, [Next]_vars, NEW t \in Threads, First(t)'
    PROVE  \/ /\ First(t) /\ Top(t)' = Top(t)
              /\ \A c \in Contexts : opened[c] = "yes" => opened'[c] = "yes" \/ c # Top(t).ctx
              /\ chunk'[1] = chunk[1] \/ chunk'[1].of # Top(t).ctx
           \/ Read(t) /\ Top(t)'.ctx = Top(t).ctx /\ UNCHANGED opened
  <1> USE DEF First
  <1>1. StacksOK /\ opened \in [Contexts -> {"yes", "no"}]
    BY DEF CallsInv
  <1>2. CASE UNCHANGED vars
    BY <1>2 DEF vars, receiver, AtByte, In, Top, Depth
  <1>3. ASSUME NEW u \in Threads, u # t, ThreadStep(u)
        PROVE  /\ First(t) /\ Top(t)' = Top(t) /\ UNCHANGED opened
               /\ chunk'[1] = chunk[1] \/ chunk'[1].of # Top(t).ctx
    <2>1. stack'[t] = stack[t] /\ UNCHANGED opened
      BY <1>1, <1>3, ThreadMoves, OthersStay DEF receiver
    <2>2. First(t) /\ Top(t)' = Top(t)
      BY <2>1 DEF AtByte, In, Top, Depth
    <2>3. CASE Read(u)
      <3>1. /\ Depth(t) \in DOMAIN stack[t] /\ Top(t) = stack[t][Depth(t)] /\ Top(t) \in Call
            /\ Depth(u) \in DOMAIN stack[u] /\ Top(u) = stack[u][Depth(u)]
        BY <1>1, <2>2, <2>3, ReadByte, TopCall DEF AtByte, In
      <3>2. Top(u).ctx # Top(t).ctx
        BY <1>3, <3>1 DEF UseInv
      <3>3. Top(t).ctx # None
        BY <3>1, ContextAssumption DEF Call
      <3> QED
        BY <2>1, <2>2, <2>3, <3>2, <3>3, ReadByte
    <2>4. CASE ~Read(u)
      <3>1. UNCHANGED chunk
        BY <1>3, <2>4 DEF ThreadStep, Enter, Library, Wait, ReadNothing, ChunkDone, Nothing, DecoderError,
           FrameStatic, FrameHeap, Frame, Decode, CallbackReturns, ErrorReturns, MessageReturns
      <3> QED
        BY <2>1, <2>2, <3>1
    <2> QED
      BY <2>3, <2>4
  <1>4. ASSUME NEW u \in Threads, NEW c \in Contexts, Open(u, c) \/ Close(u, c)
        PROVE  First(t) /\ Top(t)' = Top(t) /\ UNCHANGED chunk
                /\ \A d \in Contexts : opened[d] = "yes" => opened'[d] = "yes" \/ d # Top(t).ctx
    <2>1. AtByte(t) /\ Top(t)' = Top(t) /\ First(t) /\ UNCHANGED chunk
      BY <1>4 DEF Open, Close, AtByte, In, Top, Depth
    <2>2. \A d \in Contexts : d # c => opened'[d] = opened[d]
      BY <1>1, <1>4 DEF Open, Close
    <2>3. CASE Open(u, c)
      BY <1>1, <2>1, <2>2, <2>3 DEF Open
    <2>4. CASE Close(u, c)
      <3>1. u # t
        BY <2>1, <2>4 DEF Close, MayUse, AtByte, In, Callback
      <3>2. Top(t).ctx # c
        BY <1>1, <2>1, <2>4, <3>1, TopCall DEF Close, MayUse, Processing, AtByte, In
      <3> QED
        BY <1>1, <2>1, <2>2, <3>2
    <2> QED
      BY <1>4, <2>3, <2>4
  <1>5. ASSUME NEW c \in Contexts, NEW pc \in {"wait", "read"}, Enter(t, c, pc) PROVE FALSE
    <2> DEFINE call == [ctx |-> c, pc |-> pc, rbytes |-> 0, i |-> 0, payload |-> <<>>, msg |-> Clear,
                     at |-> 0]
    <2>1. call \in Call
      BY MessageTypes, ContextAssumption DEF Call, Messages
    <2>2. Push(t, call)
      BY <1>5 DEF Enter
    <2>3. Top(t)' = call
      BY <1>1, <2>1, <2>2, TopAfterPush
    <2> QED
      BY <2>3 DEF AtByte, In
  <1>6. ASSUME stack[t] # <<>>, Pop(t) PROVE FALSE
    BY <1>1, <1>6, TopAfterPop DEF AtByte, In, Callback
  <1>7. ASSUME stack[t] # <<>>, NEW call \in Call, Set(t, call), call.pc # "loop" \/ call.i # 0
        PROVE  FALSE
    BY <1>1, <1>7, TopAfterSet DEF AtByte, In
  <1>8. ASSUME Wait(t) \/ ReadNothing(t) \/ ChunkDone(t) PROVE FALSE
    <2>1. stack[t] # <<>> /\ Top(t) \in Call
      BY <1>1, <1>8, TopCall DEF Wait, ReadNothing, ChunkDone, In
    <2>2. ASSUME Set(t, [Top(t) EXCEPT !.pc = "read"]) PROVE FALSE
      <3>1. [Top(t) EXCEPT !.pc = "read"] \in Call /\ [Top(t) EXCEPT !.pc = "read"].pc # "loop"
        BY <2>1 DEF Call
      <3> QED
        BY <1>7, <2>1, <2>2, <3>1
    <2>3. ASSUME ChunkDone(t) PROVE FALSE
      <3>1. 0 \in 0 .. CHUNK_SIZE /\ "read" \in {"wait", "read", "loop"} \cup Callback
        BY ContextAssumption
      <3>2. Moved(Top(t), "read", 0, 0) \in Call /\ Moved(Top(t), "read", 0, 0).pc = "read"
        BY <2>1, <3>1, CallTypes
      <3>3. Set(t, Moved(Top(t), "read", 0, 0))
        BY <2>3 DEF ChunkDone, Moved
      <3> QED
        BY <1>7, <2>1, <3>2, <3>3
    <2> QED
      BY <1>6, <1>8, <2>1, <2>2, <2>3 DEF Wait, ReadNothing
  <1>9. ASSUME Nothing(t) \/ DecoderError(t) \/ FrameStatic(t) \/ FrameHeap(t) PROVE FALSE
    <2>1. stack[t] # <<>> /\ Top(t).i \in Nat
      BY <1>9, DecodeTop
    <2>2. PICK call \in Call :
             /\ Set(t, call) /\ call.ctx = Top(t).ctx /\ call.rbytes = Top(t).rbytes
             /\ \/ call.pc = "loop" /\ call.i = Top(t).i + 1
                \/ call.pc \in Callback /\ call.i = Top(t).i
      BY <1>9, DecodeMoves
    <2>3. call.pc # "loop" \/ call.i # 0
      BY <2>1, <2>2 DEF Callback
    <2> QED
      BY <1>7, <2>1, <2>2, <2>3
  <1>10. ASSUME CallbackReturns(t) PROVE FALSE
    <2>1. In(t, "error") \/ In(t, "message")
      BY <1>10 DEF CallbackReturns, ErrorReturns, MessageReturns
    <2>2. stack[t] # <<>> /\ Top(t) \in Call /\ CallOK(Top(t)) /\ Top(t).pc \in Callback
      BY <1>1, <2>1, TopCall DEF In, Callback
    <2>3. Top(t).i + 1 \in 0 .. CHUNK_SIZE /\ Top(t).i \in Nat
      BY <2>2, ContextAssumption DEF Call, CallOK
    <2>4. AfterCallback(t) \in Call /\ AfterCallback(t).i = Top(t).i + 1 /\ AfterCallback(t).i # 0
      BY <2>2, <2>3, AfterTypes
    <2>5. Set(t, AfterCallback(t))
      BY <1>10 DEF CallbackReturns, ErrorReturns, MessageReturns
    <2> QED
      BY <1>7, <2>2, <2>3, <2>4, <2>5
  <1>11. ASSUME Read(t) PROVE Top(t)'.ctx = Top(t).ctx /\ UNCHANGED opened
    <2>1. stack[t] # <<>> /\ Top(t) \in Call
      BY <1>1, <1>11, TopCall DEF Read, In
    <2>2. PICK n \in 1 .. CHUNK_SIZE : Set(t, Moved(Top(t), "loop", n, 0))
      BY <1>11 DEF Read, Moved
    <2>3. n \in 0 .. CHUNK_SIZE /\ 0 \in 0 .. CHUNK_SIZE /\ "loop" \in {"wait", "read", "loop"} \cup Callback
      BY ContextAssumption
    <2>4. Moved(Top(t), "loop", n, 0) \in Call /\ Moved(Top(t), "loop", n, 0).ctx = Top(t).ctx
      BY <2>1, <2>3, CallTypes
    <2> QED
      BY <1>1, <1>11, <2>1, <2>2, <2>4, TopAfterSet DEF Read, receiver
  <1> QED
    BY <1>2, <1>3, <1>4, <1>5, <1>8, <1>9, <1>10, <1>11, NextSteps DEF ThreadStep, Library


LEMMA OpenStep ==
    ASSUME CallsInv, UseInv, OpenInv, [Next]_vars PROVE OpenInv'
  <1> SUFFICES ASSUME NEW t \in Threads, First(t)'
               PROVE  opened'[Top(t)'.ctx] = "yes" \/ chunk'[1].of # Top(t)'.ctx
    BY DEF OpenInv, First, Byte
  <1>1. CASE /\ First(t) /\ Top(t)' = Top(t)
             /\ \A c \in Contexts : opened[c] = "yes" => opened'[c] = "yes" \/ c # Top(t).ctx
             /\ chunk'[1] = chunk[1] \/ chunk'[1].of # Top(t).ctx
    <2>1. opened[Top(t).ctx] = "yes" \/ chunk[1].of # Top(t).ctx
      BY <1>1 DEF OpenInv, First, Byte
    <2>2. Top(t).ctx \in Contexts
      BY <1>1, TopCall DEF First, AtByte, In, CallsInv, Call
    <2> QED
      BY <1>1, <2>1, <2>2
  <1>2. CASE Read(t) /\ Top(t)'.ctx = Top(t).ctx /\ UNCHANGED opened
    <2>1. CASE device[Top(t).ctx] = "open"
      BY <1>2, <2>1, ReadByte DEF CallsInv
    <2>2. CASE device[Top(t).ctx] # "open"
      BY <1>2, <2>2, ReadByte, ContextAssumption
    <2> QED
      BY <2>1, <2>2
  <1> QED
    BY <1>1, <1>2, FirstStarts

\* A callback starts with a byte that was left.
LEMMA CallbackStarts ==
    ASSUME CallsInv, [Next]_vars, NEW t \in Threads, EventOf(t)
    PROVE  AtByte(t) /\ Top(t).i \in Nat
  <1> USE DEF EventOf
  <1>1. StacksOK /\ stack[t] # <<>> /\ Top(t).pc = "loop" /\ Top(t) \in Call
    BY TopCall DEF CallsInv, In
  <1>2. ASSUME NEW u \in Threads, u # t, ThreadStep(u) PROVE FALSE
    BY <1>1, <1>2, ThreadMoves, OthersStay
  <1>3. CASE ThreadStep(t)
    <2>1. ~ \E c \in Contexts, pc \in {"wait", "read"} : Enter(t, c, pc)
      BY <1>1 DEF Enter, MayProcess, MayUse, Callback
    <2>2. ~(Wait(t) \/ Read(t) \/ ReadNothing(t) \/ CallbackReturns(t))
      BY <1>1 DEF Wait, Read, ReadNothing, CallbackReturns, ErrorReturns, MessageReturns, In
    <2>3. ASSUME ChunkDone(t) PROVE FALSE
      <3>1. 0 \in 0 .. CHUNK_SIZE /\ "read" \in {"wait", "read", "loop"} \cup Callback
        BY ContextAssumption
      <3>2. Moved(Top(t), "read", 0, 0) \in Call /\ Moved(Top(t), "read", 0, 0).pc = "read"
        BY <1>1, <3>1, CallTypes
      <3>3. Set(t, Moved(Top(t), "read", 0, 0))
        BY <2>3 DEF ChunkDone, Moved
      <3>4. stack'[t][Len(stack[t])] = Moved(Top(t), "read", 0, 0)
        BY <1>1, <3>2, <3>3, SetEffect DEF StacksOK
      <3> QED
        BY <3>2, <3>4 DEF Callback, Depth
    <2>4. Nothing(t) \/ DecoderError(t) \/ FrameStatic(t) \/ FrameHeap(t)
      BY <1>3, <2>1, <2>2, <2>3 DEF ThreadStep, Library
    <2> QED
      BY <2>4, DecodeTop DEF AtByte
  <1>4. ASSUME NEW u \in Threads, NEW c \in Contexts, Open(u, c) \/ Close(u, c) PROVE FALSE
    BY <1>4 DEF Open, Close
  <1> QED
    BY <1>2, <1>3, <1>4, NextSteps DEF vars

(***************************************************************************)
(* After a context was closed only bytes already in the chunk lead to      *)
(* callbacks, and bytes of other lines: with no condition on the           *)
(* constants.                                                              *)
(***************************************************************************)
THEOREM ClosedLeavesOnlyChunk == Spec => OnlyChunkAfterClose
  <1> DEFINE Old(t) == EventOf(t) /\ opened[Top(t).ctx] = "no"
                             => Top(t).i > 0 \/ Byte(t).of # Top(t).ctx
  <1>1. CallsInv /\ OpenInv /\ [Next]_vars => [\A t \in Threads : Old(t)]_vars
    <2> SUFFICES ASSUME CallsInv, OpenInv, [Next]_vars, NEW t \in Threads PROVE Old(t)
      OBVIOUS
    <2> QED
      BY CallbackStarts DEF OpenInv
  <1>2. CallsInv /\ UseInv /\ OpenInv /\ [Next]_vars => (CallsInv /\ UseInv /\ OpenInv)'
    BY CallsStep, UseStep, OpenStep
  <1>3. Init => CallsInv /\ UseInv /\ OpenInv
    BY CallsInit, UseInit, OpenInit
  <1> QED
    BY <1>1, <1>2, <1>3, PTL DEF Spec, OnlyChunkAfterClose

-----------------------------------------------------------------------------
(***************************************************************************)
(* The bytes of a line.  The chunk is one static array: it keeps its bytes *)
(* for the loop that read them if no other call can read meanwhile, that   *)
(* is in one thread, with chunks of one byte or callbacks that do not      *)
(* process.                                                                *)
(***************************************************************************)
ChunkAlone(t) == Threads = {t} /\ (CHUNK_SIZE = 1 \/ MaxDepth = 1)

\* The parts of OrderInv for the only thread.
LEMMA OrderAlone ==
    ASSUME NEW t, Threads = {t}
    PROVE  OrderInv <=>
             /\ \A k \in 1 .. Depth(t) - 1 : Decoded(stack[t][k]) = stack[t][k].rbytes
             /\ stack[t] # <<>> => Behind(Top(t))
             /\ \A c \in Contexts : stack[t] = <<>> \/ Top(t).ctx # c => done[c] = sent[c]
  BY DEF OrderInv

LEMMA OrderInit == Init => OrderInv
  BY DEF Init, OrderInv, Depth

\* A call whose bytes are all decoded has read what was sent.
LEMMA AllDecoded ==
    ASSUME CallsInv, NEW call \in Call, Decoded(call) = call.rbytes
    PROVE  Behind(call) <=> sent[call.ctx] = done[call.ctx]
  <1>1. call.rbytes \in Nat /\ call.ctx \in Contexts
    BY DEF Call
  <1>2. done[call.ctx] \in Nat /\ sent[call.ctx] \in Nat
    BY <1>1 DEF CallsInv
  <1> QED
    BY <1>1, <1>2 DEF Behind

LEMMA OrderPop ==
    ASSUME NEW t, ChunkAlone(t), CallsInv, CallsInv', OrderInv, stack[t] # <<>>, Pop(t),
           Top(t).pc \in {"wait", "read"}, UNCHANGED <<progress, chunk>>
    PROVE  OrderInv'
  <1>1. t \in Threads /\ StacksOK /\ StacksOK'
    BY DEF ChunkAlone, CallsInv
  <1>2. Top(t) \in Call /\ Decoded(Top(t)) = Top(t).rbytes
    BY <1>1, TopCall DEF CallOK, Decoded, Callback
  <1>3. \A c \in Contexts : done[c] = sent[c]
    BY <1>2, AllDecoded, OrderAlone DEF ChunkAlone
  <1>4. \A k \in 1 .. Depth(t)' - 1 : Decoded(stack'[t][k]) = stack'[t][k].rbytes
    <2>1. \A k \in 1 .. Depth(t) - 1 : Decoded(stack[t][k]) = stack[t][k].rbytes /\ stack'[t][k] = stack[t][k]
      BY <1>1, TopAfterPop, OrderAlone DEF ChunkAlone
    <2>2. Depth(t)' = Depth(t) - 1 /\ Depth(t) \in Nat
      BY <1>1, TopAfterPop
    <2> QED
      BY <2>1, <2>2
  <1>5. ASSUME (stack[t] # <<>>)' PROVE Behind(Top(t))'
    <2>1. Depth(t) - 1 \in 1 .. Depth(t) - 1 /\ Top(t)' = stack[t][Depth(t) - 1]
      BY <1>1, <1>5, TopAfterPop
    <2>2. Decoded(Top(t)') = Top(t)'.rbytes
      BY <2>1, OrderAlone DEF ChunkAlone
    <2>3. Top(t)' \in Call
      BY <1>1, <2>1, TopCall DEF StacksOK
    <2>4. Top(t)'.ctx \in Contexts /\ Top(t)'.rbytes \in Nat
      BY <2>3 DEF Call
    <2>5. sent[Top(t)'.ctx] = done[Top(t)'.ctx] /\ done[Top(t)'.ctx] \in Nat
      BY <1>3, <2>4 DEF CallsInv
    <2> QED
      BY <2>2, <2>4, <2>5 DEF Behind, Decoded, progress
  <1> QED
    BY <1>3, <1>4, <1>5, OrderAlone DEF ChunkAlone, OrderInv, progress

LEMMA OrderPush ==
    ASSUME NEW t, ChunkAlone(t), CallsInv, CallsInv', OrderInv, NEW call \in Call, Push(t, call),
           MayProcess(t, call.ctx), call.pc \in {"wait", "read"}, call.rbytes = 0, call.i = 0,
           UNCHANGED <<progress, chunk>>
    PROVE  OrderInv'
  <1>1. t \in Threads /\ StacksOK /\ Depth(t) < MaxDepth
    BY DEF ChunkAlone, CallsInv, MayProcess
  <1>2. \A k \in 1 .. Depth(t) : Decoded(stack[t][k]) = stack[t][k].rbytes
    <2>1. ASSUME stack[t] # <<>> PROVE Decoded(Top(t)) = Top(t).rbytes
      <3>1. Top(t) \in Call /\ CallOK(Top(t)) /\ Top(t).pc \in Callback /\ Depth(t) \in Nat \ {0}
        BY <1>1, <2>1, TopCall DEF MayProcess, MayUse
      <3>2. CHUNK_SIZE = 1
        BY <1>1, <3>1 DEF ChunkAlone
      <3>3. Top(t).i \in 0 .. 1 /\ Top(t).rbytes \in 0 .. 1 /\ Top(t).i < Top(t).rbytes
        BY <3>1, <3>2 DEF Call, CallOK
      <3> QED
        BY <3>1, <3>3 DEF Decoded
    <2>2. \A k \in 1 .. Depth(t) - 1 : Decoded(stack[t][k]) = stack[t][k].rbytes
      BY OrderAlone DEF ChunkAlone
    <2>3. Depth(t) \in Nat
      BY <1>1, TopAfterPush
    <2>4. Depth(t) # 0 => stack[t] # <<>>
      BY DEF Depth
    <2> QED
      BY <2>1, <2>2, <2>3, <2>4 DEF Top
  <1>3. \A c \in Contexts : done[c] = sent[c]
    <2>1. stack[t] # <<>> => Top(t) \in Call /\ Decoded(Top(t)) = Top(t).rbytes
      BY <1>1, <1>2, TopCall
    <2>2. stack[t] # <<>> => sent[Top(t).ctx] = done[Top(t).ctx]
      BY <2>1, AllDecoded, OrderAlone DEF ChunkAlone
    <2> QED
      BY <2>2, OrderAlone DEF ChunkAlone
  <1>4. \A k \in 1 .. Depth(t)' - 1 : Decoded(stack'[t][k]) = stack'[t][k].rbytes
    <2>1. Depth(t)' = Depth(t) + 1 /\ Depth(t) \in Nat /\ \A k \in 1 .. Depth(t) : stack'[t][k] = stack[t][k]
      BY <1>1, TopAfterPush
    <2> QED
      BY <1>2, <2>1
  <1>5. Behind(Top(t))'
    <2>1. Top(t)' = call /\ call.ctx \in Contexts
      BY <1>1, TopAfterPush DEF Call
    <2>2. sent[call.ctx] = done[call.ctx] /\ done[call.ctx] \in Nat
      BY <1>3, <2>1 DEF CallsInv
    <2> QED
      BY <2>1, <2>2 DEF Behind, Decoded, progress, Callback
  <1> QED
    BY <1>3, <1>4, <1>5, OrderAlone DEF ChunkAlone, OrderInv, progress

\* The top call goes on, and its bytes with it.
LEMMA OrderSet ==
    ASSUME NEW t, ChunkAlone(t), StacksOK, OrderInv, stack[t] # <<>>,
           NEW call \in Call, Set(t, call), call.ctx = Top(t).ctx,
           \A c \in Contexts : c # call.ctx => done'[c] = done[c] /\ sent'[c] = sent[c],
           Behind(call)'
    PROVE  OrderInv'
  <1>1. t \in Threads
    BY DEF ChunkAlone
  <1>2. /\ Top(t)' = call /\ Depth(t)' = Depth(t) /\ Depth(t) \in Nat \ {0}
        /\ \A k \in 1 .. Depth(t) - 1 : stack'[t][k] = stack[t][k]
    BY <1>1, TopAfterSet
  <1>3. \A k \in 1 .. Depth(t)' - 1 : Decoded(stack'[t][k]) = stack'[t][k].rbytes
    BY <1>2, OrderAlone DEF ChunkAlone
  <1>4. \A c \in Contexts : (stack[t] = <<>>)' \/ Top(t)'.ctx # c => done'[c] = sent'[c]
    <2>1. (stack[t] # <<>>)'
      BY <1>1, TopAfterSet
    <2> QED
      BY <1>2, <2>1, OrderAlone DEF ChunkAlone
  <1>5. Behind(Top(t))'
    BY <1>2 DEF Behind
  <1> QED
    BY <1>3, <1>4, <1>5 DEF ChunkAlone, OrderInv

LEMMA OrderRead ==
    ASSUME NEW t, ChunkAlone(t), CallsInv, OrderInv, Read(t) PROVE OrderInv'
  <1>1. t \in Threads /\ StacksOK
    BY DEF ChunkAlone, CallsInv
  <1>2. stack[t] # <<>> /\ Top(t) \in Call /\ Top(t).rbytes = 0 /\ Top(t).i = 0 /\ Top(t).pc = "read"
    BY <1>1, TopCall DEF Read, In, CallOK
  <1> DEFINE c == Top(t).ctx
             of == IF device[c] = "open" THEN c ELSE None
  <1>3. c \in Contexts /\ of \in {c, None}
    BY <1>2 DEF Call
  <1>4. PICK n \in 1 .. CHUNK_SIZE :
          /\ \E b \in {f \in [1 .. n -> UNION {BytesAt(of, sent[c] + k) : k \in 1 .. n}] :
                        \A k \in 1 .. n : f[k].n = sent[c] + k} :
                chunk' = [k \in 1 .. CHUNK_SIZE |-> IF k <= n THEN b[k] ELSE chunk[k]]
          /\ sent' = [sent EXCEPT ![c] = @ + n]
          /\ Set(t, [Top(t) EXCEPT !.pc = "loop", !.rbytes = n, !.i = 0])
    BY DEF Read
  <1>5. \A k \in 1 .. n : chunk'[k].of \in {c, None} /\ chunk'[k].n = sent[c] + k
    <2>1. PICK b \in [1 .. n -> UNION {BytesAt(of, sent[c] + k) : k \in 1 .. n}] :
            /\ \A k \in 1 .. n : b[k].n = sent[c] + k
            /\ chunk' = [k \in 1 .. CHUNK_SIZE |-> IF k <= n THEN b[k] ELSE chunk[k]]
      BY <1>4
    <2>2. \A k \in 1 .. n : \A b1 \in BytesAt(of, sent[c] + k) : b1.of = of
      BY DEF BytesAt
    <2>3. \A k \in 1 .. n : b[k].of \in {c, None}
      BY <1>3, <2>1, <2>2
    <2>4. \A k \in 1 .. n : k \in 1 .. CHUNK_SIZE /\ k <= n
      BY ContextAssumption
    <2> QED
      BY <2>1, <2>3, <2>4
  <1>6. n \in 0 .. CHUNK_SIZE /\ 0 \in 0 .. CHUNK_SIZE /\ n \in Nat
    BY ContextAssumption
  <1>7. PICK call \in Call :
          /\ call.ctx = c /\ call.pc = "loop" /\ call.rbytes = n /\ call.i = 0 /\ Set(t, call)
    <2>1. Set(t, Moved(Top(t), "loop", n, 0))
      BY <1>4 DEF Moved
    <2>2. "loop" \in {"wait", "read", "loop"} \cup Callback
      OBVIOUS
    <2>3. /\ Moved(Top(t), "loop", n, 0) \in Call /\ Moved(Top(t), "loop", n, 0).pc = "loop"
          /\ Moved(Top(t), "loop", n, 0).ctx = c
          /\ Moved(Top(t), "loop", n, 0).rbytes = n /\ Moved(Top(t), "loop", n, 0).i = 0
      BY <1>2, <1>6, <2>2, CallTypes
    <2> QED
      BY <2>1, <2>3, Zenon
  <1>8. sent[c] = done[c] /\ sent[c] \in Nat
    <2>1. Decoded(Top(t)) = Top(t).rbytes
      BY <1>2 DEF Decoded, Callback
    <2>2. Behind(Top(t))
      BY <1>2, OrderAlone DEF ChunkAlone
    <2> QED
      BY <1>2, <1>3, <2>1, <2>2, AllDecoded DEF CallsInv
  <1>9. /\ sent'[c] = sent[c] + n /\ \A d \in Contexts : d # c => sent'[d] = sent[d]
        /\ UNCHANGED done
    BY <1>3, <1>4 DEF Read, CallsInv
  <1> HIDE DEF c, of
  <1>10. sent'[call.ctx] = done'[call.ctx] + (call.rbytes - 0)
    BY <1>6, <1>7, <1>8, <1>9
  <1>11. \A j \in 0 + 1 .. call.rbytes :
           chunk'[j].of \in {call.ctx, None} /\ chunk'[j].n = done'[call.ctx] + (j - 0)
    BY <1>5, <1>6, <1>7, <1>8, <1>9
  <1>12. Decoded(call) = 0
    BY <1>7 DEF Decoded, Callback
  <1>13. Behind(call)'
    BY <1>10, <1>11, <1>12 DEF Behind, Decoded
  <1> QED
    BY <1>1, <1>2, <1>7, <1>9, <1>13, OrderSet DEF c

LEMMA OrderDecode ==
    ASSUME NEW t, ChunkAlone(t), CallsInv, OrderInv,
           Nothing(t) \/ DecoderError(t) \/ FrameStatic(t) \/ FrameHeap(t)
    PROVE  OrderInv'
  <1> DEFINE c == Top(t).ctx
             j == Top(t).i
  <1>1. t \in Threads
    BY DEF ChunkAlone
  <1>2. /\ StacksOK /\ stack[t] # <<>> /\ Top(t) \in Call /\ c \in Contexts /\ Decode(t)
        /\ Top(t).pc = "loop" /\ j \in Nat /\ Top(t).rbytes \in Nat /\ j < Top(t).rbytes
    <2>1. /\ StacksOK /\ stack[t] # <<>> /\ Top(t) \in Call /\ c \in Contexts /\ Decode(t)
          /\ Top(t).pc = "loop" /\ j \in Nat /\ Top(t).rbytes \in 0 .. CHUNK_SIZE /\ j < Top(t).rbytes
      BY <1>1, DecodeTop
    <2> QED
      BY <2>1, ContextAssumption
  <1>3. PICK call \in Call :
          /\ Set(t, call) /\ call.ctx = c /\ call.rbytes = Top(t).rbytes
          /\ \/ call.pc = "loop" /\ call.i = j + 1
             \/ call.pc \in Callback /\ call.i = j
    BY <1>1, DecodeMoves
  <1>4. Decoded(call) = j + 1
    BY <1>2, <1>3 DEF Decoded, Callback
  <1>5. /\ sent[c] = done[c] + (Top(t).rbytes - j)
        /\ \A k \in j + 1 .. Top(t).rbytes :
             chunk[k].of \in {c, None} /\ chunk[k].n = done[c] + (k - j)
    <2>1. Behind(Top(t)) /\ Decoded(Top(t)) = j
      BY <1>2, OrderAlone DEF ChunkAlone, Decoded, Callback
    <2> QED
      BY <2>1 DEF Behind
  <1>6. done \in [Contexts -> Nat]
    BY DEF CallsInv
  <1>7. /\ done' = [done EXCEPT ![c] = @ + 1]
        /\ UNCHANGED <<chunk, sent>>
    BY <1>2 DEF Decode
  <1> HIDE DEF c, j
  <1>9. done'[c] = done[c] + 1 /\ \A d \in Contexts : d # c => done'[d] = done[d]
    BY <1>2, <1>6, <1>7
  <1>11. sent'[call.ctx] = done'[call.ctx] + (call.rbytes - (j + 1))
    <2>1. sent'[c] = done[c] + (Top(t).rbytes - j) /\ done[c] \in Nat
      BY <1>2, <1>5, <1>6, <1>7
    <2>2. sent'[c] = done'[c] + (Top(t).rbytes - (j + 1))
      BY <1>2, <1>9, <2>1, SMTT(20)
    <2>3. call.ctx = c /\ call.rbytes = Top(t).rbytes
      BY <1>3
    <2> QED
      BY <2>2, <2>3
  <1>12. \A k \in (j + 1) + 1 .. call.rbytes :
           chunk'[k].of \in {call.ctx, None} /\ chunk'[k].n = done'[call.ctx] + (k - (j + 1))
    <2>1. ASSUME NEW k \in (j + 1) + 1 .. call.rbytes
          PROVE  chunk'[k].of \in {call.ctx, None} /\ chunk'[k].n = done'[call.ctx] + (k - (j + 1))
      <3>1. k \in j + 1 .. Top(t).rbytes /\ k \in Int
        BY <1>2, <1>3
      <3>2. chunk[k].of \in {c, None} /\ chunk[k].n = done[c] + (k - j)
        BY <1>5, <3>1
      <3>3. done[c] \in Nat
        BY <1>2, <1>6
      <3> QED
        BY <1>2, <1>3, <1>7, <1>9, <3>1, <3>2, <3>3
    <2> QED
      BY <2>1
  <1>13. Behind(call)'
    BY <1>4, <1>11, <1>12 DEF Behind, Decoded
  <1> QED
    BY <1>2, <1>3, <1>7, <1>9, <1>13, OrderSet DEF c

\* A step after which no more and no fewer bytes of the loop are decoded.
LEMMA OrderSame ==
    ASSUME NEW t, ChunkAlone(t), CallsInv, OrderInv, stack[t] # <<>>, NEW call \in Call, Set(t, call),
           call.ctx = Top(t).ctx, UNCHANGED <<progress, chunk>>,
           \/ call.rbytes = Top(t).rbytes /\ Decoded(call) = Decoded(Top(t))
           \/ call.rbytes = Decoded(call) /\ Top(t).rbytes = Decoded(Top(t))
    PROVE  OrderInv'
  <1>1. t \in Threads /\ StacksOK
    BY DEF ChunkAlone, CallsInv
  <1>2. Behind(Top(t)) /\ Top(t) \in Call
    BY <1>1, TopCall, OrderAlone DEF ChunkAlone
  <1>3. Behind(call)
    <2>1. CASE call.rbytes = Top(t).rbytes /\ Decoded(call) = Decoded(Top(t))
      BY <1>2, <2>1 DEF Behind
    <2>2. CASE call.rbytes = Decoded(call) /\ Top(t).rbytes = Decoded(Top(t))
      BY <1>2, <2>2, AllDecoded
    <2> QED
      BY <2>1, <2>2
  <1>4. Behind(call)'
    BY <1>3 DEF Behind, Decoded, progress
  <1> QED
    BY <1>1, <1>4, OrderSet DEF progress

LEMMA OrderStep ==
    ASSUME NEW t, ChunkAlone(t), CallsInv, CallsInv', OrderInv, [Next]_vars PROVE OrderInv'
  <1>1. t \in Threads /\ StacksOK /\ \A u \in Threads : u = t
    BY DEF ChunkAlone, CallsInv
  <1>2. CASE UNCHANGED vars
    BY <1>2 DEF vars, progress, OrderInv, Behind, Decoded, Top, Depth
  <1>3. ASSUME NEW c \in Contexts, Open(t, c) \/ Close(t, c) PROVE OrderInv'
    BY <1>3 DEF Open, Close, progress, OrderInv, Behind, Decoded, Top, Depth
  <1>4. ASSUME NEW c \in Contexts, NEW pc \in {"wait", "read"}, Enter(t, c, pc) PROVE OrderInv'
    <2> DEFINE call == [ctx |-> c, pc |-> pc, rbytes |-> 0, i |-> 0, payload |-> <<>>, msg |-> Clear,
                     at |-> 0]
    <2>1. call \in Call /\ call.ctx = c /\ call.pc \in {"wait", "read"} /\ call.rbytes = 0 /\ call.i = 0
      BY MessageTypes, ContextAssumption DEF Call, Messages
    <2>2. Push(t, call) /\ MayProcess(t, c) /\ UNCHANGED <<progress, chunk>>
      BY <1>4 DEF Enter
    <2> HIDE DEF call
    <2> QED
      BY <2>1, <2>2, OrderPush
  <1>5. ASSUME Wait(t) \/ ReadNothing(t) PROVE OrderInv'
    <2>1. /\ stack[t] # <<>> /\ Top(t) \in Call /\ CallOK(Top(t)) /\ Top(t).pc \in {"wait", "read"}
          /\ UNCHANGED <<progress, chunk>>
      BY <1>1, <1>5, TopCall DEF Wait, ReadNothing, In
    <2>2. CASE Pop(t)
      BY <2>1, <2>2, OrderPop
    <2>3. CASE Set(t, [Top(t) EXCEPT !.pc = "read"])
      <3>1. PICK call \in Call : Set(t, call) /\ call.ctx = Top(t).ctx /\ call.pc = "read"
                                 /\ call.rbytes = Top(t).rbytes /\ call.i = Top(t).i
        BY <2>1, <2>3 DEF Call
      <3>2. Decoded(call) = Decoded(Top(t))
        BY <2>1, <3>1 DEF Decoded, Callback
      <3> QED
        BY <2>1, <3>1, <3>2, OrderSame
    <2> QED
      BY <1>5, <2>2, <2>3 DEF Wait, ReadNothing
  <1>6. ASSUME ChunkDone(t) PROVE OrderInv'
    <2>1. /\ stack[t] # <<>> /\ Top(t) \in Call /\ CallOK(Top(t)) /\ Top(t).pc = "loop"
          /\ Top(t).i >= Top(t).rbytes /\ UNCHANGED <<progress, chunk>>
      BY <1>1, <1>6, TopCall DEF ChunkDone, In
    <2>2. Top(t).rbytes = Decoded(Top(t))
      BY <2>1 DEF CallOK, Call, Decoded, Callback
    <2>3. 0 \in 0 .. CHUNK_SIZE /\ "read" \in {"wait", "read", "loop"} \cup Callback
      BY ContextAssumption
    <2>4. Set(t, Moved(Top(t), "read", 0, 0))
      BY <1>6 DEF ChunkDone, Moved
    <2>5. /\ Moved(Top(t), "read", 0, 0) \in Call /\ Moved(Top(t), "read", 0, 0).pc = "read"
          /\ Moved(Top(t), "read", 0, 0).ctx = Top(t).ctx
          /\ Moved(Top(t), "read", 0, 0).rbytes = 0 /\ Moved(Top(t), "read", 0, 0).i = 0
      BY <2>1, <2>3, CallTypes
    <2>6. PICK call \in Call : Set(t, call) /\ call.ctx = Top(t).ctx /\ call.pc = "read"
                               /\ call.rbytes = 0 /\ call.i = 0
      BY <2>4, <2>5, Zenon
    <2>7. call.rbytes = Decoded(call)
      BY <2>6 DEF Decoded, Callback
    <2> QED
      BY <2>1, <2>2, <2>6, <2>7, OrderSame
  <1>7. ASSUME CallbackReturns(t) PROVE OrderInv'
    <2>1. In(t, "error") \/ In(t, "message")
      BY <1>7 DEF CallbackReturns, ErrorReturns, MessageReturns
    <2>2. stack[t] # <<>> /\ Top(t) \in Call /\ CallOK(Top(t)) /\ Top(t).pc \in Callback
      BY <1>1, <2>1, TopCall DEF In, Callback
    <2>3. Top(t).i + 1 \in 0 .. CHUNK_SIZE
      BY <2>2, ContextAssumption DEF Call, CallOK
    <2>4. /\ AfterCallback(t) \in Call /\ AfterCallback(t).pc = "loop" /\ AfterCallback(t).ctx = Top(t).ctx
          /\ AfterCallback(t).i = Top(t).i + 1 /\ AfterCallback(t).rbytes = Top(t).rbytes
      BY <2>2, <2>3, AfterTypes
    <2>5. Set(t, AfterCallback(t)) /\ UNCHANGED <<progress, chunk>>
      BY <1>7 DEF CallbackReturns, ErrorReturns, MessageReturns
    <2>6. PICK call \in Call : Set(t, call) /\ call.ctx = Top(t).ctx /\ call.pc = "loop"
                               /\ call.rbytes = Top(t).rbytes /\ call.i = Top(t).i + 1
      BY <2>4, <2>5, Zenon
    <2>7. Decoded(call) = Decoded(Top(t))
      BY <2>2, <2>6 DEF Decoded, Callback
    <2> QED
      BY <2>2, <2>5, <2>6, <2>7, OrderSame
  <1>8. ASSUME ThreadStep(t) PROVE OrderInv'
    BY <1>4, <1>5, <1>6, <1>7, <1>8, OrderRead, OrderDecode DEF ThreadStep, Library
  <1> QED
    BY <1>1, <1>2, <1>3, <1>8, NextSteps

(***************************************************************************)
(* The decoder of a context gets its bytes once and in order, never those  *)
(* of another line, and none is left when no call is, in one thread, with  *)
(* chunks of one byte or with callbacks that do not process.               *)
(***************************************************************************)
THEOREM BytesInOrder ==
    ASSUME NEW t, Threads = {t}, CHUNK_SIZE = 1 \/ MaxDepth = 1
    PROVE  Spec => []DeliveredInOrder
  <1>1. ChunkAlone(t)
    BY DEF ChunkAlone
  <1>2. CallsInv /\ OrderInv => DeliveredInOrder
    <2> SUFFICES ASSUME CallsInv, OrderInv PROVE DeliveredInOrder
      OBVIOUS
    <2>1. stack[t] # <<>> => Top(t) = stack[t][Depth(t)] /\ Depth(t) \in DOMAIN stack[t]
      BY TopCall DEF CallsInv
    <2>2. ASSUME AtByte(t)
          PROVE  Byte(t).of \in {Top(t).ctx, None} /\ Byte(t).n = done[Top(t).ctx] + 1
      <3> DEFINE i == Top(t).i
      <3>1. /\ Top(t) \in Call /\ Top(t).ctx \in Contexts /\ i \in Nat
            /\ Top(t).rbytes \in Nat /\ i < Top(t).rbytes
        BY <2>2, ChunkByte DEF AtByte
      <3>2. Behind(Top(t)) /\ Decoded(Top(t)) = i
        BY <2>2, OrderAlone DEF AtByte, In, Decoded, Callback
      <3>3. i + 1 \in i + 1 .. Top(t).rbytes
        BY <3>1
      <3>4. /\ chunk[i + 1].of \in {Top(t).ctx, None}
            /\ chunk[i + 1].n = done[Top(t).ctx] + ((i + 1) - i)
        BY <3>2, <3>3 DEF Behind
      <3> QED
        BY <3>1, <3>4 DEF Byte
    <2> QED
      BY <2>1, <2>2, OrderAlone DEF DeliveredInOrder, Processing
  <1>3. Init => CallsInv /\ OrderInv
    BY CallsInit, OrderInit
  <1>4. CallsInv /\ OrderInv /\ [Next]_vars => (CallsInv /\ OrderInv)'
    BY <1>1, CallsStep, OrderStep
  <1> QED
    BY <1>2, <1>3, <1>4, PTL DEF Spec

=============================================================================
