------------------------- MODULE ContextSend_proofs -------------------------
(***************************************************************************)
(* However smp_context_send_message fails, it leaves no memory behind,     *)
(* frees only its own, and returns what it did, for any number of calls.   *)
(***************************************************************************)
EXTENDS ContextSend, FiniteSetTheorems, TLAPS

MessageBlocks == IF msg_tx = "none" THEN {"struct", "data"} ELSE {}

\* What is allocated at each point of the call.
HeapInv ==
    /\ pc \in {"idle", "data", "message", "serial", "write", "done"}
    /\ serial_tx \in {"user", "none"} /\ msg_tx \in {"user", "none"}
    /\ pc = "idle" => heap = {}
    /\ pc = "data" => msg_tx = "none" /\ heap = {"struct"} /\ serial_buf = "null"
    /\ pc \in {"message", "serial"} => heap = MessageBlocks /\ serial_buf = "null"
    /\ pc = "write" =>
        /\ serial_buf = IF serial_tx = "none" THEN "heap" ELSE "user"
        /\ heap = MessageBlocks \cup (IF serial_tx = "none" THEN {"serial"} ELSE {})
    /\ pc = "done" => heap = Freed

\* The invariant holds at the start.
LEMMA HeapInit == Init => HeapInv
  BY DEF Init, HeapInv

\* Every step of the call keeps it.
LEMMA HeapStep == HeapInv /\ [Next]_vars => HeapInv'
  <1> SUFFICES ASSUME HeapInv, [Next]_vars PROVE HeapInv'
    OBVIOUS
  <1>1. CASE Send
    BY <1>1 DEF Send, Return, HeapInv, MessageBlocks, buffers
  <1>2. CASE EncodeMessage
    BY <1>2 DEF EncodeMessage, Done, HeapInv, MessageBlocks, Freed, buffers
  <1>3. CASE EncodeSerial
    BY <1>3 DEF EncodeSerial, Done, HeapInv, MessageBlocks, Freed, buffers
  <1>4. CASE Write
    BY <1>4 DEF Write, Done, HeapInv, MessageBlocks, Freed, buffers
  <1>5. CASE Finish
    BY <1>5 DEF Finish, Return, HeapInv, buffers
  <1>6. CASE AllocateData
    BY <1>6 DEF AllocateData, Return, HeapInv, MessageBlocks, buffers
  <1>7. CASE UNCHANGED vars
    BY <1>7 DEF vars, HeapInv, MessageBlocks, Freed, buffers
  <1> QED
    BY <1>1, <1>2, <1>3, <1>4, <1>5, <1>6, <1>7 DEF Next

(***************************************************************************)
(* Between calls nothing is left allocated, not even when the structure of *)
(* the message's buffer was had and its data refused, and the end of a     *)
(* call frees only what it allocated (the label done of                    *)
(* smp_context_send_message).                                              *)
(***************************************************************************)
THEOREM NoLeak == Spec => []BuffersReturned
  <1>1. HeapInv => BuffersReturned
    BY DEF HeapInv, BuffersReturned
  <1> QED
    BY <1>1, HeapInit, HeapStep, PTL DEF Spec

-----------------------------------------------------------------------------
(* What the calls returned *)

\* A sequence that gets one element more has it once more.
LEMMA AppendTimes ==
    ASSUME NEW S, NEW s \in Seq(S), NEW e, NEW x
    PROVE  /\ Times(x, s) \in Nat
           /\ e = x => Times(x, Append(s, e)) = Times(x, s) + 1
           /\ e # x => Times(x, Append(s, e)) = Times(x, s)
  <1> DEFINE Places == {i \in 1 .. Len(s) : s[i] = x}
             After == {i \in 1 .. Len(Append(s, e)) : Append(s, e)[i] = x}
  <1>1. Len(s) \in Nat
    OBVIOUS
  <1>2. IsFiniteSet(1 .. Len(s))
    BY <1>1, FS_Interval
  <1>3. IsFiniteSet(Places)
    <2>1. Places \subseteq 1 .. Len(s)
      OBVIOUS
    <2> QED
      BY <1>2, <2>1, FS_Subset
  <1>4. After = IF e = x THEN Places \cup {Len(s) + 1} ELSE Places
    <2>1. /\ Len(Append(s, e)) = Len(s) + 1 /\ Append(s, e)[Len(s) + 1] = e
          /\ \A i \in 1 .. Len(s) : Append(s, e)[i] = s[i]
      OBVIOUS
    <2>2. \A i : i \in 1 .. Len(Append(s, e)) <=> i \in 1 .. Len(s) \/ i = Len(s) + 1
      BY <1>1, <2>1
    <2> QED
      BY <2>1, <2>2
  <1>5. Len(s) + 1 \notin Places
    BY <1>1
  <1> HIDE DEF Places, After
  <1>6. Cardinality(Places) \in Nat /\ Cardinality(Places \cup {Len(s) + 1}) = Cardinality(Places) + 1
    BY <1>3, <1>5, FS_CardinalityType, FS_AddElement
  <1>7. Times(x, s) = Cardinality(Places) /\ Times(x, Append(s, e)) = Cardinality(After)
    BY Zenon DEF Times, Places, After
  <1> QED
    BY <1>4, <1>6, <1>7

\* What is on the line, against what was returned and what is about to be.
CountInv ==
    LET sent == Times("whole", line)
        good == Times(0, reported)
        cut == Times("part", line)
        bad == Times(SMP_ERROR_IO, reported)
    IN  /\ pc \in {"idle", "data", "message", "serial", "write", "done"}
        /\ line \in Seq({"whole", "part"}) /\ reported \in Seq(Errors \cup {0})
        /\ ret \in Errors \cup {0}
        /\ sent \in Nat /\ good \in Nat /\ cut \in Nat /\ bad \in Nat
        /\ pc # "done" => sent = good /\ cut <= bad
        /\ pc = "done" =>
            /\ sent = IF ret = 0 THEN good + 1 ELSE good
            /\ cut <= IF ret = SMP_ERROR_IO THEN bad + 1 ELSE bad

\* The errors are not 0, and not one another.
LEMMA ErrorsDiffer ==
    /\ Errors \cup {0} = {SMP_ERROR_NO_MEM, SMP_ERROR_OVERFLOW, SMP_ERROR_IO, SMP_ERROR_WOULD_BLOCK, 0}
    /\ 0 \notin {SMP_ERROR_NO_MEM, SMP_ERROR_OVERFLOW, SMP_ERROR_IO, SMP_ERROR_WOULD_BLOCK}
    /\ SMP_ERROR_IO \notin {SMP_ERROR_NO_MEM, SMP_ERROR_OVERFLOW, SMP_ERROR_WOULD_BLOCK}
  BY DEF Errors, SMP_ERROR_NO_MEM, SMP_ERROR_OVERFLOW, SMP_ERROR_IO, SMP_ERROR_WOULD_BLOCK

LEMMA CountInit == Init => CountInv
  <1> SUFFICES ASSUME Init PROVE CountInv
    OBVIOUS
  <1>1. \A x : {i \in 1 .. Len(<<>>) : <<>>[i] = x} = {}
    OBVIOUS
  <1>2. \A x : Times(x, <<>>) = 0
    BY <1>1, FS_EmptySet DEF Times
  <1> QED
    BY <1>2 DEF Init, CountInv

\* A call that returns r, and puts nothing more on the line.
LEMMA CountReturn ==
    ASSUME CountInv, NEW r \in Errors \cup {0}, Return(r), UNCHANGED <<line, ret>>,
           \/ pc # "done" /\ r \notin {0, SMP_ERROR_IO}
           \/ pc = "done" /\ r = ret
    PROVE  CountInv'
  <1>1. reported' = Append(reported, r) /\ pc' = "idle" /\ line' = line /\ ret' = ret
    BY DEF Return
  <1>2. /\ r = 0 => Times(0, reported') = Times(0, reported) + 1
        /\ r # 0 => Times(0, reported') = Times(0, reported)
        /\ r = SMP_ERROR_IO => Times(SMP_ERROR_IO, reported') = Times(SMP_ERROR_IO, reported) + 1
        /\ r # SMP_ERROR_IO => Times(SMP_ERROR_IO, reported') = Times(SMP_ERROR_IO, reported)
    BY <1>1, AppendTimes DEF CountInv
  <1>3. reported' \in Seq(Errors \cup {0})
    BY <1>1 DEF CountInv
  <1>4. /\ Times("whole", line) \in Nat /\ Times("part", line) \in Nat
        /\ Times(0, reported) \in Nat /\ Times(SMP_ERROR_IO, reported) \in Nat
    BY DEF CountInv
  <1>5. Times(0, reported') \in Nat /\ Times(SMP_ERROR_IO, reported') \in Nat
    BY <1>2, <1>4
  <1>6. Times("whole", line) = Times(0, reported') /\ Times("part", line) <= Times(SMP_ERROR_IO, reported')
    BY <1>2, <1>4, ErrorsDiffer DEF CountInv
  <1> QED
    BY <1>1, <1>3, <1>4, <1>5, <1>6 DEF CountInv

\* A step of the call before it writes.
LEMMA CountOn ==
    ASSUME CountInv, pc # "done", UNCHANGED <<line, reported>>,
           \/ pc' \in {"data", "message", "serial", "write"} /\ UNCHANGED ret
           \/ pc' = "done" /\ ret' \in Errors \ {0}
    PROVE  CountInv'
  BY ErrorsDiffer DEF CountInv

LEMMA CountWrite == ASSUME CountInv, Write PROVE CountInv'
  <1>1. pc' = "done" /\ UNCHANGED reported /\ pc = "write"
    BY DEF Write, Done
  <1>2. ASSUME NEW f \in {"whole", "part"}, line' = Append(line, f)
        PROVE  /\ line' \in Seq({"whole", "part"})
               /\ f = "whole" => /\ Times("whole", line') = Times("whole", line) + 1
                                 /\ Times("part", line') = Times("part", line)
               /\ f = "part" => /\ Times("whole", line') = Times("whole", line)
                                /\ Times("part", line') = Times("part", line) + 1
    BY <1>2, AppendTimes DEF CountInv
  <1>3. /\ Times("whole", line) \in Nat /\ Times("part", line) \in Nat
        /\ Times(0, reported) \in Nat /\ Times(SMP_ERROR_IO, reported) \in Nat
        /\ Times("whole", line) = Times(0, reported) /\ Times("part", line) <= Times(SMP_ERROR_IO, reported)
    BY <1>1 DEF CountInv
  <1>4. CASE \E e \in {SMP_ERROR_IO, SMP_ERROR_WOULD_BLOCK} : Done(e) /\ UNCHANGED line
    BY <1>1, <1>4, CountOn, ErrorsDiffer DEF Done
  <1>5. CASE Done(SMP_ERROR_IO) /\ line' = Append(line, "part")
    BY <1>1, <1>2, <1>3, <1>5, ErrorsDiffer DEF CountInv, Done
  <1>6. CASE Done(0) /\ line' = Append(line, "whole")
    BY <1>1, <1>2, <1>3, <1>6, ErrorsDiffer DEF CountInv, Done
  <1> QED
    BY <1>4, <1>5, <1>6 DEF Write

LEMMA CountStep == CountInv /\ [Next]_vars => CountInv'
  <1> SUFFICES ASSUME CountInv, [Next]_vars PROVE CountInv'
    OBVIOUS
  <1>1. CASE Send
    BY <1>1, CountReturn, CountOn, ErrorsDiffer DEF Send, Return
  <1>2. CASE EncodeMessage
    BY <1>2, CountOn, ErrorsDiffer DEF EncodeMessage, Done
  <1>3. CASE EncodeSerial
    BY <1>3, CountOn, ErrorsDiffer DEF EncodeSerial, Done
  <1>4. CASE Finish
    BY <1>4, CountReturn DEF Finish, CountInv
  <1>5. CASE AllocateData
    BY <1>5, CountReturn, CountOn, ErrorsDiffer DEF AllocateData, Return
  <1>6. CASE UNCHANGED vars
    BY <1>6 DEF vars, CountInv
  <1> QED
    BY <1>1, <1>2, <1>3, <1>4, <1>5, <1>6, CountWrite DEF Next

(***************************************************************************)
(* The calls that returned 0 are those whose frames are on the line whole, *)
(* and a frame is cut short only by a call that returned SMP_ERROR_IO.     *)
(***************************************************************************)
THEOREM ReturnTellsSent == Spec => []SuccessMeansSent
  <1>1. CountInv => SuccessMeansSent
    BY DEF CountInv, SuccessMeansSent
  <1> QED
    BY <1>1, CountInit, CountStep, PTL DEF Spec

=============================================================================
