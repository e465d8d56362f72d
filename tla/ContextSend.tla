---------------------------- MODULE ContextSend -----------------------------
(***************************************************************************)
(* smp_context_send_message of src/context.c, with the buffers of          *)
(* src/buffer.c: a message buffer and a serial buffer, each the user's or  *)
(* allocated for the call, through every way the call can fail.            *)
(*                                                                         *)
(* The sizes are left out but for whether the user's buffers hold them; a  *)
(* frame on the line is whole or cut short.  Memory allocated by the call  *)
(* is a set of the names of its blocks.                                    *)
(***************************************************************************)
EXTENDS LibSmp, Sequences, FiniteSets

CONSTANTS MaxCalls      \* calls of send_message

VARIABLES
    msg_tx, serial_tx,  \* whose buffers they are: "user" or "none"
    pc,                 \* where in the call
    heap,               \* blocks allocated and not freed
    serial_buf,         \* "null", "user" or "heap"
    line,               \* what was put on the line: "whole" and "part", in order
    reported,           \* what the calls so far returned, in order
    ret

buffers == <<msg_tx, serial_tx>>
vars == <<buffers, pc, heap, serial_buf, line, reported, ret>>

Blocks == {"struct", "data", "serial"}

Errors == {SMP_ERROR_NO_MEM, SMP_ERROR_OVERFLOW, SMP_ERROR_IO, SMP_ERROR_WOULD_BLOCK}

TypeOK ==
    /\ msg_tx \in {"user", "none"} /\ serial_tx \in {"user", "none"}
    /\ pc \in {"idle", "data", "message", "serial", "write", "done"}
    /\ heap \subseteq Blocks /\ serial_buf \in {"null", "user", "heap"}
    /\ line \in Seq({"whole", "part"}) /\ Len(line) <= Len(reported) + 1
    /\ reported \in Seq(Errors \cup {0}) /\ ret \in Errors \cup {0}

\* smp_context_new_from_static asks for both buffers, smp_context_new for none.
Init ==
    /\ msg_tx \in {"user", "none"} /\ serial_tx = msg_tx
    /\ pc = "idle" /\ heap = {} /\ serial_buf = "null"
    /\ line = <<>> /\ reported = <<>> /\ ret = 0

-----------------------------------------------------------------------------
Return(r) == pc' = "idle" /\ reported' = Append(reported, r)

\* goto done
Done(r) == pc' = "done" /\ ret' = r /\ UNCHANGED reported

\* The message buffer: the structure of a new one, or the user's when it is large
\* enough; these failures return at once.
Send ==
    /\ pc = "idle" /\ Len(reported) < MaxCalls
    /\ \/ /\ msg_tx = "none"
          /\ \/ heap' = {"struct"} /\ pc' = "data" /\ UNCHANGED reported
             \/ Return(SMP_ERROR_NO_MEM) /\ UNCHANGED heap
       \/ /\ msg_tx = "user" /\ UNCHANGED heap
          /\ \/ pc' = "message" /\ UNCHANGED reported
             \/ Return(SMP_ERROR_OVERFLOW)
    /\ serial_buf' = "null" /\ UNCHANGED <<buffers, line, ret>>

\* Mistake: the structure is kept when its data is refused.
AllocateDataOrLeak ==
    /\ pc = "data"
    /\ \/ heap' = heap \cup {"data"} /\ pc' = "message" /\ UNCHANGED reported
       \/ Return(SMP_ERROR_NO_MEM) /\ UNCHANGED heap
    /\ UNCHANGED <<buffers, serial_buf, line, ret>>

\* The data of a new buffer; when it is refused the structure is freed.
AllocateData ==
    /\ pc = "data"
    /\ \/ heap' = heap \cup {"data"} /\ pc' = "message" /\ UNCHANGED reported
       \/ Return(SMP_ERROR_NO_MEM) /\ heap' = heap \ {"struct"}
    /\ UNCHANGED <<buffers, serial_buf, line, ret>>

EncodeMessage ==
    /\ pc = "message"
    /\ \/ pc' = "serial" /\ UNCHANGED <<ret, reported>>
       \/ Done(SMP_ERROR_OVERFLOW)
    /\ UNCHANGED <<buffers, heap, serial_buf, line>>

\* Allocated by the encoder, or the user's when it is large enough.
EncodeSerial ==
    /\ pc = "serial"
    /\ \/ /\ serial_tx = "none"
          /\ \/ /\ serial_buf' = "heap" /\ heap' = heap \cup {"serial"} /\ pc' = "write"
                /\ UNCHANGED <<ret, reported>>
             \/ Done(SMP_ERROR_NO_MEM) /\ UNCHANGED <<heap, serial_buf>>
       \/ /\ serial_tx = "user" /\ serial_buf' = "user" /\ UNCHANGED heap
          /\ \/ pc' = "write" /\ UNCHANGED <<ret, reported>>
             \/ Done(SMP_ERROR_OVERFLOW)
    /\ UNCHANGED <<buffers, line>>

\* Mistake: a short write counts as a success.
WriteShortIsFine ==
    /\ pc = "write"
    /\ \/ \E e \in {SMP_ERROR_IO, SMP_ERROR_WOULD_BLOCK} : Done(e) /\ UNCHANGED line
       \/ Done(0) /\ line' = Append(line, "part")
       \/ Done(0) /\ line' = Append(line, "whole")
    /\ UNCHANGED <<buffers, heap, serial_buf>>

Write ==
    /\ pc = "write"
    /\ \/ \E e \in {SMP_ERROR_IO, SMP_ERROR_WOULD_BLOCK} : Done(e) /\ UNCHANGED line
       \/ Done(SMP_ERROR_IO) /\ line' = Append(line, "part")
       \/ Done(0) /\ line' = Append(line, "whole")
    /\ UNCHANGED <<buffers, heap, serial_buf>>

\* smp_buffer_free of the message buffer, and free of the serial one.
Freed ==
    (IF msg_tx = "none" THEN {"struct", "data"} ELSE {})
        \cup (IF serial_tx = "none" /\ serial_buf # "null" THEN {"serial"} ELSE {})

Finish ==
    /\ pc = "done" /\ Return(ret) /\ heap' = heap \ Freed
    /\ UNCHANGED <<buffers, serial_buf, line, ret>>

Next == Send \/ AllocateData \/ EncodeMessage \/ EncodeSerial \/ Write \/ Finish

Spec == Init /\ [][Next]_vars

-----------------------------------------------------------------------------
(* Properties *)

(***************************************************************************)
(* Between calls nothing the call allocated is left, whichever of its      *)
(* steps failed, and it frees only what it allocated.                      *)
(***************************************************************************)
BuffersReturned == (pc = "idle" => heap = {}) /\ (pc = "done" => Freed \subseteq heap)

\* How often an element is in a sequence.
Times(x, s) == Cardinality({i \in 1 .. Len(s) : s[i] = x})

(***************************************************************************)
(* The caller can tell from what the calls returned which messages are on  *)
(* the line: the whole frames are as many as the calls that returned 0,    *)
(* and a frame is cut short only for an error.                             *)
(***************************************************************************)
SuccessMeansSent ==
    pc = "idle" =>
        /\ Times("whole", line) = Times(0, reported)
        /\ Times("part", line) <= Times(SMP_ERROR_IO, reported)

=============================================================================
