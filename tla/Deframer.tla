------------------------------ MODULE Deframer ------------------------------
(***************************************************************************)
(* What a deframer promises, whatever its storage: it hunts for a start    *)
(* byte, collects bytes up to an end byte, undoes the escaping, and hands  *)
(* over the content when its last byte is the checksum of the others.  At  *)
(* any byte it may run out of room, and then it says so.  What it hands    *)
(* over depends on the bytes it was given and on nothing else.             *)
(*                                                                         *)
(* SerialDecoder implements this specification (Deframes).                 *)
(***************************************************************************)
EXTENDS Naturals, Sequences

CONSTANTS Byte, START_BYTE, END_BYTE, ESC_BYTE, ComputeChecksum(_)

VARIABLES
    mode,       \* "hunting", "collecting" or "escaping"
    content,    \* the unescaped bytes since the start byte
    given,      \* the byte of the last call: {byte}, or {} when it was about none
    verdict,    \* what the last call said: "quiet" or "error"
    out         \* the payload the last call handed over: {} or {payload}

vars == <<mode, content, given, verdict, out>>

Magic == {START_BYTE, END_BYTE, ESC_BYTE}

Say(what) == verdict' = what /\ out' = {}

Valid(c) == Len(c) >= 1 /\ c[Len(c)] = ComputeChecksum(SubSeq(c, 1, Len(c) - 1))

Hunt == mode' = "hunting" /\ content' = <<>>

Begin == mode' = "collecting" /\ content' = <<>>

Init ==
    /\ mode = "hunting" /\ content = <<>>
    /\ given = {} /\ verdict \in {"quiet", "error"} /\ out = {}

\* A byte outside a frame opens one or is ignored.
Idle(byte) ==
    /\ mode = "hunting"
    /\ IF byte = START_BYTE THEN Begin ELSE UNCHANGED <<mode, content>>
    /\ Say("quiet")

\* A start byte inside a frame: the open frame is lost, this byte opens another.
Restart == mode = "collecting" /\ Begin /\ Say("error")

Escape == mode = "collecting" /\ mode' = "escaping" /\ Say("quiet") /\ UNCHANGED content

Deliver ==
    /\ mode = "collecting" /\ Valid(content)
    /\ Hunt
    /\ verdict' = "quiet" /\ out' = {SubSeq(content, 1, Len(content) - 1)}

Reject == mode = "collecting" /\ ~Valid(content) /\ Hunt /\ Say("error")

Collect(byte) ==
    /\ mode = "escaping" \/ (mode = "collecting" /\ byte \notin Magic)
    /\ mode' = "collecting" /\ content' = Append(content, byte)
    /\ Say("quiet")

\* No room for the byte.  The frame is given up, unless the refused byte is an
\* escaped start byte: then the deframer goes on waiting for the escaped byte.
Refuse(byte) ==
    /\ mode = "escaping" \/ (mode = "collecting" /\ byte \notin Magic)
    /\ IF byte = START_BYTE THEN UNCHANGED <<mode, content>> ELSE Hunt
    /\ Say("error")

Accept(byte) ==
    /\ given' = {byte}
    /\ \/ Idle(byte)
       \/ byte = START_BYTE /\ Restart
       \/ byte = ESC_BYTE /\ Escape
       \/ byte = END_BYTE /\ (Deliver \/ Reject)
       \/ Collect(byte)
       \/ Refuse(byte)

\* The deframer is (re)initialised, freed, or asked something else than a byte.
NoByte == given' = {} /\ verdict' \in {"quiet", "error"} /\ out' = {}
Reset == Hunt /\ NoByte
Other == UNCHANGED <<mode, content>> /\ NoByte

Next == (\E byte \in Byte : Accept(byte)) \/ Reset \/ Other

Spec == Init /\ [][Next]_vars

=============================================================================
