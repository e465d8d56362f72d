----------------------------- MODULE SerialLink -----------------------------
(***************************************************************************)
(* A sender and the frame decoder at the two ends of a serial line.  The   *)
(* sender transmits, byte by byte, what smp_serial_protocol_encode writes  *)
(* for a payload; the decoder consumes each byte as it comes (a line that  *)
(* queues bytes in order would change nothing: the decoder is driven by    *)
(* the bytes alone).                                                       *)
(*                                                                         *)
(* What goes wrong on the way: a frame stops in the middle, because the    *)
(* device accepted only part of it and smp_context_send_message returned   *)
(* SMP_ERROR_IO, or the peer was reset; and bytes of no frame are on the   *)
(* line between two frames.                                                *)
(***************************************************************************)
EXTENDS SerialDecoder

CONSTANTS
    Payloads,          \* what the sender may send
    MaxFrames,         \* bound on the frames sent
    MaxTruncations,    \* bound on the frames cut short
    MaxNoise           \* bound on the stray bytes

ASSUME LinkAssumption ==
    /\ Payloads \subseteq Seq(Byte)
    /\ MaxFrames \in Nat /\ MaxTruncations \in Nat /\ MaxNoise \in Nat

VARIABLES
    phase,          \* of the sender, see Phases
    payload,        \* the payload being sent, or sent last
    idx,            \* next position of Body(payload) to send
    entry,          \* the state that frame's start byte found the decoder in
    reported,       \* the last error the decoder reported after that start byte, or 0
    sent,           \* the payloads of the frames started so far
    received,       \* the payloads handed over so far
    truncations,
    noise

sender == <<phase, payload, idx, entry, reported, sent, received, truncations, noise>>
linkVars == <<vars, sender>>

\* "quiet": nothing sent yet or a complete frame just sent; "broken": a frame cut
\* short, or stray bytes; "data" and "escaped": in the frame, the latter between an
\* escape byte and the byte it escapes.
Phases == {"quiet", "broken", "data", "escaped"}

Sending == phase \in {"data", "escaped"}

LinkTypeOK ==
    /\ TypeOK
    /\ alloc # "none"
    /\ phase \in Phases
    /\ payload \in Seq(Byte)
    /\ idx \in 1 .. Len(Body(payload)) + 1
    /\ entry \in States /\ reported \in Int
    /\ sent \in Seq(Seq(Byte)) /\ received \in Seq(Seq(Byte))
    /\ truncations \in 0 .. MaxTruncations /\ noise \in 0 .. MaxNoise

\* A decoder just made: static, over storage that holds anything, or on the heap.
Made ==
    /\ state = "WAIT_HEADER"
    /\ \/ /\ alloc = "static" /\ bufsize \in StaticSizes /\ maxsize = bufsize
          /\ buf \in [0 .. bufsize - 1 -> Byte] /\ offset \in SizeT
       \/ /\ alloc = "heap" /\ bufsize \in HeapSizes \ {0}
          /\ maxsize = DEFAULT_MAXIMUM_DECODER_BUFFER_SIZE /\ bufsize <= maxsize
          /\ buf = [i \in 0 .. bufsize - 1 |-> Zero] /\ offset = 0

LinkInit ==
    /\ Made /\ given = {} /\ ret = 0 /\ frame = "NULL" /\ framesize = 0
    /\ phase = "quiet" /\ payload = <<>> /\ idx = 1
    /\ entry = "WAIT_HEADER" /\ reported = 0
    /\ sent = <<>> /\ received = <<>>
    /\ truncations = 0 /\ noise = 0

-----------------------------------------------------------------------------
\* A byte reaches the decoder, and whatever it completes is handed over.
Transmit(byte) ==
    /\ ProcessByte(byte)
    /\ received' = IF frame' = "buf" THEN Append(received, Content(framesize)') ELSE received

Report == reported' = IF ret' < 0 THEN ret' ELSE reported

Body1 == Body(payload)[idx]

StartFrame(p) ==
    /\ ~Sending /\ Len(sent) < MaxFrames
    /\ Transmit(START_BYTE)
    /\ phase' = "data" /\ payload' = p /\ idx' = 1
    /\ entry' = state /\ reported' = 0
    /\ sent' = Append(sent, p)
    /\ UNCHANGED <<truncations, noise>>

SendEscape ==
    /\ phase = "data" /\ idx <= Len(Body(payload)) /\ IsMagicByte(Body1)
    /\ Transmit(ESC_BYTE)
    /\ phase' = "escaped" /\ Report
    /\ UNCHANGED <<payload, idx, entry, sent, truncations, noise>>

SendData ==
    /\ \/ phase = "data" /\ idx <= Len(Body(payload)) /\ ~IsMagicByte(Body1)
       \/ phase = "escaped"
    /\ Transmit(Body1)
    /\ phase' = "data" /\ idx' = idx + 1 /\ Report
    /\ UNCHANGED <<payload, entry, sent, truncations, noise>>

SendEnd ==
    /\ phase = "data" /\ idx > Len(Body(payload))
    /\ Transmit(END_BYTE)
    /\ phase' = "quiet" /\ Report
    /\ UNCHANGED <<payload, idx, entry, sent, truncations, noise>>

\* The rest of the frame is never sent.
Truncate ==
    /\ Sending /\ truncations < MaxTruncations
    /\ phase' = "broken" /\ truncations' = truncations + 1
    /\ UNCHANGED <<vars, payload, idx, entry, reported, sent, received, noise>>

Noise(byte) ==
    /\ ~Sending /\ noise < MaxNoise
    /\ Transmit(byte)
    /\ phase' = "broken" /\ noise' = noise + 1
    /\ UNCHANGED <<payload, idx, entry, reported, sent, truncations>>

Proceed == SendEscape \/ SendData \/ SendEnd

LinkNext ==
    \/ \E p \in Payloads : StartFrame(p)
    \/ Proceed
    \/ Truncate
    \/ \E byte \in Byte : Noise(byte)

LinkSpec == LinkInit /\ [][LinkNext]_linkVars

\* The device goes on writing what it accepted; nobody has to start a frame.
FairLinkSpec == LinkSpec /\ WF_linkVars(Proceed)

-----------------------------------------------------------------------------
(* Properties *)

(***************************************************************************)
(* Self-synchronisation: whatever the line carried before, when a complete *)
(* frame has gone by a static decoder waits for a header.  The next frame  *)
(* therefore starts clean: an upset costs at most one complete frame.      *)
(***************************************************************************)
SelfSynchronising == alloc = "static" /\ phase = "quiet" => state = "WAIT_HEADER"

\* The start byte of the current frame was taken for one.
Clean == entry # "IN_FRAME_ESC"

Delivered == frame = "buf" /\ Content(framesize) = payload

\* A heap decoder grows, but only when it gets the memory.
Fits == alloc = "static" /\ Len(Body(payload)) <= bufsize

(***************************************************************************)
(* A complete frame that started clean and whose payload and checksum fit  *)
(* the buffer is handed over, unaltered, at its end byte.                  *)
(***************************************************************************)
CleanFrameDelivered ==
    phase = "quiet" /\ sent # <<>> /\ Clean /\ Fits => Delivered

(***************************************************************************)
(* A complete frame that started clean is handed over or an error is       *)
(* reported while it goes by, however large it is.                         *)
(***************************************************************************)
NoSilentLoss ==
    phase = "quiet" /\ sent # <<>> /\ Clean => reported < 0 \/ Delivered

(***************************************************************************)
(* The decoder never hands over something in the middle of a frame that    *)
(* started clean and fits: no data byte is taken for a start or an end.    *)
(***************************************************************************)
NothingForged == Sending /\ Clean /\ Fits => frame = "NULL" /\ reported = 0

(***************************************************************************)
(* Every frame handed over was sent.                                       *)
(***************************************************************************)
DeliveredWereSent == \A i \in DOMAIN received : \E j \in DOMAIN sent : received[i] = sent[j]

(***************************************************************************)
(* A frame without its end byte costs that frame only: the decoder         *)
(* resynchronises on the start byte of the next one, which is delivered    *)
(* if it fits.                                                             *)
(***************************************************************************)
ResyncOnStartByte == phase = "quiet" /\ sent # <<>> /\ Fits => Delivered

(***************************************************************************)
(* On a line that neither truncates frames nor carries stray bytes, and    *)
(* with payloads that fit, the link is a channel: payloads are handed over *)
(* once each, unaltered and in order, and all of them in the end.          *)
(***************************************************************************)
Channel == INSTANCE FrameChannel

IsChannel == Channel!Spec

=============================================================================
