---------------------------- MODULE FrameChannel ----------------------------
(***************************************************************************)
(* What two users of the library see of a serial line that works: one      *)
(* frame at a time is sent, and handed over unaltered before the next one. *)
(***************************************************************************)
EXTENDS Naturals, Sequences

CONSTANTS Payloads, MaxFrames

VARIABLES sent, received

Init == sent = <<>> /\ received = <<>>

Send(p) ==
    /\ sent = received /\ Len(sent) < MaxFrames
    /\ sent' = Append(sent, p) /\ UNCHANGED received

Receive ==
    /\ sent # received
    /\ received' = sent /\ UNCHANGED sent

Next == (\E p \in Payloads : Send(p)) \/ Receive

Spec == Init /\ [][Next]_<<sent, received>> /\ WF_<<sent, received>>(Receive)

=============================================================================
