--------------------------- MODULE ArduinoDevice ----------------------------
(***************************************************************************)
(* src/serial-device-arduino.cpp: serial devices over the Arduino class of *)
(* one port, with the millisecond counter that smp_serial_device_wait      *)
(* measures its timeout by.                                                *)
(*                                                                         *)
(* The bytes that come in go to a ring of the class, in its interrupt; a   *)
(* port over USB is ready only when its host has opened it.  Each look at  *)
(* the ring or the counter is a step.  The counter wraps at MillisMod.     *)
(***************************************************************************)
EXTENDS LibSmp

CONSTANTS
    Devices,        \* SmpSerialDevices
    RingSize,       \* of the ring of the class
    CHUNK_SIZE,     \* SMP_CONTEXT_PROCESS_CHUNK_SIZE, what one read asks for
    FrameSize,      \* bytes of a message on the line
    MillisMod,      \* 2^32: where the counter of milliseconds wraps
    MaxLag,         \* milliseconds between two looks of wait at the counter, at most
    Timeouts,       \* arguments of wait, in ms; negative: none
    Configs         \* arguments of set_config

ASSUME ArduinoAssumption ==
    /\ RingSize \in Nat \ {0} /\ CHUNK_SIZE \in Nat \ {0} /\ FrameSize \in Nat
    /\ MaxLag \in Nat \ {0}
    /\ MillisMod \in Nat /\ Timeouts \subseteq Int
    /\ \A t \in Timeouts : t + 3 * MaxLag < MillisMod
    /\ \A c \in Configs : c.baudrate \in Nat

VARIABLES
    fd,         \* of each device: 0, the index of the port, or -1
    port,       \* whether it was begun and not ended, and its configuration
    ready,      \* whether the host of the port is there: "yes" or "no"
    available,  \* bytes in the ring
    millis,     \* the counter
    lag,        \* milliseconds since wait looked at it
    call,       \* the call the library is in
    ret         \* what the last call returned

clock == <<millis, lag>>
vars == <<fd, port, ready, available, clock, call, ret>>

\* elapsed is the time since the call of wait began.
Idle == [pc |-> "idle", dev |-> "none", count |-> 0, timeout |-> 0, start |-> 0, elapsed |-> 0]

Modes == {"8N1", "8O1", "8E1"}

\* Longer than any wait takes.
MaxElapsed == MillisMod

TypeOK ==
    /\ fd \in [Devices -> {0, -1}]
    /\ port.begun \in {"yes", "no"} /\ port.baudrate \in Nat /\ port.mode \in Modes
    /\ ready \in {"yes", "no"} /\ available \in 0 .. RingSize
    /\ millis \in 0 .. MillisMod - 1 /\ lag \in 0 .. MaxLag
    /\ DOMAIN call = DOMAIN Idle /\ call.count \in 0 .. CHUNK_SIZE
    /\ call.elapsed \in 0 .. MaxElapsed /\ call.start \in 0 .. MillisMod - 1
    /\ ret \in Int

Init ==
    /\ fd = [d \in Devices |-> -1]
    /\ port = [begun |-> "no", baudrate |-> 0, mode |-> "8N1"]
    /\ ready \in {"yes", "no"} /\ available = 0
    /\ millis \in 0 .. MillisMod - 1 /\ lag = 0
    /\ call = Idle /\ ret = 0

-----------------------------------------------------------------------------
(* The board *)

\* A byte that comes into a full ring is dropped by the class.
RxInterrupt ==
    /\ port.begun = "yes" /\ available < RingSize
    /\ available' = available + 1
    /\ UNCHANGED <<fd, port, ready, clock, call, ret>>

HostComes ==
    /\ ready = "no" /\ ready' = "yes"
    /\ UNCHANGED <<fd, port, available, clock, call, ret>>

Timed == call.pc \in {"start", "poll", "look", "last"}

\* The loop of wait takes no longer than MaxLag.
Tick ==
    /\ Timed => lag < MaxLag
    /\ millis' = (millis + 1) % MillisMod
    /\ lag' = IF Timed THEN lag + 1 ELSE 0
    /\ call' = IF Timed /\ call.elapsed < MaxElapsed
               THEN [call EXCEPT !.elapsed = @ + 1] ELSE call
    /\ UNCHANGED <<fd, port, ready, available, ret>>

-----------------------------------------------------------------------------
Return(r) == call' = Idle /\ ret' = r

Step(pc) == call' = [call EXCEPT !.pc = pc] /\ UNCHANGED ret

\* The comparison is one of size_t: -1 is no index.
GetDeviceFromFd(f) == IF f = 0 THEN "device" ELSE "NULL"

\* A call on a device that is not open.
NoDevice(d) ==
    /\ call = Idle /\ GetDeviceFromFd(fd[d]) = "NULL" /\ Return(SMP_ERROR_NO_DEVICE)
    /\ UNCHANGED <<fd, port, ready, available, clock>>

On(d) == call = Idle /\ GetDeviceFromFd(fd[d]) = "device"

-----------------------------------------------------------------------------
(* Open, close and configure *)

OpenUnknown(d) ==
    /\ call = Idle /\ fd[d] = -1 /\ Return(SMP_ERROR_NO_DEVICE)
    /\ UNCHANGED <<fd, port, ready, available, clock>>

\* Whether another device has the port open is not looked at.
Open(d) ==
    /\ call = Idle /\ fd[d] = -1
    /\ port' = [begun |-> "yes", baudrate |-> 115200, mode |-> "8N1"]
    /\ call' = [Idle EXCEPT !.pc = "open", !.dev = d]
    /\ UNCHANGED <<fd, ready, available, clock, ret>>

OpenReady ==
    /\ call.pc = "open" /\ ready = "yes"
    /\ fd' = [fd EXCEPT ![call.dev] = 0] /\ Return(0)
    /\ UNCHANGED <<port, ready, available, clock>>

\* The class forgets the bytes of its ring.
Close(d) ==
    /\ On(d) /\ port' = [port EXCEPT !.begun = "no"] /\ available' = 0
    /\ fd' = [fd EXCEPT ![d] = -1]
    /\ UNCHANGED <<ready, clock, call, ret>>

Supported(wanted) == wanted.flow = 0 /\ wanted.baudrate # 300 /\ wanted.mode \in Modes

\* Nothing is changed for a configuration the device does not have; any other ends
\* the port and begins it again.
SetConfig(d, wanted) ==
    /\ On(d)
    /\ IF ~Supported(wanted)
       THEN Return(SMP_ERROR_INVALID_PARAM) /\ UNCHANGED <<port, available>>
       ELSE /\ port' = [begun |-> "yes", baudrate |-> wanted.baudrate, mode |-> wanted.mode]
            /\ available' = 0
            /\ call' = [Idle EXCEPT !.pc = "configure", !.dev = d] /\ UNCHANGED ret
    /\ UNCHANGED <<fd, ready, clock>>

Configured ==
    /\ call.pc = "configure" /\ ready = "yes" /\ Return(0)
    /\ UNCHANGED <<fd, port, ready, available, clock>>

-----------------------------------------------------------------------------
(* Write and read *)

\* The class waits until it has room for all of the bytes.
Write(d) ==
    /\ On(d) /\ Return(FrameSize)
    /\ UNCHANGED <<fd, port, ready, available, clock>>

Read(d) ==
    /\ On(d) /\ call' = [Idle EXCEPT !.pc = "read", !.dev = d]
    /\ UNCHANGED <<fd, port, ready, available, clock, ret>>

\* Mistake: a byte is read without looking whether there is one.
ReadByteUnchecked ==
    /\ call.pc = "read" /\ call.count < CHUNK_SIZE
    /\ available' = available - 1
    /\ call' = [call EXCEPT !.count = @ + 1]
    /\ UNCHANGED <<fd, port, ready, clock, ret>>

ReadByte ==
    /\ call.pc = "read" /\ call.count < CHUNK_SIZE /\ available > 0
    /\ available' = available - 1
    /\ call' = [call EXCEPT !.count = @ + 1]
    /\ UNCHANGED <<fd, port, ready, clock, ret>>

ReadEnds ==
    /\ call.pc = "read" /\ (call.count = CHUNK_SIZE \/ available = 0)
    /\ Return(call.count)
    /\ UNCHANGED <<fd, port, ready, available, clock>>

-----------------------------------------------------------------------------
(* Wait *)

Wait(d, t) ==
    /\ On(d)
    /\ IF available > 0 THEN Return(0)
       ELSE /\ call' = [Idle EXCEPT !.pc = IF t < 0 THEN "spin" ELSE "start",
                                    !.dev = d, !.timeout = t]
            /\ UNCHANGED ret
    /\ UNCHANGED <<fd, port, ready, available, millis>> /\ lag' = 0

WaitSpin ==
    /\ call.pc = "spin" /\ available > 0 /\ Return(0)
    /\ UNCHANGED <<fd, port, ready, available, clock>>

WaitStart ==
    /\ call.pc = "start" /\ call' = [call EXCEPT !.pc = "poll", !.start = millis]
    /\ lag' = 0 /\ UNCHANGED <<fd, port, ready, available, millis, ret>>

\* Mistake: the end of the wait is computed, and wraps.
TimeLeftToDeadline == millis < (call.start + call.timeout) % MillisMod

\* Mistake: the difference is one of signed numbers.
TimeLeftSigned == millis - call.start < call.timeout

\* The difference wraps as the counter does.
TimeLeft == (millis - call.start) % MillisMod < call.timeout

WaitPoll ==
    /\ call.pc = "poll" /\ Step(IF TimeLeft THEN "look" ELSE "last")
    /\ lag' = 0 /\ UNCHANGED <<fd, port, ready, available, millis>>

WaitLook ==
    /\ call.pc = "look" /\ IF available > 0 THEN Return(0) ELSE Step("poll")
    /\ UNCHANGED <<fd, port, ready, available, clock>>

WaitLast ==
    /\ call.pc = "last" /\ Return(IF available > 0 THEN 0 ELSE SMP_ERROR_TIMEDOUT)
    /\ UNCHANGED <<fd, port, ready, available, clock>>

-----------------------------------------------------------------------------
Calls ==
    \E d \in Devices :
        \/ NoDevice(d) \/ OpenUnknown(d) \/ Open(d) \/ Close(d) \/ Write(d) \/ Read(d)
        \/ \E wanted \in Configs : SetConfig(d, wanted)
        \/ \E t \in Timeouts : Wait(d, t)

Goes ==
    OpenReady \/ Configured \/ ReadByte \/ ReadEnds \/ WaitSpin \/ WaitStart \/ WaitPoll
        \/ WaitLook \/ WaitLast

Next == RxInterrupt \/ HostComes \/ Tick \/ Calls \/ Goes

Spec == Init /\ [][Next]_vars

\* A call that has begun goes on, and time passes.
FairSpec == Spec /\ WF_vars(Goes) /\ WF_vars(Tick)

-----------------------------------------------------------------------------
(* Properties *)

(***************************************************************************)
(* A device that is open has a port that runs, whichever devices were      *)
(* opened and closed before.                                               *)
(***************************************************************************)
OpenPortRuns == \A d \in Devices : fd[d] = 0 => port.begun = "yes"

(***************************************************************************)
(* A wait times out no earlier than it was asked to and hardly later, and  *)
(* only when no byte is there, wherever the counter wraps meanwhile.       *)
(***************************************************************************)
TimedOutInTime ==
    [][Timed /\ call' = Idle /\ ret' = SMP_ERROR_TIMEDOUT
       => /\ available = 0
          /\ call.elapsed \in call.timeout .. call.timeout + 3 * MaxLag]_vars

(***************************************************************************)
(* Every call ends: open and set_config when the host of the port is       *)
(* there, a wait without a timeout when a byte has come, any other by      *)
(* itself.                                                                 *)
(***************************************************************************)
CallsEnd ==
    /\ (call.pc \notin {"open", "configure", "spin"}) ~> (call = Idle)
    /\ (call.pc \in {"open", "configure"} /\ ready = "yes") ~> (call = Idle)
    /\ (call.pc = "spin" /\ available > 0) ~> (call = Idle)

=============================================================================
