---------------------------- MODULE MCHostDevice ----------------------------
(***************************************************************************)
(* The contexts of HostDevice over either of the two devices: the system   *)
(* os is one the library was built for, and does not change.               *)
(***************************************************************************)
EXTENDS HostDevice, TLC

CONSTANTS
    Errnos, RawClears, CloseErrno,  \* of PosixDevice
    LastErrors, CloseError          \* of Win32Device

\* Every cfmakeraw clears IXON; whether it clears IXOFF differs.
ASSUME RawAssumption == "xon" \in RawClears

VARIABLE os     \* "posix" or "win32"

vars == <<hostVars, os>>

P == INSTANCE PosixDevice
W == INSTANCE Win32Device

Posix == os = "posix" /\ P!Library
Win32 == os = "win32" /\ W!Library

Init == HostInit /\ os \in {"posix", "win32"}

Next == (System \/ Contextual \/ Posix \/ Win32) /\ UNCHANGED os

Spec == Init /\ [][Next]_vars

Translated(error) ==
    IF os = "posix" THEN P!ErrnoToSmpError(error) ELSE W!WinErrorToSmpError(error)

Fd(c) == IF os = "posix" THEN P!Fd(c) ELSE W!Fd(c)

MCConfigs ==
    {[baudrate |-> 115200, parity |-> "odd", flow |-> "no"],
     [baudrate |-> 300, parity |-> "none", flow |-> "no"],
     [baudrate |-> 9600, parity |-> "none", flow |-> "yes"]}

MCSymmetry == Permutations(Contexts)

-----------------------------------------------------------------------------
(* Properties *)

TypeOK == HostTypeOK /\ os \in {"posix", "win32"}

(***************************************************************************)
(* However opens fail and whatever the rest of the process opens and       *)
(* closes, the files the library has open are those of its open contexts   *)
(* and the one it is opening, each its own: none is leaked, none is closed *)
(* behind a context's back, and a closed context refers to none.           *)
(***************************************************************************)
OwnHandles ==
    LET held == {c \in Contexts : handle[c] # NoHandle} IN
    /\ held = {c \in Contexts : opened[c] = "yes"}
    /\ Ours = {handle[c] : c \in held} \cup ({call.h} \ {NoHandle})
    /\ \A c, d \in held : handle[c] = handle[d] => c = d
    /\ call.h \notin {handle[c] : c \in held} \ {NoHandle}
    /\ \A c \in Contexts \ held : Fd(c) < 0

LeftByClose == IF os = "posix" THEN CloseErrno ELSE {}

(***************************************************************************)
(* An open of which a system call failed returns an error and opens no     *)
(* context.  On Win32 the error is that of the first call that failed; on  *)
(* POSIX, which reads errno after close, it may be what close left there.  *)
(***************************************************************************)
FailureReported ==
    [][call.cause # NoCause /\ call' = Idle =>
        /\ ret' < 0 /\ UNCHANGED opened
        /\ ret' \in {Translated(e) : e \in LeftByClose \cup {call.cause}}]_vars

(***************************************************************************)
(* The error is that of the first call that failed: not so on POSIX.       *)
(***************************************************************************)
CauseReported ==
    [][call.cause # NoCause /\ call' = Idle => ret' = Translated(call.cause)]_vars

\* An open of a port that is there has succeeded for c.
OpensPort(c) ==
    opened[c] = "no" /\ opened'[c] = "yes" /\ table'[handle'[c]] = "tty" /\ plugged = "yes"

\* The part of the configuration that an open sets.
SetByOpen == IF os = "win32" THEN DOMAIN Plain ELSE {"baudrate", "parity", "xon"}

(***************************************************************************)
(* A port that was opened has the speed and the parity of the protocol and *)
(* sends without waiting for XON, whatever its last user made of it; on    *)
(* Win32 the whole of its configuration is that of the protocol.           *)
(***************************************************************************)
OpenedRaw ==
    [][\A c \in Contexts : OpensPort(c) => \A f \in SetByOpen : config'[f] = Plain[f]]_vars

(***************************************************************************)
(* On POSIX too the whole of it is: not so, stop bits and the flow control *)
(* by RTS and CTS, and with most C libraries XOFF, are the last user's.    *)
(***************************************************************************)
OpenedPlain ==
    [][\A c \in Contexts : OpensPort(c) => config' = Plain]_vars

(***************************************************************************)
(* Processing, waiting and sending on a port that was removed, before the  *)
(* call or during it, ends neither well nor with a timeout nor with an     *)
(* error that says to try again, when the call's last system call came     *)
(* after the removal.                                                      *)
(***************************************************************************)
HangupReported ==
    [][/\ call.pc \in {"read", "wait", "write"} /\ plugged = "no"
       /\ table[handle[call.ctx]] = "tty" /\ call' = Idle
       => ret' < 0 /\ ret' \notin {SMP_ERROR_TIMEDOUT, SMP_ERROR_WOULD_BLOCK}]_vars

=============================================================================
