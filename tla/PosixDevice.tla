---------------------------- MODULE PosixDevice -----------------------------
(***************************************************************************)
(* src/serial-device-posix.c: the serial device over open, termios, read,  *)
(* write and poll.                                                         *)
(***************************************************************************)
EXTENDS HostDevice

CONSTANTS
    Errnos,         \* error numbers system calls fail with
    RawClears,      \* of the flags xon and xoff, those cfmakeraw clears
    CloseErrno      \* error numbers close may leave behind

\* Every other error number is another error.
KnownErrnos ==
    [EINVAL |-> SMP_ERROR_INVALID_PARAM, EBADMSG |-> SMP_ERROR_BAD_MESSAGE,
     E2BIG |-> SMP_ERROR_TOO_BIG, ENOMEM |-> SMP_ERROR_NO_MEM,
     ENOENT |-> SMP_ERROR_NO_DEVICE, ETIMEDOUT |-> SMP_ERROR_TIMEDOUT,
     EBADF |-> SMP_ERROR_BAD_FD, ENOSYS |-> SMP_ERROR_NOT_SUPPORTED,
     EBUSY |-> SMP_ERROR_BUSY, EPERM |-> SMP_ERROR_PERM,
     EAGAIN |-> SMP_ERROR_WOULD_BLOCK, EIO |-> SMP_ERROR_IO]

ErrnoToSmpError(err) ==
    IF err \in DOMAIN KnownErrnos THEN KnownErrnos[err] ELSE SMP_ERROR_OTHER

Fd(c) == IF handle[c] < 0 THEN SMP_ERROR_BAD_FD ELSE handle[c]

-----------------------------------------------------------------------------
(* Open *)

\* A file that is no terminal needs no configuration.
Open(c) ==
    /\ MayOpen(c)
    /\ \/ \E e \in Errnos : Return(ErrnoToSmpError(e)) /\ UNCHANGED <<context, table>>
       \/ \E h \in Handles :
            /\ table[h] = "closed"
            /\ \/ table' = [table EXCEPT ![h] = "file"] /\ OpenSucceeds(c, h)
               \/ /\ plugged = "yes" /\ table' = [table EXCEPT ![h] = "tty"]
                  /\ call' = [Idle EXCEPT !.pc = "isatty", !.ctx = c, !.h = h]
                  /\ UNCHANGED <<context, ret>>
    /\ UNCHANGED port

\* A port that is gone is no terminal either.
OpenIsATty ==
    /\ call.pc = "isatty"
    /\ IF plugged = "yes" THEN Step("tcgetattr") /\ UNCHANGED context
       ELSE OpenSucceeds(call.ctx, call.h)
    /\ UNCHANGED <<table, port>>

OpenGetAttr ==
    /\ call.pc = "tcgetattr"
    /\ Step("tcsetattr") \/ \E e \in Errnos : Fails("close", e)
    /\ UNCHANGED <<context, table, port>>

\* Mistake: the flags of the last user are kept.
RawKeepsParity(old) == [old EXCEPT !.baudrate = 115200, !.xon = "no", !.xoff = "no"]

\* 115200 baud, and cfmakeraw, which leaves stop bits and the lines RTS and CTS as
\* they are.
Raw(old) ==
    [baudrate |-> 115200, parity |-> "none", stop |-> old.stop, cts |-> old.cts,
     xon |-> IF "xon" \in RawClears THEN "no" ELSE old.xon,
     xoff |-> IF "xoff" \in RawClears THEN "no" ELSE old.xoff]

OpenSetAttr ==
    /\ call.pc = "tcsetattr"
    /\ \/ /\ plugged = "yes" /\ config' = Raw(config) /\ OpenSucceeds(call.ctx, call.h)
       \/ (\E e \in Errnos : Fails("close", e)) /\ UNCHANGED <<context, config>>
    /\ UNCHANGED <<table, plugged, waiting, arrived>>

\* Mistake: the file stays open.
OpenFailsLeaking ==
    /\ call.pc = "close" /\ Return(ErrnoToSmpError(call.error))
    /\ UNCHANGED <<context, table, port>>

\* The error number is read after close.
OpenFails ==
    /\ call.pc = "close"
    /\ table' = [table EXCEPT ![call.h] = "closed"]
    /\ \E e \in CloseErrno \cup {call.error} : Return(ErrnoToSmpError(e))
    /\ UNCHANGED <<context, port>>

-----------------------------------------------------------------------------
(* The open device *)

Termios(old, wanted) ==
    [baudrate |-> wanted.baudrate, parity |-> wanted.parity,
     stop |-> old.stop, cts |-> old.cts, xon |-> wanted.flow, xoff |-> wanted.flow]

IsATty(c) == IF handle[c] = NoHandle THEN FALSE ELSE table[handle[c]] = "tty" /\ plugged = "yes"

\* A baud rate the library does not know is refused before anything is set.
SetConfig(c, wanted) ==
    /\ Ready(c)
    /\ \/ ~IsATty(c) /\ Return(SMP_ERROR_NOT_SUPPORTED) /\ UNCHANGED config
       \/ /\ handle[c] # NoHandle /\ table[handle[c]] = "tty"
          /\ \/ (\E e \in Errnos : Return(ErrnoToSmpError(e))) /\ UNCHANGED config
             \/ wanted.baudrate = 300 /\ Return(SMP_ERROR_INVALID_PARAM) /\ UNCHANGED config
             \/ /\ wanted.baudrate # 300 /\ plugged = "yes"
                /\ config' = Termios(config, wanted) /\ Return(0)
    /\ UNCHANGED <<context, table, plugged, waiting, arrived>>

\* What the device of the call is open on.
File == table[handle[call.ctx]]

\* A file other than the port takes what it is given; a port takes what fits.
Writes ==
    IF File = "file" THEN {FrameSize}
    ELSE IF plugged = "no" THEN {ErrnoToSmpError("EIO")}
    ELSE 1 .. FrameSize \cup {ErrnoToSmpError("EAGAIN")}

Write ==
    /\ call.pc = "write" /\ \E n \in Writes : WriteGives(n)
    /\ UNCHANGED <<context, table, port>>

\* Mistake: the end of the file is taken for an empty line.
ReadsEofEmpty ==
    IF plugged = "no" THEN {0} ELSE IF waiting = 0 THEN {SMP_ERROR_WOULD_BLOCK} ELSE {1}

\* Mistake: the size that was asked for is returned for the size read.
ReadsAllOfChunk == IF waiting = 0 THEN {SMP_ERROR_WOULD_BLOCK} ELSE {CHUNK_SIZE}

\* Nothing read is the end of the file: the port is gone.  What another file holds
\* is left out.
Reads ==
    LET eof == 0 IN
    {IF n = eof THEN SMP_ERROR_PIPE ELSE n :
        n \in IF File = "file" THEN {eof, ErrnoToSmpError("EAGAIN")}
              ELSE IF plugged = "no" THEN {eof, ErrnoToSmpError("EIO")}
              ELSE IF waiting = 0 THEN {ErrnoToSmpError("EAGAIN")}
              ELSE {k \in 1 .. CHUNK_SIZE : k <= waiting}}

Read ==
    /\ call.pc = "read"
    /\ \E n \in Reads : ReadGives(n) /\ waiting' = IF n > 0 THEN waiting - n ELSE waiting
    /\ UNCHANGED <<context, table, config, plugged, arrived>>

\* A signal ends poll too.  A port that is gone has POLLHUP, alone or with POLLERR.
Polls ==
    {ErrnoToSmpError("EINTR")}
        \cup (IF File = "file" THEN {0, SMP_ERROR_TIMEDOUT}
              ELSE IF plugged = "no" THEN {0, SMP_ERROR_PIPE}
              ELSE IF waiting > 0 THEN {0} ELSE {SMP_ERROR_TIMEDOUT})

Wait ==
    /\ call.pc = "wait" /\ \E r \in Polls : WaitGives(r)
    /\ UNCHANGED <<context, table, port>>

-----------------------------------------------------------------------------
Library ==
    \/ \E c \in Contexts : Open(c) \/ \E wanted \in Configs : SetConfig(c, wanted)
    \/ OpenIsATty \/ OpenGetAttr \/ OpenSetAttr \/ OpenFails \/ Write \/ Read \/ Wait

=============================================================================
