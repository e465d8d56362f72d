---------------------------- MODULE Win32Device -----------------------------
(***************************************************************************)
(* src/serial-device-win32.c: the serial device over CreateFile, the comm  *)
(* functions, ReadFile, WriteFile and WaitForSingleObject.                 *)
(***************************************************************************)
EXTENDS HostDevice

CONSTANTS
    LastErrors,     \* error codes system calls fail with
    CloseError      \* error codes CloseHandle may leave behind

KnownErrors ==
    [ERROR_FILE_NOT_FOUND |-> SMP_ERROR_NOT_FOUND, ERROR_PATH_NOT_FOUND |-> SMP_ERROR_NOT_FOUND,
     ERROR_ACCESS_DENIED |-> SMP_ERROR_PERM, ERROR_INVALID_ACCESS |-> SMP_ERROR_PERM,
     ERROR_INVALID_HANDLE |-> SMP_ERROR_BAD_FD,
     ERROR_NOT_ENOUGH_MEMORY |-> SMP_ERROR_NO_MEM, ERROR_OUTOFMEMORY |-> SMP_ERROR_NO_MEM,
     ERROR_NOT_SUPPORTED |-> SMP_ERROR_NOT_SUPPORTED,
     ERROR_DEV_NOT_EXIST |-> SMP_ERROR_NO_DEVICE,
     ERROR_FILE_EXISTS |-> SMP_ERROR_EXIST, ERROR_ALREADY_EXISTS |-> SMP_ERROR_EXIST,
     ERROR_INVALID_PARAMETER |-> SMP_ERROR_INVALID_PARAM, ERROR_BUSY |-> SMP_ERROR_BUSY]

WinErrorToSmpError(error) ==
    IF error \in DOMAIN KnownErrors THEN KnownErrors[error] ELSE SMP_ERROR_OTHER

\* Whatever the handle is, open or not.
Fd(c) == handle[c]

-----------------------------------------------------------------------------
(* Open *)

\* The port is opened for this process alone.
Open(c) ==
    /\ MayOpen(c)
    /\ \/ /\ \E e \in LastErrors : Return(WinErrorToSmpError(e))
          /\ UNCHANGED <<context, table>>
       \/ \E h \in Handles :
            /\ table[h] = "closed" /\ plugged = "yes" /\ \A k \in Handles : table[k] # "tty"
            /\ table' = [table EXCEPT ![h] = "tty"]
            /\ call' = [Idle EXCEPT !.pc = "GetCommState", !.ctx = c, !.h = h]
            /\ UNCHANGED <<context, ret>>
    /\ UNCHANGED port

OpenGetState ==
    /\ call.pc = "GetCommState"
    /\ Step("SetCommState") \/ \E e \in LastErrors : Fails("CloseHandle", e)
    /\ UNCHANGED <<context, table, port>>

OpenSetState ==
    /\ call.pc = "SetCommState"
    /\ \/ plugged = "yes" /\ config' = Plain /\ Step("SetCommTimeouts")
       \/ (\E e \in LastErrors : Fails("CloseHandle", e)) /\ UNCHANGED config
    /\ UNCHANGED <<context, table, plugged, waiting, arrived>>

OpenSetTimeouts ==
    /\ call.pc = "SetCommTimeouts"
    /\ \/ OpenSucceeds(call.ctx, call.h)
       \/ (\E e \in LastErrors : Fails("CloseHandle", e)) /\ UNCHANGED context
    /\ UNCHANGED <<table, port>>

\* Mistake: the error is read after the handle was closed.
OpenFailsLate ==
    /\ call.pc = "CloseHandle"
    /\ table' = [table EXCEPT ![call.h] = "closed"]
    /\ \E e \in CloseError \cup {call.error} : Return(WinErrorToSmpError(e))
    /\ UNCHANGED <<context, port>>

\* The error is read before the handle is closed.
OpenFails ==
    /\ call.pc = "CloseHandle"
    /\ table' = [table EXCEPT ![call.h] = "closed"]
    /\ Return(WinErrorToSmpError(call.error))
    /\ UNCHANGED <<context, port>>

-----------------------------------------------------------------------------
(* The open device *)

CommState(old, wanted) ==
    [baudrate |-> wanted.baudrate, parity |-> wanted.parity,
     stop |-> old.stop, cts |-> old.cts, xon |-> wanted.flow, xoff |-> wanted.flow]

SetConfig(c, wanted) ==
    /\ Ready(c)
    /\ \/ /\ handle[c] = NoHandle /\ Return(WinErrorToSmpError("ERROR_INVALID_HANDLE"))
          /\ UNCHANGED config
       \/ /\ handle[c] # NoHandle
          /\ \/ (\E e \in LastErrors : Return(WinErrorToSmpError(e))) /\ UNCHANGED config
             \/ wanted.baudrate = 300 /\ Return(SMP_ERROR_INVALID_PARAM) /\ UNCHANGED config
             \/ /\ wanted.baudrate # 300 /\ plugged = "yes"
                /\ config' = CommState(config, wanted) /\ Return(0)
    /\ UNCHANGED <<context, table, plugged, waiting, arrived>>

\* An access denied means that the port was removed.
Transfer(error) ==
    IF error = "ERROR_ACCESS_DENIED" THEN SMP_ERROR_PIPE ELSE WinErrorToSmpError(error)

Writes ==
    IF plugged = "no" THEN {Transfer("ERROR_ACCESS_DENIED")}
    ELSE 0 .. FrameSize \cup {Transfer(e) : e \in LastErrors}

Write ==
    /\ call.pc = "write" /\ \E n \in Writes : WriteGives(n)
    /\ UNCHANGED <<context, table, port>>

\* Read never blocks: nothing read is an empty line.
Reads ==
    IF plugged = "no" THEN {Transfer("ERROR_ACCESS_DENIED")}
    ELSE IF waiting = 0 THEN {0}
    ELSE {k \in 1 .. CHUNK_SIZE : k <= waiting}

Read ==
    /\ call.pc = "read"
    /\ \E n \in Reads : ReadGives(n) /\ waiting' = IF n > 0 THEN waiting - n ELSE waiting
    /\ UNCHANGED <<context, table, config, plugged, arrived>>

\* The handle of a file is signalled by any transfer that ends, whether or not bytes
\* came in.
Waits ==
    IF plugged = "no" THEN {0, SMP_ERROR_PIPE, SMP_ERROR_OTHER} ELSE {0, SMP_ERROR_TIMEDOUT}

Wait ==
    /\ call.pc = "wait" /\ \E r \in Waits : WaitGives(r)
    /\ UNCHANGED <<context, table, port>>

-----------------------------------------------------------------------------
Library ==
    \/ \E c \in Contexts : Open(c) \/ \E wanted \in Configs : SetConfig(c, wanted)
    \/ OpenGetState \/ OpenSetState \/ OpenSetTimeouts \/ OpenFails
    \/ Write \/ Read \/ Wait

=============================================================================
