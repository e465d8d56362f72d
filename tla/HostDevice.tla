----------------------------- MODULE HostDevice -----------------------------
(***************************************************************************)
(* Contexts on a system whose serial ports are files: what src/context.c   *)
(* does with the functions of src/serial-device.h, and the system below    *)
(* them.  PosixDevice and Win32Device say which system calls each of these *)
(* functions makes and what it makes of their results.                     *)
(*                                                                         *)
(* There is one port.  A handle of the process is a small number that is   *)
(* given again as soon as it was closed, to the library or to the rest of  *)
(* the application.  Every system call is a step of its own; in between    *)
(* bytes come in, the port is unplugged, and other threads open and close  *)
(* files.  The library itself is called by one thread.                     *)
(***************************************************************************)
EXTENDS LibSmp

CONSTANTS
    Contexts,
    Handles,        \* of the process
    CHUNK_SIZE,     \* SMP_CONTEXT_PROCESS_CHUNK_SIZE
    Configs,        \* arguments of set_config
    FrameSize,      \* bytes of a message on the line
    MaxBytes,       \* bound on the bytes that come in
    MayFreeOpen     \* whether a context is freed without being closed: "yes", "no"

\* -1, and INVALID_HANDLE_VALUE.
NoHandle == -1

ASSUME HostAssumption ==
    /\ Handles \subseteq Nat
    /\ CHUNK_SIZE \in Nat \ {0} /\ FrameSize \in Nat \ {0} /\ MaxBytes \in Nat

VARIABLES
    memory,     \* where each context is: "none", "heap" or "static"
    opened,     \* ctx->opened: "yes" or "no"
    handle,     \* ctx->device.fd, ctx->device.handle
    table,      \* what each handle of the process is open on
    config,     \* of the port
    plugged,    \* whether the port is there: "yes" or "no"
    waiting,    \* bytes that came in and were not read
    arrived,    \* bytes that came in, ever
    call,       \* the call the library is in
    ret         \* what the last call returned

context == <<memory, opened, handle>>
port == <<config, plugged, waiting, arrived>>
hostVars == <<context, table, port, call, ret>>

\* A port or another file, opened by the library or by the application itself.
Files == {"closed", "tty", "file", "application"}

NoCause == "none"

\* In no call.  h is a handle the call has opened, cause the first system call of
\* it that failed, error the error number now.
Idle == [pc |-> "idle", ctx |-> "none", h |-> NoHandle, cause |-> NoCause, error |-> NoCause]

\* What the protocol needs: stop is the number of stop bits, cts the flow control by
\* the RTS and CTS lines (on Win32 DSR and DTR too), xon and xoff that by characters.
Plain == [baudrate |-> 115200, parity |-> "none", stop |-> 1, cts |-> "no",
          xon |-> "no", xoff |-> "no"]

HostTypeOK ==
    /\ memory \in [Contexts -> {"none", "heap", "static"}]
    /\ opened \in [Contexts -> {"yes", "no"}]
    /\ handle \in [Contexts -> Handles \cup {NoHandle}]
    /\ table \in [Handles -> Files]
    /\ DOMAIN config = DOMAIN Plain /\ plugged \in {"yes", "no"}
    /\ arrived \in 0 .. MaxBytes /\ waiting \in 0 .. arrived
    /\ DOMAIN call = DOMAIN Idle /\ call.h \in Handles \cup {NoHandle}
    /\ ret \in Int

\* The port starts in whatever state its last user left it.
HostInit ==
    /\ memory = [c \in Contexts |-> "none"] /\ opened = [c \in Contexts |-> "no"]
    /\ handle = [c \in Contexts |-> NoHandle]
    /\ table = [h \in Handles |-> "closed"]
    /\ config = [baudrate |-> 9600, parity |-> "even", stop |-> 2, cts |-> "yes",
                 xon |-> "yes", xoff |-> "yes"]
    /\ plugged = "yes" /\ waiting = 0 /\ arrived = 0
    /\ call = Idle /\ ret = 0

-----------------------------------------------------------------------------
(* The system *)

\* The bytes that came in are lost when nobody has the port open.
Arrive ==
    /\ plugged = "yes" /\ arrived < MaxBytes
    /\ \E h \in Handles : table[h] = "tty"
    /\ waiting' = waiting + 1 /\ arrived' = arrived + 1
    /\ UNCHANGED <<context, table, config, plugged, call, ret>>

Unplug ==
    /\ plugged = "yes" /\ plugged' = "no" /\ waiting' = 0
    /\ UNCHANGED <<context, table, config, arrived, call, ret>>

\* Other threads of the application have files of their own.
ApplicationOpens(h) ==
    /\ table[h] = "closed" /\ table' = [table EXCEPT ![h] = "application"]
    /\ UNCHANGED <<context, port, call, ret>>

ApplicationCloses(h) ==
    /\ table[h] = "application" /\ table' = [table EXCEPT ![h] = "closed"]
    /\ UNCHANGED <<context, port, call, ret>>

System == Arrive \/ Unplug \/ \E h \in Handles : ApplicationOpens(h) \/ ApplicationCloses(h)

-----------------------------------------------------------------------------
(* Calls *)

Return(r) == call' = Idle /\ ret' = r

Step(pc) == call' = [call EXCEPT !.pc = pc] /\ UNCHANGED ret

Begin(pc, c) ==
    call' = [Idle EXCEPT !.pc = pc, !.ctx = c] /\ UNCHANGED ret

\* A system call of the call failed with error e.
Fails(pc, e) ==
    call' = [call EXCEPT !.pc = pc, !.cause = IF @ = NoCause THEN e ELSE @, !.error = e]
        /\ UNCHANGED ret

Ready(c) == call = Idle /\ memory[c] # "none"

IsOpen(c) == Ready(c) /\ opened[c] = "yes"

\* The device comes with no handle.
New(c) ==
    /\ call = Idle /\ memory[c] = "none"
    /\ \/ /\ memory' = [memory EXCEPT ![c] = "heap"]
          /\ opened' = [opened EXCEPT ![c] = "no"] /\ handle' = [handle EXCEPT ![c] = NoHandle]
       \/ UNCHANGED context
    /\ UNCHANGED <<table, port, call, ret>>

\* Over a storage that may hold a context already.
NewFromStatic(c) ==
    /\ call = Idle /\ memory[c] # "heap"
    /\ opened[c] = "yes" => MayFreeOpen = "yes"
    /\ memory' = [memory EXCEPT ![c] = "static"]
    /\ opened' = [opened EXCEPT ![c] = "no"] /\ handle' = [handle EXCEPT ![c] = NoHandle]
    /\ UNCHANGED <<table, port, call, ret>>

\* The device is not closed with the context.
Free(c) ==
    /\ Ready(c) /\ memory[c] = "heap"
    /\ opened[c] = "yes" => MayFreeOpen = "yes"
    /\ memory' = [memory EXCEPT ![c] = "none"]
    /\ opened' = [opened EXCEPT ![c] = "no"] /\ handle' = [handle EXCEPT ![c] = NoHandle]
    /\ UNCHANGED <<table, port, call, ret>>

MayOpen(c) == Ready(c) /\ opened[c] = "no"

\* smp_serial_device_open has succeeded with handle h.
OpenSucceeds(c, h) ==
    /\ handle' = [handle EXCEPT ![c] = h] /\ opened' = [opened EXCEPT ![c] = "yes"]
    /\ UNCHANGED memory /\ Return(0)

Close(c) ==
    /\ IsOpen(c)
    /\ table' = [table EXCEPT ![handle[c]] = "closed"]
    /\ handle' = [handle EXCEPT ![c] = NoHandle]
    /\ opened' = [opened EXCEPT ![c] = "no"]
    /\ UNCHANGED <<memory, port, call, ret>>

\* process_fd reads until there is nothing more, ...
ProcessFd(c) == IsOpen(c) /\ Begin("read", c) /\ UNCHANGED <<context, table, port>>

ReadGives(n) ==
    IF n > 0 THEN Step("read")
    ELSE IF n = 0 \/ n = SMP_ERROR_WOULD_BLOCK THEN Return(0) ELSE Return(n)

\* ... and wait_and_process does the same when the wait ends well.
WaitAndProcess(c) == IsOpen(c) /\ Begin("wait", c) /\ UNCHANGED <<context, table, port>>

WaitGives(r) == IF r = 0 THEN Step("read") ELSE Return(r)

\* A frame of which the device took a part only is an error.
SendMessage(c) == IsOpen(c) /\ Begin("write", c) /\ UNCHANGED <<context, table, port>>

WriteGives(n) == Return(IF n < 0 THEN n ELSE IF n # FrameSize THEN SMP_ERROR_IO ELSE 0)

\* A context that is not open does not process or send, and one that is does not open.
Refuse(c) ==
    /\ Ready(c) /\ Return(IF opened[c] = "yes" THEN SMP_ERROR_BUSY ELSE SMP_ERROR_BAD_FD)
    /\ UNCHANGED <<context, table, port>>

\* The files of the library are those of its contexts, and the one it is opening.
Ours == {h \in Handles : table[h] \in {"tty", "file"}}

Contextual ==
    \E c \in Contexts :
        \/ New(c) \/ NewFromStatic(c) \/ Free(c) \/ Close(c)
        \/ ProcessFd(c) \/ WaitAndProcess(c) \/ SendMessage(c) \/ Refuse(c)

=============================================================================
