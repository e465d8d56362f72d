-------------------------- MODULE HostDevice_proofs -------------------------
(***************************************************************************)
(* For any number of contexts and handles, on either system, whatever the  *)
(* system calls return and the other threads open and close: the library   *)
(* leaks no file and closes none that is not its own, as long as contexts  *)
(* are closed before they are freed; a failing open is an error; a port    *)
(* that was opened has the protocol's speed, parity and no XON; and a port *)
(* that is gone is an error of every call.                                 *)
(***************************************************************************)
EXTENDS MCHostDevice, TLAPS

\* Where an open has a file that is not its context's yet.
Opening == {"isatty", "tcgetattr", "tcsetattr", "close",
            "GetCommState", "SetCommState", "SetCommTimeouts", "CloseHandle"}

Others == {"idle", "read", "wait", "write"}

CallType ==
    call \in [pc : Opening \cup Others, ctx : Contexts \cup {"none"}, h : Handles \cup {NoHandle},
              cause : Errnos \cup LastErrors \cup {NoCause},
              error : Errnos \cup LastErrors \cup {NoCause}]

FileType ==
    /\ memory \in [Contexts -> {"none", "heap", "static"}]
    /\ opened \in [Contexts -> {"yes", "no"}]
    /\ handle \in [Contexts -> Handles \cup {NoHandle}]
    /\ table \in [Handles -> Files] /\ plugged \in {"yes", "no"}
    /\ os \in {"posix", "win32"}

\* A context has a handle exactly while it is open; one that is not there has none.
HandlesWhileOpen ==
    \A c \in Contexts : /\ handle[c] # NoHandle <=> opened[c] = "yes"
                        /\ memory[c] = "none" => handle[c] = NoHandle

\* The context an open is for has no handle to lose.
OpenIsForClosed ==
    IF call.pc \in Opening
    THEN /\ call.ctx \in Contexts /\ call.h \in Handles
         /\ opened[call.ctx] = "no" /\ memory[call.ctx] # "none"
    ELSE call.h = NoHandle

\* Each file of the library is one context's, or the open's.
FilesAreOwn ==
    /\ \A h \in Handles :
        table[h] \in {"tty", "file"} <=> (call.h = h \/ \E c \in Contexts : handle[c] = h)
    /\ \A c, d \in Contexts : handle[c] # NoHandle /\ handle[c] = handle[d] => c = d
    /\ \A c \in Contexts : handle[c] # NoHandle => handle[c] # call.h

FileInv == CallType /\ FileType /\ HandlesWhileOpen /\ OpenIsForClosed /\ FilesAreOwn

-----------------------------------------------------------------------------
\* -1 is no handle.
LEMMA NoHandleIsNone == NoHandle \notin Handles /\ \A h \in Handles : h \in Nat
  BY HostAssumption DEF NoHandle

\* Nothing is open at the start.
LEMMA FileInit == Init => FileInv
  <1> SUFFICES ASSUME Init PROVE FileInv
    OBVIOUS
  <1> USE NoHandleIsNone DEF Init, HostInit, Idle
  <1>1. CallType
    BY DEF CallType, NoCause, Others
  <1>2. FileType
    BY DEF FileType, Files
  <1>3. HandlesWhileOpen /\ OpenIsForClosed
    BY DEF HandlesWhileOpen, OpenIsForClosed, Opening
  <1>4. FilesAreOwn
    BY DEF FilesAreOwn
  <1> QED
    BY <1>1, <1>2, <1>3, <1>4 DEF FileInv

\* A step that leaves the files and the handles alone, and is in no open before and after.
LEMMA FilesUntouched ==
    ASSUME FileInv, CallType', UNCHANGED <<memory, opened, handle, table, os>>,
           plugged' \in {"yes", "no"}, call'.h = call.h,
           call'.pc \in Opening <=> call.pc \in Opening,
           call.pc \in Opening => call'.ctx = call.ctx
    PROVE  FileInv'
  <1>1. FileType' /\ HandlesWhileOpen'
    BY DEF FileInv, FileType, HandlesWhileOpen
  <1>2. OpenIsForClosed'
    BY DEF FileInv, OpenIsForClosed
  <1>3. FilesAreOwn'
    BY DEF FileInv, FilesAreOwn
  <1> QED
    BY <1>1, <1>2, <1>3 DEF FileInv

\* What comes in, the removal of the port, and the files of other threads.
LEMMA SystemStep == ASSUME FileInv, System, UNCHANGED os PROVE FileInv'
  <1>1. CASE Arrive \/ Unplug
    BY <1>1, FilesUntouched DEF Arrive, Unplug, context, FileInv, FileType, CallType
  <1>2. ASSUME NEW h \in Handles, ApplicationOpens(h) \/ ApplicationCloses(h) PROVE FileInv'
    <2>1. /\ table[h] \notin {"tty", "file"} /\ table'[h] \notin {"tty", "file"}
          /\ table' \in [Handles -> Files] /\ \A k \in Handles \ {h} : table'[k] = table[k]
      BY <1>2 DEF ApplicationOpens, ApplicationCloses, FileInv, FileType, Files
    <2>2. UNCHANGED <<memory, opened, handle, plugged, call>>
      BY <1>2 DEF ApplicationOpens, ApplicationCloses, context, port
    <2>3. CallType' /\ FileType' /\ HandlesWhileOpen' /\ OpenIsForClosed'
      BY <2>1, <2>2 DEF FileInv, CallType, FileType, HandlesWhileOpen, OpenIsForClosed
    <2>4. FilesAreOwn'
      BY <2>1, <2>2 DEF FileInv, FilesAreOwn
    <2> QED
      BY <2>3, <2>4 DEF FileInv
  <1> QED
    BY <1>1, <1>2 DEF System

\* Contexts are made, freed and closed, and calls begin that open nothing.
LEMMA ContextualStep ==
    ASSUME FileInv, Contextual, UNCHANGED os, MayFreeOpen = "no"
    PROVE  FileInv'
  <1> USE NoHandleIsNone DEF FileInv
  <1> PICK c \in Contexts :
        \/ New(c) \/ NewFromStatic(c) \/ Free(c) \/ Close(c)
        \/ ProcessFd(c) \/ WaitAndProcess(c) \/ SendMessage(c) \/ Refuse(c)
    BY DEF Contextual
  <1>1. CASE New(c) \/ NewFromStatic(c) \/ Free(c)
    <2>1. \/ UNCHANGED <<memory, opened, handle>>
          \/ /\ handle[c] = NoHandle
             /\ \E m \in {"none", "heap", "static"} : memory' = [memory EXCEPT ![c] = m]
             /\ opened' = [opened EXCEPT ![c] = "no"]
             /\ handle' = [handle EXCEPT ![c] = NoHandle]
      BY <1>1, MayFreeOpen = "no"
      DEF New, NewFromStatic, Free, Ready, context, HandlesWhileOpen, FileType
    <2>2. UNCHANGED <<table, plugged, call>> /\ call = Idle
      BY <1>1 DEF New, NewFromStatic, Free, Ready, port
    <2>3. handle' = handle
      BY <2>1 DEF FileType
    <2>4. FileType'
      BY <2>1, <2>2 DEF FileType
    <2>5. HandlesWhileOpen'
      BY <2>1, <2>3 DEF FileType, HandlesWhileOpen
    <2>6. CallType' /\ OpenIsForClosed'
      BY <2>2 DEF CallType, OpenIsForClosed, Idle, Opening
    <2> QED
      BY <2>2, <2>3, <2>4, <2>5, <2>6 DEF FilesAreOwn
  <1>2. CASE Close(c)
    <2>1. /\ opened[c] = "yes" /\ handle[c] \in Handles /\ UNCHANGED <<memory, plugged, call>>
          /\ call = Idle
          /\ table' = [table EXCEPT ![handle[c]] = "closed"]
          /\ handle' = [handle EXCEPT ![c] = NoHandle]
          /\ opened' = [opened EXCEPT ![c] = "no"]
      BY <1>2 DEF Close, IsOpen, Ready, FileType, HandlesWhileOpen, port
    <2>2. FileType' /\ CallType'
      BY <2>1 DEF FileType, CallType, Files
    <2>3. HandlesWhileOpen' /\ OpenIsForClosed'
      BY <2>1 DEF FileType, HandlesWhileOpen, OpenIsForClosed, Idle, Opening
    <2>4. FilesAreOwn'
      BY <2>1 DEF FileType, FilesAreOwn
    <2> QED
      BY <2>2, <2>3, <2>4
  <1>3. CASE ProcessFd(c) \/ WaitAndProcess(c) \/ SendMessage(c) \/ Refuse(c)
    <2>1. /\ UNCHANGED <<memory, opened, handle, table, plugged>>
          /\ call = Idle
          /\ call' = Idle \/ \E pc \in {"read", "wait", "write"} :
                call' = [Idle EXCEPT !.pc = pc, !.ctx = c]
      BY <1>3 DEF ProcessFd, WaitAndProcess, SendMessage, Refuse, IsOpen, Ready, Begin, Return,
                  context, port
    <2>2. CallType' /\ call'.h = call.h /\ call.pc \notin Opening /\ call'.pc \notin Opening
      <3>1. CASE call' = Idle
        BY <2>1, <3>1 DEF CallType, Idle, NoCause, Others, Opening
      <3>2. ASSUME NEW pc \in {"read", "wait", "write"},
                   call' = [Idle EXCEPT !.pc = pc, !.ctx = c]
            PROVE  CallType' /\ call'.h = call.h /\ call'.pc \notin Opening
        <4>1. call' = [pc |-> pc, ctx |-> c, h |-> NoHandle, cause |-> NoCause, error |-> NoCause]
          BY <3>2 DEF Idle
        <4> QED
          BY <2>1, <4>1 DEF CallType, FileType, Idle, NoCause, Others, Opening
      <3>3. call.pc \notin Opening
        BY <2>1 DEF Idle, Opening
      <3> QED
        BY <2>1, <3>1, <3>2, <3>3
    <2>3. plugged' \in {"yes", "no"} /\ os' = os
      BY <2>1 DEF FileType
    <2> QED
      BY <2>1, <2>2, <2>3, FilesUntouched
  <1> QED
    BY <1>1, <1>2, <1>3

-----------------------------------------------------------------------------
(* What an open may do, on either system *)

\* A call that has ended is no open.
LEMMA IdleCall == ASSUME call' = Idle PROVE CallType' /\ call'.h = NoHandle /\ call'.pc \notin Opening
  BY DEF CallType, Idle, NoCause, Others, Opening

\* It ends, and the file is the context's ...
LEMMA OpenEnds ==
    ASSUME FileInv, NEW c \in Contexts, NEW h \in Handles,
           opened[c] = "no", memory[c] # "none",
           call.h = h \/ (call.h = NoHandle /\ table[h] = "closed"),
           handle' = [handle EXCEPT ![c] = h], opened' = [opened EXCEPT ![c] = "yes"],
           memory' = memory, plugged' = plugged, os' = os, call' = Idle,
           table' \in [Handles -> Files], table'[h] \in {"tty", "file"},
           \A k \in Handles \ {h} : table'[k] = table[k]
    PROVE  FileInv'
  <1> USE NoHandleIsNone, IdleCall DEF FileInv
  <1>1. FileType' /\ handle[c] = NoHandle
    BY DEF FileType, HandlesWhileOpen
  <1>2. \A d \in Contexts : handle[d] # h
    BY DEF FilesAreOwn
  <1>3. HandlesWhileOpen' /\ OpenIsForClosed'
    BY DEF FileType, HandlesWhileOpen, OpenIsForClosed
  <1>4. \A k \in Handles : table'[k] \in {"tty", "file"} <=> \E d \in Contexts : handle'[d] = k
    BY <1>1 DEF FilesAreOwn, FileType
  <1>5. \A d, e \in Contexts : handle'[d] # NoHandle /\ handle'[d] = handle'[e] => d = e
    BY <1>2 DEF FilesAreOwn, FileType
  <1>6. FilesAreOwn'
    BY <1>4, <1>5 DEF FilesAreOwn
  <1> QED
    BY <1>1, <1>3, <1>6

\* ... (the file it has had since it began, when that is a terminal), ...
LEMMA OpenEndsHere ==
    ASSUME FileInv, call.pc \in Opening,
           handle' = [handle EXCEPT ![call.ctx] = call.h],
           opened' = [opened EXCEPT ![call.ctx] = "yes"],
           call' = Idle, UNCHANGED <<memory, table, plugged, os>>
    PROVE  FileInv'
  <1> PICK c \in Contexts, h \in Handles : c = call.ctx /\ h = call.h
    BY DEF FileInv, OpenIsForClosed
  <1>1. /\ opened[c] = "no" /\ memory[c] # "none" /\ call.h = h
        /\ table[h] \in {"tty", "file"}
    BY DEF FileInv, OpenIsForClosed, FilesAreOwn
  <1>2. handle' = [handle EXCEPT ![c] = h] /\ opened' = [opened EXCEPT ![c] = "yes"]
    OBVIOUS
  <1>3. /\ \A d \in Contexts : handle[d] # h
        /\ handle \in [Contexts -> Handles \cup {NoHandle}]
    BY <1>1, NoHandleIsNone DEF FileInv, FilesAreOwn, FileType
  <1> USE NoHandleIsNone, IdleCall DEF FileInv
  <1>4. FileType' /\ HandlesWhileOpen' /\ OpenIsForClosed'
    BY <1>1, <1>2 DEF FileType, HandlesWhileOpen, OpenIsForClosed
  <1>5. \A k \in Handles : table[k] \in {"tty", "file"} <=> \E d \in Contexts : handle'[d] = k
    <2>1. \A k \in Handles : table[k] \in {"tty", "file"}
                <=> (k = h \/ \E d \in Contexts : handle[d] = k)
      BY <1>1 DEF FilesAreOwn
    <2>2. handle[c] = NoHandle /\ handle'[c] = h /\ \A d \in Contexts \ {c} : handle'[d] = handle[d]
      BY <1>1, <1>2, <1>3 DEF HandlesWhileOpen, FileType
    <2> QED
      BY <2>1, <2>2
  <1>6. \A d, e \in Contexts : handle'[d] # NoHandle /\ handle'[d] = handle'[e] => d = e
    BY <1>2, <1>3 DEF FilesAreOwn, FileType
  <1>7. FilesAreOwn'
    BY <1>5, <1>6 DEF FilesAreOwn
  <1> QED
    BY <1>4, <1>7

\* ... or it begins, with a new file, ...
LEMMA OpenBegins ==
    ASSUME FileInv, NEW c \in Contexts, NEW h \in Handles, NEW pc \in Opening,
           call = Idle, opened[c] = "no", memory[c] # "none", table[h] = "closed",
           table' = [table EXCEPT ![h] = "tty"],
           call' = [Idle EXCEPT !.pc = pc, !.ctx = c, !.h = h],
           UNCHANGED <<memory, opened, handle, plugged, os>>
    PROVE  FileInv'
  <1> USE NoHandleIsNone DEF FileInv
  <1>1. call' = [pc |-> pc, ctx |-> c, h |-> h, cause |-> NoCause, error |-> NoCause]
    BY DEF Idle
  <1>2. CallType' /\ FileType' /\ HandlesWhileOpen' /\ OpenIsForClosed'
    BY <1>1 DEF CallType, FileType, Files, HandlesWhileOpen, OpenIsForClosed, NoCause
  <1>3. call.h = NoHandle /\ \A d \in Contexts : handle[d] # h
    BY DEF FilesAreOwn, Idle
  <1>4. FilesAreOwn'
    BY <1>1, <1>3 DEF FilesAreOwn, FileType
  <1> QED
    BY <1>2, <1>4

\* ... goes on, ...
LEMMA OpenGoesOn ==
    ASSUME FileInv, call.pc \in Opening, NEW pc \in Opening,
           \/ call' = [call EXCEPT !.pc = pc]
           \/ \E e \in Errnos \cup LastErrors :
                call' = [call EXCEPT !.pc = pc, !.cause = IF @ = NoCause THEN e ELSE @, !.error = e],
           UNCHANGED <<memory, opened, handle, table, plugged, os>>
    PROVE  FileInv'
  <1>1. CallType' /\ call'.h = call.h /\ call'.ctx = call.ctx /\ call'.pc = pc
    BY DEF FileInv, CallType
  <1>2. plugged' \in {"yes", "no"}
    BY DEF FileInv, FileType
  <1> QED
    BY <1>1, <1>2, FilesUntouched

\* ... or it fails, and gives back the file it had.
LEMMA OpenGivesUp ==
    ASSUME FileInv, call.pc \in Opening, call' = Idle,
           table' = [table EXCEPT ![call.h] = "closed"],
           UNCHANGED <<memory, opened, handle, plugged, os>>
    PROVE  FileInv'
  <1> USE NoHandleIsNone, IdleCall DEF FileInv
  <1>1. call.h \in Handles /\ \A c \in Contexts : handle[c] # call.h
    BY DEF OpenIsForClosed, FilesAreOwn
  <1>2. FileType' /\ HandlesWhileOpen' /\ OpenIsForClosed'
    BY <1>1 DEF FileType, Files, HandlesWhileOpen, OpenIsForClosed
  <1>3. FilesAreOwn'
    BY <1>1 DEF FilesAreOwn, FileType
  <1> QED
    BY <1>2, <1>3

\* Any other call that ends changes no file.
LEMMA CallEnds ==
    ASSUME FileInv, call.pc \notin Opening, call' = Idle, plugged' = plugged,
           UNCHANGED <<memory, opened, handle, table, os>>
    PROVE  FileInv'
  <1>1. call.h = NoHandle /\ plugged' \in {"yes", "no"}
    BY DEF FileInv, OpenIsForClosed, FileType
  <1> QED
    BY <1>1, IdleCall, FilesUntouched

\* Nor does a call that processes, waits or sends, whatever the device gives it.
LEMMA CallGoesOn ==
    ASSUME FileInv, call.pc \notin Opening, call' = [call EXCEPT !.pc = "read"], plugged' = plugged,
           UNCHANGED <<memory, opened, handle, table, os>>
    PROVE  FileInv'
  <1>1. CallType' /\ call'.h = call.h /\ call'.pc \notin Opening /\ plugged' \in {"yes", "no"}
    BY DEF FileInv, CallType, FileType, Others, Opening
  <1> QED
    BY <1>1, FilesUntouched

-----------------------------------------------------------------------------
(* The two systems *)

\* A step of the POSIX device.
LEMMA PosixStep == ASSUME FileInv, P!Library, UNCHANGED os PROVE FileInv'
  <1> USE DEF P!Return, P!Idle, Idle, P!NoHandle, NoHandle, P!NoCause, NoCause, P!context, P!port
  <1>1. ASSUME NEW c \in Contexts, P!Open(c) PROVE FileInv'
    <2>1. call = Idle /\ opened[c] = "no" /\ memory[c] # "none" /\ plugged' = plugged
          /\ call.pc \notin Opening /\ call.h = NoHandle
      BY <1>1 DEF P!Open, P!MayOpen, P!Ready, Opening
    <2>2. CASE call' = Idle /\ UNCHANGED <<memory, opened, handle, table>>
      BY <2>1, <2>2, CallEnds
    <2>3. ASSUME NEW h \in Handles, table[h] = "closed",
                 table' = [table EXCEPT ![h] = "file"], P!OpenSucceeds(c, h)
          PROVE  FileInv'
      <3>1. /\ table' \in [Handles -> Files] /\ table'[h] \in {"tty", "file"}
            /\ \A k \in Handles \ {h} : table'[k] = table[k]
        BY <2>3 DEF FileInv, FileType, Files
      <3> QED
        BY <2>1, <2>3, <3>1, OpenEnds DEF P!OpenSucceeds
    <2>4. ASSUME NEW h \in Handles, table[h] = "closed", table' = [table EXCEPT ![h] = "tty"],
                 call' = [Idle EXCEPT !.pc = "isatty", !.ctx = c, !.h = h],
                 UNCHANGED <<memory, opened, handle>>
          PROVE  FileInv'
      <3>1. "isatty" \in Opening
        BY DEF Opening
      <3> QED
        BY <2>1, <2>4, <3>1, OpenBegins
    <2> QED
      BY <1>1, <2>2, <2>3, <2>4 DEF P!Open
  <1>2. ASSUME NEW c \in Contexts, NEW wanted \in Configs, P!SetConfig(c, wanted) PROVE FileInv'
    <2>1. /\ call = Idle /\ call' = Idle /\ plugged' = plugged
          /\ UNCHANGED <<memory, opened, handle, table>>
      BY <1>2 DEF P!SetConfig, P!Ready
    <2> QED
      BY <2>1, CallEnds DEF Opening
  <1>3. CASE P!OpenIsATty \/ P!OpenSetAttr
    <2>1. call.pc \in Opening /\ plugged' = plugged /\ table' = table
      BY <1>3 DEF P!OpenIsATty, P!OpenSetAttr, Opening
    <2>2. CASE P!OpenSucceeds(call.ctx, call.h)
      BY <2>1, <2>2, OpenEndsHere DEF P!OpenSucceeds
    <2>3. CASE ~P!OpenSucceeds(call.ctx, call.h)
      <3>1. /\ UNCHANGED <<memory, opened, handle>>
            /\ \E pc \in Opening :
                \/ call' = [call EXCEPT !.pc = pc]
                \/ \E e \in Errnos : call' = [call EXCEPT !.pc = pc,
                        !.cause = IF @ = NoCause THEN e ELSE @, !.error = e]
        BY <1>3, <2>3 DEF P!OpenIsATty, P!OpenSetAttr, P!Step, P!Fails, Opening
      <3> QED
        BY <2>1, <3>1, OpenGoesOn
    <2> QED
      BY <2>2, <2>3
  <1>4. CASE P!OpenGetAttr
    <2>1. /\ call.pc \in Opening
          /\ UNCHANGED <<memory, opened, handle, table, plugged>>
          /\ \E pc \in Opening :
                \/ call' = [call EXCEPT !.pc = pc]
                \/ \E e \in Errnos : call' = [call EXCEPT !.pc = pc,
                        !.cause = IF @ = NoCause THEN e ELSE @, !.error = e]
      BY <1>4 DEF P!OpenGetAttr, P!Step, P!Fails, Opening
    <2> QED
      BY <2>1, OpenGoesOn
  <1>5. CASE P!OpenFails
    BY <1>5, OpenGivesUp DEF P!OpenFails, Opening
  <1>6. CASE P!Write \/ P!Read \/ P!Wait
    <2>1. /\ call.pc \notin Opening /\ UNCHANGED <<memory, opened, handle, table, plugged>>
          /\ call' = Idle \/ call' = [call EXCEPT !.pc = "read"]
      BY <1>6 DEF P!Write, P!Read, P!Wait, P!WriteGives, P!ReadGives, P!WaitGives, P!Step, Opening
    <2> QED
      BY <2>1, CallEnds, CallGoesOn
  <1> QED
    BY <1>1, <1>2, <1>3, <1>4, <1>5, <1>6 DEF P!Library

\* A step of the Win32 device.
LEMMA Win32Step == ASSUME FileInv, W!Library, UNCHANGED os PROVE FileInv'
  <1> USE DEF W!Return, W!Idle, Idle, W!NoHandle, NoHandle, W!NoCause, NoCause, W!context, W!port
  <1>1. ASSUME NEW c \in Contexts, W!Open(c) PROVE FileInv'
    <2>1. call = Idle /\ opened[c] = "no" /\ memory[c] # "none" /\ plugged' = plugged
          /\ call.pc \notin Opening /\ call.h = NoHandle
      BY <1>1 DEF W!Open, W!MayOpen, W!Ready, Opening
    <2>2. CASE call' = Idle /\ UNCHANGED <<memory, opened, handle, table>>
      BY <2>1, <2>2, CallEnds
    <2>3. ASSUME NEW h \in Handles, table[h] = "closed", table' = [table EXCEPT ![h] = "tty"],
                 call' = [Idle EXCEPT !.pc = "GetCommState", !.ctx = c, !.h = h],
                 UNCHANGED <<memory, opened, handle>>
          PROVE  FileInv'
      <3>1. "GetCommState" \in Opening
        BY DEF Opening
      <3> QED
        BY <2>1, <2>3, <3>1, OpenBegins
    <2> QED
      BY <1>1, <2>2, <2>3 DEF W!Open
  <1>2. ASSUME NEW c \in Contexts, NEW wanted \in Configs, W!SetConfig(c, wanted) PROVE FileInv'
    <2>1. /\ call = Idle /\ call' = Idle /\ plugged' = plugged
          /\ UNCHANGED <<memory, opened, handle, table>>
      BY <1>2 DEF W!SetConfig, W!Ready
    <2> QED
      BY <2>1, CallEnds DEF Opening
  <1>3. CASE W!OpenGetState \/ W!OpenSetState \/ W!OpenSetTimeouts
    <2>1. call.pc \in Opening /\ plugged' = plugged /\ table' = table
      BY <1>3 DEF W!OpenGetState, W!OpenSetState, W!OpenSetTimeouts, Opening
    <2>2. CASE W!OpenSucceeds(call.ctx, call.h)
      BY <2>1, <2>2, OpenEndsHere DEF W!OpenSucceeds
    <2>3. CASE ~W!OpenSucceeds(call.ctx, call.h)
      <3>1. /\ UNCHANGED <<memory, opened, handle>>
            /\ \E pc \in Opening :
                \/ call' = [call EXCEPT !.pc = pc]
                \/ \E e \in LastErrors : call' = [call EXCEPT !.pc = pc,
                        !.cause = IF @ = NoCause THEN e ELSE @, !.error = e]
        BY <1>3, <2>3
        DEF W!OpenGetState, W!OpenSetState, W!OpenSetTimeouts, W!Step, W!Fails, Opening
      <3> QED
        BY <2>1, <3>1, OpenGoesOn
    <2> QED
      BY <2>2, <2>3
  <1>4. CASE W!OpenFails
    BY <1>4, OpenGivesUp DEF W!OpenFails, Opening
  <1>5. CASE W!Write \/ W!Read \/ W!Wait
    <2>1. /\ call.pc \notin Opening /\ UNCHANGED <<memory, opened, handle, table, plugged>>
          /\ call' = Idle \/ call' = [call EXCEPT !.pc = "read"]
      BY <1>5 DEF W!Write, W!Read, W!Wait, W!WriteGives, W!ReadGives, W!WaitGives, W!Step, Opening
    <2> QED
      BY <2>1, CallEnds, CallGoesOn
  <1> QED
    BY <1>1, <1>2, <1>3, <1>4, <1>5 DEF W!Library

-----------------------------------------------------------------------------
\* What the two systems say of a context that has no handle is no handle either.
LEMMA NoFd == ASSUME NEW c \in Contexts, handle[c] = NoHandle PROVE Fd(c) < 0
  BY DEF Fd, P!Fd, W!Fd, NoHandle, P!SMP_ERROR_BAD_FD

\* The invariant is what the theorem says.
LEMMA FileInvImplies == FileInv => OwnHandles
  <1> SUFFICES ASSUME FileInv PROVE OwnHandles
    OBVIOUS
  <1> DEFINE held == {c \in Contexts : handle[c] # NoHandle}
  <1>1. held = {c \in Contexts : opened[c] = "yes"}
    BY DEF FileInv, HandlesWhileOpen
  <1>2. call.h \in Handles \cup {NoHandle} /\ \A c \in held : handle[c] \in Handles
    BY DEF FileInv, CallType, FileType
  <1>3. Ours = {handle[c] : c \in held} \cup ({call.h} \ {NoHandle})
    BY <1>2, NoHandleIsNone DEF FileInv, FilesAreOwn, Ours
  <1>4. \A c, d \in held : handle[c] = handle[d] => c = d
    BY DEF FileInv, FilesAreOwn
  <1>5. call.h \notin {handle[c] : c \in held} \ {NoHandle}
    BY DEF FileInv, FilesAreOwn
  <1>6. \A c \in Contexts \ held : Fd(c) < 0
    BY NoFd
  <1> QED
    BY <1>1, <1>3, <1>4, <1>5, <1>6 DEF OwnHandles

(***************************************************************************)
(* When contexts are closed before they are freed, the files the library   *)
(* has open are those of its open contexts and the one it is opening, each *)
(* its own (smp_context_open, smp_context_close and the open functions of  *)
(* the two devices).                                                       *)
(***************************************************************************)
THEOREM FilesAreOwned == MayFreeOpen = "no" => (Spec => []OwnHandles)
  <1> SUFFICES ASSUME MayFreeOpen = "no" PROVE Spec => []OwnHandles
    OBVIOUS
  <1>1. FileInv /\ [Next]_vars => FileInv'
    <2> SUFFICES ASSUME FileInv, [Next]_vars PROVE FileInv'
      OBVIOUS
    <2>1. CASE System /\ UNCHANGED os
      BY <2>1, SystemStep
    <2>2. CASE Contextual /\ UNCHANGED os
      BY <2>2, ContextualStep
    <2>3. CASE Posix /\ UNCHANGED os
      BY <2>3, PosixStep DEF Posix
    <2>4. CASE Win32 /\ UNCHANGED os
      BY <2>4, Win32Step DEF Win32
    <2>5. CASE UNCHANGED vars
      BY <2>5 DEF vars, hostVars, context, port, FileInv, CallType, FileType, HandlesWhileOpen,
                  OpenIsForClosed, FilesAreOwn
    <2> QED
      BY <2>1, <2>2, <2>3, <2>4, <2>5 DEF Next
  <1> QED
    BY <1>1, FileInit, FileInvImplies, PTL DEF Spec

-----------------------------------------------------------------------------
(* Types, and what a call remembers *)

PortType ==
    /\ DOMAIN config = DOMAIN Plain
    /\ arrived \in 0 .. MaxBytes /\ waiting \in 0 .. arrived
    /\ ret \in Int

Types == CallType /\ FileType /\ PortType

\* What a step may make of the call.
CallMoves ==
    \/ call' = Idle \/ UNCHANGED call
    \/ \E pc \in Opening \cup Others : call' = [call EXCEPT !.pc = pc]
    \/ \E pc \in Opening, e \in Errnos \cup LastErrors :
            call' = [call EXCEPT !.pc = pc, !.cause = IF @ = NoCause THEN e ELSE @, !.error = e]
    \/ \E pc \in Others, c \in Contexts :
            call' = [Idle EXCEPT !.pc = pc, !.ctx = c]
    \/ \E pc \in Opening, c \in Contexts, h \in Handles :
            call' = [Idle EXCEPT !.pc = pc, !.ctx = c, !.h = h]

\* Each of these is a call again.
LEMMA CallMovesTypes == CallType /\ FileType /\ CallMoves => CallType'
  <1> SUFFICES ASSUME CallType, FileType, CallMoves PROVE CallType'
    OBVIOUS
  <1>1. CASE call' = Idle \/ UNCHANGED call
    BY <1>1, IdleCall DEF CallType
  <1>2. ASSUME NEW pc \in Opening \cup Others, call' = [call EXCEPT !.pc = pc] PROVE CallType'
    BY <1>2 DEF CallType
  <1>3. ASSUME NEW pc \in Opening, NEW e \in Errnos \cup LastErrors,
               call' = [call EXCEPT !.pc = pc, !.cause = IF @ = NoCause THEN e ELSE @, !.error = e]
        PROVE  CallType'
    BY <1>3 DEF CallType
  <1>4. ASSUME NEW pc \in Others, NEW c \in Contexts,
               call' = [Idle EXCEPT !.pc = pc, !.ctx = c]
        PROVE  CallType'
    <2>1. call' = [pc |-> pc, ctx |-> c, h |-> NoHandle, cause |-> NoCause, error |-> NoCause]
      BY <1>4 DEF Idle
    <2> QED
      BY <2>1 DEF CallType, FileType
  <1>5. ASSUME NEW pc \in Opening, NEW c \in Contexts, NEW h \in Handles,
               call' = [Idle EXCEPT !.pc = pc, !.ctx = c, !.h = h]
        PROVE  CallType'
    <2>1. call' = [pc |-> pc, ctx |-> c, h |-> h, cause |-> NoCause, error |-> NoCause]
      BY <1>5 DEF Idle
    <2> QED
      BY <2>1 DEF CallType
  <1> QED
    BY <1>1, <1>2, <1>3, <1>4, <1>5 DEF CallMoves

\* The types hold at the start ...
LEMMA TypesInit == Init => Types
  <1> SUFFICES ASSUME Init PROVE Types
    OBVIOUS
  <1>1. CallType /\ FileType
    BY FileInit DEF FileInv
  <1>2. PortType
    BY HostAssumption DEF Init, HostInit, PortType, Plain
  <1> QED
    BY <1>1, <1>2 DEF Types

\* ... and are kept by the system, ...
LEMMA TypesSystem == ASSUME Types, System, UNCHANGED os PROVE Types'
  <1> USE DEF Types
  <1>1. CASE Arrive \/ Unplug
    <2>1. UNCHANGED <<memory, opened, handle, table, config, call, ret>>
      BY <1>1 DEF Arrive, Unplug, context
    <2>2. plugged' \in {"yes", "no"} /\ arrived' \in 0 .. MaxBytes /\ waiting' \in 0 .. arrived'
      BY <1>1, HostAssumption DEF Arrive, Unplug, FileType, PortType
    <2> QED
      BY <2>1, <2>2 DEF CallType, FileType, PortType
  <1>2. ASSUME NEW h \in Handles, ApplicationOpens(h) \/ ApplicationCloses(h) PROVE Types'
    <2>1. table' \in [Handles -> Files]
      BY <1>2 DEF ApplicationOpens, ApplicationCloses, FileType, Files
    <2>2. UNCHANGED <<memory, opened, handle, port, call, ret>>
      BY <1>2 DEF ApplicationOpens, ApplicationCloses, context
    <2> QED
      BY <2>1, <2>2 DEF CallType, FileType, PortType, port
  <1> QED
    BY <1>1, <1>2 DEF System

\* ... by the calls of a context, ...
LEMMA TypesContextual == ASSUME Types, Contextual, UNCHANGED os PROVE Types'
  <1> USE DEF Types
  <1> PICK c \in Contexts :
        \/ New(c) \/ NewFromStatic(c) \/ Free(c) \/ Close(c)
        \/ ProcessFd(c) \/ WaitAndProcess(c) \/ SendMessage(c) \/ Refuse(c)
    BY DEF Contextual
  <1>1. CASE New(c) \/ NewFromStatic(c) \/ Free(c) \/ Close(c)
    <2>1. UNCHANGED <<port, call, ret>>
      BY <1>1 DEF New, NewFromStatic, Free, Close
    <2>2. /\ memory' \in [Contexts -> {"none", "heap", "static"}]
          /\ opened' \in [Contexts -> {"yes", "no"}]
          /\ handle' \in [Contexts -> Handles \cup {NoHandle}]
          /\ table' \in [Handles -> Files]
      BY <1>1 DEF New, NewFromStatic, Free, Close, FileType, Files, context
    <2> QED
      BY <2>1, <2>2 DEF CallType, FileType, PortType, port
  <1>2. CASE ProcessFd(c) \/ WaitAndProcess(c) \/ SendMessage(c) \/ Refuse(c)
    <2>1. UNCHANGED <<memory, opened, handle, table, port>>
      BY <1>2 DEF ProcessFd, WaitAndProcess, SendMessage, Refuse, context
    <2>2. \/ call' = Idle
          \/ \E pc \in {"read", "wait", "write"} :
                call' = [Idle EXCEPT !.pc = pc, !.ctx = c]
      BY <1>2 DEF ProcessFd, WaitAndProcess, SendMessage, Refuse, Begin, Return
    <2>3. ret' \in Int
      BY <1>2 DEF ProcessFd, WaitAndProcess, SendMessage, Refuse, Begin, Return, PortType,
                  SMP_ERROR_BUSY, SMP_ERROR_BAD_FD
    <2>4. CallType'
      BY <2>2, CallMovesTypes DEF CallMoves, Others
    <2> QED
      BY <2>1, <2>3, <2>4 DEF FileType, PortType, port
  <1> QED
    BY <1>1, <1>2

\* Every error of a system is an error of the library.
LEMMA PosixErrors == \A e : P!ErrnoToSmpError(e) \in Int /\ P!ErrnoToSmpError(e) < 0
  BY DEF P!ErrnoToSmpError, P!KnownErrnos, P!SMP_ERROR_INVALID_PARAM, P!SMP_ERROR_BAD_MESSAGE,
         P!SMP_ERROR_TOO_BIG, P!SMP_ERROR_NO_MEM, P!SMP_ERROR_NO_DEVICE, P!SMP_ERROR_TIMEDOUT,
         P!SMP_ERROR_BAD_FD, P!SMP_ERROR_NOT_SUPPORTED, P!SMP_ERROR_BUSY, P!SMP_ERROR_PERM,
         P!SMP_ERROR_WOULD_BLOCK, P!SMP_ERROR_IO, P!SMP_ERROR_OTHER

\* The error numbers a port gives on POSIX.
LEMMA PosixNumbers ==
    /\ P!ErrnoToSmpError("EIO") = SMP_ERROR_IO /\ P!ErrnoToSmpError("EAGAIN") = SMP_ERROR_WOULD_BLOCK
    /\ P!ErrnoToSmpError("EINTR") = SMP_ERROR_OTHER
  BY DEF P!ErrnoToSmpError, P!KnownErrnos, P!SMP_ERROR_WOULD_BLOCK, P!SMP_ERROR_IO, P!SMP_ERROR_OTHER,
         SMP_ERROR_WOULD_BLOCK, SMP_ERROR_IO, SMP_ERROR_OTHER

LEMMA Win32Errors == \A e : W!WinErrorToSmpError(e) \in Int /\ W!WinErrorToSmpError(e) < 0
  BY DEF W!WinErrorToSmpError, W!KnownErrors, W!SMP_ERROR_NOT_FOUND, W!SMP_ERROR_PERM,
         W!SMP_ERROR_BAD_FD, W!SMP_ERROR_NO_MEM, W!SMP_ERROR_NOT_SUPPORTED, W!SMP_ERROR_NO_DEVICE,
         W!SMP_ERROR_EXIST, W!SMP_ERROR_INVALID_PARAM, W!SMP_ERROR_BUSY, W!SMP_ERROR_OTHER

\* A step of the POSIX device: what it returns, what it makes of the port, and where
\* an open goes.
LEMMA PosixTypes == ASSUME Types, P!Library, UNCHANGED os PROVE Types'
  <1> USE DEF Types, P!Return, P!Idle, Idle, P!NoHandle, NoHandle, P!NoCause, NoCause, P!context, P!port
  <1>1. ASSUME NEW c \in Contexts, P!Open(c) PROVE Types'
    <2>1. UNCHANGED <<memory, config, plugged, waiting, arrived>>
      BY <1>1 DEF P!Open, P!OpenSucceeds
    <2>2. ret' = ret \/ ret' = 0 \/ \E e \in Errnos : ret' = P!ErrnoToSmpError(e)
      BY <1>1 DEF P!Open, P!OpenSucceeds
    <2>3. CallType' /\ ret' \in Int
      <3>1. ret' \in Int
        BY <2>2, PosixErrors DEF PortType
      <3>2. "isatty" \in Opening
        BY DEF Opening
      <3>3. \/ call' = Idle
            \/ \E h \in Handles : call' = [Idle EXCEPT !.pc = "isatty", !.ctx = c, !.h = h]
        BY <1>1 DEF P!Open, P!OpenSucceeds
      <3>4. CallMoves
        BY <3>2, <3>3 DEF CallMoves
      <3> QED
        BY <3>1, <3>4, CallMovesTypes
    <2>4. /\ opened' = opened \/ opened' = [opened EXCEPT ![c] = "yes"]
          /\ handle' = handle \/ \E h \in Handles : handle' = [handle EXCEPT ![c] = h]
          /\ \/ table' = table
             \/ \E h \in Handles, f \in {"file", "tty"} : table' = [table EXCEPT ![h] = f]
      BY <1>1 DEF P!Open, P!OpenSucceeds
    <2>5. /\ opened' \in [Contexts -> {"yes", "no"}]
          /\ handle' \in [Contexts -> Handles \cup {NoHandle}]
      BY <2>4 DEF FileType
    <2>6. table' \in [Handles -> Files]
      BY <2>4 DEF FileType, Files
    <2> QED
      BY <2>1, <2>3, <2>5, <2>6 DEF FileType, PortType
  <1>2. ASSUME NEW c \in Contexts, NEW wanted \in Configs, P!SetConfig(c, wanted) PROVE Types'
    <2>1. call' = Idle /\ UNCHANGED <<memory, opened, handle, table, plugged, waiting, arrived>>
      BY <1>2 DEF P!SetConfig
    <2>2. ret' \in Int
      BY <1>2, PosixErrors DEF P!SetConfig, P!SMP_ERROR_NOT_SUPPORTED, P!SMP_ERROR_INVALID_PARAM
    <2>3. config' = config \/ config' = P!Termios(config, wanted)
      BY <1>2 DEF P!SetConfig
    <2>4. DOMAIN config' = DOMAIN Plain
      BY <2>3 DEF PortType, P!Termios, Plain
    <2> QED
      BY <2>1, <2>2, <2>4, IdleCall DEF FileType, PortType
  <1>3. CASE P!OpenIsATty \/ P!OpenGetAttr \/ P!OpenSetAttr \/ P!OpenFails
    <2>1. UNCHANGED <<memory, plugged, waiting, arrived>>
      BY <1>3 DEF P!OpenIsATty, P!OpenGetAttr, P!OpenSetAttr, P!OpenFails, P!OpenSucceeds
    <2>2. /\ opened' \in [Contexts -> {"yes", "no"}]
          /\ handle' \in [Contexts -> Handles \cup {NoHandle}]
          /\ table' \in [Handles -> Files]
      BY <1>3 DEF P!OpenIsATty, P!OpenGetAttr, P!OpenSetAttr, P!OpenFails, P!OpenSucceeds,
                  FileType, Files, CallType
    <2>3. config' = config \/ config' = P!Raw(config)
      BY <1>3 DEF P!OpenIsATty, P!OpenGetAttr, P!OpenSetAttr, P!OpenFails
    <2>4. DOMAIN config' = DOMAIN Plain
      BY <2>3 DEF PortType, P!Raw, Plain
    <2>5. \/ call' = Idle
          \/ \E pc \in Opening : call' = [call EXCEPT !.pc = pc]
          \/ \E pc \in Opening, e \in Errnos :
                call' = [call EXCEPT !.pc = pc, !.cause = IF @ = NoCause THEN e ELSE @, !.error = e]
      BY <1>3 DEF P!OpenIsATty, P!OpenGetAttr, P!OpenSetAttr, P!OpenFails, P!OpenSucceeds,
                  P!Step, P!Fails, Opening
    <2>6. ret' = ret \/ ret' = 0 \/ \E e : ret' = P!ErrnoToSmpError(e)
      BY <1>3 DEF P!OpenIsATty, P!OpenGetAttr, P!OpenSetAttr, P!OpenFails, P!OpenSucceeds,
                  P!Step, P!Fails
    <2>7. ret' \in Int
      BY <2>6, PosixErrors DEF PortType
    <2>8. CallMoves
      BY <2>5 DEF CallMoves
    <2> QED
      BY <2>1, <2>2, <2>4, <2>7, <2>8, CallMovesTypes DEF FileType, PortType
  <1>4. CASE P!Write \/ P!Read \/ P!Wait
    <2>1. UNCHANGED <<memory, opened, handle, table, config, plugged, arrived>>
      BY <1>4 DEF P!Write, P!Read, P!Wait
    <2>2. call' = Idle \/ call' = [call EXCEPT !.pc = "read"]
      BY <1>4 DEF P!Write, P!Read, P!Wait, P!WriteGives, P!ReadGives, P!WaitGives, P!Step
    <2>3. /\ \A n \in P!Writes : n \in Int
          /\ \A n \in P!Reads : n \in Int /\ n <= waiting
          /\ \A n \in P!Polls : n \in Int
      <3>1. FrameSize \in Nat /\ CHUNK_SIZE \in Nat /\ waiting \in Nat
        BY HostAssumption DEF PortType
      <3>2. \A n \in P!Writes : n \in Int
        BY <3>1, PosixErrors DEF P!Writes
      <3>3. \A n \in P!Polls : n \in Int
        BY PosixErrors DEF P!Polls, P!SMP_ERROR_PIPE, P!SMP_ERROR_TIMEDOUT
      <3>4. P!ErrnoToSmpError("EAGAIN") < 0 /\ P!ErrnoToSmpError("EIO") < 0
        BY PosixNumbers DEF SMP_ERROR_WOULD_BLOCK, SMP_ERROR_IO
      <3>5. \A n \in P!Reads : n \in Int /\ n <= waiting
        BY <3>1, <3>4, PosixErrors DEF P!Reads, P!SMP_ERROR_PIPE
      <3> QED
        BY <3>2, <3>3, <3>5
    <2>4. ret' \in Int /\ waiting' \in 0 .. arrived
      BY <1>4, <2>3, HostAssumption
      DEF P!Write, P!Read, P!Wait, P!WriteGives, P!ReadGives, P!WaitGives, P!Step, PortType,
          P!SMP_ERROR_IO
    <2>5. CallType'
      BY <2>2, CallMovesTypes DEF CallMoves, Others
    <2> QED
      BY <2>1, <2>4, <2>5 DEF FileType, PortType
  <1> QED
    BY <1>1, <1>2, <1>3, <1>4 DEF P!Library

\* ... and of the Win32 device.
LEMMA Win32Types == ASSUME Types, W!Library, UNCHANGED os PROVE Types'
  <1> USE DEF Types, W!Return, W!Idle, Idle, W!NoHandle, NoHandle, W!NoCause, NoCause, W!context, W!port
  <1>1. ASSUME NEW c \in Contexts, W!Open(c) PROVE Types'
    <2>1. UNCHANGED <<memory, opened, handle, config, plugged, waiting, arrived>>
      BY <1>1 DEF W!Open
    <2>2. \/ call' = Idle /\ \E e \in LastErrors : ret' = W!WinErrorToSmpError(e)
          \/ /\ UNCHANGED ret
             /\ \E h \in Handles : call' = [Idle EXCEPT !.pc = "GetCommState", !.ctx = c, !.h = h]
      BY <1>1 DEF W!Open
    <2>3. CallType' /\ ret' \in Int
      <3>1. ret' \in Int
        BY <2>2, Win32Errors DEF PortType
      <3>2. "GetCommState" \in Opening
        BY DEF Opening
      <3>3. CallMoves
        BY <2>2, <3>2 DEF CallMoves
      <3> QED
        BY <3>1, <3>3, CallMovesTypes
    <2>4. table' = table \/ \E h \in Handles : table' = [table EXCEPT ![h] = "tty"]
      BY <1>1 DEF W!Open
    <2>5. table' \in [Handles -> Files]
      BY <2>4 DEF FileType, Files
    <2> QED
      BY <2>1, <2>3, <2>5 DEF FileType, PortType
  <1>2. ASSUME NEW c \in Contexts, NEW wanted \in Configs, W!SetConfig(c, wanted) PROVE Types'
    <2>1. call' = Idle /\ UNCHANGED <<memory, opened, handle, table, plugged, waiting, arrived>>
      BY <1>2 DEF W!SetConfig
    <2>2. ret' \in Int
      BY <1>2, Win32Errors DEF W!SetConfig, W!SMP_ERROR_INVALID_PARAM
    <2>3. config' = config \/ config' = W!CommState(config, wanted)
      BY <1>2 DEF W!SetConfig
    <2>4. DOMAIN config' = DOMAIN Plain
      BY <2>3 DEF PortType, W!CommState, Plain
    <2> QED
      BY <2>1, <2>2, <2>4, IdleCall DEF FileType, PortType
  <1>3. CASE W!OpenGetState \/ W!OpenSetState \/ W!OpenSetTimeouts \/ W!OpenFails
    <2>1. UNCHANGED <<memory, plugged, waiting, arrived>>
      BY <1>3 DEF W!OpenGetState, W!OpenSetState, W!OpenSetTimeouts, W!OpenFails, W!OpenSucceeds
    <2>2. /\ opened' \in [Contexts -> {"yes", "no"}]
          /\ handle' \in [Contexts -> Handles \cup {NoHandle}]
          /\ table' \in [Handles -> Files]
      BY <1>3 DEF W!OpenGetState, W!OpenSetState, W!OpenSetTimeouts, W!OpenFails, W!OpenSucceeds,
                  FileType, Files, CallType
    <2>3. config' = config \/ config' = W!Plain
      BY <1>3 DEF W!OpenGetState, W!OpenSetState, W!OpenSetTimeouts, W!OpenFails
    <2>4. DOMAIN config' = DOMAIN Plain
      BY <2>3 DEF PortType, W!Plain, Plain
    <2>5. \/ call' = Idle
          \/ \E pc \in Opening : call' = [call EXCEPT !.pc = pc]
          \/ \E pc \in Opening, e \in LastErrors :
                call' = [call EXCEPT !.pc = pc, !.cause = IF @ = NoCause THEN e ELSE @, !.error = e]
      BY <1>3 DEF W!OpenGetState, W!OpenSetState, W!OpenSetTimeouts, W!OpenFails, W!OpenSucceeds,
                  W!Step, W!Fails, Opening
    <2>6. ret' = ret \/ ret' = 0 \/ \E e : ret' = W!WinErrorToSmpError(e)
      BY <1>3 DEF W!OpenGetState, W!OpenSetState, W!OpenSetTimeouts, W!OpenFails, W!OpenSucceeds,
                  W!Step, W!Fails
    <2>7. ret' \in Int
      BY <2>6, Win32Errors DEF PortType
    <2>8. CallMoves
      BY <2>5 DEF CallMoves
    <2> QED
      BY <2>1, <2>2, <2>4, <2>7, <2>8, CallMovesTypes DEF FileType, PortType
  <1>4. CASE W!Write \/ W!Read \/ W!Wait
    <2>1. UNCHANGED <<memory, opened, handle, table, config, plugged, arrived>>
      BY <1>4 DEF W!Write, W!Read, W!Wait
    <2>2. call' = Idle \/ call' = [call EXCEPT !.pc = "read"]
      BY <1>4 DEF W!Write, W!Read, W!Wait, W!WriteGives, W!ReadGives, W!WaitGives, W!Step
    <2>3. /\ \A n \in W!Writes : n \in Int
          /\ \A n \in W!Reads : n \in Int /\ n <= waiting
          /\ \A n \in W!Waits : n \in Int
      <3>1. FrameSize \in Nat /\ CHUNK_SIZE \in Nat /\ waiting \in Nat
        BY HostAssumption DEF PortType
      <3>2. \A e : W!Transfer(e) \in Int
        BY Win32Errors DEF W!Transfer, W!SMP_ERROR_PIPE
      <3>3. \A n \in W!Writes : n \in Int
        BY <3>1, <3>2 DEF W!Writes
      <3>4. \A n \in W!Waits : n \in Int
        BY DEF W!Waits, W!SMP_ERROR_PIPE, W!SMP_ERROR_OTHER, W!SMP_ERROR_TIMEDOUT
      <3>5. \A n \in W!Reads : n \in Int /\ n <= waiting
        BY <3>1, <3>2 DEF W!Reads, W!Transfer, W!SMP_ERROR_PIPE
      <3> QED
        BY <3>3, <3>4, <3>5
    <2>4. ret' \in Int /\ waiting' \in 0 .. arrived
      BY <1>4, <2>3, HostAssumption
      DEF W!Write, W!Read, W!Wait, W!WriteGives, W!ReadGives, W!WaitGives, W!Step, PortType,
          W!SMP_ERROR_IO
    <2>5. CallType'
      BY <2>2, CallMovesTypes DEF CallMoves, Others
    <2> QED
      BY <2>1, <2>4, <2>5 DEF FileType, PortType
  <1> QED
    BY <1>1, <1>2, <1>3, <1>4 DEF W!Library

\* Every step keeps them.
LEMMA TypesStep == Types /\ [Next]_vars => Types'
  <1> SUFFICES ASSUME Types, [Next]_vars PROVE Types'
    OBVIOUS
  <1>1. CASE UNCHANGED vars
    BY <1>1 DEF vars, hostVars, context, port, Types, CallType, FileType, PortType
  <1> QED
    BY <1>1, TypesSystem, TypesContextual, PosixTypes, Win32Types DEF Next, Posix, Win32

(***************************************************************************)
(* The types, with no condition on how contexts are freed: among them that *)
(* no more bytes wait in the port than came in and were not read.          *)
(***************************************************************************)
THEOREM TypeCorrect == Spec => []TypeOK
  <1>1. Types => TypeOK
    BY DEF Types, CallType, FileType, PortType, TypeOK, HostTypeOK, Idle
  <1> QED
    BY <1>1, TypesInit, TypesStep, PTL DEF Spec

-----------------------------------------------------------------------------
(* What calls report *)

\* Only an open that gives up has a cause, and it is still the error; between
\* its two settings the port of a Win32 open is set up.
MemoryInv ==
    /\ call.pc \notin {"close", "CloseHandle"} => call.cause = NoCause
    /\ call.cause # NoCause => call.error = call.cause
    /\ call.pc = "SetCommTimeouts" => config = Plain

\* The call goes on, fails or ends, and the port is as it was.
LEMMA CallKeepsMemory ==
    ASSUME Types, MemoryInv, UNCHANGED <<plugged, config>>,
           \/ call' = Idle
           \/ \E pc \in (Opening \cup Others) \ {"SetCommTimeouts"} :
                call' = [call EXCEPT !.pc = pc] /\ call.cause = NoCause
           \/ \E pc \in {"close", "CloseHandle"}, e \in Errnos \cup LastErrors :
                call' = [call EXCEPT !.pc = pc, !.cause = IF @ = NoCause THEN e ELSE @, !.error = e]
                /\ call.cause = NoCause
    PROVE  MemoryInv'
  <1>1. CASE call' = Idle
    BY <1>1 DEF MemoryInv, Idle
  <1>2. ASSUME NEW pc \in (Opening \cup Others) \ {"SetCommTimeouts"},
               call' = [call EXCEPT !.pc = pc], call.cause = NoCause
        PROVE  MemoryInv'
    <2>1. call'.pc = pc /\ call'.cause = NoCause
      BY <1>2 DEF Types, CallType
    <2> QED
      BY <2>1 DEF MemoryInv
  <1>3. ASSUME NEW pc \in {"close", "CloseHandle"}, NEW e \in Errnos \cup LastErrors,
               call' = [call EXCEPT !.pc = pc, !.cause = IF @ = NoCause THEN e ELSE @, !.error = e],
               call.cause = NoCause
        PROVE  MemoryInv'
    <2>1. call'.pc = pc /\ call'.cause = e /\ call'.error = e
      BY <1>3 DEF Types, CallType
    <2> QED
      BY <2>1 DEF MemoryInv
  <1> QED
    BY <1>1, <1>2, <1>3

\* A call begins, or none is running.
LEMMA CallBegins ==
    ASSUME plugged' = plugged \/ call' = Idle,
           \/ call' = Idle
           \/ \E pc \in Others, c \in Contexts :
                call' = [Idle EXCEPT !.pc = pc, !.ctx = c]
           \/ \E pc \in {"isatty", "GetCommState"}, c \in Contexts, h \in Handles :
                call' = [Idle EXCEPT !.pc = pc, !.ctx = c, !.h = h]
    PROVE  MemoryInv'
  <1>1. CASE call' = Idle
    BY <1>1 DEF MemoryInv, Idle
  <1>2. ASSUME NEW pc \in Others, NEW c \in Contexts, plugged' = plugged,
               call' = [Idle EXCEPT !.pc = pc, !.ctx = c]
        PROVE  MemoryInv'
    <2>1. call'.pc = pc /\ call'.cause = NoCause
      BY <1>2 DEF Idle
    <2> QED
      BY <1>2, <2>1 DEF MemoryInv, Others
  <1>3. ASSUME NEW pc \in {"isatty", "GetCommState"}, NEW c \in Contexts, NEW h \in Handles,
               call' = [Idle EXCEPT !.pc = pc, !.ctx = c, !.h = h]
        PROVE  MemoryInv'
    <2>1. call'.pc = pc /\ call'.cause = NoCause
      BY <1>3 DEF Idle
    <2> QED
      BY <2>1 DEF MemoryInv
  <1> QED
    BY <1>1, <1>2, <1>3

\* The system changes no call, and the port is never plugged in again.
LEMMA MemorySystem == ASSUME MemoryInv, System PROVE MemoryInv'
  <1>1. UNCHANGED <<config, call>> /\ (plugged' = plugged \/ plugged' = "no")
    BY DEF System, Arrive, Unplug, ApplicationOpens, ApplicationCloses, port
  <1> QED
    BY <1>1 DEF MemoryInv

\* The calls of a context begin without a cause.
LEMMA MemoryContextual == ASSUME MemoryInv, Contextual PROVE MemoryInv'
  <1>1. UNCHANGED port
    BY DEF Contextual, New, NewFromStatic, Free, Close, ProcessFd, WaitAndProcess, SendMessage, Refuse
  <1>2. \/ UNCHANGED call \/ call' = Idle
        \/ \E pc \in Others, c \in Contexts :
                call' = [Idle EXCEPT !.pc = pc, !.ctx = c]
    BY DEF Contextual, New, NewFromStatic, Free, Close, ProcessFd, WaitAndProcess, SendMessage, Refuse,
           Return, Begin, Others
  <1>3. CASE UNCHANGED call
    BY <1>1, <1>3 DEF MemoryInv, port
  <1> QED
    BY <1>1, <1>2, <1>3, CallBegins DEF port

\* The steps of the POSIX device ...
LEMMA PosixMemory == ASSUME Types, MemoryInv, P!Library PROVE MemoryInv'
  <1> USE DEF P!Return, P!Idle, Idle, P!NoHandle, NoHandle, P!NoCause, NoCause, P!context, P!port
  <1>1. ASSUME NEW c \in Contexts, P!Open(c) PROVE MemoryInv'
    <2>1. \/ call' = Idle
          \/ \E h \in Handles : call' = [Idle EXCEPT !.pc = "isatty", !.ctx = c, !.h = h]
      BY <1>1 DEF P!Open, P!OpenSucceeds
    <2>2. plugged' = plugged
      BY <1>1 DEF P!Open
    <2> QED
      BY <2>1, <2>2, CallBegins
  <1>2. ASSUME NEW c \in Contexts, NEW wanted \in Configs, P!SetConfig(c, wanted) PROVE MemoryInv'
    BY <1>2, CallBegins DEF P!SetConfig
  <1>3. CASE P!OpenIsATty \/ P!OpenGetAttr \/ P!OpenFails
    <2>1. UNCHANGED <<plugged, config>>
      BY <1>3 DEF P!OpenIsATty, P!OpenGetAttr, P!OpenFails
    <2>2. \/ call' = Idle
          \/ \E pc \in {"tcgetattr", "tcsetattr"} : call' = [call EXCEPT !.pc = pc]
          \/ \E e \in Errnos :
                call' = [call EXCEPT !.pc = "close", !.cause = IF @ = NoCause THEN e ELSE @, !.error = e]
      BY <1>3 DEF P!OpenIsATty, P!OpenGetAttr, P!OpenFails, P!OpenSucceeds, P!Step, P!Fails
    <2>3. call' = Idle \/ call.cause = NoCause
      BY <1>3 DEF P!OpenIsATty, P!OpenGetAttr, P!OpenFails, MemoryInv
    <2>4. {"tcgetattr", "tcsetattr"} \subseteq (Opening \cup Others) \ {"SetCommTimeouts"}
      BY DEF Opening
    <2>5. CASE call' = Idle
      BY <2>1, <2>5, CallKeepsMemory
    <2>6. ASSUME NEW pc \in {"tcgetattr", "tcsetattr"}, call' = [call EXCEPT !.pc = pc],
                 call.cause = NoCause
          PROVE  MemoryInv'
      BY <2>1, <2>4, <2>6, CallKeepsMemory
    <2>7. ASSUME NEW e \in Errnos, call.cause = NoCause,
                 call' = [call EXCEPT !.pc = "close", !.cause = IF @ = NoCause THEN e ELSE @, !.error = e]
          PROVE  MemoryInv'
      BY <2>1, <2>7, CallKeepsMemory
    <2> QED
      BY <2>2, <2>3, <2>5, <2>6, <2>7
  <1>4. CASE P!OpenSetAttr
    <2>1. plugged' = plugged /\ call.cause = NoCause
      BY <1>4 DEF P!OpenSetAttr, MemoryInv
    <2>2. CASE call' = Idle
      BY <2>2, CallBegins
    <2>3. ASSUME NEW e \in Errnos, UNCHANGED config,
                 call' = [call EXCEPT !.pc = "close", !.cause = IF @ = NoCause THEN e ELSE @, !.error = e]
          PROVE  MemoryInv'
      BY <2>1, <2>3, CallKeepsMemory
    <2> QED
      BY <1>4, <2>2, <2>3 DEF P!OpenSetAttr, P!OpenSucceeds, P!Fails
  <1>5. CASE P!Write \/ P!Read \/ P!Wait
    <2>1. UNCHANGED <<plugged, config>> /\ call.cause = NoCause
      BY <1>5 DEF P!Write, P!Read, P!Wait, MemoryInv
    <2>2. call' = Idle \/ call' = [call EXCEPT !.pc = "read"]
      BY <1>5 DEF P!Write, P!Read, P!Wait, P!WriteGives, P!ReadGives, P!WaitGives, P!Step
    <2>3. "read" \in (Opening \cup Others) \ {"SetCommTimeouts"}
      BY DEF Others
    <2> QED
      BY <2>1, <2>2, <2>3, CallKeepsMemory
  <1> QED
    BY <1>1, <1>2, <1>3, <1>4, <1>5 DEF P!Library

\* ... and of the Win32 device keep what a call remembers.
LEMMA Win32Memory == ASSUME Types, MemoryInv, W!Library PROVE MemoryInv'
  <1> USE DEF W!Return, W!Idle, Idle, W!NoHandle, NoHandle, W!NoCause, NoCause, W!context, W!port
  <1>1. ASSUME NEW c \in Contexts, W!Open(c) PROVE MemoryInv'
    <2>1. \/ call' = Idle
          \/ \E h \in Handles : call' = [Idle EXCEPT !.pc = "GetCommState", !.ctx = c, !.h = h]
      BY <1>1 DEF W!Open
    <2>2. plugged' = plugged
      BY <1>1 DEF W!Open
    <2> QED
      BY <2>1, <2>2, CallBegins
  <1>2. ASSUME NEW c \in Contexts, NEW wanted \in Configs, W!SetConfig(c, wanted) PROVE MemoryInv'
    BY <1>2, CallBegins DEF W!SetConfig
  <1>3. CASE W!OpenGetState \/ W!OpenSetTimeouts \/ W!OpenFails
    <2>1. UNCHANGED <<plugged, config>>
      BY <1>3 DEF W!OpenGetState, W!OpenSetTimeouts, W!OpenFails
    <2>2. \/ call' = Idle
          \/ call' = [call EXCEPT !.pc = "SetCommState"]
          \/ \E e \in LastErrors : call' = [call EXCEPT !.pc = "CloseHandle",
                    !.cause = IF @ = NoCause THEN e ELSE @, !.error = e]
      BY <1>3 DEF W!OpenGetState, W!OpenSetTimeouts, W!OpenFails, W!OpenSucceeds, W!Step, W!Fails
    <2>3. call' = Idle \/ call.cause = NoCause
      BY <1>3 DEF W!OpenGetState, W!OpenSetTimeouts, W!OpenFails, MemoryInv
    <2>4. "SetCommState" \in (Opening \cup Others) \ {"SetCommTimeouts"}
      BY DEF Opening
    <2>5. CASE call' = Idle
      BY <2>1, <2>5, CallKeepsMemory
    <2>6. CASE call' = [call EXCEPT !.pc = "SetCommState"] /\ call.cause = NoCause
      BY <2>1, <2>4, <2>6, CallKeepsMemory
    <2>7. ASSUME NEW e \in LastErrors, call.cause = NoCause,
                 call' = [call EXCEPT !.pc = "CloseHandle", !.cause = IF @ = NoCause THEN e ELSE @,
                                      !.error = e]
          PROVE  MemoryInv'
      BY <2>1, <2>7, CallKeepsMemory
    <2> QED
      BY <2>2, <2>3, <2>5, <2>6, <2>7
  <1>4. CASE W!OpenSetState
    <2>1. plugged' = plugged /\ call.cause = NoCause
      BY <1>4 DEF W!OpenSetState, MemoryInv
    <2>2. CASE config' = W!Plain /\ call' = [call EXCEPT !.pc = "SetCommTimeouts"]
      <3>1. call'.cause = NoCause /\ config' = Plain
        BY <2>1, <2>2 DEF Types, CallType, W!Plain, Plain
      <3> QED
        BY <2>1, <3>1 DEF MemoryInv
    <2>3. ASSUME NEW e \in LastErrors, UNCHANGED config,
                 call' = [call EXCEPT !.pc = "CloseHandle", !.cause = IF @ = NoCause THEN e ELSE @,
                                      !.error = e]
          PROVE  MemoryInv'
      BY <2>1, <2>3, CallKeepsMemory
    <2> QED
      BY <1>4, <2>2, <2>3 DEF W!OpenSetState, W!Step, W!Fails
  <1>5. CASE W!Write \/ W!Read \/ W!Wait
    <2>1. UNCHANGED <<plugged, config>> /\ call.cause = NoCause
      BY <1>5 DEF W!Write, W!Read, W!Wait, MemoryInv
    <2>2. call' = Idle \/ call' = [call EXCEPT !.pc = "read"]
      BY <1>5 DEF W!Write, W!Read, W!Wait, W!WriteGives, W!ReadGives, W!WaitGives, W!Step
    <2>3. "read" \in (Opening \cup Others) \ {"SetCommTimeouts"}
      BY DEF Others
    <2> QED
      BY <2>1, <2>2, <2>3, CallKeepsMemory
  <1> QED
    BY <1>1, <1>2, <1>3, <1>4, <1>5 DEF W!Library

\* What a call remembers, in every reachable state.
LEMMA MemoryInvariant == Spec => [](Types /\ MemoryInv)
  <1>1. Init => MemoryInv
    BY DEF Init, HostInit, MemoryInv, Idle
  <1>2. Types /\ MemoryInv /\ [Next]_vars => MemoryInv'
    <2> SUFFICES ASSUME Types, MemoryInv, [Next]_vars PROVE MemoryInv'
      OBVIOUS
    <2>1. CASE UNCHANGED vars
      BY <2>1 DEF vars, hostVars, port, MemoryInv
    <2> QED
      BY <2>1, MemorySystem, MemoryContextual, PosixMemory, Win32Memory DEF Next, Posix, Win32
  <1> QED
    BY <1>1, <1>2, TypesInit, TypesStep, PTL DEF Spec

(***************************************************************************)
(* An open of which a system call failed returns an error and opens        *)
(* nothing; the error is that of the first call that failed, or on POSIX,  *)
(* which reads errno after close, one that close left there.               *)
(***************************************************************************)
THEOREM FailuresAreReported == Spec => FailureReported
  <1> DEFINE Failing == call.cause # NoCause /\ call' = Idle
             Told == /\ ret' < 0 /\ UNCHANGED opened
                     /\ ret' \in {Translated(e) : e \in LeftByClose \cup {call.cause}}
  <1>1. ASSUME Types, MemoryInv, [Next]_vars, Failing PROVE Told
    <2>1. call.pc \in {"close", "CloseHandle"} /\ call.error = call.cause /\ call # Idle
      BY <1>1 DEF MemoryInv, Idle
    <2>2. ~System /\ ~Contextual /\ ~UNCHANGED vars
      BY <1>1, <2>1 DEF System, Arrive, Unplug, ApplicationOpens, ApplicationCloses, Contextual, New,
              NewFromStatic, Free, Close, ProcessFd, WaitAndProcess, SendMessage, Refuse, Ready, IsOpen,
              vars, hostVars
    <2>3. CASE Posix
      <3>1. P!OpenFails
        BY <2>1, <2>3 DEF Posix, P!Library, P!Open, P!MayOpen, P!SetConfig, P!Ready, P!OpenIsATty,
                P!OpenGetAttr, P!OpenSetAttr, P!Write, P!Read, P!Wait, P!Idle, P!NoHandle, P!NoCause,
                Idle, NoHandle, NoCause
      <3>2. PICK e \in CloseErrno \cup {call.cause} : ret' = P!ErrnoToSmpError(e)
        BY <2>1, <3>1 DEF P!OpenFails, P!Return
      <3>3. UNCHANGED opened
        BY <3>1 DEF P!OpenFails, P!context
      <3>4. Translated(e) = P!ErrnoToSmpError(e) /\ LeftByClose = CloseErrno
        BY <2>3 DEF Posix, Translated, LeftByClose
      <3> QED
        BY <3>2, <3>3, <3>4, PosixErrors
    <2>4. CASE Win32
      <3>1. W!OpenFails
        BY <2>1, <2>4 DEF Win32, W!Library, W!Open, W!MayOpen, W!SetConfig, W!Ready, W!OpenGetState,
                W!OpenSetState, W!OpenSetTimeouts, W!Write, W!Read, W!Wait, W!Idle, W!NoHandle,
                W!NoCause, Idle, NoHandle, NoCause
      <3>2. ret' = W!WinErrorToSmpError(call.cause) /\ UNCHANGED opened
        BY <2>1, <3>1 DEF W!OpenFails, W!Return, W!context
      <3>3. Translated(call.cause) = W!WinErrorToSmpError(call.cause)
        BY <2>4 DEF Win32, Translated
      <3> QED
        BY <3>2, <3>3, Win32Errors
    <2> QED
      BY <1>1, <2>2, <2>3, <2>4 DEF Next
  <1>2. Types /\ MemoryInv /\ [Next]_vars => [Failing => Told]_vars
    BY <1>1
  <1> QED
    BY <1>2, MemoryInvariant, PTL DEF Spec, FailureReported

(***************************************************************************)
(* A port that is there and that an open has succeeded on has the speed    *)
(* and the parity of the protocol and waits for no XON, whatever its last  *)
(* user left and whatever system calls of other opens came in between; on  *)
(* Win32 its whole configuration is the protocol's.                        *)
(***************************************************************************)
THEOREM PortIsRaw == Spec => OpenedRaw
  <1>1. ASSUME Types, MemoryInv, [Next]_vars, NEW c \in Contexts, OpensPort(c), NEW f \in SetByOpen
        PROVE  config'[f] = Plain[f]
    <2>1. ~System /\ ~UNCHANGED vars
      BY <1>1 DEF OpensPort, System, Arrive, Unplug, ApplicationOpens, ApplicationCloses, context,
              vars, hostVars
    <2>2. ~Contextual
      BY <1>1 DEF OpensPort, Contextual, New, NewFromStatic, Free, Close, ProcessFd, WaitAndProcess,
              SendMessage, Refuse, context, Types, FileType
    <2>3. CASE Posix
      <3>1. PICK d \in Contexts \cup {"none"}, h \in Handles \cup {NoHandle} :
                /\ P!OpenSucceeds(d, h)
                /\ \/ table' = [table EXCEPT ![h] = "file"] /\ h \in Handles
                   \/ P!OpenIsATty /\ plugged # "yes"
                   \/ P!OpenSetAttr /\ config' = P!Raw(config)
        BY <1>1, <2>3 DEF OpensPort, Posix, P!Library, P!Open, P!SetConfig, P!OpenIsATty, P!OpenGetAttr,
              P!OpenSetAttr, P!OpenFails, P!Write, P!Read, P!Wait, P!context, Types, CallType
      <3>2. c = d /\ handle'[c] = h
        BY <1>1, <3>1 DEF OpensPort, P!OpenSucceeds, Types, FileType
      <3>3. ~(table' = [table EXCEPT ![h] = "file"] /\ h \in Handles)
        BY <1>1, <3>2 DEF OpensPort, Types, FileType
      <3>4. config' = P!Raw(config)
        BY <1>1, <3>1, <3>3 DEF OpensPort
      <3>5. f \in {"baudrate", "parity", "xon"} /\ DOMAIN config = DOMAIN Plain
        BY <1>1, <2>3 DEF SetByOpen, Posix, Types, PortType
      <3> QED
        BY <3>4, <3>5, RawAssumption DEF P!Raw, Plain
    <2>4. CASE Win32
      <3>1. W!OpenSetTimeouts
        BY <1>1, <2>4 DEF OpensPort, Win32, W!Library, W!Open, W!SetConfig, W!OpenGetState,
              W!OpenSetState, W!OpenSetTimeouts, W!OpenFails, W!Write, W!Read, W!Wait, W!context
      <3> QED
        BY <1>1, <3>1 DEF W!OpenSetTimeouts, W!port, MemoryInv
    <2> QED
      BY <1>1, <2>1, <2>2, <2>3, <2>4 DEF Next
  <1>2. Types /\ MemoryInv /\ [Next]_vars
            => [\A c \in Contexts : OpensPort(c) => \A f \in SetByOpen : config'[f] = Plain[f]]_vars
    BY <1>1
  <1> QED
    BY <1>2, MemoryInvariant, PTL DEF Spec, OpenedRaw

(***************************************************************************)
(* A call whose last system call finds the port gone ends with an error,   *)
(* and not with one that tells its caller to try again.                    *)
(***************************************************************************)
THEOREM HangupIsReported == Spec => HangupReported
  <1> DEFINE OnGonePort == /\ call.pc \in {"read", "wait", "write"} /\ plugged = "no"
                           /\ table[handle[call.ctx]] = "tty" /\ call' = Idle
             Told == ret' < 0 /\ ret' \notin {SMP_ERROR_TIMEDOUT, SMP_ERROR_WOULD_BLOCK}
  <1>1. ASSUME Types, MemoryInv, [Next]_vars, OnGonePort PROVE Told
    <2>1. plugged = "no" /\ call # Idle
      BY <1>1 DEF Idle
    <2>2. ~System /\ ~Contextual /\ ~UNCHANGED vars
      BY <1>1, <2>1 DEF System, Arrive, Unplug, ApplicationOpens, ApplicationCloses, Contextual, New,
              NewFromStatic, Free, Close, ProcessFd, WaitAndProcess, SendMessage, Refuse, Ready, IsOpen,
              vars, hostVars
    <2>3. CASE Posix
      <3>1. P!Write \/ P!Read \/ P!Wait
        BY <1>1, <2>1, <2>3 DEF Posix, P!Library, P!Open, P!MayOpen, P!SetConfig, P!Ready, P!OpenIsATty,
                P!OpenGetAttr, P!OpenSetAttr, P!OpenFails, P!Idle, P!NoHandle, P!NoCause,
                Idle, NoHandle, NoCause
      <3>2. P!File = "tty"
        BY <1>1 DEF P!File
      <3>3. /\ P!Writes = {SMP_ERROR_IO} /\ \A n \in P!Reads : n \in {SMP_ERROR_PIPE, SMP_ERROR_IO}
            /\ P!Polls = {SMP_ERROR_OTHER, 0, SMP_ERROR_PIPE}
        <4>1. P!Writes = {SMP_ERROR_IO}
          BY <2>1, <3>2, PosixNumbers DEF P!Writes
        <4>2. \A n \in P!Reads : n \in {SMP_ERROR_PIPE, SMP_ERROR_IO}
          BY <2>1, <3>2, PosixNumbers DEF P!Reads, P!SMP_ERROR_PIPE, SMP_ERROR_PIPE
        <4>3. P!Polls = {SMP_ERROR_OTHER, 0, SMP_ERROR_PIPE}
          BY <2>1, <3>2, PosixNumbers DEF P!Polls, P!SMP_ERROR_PIPE, SMP_ERROR_PIPE
        <4> QED
          BY <4>1, <4>2, <4>3
      <3>4. ret' \in {SMP_ERROR_IO, SMP_ERROR_PIPE, SMP_ERROR_OTHER}
        BY <1>1, <3>1, <3>3
        DEF P!Write, P!Read, P!Wait, P!WriteGives, P!ReadGives, P!WaitGives, P!Step, P!Return, Idle,
            Types, CallType,
            SMP_ERROR_IO, SMP_ERROR_PIPE, SMP_ERROR_OTHER, P!SMP_ERROR_WOULD_BLOCK
      <3> QED
        BY <3>4 DEF SMP_ERROR_IO, SMP_ERROR_PIPE, SMP_ERROR_OTHER, SMP_ERROR_TIMEDOUT,
                    SMP_ERROR_WOULD_BLOCK
    <2>4. CASE Win32
      <3>1. W!Write \/ W!Read \/ W!Wait
        BY <1>1, <2>1, <2>4 DEF Win32, W!Library, W!Open, W!MayOpen, W!SetConfig, W!Ready,
                W!OpenGetState, W!OpenSetState, W!OpenSetTimeouts, W!OpenFails, W!Idle, W!NoHandle,
                W!NoCause, Idle, NoHandle, NoCause
      <3>2. /\ W!Writes = {SMP_ERROR_PIPE} /\ W!Reads = {SMP_ERROR_PIPE}
            /\ W!Waits = {0, SMP_ERROR_PIPE, SMP_ERROR_OTHER}
        BY <2>1 DEF W!Writes, W!Reads, W!Waits, W!Transfer, W!SMP_ERROR_PIPE, SMP_ERROR_PIPE,
                    W!SMP_ERROR_OTHER, SMP_ERROR_OTHER
      <3>3. ret' \in {SMP_ERROR_PIPE, SMP_ERROR_OTHER}
        BY <1>1, <3>1, <3>2
        DEF W!Write, W!Read, W!Wait, W!WriteGives, W!ReadGives, W!WaitGives, W!Step, W!Return, Idle,
            Types, CallType, SMP_ERROR_PIPE, SMP_ERROR_OTHER, W!SMP_ERROR_WOULD_BLOCK
      <3> QED
        BY <3>3 DEF SMP_ERROR_PIPE, SMP_ERROR_OTHER, SMP_ERROR_TIMEDOUT, SMP_ERROR_WOULD_BLOCK
    <2> QED
      BY <1>1, <2>2, <2>3, <2>4 DEF Next
  <1>2. Types /\ MemoryInv /\ [Next]_vars => [OnGonePort => Told]_vars
    BY <1>1
  <1> QED
    BY <1>2, MemoryInvariant, PTL DEF Spec, HangupReported

=============================================================================
