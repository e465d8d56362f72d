------------------------ MODULE ArduinoDevice_proofs ------------------------
(***************************************************************************)
(* Proofs about ArduinoDevice: for every range of the counter, every       *)
(* timeout it can tell, and wherever it wraps, a wait times out when it    *)
(* should.                                                                 *)
(***************************************************************************)
EXTENDS ArduinoDevice, TLAPS

Pcs == {"idle", "open", "configure", "read", "spin", "start", "poll", "look", "last"}

PortType == [begun : {"yes", "no"}, baudrate : Nat, mode : Modes]

CallType ==
    [pc : Pcs, dev : Devices \cup {"none"}, count : 0 .. CHUNK_SIZE, timeout : Int,
     start : 0 .. MillisMod - 1, elapsed : 0 .. MaxElapsed]

Types ==
    /\ fd \in [Devices -> {0, -1}]
    /\ port \in PortType
    /\ ready \in {"yes", "no"} /\ available \in 0 .. RingSize
    /\ millis \in 0 .. MillisMod - 1 /\ lag \in 0 .. MaxLag
    /\ call \in CallType
    /\ ret \in Int

\* What wait makes of the two readings of the counter.
Waited == (millis - call.start) % MillisMod

(***************************************************************************)
(* The counter gives the time since it was first read, which is at most    *)
(* MaxLag less than the time since the call began; and it was lag          *)
(* milliseconds ago that wait compared it with the timeout.                *)
(***************************************************************************)
WaitInv ==
    /\ Timed => call.timeout \in Timeouts /\ call.timeout >= 0
    /\ call.pc = "start" => call.elapsed = lag
    /\ call.pc \in {"poll", "look", "last"} => call.elapsed - Waited \in 0 .. MaxLag
    /\ call.pc = "poll" =>
           Waited = lag \/ (Waited >= lag /\ Waited - lag < call.timeout)
    /\ call.pc = "look" => Waited >= lag /\ Waited - lag < call.timeout
    /\ call.pc = "last" => Waited - lag \in call.timeout .. call.timeout + MaxLag

-----------------------------------------------------------------------------
(* The counter and the record of a call *)

\* A reading one millisecond later is one further from an earlier one, wherever the
\* counter wraps between them, as long as it has not come round.
LEMMA Advance ==
  ASSUME NEW m \in 0 .. MillisMod - 1, NEW s \in 0 .. MillisMod - 1,
         ((m - s) % MillisMod) + 1 < MillisMod
  PROVE (((m + 1) % MillisMod) - s) % MillisMod = ((m - s) % MillisMod) + 1
  <1>1. MillisMod \in Nat \ {0}
    BY ArduinoAssumption
  <1>2. CASE m >= s
    <2>1. (m - s) % MillisMod = m - s
      BY <1>1, <1>2
    <2>2. CASE m + 1 < MillisMod
      <3>1. (m + 1) % MillisMod = m + 1
        BY <1>1, <2>2
      <3>2. (m + 1 - s) % MillisMod = m + 1 - s
        BY <1>1, <1>2, <2>1
      <3> QED BY <2>1, <3>1, <3>2, <1>1
    <2>3. CASE m + 1 = MillisMod
      <3>1. (m + 1) % MillisMod = 0
        BY <1>1, <2>3
      <3>2. s > 0 /\ m - s + 1 = MillisMod - s
        BY <1>1, <2>1, <2>3
      <3>3. (0 - s) % MillisMod = MillisMod - s
        BY <1>1, <3>2
      <3> QED BY <2>1, <3>1, <3>2, <3>3, <1>1
    <2> QED BY <1>1, <2>2, <2>3
  <1>3. CASE m < s
    <2>1. (m - s) % MillisMod = m - s + MillisMod
      BY <1>1, <1>3
    <2>2. (m + 1) % MillisMod = m + 1
      BY <1>1, <1>3
    <2>3. m + 1 < s
      BY <1>1, <1>3, <2>1
    <2>4. (m + 1 - s) % MillisMod = m + 1 - s + MillisMod
      BY <1>1, <2>3
    <2> QED BY <2>1, <2>2, <2>4, <1>1
  <1> QED BY <1>1, <1>2, <1>3

\* No time is between a reading of the counter and itself.
LEMMA Reading ==
  ASSUME NEW m \in 0 .. MillisMod - 1
  PROVE (m - m) % MillisMod = 0
  <1>1. MillisMod \in Nat \ {0}
    BY ArduinoAssumption
  <1>2. m - m = 0
    OBVIOUS
  <1> QED BY <1>1, <1>2

LEMMA Difference ==
  ASSUME NEW m \in 0 .. MillisMod - 1, NEW s \in 0 .. MillisMod - 1
  PROVE (m - s) % MillisMod \in 0 .. MillisMod - 1
  <1>1. MillisMod \in Nat \ {0} /\ m - s \in Int
    BY ArduinoAssumption
  <1> QED BY <1>1

LEMMA IdleType ==
  ASSUME MillisMod > 0
  PROVE /\ Idle \in CallType
        /\ Idle.pc = "idle" /\ Idle.elapsed = 0
  BY ArduinoAssumption DEF Idle, CallType, Pcs, MaxElapsed

\* A call begins with the members of Idle, but for some.
LEMMA Begun ==
  ASSUME NEW c \in CallType, NEW p \in Pcs, NEW d \in Devices
  PROVE /\ [c EXCEPT !.pc = p, !.dev = d] \in CallType
        /\ [c EXCEPT !.pc = p, !.dev = d].pc = p
  BY DEF CallType

LEMMA WaitBegun ==
  ASSUME NEW c \in CallType, NEW p \in Pcs, NEW d \in Devices, NEW t \in Int
  PROVE LET w == [c EXCEPT !.pc = p, !.dev = d, !.timeout = t]
        IN /\ w \in CallType
           /\ w.pc = p /\ w.timeout = t /\ w.elapsed = c.elapsed
  BY DEF CallType

\* What the steps of a call change of it.
LEMMA Advanced ==
  ASSUME NEW c \in CallType, NEW p \in Pcs, NEW m \in 0 .. MillisMod - 1
  PROVE /\ [c EXCEPT !.pc = p] \in CallType
        /\ [c EXCEPT !.pc = p] = [c EXCEPT !.pc = p, !.start = c.start]
        /\ [c EXCEPT !.pc = p, !.start = m] \in CallType
        /\ [c EXCEPT !.pc = p, !.start = m].pc = p
        /\ [c EXCEPT !.pc = p, !.start = m].start = m
        /\ [c EXCEPT !.pc = p, !.start = m].timeout = c.timeout
        /\ [c EXCEPT !.pc = p, !.start = m].elapsed = c.elapsed
  BY DEF CallType

LEMMA Counted ==
  ASSUME NEW c \in CallType, c.count < CHUNK_SIZE
  PROVE /\ [c EXCEPT !.count = @ + 1] \in CallType
        /\ [c EXCEPT !.count = @ + 1].pc = c.pc
  BY ArduinoAssumption DEF CallType

LEMMA Later ==
  ASSUME NEW c \in CallType, c.elapsed < MaxElapsed
  PROVE LET l == [c EXCEPT !.elapsed = @ + 1]
        IN /\ l \in CallType
           /\ l.pc = c.pc /\ l.timeout = c.timeout /\ l.start = c.start
           /\ l.elapsed = c.elapsed + 1
  BY ArduinoAssumption DEF CallType, MaxElapsed

-----------------------------------------------------------------------------
(* Types *)

LEMMA TypesInit == Init => Types
  <1> SUFFICES ASSUME Init PROVE Types
    OBVIOUS
  <1>1. MillisMod > 0
    BY ArduinoAssumption DEF Init
  <1>2. call \in CallType
    BY <1>1, IdleType DEF Init
  <1>3. port \in PortType
    BY DEF Init, PortType, Modes
  <1>4. /\ fd \in [Devices -> {0, -1}] /\ ready \in {"yes", "no"} /\ available \in 0 .. RingSize
        /\ millis \in 0 .. MillisMod - 1 /\ lag \in 0 .. MaxLag /\ ret \in Int
    BY ArduinoAssumption DEF Init
  <1> QED BY <1>2, <1>3, <1>4 DEF Types

LEMMA TypesStep == Types /\ [Next]_vars => Types'
  <1> SUFFICES ASSUME Types, [Next]_vars PROVE Types'
    OBVIOUS
  <1> USE ArduinoAssumption
  <1>0. /\ MillisMod > 0 /\ Idle \in CallType /\ Idle.pc = "idle"
        /\ call.pc \in Pcs /\ call.dev \in Devices \cup {"none"} /\ call.count \in 0 .. CHUNK_SIZE
    BY IdleType DEF Types, CallType
  <1>1. ASSUME UNCHANGED vars PROVE Types'
    BY <1>1 DEF Types, vars, clock
  <1>2. CASE RxInterrupt
    BY <1>2 DEF RxInterrupt, Types, clock
  <1>3. CASE HostComes
    BY <1>3 DEF HostComes, Types, clock
  <1>4. CASE Tick
    <2>1. millis' \in 0 .. MillisMod - 1
      BY <1>4, <1>0 DEF Tick, Types
    <2>2. lag' \in 0 .. MaxLag
      BY <1>4 DEF Tick, Types
    <2>3. call' \in CallType
      <3>1. CASE Timed /\ call.elapsed < MaxElapsed
        BY <1>4, <3>1, Later DEF Tick, Types
      <3>2. CASE ~(Timed /\ call.elapsed < MaxElapsed)
        BY <1>4, <3>2 DEF Tick, Types
      <3> QED BY <3>1, <3>2
    <2> QED BY <1>4, <2>1, <2>2, <2>3 DEF Tick, Types
  <1>5. ASSUME NEW d \in Devices, NoDevice(d) PROVE Types'
    BY <1>5, <1>0 DEF NoDevice, Return, Types, clock, SMP_ERROR_NO_DEVICE
  <1>6. ASSUME NEW d \in Devices, OpenUnknown(d) PROVE Types'
    BY <1>6, <1>0 DEF OpenUnknown, Return, Types, clock, SMP_ERROR_NO_DEVICE
  <1>7. ASSUME NEW d \in Devices, Open(d) PROVE Types'
    <2>1. call' \in CallType
      <3>1. call' = [Idle EXCEPT !.pc = "open", !.dev = d] /\ "open" \in Pcs
        BY <1>7 DEF Open, Pcs
      <3> QED BY <3>1, <1>0, Begun
    <2>2. port' \in PortType
      BY <1>7 DEF Open, PortType, Modes
    <2> QED BY <1>7, <2>1, <2>2 DEF Open, Types, clock
  <1>8. ASSUME NEW d \in Devices, Close(d) PROVE Types'
    <2>1. port' \in PortType
      BY <1>8 DEF Close, Types, PortType
    <2> QED BY <1>8, <2>1 DEF Close, Types, clock
  <1>9. ASSUME NEW d \in Devices, Write(d) PROVE Types'
    BY <1>9, <1>0 DEF Write, Return, Types, clock
  <1>10. ASSUME NEW d \in Devices, Read(d) PROVE Types'
    <2>1. call' \in CallType
      <3>1. call' = [Idle EXCEPT !.pc = "read", !.dev = d] /\ "read" \in Pcs
        BY <1>10 DEF Read, Pcs
      <3> QED BY <3>1, <1>0, Begun
    <2> QED BY <1>10, <2>1 DEF Read, Types, clock
  <1>11. ASSUME NEW d \in Devices, NEW wanted \in Configs, SetConfig(d, wanted) PROVE Types'
    <2>1. CASE ~Supported(wanted)
      BY <1>11, <2>1, <1>0 DEF SetConfig, Return, Types, clock, SMP_ERROR_INVALID_PARAM
    <2>2. CASE Supported(wanted)
      <3>1. call' \in CallType
        <4>1. call' = [Idle EXCEPT !.pc = "configure", !.dev = d] /\ "configure" \in Pcs
          BY <1>11, <2>2 DEF SetConfig, Pcs
        <4> QED BY <4>1, <1>0, Begun
      <3>2. port' \in PortType
        BY <1>11, <2>2 DEF SetConfig, Supported, PortType
      <3> QED BY <1>11, <2>2, <3>1, <3>2 DEF SetConfig, Types, clock
    <2> QED BY <2>1, <2>2
  <1>12. ASSUME NEW d \in Devices, NEW t \in Timeouts, Wait(d, t) PROVE Types'
    <2>1. t \in Int
      OBVIOUS
    <2>2. call' \in CallType /\ ret' \in Int
      <3>1. CASE available > 0
        BY <1>12, <3>1, <1>0 DEF Wait, Return
      <3>2. CASE ~(available > 0)
        <4>1. PICK p \in Pcs : call' = [Idle EXCEPT !.pc = p, !.dev = d, !.timeout = t]
          BY <1>12, <3>2 DEF Wait, Pcs
        <4>2. call' \in CallType
          BY <4>1, <2>1, <1>0, WaitBegun
        <4> QED BY <1>12, <3>2, <4>2 DEF Wait, Types
      <3> QED BY <3>1, <3>2
    <2> QED BY <1>12, <2>2 DEF Wait, Types
  <1>13. CASE OpenReady
    <2>1. fd' \in [Devices -> {0, -1}]
      BY <1>13 DEF OpenReady, Types
    <2>2. call' \in CallType /\ ret' \in Int
      BY <1>13, <1>0 DEF OpenReady, Return
    <2> QED BY <1>13, <2>1, <2>2 DEF OpenReady, Types, clock
  <1>14. CASE Configured
    BY <1>14, <1>0 DEF Configured, Return, Types, clock
  <1>15. CASE ReadByte
    <2>1. call' \in CallType
      BY <1>15, Counted DEF ReadByte, Types
    <2> QED BY <1>15, <2>1 DEF ReadByte, Types, clock
  <1>16. CASE ReadEnds
    BY <1>16, <1>0 DEF ReadEnds, Return, Types, clock
  <1>17. CASE WaitSpin
    BY <1>17, <1>0 DEF WaitSpin, Return, Types, clock
  <1>18. CASE WaitStart
    <2>1. call' \in CallType
      BY <1>18, Advanced DEF WaitStart, Types, Pcs
    <2> QED BY <1>18, <2>1 DEF WaitStart, Types
  <1>19. CASE WaitPoll
    <2>1. PICK p \in Pcs : call' = [call EXCEPT !.pc = p] /\ ret' = ret
      BY <1>19 DEF WaitPoll, Step, Pcs
    <2>2. call' \in CallType
      BY <2>1, Advanced DEF Types
    <2> QED BY <1>19, <2>1, <2>2 DEF WaitPoll, Types
  <1>20. CASE WaitLook
    <2>1. call' \in CallType /\ ret' \in Int
      <3>1. CASE available > 0
        BY <1>20, <3>1, <1>0 DEF WaitLook, Return
      <3>2. CASE ~(available > 0)
        <4>1. call' = [call EXCEPT !.pc = "poll"] /\ ret' = ret /\ "poll" \in Pcs
          BY <1>20, <3>2 DEF WaitLook, Step, Pcs
        <4> QED BY <4>1, Advanced DEF Types
      <3> QED BY <3>1, <3>2
    <2> QED BY <1>20, <2>1 DEF WaitLook, Types, clock
  <1>21. CASE WaitLast
    BY <1>21, <1>0 DEF WaitLast, Return, Types, clock, SMP_ERROR_TIMEDOUT
  <1> QED
    BY <1>1, <1>2, <1>3, <1>4, <1>5, <1>6, <1>7, <1>8, <1>9, <1>10, <1>11, <1>12, <1>13, <1>14,
       <1>15, <1>16, <1>17, <1>18, <1>19, <1>20, <1>21 DEF Next, Calls, Goes

-----------------------------------------------------------------------------
(* Time *)

\* The wait is at most three times MaxLag behind its timeout, and so its length is one
\* the counter can tell.
LEMMA Bounded ==
  ASSUME Types, WaitInv, call.pc \in {"poll", "look", "last"}
  PROVE /\ call.timeout \in Nat /\ call.timeout + 3 * MaxLag < MillisMod
        /\ Waited \in Nat /\ Waited <= call.timeout + MaxLag + lag
        /\ call.elapsed \in Waited .. Waited + MaxLag
        /\ call.elapsed < MaxElapsed
  <1>1. call.timeout \in Timeouts /\ call.timeout >= 0
    BY DEF WaitInv, Timed
  <1>2. call.timeout \in Nat /\ call.timeout + 3 * MaxLag < MillisMod
    <2>1. call.timeout \in Int
      BY DEF Types, CallType
    <2>2. call.timeout + 3 * MaxLag < MillisMod
      BY <1>1, ArduinoAssumption
    <2> QED BY <1>1, <2>1, <2>2
  <1>3. Waited \in 0 .. MillisMod - 1
    BY Difference DEF Waited, Types, CallType
  <1>4. MaxLag \in Nat /\ lag \in 0 .. MaxLag /\ call.elapsed \in Nat /\ MillisMod \in Nat
    BY ArduinoAssumption DEF Types, CallType, MaxElapsed
  <1>5. call.elapsed - Waited \in 0 .. MaxLag
    BY DEF WaitInv
  <1>6. Waited <= call.timeout + MaxLag + lag
    <2>1. CASE call.pc = "poll"
      BY <2>1, <1>2, <1>3, <1>4 DEF WaitInv
    <2>2. CASE call.pc = "look"
      BY <2>2, <1>2, <1>3, <1>4 DEF WaitInv
    <2>3. CASE call.pc = "last"
      BY <2>3, <1>2, <1>3, <1>4 DEF WaitInv
    <2> QED BY <2>1, <2>2, <2>3
  <1> HIDE DEF Waited
  <1>7. call.elapsed \in Waited .. Waited + MaxLag
    BY <1>3, <1>4, <1>5
  <1>8. call.elapsed < MillisMod
    BY <1>2, <1>3, <1>4, <1>6, <1>7
  <1> QED BY <1>2, <1>3, <1>6, <1>7, <1>8 DEF MaxElapsed

LEMMA WaitInit == Init => WaitInv
  BY DEF Init, Idle, WaitInv, Timed

\* A call that is not a wait with a timeout is of no interest here.
LEMMA NotTimed == ~Timed' => WaitInv'
  BY DEF WaitInv, Timed

LEMMA TickTimed ==
  ASSUME Types, WaitInv, Tick, Timed
  PROVE WaitInv'
  <1>0. /\ lag < MaxLag /\ lag' = lag + 1
        /\ lag \in Nat /\ MaxLag \in Nat /\ MillisMod \in Nat
        /\ call \in CallType /\ call.elapsed \in Nat
    BY ArduinoAssumption DEF Tick, Types, CallType, MaxElapsed
  <1>1. call.timeout \in Timeouts /\ call.timeout >= 0
    BY DEF WaitInv
  <1>2. call.timeout \in Nat /\ call.timeout + 3 * MaxLag < MillisMod
    <2>1. call.timeout \in Int
      BY DEF Types, CallType
    <2>2. call.timeout + 3 * MaxLag < MillisMod
      BY <1>1, ArduinoAssumption
    <2> QED BY <1>1, <2>1, <2>2
  <1>3. call.elapsed < MaxElapsed
    <2>1. CASE call.pc = "start"
      <3>1. call.elapsed = lag
        BY <2>1 DEF WaitInv
      <3> QED BY <3>1, <1>0, <1>2 DEF MaxElapsed
    <2>2. CASE call.pc # "start"
      BY <2>2, Bounded DEF Timed
    <2> QED BY <2>1, <2>2
  <1>4. call' = [call EXCEPT !.elapsed = @ + 1]
    BY <1>3 DEF Tick
  <1>5. /\ call'.pc = call.pc /\ call'.timeout = call.timeout /\ call'.start = call.start
        /\ call'.elapsed = call.elapsed + 1
    BY <1>0, <1>3, <1>4, Later
  <1>6. CASE call.pc = "start"
    <2>1. call.elapsed = lag
      BY <1>6 DEF WaitInv
    <2> QED BY <1>0, <1>1, <1>5, <1>6, <2>1 DEF WaitInv, Timed
  <1>7. CASE call.pc # "start"
    <2>1. call.pc \in {"poll", "look", "last"}
      BY <1>7 DEF Timed
    <2>2. /\ Waited \in Nat /\ Waited <= call.timeout + MaxLag + lag
          /\ call.elapsed - Waited \in 0 .. MaxLag
      BY <2>1, Bounded DEF WaitInv
    <2>3. Waited + 1 < MillisMod
      BY <2>2, <1>0, <1>2
    <2>4. /\ millis' = (millis + 1) % MillisMod
          /\ millis \in 0 .. MillisMod - 1 /\ call.start \in 0 .. MillisMod - 1
      BY DEF Tick, Types, CallType
    <2>5. Waited' = Waited + 1
      BY <2>3, <2>4, <1>5, Advance DEF Waited
    <2> HIDE DEF Waited
    <2>6. (call.elapsed - Waited)' \in 0 .. MaxLag
      BY <1>0, <1>5, <2>2, <2>5
    <2>7. (Waited - lag)' = Waited - lag
      BY <1>0, <2>2, <2>5
    <2>8. call.pc = "poll" => Waited' = lag' \/ (Waited' >= lag' /\ Waited' - lag' < call'.timeout)
      BY <1>0, <1>2, <1>5, <2>2, <2>5 DEF WaitInv
    <2>9. call.pc = "look" => Waited' >= lag' /\ Waited' - lag' < call'.timeout
      BY <1>0, <1>2, <1>5, <2>2, <2>5 DEF WaitInv
    <2>10. call.pc = "last" => (Waited - lag)' \in call'.timeout .. call'.timeout + MaxLag
      BY <1>5, <2>7 DEF WaitInv
    <2> QED BY <1>1, <1>5, <2>1, <2>6, <2>8, <2>9, <2>10 DEF WaitInv, Timed
  <1> QED BY <1>6, <1>7

LEMMA WaitStep == Types /\ WaitInv /\ [Next]_vars => WaitInv'
  <1> SUFFICES ASSUME Types, WaitInv, [Next]_vars PROVE WaitInv'
    OBVIOUS
  <1>0. /\ MillisMod > 0 /\ Idle \in CallType /\ Idle.pc = "idle" /\ Idle.elapsed = 0
        /\ call \in CallType /\ lag \in 0 .. MaxLag /\ MaxLag \in Nat
        /\ millis \in 0 .. MillisMod - 1 /\ MillisMod \in Nat
    BY ArduinoAssumption, IdleType DEF Types
  <1>1. ASSUME call' = call, millis' = millis, lag' = lag PROVE WaitInv'
    BY <1>1 DEF WaitInv, Timed, Waited
  <1>2. ASSUME call' = Idle PROVE WaitInv'
    <2>1. ~Timed'
      BY <1>0, <1>2 DEF Timed
    <2> QED BY <2>1, NotTimed
  <1>3. ASSUME NEW d \in Devices, NEW p \in Pcs \ {"start", "poll", "look", "last"},
               call' = [Idle EXCEPT !.pc = p, !.dev = d]
        PROVE WaitInv'
    <2>1. call'.pc = p
      BY <1>0, <1>3 DEF CallType
    <2>2. ~Timed'
      BY <2>1 DEF Timed
    <2> QED BY <2>2, NotTimed
  <1>4. CASE Tick
    <2>1. CASE Timed
      BY <1>4, <2>1, TickTimed
    <2>2. CASE ~Timed
      <3>1. call' = call
        BY <1>4, <2>2 DEF Tick
      <3>2. ~Timed'
        BY <2>2, <3>1 DEF Timed
      <3> QED BY <3>2, NotTimed
    <2> QED BY <2>1, <2>2
  <1>5. ASSUME NEW d \in Devices, NEW t \in Timeouts, Wait(d, t) PROVE WaitInv'
    <2>1. CASE available > 0
      BY <1>2, <1>5, <2>1 DEF Wait, Return
    <2>2. CASE ~(available > 0) /\ t < 0
      <3>1. call' = [Idle EXCEPT !.pc = "spin", !.dev = d, !.timeout = t] /\ "spin" \in Pcs
        BY <1>5, <2>2 DEF Wait, Pcs
      <3>2. t \in Int
        BY ArduinoAssumption
      <3>3. ~Timed'
        BY <1>0, <3>1 DEF CallType, Timed
      <3> QED BY <3>3, NotTimed
    <2>3. CASE ~(available > 0) /\ ~(t < 0)
      <3>1. call' = [Idle EXCEPT !.pc = "start", !.dev = d, !.timeout = t] /\ "start" \in Pcs
        BY <1>5, <2>3 DEF Wait, Pcs
      <3>2. t \in Int /\ t >= 0
        BY <2>3, ArduinoAssumption
      <3>3. call'.pc = "start" /\ call'.timeout = t /\ call'.elapsed = 0
        BY <1>0, <3>1 DEF CallType
      <3>4. lag' = 0
        BY <1>5 DEF Wait
      <3> QED BY <3>2, <3>3, <3>4 DEF WaitInv, Timed
    <2> QED BY <2>1, <2>2, <2>3
  <1>6. CASE ReadByte
    <2>1. call'.pc = "read"
      BY <1>0, <1>6, Counted DEF ReadByte
    <2>2. ~Timed'
      BY <2>1 DEF Timed
    <2> QED BY <2>2, NotTimed
  <1>7. CASE WaitStart
    <2>1. /\ call' = [call EXCEPT !.pc = "poll", !.start = millis] /\ "poll" \in Pcs
          /\ call.pc = "start" /\ lag' = 0 /\ millis' = millis
      BY <1>7 DEF WaitStart, Pcs
    <2>2. /\ call'.pc = "poll" /\ call'.start = millis
          /\ call'.timeout = call.timeout /\ call'.elapsed = call.elapsed
      BY <1>0, <2>1 DEF CallType
    <2>3. Waited' = 0
      BY <1>0, <2>1, <2>2, Reading DEF Waited
    <2>4. call.elapsed = lag /\ call.timeout \in Timeouts /\ call.timeout >= 0
      BY <2>1 DEF WaitInv, Timed
    <2> HIDE DEF Waited
    <2>5. (call.elapsed - Waited)' \in 0 .. MaxLag
      BY <1>0, <2>2, <2>3, <2>4
    <2> QED BY <2>1, <2>2, <2>3, <2>4, <2>5 DEF WaitInv, Timed
  <1>8. ASSUME NEW p \in Pcs, call' = [call EXCEPT !.pc = p], millis' = millis
        PROVE /\ call'.pc = p /\ call'.timeout = call.timeout /\ call'.elapsed = call.elapsed
              /\ Waited' = Waited
    BY <1>0, <1>8 DEF CallType, Waited
  <1>9. CASE WaitPoll
    <2>1. /\ call.pc = "poll" /\ lag' = 0 /\ millis' = millis
          /\ call' = [call EXCEPT !.pc = IF TimeLeft THEN "look" ELSE "last"]
      BY <1>9 DEF WaitPoll, Step
    <2>2. /\ call.timeout \in Timeouts /\ call.timeout >= 0
          /\ call.elapsed - Waited \in 0 .. MaxLag
          /\ Waited = lag \/ (Waited >= lag /\ Waited - lag < call.timeout)
      BY <2>1 DEF WaitInv, Timed
    <2>3. call.timeout \in Nat /\ Waited \in Nat
      BY <2>1, Bounded
    <2>4. CASE TimeLeft
      <3>1. /\ call'.pc = "look" /\ call'.timeout = call.timeout
            /\ call'.elapsed = call.elapsed /\ Waited' = Waited
        BY <1>8, <2>1, <2>4 DEF Pcs
      <3>2. Waited < call.timeout
        BY <2>4 DEF TimeLeft, Waited
      <3> HIDE DEF Waited
      <3>3. Waited' >= lag' /\ Waited' - lag' < call'.timeout
        BY <2>1, <2>3, <3>1, <3>2
      <3> QED BY <2>2, <3>1, <3>3 DEF WaitInv, Timed
    <2>5. CASE ~TimeLeft
      <3>1. /\ call'.pc = "last" /\ call'.timeout = call.timeout
            /\ call'.elapsed = call.elapsed /\ Waited' = Waited
        BY <1>8, <2>1, <2>5 DEF Pcs
      <3>2. ~(Waited < call.timeout)
        BY <2>5 DEF TimeLeft, Waited
      <3> HIDE DEF Waited
      <3>3. (Waited - lag)' \in call'.timeout .. call'.timeout + MaxLag
        BY <1>0, <2>1, <2>2, <2>3, <3>1, <3>2
      <3> QED BY <2>2, <3>1, <3>3 DEF WaitInv, Timed
    <2> QED BY <2>4, <2>5
  <1>10. CASE WaitLook
    <2>1. CASE available > 0
      BY <1>2, <1>10, <2>1 DEF WaitLook, Return
    <2>2. CASE ~(available > 0)
      <3>1. /\ call.pc = "look" /\ lag' = lag /\ millis' = millis
            /\ call' = [call EXCEPT !.pc = "poll"] /\ "poll" \in Pcs
        BY <1>10, <2>2 DEF WaitLook, Step, clock, Pcs
      <3>2. /\ call'.pc = "poll" /\ call'.timeout = call.timeout
            /\ call'.elapsed = call.elapsed /\ Waited' = Waited
        BY <1>8, <3>1
      <3>3. /\ call.timeout \in Timeouts /\ call.timeout >= 0
            /\ call.elapsed - Waited \in 0 .. MaxLag
            /\ Waited >= lag /\ Waited - lag < call.timeout
        BY <3>1 DEF WaitInv, Timed
      <3> HIDE DEF Waited
      <3> QED BY <3>1, <3>2, <3>3 DEF WaitInv, Timed
    <2> QED BY <2>1, <2>2
  <1>11. CASE UNCHANGED vars \/ RxInterrupt \/ HostComes
    BY <1>1, <1>11 DEF vars, clock, RxInterrupt, HostComes
  <1>12. ASSUME NEW d \in Devices, NoDevice(d) \/ OpenUnknown(d) \/ Close(d) \/ Write(d)
         PROVE WaitInv'
    BY <1>1, <1>2, <1>12 DEF NoDevice, OpenUnknown, Close, Write, Return, clock
  <1>13. ASSUME NEW d \in Devices, Open(d) \/ Read(d) PROVE WaitInv'
    <2>1. CASE Open(d)
      <3>1. call' = [Idle EXCEPT !.pc = "open", !.dev = d]
        BY <2>1 DEF Open
      <3> QED BY <1>3, <3>1 DEF Pcs
    <2>2. CASE Read(d)
      <3>1. call' = [Idle EXCEPT !.pc = "read", !.dev = d]
        BY <2>2 DEF Read
      <3> QED BY <1>3, <3>1 DEF Pcs
    <2> QED BY <1>13, <2>1, <2>2
  <1>14. ASSUME NEW d \in Devices, NEW wanted \in Configs, SetConfig(d, wanted) PROVE WaitInv'
    <2>1. CASE Supported(wanted)
      BY <1>3, <1>14, <2>1 DEF SetConfig, Pcs
    <2>2. CASE ~Supported(wanted)
      BY <1>2, <1>14, <2>2 DEF SetConfig, Return
    <2> QED BY <2>1, <2>2
  <1>15. CASE OpenReady \/ Configured \/ ReadEnds \/ WaitSpin \/ WaitLast
    BY <1>2, <1>15 DEF OpenReady, Configured, ReadEnds, WaitSpin, WaitLast, Return
  <1> QED
    BY <1>4, <1>5, <1>6, <1>7, <1>9, <1>10, <1>11, <1>12, <1>13, <1>14, <1>15
    DEF Next, Calls, Goes

-----------------------------------------------------------------------------
(* Theorems *)

LEMMA Invariant == Spec => [](Types /\ WaitInv)
  <1>1. Init => Types /\ WaitInv
    BY TypesInit, WaitInit
  <1>2. Types /\ WaitInv /\ [Next]_vars => (Types /\ WaitInv)'
    BY TypesStep, WaitStep
  <1> QED BY <1>1, <1>2, PTL DEF Spec

(***************************************************************************)
(* Every variable keeps its type: wait keeps to readings of the counter it *)
(* can have, and read to the size of its chunk.                            *)
(***************************************************************************)
THEOREM TypeCorrect == Spec => []TypeOK
  <1>1. Types => TypeOK
    <2> SUFFICES ASSUME Types PROVE TypeOK
      OBVIOUS
    <2>1. DOMAIN call = DOMAIN Idle
      BY DEF Types, CallType, Idle
    <2>2. /\ call.count \in 0 .. CHUNK_SIZE
          /\ call.elapsed \in 0 .. MaxElapsed /\ call.start \in 0 .. MillisMod - 1
      BY DEF Types, CallType
    <2>3. port.begun \in {"yes", "no"} /\ port.baudrate \in Nat /\ port.mode \in Modes
      BY DEF Types, PortType
    <2> QED BY <2>1, <2>2, <2>3 DEF Types, TypeOK
  <1> QED BY <1>1, Invariant, PTL

(***************************************************************************)
(* For every timeout the counter can tell and wherever it wraps: a wait    *)
(* that times out found no byte, and took no less than it was asked to and *)
(* no more than three turns of its loop longer.                            *)
(***************************************************************************)
THEOREM WaitsKeepTime == Spec => TimedOutInTime
  <1> DEFINE A == Timed /\ call' = Idle /\ ret' = SMP_ERROR_TIMEDOUT
                    => /\ available = 0
                       /\ call.elapsed \in call.timeout .. call.timeout + 3 * MaxLag
  <1>1. Types /\ WaitInv /\ [Next]_vars => [A]_vars
    <2> SUFFICES ASSUME Types, WaitInv, [Next]_vars, Timed, call' = Idle,
                        ret' = SMP_ERROR_TIMEDOUT, vars' # vars
                 PROVE /\ available = 0
                       /\ call.elapsed \in call.timeout .. call.timeout + 3 * MaxLag
      OBVIOUS
    <2>0. Idle.pc = "idle" /\ call \in CallType /\ available \in Nat
      BY ArduinoAssumption, IdleType DEF Types
    <2>1. call # Idle /\ call'.pc # call.pc
      BY <2>0 DEF Timed
    <2>2. ~RxInterrupt /\ ~HostComes
      BY <2>1 DEF RxInterrupt, HostComes
    <2>3. ~Tick
      BY <2>0, <2>1 DEF Tick, CallType
    <2>4. ~Calls
      <3>1. ASSUME NEW d PROVE /\ ~NoDevice(d) /\ ~OpenUnknown(d) /\ ~Open(d)
                               /\ ~Close(d) /\ ~Write(d) /\ ~Read(d)
        BY <2>1 DEF NoDevice, OpenUnknown, Open, Close, Write, Read, On
      <3>2. ASSUME NEW d, NEW wanted PROVE ~SetConfig(d, wanted)
        BY <2>1 DEF SetConfig, On
      <3>3. ASSUME NEW d, NEW t PROVE ~Wait(d, t)
        BY <2>1 DEF Wait, On
      <3> QED BY <3>1, <3>2, <3>3 DEF Calls
    <2>5. ~OpenReady /\ ~Configured /\ ~ReadByte /\ ~ReadEnds /\ ~WaitSpin
      BY DEF Timed, OpenReady, Configured, ReadByte, ReadEnds, WaitSpin
    <2>6. ~WaitStart
      <3>1. WaitStart => call'.pc = "poll"
        BY <2>0 DEF WaitStart, CallType
      <3> QED BY <3>1, <2>0
    <2>7. ~WaitPoll
      <3>1. WaitPoll => call'.pc \in {"look", "last"}
        BY <2>0 DEF WaitPoll, Step, CallType
      <3> QED BY <3>1, <2>0
    <2>8. ~WaitLook
      <3>1. WaitLook => ret' = 0 \/ call'.pc = "poll"
        BY <2>0 DEF WaitLook, Return, Step, CallType
      <3> QED BY <3>1, <2>0 DEF SMP_ERROR_TIMEDOUT
    <2>9. WaitLast
      BY <2>1, <2>2, <2>3, <2>4, <2>5, <2>6, <2>7, <2>8 DEF Next, Goes
    <2>10. call.pc = "last" /\ available = 0
      BY <2>0, <2>9 DEF WaitLast, Return, SMP_ERROR_TIMEDOUT
    <2>11. /\ call.timeout \in Nat /\ call.elapsed \in Waited .. Waited + MaxLag
           /\ Waited \in Nat /\ Waited <= call.timeout + MaxLag + lag
           /\ Waited - lag \in call.timeout .. call.timeout + MaxLag
      BY <2>10, Bounded DEF WaitInv
    <2>12. MaxLag \in Nat /\ lag \in 0 .. MaxLag
      BY ArduinoAssumption DEF Types
    <2> HIDE DEF Waited
    <2>13. call.elapsed \in call.timeout .. call.timeout + 3 * MaxLag
      BY <2>11, <2>12
    <2> QED BY <2>10, <2>13
  <1> HIDE DEF A
  <1>2. Spec => [][A]_vars
    BY <1>1, Invariant, PTL DEF Spec
  <1> QED BY <1>2 DEF A, TimedOutInTime

=============================================================================
