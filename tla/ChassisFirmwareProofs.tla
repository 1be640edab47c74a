------------------------ MODULE ChassisFirmwareProofs ------------------------
(***************************************************************************)
(* Proofs about ChassisFirmware for every number of wheels, every set of   *)
(* twists and every choice of the periods and timeouts.                    *)
(***************************************************************************)
EXTENDS ChassisFirmware, TLAPS

\* A remainder is a value the counter can hold.
LEMMA ModRange ==
    ASSUME NEW a \in Int, NEW b \in Nat \ {0}
    PROVE  a % b \in 0 .. b - 1
  OBVIOUS

LEMMA WheelZero == 0 \in Wheels
  BY ConstantsOK DEF Wheels

-----------------------------------------------------------------------------
(***************************************************************************)
(* Type correctness.                                                       *)
(***************************************************************************)
LEMMA InitTypeOK == Init => TypeOK
<1> SUFFICES ASSUME Init PROVE TypeOK
  OBVIOUS
<1>1. 0 \in 0 .. TickMod - 1 /\ AgeCap \in 0 .. AgeCap /\ 0 \in 0 .. AgeCap
  BY ConstantsOK DEF AgeCap
<1>2. 0 \in 0 .. CpuBudget /\ 0 \in 0 .. WatchdogTimeout
  BY ConstantsOK
<1>3. Idle \in Modes
  BY ConstantsOK
<1> QED
  BY <1>1, <1>2, <1>3, WheelZero DEF Init, TypeOK, Pcs, CommStates

\* A reset, by power or by the watchdog, re-establishes the types.
LEMMA ResetTypeOK ==
    ASSUME NEW cause \in {"POR", "IWDG"}, Reset(cause)
    PROVE  TypeOK'
<1>1. 0 \in 0 .. TickMod - 1 /\ AgeCap \in 0 .. AgeCap /\ 0 \in 0 .. AgeCap
  BY ConstantsOK DEF AgeCap
<1>2. 0 \in 0 .. CpuBudget /\ 0 \in 0 .. WatchdogTimeout
  BY ConstantsOK
<1>3. Idle \in Modes
  BY ConstantsOK
<1> QED
  BY <1>1, <1>2, <1>3, WheelZero DEF Reset, TypeOK, Pcs, CommStates

LEMMA MainStepTypeOK == TypeOK /\ MainStep => TypeOK'
<1> SUFFICES ASSUME TypeOK, MainStep PROVE TypeOK'
  OBVIOUS
<1> USE DEF TypeOK, Pcs, SendPcs, commVars, periodVars, usbVars, ages
<1>1. CASE StartTick
  BY <1>1, ConstantsOK DEF StartTick
<1>2. CASE UpdateComm
  BY <1>2 DEF UpdateComm, CommState, CommStates
<1>3. CASE ZeroSetpoint
  BY <1>3, WheelZero DEF ZeroSetpoint, NextWheel
<1>4. CASE MotorsOff
  BY <1>4 DEF MotorsOff
<1>5. CASE ControlGate
  BY <1>5 DEF ControlGate
<1>6. CASE ComputeWheel
  BY <1>6 DEF ComputeWheel, Outputs
<1>7. CASE WriteWheel
  BY <1>7, WheelZero DEF WriteWheel, NextWheel
<1>8. CASE TelemetryGate
  BY <1>8 DEF TelemetryGate
<1>9. CASE ReportGate
  BY <1>9 DEF ReportGate
<1>10. CASE Send
  BY <1>10 DEF Send, AfterSend
<1> QED
  BY <1>1, <1>2, <1>3, <1>4, <1>5, <1>6, <1>7, <1>8, <1>9, <1>10 DEF MainStep

LEMMA UsbInterruptTypeOK == TypeOK /\ UsbInterrupt => TypeOK'
<1> SUFFICES ASSUME TypeOK, UsbInterrupt PROVE TypeOK'
  OBVIOUS
<1> USE DEF TypeOK, loopVars, commVars, periodVars, usbVars, ages
<1>0. 0 \in 0 .. AgeCap /\ Idle \in Modes /\ Twists \subseteq SUBSET Wheels
  BY ConstantsOK DEF AgeCap
<1>1. CASE RxHeartbeat
  BY <1>0, <1>1 DEF RxHeartbeat, StampHeartbeat, SendAck
<1>2. CASE \E twist \in Twists : AcceptCmdVel(twist)
  BY <1>0, <1>2 DEF AcceptCmdVel, SendAck
<1>3. CASE RejectCmdVel
  BY <1>3 DEF RejectCmdVel, StopInIsr, SendAck
<1>4. CASE \E m \in Modes \cup {BadMode} : RxSetMode(m)
  BY <1>4 DEF RxSetMode, ModeAllowed, StopInIsr, SendAck
<1>5. CASE RxStop
  BY <1>0, <1>5 DEF RxStop, StopInIsr, SendAck
<1>6. CASE RxOther
  BY <1>6 DEF RxOther, SendAck
<1>7. CASE RxCrcError
  BY <1>7 DEF RxCrcError, CommStates
<1>8. CASE TxComplete
  BY <1>8 DEF TxComplete
<1> QED
  BY <1>1, <1>2, <1>3, <1>4, <1>5, <1>6, <1>7, <1>8 DEF UsbInterrupt

LEMMA TimeTypeOK == TypeOK /\ (Tick \/ HangTick) => TypeOK'
<1> SUFFICES ASSUME TypeOK, Tick \/ HangTick PROVE TypeOK'
  OBVIOUS
<1> USE DEF TypeOK, loopVars, commVars, periodVars, usbVars
<1>1. Age => {cmdAge', heartbeatAge'} \subseteq 0 .. AgeCap
  BY ConstantsOK DEF Age, Older, AgeCap
<1>2. (tick + 1) % TickMod \in 0 .. TickMod - 1
  <2>1. tick + 1 \in Int /\ TickMod \in Nat \ {0}
    BY ConstantsOK
  <2> QED
    BY <2>1, ModRange
<1>3. CASE Tick
  BY <1>1, <1>2, <1>3, ConstantsOK DEF Tick
<1>4. CASE HangTick
  BY <1>1, <1>4, ConstantsOK DEF HangTick
<1> QED
  BY <1>3, <1>4

LEMMA NextTypeOK == TypeOK /\ [Next]_vars => TypeOK'
<1> SUFFICES ASSUME TypeOK, [Next]_vars PROVE TypeOK'
  OBVIOUS
<1>1. CASE MainStep
  BY <1>1, MainStepTypeOK
<1>2. CASE UsbInterrupt
  BY <1>2, UsbInterruptTypeOK
<1>3. CASE Tick \/ HangTick
  BY <1>3, TimeTypeOK
<1>4. CASE WatchdogReset \/ PowerCycle
  BY <1>4, ResetTypeOK DEF WatchdogReset, PowerCycle
<1>5. CASE UNCHANGED vars
  BY <1>5 DEF TypeOK, vars, loopVars, commVars, periodVars, usbVars, ages
<1> QED
  BY <1>1, <1>2, <1>3, <1>4, <1>5 DEF Next

\* Every variable keeps its type: app_mode and the wheel sets above all, and
\* the wrapping timestamps.
THEOREM TypeCorrect == Spec => []TypeOK
  BY InitTypeOK, NextTypeOK, PTL DEF Spec

-----------------------------------------------------------------------------
(***************************************************************************)
(* IDLE stops the wheels.  The safety properties are not inductive: what   *)
(* makes them true is that the wheel loops start at wheel 0, that a driven *)
(* output decided before a stop finds every motor off when it is written,  *)
(* and that a pass begun in IDLE decides "off" for every wheel.            *)
(***************************************************************************)
LoopInv == pc \notin {"zero", "wheel", "write"} => i = 0

StaleInv ==
    mode = Idle =>
        /\ setpoint = {}
        /\ \A v, w \in motor : v = w
        /\ pc = "write" /\ out = TRUE => motor = {}

SweepInv ==
    /\ sweep # "none" => mode = Idle
    /\ sweep = "running" =>
        /\ pc \in {"wheel", "write"}
        /\ active = FALSE
        /\ pc = "write" => out = FALSE
        /\ \A w \in motor : w >= i
    /\ sweep = "done" =>
        /\ motor = {}
        /\ pc = "write" => out = FALSE

IInv == TypeOK /\ LoopInv /\ StaleInv /\ SweepInv

LEMMA InitIInv == Init => IInv
<1> SUFFICES ASSUME Init PROVE IInv
  OBVIOUS
<1>1. TypeOK
  BY InitTypeOK
<1> QED
  BY <1>1 DEF Init, IInv, LoopInv, StaleInv, SweepInv

\* The wheel loops: the index comes back to 0 when a loop is left.
LEMMA MainStepLoopInv == LoopInv /\ MainStep => LoopInv'
<1> SUFFICES ASSUME LoopInv, MainStep PROVE LoopInv'
  OBVIOUS
<1> USE DEF LoopInv
<1>1. CASE StartTick \/ UpdateComm \/ MotorsOff \/ ControlGate \/ ComputeWheel
  BY <1>1 DEF StartTick, UpdateComm, MotorsOff, ControlGate, ComputeWheel
<1>2. CASE ZeroSetpoint \/ WriteWheel
  BY <1>2 DEF ZeroSetpoint, WriteWheel, NextWheel
<1>3. CASE TelemetryGate \/ ReportGate \/ Send
  BY <1>3 DEF TelemetryGate, ReportGate, Send, SendPcs, AfterSend
<1> QED
  BY <1>1, <1>2, <1>3 DEF MainStep

\* A main-loop step in IDLE drives at most the one wheel whose output was
\* decided before the stop.
LEMMA MainStepStaleInv == IInv /\ MainStep => StaleInv'
<1> SUFFICES ASSUME IInv, MainStep, mode' = Idle PROVE StaleInv'
  BY DEF StaleInv
<1> USE DEF IInv, StaleInv, commVars
<1>1. CASE StartTick \/ UpdateComm \/ ControlGate \/ TelemetryGate \/ ReportGate \/ Send
  BY <1>1 DEF StartTick, UpdateComm, ControlGate, TelemetryGate, ReportGate,
              Send, SendPcs, AfterSend
<1>2. CASE ZeroSetpoint \/ MotorsOff
  BY <1>2 DEF ZeroSetpoint, MotorsOff, NextWheel
<1>3. CASE ComputeWheel
  BY <1>3 DEF ComputeWheel, Outputs
<1>4. CASE WriteWheel
  BY <1>4 DEF WriteWheel, NextWheel, TypeOK
<1> QED
  BY <1>1, <1>2, <1>3, <1>4 DEF MainStep

\* A pass begun in IDLE switches the wheels off one after the other.
LEMMA MainStepSweepInv == IInv /\ MainStep => SweepInv'
<1> SUFFICES ASSUME IInv, MainStep PROVE SweepInv'
  OBVIOUS
<1> USE DEF IInv, SweepInv, commVars
<1>1. CASE StartTick \/ UpdateComm \/ TelemetryGate \/ ReportGate \/ Send
  BY <1>1 DEF StartTick, UpdateComm, TelemetryGate, ReportGate, Send,
              SendPcs, AfterSend
<1>2. CASE ZeroSetpoint \/ MotorsOff
  BY <1>2 DEF ZeroSetpoint, MotorsOff, NextWheel
<1>3. CASE ControlGate
  <2>1. i = 0 /\ \A w \in motor : w >= 0
    BY <1>3, ConstantsOK DEF ControlGate, LoopInv, TypeOK, Wheels
  <2> QED
    BY <1>3, <2>1 DEF ControlGate
<1>4. CASE ComputeWheel
  BY <1>4 DEF ComputeWheel, Outputs, StaleInv
<1>5. CASE WriteWheel
  <2>1. CASE sweep = "running" /\ i + 1 \in Wheels
    <3>1. /\ motor' = motor \ {i} /\ i' = i + 1 /\ pc' = "wheel"
          /\ sweep' = "running" /\ active' = FALSE /\ mode' = Idle
      BY <1>5, <2>1 DEF WriteWheel, NextWheel
    <3>2. \A w \in motor' : w >= i'
      BY <3>1, <2>1, ConstantsOK DEF TypeOK, Wheels
    <3> QED
      BY <3>1, <3>2
  <2>2. CASE sweep = "running" /\ i + 1 \notin Wheels
    <3>1. motor' = motor \ {i} /\ pc' = "telemetry" /\ sweep' = "done" /\ mode' = Idle
      BY <1>5, <2>2 DEF WriteWheel, NextWheel
    <3>2. motor' = {}
      BY <3>1, <2>2, ConstantsOK DEF TypeOK, Wheels
    <3> QED
      BY <3>1, <3>2
  <2>3. CASE sweep # "running"
    BY <1>5, <2>3 DEF WriteWheel, NextWheel
  <2> QED
    BY <2>1, <2>2, <2>3
<1> QED
  BY <1>1, <1>2, <1>3, <1>4, <1>5 DEF MainStep

\* The interrupt never switches a wheel on, and stops all of them whenever
\* it makes the mode IDLE.
LEMMA UsbInterruptIInv ==
    IInv /\ UsbInterrupt => LoopInv' /\ StaleInv' /\ SweepInv'
<1> SUFFICES ASSUME IInv, UsbInterrupt PROVE LoopInv' /\ StaleInv' /\ SweepInv'
  OBVIOUS
<1> USE DEF IInv, LoopInv, StaleInv, SweepInv, loopVars, commVars
<1>1. CASE RxHeartbeat
  BY <1>1 DEF RxHeartbeat, StampHeartbeat
<1>2. CASE \E twist \in Twists : AcceptCmdVel(twist)
  BY <1>2 DEF AcceptCmdVel
<1>3. CASE RejectCmdVel
  BY <1>3 DEF RejectCmdVel, StopInIsr
<1>4. CASE \E m \in Modes \cup {BadMode} : RxSetMode(m)
  BY <1>4 DEF RxSetMode, StopInIsr
<1>5. CASE RxStop
  BY <1>5 DEF RxStop, StopInIsr
<1>6. CASE RxOther \/ RxCrcError \/ TxComplete
  BY <1>6 DEF RxOther, RxCrcError, TxComplete
<1> QED
  BY <1>1, <1>2, <1>3, <1>4, <1>5, <1>6 DEF UsbInterrupt

LEMMA NextIInv == IInv /\ [Next]_vars => IInv'
<1> SUFFICES ASSUME IInv, [Next]_vars PROVE IInv'
  OBVIOUS
<1>1. TypeOK'
  <2>1. TypeOK
    BY DEF IInv
  <2> QED
    BY <2>1, NextTypeOK
<1>2. CASE MainStep
  BY <1>1, <1>2, MainStepLoopInv, MainStepStaleInv, MainStepSweepInv DEF IInv
<1>3. CASE UsbInterrupt
  BY <1>1, <1>3, UsbInterruptIInv DEF IInv
<1>4. CASE Tick \/ HangTick \/ UNCHANGED vars
  BY <1>1, <1>4 DEF IInv, LoopInv, StaleInv, SweepInv, Tick, HangTick, vars,
                    loopVars, commVars
<1>5. CASE WatchdogReset \/ PowerCycle
  BY <1>1, <1>5 DEF IInv, LoopInv, StaleInv, SweepInv, WatchdogReset,
                    PowerCycle, Reset
<1> QED
  BY <1>2, <1>3, <1>4, <1>5 DEF Next

\* In IDLE at most one wheel is driven, and only by an output the control
\* pass had decided before the stop.
THEOREM IdleSafety == Spec => []IdleDrivesAtMostOne
<1>1. IInv => IdleDrivesAtMostOne
  BY DEF IInv, StaleInv, IdleDrivesAtMostOne
<1> QED
  BY <1>1, InitIInv, NextIInv, PTL DEF Spec

\* One whole control pass in IDLE leaves every wheel off.
THEOREM IdleSweepSafety == Spec => []IdlePassStopsAll
<1>1. IInv => IdlePassStopsAll
  BY DEF IInv, SweepInv, IdlePassStopsAll
<1> QED
  BY <1>1, InitIInv, NextIInv, PTL DEF Spec

-----------------------------------------------------------------------------
(***************************************************************************)
(* Time.  The counter wraps, the ages of the history do not, so the proofs *)
(* of the time bounds begin with what a wrapped difference says.           *)
(***************************************************************************)
TickRange == 0 .. TickMod - 1

LEMMA TickModPositive == TickMod \in Nat \ {0}
  BY ConstantsOK

\* The wrapped difference of two readings, without a remainder.
LEMMA ElapsedValue ==
    ASSUME NEW later \in TickRange, NEW earlier \in TickRange
    PROVE  Elapsed(later, earlier) = IF later >= earlier
                                     THEN later - earlier
                                     ELSE later - earlier + TickMod
<1> DEFINE d == later - earlier
<1>1. CASE later >= earlier
  <2>1. d \in 0 .. TickMod - 1
    BY <1>1, TickModPositive DEF TickRange
  <2>2. d % TickMod = d
    <3> HIDE DEF d
    <3> QED
      BY <2>1, TickModPositive
  <2> QED
    BY <1>1, <2>2 DEF Elapsed
<1>2. CASE later < earlier
  <2>1. d \in -TickMod .. -1
    BY <1>2, TickModPositive DEF TickRange
  <2>2. d % TickMod = d + TickMod
    <3> HIDE DEF d
    <3> QED
      BY <2>1, TickModPositive
  <2>3. ~(later >= earlier)
    BY <1>2, TickModPositive DEF TickRange
  <2> QED
    BY <2>2, <2>3 DEF Elapsed
<1> QED
  BY <1>1, <1>2, TickModPositive DEF TickRange

LEMMA ElapsedRange ==
    ASSUME NEW later \in TickRange, NEW earlier \in TickRange
    PROVE  Elapsed(later, earlier) \in 0 .. TickMod - 1
  BY ElapsedValue, TickModPositive DEF TickRange

LEMMA NoTimeElapsed ==
    ASSUME NEW t \in TickRange
    PROVE  Elapsed(t, t) = 0
  BY ElapsedValue, TickModPositive DEF TickRange

LEMMA NextTick ==
    ASSUME NEW t \in TickRange
    PROVE  (t + 1) % TickMod = IF t = TickMod - 1 THEN 0 ELSE t + 1
<1>1. CASE t = TickMod - 1
  <2>1. t + 1 = TickMod
    BY <1>1, TickModPositive
  <2>2. TickMod % TickMod = 0
    BY TickModPositive
  <2> QED
    BY <1>1, <2>1, <2>2
<1>2. CASE t # TickMod - 1
  <2> DEFINE s == t + 1
  <2>1. s \in 0 .. TickMod - 1
    BY <1>2, TickModPositive DEF TickRange
  <2>2. s % TickMod = s
    <3> HIDE DEF s
    <3> QED
      BY <2>1, TickModPositive
  <2> QED
    BY <1>2, <2>2
<1> QED
  BY <1>1, <1>2

\* One more tick, as long as the counter has not come round.
LEMMA ElapsedTick ==
    ASSUME NEW t \in TickRange, NEW earlier \in TickRange,
           Elapsed(t, earlier) < TickMod - 1
    PROVE  Elapsed((t + 1) % TickMod, earlier) = Elapsed(t, earlier) + 1
<1> DEFINE s == (t + 1) % TickMod
<1>1. s = IF t = TickMod - 1 THEN 0 ELSE t + 1
  BY NextTick
<1>2. s \in TickRange
  BY <1>1, TickModPositive DEF TickRange
<1>3. Elapsed(s, earlier) = IF s >= earlier THEN s - earlier
                            ELSE s - earlier + TickMod
  <2> HIDE DEF s
  <2> QED
    BY <1>2, ElapsedValue
<1>4. Elapsed(t, earlier) = IF t >= earlier THEN t - earlier
                            ELSE t - earlier + TickMod
  BY ElapsedValue
<1> HIDE DEF s
<1>5. Elapsed(s, earlier) = Elapsed(t, earlier) + 1
  BY <1>1, <1>3, <1>4, TickModPositive DEF TickRange
<1> QED
  BY <1>5 DEF s

\* What a reading taken `spent' ticks ago says of a stamp that is `age' ticks
\* old: the stamp is the younger one, or the difference is exact.
LEMMA ElapsedBetween ==
    ASSUME NEW t \in TickRange, NEW reading \in TickRange, NEW stamp \in TickRange,
           Elapsed(t, reading) <= Elapsed(t, stamp)
    PROVE  Elapsed(t, stamp) = Elapsed(t, reading) + Elapsed(reading, stamp)
<1>1. /\ Elapsed(t, reading) = IF t >= reading THEN t - reading
                               ELSE t - reading + TickMod
      /\ Elapsed(t, stamp) = IF t >= stamp THEN t - stamp ELSE t - stamp + TickMod
      /\ Elapsed(reading, stamp) = IF reading >= stamp THEN reading - stamp
                                   ELSE reading - stamp + TickMod
  BY ElapsedValue
<1> QED
  BY <1>1, TickModPositive DEF TickRange

-----------------------------------------------------------------------------
(***************************************************************************)
(* The clock and the history agree.  What the code computes from its       *)
(* stamps is the real age of the last frame as long as that age is one the *)
(* counter can tell; the reading app_tick works with is as old as the      *)
(* ticks it has used since; and a wait for the endpoint keeps its budget.  *)
(***************************************************************************)
LEMMA Budgets ==
    /\ {CtrlPeriod, CmdTimeout, HeartbeatTimeout, SendBudget, ReportBudget,
        CpuBudget, LoopBudget, Reaction, AgeCap} \subseteq Nat
    /\ AgeCap = TickMod - 1
    /\ LoopBudget = CpuBudget + 2 * SendBudget + ReportBudget
    /\ Reaction = LoopBudget + CpuBudget
  BY ConstantsOK DEF LoopBudget, Reaction, AgeCap

Dated(age, stamp) == age < AgeCap => Elapsed(tick, stamp) + hang = age

\* The steps that work with the reading of this app_tick and do not wait.
Busy == {"update", "zero", "off", "gate", "wheel", "write", "telemetry"}

Waited == Elapsed(tick, txStart)

HangInv == isr = "none" => hang = 0

AgeInv == Dated(cmdAge, lastCmd) /\ Dated(heartbeatAge, lastHeartbeat)

LoopTimeInv ==
    Reaction < AgeCap =>
        /\ pc \in Busy => Elapsed(tick, now) = cpu
        /\ pc \in SendPcs => Waited <= Budget(pc)

ClockInv == HangInv /\ AgeInv /\ LoopTimeInv

LEMMA InitClockInv == Init => ClockInv
<1> SUFFICES ASSUME Init PROVE ClockInv
  OBVIOUS
<1>1. 0 \in TickRange
  BY TickModPositive DEF TickRange
<1>2. Elapsed(0, 0) = 0
  BY <1>1, NoTimeElapsed
<1> QED
  BY <1>2, Budgets DEF Init, ClockInv, HangInv, AgeInv, LoopTimeInv, Dated, Busy,
                       SendPcs

LEMMA ResetClockInv ==
    ASSUME NEW cause, Reset(cause)
    PROVE  ClockInv'
<1>1. 0 \in TickRange
  BY TickModPositive DEF TickRange
<1>2. Elapsed(0, 0) = 0
  BY <1>1, NoTimeElapsed
<1> QED
  BY <1>2, Budgets DEF Reset, ClockInv, HangInv, AgeInv, LoopTimeInv, Dated, Busy,
                       SendPcs

\* The main loop's steps take no time: a reading or a wait begins at 0.
LEMMA MainStepClockInv == TypeOK /\ ClockInv /\ MainStep => ClockInv'
<1> SUFFICES ASSUME TypeOK, ClockInv, MainStep PROVE ClockInv'
  OBVIOUS
<1>1. UNCHANGED <<tick, lastCmd, lastHeartbeat, cmdAge, heartbeatAge, isr, hang>>
  BY DEF MainStep, StartTick, UpdateComm, ZeroSetpoint, MotorsOff, ControlGate,
         ComputeWheel, WriteWheel, TelemetryGate, ReportGate, Send, commVars,
         usbVars, ages
<1>2. HangInv' /\ AgeInv'
  BY <1>1 DEF ClockInv, HangInv, AgeInv, Dated
<1>3. Elapsed(tick, tick) = 0
  BY NoTimeElapsed DEF TypeOK, TickRange
<1>4. ASSUME Reaction < AgeCap
      PROVE  /\ pc' \in Busy => Elapsed(tick, now') = cpu'
             /\ pc' \in SendPcs => Elapsed(tick, txStart') <= Budget(pc')
  <2>1. /\ pc \in Busy => Elapsed(tick, now) = cpu
        /\ pc \in SendPcs => Elapsed(tick, txStart) <= Budget(pc)
    BY <1>4 DEF ClockInv, LoopTimeInv, Waited
  <2>2. \A p : 0 <= Budget(p)
    BY Budgets DEF Budget
  <2>3. CASE StartTick
    BY <1>3, <2>3 DEF StartTick, Busy, SendPcs
  <2>4. CASE UpdateComm \/ MotorsOff \/ ComputeWheel
    BY <2>1, <2>4 DEF UpdateComm, MotorsOff, ComputeWheel, Busy, SendPcs
  <2>5. CASE ZeroSetpoint \/ WriteWheel
    BY <2>1, <2>5 DEF ZeroSetpoint, WriteWheel, NextWheel, Busy, SendPcs
  <2>6. CASE ControlGate
    BY <2>1, <2>6 DEF ControlGate, Busy, SendPcs
  <2>7. CASE TelemetryGate \/ ReportGate
    BY <1>3, <2>2, <2>7 DEF TelemetryGate, ReportGate, Busy, SendPcs
  <2>8. CASE Send
    BY <1>3, <2>2, <2>8 DEF Send, AfterSend, Busy, SendPcs
  <2> QED
    BY <2>3, <2>4, <2>5, <2>6, <2>7, <2>8 DEF MainStep
<1>5. LoopTimeInv'
  BY <1>1, <1>4 DEF LoopTimeInv, Waited
<1> QED
  BY <1>2, <1>5 DEF ClockInv

\* A frame stamps the tick it arrives at, and takes no time itself.
LEMMA UsbInterruptClockInv == TypeOK /\ ClockInv /\ UsbInterrupt => ClockInv'
<1> SUFFICES ASSUME TypeOK, ClockInv, UsbInterrupt PROVE ClockInv'
  OBVIOUS
<1> USE DEF loopVars, commVars, usbVars, ages
<1>1. UNCHANGED <<tick, pc, now, cpu, txStart, hang>> /\ isr = "none"
  BY DEF UsbInterrupt, RxHeartbeat, AcceptCmdVel, RejectCmdVel, RxSetMode, RxStop,
         RxOther, RxCrcError, TxComplete, SendAck
<1>2. hang = 0 /\ Elapsed(tick, tick) = 0
  BY <1>1, NoTimeElapsed DEF TypeOK, TickRange, ClockInv, HangInv
<1>3. \/ cmdAge' = 0 /\ lastCmd' = tick
      \/ UNCHANGED <<cmdAge, lastCmd>>
  BY DEF UsbInterrupt, RxHeartbeat, StampHeartbeat, AcceptCmdVel, RejectCmdVel,
         RxSetMode, RxStop, RxOther, RxCrcError, TxComplete
<1>4. \/ heartbeatAge' = 0 /\ lastHeartbeat' = tick
      \/ UNCHANGED <<heartbeatAge, lastHeartbeat>>
  BY DEF UsbInterrupt, RxHeartbeat, StampHeartbeat, AcceptCmdVel, RejectCmdVel,
         RxSetMode, RxStop, RxOther, RxCrcError, TxComplete
<1>5. AgeInv'
  BY <1>1, <1>2, <1>3, <1>4 DEF ClockInv, AgeInv, Dated
<1>6. HangInv' /\ LoopTimeInv'
  BY <1>1, <1>2 DEF ClockInv, HangInv, LoopTimeInv, Waited
<1> QED
  BY <1>5, <1>6 DEF ClockInv

\* A stamp that could be told from the counter is told one tick later too.
LEMMA TickDated ==
    ASSUME TypeOK, Tick, HangInv,
           NEW stamp \in TickRange, NEW age \in 0 .. AgeCap, Dated(age, stamp)
    PROVE  Older(age) < AgeCap => Elapsed(tick', stamp) + hang = Older(age)
<1> SUFFICES ASSUME Older(age) < AgeCap
             PROVE  Elapsed(tick', stamp) + hang = Older(age)
  OBVIOUS
<1>1. hang = 0 /\ tick' = (tick + 1) % TickMod /\ tick \in TickRange
  BY DEF Tick, HangInv, TypeOK, TickRange
<1>2. age < AgeCap /\ Older(age) = age + 1
  BY Budgets DEF Older
<1>3. Elapsed(tick, stamp) = age
  <2>1. Elapsed(tick, stamp) \in 0 .. TickMod - 1
    BY <1>1, ElapsedRange
  <2> QED
    BY <1>1, <1>2, <2>1, TickModPositive DEF Dated
<1>4. Elapsed(tick, stamp) < TickMod - 1
  BY <1>2, <1>3, Budgets
<1>5. Elapsed(tick', stamp) = Elapsed(tick, stamp) + 1
  BY <1>1, <1>4, ElapsedTick
<1> QED
  BY <1>1, <1>2, <1>3, <1>5

LEMMA TickClockInv == TypeOK /\ ClockInv /\ Tick => ClockInv'
<1> SUFFICES ASSUME TypeOK, ClockInv, Tick PROVE ClockInv'
  OBVIOUS
<1>1. {now, txStart, tick, lastCmd, lastHeartbeat} \subseteq TickRange
  BY DEF TypeOK, TickRange
<1>2. AgeInv'
  <2>1. cmdAge' = Older(cmdAge) /\ heartbeatAge' = Older(heartbeatAge)
    BY DEF Tick, Age
  <2>2. UNCHANGED <<hang, lastCmd, lastHeartbeat>>
    BY DEF Tick, commVars, usbVars
  <2>3. HangInv /\ Dated(cmdAge, lastCmd) /\ Dated(heartbeatAge, lastHeartbeat)
    BY DEF ClockInv, AgeInv
  <2>4. cmdAge \in 0 .. AgeCap /\ heartbeatAge \in 0 .. AgeCap
    BY DEF TypeOK
  <2>5. Older(cmdAge) < AgeCap => Elapsed(tick', lastCmd) + hang = Older(cmdAge)
    BY <1>1, <2>3, <2>4, TickDated
  <2>6. Older(heartbeatAge) < AgeCap
            => Elapsed(tick', lastHeartbeat) + hang = Older(heartbeatAge)
    BY <1>1, <2>3, <2>4, TickDated
  <2> QED
    BY <2>1, <2>2, <2>5, <2>6 DEF AgeInv, Dated
<1>3. HangInv'
  BY DEF Tick, usbVars, ClockInv, HangInv
<1>4. ASSUME Reaction < AgeCap
      PROVE  /\ pc' \in Busy => Elapsed(tick', now') = cpu'
             /\ pc' \in SendPcs => Elapsed(tick', txStart') <= Budget(pc')
  <2>1. tick' = (tick + 1) % TickMod /\ UNCHANGED <<pc, now, txStart>>
    BY DEF Tick
  <2>2. ASSUME pc \in Busy
        PROVE  Elapsed(tick', now) = cpu'
    <3>1. Elapsed(tick, now) = cpu /\ cpu < CpuBudget /\ cpu' = cpu + 1
      BY <1>4, <2>2 DEF ClockInv, LoopTimeInv, Tick, Busy, SendPcs
    <3>2. Elapsed(tick, now) < TickMod - 1
      BY <1>4, <3>1, Budgets DEF TypeOK
    <3> QED
      BY <1>1, <2>1, <3>1, <3>2, ElapsedTick
  <2>3. ASSUME pc \in SendPcs
        PROVE  Elapsed(tick', txStart) <= Budget(pc)
    <3>1. Elapsed(tick, txStart) < Budget(pc)
      BY <2>3 DEF Tick
    <3>2. Budget(pc) \in Nat /\ Budget(pc) <= Reaction
      BY Budgets DEF Budget
    <3>3. Elapsed(tick, txStart) \in 0 .. TickMod - 1
      BY <1>1, ElapsedRange
    <3>4. Elapsed(tick, txStart) < TickMod - 1
      BY <1>4, <3>1, <3>2, <3>3, Budgets
    <3>5. Elapsed(tick', txStart) = Elapsed(tick, txStart) + 1
      BY <1>1, <2>1, <3>4, ElapsedTick
    <3> QED
      BY <3>1, <3>2, <3>3, <3>5, TickModPositive
  <2> QED
    BY <2>1, <2>2, <2>3
<1>5. LoopTimeInv'
  BY <1>4 DEF LoopTimeInv, Waited
<1> QED
  BY <1>2, <1>3, <1>5 DEF ClockInv

\* Under the spinning interrupt only the ages and the hang grow.
LEMMA HangTickClockInv == TypeOK /\ ClockInv /\ HangTick => ClockInv'
<1> SUFFICES ASSUME TypeOK, ClockInv, HangTick PROVE ClockInv'
  OBVIOUS
<1>1. /\ UNCHANGED <<tick, pc, now, cpu, txStart, isr, lastCmd, lastHeartbeat>>
      /\ hang' = hang + 1 /\ isr = "spin"
      /\ cmdAge' = Older(cmdAge) /\ heartbeatAge' = Older(heartbeatAge)
  BY DEF HangTick, Age, loopVars, commVars
<1>2. /\ Elapsed(tick, lastCmd) \in 0 .. TickMod - 1
      /\ Elapsed(tick, lastHeartbeat) \in 0 .. TickMod - 1
  BY ElapsedRange DEF TypeOK, TickRange
<1>3. AgeInv'
  BY <1>1, <1>2, Budgets DEF ClockInv, AgeInv, Dated, Older, TypeOK
<1>4. HangInv' /\ LoopTimeInv'
  BY <1>1 DEF ClockInv, HangInv, LoopTimeInv, Waited
<1> QED
  BY <1>3, <1>4 DEF ClockInv

LEMMA NextClockInv == TypeOK /\ ClockInv /\ [Next]_vars => ClockInv'
<1> SUFFICES ASSUME TypeOK, ClockInv, [Next]_vars PROVE ClockInv'
  OBVIOUS
<1>1. CASE MainStep
  BY <1>1, MainStepClockInv
<1>2. CASE UsbInterrupt
  BY <1>2, UsbInterruptClockInv
<1>3. CASE Tick
  BY <1>3, TickClockInv
<1>4. CASE HangTick
  BY <1>4, HangTickClockInv
<1>5. CASE WatchdogReset \/ PowerCycle
  BY <1>5, ResetClockInv DEF WatchdogReset, PowerCycle
<1>6. CASE UNCHANGED vars
  BY <1>6 DEF vars, loopVars, commVars, usbVars, ages, ClockInv, HangInv, AgeInv,
              Dated, LoopTimeInv, Waited
<1> QED
  BY <1>1, <1>2, <1>3, <1>4, <1>5, <1>6 DEF Next

-----------------------------------------------------------------------------
(***************************************************************************)
(* The dead-man chain.  Deadman and HeartbeatLossPulse are not inductive:  *)
(* they bound an age by the worst case, and a step later the age is larger.*)
(* The invariants bound it by the time the main loop has used so far since *)
(* the reading its last verdict on the two stamps rests on, which grows    *)
(* with the age; and they say the same of what can drive a wheel next, a   *)
(* setpoint or an output that is decided and not yet written.              *)
(***************************************************************************)
\* Ticks since the reading that app_update_comm_state last looked at, at
\* most; in the steps that make or carry out a verdict, since the one before.
Since ==
    cpu + CASE pc \in {"update", "zero", "off"} -> LoopBudget
            [] pc \in {"gate", "wheel", "write", "telemetry"} -> 0
            [] pc = "send_status" -> Waited
            [] pc = "send_odom" -> SendBudget + Waited
            [] pc = "report" -> 2 * SendBudget
            [] pc = "send_report" -> 2 * SendBudget + Waited
            [] pc = "top" -> 2 * SendBudget + ReportBudget

\* Something drives a wheel, or can drive one in this pass.
Live == motor # {} \/ setpoint # {} \/ (pc = "write" /\ out = TRUE)

\* A setpoint that app_chassis_stop has passed, or all of it when it is done,
\* belongs to a command that came after the reading.
RearmInv ==
    /\ pc = "zero" => \A w \in setpoint : w < i => cmdAge <= cpu + hang
    /\ pc = "off" /\ setpoint # {} => cmdAge <= cpu + hang

\* Longer times than the counter can tell apart bound no age at all.
DeadmanInv ==
    CmdTimeout + Reaction < AgeCap /\ Live => cmdAge <= CmdTimeout + Since + hang

PulseInv ==
    HeartbeatTimeout + Reaction < AgeCap /\ Live =>
        \/ heartbeatAge = AgeCap
        \/ heartbeatAge <= HeartbeatTimeout + Since + hang
        \/ cmdAge <= Since + hang

ChainInv == RearmInv /\ DeadmanInv /\ PulseInv

TimeInv == TypeOK /\ LoopInv /\ ClockInv /\ ChainInv

LEMMA SinceBound ==
    ASSUME TypeOK, LoopTimeInv, Reaction < AgeCap
    PROVE  Since \in Nat /\ Since <= Reaction
<1>1. Waited \in Nat
  BY ElapsedRange, TickModPositive DEF Waited, TypeOK, TickRange
<1>2. pc \in SendPcs => Waited <= Budget(pc)
  BY DEF LoopTimeInv
<1>3. cpu \in Nat /\ cpu <= CpuBudget /\ pc \in Pcs
  BY Budgets DEF TypeOK
<1>4. CASE pc \in {"update", "zero", "off"}
  BY <1>3, <1>4, Budgets DEF Since
<1>5. CASE pc \in {"gate", "wheel", "write", "telemetry"}
  BY <1>3, <1>5, Budgets DEF Since
<1>6. CASE pc = "send_status"
  BY <1>1, <1>2, <1>3, <1>6, Budgets DEF Since, SendPcs, Budget
<1>7. CASE pc = "send_odom"
  BY <1>1, <1>2, <1>3, <1>7, Budgets DEF Since, SendPcs, Budget
<1>8. CASE pc = "send_report"
  BY <1>1, <1>2, <1>3, <1>8, Budgets DEF Since, SendPcs, Budget
<1>9. CASE pc \in {"top", "report"}
  BY <1>3, <1>9, Budgets DEF Since
<1> QED
  BY <1>3, <1>4, <1>5, <1>6, <1>7, <1>8, <1>9 DEF Pcs, SendPcs

LEMMA SinceBoundNext ==
    ASSUME TypeOK', ClockInv', Reaction < AgeCap
    PROVE  Since' \in Nat
<1>1. Waited' \in Nat
  BY ElapsedRange, TickModPositive DEF Waited, TypeOK, TickRange
<1>2. cpu' \in Nat /\ pc' \in Pcs
  BY Budgets DEF TypeOK
<1> HIDE DEF Waited
<1> QED
  BY <1>1, <1>2, Budgets DEF Since, Pcs, SendPcs

\* Only a verdict of "OK" and the end of app_chassis_stop start the time anew.
LEMMA SinceGrows ==
    ASSUME TypeOK, ClockInv, Reaction < AgeCap, MainStep, ~UpdateComm, ~MotorsOff
    PROVE  Since' >= Since
<1>1. Waited \in Nat
  BY ElapsedRange, TickModPositive DEF Waited, TypeOK, TickRange
<1>2. pc \in SendPcs => Waited <= Budget(pc)
  BY DEF ClockInv, LoopTimeInv
<1>3. cpu \in Nat /\ cpu <= CpuBudget
  BY Budgets DEF TypeOK
<1>4. Elapsed(tick, tick) = 0
  BY NoTimeElapsed DEF TypeOK, TickRange
<1>5. CASE StartTick
  BY <1>3, <1>5, Budgets DEF StartTick, Since
<1>6. CASE ZeroSetpoint
  BY <1>3, <1>6, Budgets DEF ZeroSetpoint, NextWheel, Since
<1>7. CASE ControlGate \/ ComputeWheel
  <2>1. /\ pc \in {"gate", "wheel"} /\ pc' \in {"wheel", "write", "telemetry"}
        /\ cpu' = cpu
    BY <1>7 DEF ControlGate, ComputeWheel
  <2> QED
    BY <1>3, <2>1 DEF Since
<1>8. CASE WriteWheel
  BY <1>3, <1>8, Budgets DEF WriteWheel, NextWheel, Since
<1>9. CASE TelemetryGate
  BY <1>3, <1>4, <1>9, Budgets DEF TelemetryGate, Since, Waited
<1>10. CASE ReportGate
  BY <1>3, <1>4, <1>10, Budgets DEF ReportGate, Since, Waited
<1>11. CASE Send
  <2>1. pc \in SendPcs /\ pc' = AfterSend(pc) /\ cpu' = cpu /\ Waited' = 0
    BY <1>4, <1>11 DEF Send, Waited
  <2> HIDE DEF Waited
  <2>2. CASE pc = "send_status"
    BY <1>1, <1>2, <1>3, <2>1, <2>2, Budgets DEF AfterSend, SendPcs, Budget, Since
  <2>3. CASE pc = "send_odom"
    BY <1>1, <1>2, <1>3, <2>1, <2>3, Budgets DEF AfterSend, SendPcs, Budget, Since
  <2>4. CASE pc = "send_report"
    BY <1>1, <1>2, <1>3, <2>1, <2>4, Budgets DEF AfterSend, SendPcs, Budget, Since
  <2> QED
    BY <2>1, <2>2, <2>3, <2>4 DEF SendPcs
<1> QED
  BY <1>5, <1>6, <1>7, <1>8, <1>9, <1>10, <1>11 DEF MainStep

\* A main-loop step brings nothing to life: what it drives was decided from
\* a setpoint.
LEMMA MainStepLive == MainStep => (Live' => Live)
<1> SUFFICES ASSUME MainStep, Live' PROVE Live
  OBVIOUS
<1> USE DEF Live, commVars
<1>1. CASE StartTick \/ UpdateComm \/ ControlGate \/ TelemetryGate \/ ReportGate \/ Send
  BY <1>1 DEF StartTick, UpdateComm, ControlGate, TelemetryGate, ReportGate, Send,
              SendPcs, AfterSend
<1>2. CASE ZeroSetpoint \/ MotorsOff \/ WriteWheel
  BY <1>2 DEF ZeroSetpoint, MotorsOff, WriteWheel, NextWheel
<1>3. CASE ComputeWheel
  BY <1>3 DEF ComputeWheel, Outputs
<1> QED
  BY <1>1, <1>2, <1>3 DEF MainStep


LEMMA InitTimeInv == Init => TimeInv
<1> SUFFICES ASSUME Init PROVE TimeInv
  OBVIOUS
<1>1. TypeOK /\ ClockInv
  BY InitTypeOK, InitClockInv
<1> QED
  BY <1>1 DEF Init, TimeInv, LoopInv, ChainInv, RearmInv, DeadmanInv, PulseInv, Live

LEMMA ResetTimeInv ==
    ASSUME NEW cause \in {"POR", "IWDG"}, Reset(cause)
    PROVE  TimeInv'
<1>1. TypeOK' /\ ClockInv'
  BY ResetTypeOK, ResetClockInv
<1> QED
  BY <1>1 DEF Reset, TimeInv, LoopInv, ChainInv, RearmInv, DeadmanInv, PulseInv, Live

\* app_update_comm_state finds a frame late, or it is as young as its timeout
\* and the ticks used since the reading: unless it is older than the counter
\* can tell.
LEMMA InTime ==
    ASSUME TypeOK, ClockInv, Reaction < AgeCap, pc \in Busy, isr = "none",
           NEW age \in 0 .. AgeCap, NEW stamp \in TickRange, Dated(age, stamp),
           NEW timeout \in Nat, ~(Elapsed(now, stamp) > timeout), age < AgeCap
    PROVE  age <= timeout + cpu
<1>1. hang = 0 /\ Elapsed(tick, now) = cpu /\ cpu \in Nat
  BY Budgets DEF ClockInv, HangInv, LoopTimeInv, TypeOK
<1>2. {tick, now} \subseteq TickRange
  BY DEF TypeOK, TickRange
<1>3. Elapsed(tick, stamp) = age
  <2>1. Elapsed(tick, stamp) \in 0 .. TickMod - 1
    BY <1>2, ElapsedRange
  <2> QED
    BY <1>1, <2>1, Budgets, TickModPositive DEF Dated
<1>4. Elapsed(now, stamp) \in Nat /\ Elapsed(now, stamp) <= timeout
  <2>1. Elapsed(now, stamp) \in 0 .. TickMod - 1
    BY <1>2, ElapsedRange
  <2> QED
    BY <2>1, TickModPositive
<1>5. CASE cpu <= age
  <2>1. Elapsed(tick, stamp) = Elapsed(tick, now) + Elapsed(now, stamp)
    BY <1>1, <1>2, <1>3, <1>5, ElapsedBetween
  <2> QED
    BY <1>1, <1>3, <1>4, <2>1
<1>6. CASE ~(cpu <= age)
  BY <1>1, <1>6, Budgets
<1> QED
  BY <1>5, <1>6

LEMMA MainStepRearmInv == TimeInv /\ MainStep => RearmInv'
<1> SUFFICES ASSUME TimeInv, MainStep PROVE RearmInv'
  OBVIOUS
<1>1. UNCHANGED <<cmdAge, hang>>
  BY DEF MainStep, StartTick, UpdateComm, ZeroSetpoint, MotorsOff, ControlGate,
         ComputeWheel, WriteWheel, TelemetryGate, ReportGate, Send, usbVars, ages
<1>2. setpoint \subseteq Wheels /\ i \in Wheels
  BY DEF TimeInv, TypeOK
<1>3. CASE UpdateComm
  <2>1. /\ pc' \in {"gate", "zero"} /\ i = 0 /\ UNCHANGED <<i, setpoint>>
    BY <1>3 DEF UpdateComm, TimeInv, LoopInv
  <2>2. \A w \in setpoint : ~(w < 0)
    BY <1>2, ConstantsOK DEF Wheels
  <2> QED
    BY <2>1, <2>2 DEF RearmInv
<1>4. CASE ZeroSetpoint
  <2>1. /\ \A w \in setpoint : w < i => cmdAge <= cpu + hang
        /\ setpoint' = setpoint \ {i} /\ cpu' = cpu
    BY <1>4 DEF ZeroSetpoint, TimeInv, ChainInv, RearmInv
  <2>2. CASE i + 1 \in Wheels
    <3>1. i' = i + 1 /\ pc' = "zero"
      BY <1>4, <2>2 DEF ZeroSetpoint, NextWheel
    <3>2. \A w \in setpoint' : w < i' => w < i
      BY <1>2, <2>1, <3>1, ConstantsOK DEF Wheels
    <3> QED
      BY <1>1, <2>1, <3>1, <3>2 DEF RearmInv
  <2>3. CASE i + 1 \notin Wheels
    <3>1. pc' = "off"
      BY <1>4, <2>3 DEF ZeroSetpoint, NextWheel
    <3>2. \A w \in setpoint' : w < i
      BY <1>2, <2>1, <2>3, ConstantsOK DEF Wheels
    <3> QED
      BY <1>1, <2>1, <3>1, <3>2 DEF RearmInv
  <2> QED
    BY <2>2, <2>3
<1>5. CASE StartTick \/ MotorsOff \/ ControlGate \/ ComputeWheel \/ WriteWheel
           \/ TelemetryGate \/ ReportGate \/ Send
  <2>1. pc' \notin {"zero", "off"}
    BY <1>5 DEF StartTick, MotorsOff, ControlGate, ComputeWheel, WriteWheel, NextWheel,
                TelemetryGate, ReportGate, Send, SendPcs, AfterSend
  <2> QED
    BY <2>1 DEF RearmInv
<1> QED
  BY <1>3, <1>4, <1>5 DEF MainStep

\* What a step of the main loop leaves of a bound: the time since the reading
\* goes on, or the verdict was "OK", or the stop is complete.
LEMMA MainStepDeadmanInv == TimeInv /\ MainStep => DeadmanInv'
<1> SUFFICES ASSUME TimeInv, MainStep, CmdTimeout + Reaction < AgeCap, Live'
             PROVE  cmdAge' <= CmdTimeout + Since' + hang'
  BY DEF DeadmanInv
<1> USE DEF TimeInv
<1>1. UNCHANGED <<cmdAge, hang>> /\ isr = "none"
  BY DEF MainStep, StartTick, UpdateComm, ZeroSetpoint, MotorsOff, ControlGate,
         ComputeWheel, WriteWheel, TelemetryGate, ReportGate, Send, usbVars, ages
<1>2. hang = 0 /\ Reaction < AgeCap /\ cmdAge \in 0 .. AgeCap
  BY <1>1, Budgets DEF ClockInv, HangInv, TypeOK
<1>3. Since \in Nat /\ Since <= Reaction
  BY <1>2, SinceBound DEF ClockInv
<1>4. cmdAge <= CmdTimeout + Since
  BY <1>2, <1>3, MainStepLive, Budgets DEF ChainInv, DeadmanInv
<1>5. TypeOK' /\ ClockInv'
  BY MainStepTypeOK, MainStepClockInv
<1>6. Since' \in Nat
  BY <1>2, <1>5, SinceBoundNext
<1>7. CASE UpdateComm /\ comm' = "OK"
  <2>1. ~(Elapsed(now, lastCmd) > CmdTimeout)
    BY <1>7 DEF UpdateComm, CommState
  <2>2. cmdAge <= CmdTimeout + cpu
    <3>1. pc \in Busy /\ lastCmd \in TickRange /\ Dated(cmdAge, lastCmd) /\ cmdAge < AgeCap
      BY <1>2, <1>3, <1>4, <1>7, Budgets DEF UpdateComm, Busy, TypeOK, TickRange, ClockInv, AgeInv
    <3> QED
      BY <1>1, <1>2, <2>1, <3>1, InTime, Budgets
  <2>3. Since' = cpu
    BY <1>7 DEF UpdateComm, Since, TypeOK
  <2> QED
    BY <1>1, <1>2, <1>6, <2>2, <2>3, Budgets
<1>8. CASE UpdateComm /\ comm' # "OK"
  <2>1. Since' = Since
    BY <1>8 DEF UpdateComm, Since
  <2> QED
    BY <1>1, <1>2, <1>3, <1>4, <2>1, Budgets
<1>9. CASE MotorsOff
  <2>1. setpoint # {} /\ Since' = cpu + 0
    BY <1>9 DEF MotorsOff, Live, Since, commVars
  <2>2. cmdAge <= cpu + hang /\ cpu \in Nat
    BY <1>9, <2>1, Budgets DEF MotorsOff, ChainInv, RearmInv, TypeOK
  <2> QED
    BY <1>1, <1>2, <2>1, <2>2, Budgets
<1>10. CASE ~UpdateComm /\ ~MotorsOff
  BY <1>1, <1>2, <1>3, <1>4, <1>6, <1>10, SinceGrows, Budgets
<1> QED
  BY <1>7, <1>8, <1>9, <1>10

LEMMA MainStepPulseInv == TimeInv /\ MainStep => PulseInv'
<1> SUFFICES ASSUME TimeInv, MainStep, HeartbeatTimeout + Reaction < AgeCap, Live'
             PROVE  \/ heartbeatAge' = AgeCap
                    \/ heartbeatAge' <= HeartbeatTimeout + Since' + hang'
                    \/ cmdAge' <= Since' + hang'
  BY DEF PulseInv
<1> USE DEF TimeInv
<1>1. UNCHANGED <<cmdAge, heartbeatAge, hang>> /\ isr = "none"
  BY DEF MainStep, StartTick, UpdateComm, ZeroSetpoint, MotorsOff, ControlGate,
         ComputeWheel, WriteWheel, TelemetryGate, ReportGate, Send, usbVars, ages
<1>2. /\ hang = 0 /\ Reaction < AgeCap
      /\ cmdAge \in 0 .. AgeCap /\ heartbeatAge \in 0 .. AgeCap
  BY <1>1, Budgets DEF ClockInv, HangInv, TypeOK
<1>3. Since \in Nat
  BY <1>2, SinceBound DEF ClockInv
<1>4. \/ heartbeatAge = AgeCap
      \/ heartbeatAge <= HeartbeatTimeout + Since
      \/ cmdAge <= Since
  BY <1>2, <1>3, MainStepLive, Budgets DEF ChainInv, PulseInv
<1>5. TypeOK' /\ ClockInv'
  BY MainStepTypeOK, MainStepClockInv
<1>6. Since' \in Nat
  BY <1>2, <1>5, SinceBoundNext
<1>7. CASE UpdateComm /\ comm' = "OK"
  <2>1. ~(Elapsed(now, lastHeartbeat) > HeartbeatTimeout)
    BY <1>7 DEF UpdateComm, CommState
  <2>2. heartbeatAge < AgeCap => heartbeatAge <= HeartbeatTimeout + cpu
    <3>1. /\ pc \in Busy /\ lastHeartbeat \in TickRange
          /\ Dated(heartbeatAge, lastHeartbeat)
      BY <1>7 DEF UpdateComm, Busy, TypeOK, TickRange, ClockInv, AgeInv
    <3> QED
      BY <1>1, <1>2, <2>1, <3>1, InTime, Budgets
  <2>3. Since' = cpu
    BY <1>7 DEF UpdateComm, Since, TypeOK
  <2> QED
    BY <1>1, <1>2, <1>6, <2>2, <2>3, Budgets
<1>8. CASE UpdateComm /\ comm' # "OK"
  <2>1. Since' = Since
    BY <1>8 DEF UpdateComm, Since
  <2> QED
    BY <1>1, <1>2, <1>3, <1>4, <2>1, Budgets
<1>9. CASE MotorsOff
  <2>1. setpoint # {} /\ Since' = cpu + 0
    BY <1>9 DEF MotorsOff, Live, Since, commVars
  <2>2. cmdAge <= cpu + hang /\ cpu \in Nat
    BY <1>9, <2>1, Budgets DEF MotorsOff, ChainInv, RearmInv, TypeOK
  <2> QED
    BY <1>1, <1>2, <2>1, <2>2, Budgets
<1>10. CASE ~UpdateComm /\ ~MotorsOff
  <2>1. Since' >= Since
    BY <1>2, <1>10, SinceGrows
  <2>2. \/ heartbeatAge = AgeCap
        \/ heartbeatAge <= HeartbeatTimeout + Since'
        \/ cmdAge <= Since'
    BY <1>2, <1>3, <1>4, <1>6, <2>1, Budgets
  <2> QED
    <3>1. heartbeatAge' = heartbeatAge /\ cmdAge' = cmdAge /\ hang' = 0
      BY <1>1, <1>2
    <3>2. HeartbeatTimeout + Since' + 0 = HeartbeatTimeout + Since' /\ Since' + 0 = Since'
      <4>1. HeartbeatTimeout \in Nat
        BY Budgets
      <4>2. \A s \in Nat : HeartbeatTimeout + s + 0 = HeartbeatTimeout + s /\ s + 0 = s
        BY <4>1
      <4> QED
        BY <1>6, <4>2
    <3> QED
      BY <2>2, <3>1, <3>2
<1> QED
  BY <1>7, <1>8, <1>9, <1>10

\* A frame ends an age or leaves it, and only an accepted CMD_VEL makes a
\* setpoint.
LEMMA UsbInterruptChainInv == TimeInv /\ UsbInterrupt => ChainInv'
<1> SUFFICES ASSUME TimeInv, UsbInterrupt PROVE ChainInv'
  OBVIOUS
<1> USE DEF TimeInv, loopVars, commVars, usbVars, ages
<1>1. UNCHANGED <<tick, pc, i, out, cpu, txStart, hang>> /\ isr = "none"
  BY DEF UsbInterrupt, RxHeartbeat, AcceptCmdVel, RejectCmdVel, RxSetMode, RxStop,
         RxOther, RxCrcError, TxComplete, SendAck
<1>2. Since' = Since
  BY <1>1 DEF Since, Waited
<1>3. /\ hang = 0 /\ cpu \in Nat
      /\ Reaction < AgeCap => Since \in Nat
  BY <1>1, Budgets, SinceBound DEF ClockInv, HangInv, TypeOK
<1>4. \/ cmdAge' = 0
      \/ UNCHANGED cmdAge /\ setpoint' \subseteq setpoint
  BY DEF UsbInterrupt, RxHeartbeat, AcceptCmdVel, RejectCmdVel, RxSetMode, StopInIsr,
         RxStop, RxOther, RxCrcError, TxComplete
<1>5. motor' \subseteq motor
  BY DEF UsbInterrupt, RxHeartbeat, AcceptCmdVel, RejectCmdVel, RxSetMode, StopInIsr,
         RxStop, RxOther, RxCrcError, TxComplete
<1>6. heartbeatAge' = 0 \/ UNCHANGED heartbeatAge
  BY DEF UsbInterrupt, RxHeartbeat, AcceptCmdVel, RejectCmdVel, RxSetMode, RxStop,
         RxOther, RxCrcError, TxComplete
<1>7. CASE cmdAge' = 0
  BY <1>1, <1>2, <1>3, <1>7, Budgets
     DEF ChainInv, RearmInv, DeadmanInv, PulseInv
<1>8. CASE UNCHANGED cmdAge /\ setpoint' \subseteq setpoint
  <2>1. Live' => Live
    BY <1>1, <1>5, <1>8 DEF Live
  <2>2. RearmInv'
    BY <1>1, <1>8 DEF ChainInv, RearmInv
  <2>3. DeadmanInv'
    BY <1>1, <1>2, <1>8, <2>1 DEF ChainInv, DeadmanInv
  <2>4. PulseInv'
    BY <1>1, <1>2, <1>3, <1>6, <1>8, <2>1, Budgets DEF ChainInv, PulseInv
  <2> QED
    BY <2>2, <2>3, <2>4 DEF ChainInv
<1> QED
  BY <1>4, <1>7, <1>8

LEMMA OneOlder ==
    ASSUME NEW age \in 0 .. AgeCap
    PROVE  /\ Older(age) \in 0 .. AgeCap /\ Older(age) <= age + 1
           /\ age = AgeCap => Older(age) = AgeCap
  BY Budgets DEF Older

\* Of the time that passes the main loop has used every tick.
LEMMA TickChainInv == TimeInv /\ Tick => ChainInv'
<1> SUFFICES ASSUME TimeInv, Tick PROVE ChainInv'
  OBVIOUS
<1> USE DEF TimeInv
<1>1. /\ UNCHANGED <<pc, i, out, txStart, hang, setpoint, motor>> /\ isr = "none"
      /\ cmdAge' = Older(cmdAge) /\ heartbeatAge' = Older(heartbeatAge)
  BY DEF Tick, Age, commVars, usbVars
<1>2. /\ hang = 0 /\ cpu \in Nat
      /\ cmdAge \in 0 .. AgeCap /\ heartbeatAge \in 0 .. AgeCap
  BY <1>1, Budgets DEF ClockInv, HangInv, TypeOK
<1>3. ASSUME Reaction < AgeCap PROVE Since' = Since + 1 /\ Since \in Nat
  <2>1. Since \in Nat
    BY <1>3, SinceBound DEF ClockInv
  <2>2. CASE pc \in SendPcs
    <3>1. cpu' = cpu /\ Elapsed(tick, txStart) < Budget(pc)
      BY <2>2 DEF Tick
    <3>2. {tick, txStart} \subseteq TickRange
      BY DEF TypeOK, TickRange
    <3>3. Waited \in Nat
      BY <3>2, ElapsedRange, TickModPositive DEF Waited
    <3>4. Budget(pc) \in Nat /\ Budget(pc) <= Reaction
      BY Budgets DEF Budget
    <3>5. Elapsed(tick, txStart) < TickMod - 1
      BY <1>3, <3>1, <3>3, <3>4, Budgets DEF Waited
    <3>6. Waited' = Waited + 1
      BY <1>1, <3>2, <3>5, ElapsedTick DEF Waited, Tick
    <3> HIDE DEF Waited
    <3>7. pc' = pc
      BY <1>1
    <3>8. CASE pc = "send_status"
      BY <1>2, <3>1, <3>3, <3>6, <3>7, <3>8 DEF Since
    <3>9. CASE pc = "send_odom"
      BY <1>2, <3>1, <3>3, <3>6, <3>7, <3>9, Budgets DEF Since
    <3>10. CASE pc = "send_report"
      BY <1>2, <3>1, <3>3, <3>6, <3>7, <3>10, Budgets DEF Since
    <3> QED
      BY <2>1, <2>2, <3>8, <3>9, <3>10 DEF SendPcs
  <2>3. CASE pc \notin SendPcs
    <3>1. cpu' = cpu + 1 /\ pc \in Pcs \ SendPcs
      BY <2>3 DEF Tick, TypeOK
    <3>2. pc' = pc
      BY <1>1
    <3>3. CASE pc \in {"update", "zero", "off", "top", "report"}
      BY <1>2, <3>1, <3>2, <3>3, Budgets DEF Since
    <3>4. CASE pc \in {"gate", "wheel", "write", "telemetry"}
      BY <1>2, <3>1, <3>2, <3>4 DEF Since
    <3> QED
      BY <2>1, <3>1, <3>3, <3>4 DEF Pcs, SendPcs
  <2> QED
    BY <2>2, <2>3
<1>4. Live' <=> Live
  BY <1>1 DEF Live
<1>5. RearmInv'
  <2>1. pc \in {"zero", "off"} => cpu' = cpu + 1
    BY DEF Tick, SendPcs
  <2> QED
    BY <1>1, <1>2, <2>1, OneOlder, Budgets DEF ChainInv, RearmInv
<1>6. DeadmanInv'
  BY <1>1, <1>2, <1>3, <1>4, OneOlder, Budgets DEF ChainInv, DeadmanInv
<1>7. PulseInv'
  BY <1>1, <1>2, <1>3, <1>4, OneOlder, Budgets DEF ChainInv, PulseInv
<1> QED
  BY <1>5, <1>6, <1>7 DEF ChainInv

LEMMA HangTickChainInv == TimeInv /\ HangTick => ChainInv'
<1> SUFFICES ASSUME TimeInv, HangTick PROVE ChainInv'
  OBVIOUS
<1> USE DEF TimeInv
<1>1. /\ UNCHANGED <<pc, i, out, cpu, txStart, tick, setpoint, motor>>
      /\ hang' = hang + 1
      /\ cmdAge' = Older(cmdAge) /\ heartbeatAge' = Older(heartbeatAge)
  BY DEF HangTick, Age, loopVars, commVars
<1>2. /\ hang \in Nat /\ cpu \in Nat
      /\ cmdAge \in 0 .. AgeCap /\ heartbeatAge \in 0 .. AgeCap
  BY ConstantsOK DEF TypeOK
<1>3. Since' = Since /\ (Live' <=> Live)
  BY <1>1 DEF Since, Waited, Live
<1>4. Reaction < AgeCap => Since \in Nat
  BY SinceBound DEF ClockInv
<1>5. RearmInv'
  BY <1>1, <1>2, OneOlder, Budgets DEF ChainInv, RearmInv
<1>6. DeadmanInv'
  BY <1>1, <1>2, <1>3, <1>4, OneOlder, Budgets DEF ChainInv, DeadmanInv
<1>7. PulseInv'
  BY <1>1, <1>2, <1>3, <1>4, OneOlder, Budgets DEF ChainInv, PulseInv
<1> QED
  BY <1>5, <1>6, <1>7 DEF ChainInv

LEMMA NextTimeInv == TimeInv /\ [Next]_vars => TimeInv'
<1> SUFFICES ASSUME TimeInv, [Next]_vars PROVE TimeInv'
  OBVIOUS
<1>1. TypeOK' /\ ClockInv'
  BY NextTypeOK, NextClockInv DEF TimeInv
<1>2. CASE MainStep
  <2>1. LoopInv'
    <3>1. LoopInv
      BY DEF TimeInv
    <3> QED
      BY <1>2, <3>1, MainStepLoopInv
  <2> QED
    BY <1>1, <1>2, <2>1, MainStepRearmInv, MainStepDeadmanInv, MainStepPulseInv
       DEF TimeInv, ChainInv
<1>3. CASE UsbInterrupt
  <2>1. LoopInv'
    BY <1>3 DEF TimeInv, LoopInv, UsbInterrupt, RxHeartbeat, AcceptCmdVel,
                RejectCmdVel, RxSetMode, RxStop, RxOther, RxCrcError, TxComplete,
                loopVars
  <2> QED
    BY <1>1, <1>3, <2>1, UsbInterruptChainInv DEF TimeInv
<1>4. CASE Tick \/ HangTick
  <2>1. LoopInv'
    BY <1>4 DEF TimeInv, LoopInv, Tick, HangTick, loopVars
  <2> QED
    BY <1>1, <1>4, <2>1, TickChainInv, HangTickChainInv DEF TimeInv
<1>5. CASE WatchdogReset \/ PowerCycle
  BY <1>5, ResetTimeInv DEF WatchdogReset, PowerCycle
<1>6. CASE UNCHANGED vars
  <2>1. Since' = Since /\ (Live' <=> Live) /\ LoopInv'
    BY <1>6 DEF TimeInv, vars, loopVars, commVars, Since, Waited, Live, LoopInv
  <2> QED
    BY <1>1, <1>6, <2>1 DEF TimeInv, ChainInv, RearmInv, DeadmanInv, PulseInv, vars,
                            loopVars, commVars, usbVars, ages
<1> QED
  BY <1>2, <1>3, <1>4, <1>5, <1>6 DEF Next

\* The invariant of the time bounds.
THEOREM TimeInvariant == Spec => []TimeInv
  BY InitTimeInv, NextTimeInv, PTL DEF Spec

\* The dead-man chain, for any timeout, any budgets and any width of the tick
\* counter: no wheel is driven once the last accepted CMD_VEL is older than
\* APP_CMD_TIMEOUT_MS and the main loop's reaction to it.
THEOREM DeadmanHolds == Spec => []Deadman
<1>1. TimeInv => Deadman
  <2> SUFFICES ASSUME TimeInv, motor # {}
               PROVE  cmdAge <= CmdTimeout + Reaction + hang
    BY DEF Deadman
  <2>1. cmdAge \in 0 .. AgeCap /\ hang \in Nat
    BY ConstantsOK DEF TimeInv, TypeOK
  <2>2. CASE CmdTimeout + Reaction < AgeCap
    <3>1. Since \in Nat /\ Since <= Reaction
      BY <2>2, SinceBound, Budgets DEF TimeInv, ClockInv
    <3>2. cmdAge <= CmdTimeout + Since + hang
      BY <2>2 DEF TimeInv, ChainInv, DeadmanInv, Live
    <3> QED
      BY <2>1, <3>1, <3>2, Budgets
  <2>3. CASE ~(CmdTimeout + Reaction < AgeCap)
    BY <2>1, <2>3, Budgets
  <2> QED
    BY <2>2, <2>3
<1> QED
  BY <1>1, TimeInvariant, PTL

\* With the heartbeat lost a wheel is driven only by a command that has just
\* been accepted.
THEOREM HeartbeatLossStops == Spec => []HeartbeatLossPulse
<1>1. TimeInv => HeartbeatLossPulse
  <2> SUFFICES ASSUME TimeInv, motor # {}, heartbeatAge < AgeCap,
                      heartbeatAge > HeartbeatTimeout + Reaction + hang
               PROVE  cmdAge <= Reaction + hang
    BY DEF HeartbeatLossPulse
  <2>1. cmdAge \in 0 .. AgeCap /\ heartbeatAge \in 0 .. AgeCap /\ hang \in Nat
    BY ConstantsOK DEF TimeInv, TypeOK
  <2>2. HeartbeatTimeout + Reaction < AgeCap
    BY <2>1, Budgets
  <2>3. Since \in Nat /\ Since <= Reaction
    BY <2>2, SinceBound, Budgets DEF TimeInv, ClockInv
  <2>4. heartbeatAge <= HeartbeatTimeout + Since + hang \/ cmdAge <= Since + hang
    <3>1. heartbeatAge # AgeCap
      BY <2>1, Budgets
    <3> QED
      BY <2>2, <3>1 DEF TimeInv, ChainInv, PulseInv, Live
  <2> QED
    BY <2>1, <2>3, <2>4, Budgets
<1> QED
  BY <1>1, TimeInvariant, PTL
=============================================================================
