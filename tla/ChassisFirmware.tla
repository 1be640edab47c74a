--------------------------- MODULE ChassisFirmware ---------------------------
(***************************************************************************)
(* The STM32 chassis firmware: the main loop of main.c (app_tick), the USB *)
(* interrupt that runs dispatch_frame, the millisecond tick and the        *)
(* watchdog, interleaved as the processor interleaves them.                *)
(*                                                                         *)
(*  - The main loop is preempted between any two of its steps; pc names    *)
(*    the step it is about to take.                                        *)
(*  - The USB interrupt (priority 6) runs a whole frame without being      *)
(*    preempted, so a handler is one action.  The tick interrupt has       *)
(*    priority 15: while the USB interrupt runs, HAL_GetTick stands still. *)
(*  - Timestamps are uint32_t and wrap; here they live in 0 .. TickMod-1.  *)
(*                                                                         *)
(* Abstractions.  A twist is the set of wheels whose setpoint it puts      *)
(* above APP_SETPOINT_DEADBAND, and a motor output is driven or off: the   *)
(* PID, the velocity filter and the stall guard only decide whether a      *)
(* wheel with a setpoint is driven in this pass.  app_estop is never       *)
(* written anywhere, so its branches are dead and left out;                *)
(* app_fault_code changes together with app_comm_state.                    *)
(***************************************************************************)
EXTENDS Integers

CONSTANTS
    NWheels,          \* MECANUM_WHEEL_COUNT
    Twists,           \* the sets of wheels a CMD_VEL can command
    Modes,            \* the values of app_mode
    Idle,             \* RDK_MODE_IDLE
    BadMode,          \* a SET_MODE payload above RDK_MODE_TEST
    TickMod,          \* 2^32: the tick counter's modulus
    CtrlPeriod,       \* APP_CTRL_PERIOD_MS
    CmdTimeout,       \* APP_CMD_TIMEOUT_MS
    HeartbeatTimeout, \* APP_HEARTBEAT_TIMEOUT_MS
    StatusPeriod,     \* APP_STATUS_PERIOD_MS
    ReportPeriod,     \* the 5000 ms of the forensics line
    SendBudget,       \* the 5 ms of send_protocol_frame
    ReportBudget,     \* the 10 ms of app_forensics_report
    CpuBudget,        \* ticks that may pass in one app_tick outside its waits
    WatchdogTimeout   \* the 250 ms of the IWDG

Wheels == 0 .. NWheels - 1

ASSUME ConstantsOK ==
    /\ NWheels \in Nat \ {0}
    /\ Twists \subseteq SUBSET Wheels
    /\ Idle \in Modes
    /\ BadMode \notin Modes
    /\ TickMod \in Nat \ {0}
    /\ {CtrlPeriod, CmdTimeout, HeartbeatTimeout, StatusPeriod, ReportPeriod,
        SendBudget, ReportBudget, CpuBudget, WatchdogTimeout} \subseteq Nat

CommStates == {"OK", "HEARTBEAT_TIMEOUT", "CMD_TIMEOUT", "CRC_ERROR_LIMIT"}

\* The main loop's waits for the USB endpoint.
SendPcs == {"send_status", "send_odom", "send_report"}

Pcs == {"top", "update", "zero", "off", "gate", "wheel", "write",
        "telemetry", "report"} \cup SendPcs

VARIABLES
    \* main loop
    pc,             \* the next step of app_tick
    now,            \* app_tick's copy of HAL_GetTick()
    i,              \* the wheel a loop is at
    active,         \* app_control_step's latched decision to drive
    out,            \* the output decided for wheel i and not yet written
    txStart,        \* when the current wait for the endpoint began
    cpu,            \* ticks seen by this app_tick outside its waits
    \* globals
    mode,           \* app_mode
    setpoint,       \* the wheels with a setpoint outside the deadband
    motor,          \* the wheels whose PWM is driven
    comm,           \* app_comm_state
    lastCmd,        \* app_last_cmd_ms
    lastHeartbeat,  \* app_last_heartbeat_ms
    lastCtrl,       \* app_last_ctrl_ms
    lastStatus,     \* app_last_status_ms
    lastReport,     \* g_forensics_last_ms
    haveEnc,        \* app_have_last_enc
    resetCause,     \* g_reset_csr
    \* hardware
    tick,           \* HAL_GetTick()
    tx,             \* TxState of the CDC IN endpoint
    isr,            \* "none", or "spin": the USB interrupt waits for tx
    hang,           \* real time spent in "spin"
    \* history: what the properties refer to and the code does not keep
    cmdAge,         \* real time since the last accepted CMD_VEL
    heartbeatAge,   \* real time since the last HEARTBEAT, or the boot
    sweep           \* control passes begun and ended since mode became Idle

loopVars == <<pc, now, i, active, out, txStart, cpu>>
commVars == <<mode, setpoint, comm, lastCmd, lastHeartbeat>>
periodVars == <<lastCtrl, lastStatus, lastReport, haveEnc, resetCause>>
usbVars == <<tx, isr, hang>>
ages == <<cmdAge, heartbeatAge>>
vars == <<loopVars, commVars, motor, periodVars, tick, usbVars, ages, sweep>>

\* (uint32_t)(later - earlier)
Elapsed(later, earlier) == (later - earlier) % TickMod

\* The longest an app_tick lasts.
LoopBudget == CpuBudget + 2 * SendBudget + ReportBudget

\* The ages are exact up to the span the tick counter can tell apart.
AgeCap == TickMod - 1
Older(age) == IF age < AgeCap THEN age + 1 ELSE age

TypeOK ==
    /\ pc \in Pcs
    /\ {now, txStart, tick, lastCmd, lastHeartbeat, lastCtrl, lastStatus,
        lastReport} \subseteq 0 .. TickMod - 1
    /\ i \in Wheels
    /\ {active, out, haveEnc} \subseteq BOOLEAN
    /\ cpu \in 0 .. CpuBudget
    /\ mode \in Modes
    /\ setpoint \subseteq Wheels
    /\ motor \subseteq Wheels
    /\ comm \in CommStates
    /\ resetCause \in {"POR", "IWDG"}
    /\ tx \in {"idle", "busy"}
    /\ isr \in {"none", "spin"}
    /\ hang \in 0 .. WatchdogTimeout
    /\ {cmdAge, heartbeatAge} \subseteq 0 .. AgeCap
    /\ sweep \in {"none", "running", "done"}

-----------------------------------------------------------------------------
(***************************************************************************)
(* Reset.  The state main() sets up before its loop.  A reset puts the PWM *)
(* pins back to inactive, clears RAM and restarts HAL_GetTick at 0; the    *)
(* STATUS frame of app_uart_start is lost, no host has enumerated yet.     *)
(***************************************************************************)
Init ==
    /\ pc = "top" /\ now = 0 /\ i = 0 /\ active = FALSE /\ out = FALSE
    /\ txStart = 0 /\ cpu = 0
    /\ mode = Idle /\ setpoint = {} /\ comm = "OK"
    /\ lastCmd = 0 /\ lastHeartbeat = 0
    /\ motor = {}
    /\ lastCtrl = 0 /\ lastStatus = 0 /\ lastReport = 0
    /\ haveEnc = FALSE /\ resetCause = "POR"
    /\ tick = 0 /\ tx = "idle" /\ isr = "none" /\ hang = 0
    /\ cmdAge = AgeCap /\ heartbeatAge = 0 /\ sweep = "none"

Reset(cause) ==
    /\ pc' = "top" /\ now' = 0 /\ i' = 0 /\ active' = FALSE /\ out' = FALSE
    /\ txStart' = 0 /\ cpu' = 0
    /\ mode' = Idle /\ setpoint' = {} /\ comm' = "OK"
    /\ lastCmd' = 0 /\ lastHeartbeat' = 0
    /\ motor' = {}
    /\ lastCtrl' = 0 /\ lastStatus' = 0 /\ lastReport' = 0
    /\ haveEnc' = FALSE /\ resetCause' = cause
    /\ tick' = 0 /\ tx' = "idle" /\ isr' = "none" /\ hang' = 0
    /\ cmdAge' = AgeCap /\ heartbeatAge' = 0 /\ sweep' = "none"

PowerCycle == Reset("POR")

\* Nothing has kicked the watchdog for WatchdogTimeout.
WatchdogReset == hang = WatchdogTimeout /\ Reset("IWDG")

-----------------------------------------------------------------------------
(***************************************************************************)
(* The main loop.  A step reads the globals an interrupt may have changed  *)
(* since the step before it.                                               *)
(***************************************************************************)
\* A wheel loop's next iteration, or the step after the loop.
NextWheel(loop, after) ==
    IF i + 1 \in Wheels THEN i' = i + 1 /\ pc' = loop
                        ELSE i' = 0 /\ pc' = after

\* Kick the watchdog; app_tick takes its one reading of the clock.
StartTick ==
    /\ pc = "top"
    /\ now' = tick
    /\ cpu' = 0
    /\ pc' = "update"
    /\ UNCHANGED <<i, active, out, txStart, commVars, motor, periodVars,
                   tick, usbVars, ages, sweep>>

\* Fault variant of CommState: the heartbeat is not looked at.
CommandOnlyCommState ==
    IF Elapsed(now, lastCmd) > CmdTimeout THEN "CMD_TIMEOUT" ELSE "OK"

\* What app_update_comm_state makes of the two timestamps.
CommState ==
    IF Elapsed(now, lastHeartbeat) > HeartbeatTimeout THEN "HEARTBEAT_TIMEOUT"
    ELSE IF Elapsed(now, lastCmd) > CmdTimeout THEN "CMD_TIMEOUT"
    ELSE "OK"

\* app_update_comm_state up to its call of app_chassis_stop.
UpdateComm ==
    /\ pc = "update"
    /\ comm' = CommState
    /\ pc' = IF comm' = "OK" THEN "gate" ELSE "zero"
    /\ UNCHANGED <<now, i, active, out, txStart, cpu, mode, setpoint, lastCmd,
                   lastHeartbeat, motor, periodVars, tick, usbVars, ages, sweep>>

\* app_chassis_stop in the main loop: one setpoint at a time...
ZeroSetpoint ==
    /\ pc = "zero"
    /\ setpoint' = setpoint \ {i}
    /\ NextWheel("zero", "off")
    /\ UNCHANGED <<now, active, out, txStart, cpu, mode, comm, lastCmd,
                   lastHeartbeat, motor, periodVars, tick, usbVars, ages, sweep>>

\* ... then MecanumDrive_Stop.  No interrupt switches a motor on, so
\* the four writes are one step.
MotorsOff ==
    /\ pc = "off"
    /\ motor' = {}
    /\ pc' = "gate"
    /\ UNCHANGED <<now, i, active, out, txStart, cpu, commVars, periodVars,
                   tick, usbVars, ages, sweep>>

\* app_control_step up to its loop: the period gate, the encoder
\* baseline, and whether this pass drives.
ControlGate ==
    /\ pc = "gate"
    /\ IF Elapsed(now, lastCtrl) < CtrlPeriod
       THEN pc' = "telemetry" /\ UNCHANGED <<lastCtrl, haveEnc, active, sweep>>
       ELSE /\ lastCtrl' = now
            /\ haveEnc' = TRUE
            /\ IF haveEnc
               THEN /\ active' = /\ mode # Idle
                                 /\ Elapsed(now, lastCmd) < CmdTimeout
                    /\ pc' = "wheel"
                    /\ sweep' = IF mode = Idle /\ sweep = "none"
                                THEN "running" ELSE sweep
               ELSE pc' = "telemetry" /\ UNCHANGED <<active, sweep>>
    /\ UNCHANGED <<now, i, out, txStart, cpu, commVars, motor, lastStatus,
                   lastReport, resetCause, tick, usbVars, ages>>

\* Fault variant of Outputs: a wheel that is not to drive keeps its output.
OutputsSkippingIdleWheels(w) ==
    IF active /\ w \in setpoint THEN BOOLEAN ELSE {w \in motor}

\* The outputs app_control_step can decide on for wheel w: off when the
\* pass is inactive or the setpoint is within the deadband, otherwise what
\* the stall guard and the PID say.
Outputs(w) == IF active /\ w \in setpoint THEN BOOLEAN ELSE {FALSE}

ComputeWheel ==
    /\ pc = "wheel"
    /\ out' \in Outputs(i)
    /\ pc' = "write"
    /\ UNCHANGED <<now, i, active, txStart, cpu, commVars, motor, periodVars,
                   tick, usbVars, ages, sweep>>

\* app_write_motor, with the output decided before.
WriteWheel ==
    /\ pc = "write"
    /\ motor' = IF out THEN motor \cup {i} ELSE motor \ {i}
    /\ NextWheel("wheel", "telemetry")
    /\ sweep' = IF i + 1 \notin Wheels /\ sweep = "running" THEN "done" ELSE sweep
    /\ UNCHANGED <<now, active, out, txStart, cpu, commVars, periodVars, tick,
                   usbVars, ages>>

\* The telemetry gate of app_tick: STATUS, then ODOM.
TelemetryGate ==
    /\ pc = "telemetry"
    /\ IF Elapsed(now, lastStatus) >= StatusPeriod
       THEN lastStatus' = now /\ txStart' = tick /\ pc' = "send_status"
       ELSE pc' = "report" /\ UNCHANGED <<lastStatus, txStart>>
    /\ UNCHANGED <<now, i, active, out, cpu, commVars, motor, lastCtrl,
                   lastReport, haveEnc, resetCause, tick, usbVars, ages, sweep>>

\* The forensics gate of app_tick.
ReportGate ==
    /\ pc = "report"
    /\ IF Elapsed(now, lastReport) >= ReportPeriod
       THEN lastReport' = now /\ txStart' = tick /\ pc' = "send_report"
       ELSE pc' = "top" /\ UNCHANGED <<lastReport, txStart>>
    /\ UNCHANGED <<now, i, active, out, cpu, commVars, motor, lastCtrl,
                   lastStatus, haveEnc, resetCause, tick, usbVars, ages, sweep>>

Budget(p) == IF p = "send_report" THEN ReportBudget ELSE SendBudget

AfterSend(p) == CASE p = "send_status" -> "send_odom"
                  [] p = "send_odom"   -> "report"
                  [] p = "send_report" -> "top"

\* CDC_Transmit_FS from the main loop: it succeeds when the endpoint is
\* free, fails at once when no host has configured the device (USBD_FAIL),
\* and is given up when the endpoint stays busy for the budget.
Send ==
    /\ pc \in SendPcs
    /\ \/ tx = "idle" /\ tx' \in {"busy", "idle"}
       \/ tx = "busy" /\ Elapsed(tick, txStart) >= Budget(pc) /\ UNCHANGED tx
    /\ pc' = AfterSend(pc)
    /\ txStart' = tick
    /\ UNCHANGED <<now, i, active, out, cpu, commVars, motor, periodVars,
                   tick, isr, hang, ages, sweep>>

MainStep ==
    /\ isr = "none"
    /\ \/ StartTick \/ UpdateComm \/ ZeroSetpoint \/ MotorsOff
       \/ ControlGate \/ ComputeWheel \/ WriteWheel
       \/ TelemetryGate \/ ReportGate \/ Send

-----------------------------------------------------------------------------
(***************************************************************************)
(* The USB interrupt: one action per frame of dispatch_frame, each ending  *)
(* in send_ack.  An ACK needs a free IN endpoint.  TxState is cleared by   *)
(* this same interrupt and HAL_GetTick cannot advance under it, so a busy  *)
(* endpoint makes the retry loop of send_protocol_frame spin for good.     *)
(***************************************************************************)
SendAck ==
    /\ IF tx = "idle" THEN tx' = "busy" /\ UNCHANGED isr
                      ELSE isr' = "spin" /\ UNCHANGED tx
    /\ UNCHANGED hang

\* Fault variant of StopInIsr: the motors wait for the next control pass.
ZeroSetpointsOnly == setpoint' = {} /\ UNCHANGED motor

\* app_chassis_stop inside the interrupt: nothing runs in between.
StopInIsr == setpoint' = {} /\ motor' = {}

\* Fault variant of StampHeartbeat: a heartbeat also counts as a command.
StampBoth == lastHeartbeat' = tick /\ lastCmd' = tick

StampHeartbeat == lastHeartbeat' = tick /\ UNCHANGED lastCmd

RxHeartbeat ==
    /\ StampHeartbeat
    /\ heartbeatAge' = 0
    /\ SendAck
    /\ UNCHANGED <<loopVars, mode, setpoint, comm, motor, periodVars, tick,
                   cmdAge, sweep>>

\* A CMD_VEL that dispatch_frame answers with ACK_OK: app_cmd_to_chassis.
AcceptCmdVel(twist) ==
    /\ mode # Idle
    /\ setpoint' = twist
    /\ lastCmd' = tick
    /\ cmdAge' = 0
    /\ SendAck
    /\ UNCHANGED <<loopVars, mode, comm, lastHeartbeat, motor, periodVars,
                   tick, heartbeatAge, sweep>>

RejectCmdVel ==
    /\ mode = Idle
    /\ StopInIsr
    /\ SendAck
    /\ UNCHANGED <<loopVars, mode, comm, lastCmd, lastHeartbeat, periodVars,
                   tick, ages, sweep>>

\* Fault variant of ModeAllowed: the mode byte is not checked.
AnyPayload(m) == TRUE

\* payload[0] > RDK_MODE_TEST is refused.
ModeAllowed(m) == m \in Modes

RxSetMode(m) ==
    /\ IF ModeAllowed(m)
       THEN /\ mode' = m
            /\ IF m = Idle THEN StopInIsr ELSE UNCHANGED <<setpoint, motor>>
            /\ sweep' = "none"
       ELSE UNCHANGED <<mode, setpoint, motor, sweep>>
    /\ SendAck
    /\ UNCHANGED <<loopVars, comm, lastCmd, lastHeartbeat, periodVars, tick, ages>>

RxStop ==
    /\ mode' = Idle
    /\ StopInIsr
    /\ sweep' = "none"
    /\ SendAck
    /\ UNCHANGED <<loopVars, comm, lastCmd, lastHeartbeat, periodVars, tick, ages>>

\* SET_PID, an unknown type, a payload of the wrong length: only the ACK.
RxOther ==
    /\ SendAck
    /\ UNCHANGED <<loopVars, commVars, motor, periodVars, tick, ages, sweep>>

\* Bytes that fail the CRC: no ACK.
RxCrcError ==
    /\ comm' = "CRC_ERROR_LIMIT"
    /\ UNCHANGED <<loopVars, mode, setpoint, lastCmd, lastHeartbeat, motor,
                   periodVars, tick, usbVars, ages, sweep>>

\* USBD_CDC_DataIn: the host has read the packet.
TxComplete ==
    /\ tx = "busy"
    /\ tx' = "idle"
    /\ UNCHANGED <<loopVars, commVars, motor, periodVars, tick, isr, hang,
                   ages, sweep>>

UsbInterrupt ==
    /\ isr = "none"
    /\ \/ RxHeartbeat
       \/ \E twist \in Twists : AcceptCmdVel(twist)
       \/ RejectCmdVel
       \/ \E m \in Modes \cup {BadMode} : RxSetMode(m)
       \/ RxStop \/ RxOther \/ RxCrcError \/ TxComplete

-----------------------------------------------------------------------------
(***************************************************************************)
(* Time.  The main loop's own work takes at most CpuBudget ticks of an     *)
(* app_tick; a wait for the endpoint lasts as long as its code lets it.    *)
(***************************************************************************)
Age == cmdAge' = Older(cmdAge) /\ heartbeatAge' = Older(heartbeatAge)

\* SysTick_Handler, which the USB interrupt holds back.
Tick ==
    /\ isr = "none"
    /\ IF pc \in SendPcs
       THEN Elapsed(tick, txStart) < Budget(pc) /\ UNCHANGED cpu
       ELSE cpu < CpuBudget /\ cpu' = cpu + 1
    /\ tick' = (tick + 1) % TickMod
    /\ Age
    /\ UNCHANGED <<pc, now, i, active, out, txStart, commVars, motor,
                   periodVars, usbVars, sweep>>

\* Real time under the spinning interrupt: only the watchdog counts it.
HangTick ==
    /\ isr = "spin"
    /\ hang < WatchdogTimeout
    /\ hang' = hang + 1
    /\ Age
    /\ UNCHANGED <<loopVars, commVars, motor, periodVars, tick, tx, isr, sweep>>

Next == MainStep \/ UsbInterrupt \/ Tick \/ HangTick \/ WatchdogReset \/ PowerCycle

Spec == Init /\ [][Next]_vars
-----------------------------------------------------------------------------
(***************************************************************************)
(* Safety.                                                                 *)
(***************************************************************************)
\* Once the mode is IDLE, by STOP, SET_MODE or a reset, no wheel keeps a
\* setpoint and at most one wheel can still be driven: the one whose output
\* the interrupted control pass had already decided (dispatch_frame's
\* app_chassis_stop against the write at the end of app_control_step).
IdleDrivesAtMostOne ==
    mode = Idle => /\ setpoint = {}
                   /\ \A v, w \in motor : v = w

\* That stale output does not outlive the next control pass: after one whole
\* pass in IDLE no wheel is driven, whatever frames came in between.
IdlePassStopsAll == mode = Idle /\ sweep = "done" => motor = {}

\* A time bound from the last step that can still read an old clock: the
\* main loop notices an expiry at its next reading and acts CpuBudget later.
Reaction == LoopBudget + CpuBudget

\* The dead-man chain: a wheel is driven only if a CMD_VEL was accepted
\* within APP_CMD_TIMEOUT_MS, the main loop's reaction time and the time the
\* interrupt has been hanging; also when the tick counter wraps.
Deadman == motor # {} => cmdAge <= CmdTimeout + Reaction + hang

\* With the heartbeat lost the chassis moves only in the pulse an accepted
\* CMD_VEL causes between app_update_comm_state and app_control_step; the
\* next app_tick ends it.  (Silences as long as the tick counter's wrap,
\* 49.7 days, are outside what the code can tell.)
HeartbeatLossPulse ==
    /\ motor # {}
    /\ heartbeatAge > HeartbeatTimeout + Reaction + hang
    /\ heartbeatAge < AgeCap
    => cmdAge <= Reaction + hang

-----------------------------------------------------------------------------
(***************************************************************************)
(* What the firmware's own comments say and this code does not keep.       *)
(***************************************************************************)
\* The watchdog "never false-fires", because app_tick's sends are bounded
\* (main.c, the comment above the IWDG set-up): no reset but a power cycle.
NoFalseWatchdog == resetCause # "IWDG"

\* app_update_comm_state stops the chassis on heartbeat loss or a command
\* timeout (app_tick's comment): not while the last one is recent.
TimeoutsAreReal ==
    [][UpdateComm => /\ comm' = "HEARTBEAT_TIMEOUT" => heartbeatAge > HeartbeatTimeout
                     /\ comm' = "CMD_TIMEOUT" => cmdAge > CmdTimeout]_vars

\* The setpoints of all wheels come from one twist, "so the motion direction
\* is preserved" (app_cmd_to_chassis): a pass never drives a mixture.
DrivesOneTwist == pc = "wheel" /\ active => setpoint \in Twists \cup {{}}
=============================================================================
