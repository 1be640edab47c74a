-------------------------------- MODULE Bridge --------------------------------
(***************************************************************************)
(* stm32_bridge_node between /cmd_vel and the chassis firmware: velocity   *)
(* commands out, telemetry in, over a USB serial port that goes away when  *)
(* the firmware resets and comes back as another device.  The node is one  *)
(* thread: a callback is one action, and a write may block it.             *)
(*                                                                         *)
(* A tick is the period of the telemetry; the command timer fires once in  *)
(* it, a little coarser than in the code.  Frames of one direction arrive  *)
(* in order or not at all.  A velocity is only whether it moves the robot, *)
(* and one wheel stands for the four.  HEARTBEAT frames are left out: the  *)
(* same timer sends them, and the firmware waits for them four times as    *)
(* long.  The firmware is reduced to what the bridge meets of it; module   *)
(* ChassisFirmware has the rest.                                           *)
(***************************************************************************)
EXTENDS Integers, Sequences

CONSTANTS
    CmdVelTimeout,   \* cmd_vel_timeout_s
    FwTimeout,       \* APP_CMD_TIMEOUT_MS
    ReconnectTicks,  \* _reconnect_period_s
    AssertTicks,     \* the 0.5 s between two SET_MODE
    CountMod,        \* 2^16: the modulus of an encoder count
    MaxTurn,         \* counts a wheel can turn by in a tick
    TopicDepth,      \* depth of the subscription (10)
    RxMax,           \* frames the kernel keeps for a thread that does not read
    BlockMax,        \* bound: ticks a write blocks
    MaxIncidents     \* bound: lost frames, resets, blocked writes, restarts

Half == CountMod \div 2

ASSUME ConstantsOK ==
    /\ {CmdVelTimeout, FwTimeout, ReconnectTicks, AssertTicks, Half, TopicDepth,
        RxMax} \subseteq Nat \ {0}
    /\ CountMod = 2 * Half
    /\ {MaxTurn, BlockMax, MaxIncidents} \subseteq Nat /\ MaxTurn < Half

Turns == -MaxTurn .. MaxTurn

VARIABLES
    \* bridge
    cmdVels,     \* the subscription's queue
    target,      \* _target moves
    cmdVelAge,   \* since _last_cmd_vel_ts
    ser,         \* _ser: "none", "open", or "dead": open on a device that is gone
    openIn,      \* ticks to _next_open_ts
    assertIn,    \* ticks until a SET_MODE may be repeated
    base,        \* the odometry's _last_ticks, or NoBase
    due,         \* the command timer is due
    blocked,     \* ticks the thread still waits in a write
    \* port
    present,     \* the device is there
    toFw, fromFw,
    \* firmware
    mode,        \* app_mode, as the bridge wants it or RDK_MODE_IDLE
    moving,      \* a setpoint is not zero
    fwAge,       \* since app_last_cmd_ms
    count,       \* the encoder
    \* history
    turned,      \* counts turned since the last telemetry
    owed,        \* counts turned since base was read, as far as sent
    wrong,       \* the last sample was integrated as something else
    since,       \* ticks since a moving /cmd_vel, without those of a blocked thread
    incidents

bridge == <<target, cmdVelAge, ser, openIn, assertIn, base>>
port == <<present, toFw, fromFw>>
firmware == <<mode, moving, fwAge, count>>
odometryHistory == <<turned, owed, wrong>>
vars == <<cmdVels, bridge, due, blocked, port, firmware, odometryHistory, since,
          incidents>>

NoBase == -1
\* More counts than a wrapped difference can tell.
Unknown == CountMod

\* What the firmware may drive after the last moving /cmd_vel.
RunOn == CmdVelTimeout + FwTimeout
Older(age, cap) == IF age < cap THEN age + 1 ELSE age
Less(n) == IF n > 0 THEN n - 1 ELSE 0

Commands == {"SET_MODE", "STOP", "go", "halt"}
Displacements == -Half .. Half - 1 \cup {Unknown}

TypeOK ==
    /\ cmdVels \in Seq(BOOLEAN) /\ Len(cmdVels) <= TopicDepth
    /\ {target, due, present, moving, wrong} \subseteq BOOLEAN
    /\ cmdVelAge \in 0 .. CmdVelTimeout + 1
    /\ ser \in {"none", "open", "dead"}
    /\ ser = "open" => present
    /\ ser # "open" => fromFw = <<>>
    /\ openIn \in 0 .. ReconnectTicks /\ assertIn \in 0 .. AssertTicks
    /\ base \in 0 .. CountMod - 1 \cup {NoBase}
    /\ blocked \in 0 .. BlockMax
    /\ toFw \in Seq(Commands)
    /\ fromFw \in Seq([mode : {"IDLE", "wanted"}, count : 0 .. CountMod - 1,
                       turned : Displacements])
    /\ Len(fromFw) <= RxMax
    /\ mode \in {"IDLE", "wanted"}
    /\ fwAge \in 0 .. FwTimeout + 1
    /\ count \in 0 .. CountMod - 1
    /\ {turned, owed} \subseteq Displacements
    /\ since \in 0 .. RunOn + 1
    /\ incidents \in 0 .. MaxIncidents

BridgeInit ==
    /\ cmdVels = <<>> /\ target = FALSE /\ cmdVelAge = CmdVelTimeout + 1
    /\ ser = "none" /\ openIn = 0 /\ assertIn = 0 /\ base = NoBase
    /\ due = TRUE /\ blocked = 0

Init ==
    /\ BridgeInit
    /\ present = TRUE /\ toFw = <<>> /\ fromFw = <<>>
    /\ mode = "IDLE" /\ moving = FALSE /\ fwAge = 0 /\ count = 0
    /\ turned = 0 /\ owed = 0 /\ wrong = FALSE
    /\ since = RunOn + 1 /\ incidents = 0

Incident == incidents < MaxIncidents /\ incidents' = incidents + 1

Sum(a, b) ==
    IF a = Unknown \/ b = Unknown \/ a + b \notin -Half .. Half - 1
    THEN Unknown ELSE a + b

-----------------------------------------------------------------------------
(***************************************************************************)
(* /cmd_vel.                                                               *)
(***************************************************************************)
\* Fault variant of Queued: the subscription keeps everything.
KeptAll(moves) == Append(cmdVels, moves)

\* A full queue loses its oldest message.
Queued(moves) ==
    Append(IF Len(cmdVels) = TopicDepth THEN Tail(cmdVels) ELSE cmdVels, moves)

\* Nav2 or the lidar gate publishes.
Publish(moves) ==
    /\ due
    /\ cmdVels' = Queued(moves)
    /\ since' = IF moves THEN 0 ELSE since
    /\ UNCHANGED <<bridge, due, blocked, port, firmware, odometryHistory, incidents>>

\* _on_cmd_vel: the message is as old as its callback, however long it waited.
OnCmdVel ==
    /\ blocked = 0 /\ cmdVels # <<>>
    /\ target' = Head(cmdVels) /\ cmdVels' = Tail(cmdVels)
    /\ cmdVelAge' = 0
    /\ UNCHANGED <<ser, openIn, assertIn, base, due, blocked, port, firmware,
                   odometryHistory, since, incidents>>

-----------------------------------------------------------------------------
(***************************************************************************)
(* The command timer.                                                      *)
(***************************************************************************)
\* Fault variant of Resync: the baseline survives a reconnection.
KeepBaseline == UNCHANGED base

\* MecanumOdometry.resync.
Resync == base' = NoBase

\* _ensure_serial: rate-limited; a fresh link starts with SET_MODE.
EnsureSerial ==
    /\ IF openIn > 0
       THEN UNCHANGED <<ser, openIn, base, toFw>>
       ELSE /\ openIn' = ReconnectTicks
            /\ IF present THEN /\ ser' = "open"
                               /\ toFw' = Append(toFw, "SET_MODE")
                               /\ Resync
                          ELSE UNCHANGED <<ser, base, toFw>>
    /\ UNCHANGED target

\* Fault variant of Fresh: the last target is repeated for ever.
Repeated == target

\* The target, zero when it is too old.
Fresh == target /\ cmdVelAge <= CmdVelTimeout

\* _send: a dead port raises, and is dropped.
SendTarget ==
    /\ target' = Fresh
    /\ IF ser = "open"
       THEN toFw' = Append(toFw, IF target' THEN "go" ELSE "halt") /\ UNCHANGED ser
       ELSE ser' = "none" /\ UNCHANGED toFw
    /\ UNCHANGED <<openIn, base>>

\* _on_cmd_timer.  A write has no timeout: it waits for a firmware that does
\* not read.
OnCmdTimer(ticks) ==
    /\ blocked = 0 /\ due /\ due' = FALSE
    /\ IF ser = "none" THEN EnsureSerial ELSE SendTarget
    /\ IF ticks = 0 THEN UNCHANGED incidents ELSE ser = "open" /\ Incident
    /\ blocked' = ticks
    /\ UNCHANGED <<cmdVels, cmdVelAge, assertIn, present, fromFw, firmware,
                   odometryHistory, since>>

-----------------------------------------------------------------------------
(***************************************************************************)
(* The serial poll.                                                        *)
(***************************************************************************)
\* Fault variant of WrappedDelta: the difference is not folded.
PlainDelta(current, previous) == current - previous

\* wrapped_delta_u16.
WrappedDelta(current, previous) ==
    LET d == (current - previous) % CountMod
    IN IF d >= Half THEN d - CountMod ELSE d

\* _handle_odom and update: the first sample is only the baseline.
HandleOdom(frame) ==
    /\ base' = frame.count
    /\ owed' = 0
    /\ wrong' = /\ base # NoBase
                /\ Sum(owed, frame.turned) \notin
                       {Unknown, WrappedDelta(frame.count, base)}

\* Fault variant of Reassert: SET_MODE is sent when the port is opened only.
NeverReassert(m) == FALSE

Reassert(m) == m # "wanted" /\ assertIn = 0

\* _handle_frame of a STATUS.
HandleStatus(frame) ==
    IF Reassert(frame.mode)
    THEN toFw' = Append(toFw, "SET_MODE") /\ assertIn' = AssertTicks
    ELSE UNCHANGED <<toFw, assertIn>>

\* _on_serial_poll with a STATUS and an ODOM, of which either may be missing.
OnSerialPoll(status, odom) ==
    /\ blocked = 0 /\ ser = "open" /\ fromFw # <<>>
    /\ IF status /\ odom THEN UNCHANGED incidents ELSE Incident
    /\ fromFw' = Tail(fromFw)
    /\ LET frame == Head(fromFw)
       IN /\ IF status THEN HandleStatus(frame) ELSE UNCHANGED <<toFw, assertIn>>
          /\ IF odom THEN HandleOdom(frame)
             ELSE owed' = Sum(owed, frame.turned) /\ UNCHANGED <<base, wrong>>
    /\ UNCHANGED <<cmdVels, target, cmdVelAge, ser, openIn, due, blocked, present,
                   firmware, turned, since>>

\* A read of a dead port raises.
PollRaises ==
    /\ blocked = 0 /\ ser = "dead"
    /\ ser' = "none"
    /\ UNCHANGED <<cmdVels, target, cmdVelAge, openIn, assertIn, base, due, blocked,
                   port, firmware, odometryHistory, since, incidents>>

-----------------------------------------------------------------------------
(***************************************************************************)
(* The firmware and the port.                                              *)
(***************************************************************************)
\* dispatch_frame, or the frame is lost.  In IDLE a velocity is refused.
Dispatch(arrives) ==
    /\ blocked = 0 /\ toFw # <<>>
    /\ toFw' = Tail(toFw)
    /\ IF arrives THEN UNCHANGED incidents ELSE Incident
    /\ LET f == Head(toFw)
           takes == arrives /\ mode # "IDLE" /\ f \in {"go", "halt"}
       IN /\ mode' = CASE arrives /\ f = "SET_MODE" -> "wanted"
                       [] arrives /\ f = "STOP" -> "IDLE"
                       [] OTHER -> mode
          /\ moving' = IF takes THEN f = "go"
                       ELSE moving /\ ~(arrives /\ f # "SET_MODE")
          /\ fwAge' = IF takes THEN 0 ELSE fwAge
    /\ UNCHANGED <<cmdVels, bridge, due, blocked, present, fromFw, count,
                   odometryHistory, since>>

PortGoes ==
    /\ ser' = IF ser = "open" THEN "dead" ELSE ser
    /\ toFw' = <<>> /\ fromFw' = <<>>

\* A reset: the device disconnects, the counters are zero, a write that
\* waited raises at last.
FwReset ==
    /\ Incident
    /\ PortGoes /\ present' = FALSE
    /\ mode' = "IDLE" /\ moving' = FALSE /\ fwAge' = 0 /\ count' = 0
    /\ turned' = 0 /\ owed' = 0
    /\ blocked' = 0
    /\ UNCHANGED <<cmdVels, target, cmdVelAge, openIn, assertIn, base, due, wrong,
                   since>>

Enumerate ==
    /\ ~present /\ present' = TRUE
    /\ UNCHANGED <<cmdVels, bridge, due, blocked, toFw, fromFw, firmware,
                   odometryHistory, since, incidents>>

\* The node is interrupted, sends STOP on its way out, and is started again;
\* or it is killed.  A blocked write ends only by the signal.
Restart(stops) ==
    /\ Incident
    /\ cmdVels' = <<>> /\ target' = FALSE /\ cmdVelAge' = CmdVelTimeout + 1
    /\ ser' = "none" /\ openIn' = 0 /\ assertIn' = 0 /\ base' = NoBase
    /\ due' = TRUE /\ blocked' = 0
    /\ toFw' = IF stops /\ ser = "open" THEN Append(toFw, "STOP") ELSE toFw
    /\ fromFw' = <<>>
    /\ UNCHANGED <<present, firmware, odometryHistory, since>>

\* Fault variant of Expired: the firmware keeps the last velocity.
NeverExpired(age) == FALSE

Expired(age) == age > FwTimeout

\* A tick passes when what is due in it is done: the firmware looks at the age
\* of its last command, a wheel turns (driven, coasting or pushed), and the
\* telemetry is sent.
Tick(turn) ==
    /\ ser # "dead"
    /\ blocked = 0 => ~due /\ toFw = <<>> /\ fromFw = <<>> /\ cmdVels = <<>>
    /\ cmdVelAge' = Older(cmdVelAge, CmdVelTimeout + 1)
    /\ openIn' = Less(openIn) /\ assertIn' = Less(assertIn)
    /\ due' = TRUE
    /\ blocked' = Less(blocked)
    /\ since' = IF blocked = 0 THEN Older(since, RunOn + 1) ELSE since
    /\ fwAge' = Older(fwAge, FwTimeout + 1)
    /\ moving' = (moving /\ ~Expired(fwAge'))
    /\ count' = (count + turn) % CountMod
    /\ IF ser = "open" /\ Len(fromFw) < RxMax
       THEN /\ fromFw' = Append(fromFw, [mode |-> mode, count |-> count',
                                         turned |-> Sum(turned, turn)])
            /\ turned' = 0
       ELSE turned' = Sum(turned, turn) /\ UNCHANGED fromFw
    /\ UNCHANGED <<cmdVels, target, ser, base, present, toFw, mode, owed, wrong,
                   incidents>>

Next ==
    \/ \E moves \in BOOLEAN : Publish(moves)
    \/ OnCmdVel \/ PollRaises
    \/ \E ticks \in 0 .. BlockMax : OnCmdTimer(ticks)
    \/ \E status, odom \in BOOLEAN : OnSerialPoll(status, odom)
    \/ \E arrives \in BOOLEAN : Dispatch(arrives)
    \/ FwReset \/ Enumerate
    \/ \E stops \in BOOLEAN : Restart(stops)
    \/ \E turn \in Turns : Tick(turn)

Spec == Init /\ [][Next]_vars

\* The thread goes on when no write blocks it, frames arrive, time passes, a
\* device that was reset enumerates.
FairSpec ==
    /\ Spec
    /\ WF_vars(OnCmdVel) /\ WF_vars(OnCmdTimer(0)) /\ WF_vars(PollRaises)
    /\ WF_vars(OnSerialPoll(TRUE, TRUE)) /\ WF_vars(Dispatch(TRUE))
    /\ WF_vars(Enumerate) /\ WF_vars(\E turn \in Turns : Tick(turn))

-----------------------------------------------------------------------------
(***************************************************************************)
(* Properties.                                                             *)
(***************************************************************************)
\* The motors are driven only within the bridge's and the firmware's timeout
\* of a /cmd_vel that moves, whatever was lost, reset, restarted or
\* reconnected since; only the time the bridge's thread was blocked comes on
\* top of it, a message that waited is as good as new.
MotionFresh == moving /\ mode # "IDLE" => since <= RunOn

\* The pose goes by what the wheels turned: no sample is integrated as
\* anything but the counts since the sample before it, across wraps, lost
\* frames and the counters that a reset sets to zero.
PoseTrue == ~wrong

\* The chassis does not stay in IDLE: after a reset, a reconnection or a lost
\* SET_MODE it is put into the wanted mode again.
ModeRestored == []<>(mode = "wanted")
=============================================================================
