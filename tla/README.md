# Verification of the mobile lab-inspection robot

TLA+ models of the parts of this repository whose correctness depends on the
order in which things happen, the TLC runs that check them, and the theorems
TLAPS proves about them.  Source paths are relative to `src/`; `FW` stands for
`stm32/firmware/stm32_motion_controller/Core`, `RW` for `rdk_x5/ros2_ws/src` and
`IM` for `RW/inspection_manager/inspection_manager`; `APP` for `app/mobile/lib`.

## 1. The system

A four-wheel mecanum robot patrols a laboratory, finds hot or unsafe objects,
warns by voice and laser, and reports to a backend that a manager watches in an
App.

    App ──HTTP/SSE── backend ──HTTP (polled by the robot)── RDK X5 (ROS 2 nodes) ──USB CDC frames── STM32 ── motors

| Component | State it keeps | Operations | Talks to |
| --- | --- | --- | --- |
| Chassis firmware (`FW/Src/main.c`) | mode, wheel setpoints, PWM, timestamps of the last command and heartbeat, comm state | main loop `app_tick`; USB interrupt `dispatch_frame`; reset, watchdog | bridge, by frames |
| Wheel control (`wheel_pid.c`, `mecanum_drive.c`) | integrators, filters, stall timers | kinematics, PID, PWM | called from the control pass |
| Frame protocol (`rdk_stm32_uart.c`, `shared/protocol/rdk_stm32_uart.py`) | parser buffer | byte-wise parse, CRC, resynchronise | both ends of the cable |
| STM32 bridge (`RW/stm32_bridge`) | serial port, last command and its age, last encoder counts, pose | poll, heartbeat, SET_MODE on reconnection, odometry | firmware, `/cmd_vel`, `/odom` |
| Teleoperation (`app/backend/teleop.py`, `RW/teleop_safety`) | latest velocity and its age; latest scan, smoothing history | POST/GET latest, deadman, gate by distance | App, backend, `/cmd_vel` |
| Gimbal and laser (`RW/gimbal_laser`, `IM/command_executor.py`) | controller state, target and its age; laser on/off with its own timeout | enable, target, fault, timed laser routine | executors of App and voice commands |
| Uplink (`IM/uplink.py`, `IM/uplink_node.py`) | subscription histories, retry queue | direct POST, enqueue, drain | ROS topics, backend |
| Backend store (`app/backend/store.py`, `server.py`) | events, briefs, records, acceptances, reports, assets, commands | upsert, insert, handle, purge; create, pending, ack, result | robot, App |
| Push and App alerts (`push.py`, `alerts_controller.dart`, `sse_client.dart`) | subscriber queues; list of events, connection state | publish, stream, refresh, poll, handle | backend to App |
| Command receiver (`IM/command_receiver_node.py`, `command_receiver.py`) | the batch in hand, `_mode_thread` | poll, ack, dispatch, report | backend, executor, mode switch |
| Mode switch (`IM/mode_switch.py`, `rdk_x5/scripts/*.sh`) | state file, lock file, processes | set_mode, save_map | scripts |
| Hazard fusion and cognition (`RW/thermal_detector`, `IM/cognition*.py`) | last event time, models | emit event (cooldown), brief | uplink, voice, gimbal, recheck |
| Voice, reports, acceptance, workstation records, recheck | listening state, visits, navigation goals | intents, reports, goals | uplink, Nav2 |
| Drivers, bring-up, simulator, web demo, screens | — | device I/O, launch, presentation | — |

The hard behaviours:

* **Chassis firmware.** Two contexts on one processor: the main loop is
  preempted by the USB interrupt between any two of its steps, and while that
  interrupt runs the millisecond tick, of lower priority, stands still.  Timestamps
  wrap; the clock is read once per loop and compared with timestamps the
  interrupt writes.  *Correct means*: STOP stops, whatever it interrupts; no
  fresh command, no motion; the twist that is driven is one that was sent.
* **Uplink.** One thread, blocking 8 s POSTs, five subscriptions and a timer;
  outages, answers that are lost, requests that are processed late, restarts.
  *Correct means*: an event or brief is in the backend, on its way, or dropped for
  a reason one can name; what the manager handled stays handled; retries deliver.
* **Command channel.** Two threads in the receiver, a backend in between, child
  processes that survive the receiver, a state file that survives a reboot.
  *Correct means*: a command is taken up at most once, in order, and gets a
  receipt; two switches never run side by side; the state file is true.
* **Alert feed.** Pushed messages, polled pages and the answers to the App's own
  requests are applied to one list in any order; broker queues are bounded and
  used from two threads.  *Correct means*: the list agrees with the table, or will
  when what is under way has arrived; where it does not, one can say by which of
  the known gaps the news went past it.
* **Bridge.** One thread with writes that may block, a port that vanishes and comes
  back, a controller that resets into IDLE with its encoders at zero.  *Correct
  means*: motion only on a fresh command, a pose without jumps, the mode restored.
* **Teleoperation.** One value handed on over four hops without an acknowledgement,
  each with a timeout of its own; requests that overtake each other.  *Correct
  means*: releasing the stick stops the robot within the sum of the timeouts.
* **Gimbal and laser.** Three processes switch the same two devices by messages and
  timers of their own, and none knows of the others.  *Correct means*: the light
  does not outlive its cause; the motors are not driven on old commands; a
  routine works from any state.

## 2. Modules

| Module | What it is |
| --- | --- |
| `ChassisFirmware` | `FW/Src/main.c` with the USB interrupt, the tick and the watchdog |
| `MCChassisFirmware` | its instance for TLC: two wheels, scaled times, a view of the state |
| `ChassisFirmwareProofs` | its theorems |
| `Uplink` | uplink node, subscriptions, HTTP, event rows, handling and retention |
| `EventLog` | what the events table promises; `Uplink` implements it |
| `CommandChannel` | commands table, receiver, worker thread, mode switch |
| `MCCommandChannel` | its instance for TLC: four commands of three kinds |
| `CommandLifecycle` | what the App may rely on of a command; `CommandChannel` implements it |
| `AlertFeed` | ingest handlers, broker, SSE stream, the App's list of alerts |
| `Bridge` | `stm32_bridge_node` between `/cmd_vel` and the firmware |
| `Teleop` | stick, backend, `teleop_receiver`, `lidar_safety` |
| `GimbalLaser` | executors, `gimbal_aim_node`, `laser_node`, gimbal controller |
| `MCGimbalLaser` | its instance for TLC: two executors that no property tells apart |
| `UplinkProofs`, `CommandChannelProofs`, `AlertFeedProofs`, `BridgeProofs`, `TeleopProofs`, `GimbalLaserProofs` | the theorems about each |

The modules meet at their edges: `Teleop` ends in the `/cmd_vel` that `Bridge` begins
with, and `Bridge` has of the firmware what it meets of `ChassisFirmware`; the row that
`Uplink` writes is the row `AlertFeed` publishes; a command of `CommandChannel` may be
the indication of `GimbalLaser`.

Definitions whose comment begins "Fault variant of" belong to no specification.
Each is a plausible bug of the definition that follows it, and shows that a
property notices it.

### ChassisFirmware

`pc` is the next step of `app_tick`: `update` (`app_update_comm_state`), `zero`
and `off` (`app_chassis_stop`, a setpoint at a time, then the motors), `gate`,
`wheel`, `write` (`app_control_step`: a wheel's output is decided in one step and
written in the next), `telemetry`, `send_*`, `report`.  Between any two steps the USB
interrupt may handle a frame; a frame is one action because nothing preempts it.
Each ends in `SendAck`: with the endpoint busy the interrupt enters `spin`, which
only `WatchdogReset` or a power cycle ends.  `Tick` is the millisecond; it cannot
happen while the interrupt runs.  The loop's own work takes at most `CpuBudget`
ticks, a wait for the endpoint what its code allows.

The setpoints are the set of wheels above `APP_SETPOINT_DEADBAND`, and a motor is
driven or not: what PID, filter and stall guard compute is a nondeterministic
choice (`Outputs`).  `app_estop` is never written, so its branches are left out.
`cmdAge`, `heartbeatAge` and `sweep` are history.

### Uplink

`inbox` are the subscriptions' histories, `job` and `pending` the callback that is
running and the entries it has to POST, `queue` the `RetryQueue`.  A POST is answered,
processed without an answer, timed out and processed later (`LateRequest`), or
fails for lack of a network.  `due` is rclpy's order: every callback that was ready
when the executor last waited runs before it waits again, timers first.  The
kinds that are not persistent (record, report, acceptance) are one kind; images,
uploaded best-effort before their item, are left out.  The time between two events
is at least `evidence_cooldown`, far longer than an idle executor needs to pick
one up; `Burst` is how many of them fit into one POST.  `inflight` and `unanswered` count,
for each item, the requests the backend is yet to process and the POSTs without an
answer; `MaxUnanswered` bounds their number for TLC and is a constant of the theorems.
`Requeue` counts the attempts of the kinds that are given up only: the code counts
all of them and never asks for those of a persistent one.

### CommandChannel

`order` and `status` are the commands table.  `step`, `batch` and `verdict` are the
timer callback, `worker`, `work`, `workVerdict` and `modeThread` the thread that
runs a switch or a save.  `_handle` tests `_mode_thread` and then calls its
`is_alive()`: the two looks are two steps, and the worker may clear the variable
in between, which ends the node (`Dies`).  A script is its effect on what runs on
the robot (`stack`): the voice stack, all of it or `partial`, the mapping stack, or
neither (`down`).  The start script takes down what it could not bring up; the exit
script always removes the mapping stack, and its code 2 means that part of the voice
stack did not come back.  `set_mode` writes "normal" in that case too and says "可重试"
(try again), but a second request for "normal" is then a noop (`mode_switch.py:90`):
only going to mapping and back starts those components again.  A script that cannot
be run at all is code 127 and changes nothing (`ScriptNotRun`).  A killed node's
scripts go on (`orphans`); nothing on the robot starts the node again, somebody does
(`Start`).  `stolen` is a switch that has taken the expired lock of one whose script
is still running; `strayed` is a stack that no script has made since the last switch
began: a reboot in a mode other than "normal", or a script that could not be run.
The mode the receiver reports to the backend after each poll is a copy
of the state file and is left out.

### EventLog and CommandLifecycle

The promises, without queues, batches, threads or crashes.  `EventLog`: an event
appears once, goes from open to handled to deleted, and comes back from deleted only
by an upload whose answer the robot did not see, once for each.  `Uplink` maps `row`
from its event table and its count of writes, and `doubted` from the POSTs without an
answer.  `CommandLifecycle`: none, queued, sent, then one receipt; taken up once, after
it was sent and before its receipt.  `CommandChannel` keeps `status` as it is, and
`taken` is what it has dispatched.

### AlertFeed

`row` is the events table.  An ingest handler runs in a worker thread and is two
steps, the commit with the read (`Ingest`) and the push of what it read (`Publish`);
the loop of `publish` may also meet a changed set of subscribers and raise
(`PublishRaises`), which the robot answers by repeating the upload.  `handle_event` is a
coroutine without an await and is one step; its own publish raises when a worker
thread, in one of its own, drops a full subscriber meanwhile (`HandleRaises`): the event
is handled, nobody is told, and the answer is an error.  `stream` and `queue` are this App's
subscription: dropped from the broker when full, still open; or dead, cut without a
sign, which nothing in `sse_client.dart` would notice.  Refresh, poll and handle are
each a request, answered from the table at one moment and applied at a later one, or
failing: a refresh shows the error, a poll tries again in silence (`PollFails`).
`Ahead` is the list as it will be once the messages in the queue are applied.
`stale` is history: the events about which something went past the App (published
with no queue or a full one, lost with a stream, overwritten by an older answer,
outside a page) since the list last agreed with the table.

### Bridge

A callback is one action; a write with `ticks` > 0 blocks the thread that long, as
pyserial's writes have no timeout.  A tick is the telemetry's period.  `toFw` and
`fromFw` are the frames under way; any of them may be lost.  `FwReset` closes the
device, zeroes the encoder and leaves the mode in IDLE; `Enumerate` brings it back.
One wheel stands for the four, with a counter of `CountMod` values.  The history
`turned`, `owed` tells how far the wheel really turned between two samples, as long as
that is less than half the modulus, which is all a wrapped difference can tell.

### Teleop

A velocity is ahead, back or none.  `posts` is the set of velocities in requests
under way: they arrive in any order, or not.  `lidar_safety`'s timer is the clock;
between two ticks every other process may do anything its own period allows.
`HoldUp` is a receiver whose thread posts a status, or that is restarted.  `near` is
what the latest scan shows, the direction of travel being the only one that counts.

### GimbalLaser

An indication is `indicating`, `left` (the stop timer) and `due` (the sustain timer) of
an executor.  `Block` is a thread that waits for an HTTP answer.  The command receiver
has its timers on such a thread; the voice node has too, with `vlm_fallback_enabled`,
which is its default (`IM/asr_node.py:31`) and which the shipped `asr.yaml` turns off.
Messages of one publisher keep their order and arrive within the tick; those of
different publishers are interleaved; those for a dead node reach nobody.  The
controller is its state machine without angles: `Step` is a pass of its loop, with or
without a sensor error.

`laser_node` and the controller have a death and a start each, apart from each other:
`mapping_mode_on.sh:11` kills both with `kill -9`, `mapping_mode_off.sh:18` starts
them again, and the whole mapping session lies between.  A death leaves the pin, or
the motors, as they are (killed) or puts them off (`finally`).  `Restart` is a process
with an executor, `AimRestart` the aim node: both forget what they switched on.

## 3. Runs

| Run | Question | Result |
| --- | --- | --- |
| `chassis` | do STOP, the dead-man chain and heartbeat loss hold under every interleaving? | holds |
| `chassis_isr_spin` | does the watchdog never fire without a hang? | violated |
| `chassis_spurious_timeout` | is a timeout only declared when one has passed? | violated |
| `chassis_torn_twist` | does a pass drive one twist? | violated |
| `uplink` | is every event accounted for, delivered, written no more than it must? is the table an event log? | holds |
| `uplink_zero_loss` | does an outage lose no event? | violated |
| `commands` | at most once, in order, with receipts; one script, true state file; the life cycle? | holds |
| `commands_switching` | does "switching" end? | violated |
| `alert_feed` | does the App's list show the table? | holds |
| `bridge` | motion only on fresh commands, a true pose, the mode restored? | holds |
| `teleop` | does the robot stop when the stick is released, and at an obstacle? | holds |
| `gimbal_laser` | who may leave the light or the motors on, or off? | holds |

**chassis** checks, besides types:

* `IdleDrivesAtMostOne`: in IDLE there are no setpoints, and at most the wheel
  whose write STOP interrupted is still driven.  One may be: the code can switch
  that wheel on again after the stop.
* `IdlePassStopsAll`: the next whole control pass switches it off.
* `Deadman`: a driven wheel means a CMD_VEL accepted within the command timeout
  plus the main loop's reaction plus the time the interrupt has been hanging.
* `HeartbeatLossPulse`: with the heartbeat lost, motion is at most the pulse of a
  CMD_VEL accepted between `app_update_comm_state` and `app_control_step`.

**uplink**: `Accounted`, `WrittenOncePerAnswer` and, under fairness, `Delivered`;
`ImplementsEventLog` is the refinement, and with it that a handled event is never
open again until the retention has deleted it.  `lost` names the three
ways an item goes: pushed out of a full subscription, evicted from a full queue,
forgotten by a restart.

**commands**: `AtMostOnce`, `InOrder`, `NeverForgotten` (a command in "sent" is being
worked on), `OneScript`, `ModeFileTrue` and, under fairness, `Resolved`.  `excused`
are the commands that may keep "sent": the answer to their ack or receipt was
lost, or the node went down with them in hand.  The code has no way back for them.
`OneScript`: two scripts run side by side only if one was left behind by a node that
went down, and even then the lock keeps two switches apart until it has expired; that
an expired lock is taken from a running switch is what `stolen` records.
`ModeFileTrue`: the state file tells the truth about the stack, "normal" meaning no
more than that the mapping stack is gone and the voice stack was started.  It is not
true between a reboot in another mode, or a script that could not be run, and the next
switch (`strayed`), nor after a lock was `stolen`.
`ImplementsLifecycle` is the refinement.

**alert_feed**

* `ListTrue`: what the list shows of an event is its row, or will be when what is under
  way is applied, unless the event is in `stale`.  That the exception is needed is what
  the run shows of the code: there is no resynchronisation, so an event that went
  past a full queue, a dead stream or a reconnection stays wrong in the list until
  the next refresh or message about it.
* `NewsArrives` (liveness): again and again the list is the table, but for those.
* `PollingCatchesUp` (liveness): while there is no stream, an open event newer than all
  listed ones does not stay out.  Older ones do: `since` is the newest one known.

**bridge**

* `MotionFresh`: the wheels are driven only within `cmd_vel_timeout_s` plus
  `APP_CMD_TIMEOUT_MS` of a `/cmd_vel` that moves.  Time in which a write blocked the
  thread is not counted: a message that waited is stamped when its callback runs.
* `PoseTrue`: no sample is integrated as anything but what the wheel turned since the
  sample before it.
* `ModeRestored` (liveness): the chassis does not stay in IDLE.

**teleop**

* `StopsAfterRelease`: the gate's output is zero `RunOn` ticks after the stick was
  released and the last velocity was off the network; `RunOn` is the staleness, the
  HTTP timeout, the gate's timeout, half the window and a pass.
* `ObstacleStops`: an obstacle seen in more than half of the window stops the motion
  towards it, whatever the stick did meanwhile.

**gimbal_laser**

* `LightHasCause`: the light is on while somebody points or the message that ends it is
  under way.  The exceptions: `laser_node` is dead (killed with -9, it leaves the pin as
  it is: a laser that is on when the mapping mode begins stays on for the whole
  session), or, in `excused`, a process that was restarted during its pointing (its
  timers are gone, and nothing else switches the laser off) or a failed write
  (remembered as done).  A start of `laser_node` ends them all.
* `LightOn`: while somebody points the light is on, unless the pin could not be written,
  `laser_node` died since it was last written or another publisher ended its own
  pointing.
* `MotorsExpire`: a controller that runs drives no motor on a command older than the
  timeout and a pass.  A killed one leaves the motors driven until it is started
  again, with nothing there to time out.
* `PointingIsArmed`: during an indication the controller is enabled, from whatever state
  it began, unless the executor's thread was held up, a sensor failed, an operator
  stopped the gimbal or its node died.  The routine's first message, a
  disable, is there for the FAULT that the routine before it ends in: the gimbal
  stays enabled and hears no more.

### What the violations show

1. `chassis_isr_spin`.  A frame that arrives while a telemetry packet is in the
   endpoint is acknowledged from the interrupt; the retry loop of
   `send_protocol_frame` waits for `TxState`, which this interrupt clears, and for
   `HAL_GetTick`, which it holds back.  The watchdog resets the controller.  The
   comment at `FW/Src/main.c:320` rules that out.
2. `chassis_spurious_timeout`.  `app_tick` reads the clock before the interrupt
   stamps a later millisecond; the unsigned difference is huge and the chassis
   stops on a fresh frame (`main.c:690`).  The next loop corrects it.
3. `chassis_torn_twist`.  A CMD_VEL in the middle of the zeroing loop is partly
   zeroed and then driven (`main.c:1014`).
4. `uplink_zero_loss`.  After an outage the drain blocks the node's only thread and
   a subscription of depth ten overflows (`IM/uplink_node.py:51`), against
   "zero loss" in `README.md:36`.
5. `commands_switching`.  A receiver killed during a switch leaves "switching" in the
   state file; the App disables its switch in that state
   (`app/mobile/lib/screens/mapping_screen.dart:222`), so nothing but another
   client of the API ends it.

### Bounds

* *Chassis.*  Two wheels are enough for a mixture and for an interrupted loop;
  twists drive both or none, as any mixture is then visible.  Times are scaled so
  that the order of the code's times is kept (control period < command timeout <
  heartbeat timeout, budgets below all of them) and each spans several loops;
  `TickMod` is larger than the longest time the code measures, and small, so that
  the counter wraps in almost every behaviour.  `Relative` is the view: a step
  depends on the clock only by differences, and a local only between its write and
  its last read, so states with the same view have the same futures up to that
  view, and the invariants, but for the types of what it folds, are functions of it.
  The violation runs use no view.
* *Uplink.*  Two events, one with a brief, and a record; `MaxLen`, `Depth` and
  `MaxAttempts` are 2, 1 and 2, so every limit is reached; one outage, two
  unanswered POSTs, of one item or of two, one restart.  Two of a kind are what
  overtaking, eviction and duplication need.  The zero-loss run has five events and no faults but an
  outage.
* *Commands.*  A switch there, a switch back, a save and a plain command in every
  order, batches of two, one bad POST, one crash or reboot.
* *Alert feed.*  Two events and three uploads: an older and a newer one, one of them
  again, as a brief or a repetition.  A queue of two is full with the messages of one
  of them; a page of one cuts off the other.  Handlings are not bounded.
* *Bridge.*  All timeouts are one or two ticks, which keeps their order; a counter of
  four values wraps every few ticks, and two samples that are lost are at the edge of
  what a difference can tell.  Two incidents are a fault while another is being
  recovered from.
* *Teleop.*  Staleness, HTTP timeout and gate timeout of one tick and a window of three,
  where a majority and a minority differ; the bound `RunOn` is their sum, so a stage
  that exceeds its part by one tick is seen.
* *Gimbal and laser.*  Both executors and the aim node, an indication of two ticks with
  a command timeout of one.  Both executors wait, a tick at a time: a wait that begins
  with the sustain timer due outlasts the command timeout, and waits may follow one
  another.  Deaths and starts are not bounded.  The executors are symmetric.

`CHECK_DEADLOCK FALSE` is said where the system may rest: everything published is
delivered, everything commanded has its receipt.  All other runs check for deadlock.

### Fairness

* *Uplink.*  `NetUp`: an outage ends.  `Post`: a POST ends by its 8 s timeout.
  `StartDrain` and `Take(k)` are strongly fair: each is disabled while another
  callback runs, but rclpy runs every callback that was ready at a wait before it
  waits again, so one that is ready again and again does run.
* *Commands.*  The receiver's timer callback and the worker each go on (two threads,
  POSTs with timeouts), and scripts end (their loops are bounded).  `FairSpec` says
  nothing of `Start`; `RestartedSpec`, of the run `commands_switching` only, adds
  that a node that went down is started again, which makes that
  counterexample stronger.
* *Alert feed.*  A worker thread ends, and the robot repeats what was refused (an event
  has no last attempt); the stream hands on what is queued; the poll timer goes on and
  its requests end by the HTTP timeout.  `ApplyPoll` is strongly fair: of the polls that
  are tried every seven seconds, one is answered; without a network for ever nothing
  could arrive.  Nothing is assumed of reconnection, refresh or the manager.
* *Bridge.*  The callbacks of a thread that no write blocks run, frames arrive when they
  are not lost (losses are bounded), a device that was reset enumerates, and time
  passes.
* The properties of the firmware, of teleoperation and of the gimbal are safety: time
  bounds are counted in ticks, not left to fairness.

## 4. Proofs

Every safety property of the passing runs, and both refinements, are theorems: they
hold for every value of the constants that `ConstantsOK` of the module allows, and
nothing else is assumed.  `ConstantsOK` says of sizes and times that they are natural
numbers, positive where the code relies on it, and of sets what their names promise;
TLC evaluates it in every run.

| Module | Theorem | States |
| --- | --- | --- |
| `ChassisFirmwareProofs` | `TypeCorrect` | `[]TypeOK` |
| | `IdleSafety`, `IdleSweepSafety` | `[]IdleDrivesAtMostOne`, `[]IdlePassStopsAll` |
| | `DeadmanHolds`, `HeartbeatLossStops` | `[]Deadman`, `[]HeartbeatLossPulse` |
| `UplinkProofs` | `TypeCorrect`, `NothingGivenUp`, `OneWritePerAnswer` | `[]TypeOK`, `[]Accounted`, `[]WrittenOncePerAnswer` |
| | `TableImplementsEventLog` | the refinement of `EventLog` |
| `CommandChannelProofs` | `TypeCorrect`, `TakenUpAtMostOnce`, `TakenUpInOrder`, `SentIsNotForgotten` | `[]TypeOK`, `[]AtMostOnce`, `[]InOrder`, `[]NeverForgotten` |
| | `OneScriptAtATime`, `ModeFileAgrees` | `[]OneScript`, `[]ModeFileTrue` |
| | `ChannelImplementsLifecycle` | the refinement of `CommandLifecycle` |
| `AlertFeedProofs` | `TypeCorrect`, `ListShowsTable` | `[]TypeOK`, `[]ListTrue` |
| `BridgeProofs` | `TypeCorrect`, `MotionIsFresh`, `PoseIsTrue` | `[]TypeOK`, `[]MotionFresh`, `[]PoseTrue` |
| `TeleopProofs` | `TypeCorrect`, `RobotStops`, `ObstacleIsRespected` | `[]TypeOK`, `[]StopsAfterRelease`, `[]ObstacleStops` |
| `GimbalLaserProofs` | `TypeCorrect`, `LightIsCaused`, `PointingIsLit` | `[]TypeOK`, `[]LightHasCause`, `[]LightOn` |
| | `MotorsNeedCommands`, `RoutineArmsGimbal` | `[]MotorsExpire`, `[]PointingIsArmed` |

Each module is laid out alike: the strengthened invariant in named parts, lemmas about the
operators, one lemma or step per action and part, and the theorems, whose last step
is temporal.  Hardly any of the properties is inductive as it stands; what is added to
each is the reason why it holds.

**Chassis, the stop** (`IInv`).  That at most one wheel is driven in IDLE depends on what
the interrupted pass still holds.  `LoopInv`: the wheel index is 0 outside the wheel
loops, so that a pass begins with the first wheel.  `StaleInv`: a decided output that
is "on" and not yet written in IDLE means that no wheel is driven now, so its write
makes one.  `SweepInv`: a pass begun in IDLE is inactive, writes nothing but "off", and
every wheel still driven is at or after its index; after such a pass nothing is
driven and no pending write can change that.

**Chassis, the time bounds** (`TimeInv`).  All times are unsigned differences of wrapped
counters.  Three lemmas carry the arithmetic: a difference read back after
less than a wrap is the true one (`ElapsedValue`), it grows by one with a tick
(`ElapsedTick`), and differences along the clock add up (`ElapsedBetween`).  `AgeInv`
ties the history's ages to the timestamps, as long as they are below the wrap;
`LoopTimeInv` says how old the clock reading of the running loop is and how long a
wait has lasted.  `ChainInv` is the argument proper: as long as something drives a
wheel, or can in this pass, the last CMD_VEL is no older than the timeout plus `Since`,
the time since the reading on which the last verdict rests, plus the time the
interrupt has been hanging.  `RearmInv` is the case of a CMD_VEL that lands in the
zeroing loop: what it re-armed is young.  An age is counted up to the wrap; where the
timeouts themselves exceed it the bounds say nothing, which for the code's 49.7 days
and fractions of a second is not the case.

**Uplink** (`UplinkInv`).  `PlaceInv`: an item is in one place on the robot, and once in it, so
a POST that succeeds leaves no second copy behind.  `JobInv`: a drain puts back no more
than it took, so that only a new entry evicts.  `BudgetInv`: the writes an item has
seen, those its late requests may still bring and that of its copy on the robot are at
most one more than its POSTs without an answer; of this `WrittenOncePerAnswer` is what
remains in the end, and it is also why a repeated upload of `EventLog` always meets a
doubt.  `SourceInv` and `RowInv`: only what was published is about, and only what was
written has a row.

**Commands** (`ChannelInv`, `RobotInv`).  `TableInv` and `BatchInv`: a command is once in
the table and once in the batch, and what is still to be acked is queued.
`CallbackInv` and `ThreadInv` say what each of the two threads may be in the middle
of, and that it is not the same command.  `TakenInv`: what was taken up had been sent,
and what was sent was taken up or is accounted for.  `QueueInv`: everything older than
a command of the batch is before it in the batch, was taken up, or is accounted for.  `SELECT ... ORDER BY ... LIMIT` needs an argument of its own: the queued
commands have ranks without gaps (`Ranks`), so the first `pending_limit` of them are a
sequence that can be written down.  `RobotInv`: `ScriptInv`, a script that nobody left behind is the worker's;
`LockInv`, a switch that runs holds the lock as long as nobody has taken it; and
`SwitchInv`, until the state file is written it says "switching" while the stack is
what the file will say.  A switch left behind keeps its lock until that expires, so it
is the lock, not the worker, that keeps the next one away.

**Alert feed** (`FeedInv`).  `AppendIsShown` and `HeadIsShown` are the two equations of a fold:
a message published acts on what the others will have made of the list, and a
message delivered leaves the outcome as it was.  `TableInv`, which says that nothing under way
is ahead of the table, makes two cases safe that look otherwise: the answer to one's own
handle, and a refresh that puts an event into the list for which a "handled" is
queued that would have been passed over (`Overwritten`).

**Bridge** (`MotionInv`, `OdomInv`).  `MotionInv` follows a motion through the topic's queue,
`_target`, the cable and the firmware, with the age each stage vouches for.  `OdomInv`: the
telemetry is a chain of links, from the base through every frame under way to the
encoder, and each link is a displacement of less than half the counter's range that
the counts at its ends differ by.  Losing a frame joins two links (`LinksJoin`),
turning makes the last one longer (`LinkGrows`), and `WrappedDeltaExact` says that
`wrapped_delta_u16` gives back the displacement of a link.

**Teleop** (`StagesInv`).  One conjunct per stage: what it still holds is no older than the sum
of the timeouts up to it.  For the window the lemmas are about the median: it exists,
and a median that moves is among the values of the younger half, and one
(`MedianIsRecent`), so half a window is all it adds.  `SeenInv` counts the passes that saw
the obstacle, which put nothing towards it into the window.

**Gimbal and laser** (`LaserInv`, `GimbalInv`).  `QueueInv`: what is under way in a topic ends with what
its publisher last asked for.  `LatchInv`: the pin differs from what `laser_node`
remembers only after a failed write or a death.  `EnableInv`: a routine's disable and enable
travel together, and between them there is no fault and no tick; `SustainInv`: a
routine that is not held up keeps its targets coming before the controller's timeout.

Each of these invariants also holds on the TLC instance of its module's run.

**Only model-checked**: what holds under fairness (`Delivered`, `Resolved`, `NewsArrives`,
`PollingCatchesUp`, `ModeRestored`); TLAPS does not handle fairness and ENABLED.  That
`Applied` of `AlertFeed`, which is written out, is the fold of `Shown` over the queue is
proved by its two equations only, as an induction over sequences is out of the
provers' reach.  No module declares a RECURSIVE operator.

## 5. Not modelled

* *Chassis.*  Wheel control is floating point and enters as a choice.  Frames arrive
  whole or as a CRC error: the byte-wise parsers, and the test-and-set of the transmit
  buffer between the main loop and the interrupt, are left out.
* *Bridge.*  Heartbeats (the same timer sends them, and the firmware waits for them four
  times as long), kinematics, joint states, decoding errors.
* *Teleop.*  Rotation, which is neither gated nor smoothed; the slow zone, which scales
  but does not stop; the safety status on its way back to the App, which only shows
  it; cross-axis motion, as the two axes are filtered separately.
* *Gimbal and laser.*  Angles and duty control, and with them the home service, which
  only sets angles.  That a FAULT is cleared by the next disable, where
  `docs/architecture/gimbal_control_flow.md` speaks of a manual reset, is in the model.
* *Alert feed.*  The local overrides and the filter, which select from the list;
  retention, thirty days; overlapping polls; `init()` once more after the address of the
  server was changed.
* *Backend.*  Handlers run in worker threads on one SQLite connection; a handler is one
  step but for the ingest handlers of `AlertFeed`.  The ids of commands, made from a
  COUNT, are taken to be distinct.
* Voice, reports, acceptance, recheck and the drivers are mostly text, audio, models and
  device I/O.  The earlier `motion_controller.c` is called by nothing.  Most lines of
  the repository are the vendor's HAL and CMSIS, which are not this project's code.

## 6. Plan

1. Done: `ChassisFirmware` with its first theorems, `Uplink`, `CommandChannel`,
   `AlertFeed`, `Bridge`, `Teleop`, `GimbalLaser`, and the abstract specifications
   `EventLog` and `CommandLifecycle`.
2. Done: a theorem for every safety property the passing runs check and for the two
   refinements.
3. `FrameParser`: both parsers against a reference definition over bounded byte strings.
   The integer parts of wheel control (encoder wrap, stall guard, PWM range).
