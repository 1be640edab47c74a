------------------------------ MODULE GimbalLaser ------------------------------
(***************************************************************************)
(* Pointing at something with the laser: the CommandExecutor of the        *)
(* command receiver and that of the voice node, the gimbal_aim_node that   *)
(* follows a detected hazard, and what they share without knowing of each  *)
(* other, the gimbal's controller node and the laser_node.                 *)
(*                                                                         *)
(* An indication is a timed routine of an executor: clear the gimbal's     *)
(* fault, enable it, switch the laser on, repeat the target so that the    *)
(* gimbal does not time out, switch the laser off at the end.  The timers  *)
(* live in the process that started it, on the thread that also waits for  *)
(* HTTP answers.                                                           *)
(*                                                                         *)
(* A tick is the period of the sustain timer.  Angles are left out, so a   *)
(* target is only the fact that one was sent.  Messages of one publisher   *)
(* arrive in order and within the tick, and reach nobody while the node    *)
(* that listens to them is dead.                                           *)
(*                                                                         *)
(* mapping_mode_on.sh kills laser_node and the gimbal's controller with    *)
(* SIGKILL and mapping_mode_off.sh starts them again, so each has a death, *)
(* after which what it drove may stay driven, and a start of its own.      *)
(***************************************************************************)
EXTENDS Naturals, Sequences, SequencesExt

CONSTANTS
    Executors,       \* the processes with a CommandExecutor of their own
    Waiting,         \* those whose thread also waits for answers
    Aim,             \* gimbal_aim_node
    LaserTicks,      \* laser_indicate_sec
    CommandTimeout,  \* command_timeout_sec
    BlockMax         \* bound: ticks an executor's thread waits for an answer

Publishers == Executors \cup {Aim}

ASSUME ConstantsOK ==
    /\ Aim \notin Executors /\ Waiting \subseteq Executors
    /\ {LaserTicks, CommandTimeout} \subseteq Nat \ {0}
    /\ BlockMax \in Nat

VARIABLES
    \* executors
    indicating,  \* both timers are set
    left,        \* ticks to the stop timer
    due,         \* the sustain timer is due
    blocked,     \* ticks the thread still waits
    \* gimbal_aim_node
    aiming,      \* enabled
    aimLaser,    \* _laser_on
    \* topics
    laserMsgs, enableMsgs,
    targeted,    \* targets are under way
    \* laser_node
    laserUp,     \* the process is there
    on,          \* _on
    light,       \* the pin
    \* gimbal_controller
    controllerUp, \* the process is there
    state, enabled,
    motors,      \* the PWM channels and the enable lines
    age,         \* since last_command_sec
    stepped,     \* step() has run in this tick
    \* history
    excused,     \* publishers that cannot have switched the light off: restarted
                 \* meanwhile, or the write failed
    failed,      \* the last write to the pin failed, or laser_node died since
    cutBy,       \* the last message switched off the light of another publisher
    heldUp,      \* executors whose thread waited during the indication
    upset        \* a sensor fault, an operator's stop or the controller's death
                 \* since the last disable

executors == <<indicating, left, due, blocked>>
aim == <<aiming, aimLaser>>
topics == <<laserMsgs, enableMsgs, targeted>>
laser == <<laserUp, on, light>>
gimbal == <<controllerUp, state, enabled, motors, age, stepped>>
laserHistory == <<excused, failed, cutBy>>
vars == <<executors, aim, topics, laser, gimbal, laserHistory, heldUp, upset>>

TypeOK ==
    /\ indicating \in [Executors -> BOOLEAN]
    /\ left \in [Executors -> 0 .. LaserTicks]
    /\ due \in [Executors -> BOOLEAN]
    /\ blocked \in [Executors -> 0 .. BlockMax]
    /\ {aiming, aimLaser, targeted, laserUp, on, light} \subseteq BOOLEAN
    /\ {controllerUp, enabled, motors, stepped} \subseteq BOOLEAN
    /\ aimLaser => aiming
    /\ laserMsgs \in [Publishers -> Seq(BOOLEAN)]
    /\ enableMsgs \in [Executors -> Seq(BOOLEAN)]
    /\ state \in {"BOOT", "IDLE", "ENABLED_CLOSED_LOOP", "FAULT"}
    /\ age \in 0 .. CommandTimeout + 1
    /\ {failed, cutBy, upset} \subseteq BOOLEAN /\ excused \subseteq Publishers
    /\ heldUp \subseteq Executors

Init ==
    /\ indicating = [x \in Executors |-> FALSE]
    /\ left = [x \in Executors |-> 0]
    /\ due = [x \in Executors |-> FALSE]
    /\ blocked = [x \in Executors |-> 0]
    /\ aiming = FALSE /\ aimLaser = FALSE
    /\ laserMsgs = [p \in Publishers |-> <<>>]
    /\ enableMsgs = [x \in Executors |-> <<>>]
    /\ targeted = FALSE
    /\ laserUp = TRUE /\ on = FALSE /\ light = FALSE
    /\ controllerUp = TRUE
    /\ state = "BOOT" /\ enabled = FALSE /\ motors = FALSE
    /\ age = CommandTimeout + 1 /\ stepped = FALSE
    /\ excused = {} /\ failed = FALSE /\ cutBy = FALSE
    /\ heldUp = {} /\ upset = FALSE

-----------------------------------------------------------------------------
(***************************************************************************)
(* Executors.                                                              *)
(***************************************************************************)
\* Nobody hears what is published for a dead laser_node.
Switch(p, value) ==
    laserMsgs' = IF laserUp THEN [laserMsgs EXCEPT ![p] = Append(@, value)]
                            ELSE laserMsgs

\* Fault variant of EnableSequence: the fault is not cleared first.
EnableOnly == <<TRUE>>

\* A disable clears a latched FAULT; then enable.
EnableSequence == <<FALSE, TRUE>>

\* _start_laser, again if one is running: the timers are replaced.  Commands
\* come no faster than messages arrive.
StartLaser(x) ==
    /\ blocked[x] = 0 /\ laserMsgs[x] = <<>> /\ enableMsgs[x] = <<>>
    /\ enableMsgs' = IF controllerUp
                     THEN [enableMsgs EXCEPT ![x] = EnableSequence]
                     ELSE enableMsgs
    /\ Switch(x, TRUE)
    /\ indicating' = [indicating EXCEPT ![x] = TRUE]
    /\ left' = [left EXCEPT ![x] = LaserTicks]
    /\ due' = [due EXCEPT ![x] = FALSE]
    /\ heldUp' = heldUp \ {x}
    /\ UNCHANGED <<blocked, aim, targeted, laser, gimbal, laserHistory, upset>>

\* _aim_tick.
AimTick(x) ==
    /\ blocked[x] = 0 /\ due[x]
    /\ due' = [due EXCEPT ![x] = FALSE]
    /\ targeted' = controllerUp
    /\ UNCHANGED <<indicating, left, blocked, aim, laserMsgs, enableMsgs, laser,
                   gimbal, laserHistory, heldUp, upset>>

\* Fault variant of StopSwitches: the timers go, the laser is forgotten.
StopSwitchesNothing(x) == UNCHANGED laserMsgs

StopSwitches(x) == Switch(x, FALSE)

\* _stop_laser.  The gimbal stays enabled.
StopLaser(x) ==
    /\ blocked[x] = 0 /\ indicating[x] /\ left[x] = 0
    /\ indicating' = [indicating EXCEPT ![x] = FALSE]
    /\ due' = [due EXCEPT ![x] = FALSE]
    /\ StopSwitches(x)
    /\ heldUp' = heldUp \ {x}
    /\ UNCHANGED <<left, blocked, aim, enableMsgs, targeted, laser, gimbal,
                   laserHistory, upset>>

\* A callback of x waits for the backend: its timers wait too.
Block(x, ticks) ==
    /\ x \in Waiting /\ blocked[x] = 0
    /\ blocked' = [blocked EXCEPT ![x] = ticks]
    /\ heldUp' = IF indicating[x] THEN heldUp \cup {x} ELSE heldUp
    /\ UNCHANGED <<indicating, left, due, aim, topics, laser, gimbal,
                   laserHistory, upset>>

\* The process ends, by itself or killed for the mapping mode, and is started
\* again: no timer is left to switch the laser off, and nothing else does.
Restart(x) ==
    /\ indicating[x]
    /\ indicating' = [indicating EXCEPT ![x] = FALSE]
    /\ left' = [left EXCEPT ![x] = 0]
    /\ due' = [due EXCEPT ![x] = FALSE]
    /\ blocked' = [blocked EXCEPT ![x] = 0]
    /\ excused' = excused \cup {x}
    /\ heldUp' = heldUp \ {x}
    /\ UNCHANGED <<aim, topics, laser, gimbal, failed, cutBy, upset>>

-----------------------------------------------------------------------------
(***************************************************************************)
(* gimbal_aim_node.                                                        *)
(***************************************************************************)
\* _set_laser: only on change of what it asked for itself.
SetLaser(value) ==
    /\ aimLaser' = value
    /\ IF value = aimLaser THEN UNCHANGED laserMsgs ELSE Switch(Aim, value)

\* Fault variant of AimDisabled: the laser is left as it is.
AimDisabledOnly == UNCHANGED <<laserMsgs, aimLaser>>

AimDisabled == SetLaser(FALSE)

\* /gimbal/aim_enable.
AimEnable(value) ==
    /\ aiming # value /\ laserMsgs[Aim] = <<>>
    /\ aiming' = value
    /\ IF value THEN UNCHANGED <<laserMsgs, aimLaser>> ELSE AimDisabled
    /\ UNCHANGED <<executors, enableMsgs, targeted, laser, gimbal,
                   laserHistory, heldUp, upset>>

\* /hazard/status, with a target in view or not; centred, it sends no angle.
AimStatus(target, centered) ==
    /\ aiming /\ laserMsgs[Aim] = <<>>
    /\ SetLaser(target)
    /\ targeted' = (targeted \/ (controllerUp /\ target /\ ~centered))
    /\ UNCHANGED <<executors, aiming, enableMsgs, laser, gimbal, laserHistory,
                   heldUp, upset>>

\* The process ends and is started again: it has forgotten the laser it
\* switched on, and says nothing.
AimRestart ==
    /\ aiming
    /\ aiming' = FALSE /\ aimLaser' = FALSE
    /\ excused' = IF aimLaser THEN excused \cup {Aim} ELSE excused
    /\ UNCHANGED <<executors, topics, laser, gimbal, failed, cutBy, heldUp, upset>>

-----------------------------------------------------------------------------
(***************************************************************************)
(* laser_node.                                                             *)
(***************************************************************************)
\* Fault variant of Write: nothing tells whether the pin was written.
WriteNot(value, ok) == UNCHANGED light

Write(value, ok) == light' = IF ok THEN value ELSE light

Wants(p) == IF p = Aim THEN aimLaser ELSE indicating[p]

\* _on_enable: written on change only, remembered before it is written.
LaserMessage(p, ok) ==
    /\ laserMsgs[p] # <<>>
    /\ laserMsgs' = [laserMsgs EXCEPT ![p] = Tail(@)]
    /\ LET value == Head(laserMsgs[p])
       IN /\ on' = value
          /\ IF value = on THEN UNCHANGED <<light, failed>> /\ ok
                           ELSE Write(value, ok) /\ failed' = ~ok
          /\ excused' = {q \in excused \cup (IF value \/ ok THEN {} ELSE {p}) :
                          light' \/ laserMsgs'[q] # <<>>}
          /\ cutBy' = IF value THEN FALSE
                      ELSE cutBy \/ \E q \in Publishers \ {p} : Wants(q)
    /\ UNCHANGED <<executors, aim, enableMsgs, targeted, laserUp, gimbal, heldUp, upset>>

\* laser_node ends.  Killed, it leaves the pin as it is; otherwise destroy_node
\* switches the line off, if it can.
LaserDies ==
    /\ laserUp
    /\ laserUp' = FALSE /\ on' = FALSE
    /\ light' \in {light, FALSE}
    /\ laserMsgs' = [p \in Publishers |-> <<>>]
    /\ failed' = TRUE /\ cutBy' = FALSE
    /\ UNCHANGED <<executors, aim, enableMsgs, targeted, gimbal, excused, heldUp, upset>>

\* It is started again: off at boot, whoever points.
LaserStarts ==
    /\ ~laserUp
    /\ laserUp' = TRUE /\ light' = FALSE
    /\ excused' = {}
    /\ UNCHANGED <<executors, aim, topics, on, gimbal, failed, cutBy, heldUp, upset>>

-----------------------------------------------------------------------------
(***************************************************************************)
(* The gimbal's controller.                                                *)
(***************************************************************************)
SafeOutputs == motors' = FALSE

\* stop() with a recoverable reason.
Stop == enabled' = FALSE /\ SafeOutputs /\ state' = "IDLE"

\* Fault variant of SetEnabled: a fault does not keep the motors off.
SetEnabledAnyway(value) ==
    IF ~value THEN Stop
    ELSE enabled' = TRUE /\ motors' = TRUE /\ UNCHANGED state

SetEnabled(value) ==
    IF ~value THEN Stop
    ELSE /\ enabled' = TRUE
         /\ IF state = "FAULT" THEN UNCHANGED <<state, motors>>
            ELSE state' = "ENABLED_CLOSED_LOOP" /\ motors' = TRUE

EnableMessage(x) ==
    /\ enableMsgs[x] # <<>>
    /\ enableMsgs' = [enableMsgs EXCEPT ![x] = Tail(@)]
    /\ SetEnabled(Head(enableMsgs[x]))
    /\ age' = 0
    /\ upset' = (upset /\ Head(enableMsgs[x]))
    /\ UNCHANGED <<executors, aim, laserMsgs, targeted, laser, controllerUp,
                   stepped, laserHistory, heldUp>>

\* Fault variant of SetTarget: a target is no command.
SetTargetOnly == UNCHANGED age

\* set_target, in a FAULT too.
SetTarget == age' = 0

TargetMessage ==
    /\ targeted
    /\ targeted' = FALSE
    /\ SetTarget
    /\ UNCHANGED <<executors, aim, laserMsgs, enableMsgs, laser, controllerUp,
                   state, enabled, motors, stepped, laserHistory, heldUp, upset>>

\* The stop service.
OperatorStop ==
    /\ controllerUp
    /\ Stop
    /\ upset' = TRUE
    /\ UNCHANGED <<executors, aim, topics, laser, controllerUp, age, stepped,
                   laserHistory, heldUp>>

\* The controller's node ends.  Killed, it leaves the motors driven, and no
\* step() is there to time out; otherwise stop("shutdown") puts them off.
ControllerDies ==
    /\ controllerUp
    /\ controllerUp' = FALSE
    /\ motors' \in {motors, FALSE}
    /\ enabled' = FALSE /\ state' = "BOOT"
    /\ age' = CommandTimeout + 1 /\ stepped' = FALSE
    /\ enableMsgs' = [x \in Executors |-> <<>>] /\ targeted' = FALSE
    /\ upset' = TRUE
    /\ UNCHANGED <<executors, aim, laserMsgs, laser, laserHistory, heldUp>>

\* It is started again: the motors are set up, and safe.
ControllerStarts ==
    /\ ~controllerUp
    /\ controllerUp' = TRUE
    /\ SafeOutputs
    /\ UNCHANGED <<executors, aim, topics, laser, state, enabled, age, stepped,
                   laserHistory, heldUp, upset>>

Fault == enabled' = FALSE /\ state' = "FAULT" /\ SafeOutputs

\* Fault variant of TimedOut: no command is ever too old.
NeverTimedOut == FALSE

TimedOut == age > CommandTimeout

\* step(): the sensors are read, or not.
Step(ok) ==
    /\ controllerUp /\ ~stepped /\ stepped' = TRUE
    /\ IF state = "FAULT" THEN SafeOutputs /\ UNCHANGED <<enabled, state>>
       ELSE IF ~ok \/ (enabled /\ TimedOut) THEN Fault
       ELSE IF enabled THEN /\ state' = "ENABLED_CLOSED_LOOP" /\ motors' = TRUE
                            /\ UNCHANGED enabled
       ELSE state' = "IDLE" /\ SafeOutputs /\ UNCHANGED enabled
    /\ upset' = (upset \/ (~ok /\ state # "FAULT"))
    /\ UNCHANGED <<executors, aim, topics, laser, controllerUp, age, laserHistory,
                   heldUp>>

-----------------------------------------------------------------------------
\* A tick passes when everything due in it is done: the messages delivered,
\* the loop at 100 Hz run, the timers of the threads that do not wait.
Tick ==
    /\ \A p \in Publishers : laserMsgs[p] = <<>>
    /\ \A x \in Executors : enableMsgs[x] = <<>>
    /\ ~targeted /\ (controllerUp => stepped)
    /\ \A x \in Executors : blocked[x] = 0 =>
         ~due[x] /\ ~(indicating[x] /\ left[x] = 0)
    /\ left' = [x \in Executors |-> IF left[x] > 0 THEN left[x] - 1 ELSE 0]
    /\ due' = indicating
    /\ blocked' = [x \in Executors |-> IF blocked[x] > 0 THEN blocked[x] - 1 ELSE 0]
    /\ age' = IF age <= CommandTimeout THEN age + 1 ELSE age
    /\ stepped' = FALSE
    /\ UNCHANGED <<indicating, aim, topics, laser, controllerUp, state, enabled,
                   motors, laserHistory, heldUp, upset>>

Next ==
    \/ \E x \in Executors :
         \/ StartLaser(x) \/ AimTick(x) \/ StopLaser(x) \/ Restart(x)
         \/ \E ticks \in 1 .. BlockMax : Block(x, ticks)
         \/ EnableMessage(x)
    \/ \E value \in BOOLEAN : AimEnable(value) \/ Step(value)
    \/ \E target, centered \in BOOLEAN : AimStatus(target, centered)
    \/ \E p \in Publishers, ok \in BOOLEAN : LaserMessage(p, ok)
    \/ AimRestart \/ LaserDies \/ LaserStarts
    \/ TargetMessage \/ OperatorStop \/ ControllerDies \/ ControllerStarts
    \/ Tick

Spec == Init /\ [][Next]_vars

-----------------------------------------------------------------------------
(***************************************************************************)
(* Properties.                                                             *)
(***************************************************************************)
\* The light does not outlive its cause: it is on while somebody points at
\* something or the message that switches it off is under way, unless that
\* process was restarted, the write failed, or laser_node is dead.  Started
\* again, laser_node puts out whatever was left on.
LightHasCause ==
    light => \/ ~laserUp \/ excused # {}
             \/ \E p \in Publishers : Wants(p) \/ Contains(laserMsgs[p], FALSE)

\* Somebody points: the light is on, unless the pin could not be written or
\* another publisher has switched it off at the end of its own pointing.
LightOn ==
    (\E p \in Publishers : Wants(p)) =>
        \/ light \/ failed \/ cutBy
        \/ \E p \in Publishers : laserMsgs[p] # <<>>

\* A controller that is there drives the motors only enabled, not in FAULT, and
\* having heard from somebody within its timeout (and the tick of a loop).  The
\* motors of a dead one stay as they were until it is started again.
MotorsExpire ==
    motors /\ controllerUp =>
        /\ enabled /\ state = "ENABLED_CLOSED_LOOP"
        /\ age <= CommandTimeout + 1 /\ (stepped => age <= CommandTimeout)

\* The routine works from any state, a latched FAULT included, and the gimbal
\* does not time out under it, if the thread it lives on was not held up and
\* no sensor failed.
PointingIsArmed ==
    \A x \in Executors \ heldUp :
        /\ indicating[x] /\ ~upset
        /\ \A y \in Executors : enableMsgs[y] = <<>>
        => state = "ENABLED_CLOSED_LOOP"
=============================================================================
