--------------------------- MODULE GimbalLaserProofs ---------------------------
(***************************************************************************)
(* Proofs about GimbalLaser for any set of executors, whichever of them    *)
(* wait for answers and for however long, and every length of the routine  *)
(* and of the controller's timeout.                                        *)
(*                                                                         *)
(* The laser and the gimbal's controller share nothing but their users:    *)
(* each has an inductive invariant of its own.                             *)
(***************************************************************************)
EXTENDS GimbalLaser, SequenceTheorems, TLAPS

-----------------------------------------------------------------------------
(***************************************************************************)
(* The inductive invariant of the laser.                                   *)
(***************************************************************************)
\* What is under way in a laser topic ends with what its publisher last asked
\* for, unless it was restarted since; to a dead laser_node nothing is.
QueueInv ==
    \A p \in Publishers :
      /\ ~laserUp => laserMsgs[p] = <<>>
      /\ laserMsgs[p] \in {<<>>, <<TRUE>>, <<FALSE>>, <<TRUE, FALSE>>}
      /\ Wants(p) => laserMsgs[p] \in {<<>>, <<TRUE>>}
      /\ laserMsgs[p] = <<TRUE>> => Wants(p) \/ p \in excused

\* The pin differs from what laser_node remembers only after a failed write,
\* or when there is no process to remember it.
LatchInv ==
    /\ on # light => failed
    /\ light /\ ~on => excused # {} \/ ~laserUp
    /\ ~laserUp => failed

LaserInv == TypeOK /\ QueueInv /\ LatchInv /\ LightHasCause /\ LightOn

-----------------------------------------------------------------------------
(***************************************************************************)
(* The inductive invariant of the gimbal's controller.                     *)
(***************************************************************************)
\* A routine's disable and enable are under way together; once the disable has
\* arrived no fault is left, and time stands still until the enable arrives.
EnableInv ==
    \A x \in Executors :
      /\ enableMsgs[x] \in {<<>>, <<TRUE>>, EnableSequence}
      /\ enableMsgs[x] = <<TRUE>> /\ ~upset => state # "FAULT" /\ age = 0

\* A routine that is not held up has its thread, and its targets keep the
\* controller's timeout from running.
SustainInv ==
    \A x \in Executors : indicating[x] /\ x \notin heldUp =>
      /\ blocked[x] = 0
      /\ enableMsgs[x] = <<>> /\ ~upset =>
           age <= 1 /\ (age = 1 => due[x] \/ targeted)

\* PointingIsArmed, and the controller is enabled.
ArmedInv ==
    \A x \in Executors \ heldUp :
        /\ indicating[x] /\ ~upset
        /\ \A y \in Executors : enableMsgs[y] = <<>>
        => state = "ENABLED_CLOSED_LOOP" /\ enabled

\* To a dead controller nothing is under way.
DeadInv ==
    ~controllerUp => upset /\ \A x \in Executors : enableMsgs[x] = <<>>

GimbalInv ==
    TypeOK /\ DeadInv /\ MotorsExpire /\ EnableInv /\ SustainInv /\ ArmedInv

-----------------------------------------------------------------------------
(***************************************************************************)
(* The queues that occur.                                                  *)
(***************************************************************************)
LEMMA ShortQueues ==
    ASSUME NEW a, NEW b
    PROVE  /\ Head(<<a>>) = a /\ Tail(<<a>>) = <<>>
           /\ Head(<<a, b>>) = a /\ Tail(<<a, b>>) = <<b>>
           /\ Append(<<>>, a) = <<a>> /\ Append(<<a>>, b) = <<a, b>>
<1>1. Head(<<a>>) = a /\ Head(<<a, b>>) = a
  OBVIOUS
<1>2. Tail(<<a>>) = <<>>
  OBVIOUS
<1>3. Tail(<<a, b>>) = <<b>>
  OBVIOUS
<1>4. Append(<<>>, a) = <<a>>
  OBVIOUS
<1>5. Append(<<a>>, b) = <<a, b>>
  <2> DEFINE t == Append(<<a>>, b)
  <2>1. <<a>> \in Seq({a, b}) /\ Len(<<a>>) = 1 /\ <<a>>[1] = a
    OBVIOUS
  <2>2. <<a, b>> \in Seq({a, b}) /\ Len(<<a, b>>) = 2 /\ <<a, b>>[1] = a /\ <<a, b>>[2] = b
    OBVIOUS
  <2>3. t \in Seq({a, b}) /\ Len(t) = 2 /\ t[1] = a /\ t[2] = b
    BY <2>1, AppendProperties
  <2> HIDE DEF t
  <2>4. t = <<a, b>>
    BY <2>2, <2>3, SeqEqual
  <2> QED
    BY <2>4 DEF t
<1> QED
  BY <1>1, <1>2, <1>3, <1>4, <1>5

LEMMA Queues ==
    /\ {<<>>, <<TRUE>>, <<FALSE>>, <<TRUE, FALSE>>, <<FALSE, TRUE>>} \subseteq Seq(BOOLEAN)
    /\ Append(<<>>, TRUE) = <<TRUE>> /\ Append(<<>>, FALSE) = <<FALSE>>
    /\ Append(<<TRUE>>, FALSE) = <<TRUE, FALSE>>
    /\ Head(<<TRUE>>) = TRUE /\ Tail(<<TRUE>>) = <<>>
    /\ Head(<<FALSE>>) = FALSE /\ Tail(<<FALSE>>) = <<>>
    /\ Head(<<TRUE, FALSE>>) = TRUE /\ Tail(<<TRUE, FALSE>>) = <<FALSE>>
    /\ Head(<<FALSE, TRUE>>) = FALSE /\ Tail(<<FALSE, TRUE>>) = <<TRUE>>
<1>1. {<<>>, <<TRUE>>, <<FALSE>>, <<TRUE, FALSE>>, <<FALSE, TRUE>>} \subseteq Seq(BOOLEAN)
  OBVIOUS
<1> QED
  BY <1>1, ShortQueues, Zenon

LEMMA QueuesDiffer ==
    /\ <<TRUE>> # <<>> /\ <<FALSE>> # <<>> /\ <<TRUE, FALSE>> # <<>> /\ <<FALSE, TRUE>> # <<>>
    /\ <<TRUE>> # <<FALSE>> /\ <<TRUE>> # <<TRUE, FALSE>> /\ <<FALSE>> # <<TRUE, FALSE>>
    /\ <<TRUE>> # <<FALSE, TRUE>>
  OBVIOUS

LEMMA SwitchOffUnderWay ==
    /\ ~Contains(<<>>, FALSE) /\ ~Contains(<<TRUE>>, FALSE)
    /\ Contains(<<FALSE>>, FALSE) /\ Contains(<<TRUE, FALSE>>, FALSE)
<1>1. \A b \in BOOLEAN : Contains(<<b>>, FALSE) <=> b = FALSE
  BY DEF Contains
<1>2. ~Contains(<<>>, FALSE)
  BY DEF Contains
<1>3. Contains(<<TRUE, FALSE>>, FALSE)
  <2>1. 2 \in 1 .. Len(<<TRUE, FALSE>>)
    OBVIOUS
  <2>2. <<TRUE, FALSE>>[2] = FALSE
    OBVIOUS
  <2> QED
    BY <2>1, <2>2, Zenon DEF Contains
<1> QED
  BY <1>1, <1>2, <1>3

-----------------------------------------------------------------------------
(***************************************************************************)
(* Types.                                                                  *)
(***************************************************************************)
LEMMA InitTypes == Init => TypeOK
<1> SUFFICES ASSUME Init PROVE TypeOK
  OBVIOUS
<1>1. /\ 0 \in 0 .. LaserTicks /\ 0 \in 0 .. BlockMax
      /\ CommandTimeout + 1 \in 0 .. CommandTimeout + 1
  BY ConstantsOK
<1>2. <<>> \in Seq(BOOLEAN)
  BY EmptySeq
<1>3. /\ {aiming, aimLaser, targeted, laserUp, on, light} \subseteq BOOLEAN
      /\ {controllerUp, enabled, motors, stepped} \subseteq BOOLEAN
  BY DEF Init
<1> QED
  BY <1>1, <1>2, <1>3 DEF Init, TypeOK

LEMMA NextTypes == TypeOK /\ [Next]_vars => TypeOK'
<1> SUFFICES ASSUME TypeOK, [Next]_vars PROVE TypeOK'
  OBVIOUS
<1> USE DEF TypeOK, executors, aim, topics, laser, gimbal, laserHistory
<1>1. ASSUME NEW x \in Executors, StartLaser(x) PROVE TypeOK'
  <2>1. EnableSequence \in Seq(BOOLEAN) /\ LaserTicks \in 0 .. LaserTicks
    <3>1. EnableSequence \in Seq(BOOLEAN)
      BY Queues DEF EnableSequence
    <3>2. LaserTicks \in 0 .. LaserTicks
      BY ConstantsOK
    <3> QED
      BY <3>1, <3>2
  <2>2. Append(laserMsgs[x], TRUE) \in Seq(BOOLEAN)
    BY AppendProperties DEF Publishers
  <2>3. /\ laserMsgs' \in [Publishers -> Seq(BOOLEAN)]
        /\ enableMsgs' \in [Executors -> Seq(BOOLEAN)]
    BY <1>1, <2>1, <2>2 DEF StartLaser, Switch
  <2> QED
    BY <1>1, <2>1, <2>3 DEF StartLaser
<1>2. ASSUME NEW x \in Executors, AimTick(x) PROVE TypeOK'
  BY <1>2 DEF AimTick
<1>3. ASSUME NEW x \in Executors, StopLaser(x) PROVE TypeOK'
  BY <1>3, AppendProperties DEF StopLaser, StopSwitches, Switch, Publishers
<1>4. ASSUME NEW x \in Executors, Restart(x) PROVE TypeOK'
  BY <1>4, ConstantsOK DEF Restart, Publishers
<1>5. ASSUME NEW x \in Executors, NEW ticks \in 1 .. BlockMax, Block(x, ticks) PROVE TypeOK'
  BY <1>5, ConstantsOK DEF Block
<1>6. ASSUME NEW x \in Executors, EnableMessage(x) PROVE TypeOK'
  <2>1. /\ enableMsgs[x] \in Seq(BOOLEAN) /\ enableMsgs[x] # <<>>
        /\ enableMsgs' = [enableMsgs EXCEPT ![x] = Tail(@)]
        /\ SetEnabled(Head(enableMsgs[x])) /\ age' = 0
        /\ upset' = (upset /\ Head(enableMsgs[x]))
        /\ UNCHANGED <<indicating, left, due, blocked, aiming, aimLaser, laserMsgs, targeted,
                       laserUp, on, light, controllerUp, stepped, excused, failed, cutBy,
                       heldUp>>
    BY <1>6 DEF EnableMessage
  <2>2. Head(enableMsgs[x]) \in BOOLEAN /\ Tail(enableMsgs[x]) \in Seq(BOOLEAN)
    BY <2>1, HeadTailProperties
  <2>3. enableMsgs' \in [Executors -> Seq(BOOLEAN)] /\ upset' \in BOOLEAN
    BY <2>1, <2>2
  <2>4. /\ enabled' \in BOOLEAN /\ motors' \in BOOLEAN
        /\ state' \in {"BOOT", "IDLE", "ENABLED_CLOSED_LOOP", "FAULT"}
    BY <2>1, <2>2 DEF SetEnabled, Stop, SafeOutputs
  <2>5. age' \in 0 .. CommandTimeout + 1
    <3>1. age' = 0
      BY <2>1
    <3> QED
      BY <3>1, ConstantsOK
  <2> QED
    BY <2>1, <2>3, <2>4, <2>5
<1>7. ASSUME NEW value \in BOOLEAN, AimEnable(value) PROVE TypeOK'
  <2>1. Append(laserMsgs[Aim], FALSE) \in Seq(BOOLEAN)
    BY AppendProperties DEF Publishers
  <2>2. laserMsgs' \in [Publishers -> Seq(BOOLEAN)]
    BY <1>7, <2>1 DEF AimEnable, AimDisabled, SetLaser, Switch
  <2>3. /\ aiming' \in BOOLEAN /\ aimLaser' \in BOOLEAN /\ (aimLaser' => aiming')
        /\ UNCHANGED <<indicating, left, due, blocked, enableMsgs, targeted, laserUp, on,
                       light, controllerUp, state, enabled, motors, age, stepped, excused,
                       failed, cutBy, heldUp, upset>>
    BY <1>7 DEF AimEnable, AimDisabled, SetLaser
  <2> QED
    BY <2>2, <2>3
<1>8. ASSUME NEW value \in BOOLEAN, Step(value) PROVE TypeOK'
  BY <1>8 DEF Step, Fault, SafeOutputs, TimedOut
<1>9. ASSUME NEW target \in BOOLEAN, NEW centered \in BOOLEAN, AimStatus(target, centered)
      PROVE TypeOK'
  <2>1. Append(laserMsgs[Aim], target) \in Seq(BOOLEAN)
    BY AppendProperties DEF Publishers
  <2>2. laserMsgs' \in [Publishers -> Seq(BOOLEAN)]
    BY <1>9, <2>1 DEF AimStatus, SetLaser, Switch
  <2>3. /\ aimLaser' \in BOOLEAN /\ (aimLaser' => aiming') /\ targeted' \in BOOLEAN
        /\ UNCHANGED <<indicating, left, due, blocked, aiming, enableMsgs, laserUp, on,
                       light, controllerUp, state, enabled, motors, age, stepped, excused,
                       failed, cutBy, heldUp, upset>>
    BY <1>9 DEF AimStatus, SetLaser
  <2> QED
    BY <2>2, <2>3
<1>10. ASSUME NEW p \in Publishers, NEW ok \in BOOLEAN, LaserMessage(p, ok) PROVE TypeOK'
  BY <1>10, HeadTailProperties DEF LaserMessage, Write
<1>11. CASE TargetMessage
  <2>1. age' \in 0 .. CommandTimeout + 1
    BY <1>11, ConstantsOK DEF TargetMessage, SetTarget
  <2> QED
    BY <1>11, <2>1 DEF TargetMessage
<1>12. CASE OperatorStop
  BY <1>12 DEF OperatorStop, Stop, SafeOutputs
<1>13. CASE ControllerDies
  <2>1. age' \in 0 .. CommandTimeout + 1
    BY <1>13, ConstantsOK DEF ControllerDies
  <2>2. enableMsgs' \in [Executors -> Seq(BOOLEAN)]
    BY <1>13, Queues DEF ControllerDies
  <2> QED
    BY <1>13, <2>1, <2>2 DEF ControllerDies
<1>14. CASE ControllerStarts
  BY <1>14 DEF ControllerStarts, SafeOutputs
<1>17. CASE LaserDies
  BY <1>17, Queues DEF LaserDies
<1>18. CASE LaserStarts
  BY <1>18 DEF LaserStarts
<1>19. CASE AimRestart
  BY <1>19 DEF AimRestart, Publishers
<1>15. CASE Tick
  <2>1. age' \in 0 .. CommandTimeout + 1
    BY <1>15, ConstantsOK DEF Tick
  <2>2. /\ left' = [x \in Executors |-> IF left[x] > 0 THEN left[x] - 1 ELSE 0]
        /\ blocked' = [x \in Executors |-> IF blocked[x] > 0 THEN blocked[x] - 1 ELSE 0]
    BY <1>15 DEF Tick
  <2>3. \A x \in Executors : /\ (IF left[x] > 0 THEN left[x] - 1 ELSE 0) \in 0 .. LaserTicks
                             /\ (IF blocked[x] > 0 THEN blocked[x] - 1 ELSE 0) \in 0 .. BlockMax
    BY ConstantsOK
  <2>4. left' \in [Executors -> 0 .. LaserTicks] /\ blocked' \in [Executors -> 0 .. BlockMax]
    BY <2>2, <2>3
  <2> QED
    BY <1>15, <2>1, <2>4 DEF Tick
<1>16. CASE UNCHANGED vars
  BY <1>16 DEF vars
<1> QED
  BY <1>1, <1>2, <1>3, <1>4, <1>5, <1>6, <1>7, <1>8, <1>9, <1>10, <1>11, <1>12, <1>13,
     <1>14, <1>15, <1>16, <1>17, <1>18, <1>19 DEF Next

-----------------------------------------------------------------------------
(***************************************************************************)
(* The laser.                                                              *)
(***************************************************************************)
LEMMA InitLaser == Init => LaserInv
<1> SUFFICES ASSUME Init PROVE LaserInv
  OBVIOUS
<1>1. \A p \in Publishers : laserMsgs[p] = <<>> /\ ~Wants(p)
  BY DEF Init, Wants, Publishers
<1>2. QueueInv /\ LatchInv /\ LightHasCause /\ LightOn
  BY <1>1 DEF Init, QueueInv, LatchInv, LightHasCause, LightOn
<1> QED
  BY <1>2, InitTypes DEF LaserInv

\* A routine starts, ends, or is forgotten with its process.
LEMMA RoutineLaser ==
    ASSUME LaserInv, NEW x \in Executors, StartLaser(x) \/ StopLaser(x) \/ Restart(x)
    PROVE  QueueInv' /\ LatchInv' /\ LightHasCause' /\ LightOn'
<1> USE DEF laser, laserHistory, aim, topics
<1>0. TypeOK /\ QueueInv /\ LatchInv /\ LightHasCause /\ LightOn
  BY DEF LaserInv
<1>1. /\ x \in Publishers /\ x # Aim
      /\ laserMsgs \in [Publishers -> Seq(BOOLEAN)] /\ indicating \in [Executors -> BOOLEAN]
  BY <1>0, ConstantsOK DEF TypeOK, Publishers
<1>2. CASE StartLaser(x)
  <2>1. /\ laserMsgs[x] = <<>>
        /\ laserMsgs' = IF laserUp THEN [laserMsgs EXCEPT ![x] = Append(laserMsgs[x], TRUE)]
                                   ELSE laserMsgs
        /\ indicating' = [indicating EXCEPT ![x] = TRUE]
        /\ UNCHANGED <<aimLaser, laserUp, on, light, excused, failed, cutBy>>
    BY <1>2 DEF StartLaser, Switch
  <2>2. /\ laserMsgs'[x] = IF laserUp THEN <<TRUE>> ELSE <<>>
        /\ \A p \in Publishers \ {x} : laserMsgs'[p] = laserMsgs[p]
    BY <1>1, <2>1, Queues
  <2>3. Wants(x)' /\ \A p \in Publishers \ {x} : Wants(p)' <=> Wants(p)
    BY <1>1, <2>1 DEF Wants, Publishers
  <2>4. QueueInv'
    BY <1>0, <2>1, <2>2, <2>3, QueuesDiffer DEF QueueInv
  <2>5. LatchInv' /\ LightHasCause'
    BY <1>0, <1>1, <2>1, <2>2, <2>3 DEF LatchInv, LightHasCause
  <2>6. LightOn'
    BY <1>0, <1>1, <2>1, <2>2, QueuesDiffer DEF LatchInv, LightOn
  <2> QED
    BY <2>4, <2>5, <2>6
<1>3. CASE StopLaser(x)
  <2>1. /\ indicating[x]
        /\ laserMsgs' = IF laserUp THEN [laserMsgs EXCEPT ![x] = Append(laserMsgs[x], FALSE)]
                                   ELSE laserMsgs
        /\ indicating' = [indicating EXCEPT ![x] = FALSE]
        /\ UNCHANGED <<aimLaser, laserUp, on, light, excused, failed, cutBy>>
    BY <1>3 DEF StopLaser, StopSwitches, Switch
  <2>2. laserMsgs[x] \in {<<>>, <<TRUE>>}
    BY <1>0, <1>1, <2>1 DEF QueueInv, Wants
  <2>3. /\ laserUp => laserMsgs'[x] \in {<<FALSE>>, <<TRUE, FALSE>>}
        /\ ~laserUp => laserMsgs'[x] = <<>>
        /\ \A p \in Publishers \ {x} : laserMsgs'[p] = laserMsgs[p]
    <3>1. ~laserUp => laserMsgs[x] = <<>>
      BY <1>0, <1>1 DEF QueueInv
    <3> QED
      BY <1>1, <2>1, <2>2, <3>1, Queues
  <2>4. ~Wants(x)' /\ \A p \in Publishers \ {x} : Wants(p)' <=> Wants(p)
    BY <1>1, <2>1 DEF Wants, Publishers
  <2>5. laserUp => Contains(laserMsgs'[x], FALSE) /\ laserMsgs'[x] # <<>>
    BY <2>3, SwitchOffUnderWay, QueuesDiffer
  <2>6. QueueInv'
    <3> SUFFICES ASSUME NEW p \in Publishers
                 PROVE  /\ ~laserUp => laserMsgs'[p] = <<>>
                        /\ laserMsgs'[p] \in {<<>>, <<TRUE>>, <<FALSE>>, <<TRUE, FALSE>>}
                        /\ Wants(p)' => laserMsgs'[p] \in {<<>>, <<TRUE>>}
                        /\ laserMsgs'[p] = <<TRUE>> => Wants(p)' \/ p \in excused
      BY <2>1 DEF QueueInv
    <3>1. CASE p = x
      BY <2>3, <2>4, <3>1, QueuesDiffer
    <3>2. CASE p # x
      BY <1>0, <2>3, <2>4, <3>2 DEF QueueInv
    <3> QED
      BY <3>1, <3>2
  <2>7. LatchInv' /\ LightHasCause' /\ LightOn'
    BY <1>0, <1>1, <2>1, <2>4, <2>5 DEF LatchInv, LightHasCause, LightOn
  <2> QED
    BY <2>6, <2>7
<1>4. CASE Restart(x)
  <2>1. /\ indicating' = [indicating EXCEPT ![x] = FALSE]
        /\ excused' = excused \cup {x}
        /\ UNCHANGED <<laserMsgs, aimLaser, laserUp, on, light, failed, cutBy>>
    BY <1>4 DEF Restart
  <2>2. ~Wants(x)' /\ \A p \in Publishers \ {x} : Wants(p)' <=> Wants(p)
    BY <1>1, <2>1 DEF Wants, Publishers
  <2>3. QueueInv'
    BY <1>0, <2>1, <2>2 DEF QueueInv
  <2>4. LatchInv' /\ LightHasCause'
    BY <1>0, <2>1 DEF LatchInv, LightHasCause
  <2>5. LightOn'
    BY <1>0, <2>1, <2>2 DEF LightOn
  <2> QED
    BY <2>3, <2>4, <2>5
<1> QED
  BY <1>2, <1>3, <1>4

\* gimbal_aim_node switches the laser, if it did not ask for that already.
LEMMA SetLaserInv ==
    ASSUME LaserInv, NEW value \in BOOLEAN, laserMsgs[Aim] = <<>>, SetLaser(value),
           UNCHANGED <<indicating, laserUp, on, light, excused, failed, cutBy>>
    PROVE  QueueInv' /\ LatchInv' /\ LightHasCause' /\ LightOn'
<1>0. TypeOK /\ QueueInv /\ LatchInv /\ LightHasCause /\ LightOn
  BY DEF LaserInv
<1>1. /\ Aim \in Publishers /\ aimLaser \in BOOLEAN
      /\ laserMsgs \in [Publishers -> Seq(BOOLEAN)]
      /\ \A p \in Publishers \ {Aim} : p \in Executors
  BY <1>0 DEF TypeOK, Publishers
<1>2. aimLaser' = value /\ (Wants(Aim)' <=> value) /\ (Wants(Aim) <=> aimLaser)
  BY DEF SetLaser, Wants
<1>3. \A p \in Publishers \ {Aim} : Wants(p)' <=> Wants(p)
  BY DEF Wants
<1>4. CASE value = aimLaser
  <2>1. laserMsgs' = laserMsgs
    BY <1>4 DEF SetLaser
  <2>2. \A p \in Publishers : Wants(p)' <=> Wants(p)
    BY <1>2, <1>3, <1>4
  <2> QED
    BY <1>0, <2>1, <2>2 DEF QueueInv, LatchInv, LightHasCause, LightOn
<1>5. CASE value # aimLaser
  <2>1. laserMsgs' = IF laserUp THEN [laserMsgs EXCEPT ![Aim] = Append(laserMsgs[Aim], value)]
                               ELSE laserMsgs
    BY <1>5 DEF SetLaser, Switch
  <2>2. /\ laserMsgs'[Aim] = IF ~laserUp THEN <<>> ELSE IF value THEN <<TRUE>> ELSE <<FALSE>>
        /\ \A p \in Publishers \ {Aim} : laserMsgs'[p] = laserMsgs[p]
    BY <1>1, <2>1, Queues
  <2>3. laserUp => laserMsgs'[Aim] # <<>> /\ (~value => Contains(laserMsgs'[Aim], FALSE))
    BY <2>2, QueuesDiffer, SwitchOffUnderWay
  <2>4. QueueInv'
    BY <1>0, <1>2, <1>3, <2>2, QueuesDiffer DEF QueueInv
  <2>5. LatchInv' /\ LightHasCause' /\ LightOn'
    BY <1>0, <1>1, <1>2, <1>3, <2>2, <2>3 DEF LatchInv, LightHasCause, LightOn
  <2> QED
    BY <2>4, <2>5
<1> QED
  BY <1>4, <1>5

\* laser_node takes a message, and writes the pin or fails to.
LEMMA MessageLaser ==
    ASSUME LaserInv, NEW p \in Publishers, NEW ok \in BOOLEAN, LaserMessage(p, ok)
    PROVE  QueueInv' /\ LatchInv' /\ LightHasCause' /\ LightOn'
<1> DEFINE value == Head(laserMsgs[p])
<1> USE DEF aim
<1>0. TypeOK /\ QueueInv /\ LatchInv /\ LightHasCause /\ LightOn
  BY DEF LaserInv
<1>1. /\ laserMsgs[p] # <<>>
      /\ laserMsgs' = [laserMsgs EXCEPT ![p] = Tail(laserMsgs[p])]
      /\ on' = value
      /\ IF value = on THEN light' = light /\ failed' = failed /\ ok
                       ELSE light' = (IF ok THEN value ELSE light) /\ failed' = ~ok
      /\ excused' = {q \in excused \cup (IF value \/ ok THEN {} ELSE {p}) :
                        light' \/ laserMsgs'[q] # <<>>}
      /\ cutBy' = IF value THEN FALSE
                  ELSE cutBy \/ \E q \in Publishers \ {p} : Wants(q)
      /\ UNCHANGED <<indicating, aimLaser, laserUp>>
  BY DEF LaserMessage, Write, executors
<1>2. /\ laserMsgs \in [Publishers -> Seq(BOOLEAN)]
      /\ on \in BOOLEAN /\ light \in BOOLEAN /\ failed \in BOOLEAN /\ cutBy \in BOOLEAN
  BY <1>0 DEF TypeOK
<1>u. laserUp /\ laserUp'
  BY <1>0, <1>1 DEF QueueInv
<1>3. laserMsgs[p] \in {<<TRUE>>, <<FALSE>>, <<TRUE, FALSE>>}
  BY <1>0, <1>1 DEF QueueInv
<1>4. /\ laserMsgs'[p] = Tail(laserMsgs[p])
      /\ \A q \in Publishers \ {p} : laserMsgs'[q] = laserMsgs[q]
  BY <1>1, <1>2
<1>5. /\ laserMsgs[p] = <<TRUE>> => value = TRUE /\ laserMsgs'[p] = <<>>
      /\ laserMsgs[p] = <<FALSE>> => value = FALSE /\ laserMsgs'[p] = <<>>
      /\ laserMsgs[p] = <<TRUE, FALSE>> => value = TRUE /\ laserMsgs'[p] = <<FALSE>>
  BY <1>4, Queues
<1>6. \A q \in Publishers : Wants(q)' <=> Wants(q)
  BY <1>1 DEF Wants
<1> HIDE DEF value
<1>7. value \in BOOLEAN
  BY <1>3, <1>5
<1>8. \A q \in excused : light' \/ laserMsgs'[q] # <<>> => q \in excused'
  BY <1>1
<1>9. QueueInv'
  <2> SUFFICES ASSUME NEW q \in Publishers
               PROVE  /\ laserMsgs'[q] \in {<<>>, <<TRUE>>, <<FALSE>>, <<TRUE, FALSE>>}
                      /\ Wants(q)' => laserMsgs'[q] \in {<<>>, <<TRUE>>}
                      /\ laserMsgs'[q] = <<TRUE>> => Wants(q)' \/ q \in excused'
    BY <1>u DEF QueueInv
  <2>1. CASE q = p
    BY <1>0, <1>3, <1>5, <1>6, <2>1, QueuesDiffer DEF QueueInv
  <2>2. CASE q # p
    BY <1>0, <1>4, <1>6, <1>8, <2>2, QueuesDiffer DEF QueueInv
  <2> QED
    BY <2>1, <2>2
<1>10. LatchInv'
  <2>1. on' # light' => failed'
    BY <1>0, <1>1, <1>2, <1>7 DEF LatchInv
  <2>2. ASSUME light', ~on' PROVE excused' # {}
    <3>1. CASE on
      <4>1. p \in excused'
        BY <1>1, <1>7, <2>2, <3>1
      <4> QED
        BY <4>1
    <3>2. CASE ~on
      <4>1. light
        BY <1>1, <2>2, <3>2, <1>7, <1>2
      <4>2. PICK q \in excused : TRUE
        BY <1>0, <1>u, <3>2, <4>1 DEF LatchInv
      <4> QED
        BY <1>8, <2>2, <4>2
    <3> QED
      BY <3>1, <3>2
  <2> QED
    BY <1>u, <2>1, <2>2 DEF LatchInv
<1>11. LightHasCause'
  <2> SUFFICES ASSUME light', excused' = {}
               PROVE  \E q \in Publishers : Wants(q)' \/ Contains(laserMsgs'[q], FALSE)
    BY DEF LightHasCause
  <2>1. excused = {}
    BY <1>8
  <2>2. on'
    BY <1>10, <1>u DEF LatchInv
  <2>3. value = TRUE
    BY <1>1, <1>7, <2>2
  <2>4. laserMsgs[p] = <<TRUE>> => Wants(p)
    BY <1>0, <2>1 DEF QueueInv
  <2>5. laserMsgs[p] = <<TRUE, FALSE>> => Contains(laserMsgs'[p], FALSE)
    BY <1>5, SwitchOffUnderWay
  <2> QED
    BY <1>3, <1>5, <1>6, <2>3, <2>4, <2>5
<1>12. LightOn'
  <2> SUFFICES ASSUME NEW q \in Publishers, Wants(q), \A r \in Publishers : laserMsgs'[r] = <<>>
               PROVE  light' \/ failed' \/ cutBy'
    BY <1>6 DEF LightOn
  <2>1. CASE value = TRUE
    BY <1>10, <1>1, <2>1 DEF LatchInv
  <2>2. CASE value = FALSE
    <3>1. ~Wants(p)
      BY <1>0, <1>3, <1>5, <2>2, QueuesDiffer DEF QueueInv
    <3> QED
      BY <1>1, <2>2, <3>1
  <2> QED
    BY <1>7, <2>1, <2>2
<1> QED
  BY <1>9, <1>10, <1>11, <1>12

LEMMA LaserPreserved == LaserInv /\ [Next]_vars => LaserInv'
<1> SUFFICES ASSUME LaserInv, [Next]_vars PROVE LaserInv'
  OBVIOUS
<1> USE DEF laser, laserHistory, aim, topics
<1>0. TypeOK /\ QueueInv /\ LatchInv /\ LightHasCause /\ LightOn
  BY DEF LaserInv
<1>t. TypeOK'
  BY <1>0, NextTypes
<1>1. SUFFICES QueueInv' /\ LatchInv' /\ LightHasCause' /\ LightOn'
  BY <1>t DEF LaserInv
<1>2. CASE \E x \in Executors : StartLaser(x) \/ StopLaser(x) \/ Restart(x)
  BY <1>2, RoutineLaser
<1>3. CASE \E value \in BOOLEAN : AimEnable(value)
  <2>1. PICK value \in BOOLEAN : AimEnable(value)
    BY <1>3
  <2>2. /\ laserMsgs[Aim] = <<>>
        /\ UNCHANGED <<indicating, laserUp, on, light, excused, failed, cutBy>>
    BY <2>1 DEF AimEnable, executors
  <2>3. CASE value
    <3>1. UNCHANGED <<laserMsgs, aimLaser>>
      BY <2>1, <2>3 DEF AimEnable
    <3> QED
      BY <1>0, <2>2, <3>1 DEF QueueInv, LatchInv, LightHasCause, LightOn, Wants
  <2>4. CASE ~value
    <3>1. SetLaser(FALSE)
      BY <2>1, <2>4 DEF AimEnable, AimDisabled
    <3> QED
      BY <2>2, <3>1, SetLaserInv
  <2> QED
    BY <2>3, <2>4
<1>4. CASE \E target, centered \in BOOLEAN : AimStatus(target, centered)
  <2>1. PICK target \in BOOLEAN, centered \in BOOLEAN : AimStatus(target, centered)
    BY <1>4
  <2>2. /\ laserMsgs[Aim] = <<>> /\ SetLaser(target)
        /\ UNCHANGED <<indicating, laserUp, on, light, excused, failed, cutBy>>
    BY <2>1 DEF AimStatus, executors
  <2> QED
    BY <2>2, SetLaserInv
<1>5. CASE \E p \in Publishers, ok \in BOOLEAN : LaserMessage(p, ok)
  BY <1>5, MessageLaser
<1>6. CASE LaserDies
  <2>1. /\ ~laserUp' /\ failed' = TRUE
        /\ \A p \in Publishers : laserMsgs'[p] = <<>>
    BY <1>6 DEF LaserDies
  <2> QED
    BY <2>1, QueuesDiffer DEF QueueInv, LatchInv, LightHasCause, LightOn
<1>8. CASE LaserStarts
  <2>1. /\ ~laserUp /\ laserUp' = TRUE /\ light' = FALSE
        /\ UNCHANGED <<laserMsgs, on, failed, cutBy, indicating, aimLaser>>
    BY <1>8 DEF LaserStarts, executors
  <2>2. \A p \in Publishers : laserMsgs'[p] = <<>>
    BY <1>0, <2>1 DEF QueueInv
  <2>3. failed'
    BY <1>0, <2>1 DEF LatchInv
  <2> QED
    BY <2>1, <2>2, <2>3, QueuesDiffer DEF QueueInv, LatchInv, LightHasCause, LightOn
<1>9. CASE AimRestart
  <2>1. /\ aimLaser' = FALSE
        /\ excused' = IF aimLaser THEN excused \cup {Aim} ELSE excused
        /\ UNCHANGED <<laserMsgs, laserUp, on, light, failed, cutBy, indicating>>
    BY <1>9 DEF AimRestart, executors
  <2>2. \A p \in Publishers : /\ Wants(p)' => Wants(p)
                              /\ Wants(p) => Wants(p)' \/ p \in excused'
    BY <2>1 DEF Wants
  <2>3. excused \subseteq excused'
    BY <2>1
  <2>4. QueueInv' /\ LatchInv' /\ LightOn'
    BY <1>0, <2>1, <2>2, <2>3 DEF QueueInv, LatchInv, LightOn
  <2>5. LightHasCause'
    BY <1>0, <2>1, <2>2, <2>3 DEF LightHasCause
  <2> QED
    BY <2>4, <2>5
<1>7. CASE \/ \E x \in Executors :
                \/ AimTick(x) \/ EnableMessage(x)
                \/ \E ticks \in 1 .. BlockMax : Block(x, ticks)
           \/ \E value \in BOOLEAN : Step(value)
           \/ TargetMessage \/ OperatorStop \/ ControllerDies \/ ControllerStarts
           \/ Tick \/ UNCHANGED vars
  <2>1. UNCHANGED <<indicating, aimLaser, laserMsgs, laserUp, on, light, excused, failed, cutBy>>
    BY <1>7 DEF AimTick, EnableMessage, Block, Step, TargetMessage, OperatorStop,
       ControllerDies, ControllerStarts, Tick, executors, vars
  <2> QED
    BY <1>0, <2>1 DEF QueueInv, LatchInv, LightHasCause, LightOn, Wants
<1> QED
  BY <1>2, <1>3, <1>4, <1>5, <1>6, <1>7, <1>8, <1>9 DEF Next

-----------------------------------------------------------------------------
(***************************************************************************)
(* The gimbal's controller.                                                *)
(***************************************************************************)
LEMMA InitGimbal == Init => GimbalInv
<1> SUFFICES ASSUME Init PROVE GimbalInv
  OBVIOUS
<1>1. DeadInv /\ MotorsExpire /\ EnableInv /\ SustainInv /\ ArmedInv
  BY QueuesDiffer DEF Init, DeadInv, MotorsExpire, EnableInv, SustainInv, ArmedInv
<1> QED
  BY <1>1, InitTypes DEF GimbalInv

\* A step that leaves the controller, the enable messages and the routines alone
\* but for targets on their way.
LEMMA OthersGimbal ==
    ASSUME GimbalInv, targeted => targeted',
           UNCHANGED <<indicating, due, blocked, enableMsgs, controllerUp, state, enabled,
                       motors, age, stepped, heldUp, upset>>
    PROVE  DeadInv' /\ MotorsExpire' /\ EnableInv' /\ SustainInv' /\ ArmedInv'
<1>0. TypeOK /\ DeadInv /\ MotorsExpire /\ EnableInv /\ SustainInv /\ ArmedInv
  BY DEF GimbalInv
<1>1. DeadInv' /\ MotorsExpire' /\ EnableInv' /\ ArmedInv'
  BY <1>0 DEF DeadInv, MotorsExpire, EnableInv, ArmedInv
<1>2. SustainInv'
  BY <1>0 DEF SustainInv
<1> QED
  BY <1>1, <1>2

\* The steps of an executor.
LEMMA RoutineGimbal ==
    ASSUME GimbalInv, NEW x \in Executors,
           \/ StartLaser(x) \/ AimTick(x) \/ StopLaser(x) \/ Restart(x)
           \/ \E ticks \in 1 .. BlockMax : Block(x, ticks)
    PROVE  DeadInv' /\ MotorsExpire' /\ EnableInv' /\ SustainInv' /\ ArmedInv'
<1> USE DEF gimbal, topics
<1>0. /\ TypeOK /\ DeadInv /\ MotorsExpire /\ EnableInv /\ SustainInv /\ ArmedInv
      /\ indicating \in [Executors -> BOOLEAN] /\ due \in [Executors -> BOOLEAN]
      /\ blocked \in [Executors -> 0 .. BlockMax]
      /\ enableMsgs \in [Executors -> Seq(BOOLEAN)]
  BY DEF GimbalInv, TypeOK
<1>1. DeadInv' /\ MotorsExpire'
  <2>1. UNCHANGED <<controllerUp, state, enabled, motors, age, stepped, upset>>
    BY DEF StartLaser, AimTick, StopLaser, Restart, Block
  <2>2. ~controllerUp => UNCHANGED enableMsgs
    BY DEF StartLaser, AimTick, StopLaser, Restart, Block
  <2> QED
    BY <1>0, <2>1, <2>2 DEF DeadInv, MotorsExpire
<1>2. CASE StartLaser(x)
  <2>1. /\ enableMsgs[x] = <<>> /\ blocked[x] = 0
        /\ enableMsgs' = IF controllerUp THEN [enableMsgs EXCEPT ![x] = EnableSequence]
                                         ELSE enableMsgs
        /\ indicating' = [indicating EXCEPT ![x] = TRUE]
        /\ due' = [due EXCEPT ![x] = FALSE]
        /\ heldUp' = heldUp \ {x}
        /\ UNCHANGED <<blocked, targeted, state, enabled, motors, age, stepped, upset>>
    BY <1>2 DEF StartLaser
  <2>u. ~controllerUp => upset
    BY <1>0 DEF DeadInv
  <2>2. /\ enableMsgs'[x] = IF controllerUp THEN EnableSequence ELSE <<>>
        /\ EnableSequence # <<>> /\ EnableSequence # <<TRUE>>
        /\ \A y \in Executors \ {x} : /\ enableMsgs'[y] = enableMsgs[y]
                                      /\ indicating'[y] = indicating[y]
                                      /\ due'[y] = due[y]
                                      /\ y \in heldUp' <=> y \in heldUp
    BY <1>0, <2>1, QueuesDiffer DEF EnableSequence
  <2>3. EnableInv'
    BY <1>0, <2>1, <2>2 DEF EnableInv
  <2>4. SustainInv'
    BY <1>0, <2>1, <2>2, <2>u DEF SustainInv
  <2>5. ArmedInv'
    BY <2>1, <2>2, <2>u DEF ArmedInv
  <2> QED
    BY <1>1, <2>3, <2>4, <2>5
<1>3. CASE AimTick(x)
  <2>u. ~controllerUp => upset
    BY <1>0 DEF DeadInv
  <2>1. /\ due' = [due EXCEPT ![x] = FALSE] /\ targeted' = controllerUp
        /\ UNCHANGED <<indicating, blocked, enableMsgs, state, enabled, motors, age, stepped,
                       heldUp, upset>>
    BY <1>3 DEF AimTick
  <2>2. EnableInv' /\ SustainInv' /\ ArmedInv'
    BY <1>0, <2>1, <2>u DEF EnableInv, SustainInv, ArmedInv
  <2> QED
    BY <1>1, <2>2
<1>4. CASE StopLaser(x) \/ Restart(x)
  <2>1. /\ ~indicating'[x]
        /\ \A y \in Executors \ {x} : /\ indicating'[y] = indicating[y]
                                      /\ due'[y] = due[y] /\ blocked'[y] = blocked[y]
                                      /\ y \in heldUp' <=> y \in heldUp
        /\ UNCHANGED <<targeted, enableMsgs, state, enabled, motors, age, stepped, upset>>
    BY <1>0, <1>4 DEF StopLaser, Restart
  <2>2. EnableInv'
    BY <1>0, <2>1 DEF EnableInv
  <2>3. SustainInv'
    BY <1>0, <2>1 DEF SustainInv
  <2>4. ArmedInv'
    BY <1>0, <2>1 DEF ArmedInv
  <2> QED
    BY <1>1, <2>2, <2>3, <2>4
<1>5. CASE \E ticks \in 1 .. BlockMax : Block(x, ticks)
  <2>1. /\ heldUp \subseteq heldUp' /\ (indicating[x] => x \in heldUp')
        /\ \A y \in Executors \ {x} : blocked'[y] = blocked[y]
        /\ UNCHANGED <<indicating, due, targeted, enableMsgs, state, enabled, motors, age,
                       stepped, upset>>
    BY <1>0, <1>5 DEF Block
  <2>2. EnableInv' /\ ArmedInv'
    BY <1>0, <2>1 DEF EnableInv, ArmedInv
  <2>3. SustainInv'
    BY <1>0, <2>1 DEF SustainInv
  <2> QED
    BY <1>1, <2>2, <2>3
<1> QED
  BY <1>2, <1>3, <1>4, <1>5

\* A disable clears a fault; the enable behind it finds none.
LEMMA EnableGimbal ==
    ASSUME GimbalInv, NEW x \in Executors, EnableMessage(x)
    PROVE  DeadInv' /\ MotorsExpire' /\ EnableInv' /\ SustainInv' /\ ArmedInv'
<1> DEFINE value == Head(enableMsgs[x])
<1>0. /\ TypeOK /\ DeadInv /\ MotorsExpire /\ EnableInv /\ SustainInv /\ ArmedInv
      /\ enableMsgs \in [Executors -> Seq(BOOLEAN)]
      /\ motors \in BOOLEAN /\ enabled \in BOOLEAN /\ upset \in BOOLEAN
  BY DEF GimbalInv, TypeOK
<1>1. /\ enableMsgs[x] # <<>>
      /\ enableMsgs' = [enableMsgs EXCEPT ![x] = Tail(enableMsgs[x])]
      /\ SetEnabled(value) /\ age' = 0 /\ upset' = (upset /\ value)
      /\ UNCHANGED <<indicating, due, blocked, targeted, controllerUp, stepped, heldUp>>
  BY DEF EnableMessage, executors
<1>u. controllerUp /\ controllerUp' /\ DeadInv'
  BY <1>0, <1>1 DEF DeadInv
<1>2. /\ enableMsgs'[x] = Tail(enableMsgs[x])
      /\ \A y \in Executors \ {x} : enableMsgs'[y] = enableMsgs[y]
  BY <1>0, <1>1
<1>3. enableMsgs[x] \in {<<TRUE>>, EnableSequence}
  BY <1>0, <1>1 DEF EnableInv
<1>4. /\ enableMsgs[x] = <<TRUE>> => value = TRUE /\ enableMsgs'[x] = <<>>
      /\ enableMsgs[x] = EnableSequence => value = FALSE /\ enableMsgs'[x] = <<TRUE>>
  BY <1>2, Queues DEF EnableSequence
<1> HIDE DEF value
<1>5. SustainInv'
  BY <1>0, <1>1 DEF SustainInv
<1>6. CASE enableMsgs[x] = EnableSequence
  <2>1. /\ enableMsgs'[x] = <<TRUE>> /\ value = FALSE
        /\ ~enabled' /\ ~motors' /\ state' = "IDLE"
    BY <1>1, <1>4, <1>6 DEF SetEnabled, Stop, SafeOutputs
  <2>2. MotorsExpire'
    BY <2>1 DEF MotorsExpire
  <2>3. EnableInv'
    BY <1>0, <1>1, <1>2, <2>1 DEF EnableInv
  <2>4. ArmedInv'
    BY <2>1, QueuesDiffer DEF ArmedInv
  <2> QED
    BY <1>u, <1>5, <2>2, <2>3, <2>4
<1>7. CASE enableMsgs[x] = <<TRUE>>
  <2>1. /\ enableMsgs'[x] = <<>> /\ value = TRUE
        /\ enabled' = TRUE
        /\ IF state = "FAULT" THEN state' = state /\ motors' = motors
           ELSE state' = "ENABLED_CLOSED_LOOP" /\ motors' = TRUE
    BY <1>1, <1>4, <1>7 DEF SetEnabled
  <2>2. (upset' <=> upset) /\ (~upset => state # "FAULT")
    BY <1>0, <1>1, <1>7, <2>1 DEF EnableInv
  <2>3. MotorsExpire'
    <3>1. state = "FAULT" => ~motors
      BY <1>0, <1>u DEF MotorsExpire
    <3>2. motors' => state' = "ENABLED_CLOSED_LOOP"
      BY <2>1, <3>1
    <3>3. age' <= CommandTimeout + 1 /\ age' <= CommandTimeout
      BY <1>1, ConstantsOK
    <3> QED
      BY <2>1, <3>2, <3>3 DEF MotorsExpire
  <2>4. EnableInv'
    BY <1>0, <1>1, <1>2, <2>1, <2>2, QueuesDiffer DEF EnableInv
  <2>5. ArmedInv'
    BY <2>1, <2>2 DEF ArmedInv
  <2> QED
    BY <1>u, <1>5, <2>3, <2>4, <2>5
<1> QED
  BY <1>3, <1>6, <1>7

\* One turn of the controller's loop.
LEMMA StepGimbal ==
    ASSUME GimbalInv, NEW ok \in BOOLEAN, Step(ok)
    PROVE  DeadInv' /\ MotorsExpire' /\ EnableInv' /\ SustainInv' /\ ArmedInv'
<1> USE DEF topics
<1>0. /\ TypeOK /\ DeadInv /\ MotorsExpire /\ EnableInv /\ SustainInv /\ ArmedInv
      /\ age \in Nat /\ CommandTimeout \in Nat \ {0} /\ age <= CommandTimeout + 1
      /\ motors \in BOOLEAN /\ enabled \in BOOLEAN /\ upset \in BOOLEAN
  BY ConstantsOK DEF GimbalInv, TypeOK
<1>1. /\ IF state = "FAULT" THEN motors' = FALSE /\ enabled' = enabled /\ state' = state
         ELSE IF ~ok \/ (enabled /\ TimedOut)
              THEN enabled' = FALSE /\ state' = "FAULT" /\ motors' = FALSE
         ELSE IF enabled THEN /\ state' = "ENABLED_CLOSED_LOOP" /\ motors' = TRUE
                              /\ enabled' = enabled
         ELSE state' = "IDLE" /\ motors' = FALSE /\ enabled' = enabled
      /\ upset' = (upset \/ (~ok /\ state # "FAULT"))
      /\ controllerUp
      /\ UNCHANGED <<indicating, due, blocked, enableMsgs, targeted, controllerUp, age, heldUp>>
  BY DEF Step, Fault, SafeOutputs, executors
<1>u. DeadInv'
  BY <1>1 DEF DeadInv
<1>2. TimedOut <=> age > CommandTimeout
  BY DEF TimedOut
<1>3. MotorsExpire'
  BY <1>0, <1>1, <1>2 DEF MotorsExpire
<1>4. ~upset' => ~upset /\ (state # "FAULT" => ok)
  BY <1>1
<1>5. EnableInv'
  <2> SUFFICES ASSUME NEW x \in Executors
               PROVE  /\ enableMsgs[x] \in {<<>>, <<TRUE>>, EnableSequence}
                      /\ enableMsgs[x] = <<TRUE>> /\ ~upset' => state' # "FAULT" /\ age = 0
    BY <1>1 DEF EnableInv
  <2>1. enableMsgs[x] = <<TRUE>> /\ ~upset => state # "FAULT" /\ age = 0
    BY <1>0 DEF EnableInv
  <2>2. age = 0 => ~TimedOut
    BY <1>0, <1>2
  <2>3. state # "FAULT" /\ ok /\ ~TimedOut => state' # "FAULT"
    BY <1>1
  <2> QED
    BY <1>0, <1>4, <2>1, <2>2, <2>3 DEF EnableInv
<1>6. SustainInv'
  BY <1>0, <1>1, <1>4 DEF SustainInv
<1>7. ArmedInv'
  <2> SUFFICES ASSUME NEW x \in Executors \ heldUp, indicating[x], ~upset',
                      \A y \in Executors : enableMsgs[y] = <<>>
               PROVE  state' = "ENABLED_CLOSED_LOOP" /\ enabled'
    BY <1>1 DEF ArmedInv
  <2>1. state = "ENABLED_CLOSED_LOOP" /\ enabled /\ ok
    BY <1>0, <1>4 DEF ArmedInv
  <2>2. age <= 1
    BY <1>0, <1>4 DEF SustainInv
  <2>3. ~TimedOut
    BY <1>0, <1>2, <2>2
  <2> QED
    BY <1>1, <2>1, <2>3
<1> QED
  BY <1>u, <1>3, <1>5, <1>6, <1>7

\* A target arrives, an operator stops the gimbal, its node dies or is started.
LEMMA CommandGimbal ==
    ASSUME GimbalInv,
           TargetMessage \/ OperatorStop \/ ControllerDies \/ ControllerStarts
    PROVE  DeadInv' /\ MotorsExpire' /\ EnableInv' /\ SustainInv' /\ ArmedInv'
<1> USE DEF topics, executors
<1>0. TypeOK /\ DeadInv /\ MotorsExpire /\ EnableInv /\ SustainInv /\ ArmedInv /\ CommandTimeout \in Nat
  BY ConstantsOK DEF GimbalInv
<1>1. CASE TargetMessage
  <2>1. /\ age' = 0
        /\ UNCHANGED <<indicating, due, blocked, enableMsgs, controllerUp, state, enabled,
                       motors, stepped, heldUp, upset>>
    BY <1>1 DEF TargetMessage, SetTarget
  <2>2. DeadInv' /\ MotorsExpire'
    BY <1>0, <2>1 DEF DeadInv, MotorsExpire
  <2>3. EnableInv' /\ ArmedInv'
    BY <1>0, <2>1 DEF EnableInv, ArmedInv
  <2>4. SustainInv'
    BY <1>0, <2>1 DEF SustainInv
  <2> QED
    BY <2>2, <2>3, <2>4
<1>2. CASE OperatorStop \/ ControllerDies \/ ControllerStarts
  <2>1. /\ ~motors' \/ ~controllerUp'
        /\ upset' /\ UNCHANGED <<indicating, blocked, heldUp>>
        /\ \A x \in Executors : enableMsgs'[x] \in {enableMsgs[x], <<>>}
        /\ ~controllerUp' => \A x \in Executors : enableMsgs'[x] = <<>>
    BY <1>0, <1>2 DEF OperatorStop, Stop, ControllerDies, ControllerStarts, SafeOutputs, DeadInv
  <2>2. DeadInv' /\ MotorsExpire' /\ SustainInv' /\ ArmedInv'
    BY <1>0, <2>1 DEF DeadInv, MotorsExpire, SustainInv, ArmedInv
  <2>3. EnableInv'
    BY <1>0, <2>1 DEF EnableInv
  <2> QED
    BY <2>2, <2>3
<1> QED
  BY <1>1, <1>2

\* A tick waits for the targets of every routine that is not held up.
LEMMA TickGimbal ==
    ASSUME GimbalInv, Tick
    PROVE  DeadInv' /\ MotorsExpire' /\ EnableInv' /\ SustainInv' /\ ArmedInv'
<1> USE DEF topics
<1>0. /\ TypeOK /\ DeadInv /\ MotorsExpire /\ EnableInv /\ SustainInv /\ ArmedInv
      /\ age \in Nat /\ CommandTimeout \in Nat \ {0} /\ age <= CommandTimeout + 1
      /\ blocked \in [Executors -> 0 .. BlockMax]
  BY ConstantsOK DEF GimbalInv, TypeOK
<1>1. /\ \A x \in Executors : enableMsgs[x] = <<>> /\ enableMsgs'[x] = <<>>
      /\ ~targeted /\ (controllerUp => stepped)
      /\ \A x \in Executors : blocked[x] = 0 => ~due[x]
      /\ due' = indicating
      /\ blocked' = [x \in Executors |-> IF blocked[x] > 0 THEN blocked[x] - 1 ELSE 0]
      /\ age' = IF age <= CommandTimeout THEN age + 1 ELSE age
      /\ stepped' = FALSE
      /\ UNCHANGED <<indicating, controllerUp, state, enabled, motors, heldUp, upset>>
  BY DEF Tick
<1>2. DeadInv' /\ MotorsExpire'
  BY <1>0, <1>1 DEF DeadInv, MotorsExpire
<1>3. EnableInv' /\ ArmedInv'
  BY <1>0, <1>1, QueuesDiffer DEF EnableInv, ArmedInv
<1>4. SustainInv'
  <2> SUFFICES ASSUME NEW x \in Executors, indicating[x], x \notin heldUp
               PROVE  blocked'[x] = 0 /\ (~upset => age' <= 1 /\ due'[x])
    BY <1>1 DEF SustainInv
  <2>1. blocked[x] = 0 /\ blocked'[x] = 0
    BY <1>0, <1>1 DEF SustainInv
  <2>2. ~upset => age <= 1 /\ age # 1
    BY <1>0, <1>1, <2>1 DEF SustainInv
  <2> QED
    BY <1>0, <1>1, <2>1, <2>2
<1> QED
  BY <1>2, <1>3, <1>4

LEMMA GimbalPreserved == GimbalInv /\ [Next]_vars => GimbalInv'
<1> SUFFICES ASSUME GimbalInv, [Next]_vars PROVE GimbalInv'
  OBVIOUS
<1>0. TypeOK /\ TypeOK'
  BY NextTypes DEF GimbalInv
<1>1. SUFFICES DeadInv' /\ MotorsExpire' /\ EnableInv' /\ SustainInv' /\ ArmedInv'
  BY <1>0 DEF GimbalInv
<1>2. CASE \E x \in Executors :
             \/ StartLaser(x) \/ AimTick(x) \/ StopLaser(x) \/ Restart(x)
             \/ \E ticks \in 1 .. BlockMax : Block(x, ticks)
  BY <1>2, RoutineGimbal
<1>3. CASE \E x \in Executors : EnableMessage(x)
  BY <1>3, EnableGimbal
<1>4. CASE \E ok \in BOOLEAN : Step(ok)
  BY <1>4, StepGimbal
<1>5. CASE TargetMessage \/ OperatorStop \/ ControllerDies \/ ControllerStarts
  BY <1>5, CommandGimbal
<1>6. CASE Tick
  BY <1>6, TickGimbal
<1>7. CASE \/ \E value \in BOOLEAN : AimEnable(value)
           \/ \E target, centered \in BOOLEAN : AimStatus(target, centered)
           \/ \E p \in Publishers, ok \in BOOLEAN : LaserMessage(p, ok)
           \/ AimRestart \/ LaserDies \/ LaserStarts \/ UNCHANGED vars
  <2>1. targeted => targeted'
    <3>1. CASE \E target, centered \in BOOLEAN : AimStatus(target, centered)
      BY <3>1 DEF AimStatus
    <3>2. CASE \/ \E value \in BOOLEAN : AimEnable(value)
               \/ \E p \in Publishers, ok \in BOOLEAN : LaserMessage(p, ok)
               \/ AimRestart \/ LaserDies \/ LaserStarts \/ UNCHANGED vars
      <4>1. targeted' = targeted
        BY <3>2 DEF AimEnable, LaserMessage, AimRestart, LaserDies, LaserStarts, vars, topics
      <4> QED
        BY <4>1
    <3> QED
      BY <1>7, <3>1, <3>2
  <2>2. UNCHANGED <<indicating, due, blocked, enableMsgs, controllerUp, state, enabled,
                    motors, age, stepped, heldUp, upset>>
    BY <1>7 DEF AimEnable, AimStatus, LaserMessage, AimRestart, LaserDies, LaserStarts, vars,
       executors, gimbal, topics
  <2> QED
    BY <2>1, <2>2, OthersGimbal
<1> QED
  BY <1>2, <1>3, <1>4, <1>5, <1>6, <1>7 DEF Next

-----------------------------------------------------------------------------
(***************************************************************************)
(* The theorems.                                                           *)
(***************************************************************************)
\* The invariant of the laser's node, its pin and its publishers is inductive.
THEOREM LaserInvariant == Spec => []LaserInv
<1>1. Init => LaserInv
  BY InitLaser
<1>2. LaserInv /\ [Next]_vars => LaserInv'
  BY LaserPreserved
<1> QED
  BY <1>1, <1>2, PTL DEF Spec

\* So is that of the gimbal's controller and the routines that arm it.
THEOREM GimbalInvariant == Spec => []GimbalInv
<1>1. Init => GimbalInv
  BY InitGimbal
<1>2. GimbalInv /\ [Next]_vars => GimbalInv'
  BY GimbalPreserved
<1> QED
  BY <1>1, <1>2, PTL DEF Spec

\* Every variable keeps its type.
THEOREM TypeCorrect == Spec => []TypeOK
<1>1. LaserInv => TypeOK
  BY DEF LaserInv
<1> QED
  BY <1>1, LaserInvariant, PTL

\* The light is on for somebody who points at something, until the message that
\* switches it off, or because a process was restarted, a write failed or
\* laser_node is dead.
THEOREM LightIsCaused == Spec => []LightHasCause
<1>1. LaserInv => LightHasCause
  BY DEF LaserInv
<1> QED
  BY <1>1, LaserInvariant, PTL

\* Whoever points has the light, unless the pin could not be written or another
\* publisher switched it off.
THEOREM PointingIsLit == Spec => []LightOn
<1>1. LaserInv => LightOn
  BY DEF LaserInv
<1> QED
  BY <1>1, LaserInvariant, PTL

\* A controller that is there drives the motors only while somebody commands it.
THEOREM MotorsNeedCommands == Spec => []MotorsExpire
<1>1. GimbalInv => MotorsExpire
  BY DEF GimbalInv
<1> QED
  BY <1>1, GimbalInvariant, PTL

\* A routine arms the gimbal from whatever state it finds, and keeps it armed
\* to its end.
THEOREM RoutineArmsGimbal == Spec => []PointingIsArmed
<1>1. GimbalInv => PointingIsArmed
  BY DEF GimbalInv, ArmedInv, PointingIsArmed
<1> QED
  BY <1>1, GimbalInvariant, PTL
=============================================================================
