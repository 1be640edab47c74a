------------------------------ MODULE BridgeProofs ------------------------------
(***************************************************************************)
(* Proofs about Bridge for every timeout, queue depth and width of the     *)
(* encoder counts.                                                         *)
(***************************************************************************)
EXTENDS Bridge, TLAPS

LEMMA Parameters ==
    /\ CmdVelTimeout \in Nat /\ FwTimeout \in Nat /\ ReconnectTicks \in Nat
    /\ AssertTicks \in Nat /\ Half \in Nat \ {0} /\ TopicDepth \in Nat \ {0}
    /\ RxMax \in Nat \ {0} /\ MaxTurn \in Nat /\ BlockMax \in Nat
    /\ MaxIncidents \in Nat
    /\ CountMod = 2 * Half /\ MaxTurn < Half
    /\ RunOn = CmdVelTimeout + FwTimeout
  BY ConstantsOK DEF RunOn

Counts == 0 .. CountMod - 1

Frames == [mode : {"IDLE", "wanted"}, count : Counts, turned : Displacements]

-----------------------------------------------------------------------------
(***************************************************************************)
(* Queues: what is in one, and what its operators leave in it.             *)
(***************************************************************************)
Holds(q, x) == \E k \in 1 .. Len(q) : q[k] = x

LEMMA TailOf ==
    ASSUME NEW S, NEW q \in Seq(S), q # <<>>
    PROVE  /\ Head(q) \in S /\ Tail(q) \in Seq(S)
           /\ Len(q) \in Nat \ {0} /\ Len(Tail(q)) = Len(q) - 1
           /\ \A k \in 1 .. Len(Tail(q)) : Tail(q)[k] = q[k + 1]
           /\ Holds(q, Head(q))
           /\ \A x : Holds(Tail(q), x) => Holds(q, x)
<1>1. /\ Head(q) \in S /\ Tail(q) \in Seq(S)
      /\ Len(q) \in Nat \ {0} /\ Len(Tail(q)) = Len(q) - 1
      /\ \A k \in 1 .. Len(Tail(q)) : Tail(q)[k] = q[k + 1]
      /\ Head(q) = q[1]
  OBVIOUS
<1>2. Holds(q, Head(q))
  BY <1>1 DEF Holds
<1>3. ASSUME NEW x, Holds(Tail(q), x) PROVE Holds(q, x)
  <2>1. PICK k \in 1 .. Len(Tail(q)) : Tail(q)[k] = x
    BY <1>3 DEF Holds
  <2>2. k + 1 \in 1 .. Len(q) /\ q[k + 1] = x
    BY <1>1, <2>1
  <2> QED
    BY <2>2 DEF Holds
<1> QED
  BY <1>1, <1>2, <1>3

LEMMA AppendTo ==
    ASSUME NEW S, NEW q \in Seq(S), NEW e \in S
    PROVE  /\ Append(q, e) \in Seq(S) /\ Len(q) \in Nat
           /\ Len(Append(q, e)) = Len(q) + 1
           /\ \A k \in 1 .. Len(q) : Append(q, e)[k] = q[k]
           /\ Append(q, e)[Len(q) + 1] = e
           /\ \A x : Holds(Append(q, e), x) => Holds(q, x) \/ x = e
<1>1. /\ Append(q, e) \in Seq(S) /\ Len(q) \in Nat
      /\ Len(Append(q, e)) = Len(q) + 1
      /\ \A k \in 1 .. Len(q) : Append(q, e)[k] = q[k]
      /\ Append(q, e)[Len(q) + 1] = e
  OBVIOUS
<1>2. ASSUME NEW x, Holds(Append(q, e), x) PROVE Holds(q, x) \/ x = e
  <2>1. PICK k \in 1 .. Len(Append(q, e)) : Append(q, e)[k] = x
    BY <1>2 DEF Holds
  <2>2. k \in 1 .. Len(q) \/ k = Len(q) + 1
    BY <1>1, <2>1
  <2> QED
    BY <1>1, <2>1, <2>2 DEF Holds
<1> QED
  BY <1>1, <1>2

LEMMA EmptyQueue ==
    ASSUME NEW S
    PROVE  <<>> \in Seq(S) /\ Len(<<>>) = 0 /\ \A x : ~Holds(<<>>, x)
  BY DEF Holds

\* A subscription's queue keeps its depth.
LEMMA QueuedQueue ==
    ASSUME NEW moves \in BOOLEAN, cmdVels \in Seq(BOOLEAN), Len(cmdVels) <= TopicDepth
    PROVE  /\ Queued(moves) \in Seq(BOOLEAN) /\ Len(Queued(moves)) <= TopicDepth
           /\ \A x : Holds(Queued(moves), x) => Holds(cmdVels, x) \/ x = moves
<1> DEFINE kept == IF Len(cmdVels) = TopicDepth THEN Tail(cmdVels) ELSE cmdVels
<1>1. /\ kept \in Seq(BOOLEAN) /\ Len(kept) < TopicDepth /\ Len(kept) \in Nat
      /\ \A x : Holds(kept, x) => Holds(cmdVels, x)
  <2>1. CASE Len(cmdVels) = TopicDepth
    <3>1. cmdVels # <<>>
      BY <2>1, Parameters
    <3>2. /\ Tail(cmdVels) \in Seq(BOOLEAN) /\ Len(Tail(cmdVels)) = Len(cmdVels) - 1
          /\ \A x : Holds(Tail(cmdVels), x) => Holds(cmdVels, x)
      BY <3>1, TailOf
    <3> QED
      BY <2>1, <3>2, Parameters
  <2>2. CASE Len(cmdVels) # TopicDepth
    <3>1. Len(cmdVels) \in Nat
      OBVIOUS
    <3> QED
      BY <2>2, <3>1, Parameters
  <2> QED
    BY <2>1, <2>2
<1> HIDE DEF kept
<1>2. /\ Append(kept, moves) \in Seq(BOOLEAN)
      /\ Len(Append(kept, moves)) = Len(kept) + 1
      /\ \A x : Holds(Append(kept, moves), x) => Holds(kept, x) \/ x = moves
  BY <1>1, AppendTo, Zenon
<1>3. Len(Append(kept, moves)) <= TopicDepth
  BY <1>1, <1>2, Parameters
<1>4. Queued(moves) = Append(kept, moves)
  BY DEF Queued, kept
<1> QED
  BY <1>1, <1>2, <1>3, <1>4, Zenon

-----------------------------------------------------------------------------
(***************************************************************************)
(* Type correctness.                                                       *)
(***************************************************************************)
LEMMA SumType ==
    ASSUME NEW a \in Displacements, NEW b \in Displacements
    PROVE  Sum(a, b) \in Displacements
  BY Parameters DEF Sum, Displacements, Unknown

LEMMA ZeroDisplacement == 0 \in Displacements /\ 0 \in Counts /\ Turns \subseteq Displacements
  BY Parameters DEF Displacements, Counts, Turns

LEMMA NextAge ==
    ASSUME NEW cap \in Nat, NEW age \in 0 .. cap
    PROVE  Older(age, cap) \in 0 .. cap
  BY DEF Older

LEMMA NextCountdown ==
    ASSUME NEW top \in Nat, NEW n \in 0 .. top
    PROVE  Less(n) \in 0 .. top
  BY DEF Less

LEMMA CountRange ==
    ASSUME NEW c \in Counts, NEW turn \in Turns
    PROVE  (c + turn) % CountMod \in Counts
<1>1. c + turn \in Int /\ CountMod \in Nat \ {0}
  BY Parameters DEF Counts, Turns
<1>2. \A a \in Int, b \in Nat \ {0} : a % b \in 0 .. b - 1
  OBVIOUS
<1> QED
  BY <1>1, <1>2 DEF Counts

\* The type invariant in the parts an action disturbs one at a time.
QueueTypes ==
    /\ cmdVels \in Seq(BOOLEAN) /\ Len(cmdVels) <= TopicDepth
    /\ toFw \in Seq(Commands)
    /\ fromFw \in Seq(Frames) /\ Len(fromFw) <= RxMax

PortTypes ==
    /\ ser \in {"none", "open", "dead"} /\ present \in BOOLEAN
    /\ ser = "open" => present
    /\ ser # "open" => fromFw = <<>>

AgeTypes ==
    /\ cmdVelAge \in 0 .. CmdVelTimeout + 1 /\ openIn \in 0 .. ReconnectTicks
    /\ assertIn \in 0 .. AssertTicks /\ blocked \in 0 .. BlockMax
    /\ fwAge \in 0 .. FwTimeout + 1 /\ since \in 0 .. RunOn + 1
    /\ incidents \in 0 .. MaxIncidents

StateTypes ==
    /\ target \in BOOLEAN /\ due \in BOOLEAN /\ moving \in BOOLEAN /\ wrong \in BOOLEAN
    /\ mode \in {"IDLE", "wanted"}
    /\ base \in Counts \cup {NoBase} /\ count \in Counts
    /\ turned \in Displacements /\ owed \in Displacements

Types == QueueTypes /\ PortTypes /\ AgeTypes /\ StateTypes

LEMMA TypesSuffice == Types => TypeOK
  BY DEF Types, QueueTypes, PortTypes, AgeTypes, StateTypes, TypeOK, Frames, Counts

LEMMA InitTypes == Init => Types
<1> SUFFICES ASSUME Init PROVE Types
  OBVIOUS
<1>1. <<>> \in Seq(BOOLEAN) /\ <<>> \in Seq(Commands) /\ <<>> \in Seq(Frames) /\ Len(<<>>) = 0
  BY EmptyQueue
<1>2. QueueTypes /\ PortTypes
  BY <1>1, Parameters DEF Init, BridgeInit, QueueTypes, PortTypes
<1>3. AgeTypes
  BY Parameters DEF Init, BridgeInit, AgeTypes
<1>4. StateTypes
  BY ZeroDisplacement DEF Init, BridgeInit, StateTypes, NoBase
<1> QED
  BY <1>2, <1>3, <1>4 DEF Types

LEMMA NextIncident == AgeTypes /\ Incident => incidents' \in 0 .. MaxIncidents
  BY Parameters DEF AgeTypes, Incident

\* Every action below is taken in a state of the right types.
LEMMA CmdVelTypes ==
    ASSUME Types, (\E moves \in BOOLEAN : Publish(moves)) \/ OnCmdVel
    PROVE  Types'
<1> USE DEF Types, bridge, port, firmware, odometryHistory
<1>1. ASSUME NEW moves \in BOOLEAN, Publish(moves) PROVE Types'
  <2>1. QueueTypes'
    <3>1. Queued(moves) \in Seq(BOOLEAN) /\ Len(Queued(moves)) <= TopicDepth
      BY QueuedQueue, Zenon DEF QueueTypes
    <3> QED
      BY <1>1, <3>1 DEF Publish, QueueTypes
  <2>2. PortTypes' /\ StateTypes'
    BY <1>1 DEF Publish, PortTypes, StateTypes
  <2>3. AgeTypes'
    BY <1>1, Parameters DEF Publish, AgeTypes
  <2> QED
    BY <2>1, <2>2, <2>3
<1>2. ASSUME OnCmdVel PROVE Types'
  <2>1. /\ Head(cmdVels) \in BOOLEAN /\ Tail(cmdVels) \in Seq(BOOLEAN)
        /\ Len(Tail(cmdVels)) <= TopicDepth
    <3>1. /\ Head(cmdVels) \in BOOLEAN /\ Tail(cmdVels) \in Seq(BOOLEAN)
          /\ Len(cmdVels) \in Nat \ {0} /\ Len(Tail(cmdVels)) = Len(cmdVels) - 1
      BY <1>2, TailOf, Zenon DEF OnCmdVel, QueueTypes
    <3>2. Len(cmdVels) <= TopicDepth
      BY DEF QueueTypes
    <3>3. Len(Tail(cmdVels)) <= TopicDepth
      BY <3>1, <3>2, Parameters
    <3> QED
      BY <3>1, <3>3
  <2>2. QueueTypes'
    BY <1>2, <2>1 DEF OnCmdVel, QueueTypes
  <2>3. PortTypes'
    BY <1>2 DEF OnCmdVel, PortTypes
  <2>4. StateTypes'
    BY <1>2, <2>1, Zenon DEF OnCmdVel, StateTypes
  <2>5. AgeTypes'
    BY <1>2, Parameters DEF OnCmdVel, AgeTypes
  <2> QED
    BY <2>2, <2>3, <2>4, <2>5
<1> QED
  BY <1>1, <1>2

LEMMA CmdTimerTypes ==
    ASSUME Types, NEW ticks \in 0 .. BlockMax, OnCmdTimer(ticks)
    PROVE  Types'
<1> USE DEF Types, firmware, odometryHistory
<1>1. /\ UNCHANGED <<cmdVels, cmdVelAge, assertIn, present, fromFw, mode, moving, fwAge,
                     count, turned, owed, wrong, since>>
      /\ due' = FALSE /\ blocked' = ticks
  BY DEF OnCmdTimer
<1>2. incidents' \in 0 .. MaxIncidents
  BY NextIncident DEF OnCmdTimer, AgeTypes
<1>3. \A f \in Commands : Append(toFw, f) \in Seq(Commands)
  BY AppendTo DEF QueueTypes
<1>4. {"SET_MODE", "go", "halt"} \subseteq Commands
  BY DEF Commands
<1>5. CASE EnsureSerial
  <2>1. target' = target /\ openIn' \in 0 .. ReconnectTicks
    BY <1>5, Parameters DEF EnsureSerial, AgeTypes
  <2>2. ser' \in {"none", "open", "dead"} /\ (ser' = "open" => present)
    BY <1>5 DEF EnsureSerial, PortTypes
  <2>3. ser' # "open" => fromFw = <<>>
    BY <1>5 DEF EnsureSerial, PortTypes
  <2>4. toFw' \in Seq(Commands) /\ base' \in Counts \cup {NoBase}
    BY <1>3, <1>4, <1>5 DEF EnsureSerial, Resync, QueueTypes, StateTypes
  <2> QED
    BY <1>1, <1>2, <2>1, <2>2, <2>3, <2>4
       DEF QueueTypes, PortTypes, AgeTypes, StateTypes
<1>6. CASE SendTarget
  <2>1. target' \in BOOLEAN
    BY <1>6 DEF SendTarget, Fresh
  <2>2. ser' \in {"none", "open", "dead"} /\ (ser' = "open" => ser = "open")
    BY <1>6 DEF SendTarget
  <2>3. ser' # "open" => fromFw = <<>>
    BY <1>6 DEF SendTarget, PortTypes
  <2>4. toFw' \in Seq(Commands)
    BY <1>3, <1>4, <1>6 DEF SendTarget, QueueTypes
  <2>5. UNCHANGED <<openIn, base>>
    BY <1>6 DEF SendTarget
  <2>6. QueueTypes' /\ AgeTypes'
    BY <1>1, <1>2, <2>4, <2>5 DEF QueueTypes, AgeTypes
  <2>7. PortTypes'
    BY <1>1, <2>2, <2>3 DEF PortTypes
  <2>8. StateTypes'
    BY <1>1, <2>1, <2>5 DEF StateTypes
  <2> QED
    BY <2>6, <2>7, <2>8
<1> QED
  BY <1>5, <1>6 DEF OnCmdTimer

LEMMA HeadFrame ==
    ASSUME QueueTypes, fromFw # <<>>
    PROVE  /\ Head(fromFw) \in Frames /\ Head(fromFw).count \in Counts
           /\ Head(fromFw).turned \in Displacements
           /\ Tail(fromFw) \in Seq(Frames) /\ Len(Tail(fromFw)) <= RxMax
<1>1. /\ Head(fromFw) \in Frames /\ Tail(fromFw) \in Seq(Frames)
      /\ Len(fromFw) \in Nat \ {0} /\ Len(Tail(fromFw)) = Len(fromFw) - 1
  BY TailOf DEF QueueTypes
<1>2. Head(fromFw).count \in Counts /\ Head(fromFw).turned \in Displacements
  BY <1>1 DEF Frames
<1>3. Len(Tail(fromFw)) <= RxMax
  BY <1>1, Parameters DEF QueueTypes
<1> QED
  BY <1>1, <1>2, <1>3

LEMMA SerialPollTypes ==
    ASSUME Types, NEW status \in BOOLEAN, NEW odom \in BOOLEAN, OnSerialPoll(status, odom)
    PROVE  Types'
<1> USE DEF Types, firmware
<1>1. /\ UNCHANGED <<cmdVels, target, cmdVelAge, ser, openIn, due, blocked, present, mode,
                     moving, fwAge, count, turned, since>>
      /\ ser = "open" /\ fromFw # <<>> /\ fromFw' = Tail(fromFw)
  BY DEF OnSerialPoll
<1>2. /\ Head(fromFw).count \in Counts /\ Head(fromFw).turned \in Displacements
      /\ Tail(fromFw) \in Seq(Frames) /\ Len(Tail(fromFw)) <= RxMax
  BY <1>1, HeadFrame
<1>3. incidents' \in 0 .. MaxIncidents
  BY NextIncident DEF OnSerialPoll, AgeTypes
<1>4. toFw' \in Seq(Commands) /\ assertIn' \in 0 .. AssertTicks
  <2>1. Append(toFw, "SET_MODE") \in Seq(Commands)
    BY AppendTo DEF QueueTypes, Commands
  <2>2. AssertTicks \in 0 .. AssertTicks
    BY Parameters
  <2> QED
    BY <2>1, <2>2 DEF OnSerialPoll, HandleStatus, QueueTypes, AgeTypes
<1>5. base' \in Counts \cup {NoBase} /\ owed' \in Displacements /\ wrong' \in BOOLEAN
  <2>1. CASE odom
    BY <1>2, <2>1, ZeroDisplacement DEF OnSerialPoll, HandleOdom
  <2>2. CASE ~odom
    BY <1>2, <2>2, SumType DEF OnSerialPoll, StateTypes
  <2> QED
    BY <2>1, <2>2
<1>6. QueueTypes' /\ PortTypes'
  BY <1>1, <1>2, <1>4 DEF QueueTypes, PortTypes
<1>7. AgeTypes'
  BY <1>1, <1>3, <1>4 DEF AgeTypes
<1>8. StateTypes'
  BY <1>1, <1>5 DEF StateTypes
<1> QED
  BY <1>6, <1>7, <1>8

LEMMA DispatchTypes ==
    ASSUME Types, NEW arrives \in BOOLEAN, Dispatch(arrives)
    PROVE  Types'
<1> USE DEF Types, bridge, odometryHistory
<1>1. /\ UNCHANGED <<cmdVels, target, cmdVelAge, ser, openIn, assertIn, base, due, blocked,
                     present, fromFw, count, turned, owed, wrong, since>>
      /\ toFw # <<>> /\ toFw' = Tail(toFw)
  BY DEF Dispatch
<1>2. Tail(toFw) \in Seq(Commands)
  BY <1>1, TailOf DEF QueueTypes
<1>3. incidents' \in 0 .. MaxIncidents
  BY NextIncident DEF Dispatch, AgeTypes
<1>4. mode' \in {"IDLE", "wanted"}
  BY DEF Dispatch, StateTypes
<1>5. moving' \in BOOLEAN
  BY DEF Dispatch, StateTypes
<1>6. fwAge' \in 0 .. FwTimeout + 1
  <2>1. 0 \in 0 .. FwTimeout + 1
    BY Parameters
  <2> QED
    BY <2>1 DEF Dispatch, AgeTypes
<1>7. QueueTypes' /\ PortTypes'
  BY <1>1, <1>2 DEF QueueTypes, PortTypes
<1>8. AgeTypes'
  BY <1>1, <1>3, <1>6 DEF AgeTypes
<1>9. StateTypes'
  BY <1>1, <1>4, <1>5 DEF StateTypes
<1> QED
  BY <1>7, <1>8, <1>9

LEMMA PortEventTypes ==
    ASSUME Types, PollRaises \/ FwReset \/ Enumerate
    PROVE  Types'
<1> USE DEF Types, bridge, port, firmware, odometryHistory
<1>1. <<>> \in Seq(Commands) /\ <<>> \in Seq(Frames) /\ Len(<<>>) = 0
  BY EmptyQueue
<1>2. CASE PollRaises
  <2>1. UNCHANGED <<cmdVels, target, cmdVelAge, openIn, assertIn, base, due, blocked,
                    present, toFw, fromFw, mode, moving, fwAge, count, turned, owed,
                    wrong, since, incidents>>
    BY <1>2 DEF PollRaises
  <2>2. PortTypes'
    BY <1>2, <2>1 DEF PollRaises, PortTypes
  <2> QED
    BY <2>1, <2>2 DEF QueueTypes, AgeTypes, StateTypes
<1>3. CASE FwReset
  <2>1. /\ UNCHANGED <<cmdVels, target, cmdVelAge, openIn, assertIn, base, due, wrong, since>>
        /\ ser' = (IF ser = "open" THEN "dead" ELSE ser)
        /\ toFw' = <<>> /\ fromFw' = <<>> /\ present' = FALSE
        /\ mode' = "IDLE" /\ moving' = FALSE /\ fwAge' = 0 /\ count' = 0
        /\ turned' = 0 /\ owed' = 0 /\ blocked' = 0
    BY <1>3 DEF FwReset, PortGoes
  <2>2. incidents' \in 0 .. MaxIncidents
    BY <1>3, NextIncident DEF FwReset
  <2>3. QueueTypes'
    BY <1>1, <2>1, Parameters DEF QueueTypes
  <2>4. PortTypes'
    BY <2>1 DEF PortTypes
  <2>5. AgeTypes'
    BY <2>1, <2>2, Parameters DEF AgeTypes
  <2>6. StateTypes'
    BY <2>1, ZeroDisplacement DEF StateTypes
  <2> QED
    BY <2>3, <2>4, <2>5, <2>6
<1>4. CASE Enumerate
  <2>1. UNCHANGED <<cmdVels, target, cmdVelAge, ser, openIn, assertIn, base, due, blocked,
                    toFw, fromFw, mode, moving, fwAge, count, turned, owed, wrong,
                    since, incidents>>
        /\ present' = TRUE
    BY <1>4 DEF Enumerate
  <2> QED
    BY <2>1 DEF QueueTypes, PortTypes, AgeTypes, StateTypes
<1> QED
  BY <1>2, <1>3, <1>4

LEMMA RestartTypes ==
    ASSUME Types, NEW stops \in BOOLEAN, Restart(stops)
    PROVE  Types'
<1> USE DEF Types, firmware, odometryHistory
<1>1. /\ UNCHANGED <<present, mode, moving, fwAge, count, turned, owed, wrong, since>>
      /\ cmdVels' = <<>> /\ target' = FALSE /\ cmdVelAge' = CmdVelTimeout + 1
      /\ ser' = "none" /\ openIn' = 0 /\ assertIn' = 0 /\ base' = NoBase
      /\ due' = TRUE /\ blocked' = 0 /\ fromFw' = <<>>
  BY DEF Restart
<1>2. <<>> \in Seq(BOOLEAN) /\ <<>> \in Seq(Frames) /\ Len(<<>>) = 0
  BY EmptyQueue
<1>3. incidents' \in 0 .. MaxIncidents
  BY NextIncident DEF Restart
<1>4. toFw' \in Seq(Commands)
  <2>1. Append(toFw, "STOP") \in Seq(Commands)
    BY AppendTo DEF QueueTypes, Commands
  <2> QED
    BY <2>1 DEF Restart, QueueTypes
<1>5. QueueTypes'
  BY <1>1, <1>2, <1>4, Parameters DEF QueueTypes
<1>6. PortTypes'
  BY <1>1 DEF PortTypes
<1>7. AgeTypes'
  BY <1>1, <1>3, Parameters DEF AgeTypes
<1>8. StateTypes'
  BY <1>1 DEF StateTypes
<1> QED
  BY <1>5, <1>6, <1>7, <1>8

LEMMA TickTypes ==
    ASSUME Types, NEW turn \in Turns, Tick(turn)
    PROVE  Types'
<1> USE DEF Types
<1>1. /\ UNCHANGED <<cmdVels, target, ser, base, present, toFw, mode, owed, wrong, incidents>>
      /\ due' = TRUE /\ moving' \in BOOLEAN
      /\ count' = (count + turn) % CountMod
  BY DEF Tick
<1>2. count' \in Counts
  BY <1>1, CountRange DEF StateTypes
<1>3. Sum(turned, turn) \in Displacements /\ 0 \in Displacements
  BY SumType, ZeroDisplacement DEF StateTypes
<1>4. turned' \in Displacements
  BY <1>3 DEF Tick
<1>5. /\ fromFw' \in Seq(Frames) /\ Len(fromFw') <= RxMax
      /\ ser # "open" => fromFw' = fromFw
  <2>1. CASE ser = "open" /\ Len(fromFw) < RxMax
    <3> DEFINE f == [mode |-> mode, count |-> count', turned |-> Sum(turned, turn)]
    <3>1. f \in Frames
      BY <1>2, <1>3 DEF Frames, StateTypes
    <3>2. fromFw' = Append(fromFw, f)
      BY <2>1 DEF Tick
    <3> HIDE DEF f
    <3>3. /\ Append(fromFw, f) \in Seq(Frames) /\ Len(fromFw) \in Nat
          /\ Len(Append(fromFw, f)) = Len(fromFw) + 1
      BY <3>1, AppendTo DEF QueueTypes
    <3> QED
      BY <2>1, <3>2, <3>3, Parameters
  <2>2. CASE ~(ser = "open" /\ Len(fromFw) < RxMax)
    BY <2>2 DEF Tick, QueueTypes
  <2> QED
    BY <2>1, <2>2
<1>6. AgeTypes'
  <2>1. /\ cmdVelAge' = Older(cmdVelAge, CmdVelTimeout + 1)
        /\ openIn' = Less(openIn) /\ assertIn' = Less(assertIn) /\ blocked' = Less(blocked)
        /\ since' = (IF blocked = 0 THEN Older(since, RunOn + 1) ELSE since)
        /\ fwAge' = Older(fwAge, FwTimeout + 1)
    BY DEF Tick
  <2>2. RunOn + 1 \in Nat /\ CmdVelTimeout + 1 \in Nat /\ FwTimeout + 1 \in Nat
    BY Parameters
  <2>3. /\ Older(cmdVelAge, CmdVelTimeout + 1) \in 0 .. CmdVelTimeout + 1
        /\ Older(since, RunOn + 1) \in 0 .. RunOn + 1
        /\ Older(fwAge, FwTimeout + 1) \in 0 .. FwTimeout + 1
    BY <2>2, NextAge DEF AgeTypes
  <2>4. /\ Less(openIn) \in 0 .. ReconnectTicks /\ Less(assertIn) \in 0 .. AssertTicks
        /\ Less(blocked) \in 0 .. BlockMax
    BY NextCountdown, Parameters DEF AgeTypes
  <2> QED
    BY <1>1, <2>1, <2>3, <2>4 DEF AgeTypes
<1>7. QueueTypes'
  BY <1>1, <1>5 DEF QueueTypes
<1>8. PortTypes'
  BY <1>1, <1>5 DEF PortTypes
<1>9. StateTypes'
  BY <1>1, <1>2, <1>4 DEF StateTypes
<1> QED
  BY <1>6, <1>7, <1>8, <1>9

LEMMA NextTypes == Types /\ [Next]_vars => Types'
<1> SUFFICES ASSUME Types, [Next]_vars PROVE Types'
  OBVIOUS
<1>1. CASE (\E moves \in BOOLEAN : Publish(moves)) \/ OnCmdVel
  BY <1>1, CmdVelTypes
<1>2. CASE \E ticks \in 0 .. BlockMax : OnCmdTimer(ticks)
  BY <1>2, CmdTimerTypes
<1>3. CASE \E status, odom \in BOOLEAN : OnSerialPoll(status, odom)
  BY <1>3, SerialPollTypes
<1>4. CASE \E arrives \in BOOLEAN : Dispatch(arrives)
  BY <1>4, DispatchTypes
<1>5. CASE PollRaises \/ FwReset \/ Enumerate
  BY <1>5, PortEventTypes
<1>6. CASE \E stops \in BOOLEAN : Restart(stops)
  BY <1>6, RestartTypes
<1>7. CASE \E turn \in Turns : Tick(turn)
  BY <1>7, TickTypes
<1>8. CASE UNCHANGED vars
  BY <1>8 DEF vars, bridge, port, firmware, odometryHistory, Types, QueueTypes, PortTypes,
              AgeTypes, StateTypes
<1> QED
  BY <1>1, <1>2, <1>3, <1>4, <1>5, <1>6, <1>7, <1>8 DEF Next

\* The bridge, the port and the firmware keep their types, and the bridge
\* never takes a port that is gone for an open one.
THEOREM TypeCorrect == Spec => []TypeOK
  BY InitTypes, NextTypes, TypesSuffice, PTL DEF Spec

-----------------------------------------------------------------------------
(***************************************************************************)
(* Motion.  MotionFresh is not inductive: a velocity is on its way through *)
(* the subscription's queue, the target, the wire and the setpoint, and    *)
(* each stage has its own clock.  The invariant says of each how long the  *)
(* /cmd_vel behind it can have been published.                             *)
(***************************************************************************)
\* A message that moves waits in the queue only while the thread is blocked.
MessageInv == Holds(cmdVels, TRUE) => since = 0

\* _target is no older than _last_cmd_vel_ts says, as long as it is sent.
TargetInv == target /\ cmdVelAge <= CmdVelTimeout => since <= cmdVelAge

WireInv == Holds(toFw, "go") => since <= CmdVelTimeout

DriveInv == moving => fwAge <= FwTimeout /\ since <= CmdVelTimeout + fwAge

MotionInv == MessageInv /\ TargetInv /\ WireInv /\ DriveInv

LEMMA InitMotionInv == Init => MotionInv
  BY EmptyQueue DEF Init, BridgeInit, MotionInv, MessageInv, TargetInv, WireInv, DriveInv

LEMMA CmdVelMotionInv ==
    ASSUME Types, MotionInv, (\E moves \in BOOLEAN : Publish(moves)) \/ OnCmdVel
    PROVE  MotionInv'
<1> USE DEF Types, bridge, port, firmware, odometryHistory
<1>1. since \in Nat /\ cmdVelAge \in Nat /\ fwAge \in Nat
  BY Parameters DEF AgeTypes
<1>2. ASSUME NEW moves \in BOOLEAN, Publish(moves) PROVE MotionInv'
  <2>1. /\ UNCHANGED <<target, cmdVelAge, toFw, moving, fwAge>>
        /\ cmdVels' = Queued(moves)
        /\ since' = IF moves THEN 0 ELSE since
    BY <1>2 DEF Publish
  <2>2. \A x : Holds(Queued(moves), x) => Holds(cmdVels, x) \/ x = moves
    BY QueuedQueue, Zenon DEF QueueTypes
  <2>3. Holds(Queued(moves), TRUE) => Holds(cmdVels, TRUE) \/ moves
    BY <2>2, Zenon
  <2>4. since' = 0 \/ (since' = since /\ ~moves)
    BY <2>1
  <2>5. MessageInv'
    BY <2>1, <2>3, <2>4 DEF MotionInv, MessageInv
  <2>6. TargetInv' /\ WireInv' /\ DriveInv'
    BY <1>1, <2>1, <2>4, Parameters DEF MotionInv, TargetInv, WireInv, DriveInv
  <2> QED
    BY <2>5, <2>6 DEF MotionInv
<1>3. ASSUME OnCmdVel PROVE MotionInv'
  <2>1. /\ UNCHANGED <<since, toFw, moving, fwAge>>
        /\ target' = Head(cmdVels) /\ cmdVels' = Tail(cmdVels) /\ cmdVelAge' = 0
        /\ cmdVels # <<>>
    BY <1>3 DEF OnCmdVel
  <2>2. /\ Head(cmdVels) \in BOOLEAN /\ Holds(cmdVels, Head(cmdVels))
        /\ \A x : Holds(Tail(cmdVels), x) => Holds(cmdVels, x)
    BY <2>1, TailOf, Zenon DEF QueueTypes
  <2>3. target' => Holds(cmdVels, TRUE)
    BY <2>1, <2>2, Zenon
  <2>4. MessageInv'
    <3>1. Holds(cmdVels', TRUE) => Holds(cmdVels, TRUE)
      BY <2>1, <2>2, Zenon
    <3>2. Holds(cmdVels', TRUE) => since = 0
      BY <3>1, Zenon DEF MotionInv, MessageInv
    <3> QED
      BY <2>1, <3>2, Zenon DEF MessageInv
  <2>5. TargetInv'
    <3>1. target' => since = 0
      BY <2>3, Zenon DEF MotionInv, MessageInv
    <3>2. cmdVelAge' = 0 /\ since' = since
      BY <2>1
    <3>3. target' => since' <= cmdVelAge'
      BY <3>1, <3>2
    <3> QED
      BY <3>3 DEF TargetInv
  <2>6. WireInv' /\ DriveInv'
    BY <2>1 DEF MotionInv, WireInv, DriveInv
  <2> QED
    BY <2>4, <2>5, <2>6 DEF MotionInv
<1> QED
  BY <1>2, <1>3

\* What the timer sends is the target, and that only while it is fresh.
LEMMA CmdTimerMotionInv ==
    ASSUME Types, MotionInv, NEW ticks \in 0 .. BlockMax, OnCmdTimer(ticks)
    PROVE  MotionInv'
<1> USE DEF Types, firmware, odometryHistory
<1>1. UNCHANGED <<cmdVels, cmdVelAge, moving, fwAge, since>>
  BY DEF OnCmdTimer
<1>2. since \in Nat /\ cmdVelAge \in Nat
  BY Parameters DEF AgeTypes
<1>3. \A f \in Commands : Holds(Append(toFw, f), "go") => Holds(toFw, "go") \/ f = "go"
  BY AppendTo DEF QueueTypes
<1>4. MessageInv' /\ DriveInv'
  BY <1>1 DEF MotionInv, MessageInv, DriveInv
<1>5. CASE EnsureSerial
  <2>1. target' = target
    BY <1>5 DEF EnsureSerial
  <2>2. toFw' = toFw \/ toFw' = Append(toFw, "SET_MODE")
    BY <1>5 DEF EnsureSerial
  <2>3. Holds(toFw', "go") => Holds(toFw, "go")
    BY <1>3, <2>2 DEF Commands
  <2> QED
    BY <1>1, <1>4, <2>1, <2>3 DEF MotionInv, TargetInv, WireInv
<1>6. CASE SendTarget
  <2>1. target' <=> (target /\ cmdVelAge <= CmdVelTimeout)
    BY <1>6 DEF SendTarget, Fresh
  <2>2. \/ toFw' = toFw
        \/ toFw' = Append(toFw, "halt")
        \/ toFw' = Append(toFw, "go") /\ target'
    BY <1>6 DEF SendTarget
  <2>3. Holds(toFw', "go") => Holds(toFw, "go") \/ target'
    BY <1>3, <2>2 DEF Commands
  <2>4. TargetInv'
    BY <1>1, <2>1 DEF MotionInv, TargetInv
  <2>5. WireInv'
    BY <1>1, <1>2, <2>1, <2>3, Parameters DEF MotionInv, TargetInv, WireInv
  <2> QED
    BY <1>4, <2>4, <2>5 DEF MotionInv
<1> QED
  BY <1>5, <1>6 DEF OnCmdTimer

\* The firmware takes a velocity from the wire, and its own timeout begins.
LEMMA DispatchMotionInv ==
    ASSUME Types, MotionInv, NEW arrives \in BOOLEAN, Dispatch(arrives)
    PROVE  MotionInv'
<1> USE DEF Types, bridge
<1>1. /\ UNCHANGED <<cmdVels, target, cmdVelAge, since>>
      /\ toFw # <<>> /\ toFw' = Tail(toFw)
  BY DEF Dispatch
<1>2. since \in Nat /\ fwAge \in Nat
  BY Parameters DEF AgeTypes
<1>3. /\ Holds(toFw, Head(toFw))
      /\ Holds(Tail(toFw), "go") => Holds(toFw, "go")
  BY <1>1, TailOf DEF QueueTypes
<1>4. MessageInv' /\ TargetInv' /\ WireInv'
  BY <1>1, <1>3 DEF MotionInv, MessageInv, TargetInv, WireInv
<1>5. \/ moving' /\ fwAge' = 0 /\ Head(toFw) = "go"
      \/ ~moving'
      \/ moving' /\ moving /\ fwAge' = fwAge
  BY DEF Dispatch
<1>6. DriveInv'
  BY <1>1, <1>2, <1>3, <1>5, Parameters DEF MotionInv, WireInv, DriveInv
<1> QED
  BY <1>4, <1>6 DEF MotionInv

\* Losses, resets and restarts take velocities away and add none.
LEMMA OtherMotionInv ==
    ASSUME Types, MotionInv,
           \/ \E status, odom \in BOOLEAN : OnSerialPoll(status, odom)
           \/ PollRaises \/ FwReset \/ Enumerate
           \/ \E stops \in BOOLEAN : Restart(stops)
    PROVE  MotionInv'
<1> USE DEF Types, port, firmware, bridge, odometryHistory
<1>1. UNCHANGED since
  BY DEF OnSerialPoll, PollRaises, FwReset, Enumerate, Restart
<1>2. cmdVels' = cmdVels \/ cmdVels' = <<>>
  BY DEF OnSerialPoll, PollRaises, FwReset, Enumerate, Restart
<1>3. ~target' \/ UNCHANGED <<target, cmdVelAge>>
  BY DEF OnSerialPoll, PollRaises, FwReset, Enumerate, Restart
<1>4. ~moving' \/ UNCHANGED <<moving, fwAge>>
  BY DEF OnSerialPoll, PollRaises, FwReset, Enumerate, Restart
<1>5. \/ toFw' = toFw \/ toFw' = <<>>
      \/ toFw' = Append(toFw, "SET_MODE") \/ toFw' = Append(toFw, "STOP")
  BY DEF OnSerialPoll, HandleStatus, PollRaises, FwReset, PortGoes, Enumerate, Restart
<1>6. Holds(toFw', "go") => Holds(toFw, "go")
  <2>1. \A f \in Commands : Holds(Append(toFw, f), "go") => Holds(toFw, "go") \/ f = "go"
    BY AppendTo DEF QueueTypes
  <2> QED
    BY <1>5, <2>1, EmptyQueue DEF Commands
<1>7. Holds(cmdVels', TRUE) => Holds(cmdVels, TRUE)
  BY <1>2, EmptyQueue, Zenon
<1>8. MessageInv'
  BY <1>1, <1>7, Zenon DEF MotionInv, MessageInv
<1>9. TargetInv' /\ WireInv' /\ DriveInv'
  BY <1>1, <1>3, <1>4, <1>6 DEF MotionInv, TargetInv, WireInv, DriveInv
<1> QED
  BY <1>8, <1>9 DEF MotionInv

\* When a tick counts, the queue and the wire are empty.
LEMMA TickMotionInv ==
    ASSUME Types, MotionInv, NEW turn \in Turns, Tick(turn)
    PROVE  MotionInv'
<1> USE DEF Types
<1>1. /\ UNCHANGED <<cmdVels, target, toFw>>
      /\ cmdVelAge' = Older(cmdVelAge, CmdVelTimeout + 1)
      /\ since' = (IF blocked = 0 THEN Older(since, RunOn + 1) ELSE since)
      /\ fwAge' = Older(fwAge, FwTimeout + 1)
      /\ moving' <=> (moving /\ ~(fwAge' > FwTimeout))
      /\ blocked = 0 => toFw = <<>> /\ cmdVels = <<>>
  BY DEF Tick, Expired
<1>2. /\ since \in 0 .. RunOn + 1 /\ cmdVelAge \in 0 .. CmdVelTimeout + 1
      /\ fwAge \in 0 .. FwTimeout + 1
  BY DEF AgeTypes
<1>3. MessageInv' /\ WireInv'
  <2>1. CASE blocked = 0
    BY <1>1, <2>1, EmptyQueue DEF MessageInv, WireInv
  <2>2. CASE blocked # 0
    BY <1>1, <2>2 DEF MotionInv, MessageInv, WireInv
  <2> QED
    BY <2>1, <2>2
<1>4. since' \in Nat /\ since' <= since + 1
  BY <1>1, <1>2, Parameters DEF Older
<1>5. TargetInv'
  BY <1>1, <1>2, <1>4, Parameters DEF MotionInv, TargetInv, Older
<1>6. DriveInv'
  BY <1>1, <1>2, <1>4, Parameters DEF MotionInv, DriveInv, Older
<1> QED
  BY <1>3, <1>5, <1>6 DEF MotionInv

LEMMA NextMotionInv == Types /\ MotionInv /\ [Next]_vars => MotionInv'
<1> SUFFICES ASSUME Types, MotionInv, [Next]_vars PROVE MotionInv'
  OBVIOUS
<1>1. CASE (\E moves \in BOOLEAN : Publish(moves)) \/ OnCmdVel
  BY <1>1, CmdVelMotionInv
<1>2. CASE \E ticks \in 0 .. BlockMax : OnCmdTimer(ticks)
  BY <1>2, CmdTimerMotionInv
<1>3. CASE \E arrives \in BOOLEAN : Dispatch(arrives)
  BY <1>3, DispatchMotionInv
<1>4. CASE \/ \E status, odom \in BOOLEAN : OnSerialPoll(status, odom)
           \/ PollRaises \/ FwReset \/ Enumerate
           \/ \E stops \in BOOLEAN : Restart(stops)
  BY <1>4, OtherMotionInv
<1>5. CASE \E turn \in Turns : Tick(turn)
  BY <1>5, TickMotionInv
<1>6. CASE UNCHANGED vars
  BY <1>6 DEF vars, bridge, port, firmware, MotionInv, MessageInv, TargetInv, WireInv,
              DriveInv
<1> QED
  BY <1>1, <1>2, <1>3, <1>4, <1>5, <1>6 DEF Next

\* The invariant of the motion.
THEOREM MotionInvariant == Spec => [](Types /\ MotionInv)
  BY InitTypes, InitMotionInv, NextTypes, NextMotionInv, PTL DEF Spec

\* A wheel is driven only within cmd_vel_timeout_s and APP_CMD_TIMEOUT_MS of
\* a /cmd_vel that moves.
THEOREM MotionIsFresh == Spec => []MotionFresh
<1>1. Types /\ MotionInv => MotionFresh
  BY Parameters DEF Types, AgeTypes, MotionInv, DriveInv, MotionFresh
<1> QED
  BY <1>1, MotionInvariant, PTL

-----------------------------------------------------------------------------
(***************************************************************************)
(* Remainders.                                                             *)
(***************************************************************************)
LEMMA MultiplesGrow ==
    ASSUME NEW b \in Nat \ {0}, NEW d \in Int, d > 0
    PROVE  b * d >= b
  OBVIOUS

LEMMA RemainderIsUnique ==
    ASSUME NEW b \in Nat \ {0}, NEW q \in Int, NEW r \in 0 .. b - 1
    PROVE  (b * q + r) % b = r
<1> DEFINE x == b * q + r
           p == x \div b
           s == x % b
<1>1. x \in Int
  OBVIOUS
<1>2. x = b * p + s /\ p \in Int /\ s \in 0 .. b - 1
  <2> HIDE DEF x
  <2> QED
    BY <1>1
<1>3. b * q + r = b * p + s
  BY <1>2
<1> HIDE DEF x, p, s
<1>4. b * (q - p) = s - r
  BY <1>2, <1>3
<1>5. b * (p - q) = r - s
  BY <1>2, <1>3
<1>6. ~(q - p > 0)
  BY <1>2, <1>4, MultiplesGrow
<1>7. ~(p - q > 0)
  BY <1>2, <1>5, MultiplesGrow
<1>8. p = q
  BY <1>2, <1>6, <1>7
<1>9. r = s
  BY <1>2, <1>3, <1>8
<1> QED
  BY <1>9 DEF s, x

\* A remainder taken on the way is not noticed at the end.
LEMMA RemainderOfSum ==
    ASSUME NEW b \in Nat \ {0}, NEW x \in Int, NEW y \in Int
    PROVE  ((x % b) + y) % b = (x + y) % b
<1> DEFINE p == x \div b
           s == x % b
           v == (s + y) \div b
           w == (s + y) % b
<1>1. x = b * p + s /\ p \in Int /\ s \in 0 .. b - 1
  OBVIOUS
<1>2. s + y = b * v + w /\ v \in Int /\ w \in 0 .. b - 1
  <2> HIDE DEF s
  <2> QED
    BY <1>1
<1>3. x + y = b * (p + v) + w
  <2> HIDE DEF p, s, v, w
  <2> QED
    BY <1>1, <1>2
<1> HIDE DEF p, s, v, w
<1>4. p + v \in Int
  BY <1>1, <1>2
<1>5. (b * (p + v) + w) % b = w
  BY <1>2, <1>4, RemainderIsUnique
<1> QED
  BY <1>3, <1>5 DEF s, w

LEMMA SmallRemainder ==
    ASSUME NEW b \in Nat \ {0}
    PROVE  /\ \A a \in 0 .. b - 1 : a % b = a
           /\ \A a \in -b .. -1 : a % b = a + b
  OBVIOUS

\* wrapped_delta_u16 gives back a displacement of less than half a turn of
\* the counter.
LEMMA WrappedDeltaExact ==
    ASSUME NEW previous \in Counts, NEW d \in -Half .. Half - 1
    PROVE  WrappedDelta((previous + d) % CountMod, previous) = d
<1>1. /\ CountMod \in Nat \ {0} /\ previous + d \in Int /\ -previous \in Int
      /\ previous \in Int /\ d \in Int
  BY Parameters DEF Counts
<1> DEFINE current == (previous + d) % CountMod
<1>2. current \in Int
  BY <1>1
<1>3. (current - previous) % CountMod = d % CountMod
  <2>1. (current + (-previous)) % CountMod = (previous + d + (-previous)) % CountMod
    BY <1>1, RemainderOfSum
  <2>2. previous + d + (-previous) = d
    BY <1>1
  <2>3. current + (-previous) = current - previous
    <3> HIDE DEF current
    <3> QED
      BY <1>1, <1>2
  <2> QED
    BY <2>1, <2>2, <2>3
<1>4. d % CountMod = IF d >= 0 THEN d ELSE d + CountMod
  <2>1. CASE d >= 0
    <3>1. d \in 0 .. CountMod - 1
      BY <1>1, <2>1, Parameters
    <3> QED
      BY <1>1, <2>1, <3>1, SmallRemainder
  <2>2. CASE ~(d >= 0)
    <3>1. d \in -CountMod .. -1
      BY <1>1, <2>2, Parameters
    <3> QED
      BY <1>1, <2>2, <3>1, SmallRemainder
  <2> QED
    BY <2>1, <2>2
<1> DEFINE e == (current - previous) % CountMod
<1>5. e = IF d >= 0 THEN d ELSE d + CountMod
  BY <1>3, <1>4
<1>6. WrappedDelta(current, previous) = IF e >= Half THEN e - CountMod ELSE e
  BY DEF WrappedDelta
<1> HIDE DEF e, current
<1>7. WrappedDelta(current, previous) = d
  BY <1>1, <1>5, <1>6, Parameters
<1> QED
  BY <1>7 DEF current

-----------------------------------------------------------------------------
(***************************************************************************)
(* The pose.  What makes a sample true is that the telemetry is a chain:   *)
(* from the baseline over the frames on their way to the encoder itself,   *)
(* each count is the one before it moved by the counts that are attributed *)
(* to the frame, if these are still known.                                 *)
(***************************************************************************)
Linked(from, before, by, to) ==
    before # Unknown /\ by # Unknown => (from + before + by) % CountMod = to

\* The k-th sample still to come; after the frames the encoder as it is now.
CountAt(k) == IF k <= Len(fromFw) THEN fromFw[k].count ELSE count
TurnedAt(k) == IF k <= Len(fromFw) THEN fromFw[k].turned ELSE turned

OdomInv ==
    ser = "open" =>
        /\ base # NoBase => Linked(base, owed, TurnedAt(1), CountAt(1))
        /\ \A k \in 1 .. Len(fromFw) :
               Linked(CountAt(k), 0, TurnedAt(k + 1), CountAt(k + 1))

LEMMA SampleTypes ==
    ASSUME Types, NEW k \in Nat \ {0}
    PROVE  CountAt(k) \in Counts /\ TurnedAt(k) \in Displacements
<1>1. CASE k <= Len(fromFw)
  <2>1. fromFw \in Seq(Frames)
    BY DEF Types, QueueTypes
  <2>2. fromFw[k] \in Frames
    BY <1>1, <2>1
  <2> QED
    BY <1>1, <2>2 DEF CountAt, TurnedAt, Frames
<1>2. CASE ~(k <= Len(fromFw))
  BY <1>2 DEF CountAt, TurnedAt, Types, StateTypes
<1> QED
  BY <1>1, <1>2

LEMMA DisplacementTypes ==
    /\ \A d \in Displacements \ {Unknown} : d \in -Half .. Half - 1 /\ d \in Int
    /\ \A turn \in Turns : turn # Unknown /\ turn \in Int
    /\ \A c \in Counts : c \in Int /\ c # NoBase
    /\ 0 # Unknown /\ CountMod \in Nat \ {0}
  BY Parameters DEF Displacements, Unknown, Turns, Counts, NoBase

\* A sum that is known has known terms, and is their sum.
LEMMA SumKnown ==
    ASSUME NEW a \in Displacements, NEW b \in Displacements, Sum(a, b) # Unknown
    PROVE  /\ a # Unknown /\ b # Unknown /\ Sum(a, b) = a + b
           /\ Sum(a, b) \in -Half .. Half - 1
  BY SumType, DisplacementTypes DEF Sum

\* The encoder moves on: the last link grows by the turn.
LEMMA LinkGrows ==
    ASSUME NEW from \in Int, NEW before \in Displacements, NEW by \in Displacements,
           NEW to \in Counts, NEW turn \in Turns, Linked(from, before, by, to)
    PROVE  Linked(from, before, Sum(by, turn), (to + turn) % CountMod)
<1> SUFFICES ASSUME before # Unknown, Sum(by, turn) # Unknown
             PROVE  (from + before + Sum(by, turn)) % CountMod = (to + turn) % CountMod
  BY DEF Linked
<1>1. turn \in Displacements /\ turn \in Int
  BY ZeroDisplacement, DisplacementTypes
<1>2. by # Unknown /\ Sum(by, turn) = by + turn
  BY <1>1, SumKnown
<1>3. before \in Int /\ by \in Int /\ CountMod \in Nat \ {0}
  BY <1>2, DisplacementTypes
<1>4. (from + before + by) % CountMod = to
  BY <1>2 DEF Linked
<1>5. from + before + by \in Int
  BY <1>3
<1>6. (((from + before + by) % CountMod) + turn) % CountMod
        = (from + before + by + turn) % CountMod
  BY <1>1, <1>3, <1>5, RemainderOfSum
<1>7. from + before + by + turn = from + before + (by + turn)
  BY <1>1, <1>3
<1> QED
  BY <1>2, <1>4, <1>6, <1>7

\* A lost sample: two links become one.
LEMMA LinksJoin ==
    ASSUME NEW from \in Int, NEW before \in Displacements, NEW by \in Displacements,
           NEW over \in Counts, NEW next \in Displacements, NEW to \in Counts,
           Linked(from, before, by, over), Linked(over, 0, next, to)
    PROVE  Linked(from, Sum(before, by), next, to)
<1> SUFFICES ASSUME Sum(before, by) # Unknown, next # Unknown
             PROVE  (from + Sum(before, by) + next) % CountMod = to
  BY DEF Linked
<1>1. before # Unknown /\ by # Unknown /\ Sum(before, by) = before + by
  BY SumKnown
<1>2. before \in Int /\ by \in Int /\ next \in Int /\ over \in Int /\ CountMod \in Nat \ {0}
  BY <1>1, DisplacementTypes
<1>3. (from + before + by) % CountMod = over
  BY <1>1 DEF Linked
<1>4. (over + next) % CountMod = to
  <2>1. (over + 0 + next) % CountMod = to
    BY DisplacementTypes DEF Linked
  <2>2. over + 0 + next = over + next
    BY <1>2
  <2> QED
    BY <2>1, <2>2
<1>5. from + before + by \in Int
  BY <1>2
<1>6. (((from + before + by) % CountMod) + next) % CountMod
        = (from + before + by + next) % CountMod
  BY <1>2, <1>5, RemainderOfSum
<1>7. from + before + by + next = from + (before + by) + next
  BY <1>2
<1> QED
  BY <1>1, <1>3, <1>4, <1>6, <1>7

\* What a true sample is integrated as.
LEMMA LinkIntegrated ==
    ASSUME NEW from \in Counts, NEW before \in Displacements, NEW by \in Displacements,
           NEW to \in Counts, Linked(from, before, by, to)
    PROVE  Sum(before, by) \in {Unknown, WrappedDelta(to, from)}
<1> SUFFICES ASSUME Sum(before, by) # Unknown
             PROVE  WrappedDelta(to, from) = Sum(before, by)
  OBVIOUS
<1>1. /\ before # Unknown /\ by # Unknown /\ Sum(before, by) = before + by
      /\ Sum(before, by) \in -Half .. Half - 1
  BY SumKnown
<1>2. (from + before + by) % CountMod = to
  BY <1>1 DEF Linked
<1>3. before \in Int /\ by \in Int /\ from \in Int
  BY <1>1, DisplacementTypes
<1>4. from + before + by = from + (before + by)
  BY <1>3
<1>5. (from + Sum(before, by)) % CountMod = to
  BY <1>1, <1>2, <1>4
<1> QED
  BY <1>1, <1>5, WrappedDeltaExact

PoseInv == OdomInv /\ PoseTrue

LEMMA InitPoseInv == Init => PoseInv
  BY DEF Init, BridgeInit, PoseInv, OdomInv, PoseTrue

\* A link that is opened starts without a baseline and without frames.
LEMMA CmdTimerPoseInv ==
    ASSUME Types, PoseInv, NEW ticks \in 0 .. BlockMax, OnCmdTimer(ticks)
    PROVE  PoseInv'
<1> USE DEF firmware, odometryHistory
<1>1. UNCHANGED <<fromFw, count, turned, owed, wrong>>
  BY DEF OnCmdTimer
<1>2. CASE EnsureSerial
  <2>1. ser # "open" => fromFw = <<>> /\ Len(fromFw) = 0
    BY DEF Types, PortTypes
  <2>2. ser # "open"
    BY <1>2 DEF OnCmdTimer, SendTarget, EnsureSerial
  <2> QED
    BY <1>1, <1>2, <2>1, <2>2 DEF EnsureSerial, Resync, PoseInv, OdomInv, PoseTrue
<1>3. CASE SendTarget
  <2>1. ser' = "open" => ser = "open"
    BY <1>3 DEF SendTarget
  <2>2. base' = base
    BY <1>3 DEF SendTarget
  <2> QED
    BY <1>1, <2>1, <2>2 DEF PoseInv, OdomInv, PoseTrue, CountAt, TurnedAt
<1> QED
  BY <1>2, <1>3 DEF OnCmdTimer

\* The poll takes the first link off the chain.
LEMMA SerialPollPoseInv ==
    ASSUME Types, PoseInv, NEW status \in BOOLEAN, NEW odom \in BOOLEAN,
           OnSerialPoll(status, odom)
    PROVE  PoseInv'
<1> USE DEF firmware
<1> DEFINE frame == Head(fromFw)
<1>1. /\ UNCHANGED <<ser, count, turned>> /\ ser = "open"
      /\ fromFw # <<>> /\ fromFw' = Tail(fromFw)
  BY DEF OnSerialPoll
<1>2. fromFw \in Seq(Frames)
  BY DEF Types, QueueTypes
<1>3. /\ Len(fromFw) \in Nat \ {0} /\ Len(fromFw') = Len(fromFw) - 1
      /\ \A k \in 1 .. Len(fromFw') : fromFw'[k] = fromFw[k + 1]
      /\ frame = fromFw[1]
  BY <1>1, <1>2
<1>4. frame.count = CountAt(1) /\ frame.turned = TurnedAt(1)
  BY <1>3 DEF CountAt, TurnedAt
<1>5. ASSUME NEW k \in 1 .. Len(fromFw') + 1
      PROVE  CountAt(k)' = CountAt(k + 1) /\ TurnedAt(k)' = TurnedAt(k + 1)
  <2>1. CASE k <= Len(fromFw')
    <3>1. k + 1 <= Len(fromFw) /\ fromFw'[k] = fromFw[k + 1]
      BY <1>3, <2>1
    <3> QED
      BY <2>1, <3>1 DEF CountAt, TurnedAt
  <2>2. CASE ~(k <= Len(fromFw'))
    <3>1. ~(k + 1 <= Len(fromFw))
      BY <1>3, <2>2
    <3> QED
      BY <1>1, <2>2, <3>1 DEF CountAt, TurnedAt
  <2> QED
    BY <2>1, <2>2
<1>6. /\ base # NoBase => Linked(base, owed, TurnedAt(1), CountAt(1))
      /\ \A k \in 1 .. Len(fromFw) : Linked(CountAt(k), 0, TurnedAt(k + 1), CountAt(k + 1))
  BY <1>1 DEF PoseInv, OdomInv
<1>7. /\ CountAt(1) \in Counts /\ TurnedAt(1) \in Displacements
      /\ CountAt(2) \in Counts /\ TurnedAt(2) \in Displacements
  BY SampleTypes
<1>8. /\ owed \in Displacements /\ base \in Counts \cup {NoBase} /\ wrong = FALSE
  BY DEF Types, StateTypes, PoseInv, PoseTrue
<1>9. /\ CountAt(1)' = CountAt(2) /\ TurnedAt(1)' = TurnedAt(2)
      /\ Linked(CountAt(1), 0, TurnedAt(2), CountAt(2))
  <2>1. 1 \in 1 .. Len(fromFw') + 1 /\ 1 \in 1 .. Len(fromFw) /\ 1 + 1 = 2
    BY <1>3
  <2> QED
    BY <1>5, <1>6, <2>1
<1>10. ASSUME NEW k \in 1 .. Len(fromFw')
       PROVE  Linked(CountAt(k)', 0, TurnedAt(k + 1)', CountAt(k + 1)')
  <2>1. /\ k \in 1 .. Len(fromFw') + 1 /\ k + 1 \in 1 .. Len(fromFw') + 1
        /\ k + 1 \in 1 .. Len(fromFw)
    BY <1>3
  <2>2. Linked(CountAt(k + 1), 0, TurnedAt(k + 1 + 1), CountAt(k + 1 + 1))
    BY <1>6, <2>1
  <2>3. CountAt(k)' = CountAt(k + 1)
    BY <1>5, <2>1
  <2>4. CountAt(k + 1)' = CountAt(k + 1 + 1) /\ TurnedAt(k + 1)' = TurnedAt(k + 1 + 1)
    BY <1>5, <2>1
  <2> QED
    BY <2>2, <2>3, <2>4
<1> HIDE DEF frame
<1>11. /\ wrong' = FALSE
       /\ base' # NoBase => Linked(base', owed', TurnedAt(2), CountAt(2))
  <2>1. CASE odom
    <3>1. /\ base' = CountAt(1) /\ owed' = 0
          /\ wrong' = (base # NoBase /\ Sum(owed, TurnedAt(1)) \notin
                           {Unknown, WrappedDelta(CountAt(1), base)})
      BY <1>4, <2>1 DEF OnSerialPoll, HandleOdom, frame
    <3>2. base # NoBase =>
             Sum(owed, TurnedAt(1)) \in {Unknown, WrappedDelta(CountAt(1), base)}
      BY <1>6, <1>7, <1>8, LinkIntegrated
    <3> QED
      BY <1>9, <3>1, <3>2
  <2>2. CASE ~odom
    <3>1. base' = base /\ wrong' = wrong /\ owed' = Sum(owed, TurnedAt(1))
      BY <1>4, <2>2 DEF OnSerialPoll, frame
    <3>2. base # NoBase => base \in Int
      BY <1>8, DisplacementTypes
    <3>3. base # NoBase => Linked(base, Sum(owed, TurnedAt(1)), TurnedAt(2), CountAt(2))
      BY <1>6, <1>7, <1>8, <1>9, <3>2, LinksJoin
    <3> QED
      BY <1>8, <3>1, <3>3
  <2> QED
    BY <2>1, <2>2
<1>12. OdomInv'
  <2>1. base' # NoBase => Linked(base', owed', TurnedAt(1)', CountAt(1)')
    BY <1>9, <1>11
  <2> QED
    BY <1>10, <2>1 DEF OdomInv, Linked
<1> QED
  BY <1>11, <1>12 DEF PoseInv, PoseTrue

\* The encoder's own link grows, and splits when its counts are sent.
LEMMA TickPoseInv ==
    ASSUME Types, PoseInv, NEW turn \in Turns, Tick(turn)
    PROVE  PoseInv'
<1>1. /\ UNCHANGED <<ser, base, owed, wrong>>
      /\ count' = (count + turn) % CountMod
  BY DEF Tick
<1>2. SUFFICES ASSUME ser = "open" PROVE OdomInv'
  BY <1>1 DEF PoseInv, PoseTrue, OdomInv
<1>3. /\ fromFw \in Seq(Frames) /\ Len(fromFw) \in Nat
      /\ count \in Counts /\ count' \in Counts /\ turned \in Displacements
      /\ owed \in Displacements /\ base \in Counts \cup {NoBase} /\ 0 \in Displacements
  BY <1>1, CountRange, ZeroDisplacement DEF Types, QueueTypes, StateTypes
<1>0. PICK n \in Nat : n = Len(fromFw)
  BY <1>3
<1> DEFINE s == Sum(turned, turn)
<1>4. /\ \A k \in 1 .. n : CountAt(k) = fromFw[k].count /\ TurnedAt(k) = fromFw[k].turned
      /\ CountAt(n + 1) = count /\ TurnedAt(n + 1) = turned
  BY <1>0, <1>3 DEF CountAt, TurnedAt
\* The samples after the tick, up to the one that was the encoder's.
<1>5. /\ \A k \in 1 .. n : CountAt(k)' = CountAt(k) /\ TurnedAt(k)' = TurnedAt(k)
      /\ CountAt(n + 1)' = count' /\ TurnedAt(n + 1)' = s
      /\ \/ Len(fromFw') = n
         \/ /\ Len(fromFw') = n + 1
            /\ CountAt(n + 2)' = count' /\ TurnedAt(n + 2)' = 0
  <2>1. CASE n < RxMax
    <3> DEFINE f == [mode |-> mode, count |-> count', turned |-> s]
    <3>1. fromFw' = Append(fromFw, f) /\ turned' = 0
      BY <1>0, <1>2, <2>1 DEF Tick
    <3>2. f.count = count' /\ f.turned = s
      OBVIOUS
    <3> HIDE DEF f
    <3>3. /\ Len(fromFw') = n + 1 /\ fromFw'[n + 1] = f
          /\ \A k \in 1 .. n : fromFw'[k] = fromFw[k]
      BY <1>0, <1>3, <3>1
    <3> HIDE DEF s
    <3>4. CountAt(n + 1)' = count' /\ TurnedAt(n + 1)' = s
      BY <3>2, <3>3 DEF CountAt, TurnedAt
    <3>5. CountAt(n + 2)' = count' /\ TurnedAt(n + 2)' = 0
      BY <3>1, <3>3 DEF CountAt, TurnedAt
    <3>6. \A k \in 1 .. n : CountAt(k)' = CountAt(k) /\ TurnedAt(k)' = TurnedAt(k)
      BY <1>4, <3>3 DEF CountAt, TurnedAt
    <3> QED
      BY <3>3, <3>4, <3>5, <3>6
  <2>2. CASE ~(n < RxMax)
    <3>1. fromFw' = fromFw /\ turned' = s
      BY <1>0, <2>2 DEF Tick
    <3> QED
      BY <1>0, <1>3, <1>4, <3>1 DEF CountAt, TurnedAt
  <2> QED
    BY <2>1, <2>2
<1>6. /\ base # NoBase => Linked(base, owed, TurnedAt(1), CountAt(1))
      /\ \A k \in 1 .. n : Linked(CountAt(k), 0, TurnedAt(k + 1), CountAt(k + 1))
  BY <1>0, <1>2 DEF PoseInv, OdomInv
<1> HIDE DEF s
\* Every link of before, its end possibly moved on.
<1>7. ASSUME NEW k \in 1 .. n + 1, NEW from \in Int, NEW before \in Displacements,
             Linked(from, before, TurnedAt(k), CountAt(k))
      PROVE  Linked(from, before, TurnedAt(k)', CountAt(k)')
  <2>1. CASE k \in 1 .. n
    BY <1>5, <1>7, <2>1
  <2>2. CASE k = n + 1
    <3>1. Linked(from, before, turned, count)
      BY <1>4, <1>7, <2>2
    <3>2. Linked(from, before, s, count')
      BY <1>1, <1>3, <3>1, LinkGrows DEF s
    <3> QED
      BY <1>5, <2>2, <3>2
  <2> QED
    BY <2>1, <2>2
<1>8. base' # NoBase => Linked(base', owed', TurnedAt(1)', CountAt(1)')
  <2>1. 1 \in 1 .. n + 1
    OBVIOUS
  <2>2. base # NoBase => base \in Int
    BY <1>3, DisplacementTypes
  <2> QED
    BY <1>1, <1>3, <1>6, <1>7, <2>1, <2>2
<1>9. ASSUME NEW k \in 1 .. n
       PROVE  Linked(CountAt(k)', 0, TurnedAt(k + 1)', CountAt(k + 1)')
  <2>1. k + 1 \in 1 .. n + 1 /\ k \in Nat \ {0}
    OBVIOUS
  <2>2. CountAt(k) \in Int
    BY <2>1, SampleTypes, DisplacementTypes
  <2>3. Linked(CountAt(k), 0, TurnedAt(k + 1)', CountAt(k + 1)')
    BY <1>3, <1>6, <1>7, <2>1, <2>2
  <2> QED
    BY <1>5, <2>3
<1>10. Linked(count', 0, 0, count')
  <2>1. count' \in 0 .. CountMod - 1 /\ CountMod \in Nat \ {0}
    BY <1>3, DisplacementTypes DEF Counts
  <2>2. count' % CountMod = count' /\ count' + 0 + 0 = count'
    <3>1. \A c \in 0 .. CountMod - 1 : c % CountMod = c /\ c + 0 + 0 = c
      BY <2>1, SmallRemainder
    <3> QED
      BY <2>1, <3>1
  <2> QED
    BY <2>2 DEF Linked
<1>11. ASSUME NEW k \in 1 .. Len(fromFw')
       PROVE  Linked(CountAt(k)', 0, TurnedAt(k + 1)', CountAt(k + 1)')
  <2>1. CASE k \in 1 .. n
    BY <1>9, <2>1
  <2>2. CASE k \notin 1 .. n
    <3>1. k = n + 1 /\ k + 1 = n + 2 /\ Len(fromFw') = n + 1
      BY <1>5, <2>2
    <3>2. /\ CountAt(n + 1)' = count'
          /\ CountAt(n + 2)' = count' /\ TurnedAt(n + 2)' = 0
      BY <1>5, <3>1
    <3> QED
      BY <1>10, <3>1, <3>2
  <2> QED
    BY <2>1, <2>2
<1> QED
  BY <1>8, <1>11 DEF OdomInv, Linked

LEMMA NextPoseInv == Types /\ PoseInv /\ [Next]_vars => PoseInv'
<1> SUFFICES ASSUME Types, PoseInv, [Next]_vars PROVE PoseInv'
  OBVIOUS
<1>1. CASE \E ticks \in 0 .. BlockMax : OnCmdTimer(ticks)
  BY <1>1, CmdTimerPoseInv
<1>2. CASE \E status, odom \in BOOLEAN : OnSerialPoll(status, odom)
  BY <1>2, SerialPollPoseInv
<1>3. CASE \E turn \in Turns : Tick(turn)
  BY <1>3, TickPoseInv
<1>4. CASE \/ (\E moves \in BOOLEAN : Publish(moves)) \/ OnCmdVel
           \/ (\E arrives \in BOOLEAN : Dispatch(arrives))
           \/ Enumerate \/ UNCHANGED vars
  <2>1. UNCHANGED <<ser, base, fromFw, count, turned, owed, wrong>>
    BY <1>4 DEF Publish, OnCmdVel, Dispatch, Enumerate, vars, bridge, port, firmware,
                odometryHistory
  <2> QED
    BY <2>1 DEF PoseInv, OdomInv, PoseTrue, CountAt, TurnedAt
<1>5. CASE PollRaises \/ FwReset \/ (\E stops \in BOOLEAN : Restart(stops))
  <2>1. ser' # "open" /\ wrong' = wrong
    BY <1>5 DEF PollRaises, FwReset, PortGoes, Restart, odometryHistory
  <2> QED
    BY <2>1 DEF PoseInv, OdomInv, PoseTrue
<1> QED
  BY <1>1, <1>2, <1>3, <1>4, <1>5 DEF Next

\* No sample of the odometry is integrated as anything but the counts the
\* wheels turned since the sample before it, for any width of the counter
\* and any run of lost frames, resets and reconnections.
THEOREM PoseIsTrue == Spec => []PoseTrue
<1>1. PoseInv => PoseTrue
  BY DEF PoseInv
<1> QED
  BY <1>1, InitTypes, InitPoseInv, NextTypes, NextPoseInv, PTL DEF Spec
=============================================================================
