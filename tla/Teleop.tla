-------------------------------- MODULE Teleop --------------------------------
(***************************************************************************)
(* Driving by hand, from the stick of the App to /cmd_vel: the App's       *)
(* TeleopControlPanel posts velocities, the backend keeps the latest one   *)
(* and its age, the robot's teleop_receiver polls it, and lidar_safety     *)
(* gates it by the scan.  Nothing acknowledges anything: every stage       *)
(* forgets what it heard when it becomes too old.                          *)
(*                                                                         *)
(* A tick is the period of the poll, of the App's send loop and, coarser   *)
(* than in the code, of the gate, whose timer is the model's clock.  A     *)
(* velocity is its direction: ahead, back or none, so slowing down is not  *)
(* told from driving.  Rotation is neither gated nor smoothed and is left  *)
(* out.  The status on its way back to the App only costs the receiver's   *)
(* thread its time.                                                        *)
(***************************************************************************)
EXTENDS Integers, Sequences, FiniteSets

CONSTANTS
    Staleness,    \* staleness_ms
    HttpTimeout,  \* http_timeout_s
    CmdTimeout,   \* cmd_timeout_s
    Window,       \* smooth_window
    DownMax       \* bound: ticks the receiver's thread is held up or gone

ASSUME ConstantsOK ==
    /\ {Staleness, HttpTimeout, CmdTimeout, DownMax} \subseteq Nat
    /\ Window \in Nat \ {0}

Ahead == 1
Back == -1
Directions == {Ahead, Back}
Velocities == Directions \cup {0}

VARIABLES
    \* App
    stick,      \* _vel while the send loop runs, otherwise None
    posts,      \* the velocities of requests under way
    \* backend: TeleopStore
    stored,
    storedAge,  \* since _v_ts
    \* teleop_receiver
    answer,     \* the velocity of the answer under way, or None
    waited,     \* ticks it has been under way
    down,       \* ticks the thread is not available
    polled,     \* _poll has run in this tick
    \* lidar_safety
    teleop,     \* _teleop
    teleopAge,  \* since _teleop_ts
    scanned,    \* _scan is not None
    hist,       \* _hist_vx
    out,        \* the velocity of the last /cmd_vel
    \* history
    held,       \* ticks since the stick was held or a velocity under way
    seen        \* passes in a row that saw an obstacle in a direction

appVars == <<stick, posts>>
storeVars == <<stored, storedAge>>
receiverVars == <<answer, waited, down, polled>>
gateVars == <<teleop, teleopAge, scanned, hist, out>>
vars == <<appVars, storeVars, receiverVars, gateVars, held, seen>>

None == 2

\* The longest the robot goes on after the last velocity has arrived: what the
\* stages may take, half of the window, and the pass under way.
RunOn == Staleness + HttpTimeout + CmdTimeout + Window \div 2 + 1

Older(age, cap) == IF age < cap THEN age + 1 ELSE age

TypeOK ==
    /\ stick \in Velocities \cup {None} /\ posts \subseteq Velocities
    /\ stored \in Velocities /\ storedAge \in 0 .. Staleness + 1
    /\ answer \in Velocities \cup {None}
    /\ waited \in 0 .. HttpTimeout /\ (answer = None => waited = 0)
    /\ down \in 0 .. DownMax /\ (down > 0 => answer = None)
    /\ {polled, scanned} \subseteq BOOLEAN
    /\ {teleop, out} \subseteq Velocities
    /\ teleopAge \in 0 .. CmdTimeout + 1
    /\ hist \in Seq(Velocities) /\ Len(hist) <= Window
    /\ held \in 0 .. RunOn + 1
    /\ seen \in [Directions -> 0 .. Window \div 2 + 1]

\* The gate counts the teleop message as heard at its start.
Init ==
    /\ stick = None /\ posts = {}
    /\ stored = 0 /\ storedAge = Staleness + 1
    /\ answer = None /\ waited = 0 /\ down = 0 /\ polled = FALSE
    /\ teleop = 0 /\ teleopAge = 0 /\ scanned = FALSE /\ hist = <<>>
    /\ out = 0
    /\ held = RunOn + 1 /\ seen = [d \in Directions |-> 0]

Held == stick \in Directions \/ posts \cap Directions # {}

-----------------------------------------------------------------------------
(***************************************************************************)
(* The App.  A request takes its time, and a later one may overtake it:    *)
(* the panel gives up on it, not the network.                              *)
(***************************************************************************)
\* _onJoyChanged.
Touch(v) ==
    /\ stick' = v
    /\ held' = IF v # 0 THEN 0 ELSE held
    /\ UNCHANGED <<posts, storeVars, receiverVars, gateVars, seen>>

\* _tickSend, which is skipped while the last request is under way.
TickSend ==
    /\ stick # None
    /\ posts' = posts \cup {stick}
    /\ UNCHANGED <<stick, storeVars, receiverVars, gateVars, held, seen>>

\* _stopDriving, when the stick is released, at STOP, for another mode, in the
\* background and on another page: no more velocities, and three zeros.
StopDriving ==
    /\ stick # None
    /\ stick' = None /\ posts' = posts \cup {0}
    /\ UNCHANGED <<storeVars, receiverVars, gateVars, held, seen>>

\* The App is killed: no zeros.
AppDies ==
    /\ stick # None
    /\ stick' = None
    /\ UNCHANGED <<posts, storeVars, receiverVars, gateVars, held, seen>>

\* set_velocity: the latest to arrive counts, not the latest sent.  Of several
\* requests with one velocity the last may be another.
PostArrives(v, last) ==
    /\ v \in posts
    /\ posts' = IF last THEN posts \ {v} ELSE posts
    /\ stored' = v /\ storedAge' = 0
    /\ UNCHANGED <<stick, receiverVars, gateVars, held, seen>>

PostLost(v) ==
    /\ v \in posts
    /\ posts' = posts \ {v}
    /\ UNCHANGED <<stick, storeVars, receiverVars, gateVars, held, seen>>

\* The store is in memory.
BackendRestart ==
    /\ stored' = 0 /\ storedAge' = Staleness + 1
    /\ UNCHANGED <<appVars, receiverVars, gateVars, held, seen>>

-----------------------------------------------------------------------------
(***************************************************************************)
(* teleop_receiver.                                                        *)
(***************************************************************************)
\* Fault variant of Latest: the age is not looked at.
LatestOfAnyAge == stored

\* get_velocity, and what _poll makes of it: the age is the server's.
Latest == IF storedAge <= Staleness THEN stored ELSE 0

\* _poll up to the server's answer.
AskPoll ==
    /\ answer = None /\ down = 0 /\ ~polled
    /\ answer' = Latest
    /\ polled' = TRUE
    /\ UNCHANGED <<appVars, storeVars, waited, down, gateVars, held, seen>>

\* The rest of it; any error is a zero.
EndPoll(arrives) ==
    /\ answer # None
    /\ teleop' = IF arrives THEN answer ELSE 0
    /\ teleopAge' = 0
    /\ answer' = None /\ waited' = 0
    /\ UNCHANGED <<appVars, storeVars, down, polled, scanned, hist, out, held, seen>>

\* _post_status takes the thread, or the node is restarted.
HoldUp(ticks) ==
    /\ down = 0
    /\ down' = ticks
    /\ answer' = None /\ waited' = 0
    /\ UNCHANGED <<appVars, storeVars, polled, gateVars, held, seen>>

-----------------------------------------------------------------------------
(***************************************************************************)
(* lidar_safety.                                                           *)
(***************************************************************************)
\* Fault variant of Commanded: the last message is used for ever.
CommandedForEver == teleop

\* The deadman of _tick.
Commanded == IF teleopAge > CmdTimeout THEN 0 ELSE teleop

\* gate_twist: nothing in the direction of an obstacle.
GateTwist(v, near) == IF v \in near THEN 0 ELSE v

\* Fault variant of Push: the window only grows.
PushOnly(v) == Append(hist, v)

Push(v) == Append(IF Len(hist) = Window THEN Tail(hist) ELSE hist, v)

\* How many values lie below m, and how many do not lie above it.
Below(h, m) == Cardinality({i \in DOMAIN h : h[i] < m})
UpTo(h, m) == Cardinality({i \in DOMAIN h : h[i] <= m})

\* sorted(hist)[len // 2]
Median(h) ==
    CHOOSE m \in Velocities : Below(h, m) <= Len(h) \div 2 /\ UpTo(h, m) > Len(h) \div 2

\* Fault variant of Smoothed: the latest value that moves is kept.
LastMoving(h) ==
    LET moving == {i \in DOMAIN h : h[i] # 0}
    IN IF moving = {} THEN 0 ELSE h[CHOOSE i \in moving : \A j \in moving : j <= i]

Smoothed(h) == Median(h)

\* _tick, with the latest scan, however old it is: nearby it shows obstacles in
\* the directions of near.  Without any scan yet there is no translation, nor
\* any history.  With it a tick passes: the poll has run, and an answer comes
\* within the client's timeout or not at all.
GateTick(scans, near) ==
    /\ scanned' = (scanned \/ scans)
    /\ IF scanned'
       THEN hist' = Push(GateTwist(Commanded, near)) /\ out' = Smoothed(hist')
       ELSE near = {} /\ out' = 0 /\ UNCHANGED hist
    /\ seen' = [d \in Directions |->
                  IF d \in near THEN Older(seen[d], Window \div 2 + 1) ELSE 0]
    /\ answer = None => down > 0 \/ polled
    /\ answer # None => waited < HttpTimeout
    /\ polled' = FALSE
    /\ waited' = IF answer = None THEN 0 ELSE waited + 1
    /\ down' = IF down > 0 THEN down - 1 ELSE 0
    /\ storedAge' = Older(storedAge, Staleness + 1)
    /\ teleopAge' = Older(teleopAge, CmdTimeout + 1)
    /\ held' = IF Held THEN 0 ELSE Older(held, RunOn + 1)
    /\ UNCHANGED <<appVars, stored, answer, teleop>>

Next ==
    \/ \E v \in Velocities : Touch(v)
    \/ TickSend \/ StopDriving \/ AppDies
    \/ \E v \in Velocities, last \in BOOLEAN : PostArrives(v, last)
    \/ \E v \in Velocities : PostLost(v)
    \/ BackendRestart
    \/ AskPoll
    \/ \E arrives \in BOOLEAN : EndPoll(arrives)
    \/ \E ticks \in 1 .. DownMax : HoldUp(ticks)
    \/ \E scans \in BOOLEAN, near \in SUBSET Directions : GateTick(scans, near)

Spec == Init /\ [][Next]_vars

-----------------------------------------------------------------------------
(***************************************************************************)
(* Properties.                                                             *)
(***************************************************************************)
\* The robot stops by itself: it translates only while the stick is held, a
\* velocity is still on its way to the backend, or for the sum of what the
\* stages may take afterwards, whatever is lost, overtaken, late or restarted.
StopsAfterRelease == out # 0 => held <= RunOn

\* An obstacle that stays stops the motion towards it when more than half of
\* the window has seen it, the reversals of the stick included.
ObstacleStops == out # 0 => seen[out] <= Window \div 2
=============================================================================
