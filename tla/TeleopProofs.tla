------------------------------ MODULE TeleopProofs ------------------------------
(***************************************************************************)
(* Proofs about Teleop for every staleness, timeout and window.            *)
(***************************************************************************)
EXTENDS Teleop, FiniteSetTheorems, SequenceTheorems, TLAPS

-----------------------------------------------------------------------------
(***************************************************************************)
(* The inductive invariant: how old the velocity is that each stage still  *)
(* believes in, on the clock that starts when the stick is released.       *)
(***************************************************************************)
HeldInv == Held => held = 0

StoreInv == stored # 0 /\ storedAge <= Staleness => held <= storedAge

AnswerInv == answer \in Directions => held <= Staleness + waited

TeleopInv ==
    teleop # 0 /\ teleopAge <= CmdTimeout =>
        held <= Staleness + HttpTimeout + teleopAge

\* The window was filled one pass after the other, ...
WindowInv ==
    /\ ~scanned => hist = <<>>
    /\ \A i \in DOMAIN hist : hist[i] # 0 =>
         held <= Staleness + HttpTimeout + CmdTimeout + (Len(hist) - i + 1)

\* ... and those that saw an obstacle put nothing towards it there.
SeenInv ==
    /\ ~scanned => \A d \in Directions : seen[d] = 0
    /\ \A d \in Directions, i \in DOMAIN hist : hist[i] = d => i <= Len(hist) - seen[d]

StagesInv ==
    /\ TypeOK /\ HeldInv /\ StoreInv /\ AnswerInv /\ TeleopInv /\ WindowInv /\ SeenInv
    /\ StopsAfterRelease /\ ObstacleStops

-----------------------------------------------------------------------------
(***************************************************************************)
(* The median.                                                             *)
(***************************************************************************)
LEMMA Parameters ==
    /\ Staleness \in Nat /\ HttpTimeout \in Nat /\ CmdTimeout \in Nat /\ DownMax \in Nat
    /\ Window \in Nat \ {0} /\ Window \div 2 \in Nat
    /\ RunOn \in Nat
    /\ RunOn = Staleness + HttpTimeout + CmdTimeout + Window \div 2 + 1
<1>1. /\ Staleness \in Nat /\ HttpTimeout \in Nat /\ CmdTimeout \in Nat /\ DownMax \in Nat
      /\ Window \in Nat \ {0}
  BY ConstantsOK
<1>2. Window \div 2 \in Nat
  BY <1>1
<1> QED
  BY <1>1, <1>2 DEF RunOn

LEMMA Halves ==
    ASSUME NEW n \in Nat
    PROVE  n \div 2 \in Nat /\ 2 * (n \div 2) <= n /\ n <= 2 * (n \div 2) + 1
  OBVIOUS

LEMMA FirstNumbers ==
    ASSUME NEW n \in Int
    PROVE  /\ IsFiniteSet(1 .. n)
           /\ Cardinality(1 .. n) = IF n > 0 THEN n ELSE 0
<1>1. 1 \in Int
  OBVIOUS
<1>2. /\ IsFiniteSet(1 .. n)
      /\ Cardinality(1 .. n) = IF 1 > n THEN 0 ELSE n - 1 + 1
  BY <1>1, FS_Interval, Zenon
<1>3. (IF 1 > n THEN 0 ELSE n - 1 + 1) = IF n > 0 THEN n ELSE 0
  OBVIOUS
<1> QED
  BY <1>2, <1>3

\* The values of a window below a bound, or up to one, are counted.
LEMMA Counted ==
    ASSUME NEW h \in Seq(Velocities), NEW m \in Velocities
    PROVE  /\ Below(h, m) \in Nat /\ UpTo(h, m) \in Nat
           /\ Below(h, Back) = 0 /\ UpTo(h, Back) = Below(h, 0)
           /\ UpTo(h, 0) = Below(h, Ahead) /\ UpTo(h, Ahead) = Len(h)
<1>1. /\ Len(h) \in Nat /\ DOMAIN h = 1 .. Len(h)
      /\ \A i \in DOMAIN h : h[i] \in {-1, 0, 1}
  BY LenProperties, ElementOfSeq DEF Velocities, Directions, Ahead, Back
<1>2. IsFiniteSet(DOMAIN h) /\ Cardinality(DOMAIN h) = Len(h)
  <2>1. /\ IsFiniteSet(1 .. Len(h))
        /\ Cardinality(1 .. Len(h)) = IF Len(h) > 0 THEN Len(h) ELSE 0
    BY <1>1, FirstNumbers
  <2> QED
    BY <1>1, <2>1
<1>3. Below(h, m) \in Nat /\ UpTo(h, m) \in Nat
  <2>1. IsFiniteSet({i \in DOMAIN h : h[i] < m}) /\ IsFiniteSet({i \in DOMAIN h : h[i] <= m})
    BY <1>2, FS_Subset
  <2> QED
    BY <2>1, FS_CardinalityType DEF Below, UpTo
<1>4. {i \in DOMAIN h : h[i] < -1} = {}
  BY <1>1
<1>5. {i \in DOMAIN h : h[i] <= -1} = {i \in DOMAIN h : h[i] < 0}
  BY <1>1
<1>6. {i \in DOMAIN h : h[i] <= 0} = {i \in DOMAIN h : h[i] < 1}
  BY <1>1
<1>7. {i \in DOMAIN h : h[i] <= 1} = DOMAIN h
  BY <1>1
<1> QED
  BY <1>2, <1>3, <1>4, <1>5, <1>6, <1>7, FS_EmptySet DEF Below, UpTo, Ahead, Back

\* A window that is not empty has a median.
LEMMA MedianExists ==
    ASSUME NEW h \in Seq(Velocities), h # <<>>
    PROVE  /\ Median(h) \in Velocities
           /\ Below(h, Median(h)) <= Len(h) \div 2 /\ UpTo(h, Median(h)) > Len(h) \div 2
<1>1. Len(h) \in Nat \ {0}
  BY EmptySeq, LenProperties
<1>2. /\ Back \in Velocities /\ 0 \in Velocities /\ Ahead \in Velocities
  BY DEF Velocities, Directions
<1>3. /\ Below(h, Back) = 0 /\ UpTo(h, Back) = Below(h, 0)
      /\ UpTo(h, 0) = Below(h, Ahead) /\ UpTo(h, Ahead) = Len(h)
      /\ UpTo(h, Back) \in Nat /\ UpTo(h, 0) \in Nat
  BY <1>2, Counted
<1>4. Len(h) \div 2 \in Nat /\ Len(h) \div 2 < Len(h)
  BY <1>1, Halves
<1> DEFINE k == Len(h) \div 2
<1> HIDE DEF k
<1>5. \E m \in Velocities : Below(h, m) <= k /\ UpTo(h, m) > k
  <2>1. CASE UpTo(h, Back) > k
    BY <1>2, <1>3, <1>4, <2>1 DEF k
  <2>2. CASE ~(UpTo(h, Back) > k) /\ UpTo(h, 0) > k
    <3>1. Below(h, 0) <= k
      BY <1>3, <1>4, <2>2 DEF k
    <3> QED
      BY <1>2, <2>2, <3>1
  <2>3. CASE ~(UpTo(h, 0) > k)
    <3>1. Below(h, Ahead) <= k /\ UpTo(h, Ahead) > k
      BY <1>3, <1>4, <2>3 DEF k
    <3> QED
      BY <1>2, <3>1
  <2> QED
    BY <2>1, <2>2, <2>3
<1> QED
  BY <1>5 DEF Median, k

\* A median that moves is not only among the oldest values of the window: it
\* is in the half, and one, that was pushed last.
LEMMA MedianIsRecent ==
    ASSUME NEW h \in Seq(Velocities), h # <<>>, Median(h) # 0
    PROVE  \E i \in DOMAIN h : h[i] = Median(h) /\ i >= Len(h) - Len(h) \div 2
<1> DEFINE m == Median(h)
           n == Len(h)
           k == n \div 2
<1>1. m \in {-1, 1} /\ Below(h, m) <= k /\ UpTo(h, m) > k
  BY MedianExists DEF Velocities, Directions, Ahead, Back
<1>2. /\ n \in Nat /\ DOMAIN h = 1 .. n
      /\ \A i \in DOMAIN h : h[i] \in {-1, 0, 1}
  BY LenProperties, ElementOfSeq DEF Velocities, Directions, Ahead, Back
<1>3. k \in Nat /\ 2 * k <= n /\ n <= 2 * k + 1 /\ n >= 1
  <2>1. n # 0
    BY EmptySeq
  <2> QED
    BY <1>2, <2>1, Halves
<1> HIDE DEF m, n, k
<1>4. SUFFICES ASSUME \A i \in DOMAIN h : h[i] = m => ~(i >= n - k)
               PROVE  FALSE
  BY DEF m, n, k
<1>5. CASE m = 1
  <2>1. ((n - k) .. n) \subseteq {i \in DOMAIN h : h[i] < m}
    BY <1>2, <1>3, <1>4, <1>5
  <2>2. IsFiniteSet({i \in DOMAIN h : h[i] < m})
    <3>1. IsFiniteSet(DOMAIN h)
      BY <1>2, FirstNumbers
    <3> QED
      BY <3>1, FS_Subset
  <2>3. Cardinality((n - k) .. n) = k + 1
    <3>1. n - k \in Int /\ n \in Int /\ ~(n - k > n) /\ n - (n - k) + 1 = k + 1
      BY <1>2, <1>3
    <3> QED
      BY <3>1, FS_Interval
  <2>4. Cardinality((n - k) .. n) <= Below(h, m)
    BY <2>1, <2>2, FS_Subset DEF Below
  <2> QED
    BY <1>1, <1>3, <2>2, <2>3, <2>4, FS_CardinalityType DEF Below
<1>6. CASE m = -1
  <2>1. {i \in DOMAIN h : h[i] <= m} \subseteq 1 .. (n - k - 1)
    BY <1>2, <1>3, <1>4, <1>6
  <2>2. IsFiniteSet(1 .. (n - k - 1)) /\ Cardinality(1 .. (n - k - 1)) <= k
    <3> DEFINE c == n - k - 1
    <3>1. c \in Int /\ c <= k
      BY <1>2, <1>3
    <3> HIDE DEF c
    <3>2. /\ IsFiniteSet(1 .. c)
          /\ Cardinality(1 .. c) = IF c > 0 THEN c ELSE 0
      BY <3>1, FirstNumbers
    <3>3. Cardinality(1 .. c) <= k
      BY <1>3, <3>1, <3>2
    <3> QED
      BY <3>2, <3>3 DEF c
  <2>3. UpTo(h, m) <= Cardinality(1 .. (n - k - 1)) /\ UpTo(h, m) \in Nat
    BY <2>1, <2>2, FS_Subset, FS_CardinalityType DEF UpTo
  <2>4. Cardinality(1 .. (n - k - 1)) \in Nat
    BY <2>2, FS_CardinalityType
  <2> QED
    BY <1>1, <1>3, <2>2, <2>3, <2>4
<1> QED
  BY <1>1, <1>5, <1>6

-----------------------------------------------------------------------------
(***************************************************************************)
(* A pass of the gate pushes one value into the window.                    *)
(***************************************************************************)
PushedOnto(t, h, v) ==
    /\ t \in Seq(Velocities) /\ t # <<>>
    /\ Len(t) \in 1 .. Window /\ DOMAIN t = 1 .. Len(t)
    /\ t[Len(t)] = v
    /\ \A i \in DOMAIN t : i # Len(t) =>
         \E j \in DOMAIN h : t[i] = h[j] /\ Len(t) - i = Len(h) - j + 1

LEMMA Pushed ==
    ASSUME NEW h \in Seq(Velocities), Len(h) <= Window, NEW v \in Velocities, NEW t
    PROVE  t = Append(IF Len(h) = Window THEN Tail(h) ELSE h, v) => PushedOnto(t, h, v)
<1>0. SUFFICES ASSUME t = Append(IF Len(h) = Window THEN Tail(h) ELSE h, v)
               PROVE  /\ t \in Seq(Velocities) /\ t # <<>>
                      /\ Len(t) \in 1 .. Window /\ DOMAIN t = 1 .. Len(t)
                      /\ t[Len(t)] = v
                      /\ \A i \in DOMAIN t : i # Len(t) =>
                           \E j \in DOMAIN h : t[i] = h[j] /\ Len(t) - i = Len(h) - j + 1
  BY DEF PushedOnto
<1>1. Len(h) \in Nat /\ DOMAIN h = 1 .. Len(h) /\ Window \in Nat \ {0}
  BY LenProperties, Parameters
<1>2. CASE Len(h) = Window
  <2> DEFINE r == Tail(h)
  <2>1. h # <<>>
    BY <1>1, <1>2, EmptySeq
  <2>2. /\ r \in Seq(Velocities) /\ Len(r) = Len(h) - 1
        /\ \A i \in 1 .. Len(r) : r[i] = h[i + 1]
    BY <2>1, HeadTailProperties
  <2>3. t = Append(r, v)
    BY <1>0, <1>2
  <2> HIDE DEF r
  <2>4. /\ t \in Seq(Velocities) /\ t # <<>> /\ Len(t) = Len(r) + 1
        /\ \A i \in 1 .. Len(r) : t[i] = r[i]
        /\ t[Len(r) + 1] = v
    BY <2>2, <2>3, AppendProperties
  <2>5. Len(t) = Len(h) /\ Len(r) \in Nat /\ DOMAIN t = 1 .. Len(t)
    BY <1>1, <2>2, <2>4, LenProperties
  <2>6. ASSUME NEW i \in DOMAIN t, i # Len(t)
        PROVE  \E j \in DOMAIN h : t[i] = h[j] /\ Len(t) - i = Len(h) - j + 1
    <3>1. i \in 1 .. Len(r) /\ i + 1 \in DOMAIN h
      BY <1>1, <2>4, <2>5, <2>6
    <3>2. t[i] = h[i + 1]
      BY <2>2, <2>4, <3>1
    <3>3. Len(t) - i = Len(h) - (i + 1) + 1
      BY <1>1, <2>5, <3>1
    <3> QED
      BY <3>1, <3>2, <3>3
  <2> QED
    BY <1>1, <1>2, <2>4, <2>5, <2>6
<1>3. CASE Len(h) # Window
  <2>1. t = Append(h, v)
    BY <1>0, <1>3
  <2>2. /\ t \in Seq(Velocities) /\ t # <<>> /\ Len(t) = Len(h) + 1
        /\ \A i \in 1 .. Len(h) : t[i] = h[i]
        /\ t[Len(h) + 1] = v
    BY <2>1, AppendProperties
  <2>3. Len(t) \in 1 .. Window /\ DOMAIN t = 1 .. Len(t)
    <3>1. DOMAIN t = 1 .. Len(t)
      BY <2>2, LenProperties
    <3>2. Len(h) < Window
      <4>1. \A a, b \in Nat : a <= b /\ a # b => a < b
        OBVIOUS
      <4>2. Len(h) \in Nat /\ Window \in Nat /\ Len(h) <= Window
        BY <1>1
      <4> QED
        BY <1>3, <4>1, <4>2
    <3> QED
      BY <1>1, <2>2, <3>1, <3>2
  <2>4. ASSUME NEW i \in DOMAIN t, i # Len(t)
        PROVE  \E j \in DOMAIN h : t[i] = h[j] /\ Len(t) - i = Len(h) - j + 1
    <3>1. i \in DOMAIN h /\ t[i] = h[i] /\ Len(t) - i = Len(h) - i + 1
      BY <1>1, <2>2, <2>3, <2>4
    <3> QED
      BY <3>1
  <2> QED
    BY <2>2, <2>3, <2>4
<1> QED
  BY <1>2, <1>3

-----------------------------------------------------------------------------
(***************************************************************************)
(* Types.                                                                  *)
(***************************************************************************)
LEMMA InitTypes == Init => TypeOK
<1> SUFFICES ASSUME Init PROVE TypeOK
  OBVIOUS
<1>1. /\ 0 \in Velocities /\ None \in Velocities \cup {None}
      /\ <<>> \in Seq(Velocities) /\ Len(<<>>) = 0
  BY EmptySeq DEF Velocities
<1>2. /\ Staleness + 1 \in 0 .. Staleness + 1 /\ 0 \in 0 .. HttpTimeout /\ 0 \in 0 .. DownMax
      /\ 0 \in 0 .. CmdTimeout + 1 /\ 0 <= Window /\ RunOn + 1 \in 0 .. RunOn + 1
      /\ 0 \in 0 .. Window \div 2 + 1
  BY Parameters
<1>3. {polled, scanned} \subseteq BOOLEAN /\ {teleop, out} \subseteq Velocities
  BY <1>1 DEF Init
<1> QED
  BY <1>1, <1>2, <1>3 DEF Init, TypeOK, None

LEMMA OlderTypes ==
    ASSUME NEW cap \in Nat, NEW age \in 0 .. cap
    PROVE  /\ Older(age, cap) \in 0 .. cap
           /\ age < cap => Older(age, cap) = age + 1
           /\ age <= Older(age, cap) /\ Older(age, cap) <= age + 1
  BY DEF Older

\* The values that pass the stages stay velocities.
LEMMA GatedTypes ==
    ASSUME TypeOK, NEW near \in SUBSET Directions
    PROVE  /\ Latest \in Velocities /\ Commanded \in Velocities
           /\ GateTwist(Commanded, near) \in Velocities
  BY DEF TypeOK, Latest, Commanded, GateTwist, Velocities

\* A pass of the gate, and the window after it.
LEMMA GateTickEffect ==
    ASSUME TypeOK, NEW scans \in BOOLEAN, NEW near \in SUBSET Directions,
           GateTick(scans, near)
    PROVE  /\ hist' \in Seq(Velocities) /\ Len(hist') <= Window /\ out' \in Velocities
           /\ scanned' =>
                /\ hist' # <<>> /\ DOMAIN hist' = 1 .. Len(hist')
                /\ Len(hist') \in Nat \ {0}
                /\ out' = Median(hist')
                /\ hist'[Len(hist')] = GateTwist(Commanded, near)
                /\ \A i \in DOMAIN hist' : i # Len(hist') =>
                     \E j \in DOMAIN hist : /\ hist'[i] = hist[j]
                                            /\ Len(hist') - i = Len(hist) - j + 1
           /\ ~scanned' => ~scanned /\ hist' = hist /\ out' = 0 /\ near = {}
<1>1. hist \in Seq(Velocities) /\ Len(hist) <= Window
  BY DEF TypeOK
<1>2. CASE scanned'
  <2> DEFINE v == GateTwist(Commanded, near)
             t == Append(IF Len(hist) = Window THEN Tail(hist) ELSE hist, v)
  <2>1. v \in Velocities
    BY GatedTypes
  <2>2. hist' = t /\ out' = Median(hist')
    BY <1>2 DEF GateTick, Push, Smoothed
  <2>3. t = Append(IF Len(hist) = Window THEN Tail(hist) ELSE hist, v)
    OBVIOUS
  <2> HIDE DEF v, t
  <2>4. /\ t \in Seq(Velocities) /\ t # <<>>
        /\ Len(t) \in 1 .. Window /\ DOMAIN t = 1 .. Len(t)
        /\ t[Len(t)] = v
        /\ \A i \in DOMAIN t : i # Len(t) =>
             \E j \in DOMAIN hist : t[i] = hist[j] /\ Len(t) - i = Len(hist) - j + 1
    <3>1. hist \in Seq(Velocities) /\ Len(hist) <= Window /\ v \in Velocities
      BY <1>1, <2>1
    <3>2. PushedOnto(t, hist, v)
      BY <2>3, <3>1, Pushed
    <3> QED
      BY <3>2 DEF PushedOnto
  <2>5. Median(t) \in Velocities
    BY <2>4, MedianExists
  <2>6. Len(t) \in Nat \ {0} /\ Len(t) <= Window
    BY <2>4, Parameters
  <2> QED
    BY <1>2, <2>2, <2>4, <2>5, <2>6 DEF v
<1>3. CASE ~scanned'
  <2>1. ~scanned /\ hist' = hist /\ out' = 0 /\ near = {}
    BY <1>3 DEF GateTick
  <2> QED
    BY <1>1, <1>3, <2>1 DEF Velocities
<1> QED
  BY <1>2, <1>3

LEMMA NextTypes == TypeOK /\ [Next]_vars => TypeOK'
<1> SUFFICES ASSUME TypeOK, [Next]_vars PROVE TypeOK'
  OBVIOUS
<1> USE Parameters DEF TypeOK, appVars, storeVars, receiverVars, gateVars
<1>1. ASSUME NEW v \in Velocities, Touch(v) PROVE TypeOK'
  BY <1>1 DEF Touch
<1>2. CASE TickSend \/ StopDriving \/ AppDies
  BY <1>2 DEF TickSend, StopDriving, AppDies, Velocities
<1>3. ASSUME NEW v \in Velocities, NEW last \in BOOLEAN, PostArrives(v, last) PROVE TypeOK'
  BY <1>3 DEF PostArrives
<1>4. ASSUME NEW v \in Velocities, PostLost(v) PROVE TypeOK'
  BY <1>4 DEF PostLost
<1>5. CASE BackendRestart
  BY <1>5 DEF BackendRestart, Velocities
<1>6. CASE AskPoll
  <2>1. Latest \in Velocities
    BY GatedTypes
  <2> QED
    BY <1>6, <2>1 DEF AskPoll
<1>7. ASSUME NEW arrives \in BOOLEAN, EndPoll(arrives) PROVE TypeOK'
  BY <1>7 DEF EndPoll, Velocities
<1>8. ASSUME NEW ticks \in 1 .. DownMax, HoldUp(ticks) PROVE TypeOK'
  BY <1>8 DEF HoldUp
<1>9. ASSUME NEW scans \in BOOLEAN, NEW near \in SUBSET Directions, GateTick(scans, near)
      PROVE TypeOK'
  <2>1. hist' \in Seq(Velocities) /\ Len(hist') <= Window /\ out' \in Velocities
    BY <1>9, GateTickEffect
  <2>2. /\ storedAge' = Older(storedAge, Staleness + 1)
        /\ teleopAge' = Older(teleopAge, CmdTimeout + 1)
        /\ held' = IF Held THEN 0 ELSE Older(held, RunOn + 1)
        /\ seen' = [d \in Directions |->
                      IF d \in near THEN Older(seen[d], Window \div 2 + 1) ELSE 0]
        /\ waited' = IF answer = None THEN 0 ELSE waited + 1
        /\ answer # None => waited < HttpTimeout
        /\ down' = IF down > 0 THEN down - 1 ELSE 0
        /\ polled' = FALSE /\ scanned' = (scanned \/ scans)
        /\ UNCHANGED <<stick, posts, stored, answer, teleop>>
    BY <1>9 DEF GateTick
  <2>3. storedAge' \in 0 .. Staleness + 1 /\ teleopAge' \in 0 .. CmdTimeout + 1
    BY <2>2, OlderTypes
  <2>4. held' \in 0 .. RunOn + 1
    <3> DEFINE cap == RunOn + 1
    <3>1. cap \in Nat /\ held \in 0 .. cap
      OBVIOUS
    <3> HIDE DEF cap
    <3>2. Older(held, cap) \in 0 .. cap
      BY <3>1, OlderTypes
    <3>3. 0 \in 0 .. cap
      BY <3>1
    <3> QED
      BY <2>2, <3>2, <3>3 DEF cap
  <2>5. seen' \in [Directions -> 0 .. Window \div 2 + 1]
    <3>1. \A d \in Directions : Older(seen[d], Window \div 2 + 1) \in 0 .. Window \div 2 + 1
      BY OlderTypes
    <3> QED
      BY <2>2, <3>1
  <2>6. waited' \in 0 .. HttpTimeout /\ (answer' = None => waited' = 0)
    BY <2>2
  <2>7. down' \in 0 .. DownMax /\ (down' > 0 => answer' = None)
    BY <2>2
  <2>8. {polled', scanned'} \subseteq BOOLEAN /\ {teleop', out'} \subseteq Velocities
    BY <2>1, <2>2
  <2> QED
    BY <2>1, <2>2, <2>3, <2>4, <2>5, <2>6, <2>7, <2>8
<1>10. CASE UNCHANGED vars
  BY <1>10 DEF vars
<1> QED
  BY <1>1, <1>2, <1>3, <1>4, <1>5, <1>6, <1>7, <1>8, <1>9, <1>10 DEF Next

-----------------------------------------------------------------------------
(***************************************************************************)
(* The steps before the gate.                                              *)
(***************************************************************************)
LEMMA InitStages == Init => StagesInv
<1> SUFFICES ASSUME Init PROVE StagesInv
  OBVIOUS
<1>1. ~Held
  BY DEF Init, Held, None, Directions, Ahead, Back
<1>2. HeldInv /\ StoreInv /\ AnswerInv /\ TeleopInv
  BY <1>1, Parameters DEF Init, HeldInv, StoreInv, AnswerInv, TeleopInv, None, Directions,
     Ahead, Back
<1>3. \A i : i \notin DOMAIN hist
  BY DEF Init
<1>4. WindowInv /\ SeenInv
  BY <1>3 DEF Init, WindowInv, SeenInv
<1>5. StopsAfterRelease /\ ObstacleStops
  BY DEF Init, StopsAfterRelease, ObstacleStops
<1> QED
  BY <1>2, <1>4, <1>5, InitTypes DEF StagesInv

\* What is in the window and what the robot does are as old as they were, or
\* the clock starts anew.
LEMMA GateUntouched ==
    ASSUME StagesInv, UNCHANGED <<scanned, hist, out, seen>>, held' \in {held, 0}
    PROVE  WindowInv' /\ SeenInv' /\ StopsAfterRelease' /\ ObstacleStops'
<1>1. /\ TypeOK /\ WindowInv /\ SeenInv /\ StopsAfterRelease /\ ObstacleStops
      /\ held \in Nat /\ hist \in Seq(Velocities)
  BY Parameters DEF StagesInv, TypeOK
<1>2. held' <= held /\ held' \in Nat
  BY <1>1
<1>3. SeenInv' /\ ObstacleStops'
  BY <1>1 DEF SeenInv, ObstacleStops
<1>4. StopsAfterRelease'
  BY <1>1, <1>2, Parameters DEF StopsAfterRelease
<1>5. WindowInv'
  <2> SUFFICES ASSUME NEW i \in DOMAIN hist, hist[i] # 0
               PROVE  held' <= Staleness + HttpTimeout + CmdTimeout + (Len(hist) - i + 1)
    BY <1>1 DEF WindowInv
  <2>1. held <= Staleness + HttpTimeout + CmdTimeout + (Len(hist) - i + 1)
    BY <1>1 DEF WindowInv
  <2>2. i \in Nat /\ Len(hist) \in Nat
    BY <1>1, LenProperties
  <2> HIDE DEF WindowInv
  <2> QED
    BY <1>1, <1>2, <2>1, <2>2, Parameters
<1> QED
  BY <1>3, <1>4, <1>5

LEMMA AppStages ==
    ASSUME StagesInv,
           \/ \E v \in Velocities : Touch(v) \/ PostLost(v)
           \/ TickSend \/ StopDriving \/ AppDies
    PROVE  /\ HeldInv' /\ StoreInv' /\ AnswerInv' /\ TeleopInv'
           /\ UNCHANGED <<scanned, hist, out, seen>> /\ held' \in {held, 0}
<1> USE DEF appVars, storeVars, receiverVars, gateVars
<1>1. TypeOK /\ HeldInv /\ StoreInv /\ AnswerInv /\ TeleopInv /\ held \in Nat
  BY Parameters DEF StagesInv, TypeOK
<1>2. /\ UNCHANGED <<stored, storedAge, answer, waited, teleop, teleopAge, scanned, hist, out,
                     seen>>
      /\ held' \in {held, 0}
  BY DEF Touch, PostLost, TickSend, StopDriving, AppDies
<1>3. Held' => held' = 0 \/ (Held /\ held' = held)
  BY <1>1 DEF Held, TypeOK, Touch, PostLost, TickSend, StopDriving, AppDies, Velocities,
     Directions, Ahead, Back, None
<1>4. HeldInv'
  BY <1>1, <1>3 DEF HeldInv
<1>5. StoreInv' /\ AnswerInv' /\ TeleopInv'
  <2>1. held' <= held /\ held' \in Nat
    BY <1>1, <1>2
  <2>2. StoreInv'
    BY <1>1, <1>2, <2>1 DEF StoreInv, TypeOK
  <2>3. AnswerInv'
    BY <1>1, <1>2, <2>1, Parameters DEF AnswerInv, TypeOK
  <2>4. TeleopInv'
    BY <1>1, <1>2, <2>1, Parameters DEF TeleopInv, TypeOK
  <2> QED
    BY <2>2, <2>3, <2>4
<1> QED
  BY <1>2, <1>4, <1>5

LEMMA BackendStages ==
    ASSUME StagesInv,
           \/ \E v \in Velocities, last \in BOOLEAN : PostArrives(v, last)
           \/ BackendRestart
    PROVE  /\ HeldInv' /\ StoreInv' /\ AnswerInv' /\ TeleopInv'
           /\ UNCHANGED <<scanned, hist, out, seen>> /\ held' \in {held, 0}
<1> USE DEF appVars, receiverVars, gateVars
<1>1. TypeOK /\ HeldInv /\ StoreInv /\ AnswerInv /\ TeleopInv /\ held \in Nat
  BY Parameters DEF StagesInv, TypeOK
<1>2. UNCHANGED <<stick, answer, waited, teleop, teleopAge, scanned, hist, out, seen, held>>
  BY DEF PostArrives, BackendRestart
<1>3. AnswerInv' /\ TeleopInv'
  BY <1>1, <1>2 DEF AnswerInv, TeleopInv
<1>4. CASE BackendRestart
  <2>1. HeldInv' /\ StoreInv'
    BY <1>1, <1>4 DEF BackendRestart, HeldInv, StoreInv, Held
  <2> QED
    BY <1>2, <1>3, <2>1
<1>5. CASE \E v \in Velocities, last \in BOOLEAN : PostArrives(v, last)
  <2>1. PICK v \in Velocities, last \in BOOLEAN : PostArrives(v, last)
    BY <1>5
  <2>2. /\ v \in posts /\ posts' \subseteq posts /\ stored' = v /\ storedAge' = 0
    BY <2>1 DEF PostArrives
  <2>3. HeldInv'
    BY <1>1, <1>2, <2>2 DEF HeldInv, Held
  <2>4. v # 0 => held = 0
    BY <1>1, <2>2 DEF HeldInv, Held, Velocities
  <2>5. StoreInv'
    BY <1>1, <1>2, <2>2, <2>4 DEF StoreInv
  <2> QED
    BY <1>2, <1>3, <2>3, <2>5
<1> QED
  BY <1>4, <1>5

LEMMA ReceiverStages ==
    ASSUME StagesInv,
           \/ AskPoll
           \/ \E arrives \in BOOLEAN : EndPoll(arrives)
           \/ \E ticks \in 1 .. DownMax : HoldUp(ticks)
    PROVE  /\ HeldInv' /\ StoreInv' /\ AnswerInv' /\ TeleopInv'
           /\ UNCHANGED <<scanned, hist, out, seen>> /\ held' \in {held, 0}
<1> USE DEF appVars, storeVars, gateVars
<1>1. /\ TypeOK /\ HeldInv /\ StoreInv /\ AnswerInv /\ TeleopInv
      /\ held \in Nat /\ storedAge \in Nat /\ waited \in Nat /\ waited <= HttpTimeout
      /\ stored \in Velocities /\ answer \in Velocities \cup {None}
      /\ answer = None => waited = 0
  BY Parameters DEF StagesInv, TypeOK
<1>2. UNCHANGED <<stick, posts, stored, storedAge, scanned, hist, out, seen, held>>
  BY DEF AskPoll, EndPoll, HoldUp
<1>3. HeldInv' /\ StoreInv'
  BY <1>1, <1>2 DEF HeldInv, StoreInv, Held
<1>4. CASE AskPoll
  <2>1. answer = None /\ answer' = Latest /\ UNCHANGED <<waited, teleop, teleopAge>>
    BY <1>4 DEF AskPoll
  <2>2. Latest \in Directions => held <= Staleness
    BY <1>1, Parameters DEF Latest, StoreInv, Directions, Ahead, Back
  <2>3. AnswerInv'
    BY <1>1, <1>2, <2>1, <2>2, Parameters DEF AnswerInv
  <2>4. TeleopInv'
    BY <1>1, <1>2, <2>1 DEF TeleopInv
  <2> QED
    BY <1>2, <1>3, <2>3, <2>4
<1>5. CASE \E arrives \in BOOLEAN : EndPoll(arrives)
  <2>1. /\ answer # None /\ teleop' \in {answer, 0} /\ teleopAge' = 0 /\ answer' = None
    BY <1>5 DEF EndPoll
  <2>2. teleop' # 0 => answer \in Directions
    BY <1>1, <2>1 DEF Velocities
  <2>3. TeleopInv'
    BY <1>1, <1>2, <2>1, <2>2, Parameters DEF TeleopInv, AnswerInv
  <2>4. AnswerInv'
    BY <2>1 DEF AnswerInv, None, Directions, Ahead, Back
  <2> QED
    BY <1>2, <1>3, <2>3, <2>4
<1>6. CASE \E ticks \in 1 .. DownMax : HoldUp(ticks)
  <2>1. answer' = None /\ UNCHANGED <<teleop, teleopAge>>
    BY <1>6 DEF HoldUp
  <2>2. AnswerInv'
    BY <2>1 DEF AnswerInv, None, Directions, Ahead, Back
  <2>3. TeleopInv'
    BY <1>1, <1>2, <2>1 DEF TeleopInv
  <2> QED
    BY <1>2, <1>3, <2>2, <2>3
<1> QED
  BY <1>4, <1>5, <1>6

-----------------------------------------------------------------------------
(***************************************************************************)
(* A pass of the gate.                                                     *)
(***************************************************************************)
LEMMA GateStages ==
    ASSUME StagesInv, NEW scans \in BOOLEAN, NEW near \in SUBSET Directions,
           GateTick(scans, near)
    PROVE  /\ HeldInv' /\ StoreInv' /\ AnswerInv' /\ TeleopInv' /\ WindowInv' /\ SeenInv'
           /\ StopsAfterRelease' /\ ObstacleStops'
<1> DEFINE n == Len(hist')
           H == Window \div 2
<1>1. /\ TypeOK /\ HeldInv /\ StoreInv /\ AnswerInv /\ TeleopInv /\ WindowInv /\ SeenInv
      /\ held \in Nat /\ storedAge \in Nat /\ teleopAge \in Nat /\ waited \in Nat
      /\ storedAge \in 0 .. Staleness + 1 /\ teleopAge \in 0 .. CmdTimeout + 1
      /\ held \in 0 .. RunOn + 1
      /\ seen \in [Directions -> 0 .. H + 1]
      /\ waited <= HttpTimeout /\ (answer = None => waited = 0)
      /\ hist \in Seq(Velocities)
  BY Parameters DEF StagesInv, TypeOK
<1>2. /\ storedAge' = Older(storedAge, Staleness + 1)
      /\ teleopAge' = Older(teleopAge, CmdTimeout + 1)
      /\ held' = IF Held THEN 0 ELSE Older(held, RunOn + 1)
      /\ seen' = [d \in Directions |-> IF d \in near THEN Older(seen[d], H + 1) ELSE 0]
      /\ waited' = IF answer = None THEN 0 ELSE waited + 1
      /\ UNCHANGED <<stick, posts, stored, answer, teleop>>
  BY DEF GateTick, appVars
<1>3. held' \in Nat /\ held' <= held + 1
  BY <1>1, <1>2 DEF Older
<1>4. HeldInv'
  BY <1>2 DEF HeldInv, Held
<1>5. StoreInv'
  BY <1>1, <1>2, <1>3, Parameters DEF StoreInv, Older
<1>6. AnswerInv'
  BY <1>1, <1>2, <1>3, Parameters DEF AnswerInv, None, Directions, Ahead, Back
<1>7. TeleopInv'
  BY <1>1, <1>2, <1>3, Parameters DEF TeleopInv, Older
<1>8. /\ scanned' =>
           /\ hist' \in Seq(Velocities) /\ n <= Window
           /\ hist' # <<>> /\ DOMAIN hist' = 1 .. n /\ n \in Nat \ {0}
           /\ out' = Median(hist')
           /\ hist'[n] = GateTwist(Commanded, near)
           /\ \A i \in DOMAIN hist' : i # n =>
                \E j \in DOMAIN hist : hist'[i] = hist[j] /\ n - i = Len(hist) - j + 1
      /\ ~scanned' => ~scanned /\ hist' = hist /\ out' = 0 /\ near = {}
  BY <1>1, GateTickEffect
<1>9. Len(hist) \in Nat /\ DOMAIN hist = 1 .. Len(hist)
  BY <1>1, LenProperties
<1>10. /\ seen' \in [Directions -> Nat]
       /\ \A d \in Directions : /\ d \in near => seen'[d] <= seen[d] + 1
                                /\ d \notin near => seen'[d] = 0
  <2>1. \A d \in Directions : /\ Older(seen[d], H + 1) \in Nat
                              /\ Older(seen[d], H + 1) <= seen[d] + 1
    BY <1>1, Parameters DEF Older
  <2> QED
    BY <1>2, <2>1
<1> HIDE DEF n, H
<1>11. CASE ~scanned'
  <2>1. hist' = <<>> /\ \A i : i \notin DOMAIN hist'
    BY <1>1, <1>8, <1>11 DEF WindowInv
  <2>2. WindowInv'
    BY <2>1 DEF WindowInv
  <2>3. SeenInv'
    BY <1>8, <1>10, <1>11, <2>1 DEF SeenInv
  <2>4. StopsAfterRelease' /\ ObstacleStops'
    BY <1>8, <1>11 DEF StopsAfterRelease, ObstacleStops
  <2> QED
    BY <1>4, <1>5, <1>6, <1>7, <2>2, <2>3, <2>4
<1>12. CASE scanned'
  <2> DEFINE sum == Staleness + HttpTimeout + CmdTimeout
  <2>0. sum \in Nat
    BY Parameters
  <2>1. Commanded # 0 => held <= sum
    BY <1>1, Parameters DEF Commanded, TeleopInv
  <2>2. \A j \in DOMAIN hist : hist[j] # 0 => held <= sum + (Len(hist) - j + 1)
    BY <1>1 DEF WindowInv
  <2> HIDE DEF sum
  <2>3. \A i \in DOMAIN hist' : hist'[i] # 0 => held' <= sum + (n - i + 1)
    <3> SUFFICES ASSUME NEW i \in DOMAIN hist', hist'[i] # 0
                 PROVE  held' <= sum + (n - i + 1)
      OBVIOUS
    <3>0. i \in Nat /\ n \in Nat
      BY <1>8, <1>12
    <3>1. CASE i = n
      <4>1. Commanded # 0
        BY <1>8, <1>12, <3>1 DEF GateTwist
      <4> QED
        BY <1>1, <1>3, <2>0, <2>1, <3>0, <3>1, <4>1
    <3>2. CASE i # n
      <4>1. PICK j \in DOMAIN hist : hist'[i] = hist[j] /\ n - i = Len(hist) - j + 1
        BY <1>8, <1>12, <3>2
      <4>2. held <= sum + (Len(hist) - j + 1) /\ j \in Nat
        BY <1>9, <2>2, <4>1
      <4> QED
        BY <1>1, <1>3, <1>9, <2>0, <3>0, <4>1, <4>2
    <3> QED
      BY <3>1, <3>2
  <2>4. WindowInv'
    BY <1>12, <2>3 DEF WindowInv, sum, n
  <2>5. \A d \in Directions, i \in DOMAIN hist' : hist'[i] = d => i <= n - seen'[d]
    <3> SUFFICES ASSUME NEW d \in Directions, NEW i \in DOMAIN hist', hist'[i] = d
                 PROVE  i <= n - seen'[d]
      OBVIOUS
    <3>0. i \in Nat /\ n \in Nat /\ i <= n /\ seen'[d] \in Nat /\ seen[d] \in Nat
      BY <1>1, <1>8, <1>10, <1>12, Parameters DEF H
    <3>1. CASE d \notin near
      BY <1>10, <3>0, <3>1
    <3>2. CASE d \in near
      <4>1. i # n
        BY <1>8, <1>12, <3>2 DEF GateTwist, Directions, Ahead, Back
      <4>2. PICK j \in DOMAIN hist : hist'[i] = hist[j] /\ n - i = Len(hist) - j + 1
        BY <1>8, <1>12, <4>1
      <4>3. j <= Len(hist) - seen[d] /\ j \in Nat
        BY <1>1, <1>9, <4>2 DEF SeenInv
      <4>4. seen'[d] <= seen[d] + 1
        BY <1>10, <3>2
      <4> QED
        BY <1>9, <3>0, <4>2, <4>3, <4>4
    <3> QED
      BY <3>1, <3>2
  <2>6. SeenInv'
    BY <1>12, <2>5 DEF SeenInv, n
  <2>7. ASSUME out' # 0
        PROVE  \E i \in DOMAIN hist' : hist'[i] = out' /\ n - i <= H
    <3>1. PICK i \in DOMAIN hist' : hist'[i] = out' /\ i >= n - n \div 2
      BY <1>8, <1>12, <2>7, MedianIsRecent DEF n
    <3>2. i \in Nat /\ n \in Nat /\ n <= Window /\ Window \in Nat
      BY <1>8, <1>12, Parameters
    <3>3. n \div 2 <= H
      BY <3>2 DEF H
    <3>4. n \div 2 \in Nat /\ H \in Nat
      BY <3>2, Halves DEF H
    <3> QED
      BY <3>1, <3>2, <3>3, <3>4
  <2>8. StopsAfterRelease'
    <3> SUFFICES ASSUME out' # 0 PROVE held' <= RunOn
      BY DEF StopsAfterRelease
    <3>1. PICK i \in DOMAIN hist' : hist'[i] = out' /\ n - i <= H
      BY <2>7
    <3>2. held' <= sum + (n - i + 1) /\ i \in Nat /\ n \in Nat
      BY <1>8, <1>12, <2>3, <3>1
    <3>3. RunOn = sum + H + 1 /\ H \in Nat
      BY Parameters DEF sum, H
    <3> QED
      BY <1>3, <2>0, <3>1, <3>2, <3>3
  <2>9. ObstacleStops'
    <3> SUFFICES ASSUME out' # 0 PROVE seen'[out'] <= H
      BY DEF ObstacleStops, H
    <3>1. PICK i \in DOMAIN hist' : hist'[i] = out' /\ n - i <= H
      BY <2>7
    <3>2. out' \in Directions
      <4>1. hist'[i] \in Velocities
        BY <1>8, <1>12, <3>1, ElementOfSeq DEF n
      <4> QED
        BY <3>1, <4>1 DEF Velocities
    <3>3. i <= n - seen'[out'] /\ seen'[out'] \in Nat /\ i \in Nat /\ n \in Nat /\ H \in Nat
      BY <1>8, <1>10, <1>12, <2>5, <3>1, <3>2, Parameters DEF H
    <3> QED
      BY <3>1, <3>3
  <2> QED
    BY <1>4, <1>5, <1>6, <1>7, <2>4, <2>6, <2>8, <2>9
<1> QED
  BY <1>11, <1>12

LEMMA StagesPreserved == StagesInv /\ [Next]_vars => StagesInv'
<1> SUFFICES ASSUME StagesInv, [Next]_vars PROVE StagesInv'
  OBVIOUS
<1>0. TypeOK'
  BY NextTypes DEF StagesInv
<1>1. CASE \E scans \in BOOLEAN, near \in SUBSET Directions : GateTick(scans, near)
  <2>1. /\ HeldInv' /\ StoreInv' /\ AnswerInv' /\ TeleopInv' /\ WindowInv' /\ SeenInv'
        /\ StopsAfterRelease' /\ ObstacleStops'
    BY <1>1, GateStages
  <2> QED
    BY <1>0, <2>1 DEF StagesInv
<1>2. CASE ~ \E scans \in BOOLEAN, near \in SUBSET Directions : GateTick(scans, near)
  <2>1. /\ HeldInv' /\ StoreInv' /\ AnswerInv' /\ TeleopInv'
        /\ UNCHANGED <<scanned, hist, out, seen>> /\ held' \in {held, 0}
    <3>1. CASE UNCHANGED vars
      BY <3>1 DEF vars, appVars, storeVars, receiverVars, gateVars, StagesInv, HeldInv, Held,
         StoreInv, AnswerInv, TeleopInv
    <3> QED
      BY <1>2, <3>1, AppStages, BackendStages, ReceiverStages DEF Next
  <2>2. WindowInv' /\ SeenInv' /\ StopsAfterRelease' /\ ObstacleStops'
    BY <2>1, GateUntouched
  <2> QED
    BY <1>0, <2>1, <2>2 DEF StagesInv
<1> QED
  BY <1>1, <1>2

-----------------------------------------------------------------------------
(***************************************************************************)
(* The theorems.                                                           *)
(***************************************************************************)
THEOREM StagesInvariant == Spec => []StagesInv
<1>1. Init => StagesInv
  BY InitStages
<1>2. StagesInv /\ [Next]_vars => StagesInv'
  BY StagesPreserved
<1> QED
  BY <1>1, <1>2, PTL DEF Spec

\* Every variable keeps its type: the window never outgrows its size.
THEOREM TypeCorrect == Spec => []TypeOK
<1>1. StagesInv => TypeOK
  BY DEF StagesInv
<1> QED
  BY <1>1, StagesInvariant, PTL

\* The robot stops within RunOn of the release of the stick, whatever is lost,
\* late or overtaken, and however many stages stop working meanwhile.
THEOREM RobotStops == Spec => []StopsAfterRelease
<1>1. StagesInv => StopsAfterRelease
  BY DEF StagesInv
<1> QED
  BY <1>1, StagesInvariant, PTL

\* The smoothing does not carry the robot on towards an obstacle that more than
\* half of the window has seen.
THEOREM ObstacleIsRespected == Spec => []ObstacleStops
<1>1. StagesInv => ObstacleStops
  BY DEF StagesInv
<1> QED
  BY <1>1, StagesInvariant, PTL
=============================================================================
