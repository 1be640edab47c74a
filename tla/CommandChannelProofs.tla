------------------------- MODULE CommandChannelProofs -------------------------
(***************************************************************************)
(* Proofs about CommandChannel for every set of commands and every         *)
(* pending_limit, however many answers are lost and restarts happen.       *)
(***************************************************************************)
EXTENDS CommandChannel, SequenceTheorems, FiniteSetTheorems, TLAPS

-----------------------------------------------------------------------------
(***************************************************************************)
(* The list of pending commands.                                           *)
(***************************************************************************)
UpTo(S, m) == {n \in S : n <= m}

\* Rank in a finite set of numbers: every rank is held by one element, and a
\* larger element has a larger rank.
LEMMA Ranks ==
    ASSUME NEW S \in SUBSET Nat, IsFiniteSet(S)
    PROVE  /\ Cardinality(S) \in Nat
           /\ \A m \in S : Cardinality(UpTo(S, m)) \in 1 .. Cardinality(S)
           /\ \A m, n \in S :
                m < n => Cardinality(UpTo(S, m)) < Cardinality(UpTo(S, n))
           /\ \A i \in 1 .. Cardinality(S) :
                \E m \in S : Cardinality(UpTo(S, m)) = i
<1> DEFINE R(m) == Cardinality(UpTo(S, m))
           r == [m \in S |-> R(m)]
<1>1. Cardinality(S) \in Nat
  BY FS_CardinalityType
<1>2. ASSUME NEW m \in S PROVE IsFiniteSet(UpTo(S, m)) /\ R(m) \in 1 .. Cardinality(S)
  <2>1. UpTo(S, m) \in SUBSET S /\ m \in UpTo(S, m)
    BY DEF UpTo
  <2>2. IsFiniteSet(UpTo(S, m)) /\ R(m) <= Cardinality(S)
    BY <2>1, FS_Subset
  <2>3. R(m) \in Nat /\ R(m) # 0
    BY <2>1, <2>2, FS_CardinalityType, FS_EmptySet
  <2> QED
    BY <1>1, <2>2, <2>3
<1>3. ASSUME NEW m \in S, NEW n \in S, m < n PROVE R(m) < R(n)
  <2>1. \A k \in S : k \in Nat
    OBVIOUS
  <2>2. n \notin UpTo(S, m) /\ n \in UpTo(S, n)
    BY <1>3, <2>1 DEF UpTo
  <2>3. \A k \in S : k <= m => k <= n
    BY <1>3, <2>1
  <2>4. UpTo(S, m) \in SUBSET UpTo(S, n)
    BY <2>3 DEF UpTo
  <2>5. R(m) <= R(n) /\ R(m) # R(n)
    BY <2>2, <2>4, <1>2, FS_Subset
  <2> QED
    BY <2>5, <1>2, <1>1
<1>4. ASSUME NEW i \in 1 .. Cardinality(S) PROVE \E m \in S : R(m) = i
  <2> HIDE DEF R
  <2>1. r \in [S -> 1 .. Cardinality(S)]
    BY <1>2
  <2>2. \A m, n \in S : r[m] = r[n] => m = n
    <3> SUFFICES ASSUME NEW m \in S, NEW n \in S, m # n PROVE R(m) # R(n)
      OBVIOUS
    <3>1. m < n \/ n < m
      OBVIOUS
    <3> QED
      BY <3>1, <1>2, <1>3, <1>1
  <2>3. r \in Injection(S, 1 .. Cardinality(S))
    BY <2>1, <2>2 DEF Injection, IsInjective
  <2>4. IsFiniteSet(1 .. Cardinality(S)) /\ Cardinality(1 .. Cardinality(S)) = Cardinality(S)
    BY <1>1, FS_Interval
  <2>5. r \in Surjection(S, 1 .. Cardinality(S))
    BY <2>3, <2>4, FS_Injection
  <2> QED
    BY <2>5 DEF Surjection
<1> QED
  BY <1>1, <1>2, <1>3, <1>4

Queued == Places({"queued"})

\* Where the i-th pending command stands in the table.
PlaceOf(i) == CHOOSE m \in Queued : Cardinality({n \in Queued : n <= m}) = i

LEMMA PlacesOfPending ==
    ASSUME order \in Seq(Commands)
    PROVE  /\ Cardinality(Queued) \in Nat
           /\ \A i \in 1 .. Cardinality(Queued) : PlaceOf(i) \in Queued
           /\ \A i, j \in 1 .. Cardinality(Queued) : i < j => PlaceOf(i) < PlaceOf(j)
           /\ \A i \in 1 .. Cardinality(Queued), m \in Queued :
                m < PlaceOf(i) => \E j \in 1 .. i - 1 : PlaceOf(j) = m
<1> DEFINE R(m) == Cardinality(UpTo(Queued, m))
           N == Cardinality(Queued)
<1>1. Queued \in SUBSET (1 .. Len(order)) /\ Len(order) \in Nat
  BY LenProperties DEF Queued, Places
<1>2. IsFiniteSet(Queued) /\ Queued \in SUBSET Nat
  <2>1. IsFiniteSet(1 .. Len(order))
    BY <1>1, FS_Interval
  <2>2. IsFiniteSet(Queued)
    BY <1>1, <2>1, FS_Subset
  <2>3. \A m \in 1 .. Len(order) : m \in Nat
    BY <1>1
  <2> QED
    BY <1>1, <2>2, <2>3
<1>3. /\ N \in Nat
      /\ \A m \in Queued : R(m) \in 1 .. N
      /\ \A m, n \in Queued : m < n => R(m) < R(n)
      /\ \A i \in 1 .. N : \E m \in Queued : R(m) = i
  BY <1>2, Ranks
<1>4. ASSUME NEW i \in 1 .. N PROVE PlaceOf(i) \in Queued /\ R(PlaceOf(i)) = i
  BY <1>3 DEF PlaceOf, UpTo
<1> HIDE DEF R, N
<1>5. \A m, n \in Queued : R(m) <= R(n) => m <= n
  <2> SUFFICES ASSUME NEW m \in Queued, NEW n \in Queued, n < m PROVE R(n) < R(m)
    BY <1>2, <1>3
  <2> QED
    BY <1>3
<1>6. ASSUME NEW i \in 1 .. N, NEW j \in 1 .. N, i < j PROVE PlaceOf(i) < PlaceOf(j)
  <2>1. PlaceOf(i) <= PlaceOf(j) /\ PlaceOf(i) # PlaceOf(j)
    BY <1>4, <1>5, <1>6, <1>3
  <2>2. PlaceOf(i) \in Nat /\ PlaceOf(j) \in Nat
    BY <1>2, <1>4
  <2> QED
    BY <2>1, <2>2
<1>7. ASSUME NEW i \in 1 .. N, NEW m \in Queued, m < PlaceOf(i)
      PROVE  \E j \in 1 .. i - 1 : PlaceOf(j) = m
  <2>1. R(m) < i /\ R(m) \in 1 .. N
    BY <1>7, <1>3, <1>4
  <2>2. PlaceOf(R(m)) <= m /\ m <= PlaceOf(R(m))
    BY <2>1, <1>3, <1>4, <1>5
  <2>3. m \in Nat /\ PlaceOf(R(m)) \in Nat
    BY <2>1, <1>2, <1>4
  <2>4. R(m) \in 1 .. i - 1
    BY <2>1, <1>3
  <2>5. PlaceOf(R(m)) = m
    BY <2>2, <2>3
  <2> QED
    BY <2>4, <2>5
<1> QED
  BY <1>3, <1>4, <1>6, <1>7 DEF N

\* What a poll fetches: queued commands only, in the order of the table, with
\* none left out before one that is fetched.
LEMMA FetchedInOrder ==
    ASSUME order \in Seq(Commands)
    PROVE  /\ Fetched \in Seq(Commands)
           /\ Len(Fetched) <= PendingLimit
           /\ PendingCommands # <<>> => Fetched # <<>>
           /\ \A i \in DOMAIN Fetched :
                PlaceOf(i) \in Queued /\ Fetched[i] = order[PlaceOf(i)]
           /\ \A i, j \in DOMAIN Fetched : i < j => PlaceOf(i) < PlaceOf(j)
           /\ \A i \in DOMAIN Fetched, m \in Queued :
                m < PlaceOf(i) => \E j \in DOMAIN Fetched : j < i /\ PlaceOf(j) = m
<1> DEFINE N == Cardinality(Queued)
           P == PendingCommands
<1>1. /\ N \in Nat
      /\ \A i \in 1 .. N : PlaceOf(i) \in Queued
      /\ \A i, j \in 1 .. N : i < j => PlaceOf(i) < PlaceOf(j)
      /\ \A i \in 1 .. N, m \in Queued :
            m < PlaceOf(i) => \E j \in 1 .. i - 1 : PlaceOf(j) = m
  BY PlacesOfPending
<1>2. P = [i \in 1 .. N |-> order[PlaceOf(i)]]
  BY DEF PendingCommands, OldestFirst, PlaceOf, Queued
<1> HIDE DEF N
<1>3. \A m \in Queued : order[m] \in Commands
  <2>1. \A m \in Queued : m \in 1 .. Len(order)
    BY LenProperties DEF Queued, Places
  <2> QED
    BY <2>1, ElementOfSeq
<1>4. P \in [1 .. N -> Commands]
  BY <1>1, <1>2, <1>3
<1>5. P \in Seq(Commands)
  BY <1>1, <1>4, SeqDef
<1>6. Len(P) = N
  <2>1. Len(P) \in Nat /\ 1 .. Len(P) = 1 .. N
    BY <1>4, <1>5, LenProperties
  <2> QED
    BY <2>1, <1>1
<1>7. PendingLimit \in Nat \ {0}
  BY ConstantsOK
<1>8. PICK k \in 0 .. N :
        /\ k <= PendingLimit
        /\ N # 0 => k # 0
        /\ Fetched \in Seq(Commands) /\ Len(Fetched) = k
        /\ \A i \in 1 .. k : Fetched[i] = P[i]
  <2>1. CASE N <= PendingLimit
    BY <1>1, <1>5, <1>6, <2>1 DEF Fetched
  <2>2. CASE ~(N <= PendingLimit)
    <3>1. Fetched = SubSeq(P, 1, PendingLimit)
      BY <1>6, <2>2 DEF Fetched
    <3>2. PendingLimit \in 0 .. N /\ PendingLimit < N
      BY <1>1, <1>7, <2>2
    <3>3. \A i \in 1 .. PendingLimit : P[i] \in Commands
      BY <1>4, <3>2, <1>1
    <3>4. /\ SubSeq(P, 1, PendingLimit) \in Seq(Commands)
          /\ Len(SubSeq(P, 1, PendingLimit)) = PendingLimit
          /\ \A i \in 1 .. PendingLimit : SubSeq(P, 1, PendingLimit)[i] = P[i]
      <4>1. PendingLimit \in Int /\ 1 \in Int /\ 1 <= PendingLimit
        BY <1>7
      <4>2. /\ SubSeq(P, 1, PendingLimit) \in Seq(Commands)
            /\ Len(SubSeq(P, 1, PendingLimit))
                  = IF 1 <= PendingLimit THEN PendingLimit - 1 + 1 ELSE 0
            /\ \A i \in 1 .. PendingLimit - 1 + 1 :
                  SubSeq(P, 1, PendingLimit)[i] = P[1 + i - 1]
        BY <3>3, <4>1, SubSeqProperties
      <4> QED
        BY <4>1, <4>2
    <3> QED
      BY <1>7, <3>1, <3>2, <3>4
  <2> QED
    BY <2>1, <2>2
<1>9. DOMAIN Fetched = 1 .. k
  BY <1>8, LenProperties
<1>10. P # <<>> => k # 0
  <2>1. P # <<>> => Len(P) # 0
    BY <1>5, EmptySeq
  <2> QED
    BY <2>1, <1>6, <1>8
<1>11. P # <<>> => Fetched # <<>>
  BY <1>10, <1>8, EmptySeq
<1>12. \A i \in 1 .. k : i \in 1 .. N /\ 1 .. i - 1 \subseteq 1 .. k
  BY <1>1, <1>8
<1>13. \A i \in 1 .. k : PlaceOf(i) \in Queued /\ Fetched[i] = order[PlaceOf(i)]
  BY <1>1, <1>2, <1>8, <1>12
<1>14. \A i \in 1 .. k, m \in Queued :
         m < PlaceOf(i) => \E j \in 1 .. k : j < i /\ PlaceOf(j) = m
  <2> SUFFICES ASSUME NEW i \in 1 .. k, NEW m \in Queued, m < PlaceOf(i)
               PROVE  \E j \in 1 .. k : j < i /\ PlaceOf(j) = m
    OBVIOUS
  <2>1. PICK j \in 1 .. i - 1 : PlaceOf(j) = m
    BY <1>1, <1>12
  <2>2. j \in 1 .. k /\ j < i
    BY <1>12, <2>1, <1>8
  <2> QED
    BY <2>1, <2>2
<1> QED
  BY <1>1, <1>8, <1>9, <1>11, <1>12, <1>13, <1>14

-----------------------------------------------------------------------------
(***************************************************************************)
(* The inductive invariant.  What makes the properties true is that the    *)
(* ack takes a command off the pending list before it is taken up, that    *)
(* the batch holds the oldest pending commands, and that a worker holds a  *)
(* command the callback is done with.                                      *)
(***************************************************************************)
Taken == Range(dispatched)

Working == {"decide", "script", "write", "report"}
InCallback == {"dispatch", "check", "report"}

\* A command is in the table once, from its creation.
TableInv ==
    /\ \A m, n \in DOMAIN order : order[m] = order[n] => m = n
    /\ \A c \in Commands : status[c] = "none" <=> c \notin Range(order)

\* The batch holds a command once, and those still to be acked are queued.
BatchInv ==
    /\ \A i, j \in DOMAIN batch : batch[i] = batch[j] => i = j
    /\ \A i \in DOMAIN batch : i > 1 \/ step = "ack" => status[batch[i]] = "queued"

\* Between its ack and its report the current command is sent; it is not
\* taken up before it is dispatched, and it is not the worker's.
CallbackInv ==
    /\ step \in InCallback => status[Current] = "sent"
    /\ step \in {"dispatch", "check"} => Current \notin Taken
    /\ step = "report" => Current \in Taken
    /\ step \in InCallback /\ work \in Working => worker # Current

\* _mode_thread is set while the thread has work; what it works for is sent.
ThreadInv ==
    /\ modeThread <=> work \in Working \cup {"finally"}
    /\ work = "none" <=> worker = NoCommand
    /\ work \in Working => worker \in Taken /\ status[worker] = "sent"

\* What was taken up had been sent, and what was sent is taken up or accounted
\* for, but for the command at hand.
TakenInv ==
    /\ \A c \in Taken : status[c] \in {"sent", "done", "failed"}
    /\ \A c \in Commands : status[c] \in {"sent", "done", "failed"} =>
          \/ c \in Taken \cup skipped \cup excused
          \/ step \in {"dispatch", "check"} /\ c = Current

\* Everything older than a command of the batch is before it in the batch, or
\* was taken up, or is accounted for.
QueueInv ==
    \A i \in DOMAIN batch, m, n \in DOMAIN order :
        m < n /\ order[n] = batch[i] =>
            \/ order[m] \in Taken \cup skipped \cup excused
            \/ \E j \in DOMAIN batch : j < i /\ batch[j] = order[m]

ChannelInv ==
    /\ TypeOK /\ TableInv /\ BatchInv /\ CallbackInv /\ ThreadInv /\ TakenInv
    /\ QueueInv /\ AtMostOnce /\ InOrder /\ NeverForgotten

\* Only switches and saves run scripts.
ScriptKinds == \A c \in scripts : KindOf[c] \in SwitchKinds \cup {"save"}

\* A script the node has not left behind runs for the worker, which waits for it.
ScriptInv == \A c \in scripts \ orphans : c = worker /\ work = "script"

\* Unless its lock is taken away a switch runs alone, under its lock, and the
\* state file says "switching".
LockInv ==
    ~stolen =>
        /\ \A c, d \in Switching : c = d
        /\ Switching # {} => mode = "switching" /\ lock # "absent"

\* So it is until the worker writes the state file, and then the stack is
\* already what the file will say.
SwitchInv ==
    ~stolen /\ work \in {"script", "write"} /\ KindOf[worker] \in SwitchKinds =>
        /\ mode = "switching"
        /\ work = "script" => Switching \subseteq {worker}
        /\ work = "write" =>
             /\ Switching = {}
             /\ strayed \/ stack = StackAfter(KindOf[worker], workVerdict = "done")

RobotInv == ScriptKinds /\ ScriptInv /\ LockInv /\ SwitchInv /\ ModeFileTrue

-----------------------------------------------------------------------------
(***************************************************************************)
(* What the operations on the sequences do.                                *)
(***************************************************************************)
LEMMA Appended ==
    ASSUME NEW S, NEW s \in Seq(S), NEW c \in S
    PROVE  /\ Append(s, c) \in Seq(S)
           /\ DOMAIN Append(s, c) = DOMAIN s \cup {Len(s) + 1}
           /\ Len(s) + 1 \notin DOMAIN s
           /\ \A i \in DOMAIN s :
                i \in Nat /\ i < Len(s) + 1 /\ Append(s, c)[i] = s[i]
           /\ Append(s, c)[Len(s) + 1] = c
           /\ Range(Append(s, c)) = Range(s) \cup {c}
<1>1. /\ Append(s, c) \in Seq(S)
      /\ Len(Append(s, c)) = Len(s) + 1
      /\ \A i \in 1 .. Len(s) : Append(s, c)[i] = s[i]
      /\ Append(s, c)[Len(s) + 1] = c
  BY AppendProperties
<1>2. Len(s) \in Nat /\ DOMAIN s = 1 .. Len(s)
  BY LenProperties
<1>3. DOMAIN Append(s, c) = 1 .. Len(s) + 1
  BY <1>1, LenProperties
<1>4. 1 .. Len(s) + 1 = (1 .. Len(s)) \cup {Len(s) + 1}
  BY <1>2
<1>5. DOMAIN Append(s, c) = DOMAIN s \cup {Len(s) + 1}
  BY <1>2, <1>3, <1>4
<1>6. \A i \in DOMAIN s : i \in Nat /\ i < Len(s) + 1 /\ Append(s, c)[i] = s[i]
  BY <1>1, <1>2
<1>7. Range(Append(s, c)) = Range(s) \cup {c}
  BY <1>1, <1>5, <1>6 DEF Range
<1> QED
  BY <1>1, <1>2, <1>5, <1>6, <1>7

LEMMA CurrentInBatch ==
    ASSUME TypeOK, step \notin {"down", "idle"}
    PROVE  /\ batch # <<>> /\ 1 \in DOMAIN batch
           /\ Current = batch[1] /\ Current \in Commands
<1>1. batch \in Seq(Commands) /\ batch # <<>>
  BY DEF TypeOK
<1>2. Len(batch) \in Nat \ {0} /\ DOMAIN batch = 1 .. Len(batch)
  BY <1>1, EmptySeq, LenProperties
<1>3. Current = batch[1]
  BY <1>1 DEF Current
<1> QED
  BY <1>1, <1>2, <1>3, ElementOfSeq

\* Every command of the batch is queued, or sent if it is the current one.
LEMMA BatchCreated ==
    ASSUME TypeOK, BatchInv, CallbackInv
    PROVE  \A i \in DOMAIN batch :
             batch[i] \in Commands /\ status[batch[i]] \in {"queued", "sent"}
<1> SUFFICES ASSUME NEW i \in DOMAIN batch
             PROVE  batch[i] \in Commands /\ status[batch[i]] \in {"queued", "sent"}
  OBVIOUS
<1>1. batch \in Seq(Commands) /\ i \in 1 .. Len(batch) /\ Len(batch) \in Nat
  BY LenProperties DEF TypeOK
<1>2. batch[i] \in Commands
  BY <1>1, ElementOfSeq
<1>3. step \notin {"down", "idle"}
  BY <1>1 DEF TypeOK
<1>4. CASE i > 1 \/ step = "ack"
  BY <1>2, <1>4 DEF BatchInv
<1>5. CASE ~(i > 1) /\ step # "ack"
  <2>1. i = 1 /\ step \in InCallback
    BY <1>1, <1>3, <1>5 DEF TypeOK, InCallback
  <2> QED
    BY <1>2, <1>3, <2>1, CurrentInBatch DEF CallbackInv
<1> QED
  BY <1>4, <1>5

\* Going on to the next command of the batch.
LEMMA Advances ==
    ASSUME TypeOK, step \notin {"down", "idle"}, NextCommand
    PROVE  /\ batch' \in Seq(Commands)
           /\ Len(batch') <= PendingLimit
           /\ step' \in {"idle", "ack"}
           /\ step' = "idle" <=> batch' = <<>>
           /\ \A i \in DOMAIN batch' :
                i \in Nat /\ i + 1 > 1 /\ i + 1 \in DOMAIN batch
                /\ batch'[i] = batch[i + 1]
           /\ \A i \in DOMAIN batch : i = 1 \/ i - 1 \in DOMAIN batch'
<1>1. batch \in Seq(Commands) /\ batch # <<>> /\ Len(batch) <= PendingLimit
  BY DEF TypeOK
<1>2. Len(batch) \in Nat /\ DOMAIN batch = 1 .. Len(batch)
  BY <1>1, LenProperties
<1>3. batch' = Tail(batch) /\ step' = IF Tail(batch) = <<>> THEN "idle" ELSE "ack"
  BY DEF NextCommand
<1>4. /\ batch' \in Seq(Commands)
      /\ Len(batch') = Len(batch) - 1
      /\ \A i \in 1 .. Len(batch') : batch'[i] = batch[i + 1]
  BY <1>1, <1>3, HeadTailProperties
<1>5. Len(batch') \in Nat /\ DOMAIN batch' = 1 .. Len(batch')
  BY <1>4, LenProperties
<1>6. PendingLimit \in Nat
  BY ConstantsOK
<1> QED
  BY <1>1, <1>2, <1>3, <1>4, <1>5, <1>6

\* One command is taken up after another.
Before(s, c, d) == \E p, q \in DOMAIN s : p < q /\ s[p] = c /\ s[q] = d

LEMMA ContainsInRange ==
    ASSUME NEW S, NEW s \in Seq(S), NEW c
    PROVE  Contains(s, c) <=> c \in Range(s)
  BY LenProperties DEF Contains, Range

\* A command is taken up for the first time.
LEMMA TakesUp ==
    ASSUME dispatched \in Seq(Commands), AtMostOnce,
           NEW c \in Commands, c \notin Taken,
           dispatched' = Append(dispatched, c)
    PROVE  /\ dispatched' \in Seq(Commands)
           /\ Taken' = Taken \cup {c}
           /\ AtMostOnce'
           /\ \A a, b : Before(dispatched, a, b) => Before(dispatched', a, b)
           /\ \A a \in Taken : Before(dispatched', a, c)
<1> DEFINE k == Len(dispatched) + 1
<1>1. /\ dispatched' \in Seq(Commands)
      /\ DOMAIN dispatched' = DOMAIN dispatched \cup {k}
      /\ \A i \in DOMAIN dispatched : i < k /\ dispatched'[i] = dispatched[i]
      /\ dispatched'[k] = c
  BY Appended
<1>2. Taken' = Taken \cup {c}
  BY Appended DEF Taken
<1> HIDE DEF k
<1>3. AtMostOnce'
  BY <1>1 DEF AtMostOnce, Taken, Range
<1>4. \A a, b : Before(dispatched, a, b) => Before(dispatched', a, b)
  BY <1>1 DEF Before
<1>5. \A a \in Taken : Before(dispatched', a, c)
  BY <1>1 DEF Before, Taken, Range
<1> QED
  BY <1>1, <1>2, <1>3, <1>4, <1>5

\* Commands are created behind the others, and excuses are never taken back.
LEMMA InOrderKept ==
    ASSUME dispatched \in Seq(Commands), InOrder, UNCHANGED dispatched,
           skipped \subseteq skipped', excused \subseteq excused',
           DOMAIN order \subseteq DOMAIN order',
           \A m \in DOMAIN order : order'[m] = order[m],
           \A n \in DOMAIN order' \ DOMAIN order :
             order'[n] \notin Taken /\ \A m \in DOMAIN order : ~(n < m)
    PROVE  InOrder'
  BY ContainsInRange DEF InOrder, Taken

LEMMA InOrderTakesUp ==
    ASSUME TypeOK, TableInv, QueueInv, AtMostOnce, InOrder,
           step \in {"dispatch", "check"}, Current \notin Taken,
           dispatched' = Append(dispatched, Current),
           UNCHANGED <<order, skipped>>, excused \subseteq excused'
    PROVE  InOrder'
<1>1. /\ 1 \in DOMAIN batch /\ Current = batch[1] /\ Current \in Commands
      /\ \A j \in DOMAIN batch : ~(j < 1)
  <2>1. \A j \in DOMAIN batch : ~(j < 1)
    BY LenProperties DEF TypeOK
  <2> QED
    BY <2>1, CurrentInBatch
<1>2. dispatched \in Seq(Commands)
  BY DEF TypeOK
<1>3. /\ dispatched' \in Seq(Commands)
      /\ Taken' = Taken \cup {Current}
      /\ \A a, b : Before(dispatched, a, b) => Before(dispatched', a, b)
      /\ \A a \in Taken : Before(dispatched', a, Current)
  BY <1>1, <1>2, TakesUp
<1>4. \A m, n \in DOMAIN order :
         m < n /\ order[n] \in Taken /\ order[m] \notin skipped \cup excused
         => Before(dispatched, order[m], order[n])
  BY <1>2, ContainsInRange DEF InOrder, Before, Taken
<1>5. \A m, n \in DOMAIN order :
         m < n /\ order[n] = Current => order[m] \in Taken \cup skipped \cup excused
  BY <1>1 DEF QueueInv
<1>6. \A m, n \in DOMAIN order :
         m < n /\ order[n] \in Taken' /\ order[m] \notin skipped \cup excused
         => Before(dispatched', order[m], order[n])
  BY <1>3, <1>4, <1>5
<1>7. \A c : Contains(dispatched', c) <=> c \in Taken'
  BY <1>3, ContainsInRange DEF Taken
<1> QED
  BY <1>6, <1>7 DEF InOrder, Before

-----------------------------------------------------------------------------
(***************************************************************************)
(* The initial state, and one lemma for each kind of step.                 *)
(***************************************************************************)
LEMMA InitChannelInv == Init => ChannelInv
<1> SUFFICES ASSUME Init PROVE ChannelInv
  OBVIOUS
<1> USE DEF Init
<1>1. /\ DOMAIN order = {} /\ DOMAIN batch = {} /\ DOMAIN dispatched = {}
      /\ order \in Seq(Commands) /\ batch \in Seq(Commands)
      /\ dispatched \in Seq(Commands) /\ Len(batch) = 0
  OBVIOUS
<1>2. TypeOK
  <2>1. PendingLimit \in Nat /\ 0 \in 0 .. MaxFaults /\ 0 \in 0 .. MaxCrashes
    BY ConstantsOK
  <2>2. step \in {"down", "idle"} /\ batch = <<>> /\ worker \in {NoCommand}
    OBVIOUS
  <2>3. status \in [Commands -> Statuses]
    BY DEF Statuses
  <2>4. {skipped, excused} \subseteq SUBSET Commands
    OBVIOUS
  <2>5. orphans \subseteq scripts /\ {stolen, strayed} \subseteq BOOLEAN
    OBVIOUS
  <2>6. {verdict, workVerdict} \subseteq {"done", "failed"}
    OBVIOUS
  <2>7. faults \in 0 .. MaxFaults /\ crashes \in 0 .. MaxCrashes
    BY <2>1
  <2>8. Len(batch) <= PendingLimit
    BY <2>1
  <2> HIDE DEF Init
  <2> QED
    BY <1>1, <2>2, <2>3, <2>4, <2>5, <2>6, <2>7, <2>8 DEF TypeOK, Init
<1>3. Taken = {} /\ Range(order) = {}
  BY <1>1 DEF Taken, Range
<1>4. InHand = {}
  BY DEF InHand
<1> QED
  BY <1>1, <1>2, <1>3, <1>4
     DEF ChannelInv, TableInv, BatchInv, CallbackInv, ThreadInv, TakenInv, QueueInv,
         AtMostOnce, InOrder, NeverForgotten, InCallback, Working

LEMMA CreateChannelInv ==
    ASSUME ChannelInv, NEW c \in Commands, Create(c)
    PROVE  ChannelInv'
<1> USE DEF receiver, thread, robot, history, bounds
<1>0. /\ TypeOK /\ TableInv /\ BatchInv /\ CallbackInv /\ ThreadInv /\ TakenInv
      /\ QueueInv /\ AtMostOnce /\ InOrder /\ NeverForgotten
  BY DEF ChannelInv
<1> DEFINE k == Len(order) + 1
<1>1. /\ order' \in Seq(Commands)
      /\ DOMAIN order' = DOMAIN order \cup {k} /\ k \notin DOMAIN order
      /\ \A i \in DOMAIN order : i \in Nat /\ i < k /\ order'[i] = order[i]
      /\ order'[k] = c
      /\ Range(order') = Range(order) \cup {c}
  BY <1>0, Appended DEF Create, TypeOK
<1>2. k \in Nat
  BY <1>0, LenProperties DEF TypeOK
<1> HIDE DEF k
<1>3. /\ status[c] = "none" /\ status \in [Commands -> Statuses]
      /\ status' = [status EXCEPT ![c] = "queued"]
      /\ Taken' = Taken /\ Current' = Current /\ InHand' = InHand
      /\ UNCHANGED <<step, batch, worker, work, modeThread, dispatched, skipped, excused>>
  BY <1>0 DEF Create, TypeOK, Taken, Current, InHand
<1>4. c \notin Range(order) /\ c \notin Taken
  BY <1>0, <1>3 DEF TableInv, TakenInv
<1>5. TypeOK'
  BY <1>0, <1>1 DEF Create, TypeOK, Statuses
<1>6. TableInv'
  BY <1>0, <1>1, <1>3, <1>4 DEF TableInv, Range
<1>7. BatchInv'
  BY <1>0, <1>3 DEF BatchInv, TypeOK
<1>8. CallbackInv'
  BY <1>0, <1>3 DEF CallbackInv, TypeOK
<1>9. ThreadInv' /\ TakenInv'
  BY <1>0, <1>3, <1>4 DEF ThreadInv, TakenInv
<1>10. QueueInv'
  <2>1. \A i \in DOMAIN batch : batch[i] # c
    BY <1>0, <1>3, BatchCreated
  <2>2. \A m, n \in DOMAIN order' : m < n /\ n # k => m \in DOMAIN order
    BY <1>1, <1>2
  <2> QED
    BY <1>0, <1>1, <1>2, <1>3, <2>1, <2>2 DEF QueueInv
<1>11. AtMostOnce' /\ NeverForgotten'
  BY <1>0, <1>3 DEF AtMostOnce, NeverForgotten
<1>12. InOrder'
  BY <1>0, <1>1, <1>2, <1>3, <1>4, InOrderKept DEF TypeOK
<1> QED
  BY <1>5, <1>6, <1>7, <1>8, <1>9, <1>10, <1>11, <1>12 DEF ChannelInv

LEMMA PollChannelInv ==
    ASSUME ChannelInv, Poll
    PROVE  ChannelInv'
<1> USE DEF backend, thread, robot, history, bounds
<1>0. /\ TypeOK /\ TableInv /\ BatchInv /\ CallbackInv /\ ThreadInv /\ TakenInv
      /\ QueueInv /\ AtMostOnce /\ InOrder /\ NeverForgotten
  BY DEF ChannelInv
<1>1. /\ step = "idle" /\ step' = "ack" /\ batch' = Fetched
      /\ Taken' = Taken /\ InHand' = InHand
      /\ UNCHANGED <<order, status, worker, work, modeThread, dispatched, skipped, excused>>
  BY DEF Poll, Taken, InHand
<1>2. order \in Seq(Commands)
  BY <1>0 DEF TypeOK
<1>3. /\ Fetched \in Seq(Commands) /\ Len(Fetched) <= PendingLimit
      /\ Fetched # <<>>
  BY <1>2, FetchedInOrder DEF Poll
<1>4. /\ \A i \in DOMAIN Fetched :
           PlaceOf(i) \in Queued /\ Fetched[i] = order[PlaceOf(i)]
      /\ \A i, j \in DOMAIN Fetched : i < j => PlaceOf(i) < PlaceOf(j)
      /\ \A i \in DOMAIN Fetched, m \in Queued :
           m < PlaceOf(i) => \E j \in DOMAIN Fetched : j < i /\ PlaceOf(j) = m
  BY <1>2, FetchedInOrder
<1>5. DOMAIN Fetched \subseteq Nat /\ DOMAIN order \subseteq Nat
  BY <1>2, <1>3, LenProperties
<1>6. \A m \in DOMAIN order : m \in Queued <=> status[order[m]] = "queued"
  BY DEF Queued, Places
<1>7. Queued \subseteq DOMAIN order
  BY DEF Queued, Places
<1>8. TypeOK'
  BY <1>0, <1>3 DEF Poll, TypeOK
<1>9. BatchInv'
  <2>1. \A i, j \in DOMAIN Fetched : i < j => Fetched[i] # Fetched[j]
    BY <1>0, <1>4, <1>5, <1>7 DEF TableInv
  <2>2. \A i, j \in DOMAIN Fetched : Fetched[i] = Fetched[j] => i = j
    BY <1>5, <2>1
  <2> QED
    BY <1>1, <1>4, <1>6, <1>7, <2>2 DEF BatchInv
<1>10. QueueInv'
  <2> SUFFICES ASSUME NEW i \in DOMAIN Fetched, NEW m \in DOMAIN order,
                      NEW n \in DOMAIN order, m < n, order[n] = Fetched[i]
               PROVE  \/ order[m] \in Taken \cup skipped \cup excused
                      \/ \E j \in DOMAIN Fetched : j < i /\ Fetched[j] = order[m]
    BY <1>1 DEF QueueInv
  <2>1. n = PlaceOf(i)
    BY <1>0, <1>4, <1>7 DEF TableInv
  <2>2. CASE m \in Queued
    BY <1>4, <2>1, <2>2
  <2>3. CASE m \notin Queued
    <3>1. order[m] \in Commands /\ order[m] \in Range(order)
      BY <1>2, LenProperties, ElementOfSeq DEF Range
    <3>2. status[order[m]] \in {"sent", "done", "failed"}
      BY <1>0, <1>6, <2>3, <3>1 DEF TableInv, TypeOK, Statuses
    <3> QED
      BY <1>0, <1>1, <3>1, <3>2 DEF TakenInv
  <2> QED
    BY <2>2, <2>3
<1>11. CallbackInv' /\ ThreadInv' /\ TakenInv' /\ TableInv'
  BY <1>0, <1>1 DEF CallbackInv, ThreadInv, TakenInv, TableInv, InCallback
<1>12. AtMostOnce' /\ InOrder' /\ NeverForgotten'
  BY <1>0, <1>1 DEF AtMostOnce, InOrder, NeverForgotten
<1> QED
  BY <1>8, <1>9, <1>10, <1>11, <1>12 DEF ChannelInv

\* The callback leaves its current command, now accounted for, to the next.
LEMMA AdvanceKeepsBatch ==
    ASSUME TypeOK, BatchInv, QueueInv,
           step \notin {"down", "idle"}, NextCommand, UNCHANGED order,
           \A i \in DOMAIN batch : i > 1 => status'[batch[i]] = status[batch[i]],
           Taken \cup skipped \cup excused \subseteq (Taken \cup skipped \cup excused)',
           Current \in (Taken \cup skipped \cup excused)'
    PROVE  BatchInv' /\ QueueInv' /\ CallbackInv'
<1>1. /\ step' \in {"idle", "ack"}
      /\ \A i \in DOMAIN batch' :
            i \in Nat /\ i + 1 > 1 /\ i + 1 \in DOMAIN batch /\ batch'[i] = batch[i + 1]
      /\ \A i \in DOMAIN batch : i = 1 \/ i - 1 \in DOMAIN batch'
  BY Advances
<1>2. Current = batch[1] /\ DOMAIN batch \subseteq Nat
  BY CurrentInBatch, LenProperties DEF TypeOK
<1>3. BatchInv'
  <2>1. \A i, j \in DOMAIN batch' : batch'[i] = batch'[j] => i = j
    <3> SUFFICES ASSUME NEW i \in DOMAIN batch', NEW j \in DOMAIN batch',
                        batch'[i] = batch'[j]
                 PROVE  i = j
      OBVIOUS
    <3>1. i + 1 = j + 1
      BY <1>1 DEF BatchInv
    <3> QED
      BY <1>1, <3>1
  <2>2. \A i \in DOMAIN batch' : status'[batch'[i]] = "queued"
    BY <1>1 DEF BatchInv
  <2> QED
    BY <2>1, <2>2 DEF BatchInv
<1>4. QueueInv'
  <2> SUFFICES ASSUME NEW i \in DOMAIN batch', NEW m \in DOMAIN order,
                      NEW n \in DOMAIN order, m < n, order[n] = batch'[i],
                      order[m] \notin (Taken \cup skipped \cup excused)'
               PROVE  \E j \in DOMAIN batch' : j < i /\ batch'[j] = order[m]
    BY DEF QueueInv
  <2>1. PICK j \in DOMAIN batch : j < i + 1 /\ batch[j] = order[m]
    BY <1>1 DEF QueueInv
  <2>2. j # 1
    BY <1>2, <2>1
  <2>3. j - 1 \in DOMAIN batch' /\ j - 1 < i /\ batch'[j - 1] = batch[j]
    BY <1>1, <1>2, <2>1, <2>2
  <2> QED
    BY <2>1, <2>3
<1>5. CallbackInv'
  BY <1>1 DEF CallbackInv, InCallback
<1> QED
  BY <1>3, <1>4, <1>5

\* Acked: the command is sent, and now at hand.
LEMMA AckAnsweredChannelInv ==
    ASSUME ChannelInv, AckAnswered
    PROVE  ChannelInv'
<1> USE DEF thread, robot, history
<1>0. /\ TypeOK /\ TableInv /\ BatchInv /\ CallbackInv /\ ThreadInv /\ TakenInv
      /\ QueueInv /\ AtMostOnce /\ InOrder /\ NeverForgotten
  BY DEF ChannelInv
<1>1. /\ step = "ack" /\ step' = "dispatch"
      /\ Taken' = Taken /\ Current' = Current
      /\ UNCHANGED <<order, batch, worker, work, modeThread, dispatched, skipped, excused>>
  BY DEF AckAnswered, Taken, Current
<1>2. /\ 1 \in DOMAIN batch /\ Current = batch[1] /\ Current \in Commands
      /\ status[Current] = "queued"
  BY <1>0, <1>1, CurrentInBatch DEF BatchInv
<1>3. status' = [status EXCEPT ![Current] = "sent"]
  BY <1>2 DEF AckAnswered, AckCommand
<1>4. status \in [Commands -> Statuses]
  BY <1>0 DEF TypeOK
<1>5. /\ status' \in [Commands -> Statuses]
      /\ \A c \in Commands : status'[c] = IF c = Current THEN "sent" ELSE status[c]
  BY <1>3, <1>4 DEF Statuses
<1>6. Current \notin Taken /\ Taken \subseteq Commands
  BY <1>0, <1>2, RangeOfSeq DEF TakenInv, TypeOK, Taken
<1>7. TypeOK'
  BY <1>0, <1>5 DEF AckAnswered, Answered, TypeOK
<1>8. TableInv'
  BY <1>0, <1>1, <1>2, <1>5 DEF TableInv
<1>9. BatchInv'
  <2>1. \A i \in DOMAIN batch : batch[i] \in Commands
    BY <1>0, BatchCreated
  <2>2. \A i \in DOMAIN batch : i > 1 => batch[i] # Current
    BY <1>0, <1>2 DEF BatchInv
  <2> QED
    BY <1>0, <1>1, <1>5, <2>1, <2>2 DEF BatchInv
<1>10. ThreadInv'
  BY <1>0, <1>1, <1>2, <1>5, <1>6 DEF ThreadInv
<1>11. CallbackInv'
  BY <1>0, <1>1, <1>2, <1>5, <1>6 DEF CallbackInv, ThreadInv
<1>12. TakenInv'
  BY <1>0, <1>1, <1>5, <1>6 DEF TakenInv
<1>13. QueueInv' /\ AtMostOnce' /\ InOrder'
  BY <1>0, <1>1 DEF QueueInv, AtMostOnce, InOrder
<1>14. NeverForgotten'
  BY <1>0, <1>1, <1>5 DEF NeverForgotten, InHand
<1> QED
  BY <1>7, <1>8, <1>9, <1>10, <1>11, <1>12, <1>13, <1>14 DEF ChannelInv

\* Not acked: the command is skipped, and excused if it was marked sent.
LEMMA AckDroppedChannelInv ==
    ASSUME ChannelInv, AckUnanswered \/ AckFails
    PROVE  ChannelInv'
<1> USE DEF backend, thread, robot, history
<1>0. /\ TypeOK /\ TableInv /\ BatchInv /\ CallbackInv /\ ThreadInv /\ TakenInv
      /\ QueueInv /\ AtMostOnce /\ InOrder /\ NeverForgotten
  BY DEF ChannelInv
<1>1. /\ step = "ack" /\ NextCommand
      /\ Taken' = Taken
      /\ skipped' = skipped \cup {Current}
      /\ UNCHANGED <<order, worker, work, modeThread, dispatched>>
  BY DEF AckUnanswered, AckFails, Taken
<1>2. /\ 1 \in DOMAIN batch /\ Current = batch[1] /\ Current \in Commands
      /\ status[Current] = "queued"
  BY <1>0, <1>1, CurrentInBatch DEF BatchInv
<1>3. \/ /\ status' = [status EXCEPT ![Current] = "sent"]
         /\ excused' = excused \cup {Current}
      \/ status' = status /\ excused' = excused
  BY <1>2 DEF AckUnanswered, AckFails, AckCommand
<1>4. status \in [Commands -> Statuses]
  BY <1>0 DEF TypeOK
<1>5. /\ status' \in [Commands -> Statuses]
      /\ \A c \in Commands :
           \/ status'[c] = status[c]
           \/ c = Current /\ status'[c] = "sent" /\ c \in excused'
      /\ excused \subseteq excused'
  BY <1>2, <1>3, <1>4 DEF Statuses
<1>6. Current \notin Taken /\ Taken \subseteq Commands
  BY <1>0, <1>2, RangeOfSeq DEF TakenInv, TypeOK, Taken
<1>7. /\ batch' \in Seq(Commands) /\ Len(batch') <= PendingLimit
      /\ step' \in {"idle", "ack"} /\ (step' = "idle" <=> batch' = <<>>)
  BY <1>0, <1>1, Advances
<1>8. TypeOK'
  <2>1. {skipped', excused'} \subseteq SUBSET Commands
    BY <1>0, <1>1, <1>2, <1>3 DEF TypeOK
  <2>2. faults' \in 0 .. MaxFaults
    BY <1>0, ConstantsOK DEF AckUnanswered, AckFails, Fault, TypeOK
  <2> QED
    BY <1>0, <1>5, <1>7, <2>1, <2>2 DEF AckUnanswered, AckFails, TypeOK
<1>9. TableInv'
  BY <1>0, <1>1, <1>2, <1>5 DEF TableInv
<1>10. BatchInv' /\ QueueInv' /\ CallbackInv'
  <2>1. \A i \in DOMAIN batch : batch[i] \in Commands
    BY <1>0, BatchCreated
  <2>2. \A i \in DOMAIN batch : i > 1 => batch[i] # Current
    BY <1>0, <1>2 DEF BatchInv
  <2>3. \A i \in DOMAIN batch : i > 1 => status'[batch[i]] = status[batch[i]]
    BY <1>5, <2>1, <2>2
  <2> QED
    BY <1>0, <1>1, <1>5, <2>3, AdvanceKeepsBatch
<1>11. ThreadInv'
  BY <1>0, <1>1, <1>2, <1>5, <1>6 DEF ThreadInv
<1>12. TakenInv'
  BY <1>0, <1>1, <1>5, <1>6 DEF TakenInv
<1>13. AtMostOnce' /\ InOrder'
  <2>1. dispatched \in Seq(Commands)
    BY <1>0 DEF TypeOK
  <2> QED
    BY <1>0, <1>1, <1>5, <2>1, InOrderKept DEF AtMostOnce
<1>14. NeverForgotten'
  BY <1>0, <1>1, <1>5 DEF NeverForgotten, InHand
<1> QED
  BY <1>8, <1>9, <1>10, <1>11, <1>12, <1>13, <1>14 DEF ChannelInv

\* The report of the current command, answered or not.
LEMMA ReportChannelInv ==
    ASSUME ChannelInv, ReportAnswered \/ ReportFails
    PROVE  ChannelInv'
<1> USE DEF backend, thread, robot, history
<1>0. /\ TypeOK /\ TableInv /\ BatchInv /\ CallbackInv /\ ThreadInv /\ TakenInv
      /\ QueueInv /\ AtMostOnce /\ InOrder /\ NeverForgotten
  BY DEF ChannelInv
<1>1. /\ step = "report" /\ NextCommand
      /\ Taken' = Taken
      /\ UNCHANGED <<order, skipped, worker, work, modeThread, dispatched>>
  BY DEF ReportAnswered, ReportFails, Taken
<1>2. /\ 1 \in DOMAIN batch /\ Current = batch[1] /\ Current \in Commands
      /\ status[Current] = "sent" /\ Current \in Taken
      /\ work \in Working => worker # Current
  BY <1>0, <1>1, CurrentInBatch DEF CallbackInv, InCallback
<1>3. \/ /\ status' = [status EXCEPT ![Current] = verdict]
         /\ excused' = excused
      \/ status' = status /\ excused' = excused \cup {Current}
  BY DEF ReportAnswered, ReportFails, SetResult
<1>4. status \in [Commands -> Statuses] /\ verdict \in {"done", "failed"}
  BY <1>0 DEF TypeOK
<1>5. /\ status' \in [Commands -> Statuses]
      /\ \A c \in Commands :
           \/ status'[c] = status[c] /\ (c = Current => c \in excused')
           \/ c = Current /\ status'[c] \in {"done", "failed"}
      /\ excused \subseteq excused'
  BY <1>2, <1>3, <1>4 DEF Statuses
<1>6. Taken \subseteq Commands
  BY <1>0, RangeOfSeq DEF TypeOK, Taken
<1>7. /\ batch' \in Seq(Commands) /\ Len(batch') <= PendingLimit
      /\ step' \in {"idle", "ack"} /\ (step' = "idle" <=> batch' = <<>>)
  BY <1>0, <1>1, Advances
<1>8. TypeOK'
  <2>1. excused' \subseteq Commands
    BY <1>0, <1>2, <1>3 DEF TypeOK
  <2>2. faults' \in 0 .. MaxFaults
    BY <1>0, ConstantsOK DEF ReportAnswered, ReportFails, Answered, Fault, TypeOK
  <2>3. {skipped', excused'} \subseteq SUBSET Commands
    BY <1>0, <1>1, <2>1 DEF TypeOK
  <2> QED
    BY <1>0, <1>1, <1>5, <1>7, <2>2, <2>3 DEF ReportAnswered, ReportFails, TypeOK
<1>9. TableInv'
  BY <1>0, <1>1, <1>2, <1>5 DEF TableInv
<1>10. BatchInv' /\ QueueInv' /\ CallbackInv'
  <2>1. \A i \in DOMAIN batch : batch[i] \in Commands
    BY <1>0, BatchCreated
  <2>2. \A i \in DOMAIN batch : i > 1 => batch[i] # Current
    BY <1>0, <1>2 DEF BatchInv
  <2>3. \A i \in DOMAIN batch : i > 1 => status'[batch[i]] = status[batch[i]]
    BY <1>5, <2>1, <2>2
  <2> QED
    BY <1>0, <1>1, <1>2, <1>5, <2>3, AdvanceKeepsBatch
<1>11. ThreadInv'
  BY <1>0, <1>1, <1>2, <1>5, <1>6 DEF ThreadInv
<1>12. TakenInv'
  BY <1>0, <1>1, <1>2, <1>5, <1>6 DEF TakenInv
<1>13. AtMostOnce' /\ InOrder'
  <2>1. dispatched \in Seq(Commands)
    BY <1>0 DEF TypeOK
  <2> QED
    BY <1>0, <1>1, <1>5, <2>1, InOrderKept DEF AtMostOnce
<1>14. NeverForgotten'
  BY <1>0, <1>1, <1>5 DEF NeverForgotten, InHand
<1> QED
  BY <1>8, <1>9, <1>10, <1>11, <1>12, <1>13, <1>14 DEF ChannelInv

\* The current command is taken up and reported on in the callback itself.
TakesUpHere ==
    /\ step \in {"dispatch", "check"} /\ step' = "report"
    /\ verdict' \in {"done", "failed"}
    /\ dispatched' = Append(dispatched, Current)
    /\ UNCHANGED <<backend, batch, thread, robot, skipped, excused, orphans,
                   stolen, strayed, bounds>>

LEMMA TakesUpHereChannelInv ==
    ASSUME ChannelInv, TakesUpHere
    PROVE  ChannelInv'
<1> USE DEF backend, thread, robot, bounds
<1>0. /\ TypeOK /\ TableInv /\ BatchInv /\ CallbackInv /\ ThreadInv /\ TakenInv
      /\ QueueInv /\ AtMostOnce /\ InOrder /\ NeverForgotten
  BY DEF ChannelInv
<1>1. /\ step \in {"dispatch", "check"} /\ step' = "report"
      /\ dispatched' = Append(dispatched, Current)
      /\ Current' = Current
      /\ UNCHANGED <<order, status, batch, skipped, excused, worker, work, modeThread>>
  BY DEF TakesUpHere, Current
<1>2. /\ Current = batch[1] /\ Current \in Commands
      /\ status[Current] = "sent" /\ Current \notin Taken
  BY <1>0, <1>1, CurrentInBatch DEF CallbackInv, InCallback
<1>3. /\ dispatched' \in Seq(Commands) /\ Taken' = Taken \cup {Current}
      /\ AtMostOnce'
  BY <1>0, <1>1, <1>2, TakesUp DEF TypeOK
<1>4. TypeOK'
  BY <1>0, <1>3 DEF TakesUpHere, TypeOK
<1>5. TableInv' /\ BatchInv' /\ ThreadInv'
  BY <1>0, <1>1, <1>3 DEF TableInv, BatchInv, ThreadInv
<1>6. CallbackInv'
  BY <1>0, <1>1, <1>2, <1>3 DEF CallbackInv, InCallback
<1>7. TakenInv' /\ QueueInv'
  BY <1>0, <1>1, <1>2, <1>3 DEF TakenInv, QueueInv
<1>8. InOrder'
  BY <1>0, <1>1, <1>2, InOrderTakesUp
<1>9. NeverForgotten'
  BY <1>0, <1>1 DEF NeverForgotten, InHand
<1> QED
  BY <1>3, <1>4, <1>5, <1>6, <1>7, <1>8, <1>9 DEF ChannelInv

\* The current command is handed to a new worker; the last one, if it is still
\* there, is at its end.
HandsOver ==
    /\ step \in {"dispatch", "check"}
    /\ work \in {"none", "ending"}
    /\ StartWorker
    /\ UNCHANGED <<backend, robot, skipped, orphans, stolen, strayed, bounds>>

LEMMA HandsOverChannelInv ==
    ASSUME ChannelInv, HandsOver
    PROVE  ChannelInv'
<1> USE DEF backend, robot, bounds
<1>0. /\ TypeOK /\ TableInv /\ BatchInv /\ CallbackInv /\ ThreadInv /\ TakenInv
      /\ QueueInv /\ AtMostOnce /\ InOrder /\ NeverForgotten
  BY DEF ChannelInv
<1>1. /\ step \in {"dispatch", "check"} /\ NextCommand
      /\ work \in {"none", "ending"} /\ work' = "decide"
      /\ worker' = Current /\ modeThread' = TRUE
      /\ dispatched' = Append(dispatched, Current)
      /\ UNCHANGED <<order, status, skipped, excused>>
  BY DEF HandsOver, StartWorker
<1>2. /\ Current = batch[1] /\ Current \in Commands
      /\ status[Current] = "sent" /\ Current \notin Taken
  BY <1>0, <1>1, CurrentInBatch DEF CallbackInv, InCallback
<1>3. /\ dispatched' \in Seq(Commands) /\ Taken' = Taken \cup {Current}
      /\ AtMostOnce'
  BY <1>0, <1>1, <1>2, TakesUp DEF TypeOK
<1>4. /\ batch' \in Seq(Commands) /\ Len(batch') <= PendingLimit
      /\ step' \in {"idle", "ack"} /\ (step' = "idle" <=> batch' = <<>>)
  BY <1>0, <1>1, Advances
<1>5. TypeOK'
  BY <1>0, <1>2, <1>3, <1>4 DEF HandsOver, StartWorker, TypeOK
<1>6. TableInv'
  BY <1>0, <1>1 DEF TableInv
<1>7. BatchInv' /\ QueueInv' /\ CallbackInv'
  BY <1>0, <1>1, <1>3, AdvanceKeepsBatch
<1>8. ThreadInv'
  BY <1>1, <1>2, <1>3, ConstantsOK DEF ThreadInv, Working
<1>9. TakenInv'
  BY <1>0, <1>1, <1>2, <1>3 DEF TakenInv
<1>10. InOrder'
  BY <1>0, <1>1, <1>2, InOrderTakesUp
<1>11. NeverForgotten'
  BY <1>0, <1>1 DEF NeverForgotten, InHand
<1> QED
  BY <1>3, <1>5, <1>6, <1>7, <1>8, <1>9, <1>10, <1>11 DEF ChannelInv

\* The worker's report, answered or not.
LEMMA WorkReportChannelInv ==
    ASSUME ChannelInv, WorkReportAnswered \/ WorkReportFails
    PROVE  ChannelInv'
<1> USE DEF backend, receiver, robot, history
<1>0. /\ TypeOK /\ TableInv /\ BatchInv /\ CallbackInv /\ ThreadInv /\ TakenInv
      /\ QueueInv /\ AtMostOnce /\ InOrder /\ NeverForgotten
  BY DEF ChannelInv
<1>1. /\ work = "report" /\ work' = "finally"
      /\ Taken' = Taken /\ Current' = Current
      /\ UNCHANGED <<order, batch, step, skipped, worker, modeThread, dispatched>>
  BY DEF WorkReportAnswered, WorkReportFails, Taken, Current
<1>2. /\ worker \in Taken /\ worker \in Commands
      /\ status[worker] = "sent"
      /\ step \in InCallback => worker # Current
  BY <1>0, <1>1, RangeOfSeq DEF ThreadInv, CallbackInv, Working, Taken, TypeOK
<1>3. \/ /\ status' = [status EXCEPT ![worker] = workVerdict]
         /\ excused' = excused
      \/ status' = status /\ excused' = excused \cup {worker}
  BY DEF WorkReportAnswered, WorkReportFails, SetResult
<1>4. status \in [Commands -> Statuses] /\ workVerdict \in {"done", "failed"}
  BY <1>0 DEF TypeOK
<1>5. /\ status' \in [Commands -> Statuses]
      /\ \A c \in Commands :
           \/ status'[c] = status[c] /\ (c = worker => c \in excused')
           \/ c = worker /\ status'[c] \in {"done", "failed"}
      /\ excused \subseteq excused'
  BY <1>2, <1>3, <1>4 DEF Statuses
<1>6. Taken \subseteq Commands
  BY <1>0, RangeOfSeq DEF TypeOK, Taken
<1>7. TypeOK'
  <2>1. {skipped', excused'} \subseteq SUBSET Commands
    BY <1>0, <1>1, <1>2, <1>3 DEF TypeOK
  <2>2. faults' \in 0 .. MaxFaults
    BY <1>0, ConstantsOK DEF WorkReportAnswered, WorkReportFails, Answered, Fault, TypeOK
  <2> QED
    BY <1>0, <1>5, <2>1, <2>2 DEF WorkReportAnswered, WorkReportFails, TypeOK
<1>8. TableInv'
  BY <1>0, <1>1, <1>2, <1>5 DEF TableInv
<1>9. BatchInv'
  <2>1. \A i \in DOMAIN batch : batch[i] \in Commands
    BY <1>0, BatchCreated
  <2> QED
    BY <1>0, <1>1, <1>2, <1>5, <2>1 DEF BatchInv
<1>10. CallbackInv'
  <2>1. step \in InCallback => Current \in Commands
    BY <1>0, CurrentInBatch DEF InCallback
  <2> QED
    BY <1>0, <1>1, <1>2, <1>5, <2>1 DEF CallbackInv, InCallback, Working
<1>11. ThreadInv'
  BY <1>0, <1>1 DEF ThreadInv, Working
<1>12. TakenInv'
  BY <1>0, <1>1, <1>2, <1>5, <1>6 DEF TakenInv
<1>13. AtMostOnce' /\ InOrder'
  <2>1. dispatched \in Seq(Commands)
    BY <1>0 DEF TypeOK
  <2> QED
    BY <1>0, <1>1, <1>5, <2>1, InOrderKept DEF AtMostOnce
<1>14. QueueInv'
  BY <1>0, <1>1, <1>5 DEF QueueInv
<1>15. NeverForgotten'
  BY <1>0, <1>1, <1>5 DEF NeverForgotten, InHand
<1> QED
  BY <1>7, <1>8, <1>9, <1>10, <1>11, <1>12, <1>13, <1>14, <1>15 DEF ChannelInv

\* The process goes, with the commands it has in hand.
LEMMA GoneChannelInv ==
    ASSUME ChannelInv, Crash \/ Dies \/ Reboot
    PROVE  ChannelInv'
<1> USE DEF backend, robot
<1>0. /\ TypeOK /\ TableInv /\ BatchInv /\ CallbackInv /\ ThreadInv /\ TakenInv
      /\ QueueInv /\ AtMostOnce /\ InOrder /\ NeverForgotten
  BY DEF ChannelInv
<1>1. ProcessGone
  BY DEF Crash, Dies, Reboot
<1>2. /\ step' = "down" /\ batch' = <<>> /\ work' = "none" /\ worker' = NoCommand
      /\ modeThread' = FALSE
      /\ Taken' = Taken /\ excused' = excused \cup InHand
      /\ UNCHANGED <<order, status, dispatched, skipped>>
  BY <1>1 DEF ProcessGone, Taken
<1>3. InHand \subseteq Commands
  <2>1. step \in {"dispatch", "check", "report"} => Current \in Commands
    BY <1>0, CurrentInBatch
  <2>2. work \in {"decide", "script", "write", "report"} => worker \in Commands
    BY <1>0 DEF ThreadInv, TypeOK
  <2> QED
    BY <2>1, <2>2 DEF InHand
<1>4. batch' \in Seq(Commands) /\ Len(batch') = 0 /\ DOMAIN batch' = {}
  BY <1>2
<1>5. TypeOK'
  <2>1. {skipped', excused'} \subseteq SUBSET Commands
    BY <1>0, <1>2, <1>3 DEF TypeOK
  <2>2. crashes' \in 0 .. MaxCrashes
    BY <1>0, ConstantsOK DEF Crash, Dies, Reboot, TypeOK
  <2>3. orphans' \subseteq scripts' /\ {stolen', strayed'} \subseteq BOOLEAN
    BY <1>0 DEF Crash, Dies, Reboot, TypeOK
  <2>4. Len(batch') <= PendingLimit
    BY <1>4, ConstantsOK
  <2>5. /\ lock' \in {"absent", "fresh", "stale"} /\ scripts' \subseteq Commands
        /\ stack' \in {"voice", "partial", "mapping", "down"}
        /\ mode' = mode
    BY <1>0 DEF Crash, Dies, Reboot, TypeOK
  <2> QED
    BY <1>0, <1>1, <1>4, <2>1, <2>2, <2>3, <2>4, <2>5 DEF ProcessGone, TypeOK
<1>6. TableInv' /\ BatchInv' /\ CallbackInv' /\ QueueInv' /\ AtMostOnce'
  BY <1>0, <1>2, <1>4
     DEF TableInv, BatchInv, CallbackInv, InCallback, QueueInv, AtMostOnce
<1>7. ThreadInv'
  BY <1>2 DEF ThreadInv, Working
<1>8. TakenInv'
  BY <1>0, <1>2 DEF TakenInv, InHand
<1>9. InOrder'
  <2>1. dispatched \in Seq(Commands)
    BY <1>0 DEF TypeOK
  <2> QED
    BY <1>0, <1>2, <2>1, InOrderKept
<1>10. NeverForgotten'
  BY <1>0, <1>2 DEF NeverForgotten
<1> QED
  BY <1>5, <1>6, <1>7, <1>8, <1>9, <1>10 DEF ChannelInv

\* Steps that concern no command: looking again, starting the node, the end of
\* the thread, and what happens on the robot.
Quiet ==
    /\ \/ step' = step
       \/ step = "dispatch" /\ step' = "check"
       \/ step = "down" /\ step' = "idle"
    /\ work' \in Working <=> work \in Working
    /\ work \in Working => worker' = worker
    /\ UNCHANGED <<order, status, batch, dispatched, skipped, excused>>

LEMMA QuietChannelInv ==
    ASSUME ChannelInv, Quiet, TypeOK', ThreadInv'
    PROVE  ChannelInv'
<1>0. /\ TypeOK /\ TableInv /\ BatchInv /\ CallbackInv /\ ThreadInv /\ TakenInv
      /\ QueueInv /\ AtMostOnce /\ InOrder /\ NeverForgotten
  BY DEF ChannelInv
<1>1. /\ Taken' = Taken /\ Current' = Current
      /\ UNCHANGED <<order, status, batch, dispatched, skipped, excused>>
  BY DEF Quiet, Taken, Current
<1>2. TableInv' /\ QueueInv' /\ AtMostOnce' /\ InOrder'
  BY <1>0, <1>1 DEF TableInv, QueueInv, AtMostOnce, InOrder
<1>3. BatchInv' /\ CallbackInv' /\ TakenInv'
  BY <1>0, <1>1 DEF Quiet, BatchInv, CallbackInv, InCallback, TakenInv
<1>4. NeverForgotten'
  BY <1>0, <1>1 DEF Quiet, NeverForgotten, InHand, Working
<1> QED
  BY <1>2, <1>3, <1>4 DEF ChannelInv

\* What the worker, the scripts and time do.
RobotStep ==
    BeginSwitch \/ BeginSave \/ EndWork \/ Scripts \/ ScriptNotRun \/ LockExpires

LEMMA RobotChannelInv ==
    ASSUME ChannelInv, ScriptKinds, RobotStep
    PROVE  ChannelInv'
<1> USE DEF backend, receiver, thread, history, bounds, WorkerReports
<1>0. TypeOK /\ ThreadInv
  BY DEF ChannelInv
<1>1. /\ Taken' = Taken
      /\ UNCHANGED <<order, status, batch, step, dispatched, skipped, excused, worker, modeThread>>
      /\ work' = work \/ {work, work'} \subseteq Working
  BY <1>0 DEF RobotStep, BeginSwitch, BeginSave, EndWork, Scripts, ScriptEnds,
         ScriptNotRun, LockExpires, Working, Taken
<1>2. Quiet /\ ThreadInv'
  BY <1>0, <1>1 DEF Quiet, ThreadInv, Working
<1>3. TypeOK'
  <2>1. CASE BeginSwitch
    BY <1>0, <2>1 DEF BeginSwitch, ThreadInv, TypeOK
  <2>2. CASE BeginSave
    BY <1>0, <2>2 DEF BeginSave, ThreadInv, TypeOK
  <2>3. CASE EndWork
    BY <1>0, <2>3 DEF EndWork, SwitchKinds, ModeAfter, TypeOK
  <2>4. CASE Scripts
    BY <1>0, <2>4 DEF Scripts, ScriptEnds, ScriptKinds, SwitchKinds, StackAfter, TypeOK
  <2>5. CASE LockExpires
    BY <1>0, <2>5 DEF LockExpires, TypeOK
  <2>6. CASE ScriptNotRun
    BY <1>0, <2>6 DEF ScriptNotRun, TypeOK
  <2> QED
    BY <2>1, <2>2, <2>3, <2>4, <2>5, <2>6 DEF RobotStep
<1> QED
  BY <1>2, <1>3, QuietChannelInv

LEMMA ThreadEndsChannelInv ==
    ASSUME ChannelInv, ForgetThread \/ EndThread
    PROVE  ChannelInv'
<1> USE DEF backend, receiver, robot, history, bounds
<1>0. TypeOK /\ ThreadInv
  BY DEF ChannelInv
<1>1. Quiet
  BY DEF ForgetThread, EndThread, Quiet, Working
<1>2. ThreadInv'
  BY <1>0, ConstantsOK DEF ForgetThread, EndThread, ThreadInv, Working, Taken
<1>3. TypeOK'
  BY <1>0 DEF ForgetThread, EndThread, TypeOK
<1> QED
  BY <1>1, <1>2, <1>3, QuietChannelInv

\* The second look, or the node starts.
LooksAgain ==
    /\ step = "dispatch" /\ step' = "check"
    /\ UNCHANGED <<backend, batch, verdict, thread, robot, history, bounds>>

LEMMA StartChannelInv ==
    ASSUME ChannelInv, LooksAgain \/ Start
    PROVE  ChannelInv'
<1> USE DEF backend, thread, robot, history, bounds
<1>0. TypeOK /\ ThreadInv
  BY DEF ChannelInv
<1>1. Quiet
  BY DEF LooksAgain, Start, Quiet
<1>2. TypeOK'
  BY <1>0 DEF LooksAgain, Start, TypeOK
<1>3. ThreadInv'
  BY <1>0 DEF LooksAgain, Start, ThreadInv, Taken
<1> QED
  BY <1>1, <1>2, <1>3, QuietChannelInv

\* A dispatch step is one of three things.
LEMMA DispatchCases ==
    ASSUME ChannelInv
    PROVE  /\ DispatchNow => TakesUpHere
           /\ DispatchToWorker => HandsOver \/ LooksAgain
           /\ CheckWorker => HandsOver \/ TakesUpHere
<1> USE DEF backend, thread, robot, history, bounds
<1>1. DispatchNow => TakesUpHere
  BY DEF DispatchNow, TakesUpHere
<1>2. TypeOK /\ ThreadInv
  BY DEF ChannelInv
<1>3. DispatchToWorker => HandsOver \/ LooksAgain
  <2>1. ~modeThread => work \in {"none", "ending"}
    BY <1>2 DEF ThreadInv, Working, TypeOK
  <2> QED
    BY <2>1 DEF DispatchToWorker, SeesWorker, HandsOver, LooksAgain
<1>4. CheckWorker => HandsOver \/ TakesUpHere
  BY DEF CheckWorker, RefuseBusy, HandsOver, TakesUpHere
<1> QED
  BY <1>1, <1>3, <1>4

\* What any step does.
LEMMA StepCases ==
    ASSUME ChannelInv, [Next]_vars
    PROVE  \/ \E c \in Commands : Create(c)
           \/ Poll \/ AckAnswered \/ AckUnanswered \/ AckFails
           \/ TakesUpHere \/ HandsOver \/ LooksAgain \/ ReportAnswered \/ ReportFails
           \/ WorkReportAnswered \/ WorkReportFails \/ ForgetThread \/ EndThread
           \/ RobotStep \/ Crash \/ Dies \/ Reboot \/ Start
           \/ UNCHANGED vars
  BY DispatchCases DEF Next, Receive, Work, RobotStep

LEMMA NextChannelInv == ChannelInv /\ ScriptKinds /\ [Next]_vars => ChannelInv'
<1> SUFFICES ASSUME ChannelInv, ScriptKinds, [Next]_vars PROVE ChannelInv'
  OBVIOUS
<1>1. CASE UNCHANGED vars
  <2>1. UNCHANGED <<order, status, step, batch, verdict, worker, work, workVerdict, modeThread,
                    mode, lock, scripts, stack, dispatched, skipped, excused, orphans, stolen,
                    strayed, faults, crashes>>
    BY <1>1 DEF vars, backend, receiver, thread, robot, history, bounds
  <2>2. TypeOK /\ ThreadInv
    BY DEF ChannelInv
  <2>3. Quiet /\ TypeOK' /\ ThreadInv'
    BY <2>1, <2>2 DEF Quiet, TypeOK, ThreadInv, Taken
  <2> QED
    BY <2>3, QuietChannelInv
<1> QED
  BY <1>1, StepCases, CreateChannelInv, PollChannelInv, AckAnsweredChannelInv,
     AckDroppedChannelInv, TakesUpHereChannelInv, HandsOverChannelInv, StartChannelInv,
     ReportChannelInv, WorkReportChannelInv, ThreadEndsChannelInv, RobotChannelInv,
     GoneChannelInv

-----------------------------------------------------------------------------
(***************************************************************************)
(* The scripts, the stack and the state file.                              *)
(***************************************************************************)
LEMMA InitRobotInv == Init => RobotInv
  BY DEF Init, RobotInv, ScriptKinds, ScriptInv, LockInv, Switching, SwitchInv, ModeFileTrue

\* A step that touches neither the scripts nor the worker that waits for one.
OffRobot ==
    /\ \/ UNCHANGED <<worker, work, workVerdict>>
       \/ {work, work'} \cap {"script", "write"} = {}
    /\ UNCHANGED lock \/ lock' = "stale"
    /\ UNCHANGED <<mode, scripts, stack, orphans, stolen, strayed>>

LEMMA OffRobotInv ==
    ASSUME RobotInv, OffRobot
    PROVE  RobotInv'
<1>1. ScriptKinds' /\ ModeFileTrue'
  BY DEF RobotInv, OffRobot, ScriptKinds, ModeFileTrue
<1>2. ScriptInv'
  BY DEF RobotInv, OffRobot, ScriptInv
<1>3. Switching' = Switching
  BY DEF OffRobot, Switching
<1>4. LockInv'
  BY <1>3 DEF RobotInv, OffRobot, LockInv
<1>5. SwitchInv'
  BY <1>3 DEF RobotInv, OffRobot, SwitchInv, StackAfter
<1> QED
  BY <1>1, <1>2, <1>4, <1>5 DEF RobotInv

LEMMA ChannelStepsOffRobot ==
    ASSUME \/ \E c \in Commands : Create(c)
           \/ Poll \/ AckAnswered \/ AckUnanswered \/ AckFails
           \/ TakesUpHere \/ HandsOver \/ LooksAgain \/ ReportAnswered \/ ReportFails
           \/ WorkReportAnswered \/ WorkReportFails \/ ForgetThread \/ EndThread
           \/ LockExpires \/ Start \/ UNCHANGED vars
    PROVE  OffRobot
<1> USE DEF OffRobot, vars, backend, receiver, thread, robot, history, bounds
<1>1. CASE \/ \E c \in Commands : Create(c)
           \/ Poll \/ AckAnswered \/ AckUnanswered \/ AckFails
  BY <1>1 DEF Create, Poll, AckAnswered, AckUnanswered, AckFails
<1>2. CASE TakesUpHere \/ HandsOver \/ LooksAgain \/ ReportAnswered \/ ReportFails
  BY <1>2 DEF TakesUpHere, HandsOver, StartWorker, LooksAgain, ReportAnswered, ReportFails
<1>3. CASE WorkReportAnswered \/ WorkReportFails \/ ForgetThread \/ EndThread
  BY <1>3 DEF WorkReportAnswered, WorkReportFails, ForgetThread, EndThread
<1>4. CASE LockExpires \/ Start \/ UNCHANGED vars
  BY <1>4 DEF LockExpires, Start
<1> QED
  BY <1>1, <1>2, <1>3, <1>4

\* A switch begins only while no other is running, unless it takes the lock of
\* one, which is told.
LEMMA BeginsAlone ==
    ASSUME TypeOK, RobotInv, BeginSwitch, mode # KindOf[worker], lock # "fresh", ~stolen'
    PROVE  Switching = {}
<1>1. lock \in {"absent", "stale"}
  BY DEF TypeOK
<1>2. Switching = {} \/ (~stolen /\ lock # "stale")
  BY DEF BeginSwitch
<1> QED
  BY <1>1, <1>2 DEF RobotInv, LockInv

LEMMA BeginSwitchRobotInv ==
    ASSUME TypeOK, RobotInv, BeginSwitch
    PROVE  RobotInv'
<1> USE DEF backend, receiver, history, WorkerReports
<1>1. CASE mode = KindOf[worker] \/ lock = "fresh"
  <2>1. OffRobot
    BY <1>1 DEF BeginSwitch, OffRobot
  <2> QED
    BY <2>1, OffRobotInv
<1>2. CASE mode # KindOf[worker] /\ lock # "fresh"
  <2>1. /\ lock' = "fresh" /\ mode' = "switching" /\ work = "decide" /\ work' = "script"
        /\ scripts' = scripts \cup {worker} /\ strayed' = FALSE
        /\ KindOf[worker] \in SwitchKinds
        /\ UNCHANGED <<worker, stack, orphans>>
    BY <1>2 DEF BeginSwitch
  <2>2. ~stolen' => Switching' = {worker}
    BY <1>2, <2>1, BeginsAlone DEF Switching
  <2>3. ScriptKinds' /\ ScriptInv' /\ ModeFileTrue'
    BY <2>1 DEF RobotInv, ScriptKinds, ScriptInv, ModeFileTrue
  <2>4. LockInv'
    BY <2>1, <2>2 DEF LockInv
  <2>5. SwitchInv'
    BY <2>1, <2>2 DEF SwitchInv
  <2> QED
    BY <2>3, <2>4, <2>5 DEF RobotInv
<1> QED
  BY <1>1, <1>2

LEMMA BeginSaveRobotInv ==
    ASSUME RobotInv, BeginSave
    PROVE  RobotInv'
<1> USE DEF backend, receiver, history, WorkerReports
<1>1. /\ work = "decide" /\ KindOf[worker] = "save"
      /\ scripts' \subseteq scripts \cup {worker} /\ scripts \subseteq scripts'
      /\ work' = "script" \/ (work' = "report" /\ scripts' = scripts)
      /\ UNCHANGED <<worker, mode, lock, stack, orphans, stolen, strayed>>
  BY DEF BeginSave
<1>2. "save" \notin SwitchKinds
  BY DEF SwitchKinds
<1>3. Switching' = Switching
  BY <1>1, <1>2 DEF Switching
<1>4. ScriptKinds'
  BY <1>1 DEF RobotInv, ScriptKinds
<1>5. ScriptInv'
  BY <1>1 DEF RobotInv, ScriptInv
<1>6. LockInv' /\ ModeFileTrue'
  BY <1>1, <1>3 DEF RobotInv, LockInv, ModeFileTrue
<1>7. SwitchInv'
  BY <1>1, <1>2 DEF SwitchInv
<1> QED
  BY <1>4, <1>5, <1>6, <1>7 DEF RobotInv

LEMMA ScriptEndsRobotInv ==
    ASSUME RobotInv, NEW c \in scripts, NEW ok \in BOOLEAN, ScriptEnds(c, ok)
    PROVE  RobotInv'
<1> USE DEF history
<1>1. /\ scripts' = scripts \ {c} /\ orphans' = orphans \ {c}
      /\ stack' = StackAfter(KindOf[c], ok)
      /\ UNCHANGED <<worker, mode, lock, stolen, strayed>>
      /\ IF work = "script" /\ worker = c
         THEN work' = "write" /\ workVerdict' = IF ok THEN "done" ELSE "failed"
         ELSE UNCHANGED <<work, workVerdict>>
  BY DEF ScriptEnds
<1>2. ScriptKinds' /\ ScriptInv'
  BY <1>1 DEF RobotInv, ScriptKinds, ScriptInv
<1>3. Switching' = Switching \ {c}
  BY <1>1 DEF Switching
<1>4. LockInv'
  BY <1>1, <1>3 DEF RobotInv, LockInv
<1>5. CASE c \notin Switching
  <2>1. KindOf[c] = "save" /\ "save" \notin SwitchKinds
    BY <1>5 DEF RobotInv, ScriptKinds, Switching, SwitchKinds
  <2>2. stack' = stack
    BY <1>1, <2>1 DEF StackAfter
  <2>3. Switching' = Switching
    BY <1>3, <1>5
  <2>4. ModeFileTrue'
    BY <1>1, <2>2 DEF RobotInv, ModeFileTrue
  <2>5. SwitchInv'
    <3>1. CASE work = "script" /\ worker = c
      BY <1>1, <2>1, <3>1 DEF SwitchInv
    <3>2. CASE ~(work = "script" /\ worker = c)
      BY <1>1, <2>2, <2>3, <3>2 DEF RobotInv, SwitchInv, StackAfter
    <3> QED
      BY <3>1, <3>2
  <2> QED
    BY <1>2, <1>4, <2>4, <2>5 DEF RobotInv
<1>6. CASE c \in Switching
  <2>1. ~stolen => mode = "switching" /\ \A d \in Switching : d = c
    BY <1>6 DEF RobotInv, LockInv
  <2>2. ModeFileTrue'
    BY <1>1, <2>1 DEF ModeFileTrue
  <2>3. ~stolen /\ work \in {"script", "write"} /\ KindOf[worker] \in SwitchKinds
          => worker = c /\ work = "script"
    BY <1>6 DEF RobotInv, SwitchInv
  <2>4. KindOf[c] \in SwitchKinds
    BY <1>6 DEF Switching
  <2>5. work = "script" /\ worker = c =>
          /\ work' = "write"
          /\ stack' = StackAfter(KindOf[worker], workVerdict = "done")'
    BY <1>1, <2>4 DEF StackAfter, SwitchKinds
  <2>6. SwitchInv'
    BY <1>1, <1>3, <2>1, <2>3, <2>5 DEF SwitchInv
  <2> QED
    BY <1>2, <1>4, <2>2, <2>6 DEF RobotInv
<1> QED
  BY <1>5, <1>6

LEMMA ScriptNotRunRobotInv ==
    ASSUME TypeOK, RobotInv, ScriptNotRun
    PROVE  RobotInv'
<1> USE DEF backend, receiver
<1>1. /\ scripts' = scripts \ {worker} /\ orphans' = orphans \ {worker}
      /\ work = "script" /\ work' = "write"
      /\ KindOf[worker] \in SwitchKinds => strayed'
      /\ strayed => strayed'
      /\ UNCHANGED <<worker, mode, lock, stack, stolen>>
  BY DEF ScriptNotRun
<1>2. Switching' = Switching \ {worker}
  BY <1>1 DEF Switching
<1>3. ScriptKinds' /\ ScriptInv' /\ ModeFileTrue'
  BY <1>1 DEF RobotInv, ScriptKinds, ScriptInv, ModeFileTrue
<1>4. LockInv'
  BY <1>1, <1>2 DEF RobotInv, LockInv
<1>5. SwitchInv'
  BY <1>1, <1>2 DEF RobotInv, SwitchInv
<1> QED
  BY <1>3, <1>4, <1>5 DEF RobotInv

LEMMA EndWorkRobotInv ==
    ASSUME TypeOK, RobotInv, EndWork
    PROVE  RobotInv'
<1> USE DEF history, WorkerReports
<1>1. /\ work = "write" /\ work' = "report"
      /\ UNCHANGED <<worker, scripts, stack, orphans, stolen, strayed>>
      /\ \/ /\ KindOf[worker] \in SwitchKinds
            /\ mode' = ModeAfter(KindOf[worker], workVerdict = "done")
         \/ KindOf[worker] \notin SwitchKinds /\ UNCHANGED <<mode, lock>>
  BY DEF EndWork
<1>2. ScriptKinds' /\ ScriptInv' /\ SwitchInv'
  BY <1>1 DEF RobotInv, ScriptKinds, ScriptInv, SwitchInv
<1>3. Switching' = Switching
  BY <1>1 DEF Switching
<1>4. LockInv'
  BY <1>1, <1>3 DEF RobotInv, LockInv, SwitchInv
<1>5. ModeFileTrue'
  BY <1>1 DEF RobotInv, SwitchInv, SwitchKinds, ModeFileTrue, ModeAfter, StackAfter
<1> QED
  BY <1>2, <1>4, <1>5 DEF RobotInv

LEMMA GoneRobotInv ==
    ASSUME TypeOK, RobotInv, Crash \/ Dies \/ Reboot
    PROVE  RobotInv'
<1> USE DEF robot
<1>1. work' = "none"
  BY DEF Crash, Dies, Reboot, ProcessGone
<1>2. SwitchInv'
  BY <1>1 DEF SwitchInv
<1>3. ScriptKinds' /\ ScriptInv'
  BY DEF RobotInv, ScriptKinds, ScriptInv, Crash, Dies, Reboot
<1>4. ModeFileTrue'
  BY DEF RobotInv, ModeFileTrue, Crash, Dies, Reboot
<1>5. LockInv'
  <2>1. CASE Crash \/ Dies
    BY <2>1 DEF RobotInv, LockInv, Switching, Crash, Dies
  <2>2. CASE Reboot
    BY <2>2 DEF LockInv, Switching, Reboot
  <2> QED
    BY <2>1, <2>2
<1> QED
  BY <1>2, <1>3, <1>4, <1>5 DEF RobotInv

LEMMA NextRobotInv == ChannelInv /\ RobotInv /\ [Next]_vars => RobotInv'
<1> SUFFICES ASSUME ChannelInv, RobotInv, [Next]_vars PROVE RobotInv'
  OBVIOUS
<1>1. CASE Scripts
  BY <1>1, ScriptEndsRobotInv DEF Scripts
<1>2. CASE BeginSwitch \/ BeginSave
  BY <1>2, BeginSwitchRobotInv, BeginSaveRobotInv DEF ChannelInv
<1>3. CASE EndWork
  BY <1>3, EndWorkRobotInv DEF ChannelInv
<1>4. CASE Crash \/ Dies \/ Reboot
  BY <1>4, GoneRobotInv DEF ChannelInv
<1>5. CASE ScriptNotRun
  BY <1>5, ScriptNotRunRobotInv DEF ChannelInv
<1> QED
  BY <1>1, <1>2, <1>3, <1>4, <1>5, StepCases, ChannelStepsOffRobot, OffRobotInv DEF RobotStep

\* The invariant behind every theorem of this module.
LEMMA Invariance == Spec => [](ChannelInv /\ RobotInv)
<1>1. RobotInv => ScriptKinds
  BY DEF RobotInv
<1> QED
  BY <1>1, InitChannelInv, InitRobotInv, NextChannelInv, NextRobotInv, PTL DEF Spec

-----------------------------------------------------------------------------
(***************************************************************************)
(* The theorems.                                                           *)
(***************************************************************************)
\* Every variable keeps its type: a batch never exceeds pending_limit, and the
\* stack is always one of those the scripts leave.
THEOREM TypeCorrect == Spec => []TypeOK
<1>1. ChannelInv => TypeOK
  BY DEF ChannelInv
<1> QED
  BY <1>1, Invariance, PTL

\* No command is taken up twice, whatever answers of the backend are lost and
\* whenever the node is killed or restarted.
THEOREM TakenUpAtMostOnce == Spec => []AtMostOnce
<1>1. ChannelInv => AtMostOnce
  BY DEF ChannelInv
<1> QED
  BY <1>1, Invariance, PTL

\* Commands are taken up in the order they were given, but for those whose ack
\* went wrong or that the node went down with.
THEOREM TakenUpInOrder == Spec => []InOrder
<1>1. ChannelInv => InOrder
  BY DEF ChannelInv
<1> QED
  BY <1>1, Invariance, PTL

\* A command that stays "sent" is in hand or has its excuse.
THEOREM SentIsNotForgotten == Spec => []NeverForgotten
<1>1. ChannelInv => NeverForgotten
  BY DEF ChannelInv
<1> QED
  BY <1>1, Invariance, PTL

\* Two scripts run side by side only when the node went down and left one
\* behind; and two switches only when one took the expired lock of another.
THEOREM OneScriptAtATime == Spec => []OneScript
<1>1. TypeOK /\ RobotInv => OneScript
  <2> SUFFICES ASSUME TypeOK, RobotInv PROVE OneScript
    OBVIOUS
  <2>1. ASSUME NEW S, NEW x, S \subseteq {x} PROVE Cardinality(S) <= 1
    <3>1. IsFiniteSet({x}) /\ Cardinality({x}) = 1 /\ S \in SUBSET {x}
      BY <2>1, FS_Singleton
    <3> QED
      BY <3>1, FS_Subset
  <2>2. scripts \ orphans \subseteq {worker}
    BY DEF RobotInv, ScriptInv
  <2>3. ASSUME ~stolen PROVE Switching \subseteq {CHOOSE c \in Switching : TRUE}
    BY <2>3 DEF RobotInv, LockInv
  <2> QED
    BY <2>1, <2>2, <2>3 DEF OneScript
<1>2. ChannelInv => TypeOK
  BY DEF ChannelInv
<1> QED
  BY <1>1, <1>2, Invariance, PTL

\* The state file agrees with the stack that runs, through crashes of the node,
\* reboots in mode "normal" and scripts that fail.  It is wrong, and the theorem
\* says nothing, until the next switch begins after a reboot in another mode or
\* a script that could not be run, and after a switch took the expired lock of
\* one still running.
THEOREM ModeFileAgrees == Spec => []ModeFileTrue
<1>1. RobotInv => ModeFileTrue
  BY DEF RobotInv
<1> QED
  BY <1>1, Invariance, PTL

-----------------------------------------------------------------------------
(***************************************************************************)
(* The channel implements CommandLifecycle.                                *)
(***************************************************************************)
LEMMA InitLifecycle == Init => Lifecycle!Init
  BY DEF Init, Lifecycle!Init, Range

\* Taking a command up is a step of the lifecycle.
LEMMA TakeLifecycle ==
    ASSUME ChannelInv, step \in {"dispatch", "check"}, UNCHANGED status,
           dispatched' = Append(dispatched, Current)
    PROVE  Lifecycle!Next
<1>1. /\ TypeOK /\ Current \in Commands
      /\ status[Current] = "sent" /\ Current \notin Range(dispatched)
  BY CurrentInBatch DEF ChannelInv, CallbackInv, InCallback, Taken
<1>2. Range(dispatched') = Range(dispatched) \cup {Current}
  BY <1>1, Appended DEF TypeOK
<1>3. Lifecycle!Take(Current)
  BY <1>1, <1>2 DEF Lifecycle!Take
<1> QED
  BY <1>1, <1>3 DEF Lifecycle!Next

\* So is a command marked sent by its ack.
LEMMA SendLifecycle ==
    ASSUME ChannelInv, step = "ack", AckCommand(Current), UNCHANGED dispatched
    PROVE  Lifecycle!Next
<1>1. Current \in Commands /\ status[Current] = "queued"
  BY CurrentInBatch DEF ChannelInv, BatchInv
<1>2. Lifecycle!Send(Current)
  BY <1>1 DEF AckCommand, Lifecycle!Send, Lifecycle!Becomes
<1> QED
  BY <1>1, <1>2 DEF Lifecycle!Next

\* So is a report.
LEMMA FinishLifecycle ==
    ASSUME NEW c \in Commands, c \in Taken, status[c] = "sent",
           NEW result \in {"done", "failed"}, SetResult(c, result), UNCHANGED dispatched
    PROVE  Lifecycle!Next
<1>1. Lifecycle!Finish(c, result)
  BY DEF Taken, SetResult, Lifecycle!Finish, Lifecycle!Becomes
<1> QED
  BY <1>1 DEF Lifecycle!Next

LEMMA NextLifecycle == ChannelInv /\ [Next]_vars => [Lifecycle!Next]_(Lifecycle!vars)
<1> SUFFICES ASSUME ChannelInv, [Next]_vars PROVE [Lifecycle!Next]_(Lifecycle!vars)
  OBVIOUS
<1> USE DEF backend, receiver, thread, robot, history, bounds
<1>0. TypeOK /\ CallbackInv /\ ThreadInv
  BY DEF ChannelInv
<1>1. ASSUME NEW c \in Commands, Create(c) PROVE Lifecycle!Next
  <2>1. Lifecycle!Create(c)
    BY <1>1 DEF Create, Lifecycle!Create, Lifecycle!Becomes
  <2> QED
    BY <2>1 DEF Lifecycle!Next
<1>2. CASE AckAnswered \/ AckUnanswered
  BY <1>2, SendLifecycle DEF AckAnswered, AckUnanswered
<1>3. CASE TakesUpHere \/ HandsOver
  BY <1>3, TakeLifecycle DEF TakesUpHere, HandsOver, StartWorker
<1>4. CASE ReportAnswered
  <2>1. Current \in Commands /\ Current \in Taken /\ status[Current] = "sent"
    BY <1>0, <1>4, CurrentInBatch DEF ReportAnswered, CallbackInv, InCallback
  <2> QED
    BY <1>0, <1>4, <2>1, FinishLifecycle DEF ReportAnswered, TypeOK
<1>5. CASE WorkReportAnswered
  <2>1. worker \in Commands /\ worker \in Taken /\ status[worker] = "sent"
    BY <1>0, <1>5, RangeOfSeq DEF WorkReportAnswered, ThreadInv, Working, Taken, TypeOK
  <2> QED
    BY <1>0, <1>5, <2>1, FinishLifecycle DEF WorkReportAnswered, TypeOK
<1>6. CASE \/ Poll \/ AckFails \/ LooksAgain \/ ReportFails \/ WorkReportFails
           \/ ForgetThread \/ EndThread \/ RobotStep
           \/ Crash \/ Dies \/ Reboot \/ Start \/ UNCHANGED vars
  <2>1. UNCHANGED <<status, dispatched>>
    <3>1. CASE Poll \/ AckFails \/ LooksAgain \/ ReportFails \/ WorkReportFails
      BY <3>1 DEF Poll, AckFails, LooksAgain, ReportFails, WorkReportFails
    <3>2. CASE ForgetThread \/ EndThread \/ RobotStep
      BY <3>2 DEF ForgetThread, EndThread, RobotStep, BeginSwitch, BeginSave, EndWork,
                  Scripts, ScriptEnds, ScriptNotRun, LockExpires
    <3>3. CASE Crash \/ Dies \/ Reboot \/ Start \/ UNCHANGED vars
      BY <3>3 DEF Crash, Dies, Reboot, ProcessGone, Start, vars
    <3> QED
      BY <1>6, <3>1, <3>2, <3>3
  <2> QED
    BY <2>1 DEF Lifecycle!vars
<1> QED
  BY <1>1, <1>2, <1>3, <1>4, <1>5, <1>6, StepCases

\* What the App is promised of a command, module CommandLifecycle, the channel
\* keeps: at most one receipt, and only for a command that was taken up.
THEOREM ChannelImplementsLifecycle == Spec => ImplementsLifecycle
  BY InitLifecycle, NextLifecycle, Invariance, PTL DEF Spec, ImplementsLifecycle, Lifecycle!Spec
=============================================================================
