----------------------------- MODULE AlertFeedProofs -----------------------------
(***************************************************************************)
(* Proofs about AlertFeed for every set of events, every length of the     *)
(* queue and of the page, and any number of uploads.                       *)
(***************************************************************************)
EXTENDS AlertFeed, WellFoundedInduction, SequenceTheorems, TLAPS

-----------------------------------------------------------------------------
(***************************************************************************)
(* The inductive invariant.                                                *)
(***************************************************************************)
\* A message is about an event of the table, and "handled" is final.
Backed(m) ==
    /\ m.row # "absent" /\ row[m.id] # "absent"
    /\ m.name = "handled" => m.row = "handled" /\ row[m.id] = "handled"

UnderWay == {queue[n] : n \in DOMAIN queue}

\* Nothing under way to the App is ahead of the table.
TableInv ==
    /\ \A e \in Events : publishing[e] # "none" => row[e] # "absent"
    /\ \A m \in UnderWay : Backed(m)
    /\ \A e \in handleAnswers : row[e] = "handled"

FeedInv == TypeOK /\ TableInv /\ ListTrue

-----------------------------------------------------------------------------
(***************************************************************************)
(* What messages do to a list.                                             *)
(***************************************************************************)
LEMMA MaxOf ==
    ASSUME NEW n \in Nat, NEW S \in SUBSET (1 .. n), S # {}
    PROVE  Max(S) \in S /\ \A k \in S : Max(S) >= k
<1> DEFINE T == {k \in Nat : n - k \in S}
<1>1. T # {} /\ T \in SUBSET Nat
  <2>1. PICK s \in S : TRUE
    OBVIOUS
  <2>2. n - s \in Nat /\ n - (n - s) = s
    BY <2>1
  <2> QED
    BY <2>1, <2>2
<1>2. PICK t \in T : \A k \in T : t <= k
  <2> HIDE DEF T
  <2>1. PICK t \in T : \A k \in T : ~(<<k, t>> \in OpToRel(<, Nat))
    BY <1>1, NatLessThanWellFounded, WFMin
  <2>2. \A k \in T : k < t => <<k, t>> \in OpToRel(<, Nat)
    BY <1>1 DEF OpToRel
  <2>3. \A k \in T : t <= k
    <3> TAKE k \in T
    <3>1. k \in Nat /\ t \in Nat /\ ~(k < t)
      BY <1>1, <2>1, <2>2
    <3> QED
      BY <3>1
  <2> QED
    BY <2>3
<1>3. n - t \in S
  BY <1>2
<1>4. \A k \in S : n - t >= k
  <2> TAKE k \in S
  <2>1. n - k \in Nat /\ n - (n - k) = k
    OBVIOUS
  <2>2. n - k \in T
    BY <2>1
  <2> QED
    BY <1>2, <2>1, <2>2
<1> QED
  BY <1>3, <1>4 DEF Max

LEMMA EntriesOf ==
    ASSUME NEW q \in Seq(Messages)
    PROVE  /\ Len(q) \in Nat /\ DOMAIN q = 1 .. Len(q)
           /\ \A n \in DOMAIN q : q[n] \in Messages /\ q[n].id \in Events
                                  /\ q[n].row \in Rows /\ q[n].name \in {"hazard", "handled"}
<1>1. Len(q) \in Nat /\ DOMAIN q = 1 .. Len(q)
  BY LenProperties
<1>2. \A n \in DOMAIN q : q[n] \in Messages
  BY <1>1, ElementOfSeq
<1> QED
  BY <1>1, <1>2 DEF Messages

\* The list shows the last of the effective messages.
LEMMA LastOne ==
    ASSUME NEW list, NEW q \in Seq(Messages), NEW e \in Events,
           NEW n \in Effective(list, q, e), \A k \in Effective(list, q, e) : n >= k
    PROVE  Applied(list, q)[e] = q[n].row
<1> DEFINE E == Effective(list, q, e)
<1>1. Len(q) \in Nat /\ E \in SUBSET (1 .. Len(q)) /\ E # {}
  BY EntriesOf DEF Effective
<1>2. Max(E) \in E /\ \A k \in E : Max(E) >= k
  <2> HIDE DEF E
  <2> QED
    BY <1>1, MaxOf
<1>3. Max(E) = n
  <2>1. Max(E) >= n /\ n >= Max(E) /\ Max(E) \in Nat /\ n \in Nat
    <3> HIDE DEF E
    <3>1. n \in E /\ \A k \in E : n >= k
      BY DEF E
    <3>2. n \in 1 .. Len(q) /\ Max(E) \in 1 .. Len(q)
      BY <1>1, <1>2, <3>1
    <3>3. Max(E) >= n /\ n >= Max(E)
      BY <1>2, <3>1
    <3> QED
      BY <1>1, <3>2, <3>3
  <2> HIDE DEF E
  <2> QED
    BY <2>1
<1> QED
  BY <1>1, <1>3 DEF Applied

LEMMA NoneEffective ==
    ASSUME NEW list, NEW q, NEW e \in Events, Effective(list, q, e) = {}
    PROVE  Applied(list, q)[e] = list[e]
  BY DEF Applied

LEMMA LastExists ==
    ASSUME NEW list, NEW q \in Seq(Messages), NEW e \in Events, Effective(list, q, e) # {}
    PROVE  \E n \in Effective(list, q, e) : \A k \in Effective(list, q, e) : n >= k
<1> DEFINE E == Effective(list, q, e)
<1>1. Len(q) \in Nat /\ E \in SUBSET (1 .. Len(q)) /\ E # {}
  BY EntriesOf DEF Effective
<1> HIDE DEF E
<1>2. Max(E) \in E /\ \A k \in E : Max(E) >= k
  BY <1>1, MaxOf
<1> QED
  BY <1>2 DEF E

LEMMA AppliedType ==
    ASSUME NEW list \in [Events -> Rows], NEW q \in Seq(Messages)
    PROVE  Applied(list, q) \in [Events -> Rows]
<1>1. \A e \in Events : Applied(list, q)[e] \in Rows
  <2> TAKE e \in Events
  <2>1. CASE Effective(list, q, e) = {}
    BY <2>1, NoneEffective
  <2>2. CASE Effective(list, q, e) # {}
    <3>1. PICK n \in Effective(list, q, e) : \A k \in Effective(list, q, e) : n >= k
      BY <2>2, LastExists
    <3>2. Applied(list, q)[e] = q[n].row
      BY <3>1, LastOne
    <3>3. n \in DOMAIN q
      BY DEF Effective
    <3> QED
      BY <3>2, <3>3, EntriesOf
  <2> QED
    BY <2>1, <2>2
<1> QED
  BY <1>1 DEF Applied

\* With nothing under way the list stays what it is.
LEMMA NothingUnderWay ==
    ASSUME NEW list, NEW e \in Events, NEW q, \A n \in DOMAIN q : q[n].id # e
    PROVE  Applied(list, q)[e] = list[e]
<1>1. Effective(list, q, e) = {}
  BY DEF Effective
<1> QED
  BY <1>1, NoneEffective

\* What the list shows of an event depends on no other event.
LEMMA ListAlone ==
    ASSUME NEW list, NEW other, NEW q, NEW e \in Events, list[e] = other[e]
    PROVE  Applied(list, q)[e] = Applied(other, q)[e]
<1>1. Effective(list, q, e) = Effective(other, q, e)
  BY DEF Effective
<1> QED
  BY <1>1 DEF Applied

\* The list is without the event to the end when it is without it now, and no
\* message is going to insert it.
LEMMA AbsentToTheEnd ==
    ASSUME NEW list \in [Events -> Rows], NEW q \in Seq(Messages), NEW e \in Events,
           \A n \in DOMAIN q : q[n].row # "absent"
    PROVE  Applied(list, q)[e] = "absent" <=>
             /\ list[e] = "absent"
             /\ ~\E n \in DOMAIN q : q[n].id = e /\ q[n].name = "hazard"
<1>1. CASE Effective(list, q, e) = {}
  <2>1. Applied(list, q)[e] = list[e]
    BY <1>1, NoneEffective
  <2>2. ~\E n \in DOMAIN q : q[n].id = e /\ q[n].name = "hazard"
    BY <1>1 DEF Effective
  <2> QED
    BY <2>1, <2>2
<1>2. CASE Effective(list, q, e) # {}
  <2>1. PICK n \in Effective(list, q, e) : \A k \in Effective(list, q, e) : n >= k
    BY <1>2, LastExists
  <2>2. Applied(list, q)[e] = q[n].row
    BY <2>1, LastOne
  <2>3. Applied(list, q)[e] # "absent"
    BY <2>2 DEF Effective
  <2>4. list[e] # "absent" \/ \E k \in DOMAIN q : q[k].id = e /\ q[k].name = "hazard"
    <3>1. n \in DOMAIN q /\ DOMAIN q = 1 .. Len(q) /\ Len(q) \in Nat
      BY EntriesOf DEF Effective
    <3>2. \A k \in 1 .. n : k \in DOMAIN q
      BY <3>1
    <3> QED
      BY <3>1, <3>2 DEF Effective
  <2> QED
    BY <2>3, <2>4
<1> QED
  BY <1>1, <1>2

\* A message at the end of the queue acts on what the others will have made of
\* the list: Applied is the fold of Shown.
LEMMA AppendIsShown ==
    ASSUME NEW list \in [Events -> Rows], NEW q \in Seq(Messages), NEW m \in Messages,
           \A n \in DOMAIN q : q[n].row # "absent",
           NEW e \in Events
    PROVE  Applied(list, Append(q, m))[e] = Shown(Applied(list, q), m)[e]
<1> DEFINE longer == Append(q, m)
           old == Effective(list, q, e)
           new == Effective(list, longer, e)
<1>1. /\ Len(q) \in Nat /\ DOMAIN q = 1 .. Len(q)
      /\ longer \in Seq(Messages) /\ DOMAIN longer = 1 .. Len(q) + 1
      /\ \A n \in 1 .. Len(q) : longer[n] = q[n]
      /\ longer[Len(q) + 1] = m
  BY EntriesOf, AppendProperties
<1>2. \A n \in 1 .. Len(q) : n \in new <=> n \in old
  <2> HIDE DEF longer
  <2> TAKE n \in 1 .. Len(q)
  <2>1. n \in DOMAIN q /\ n \in DOMAIN longer /\ longer[n] = q[n]
    BY <1>1
  <2>2. \A k \in 1 .. n : longer[k] = q[k]
    BY <1>1
  <2> QED
    BY <2>1, <2>2 DEF Effective
<1>3. new \in SUBSET (1 .. Len(q) + 1) /\ old \in SUBSET (1 .. Len(q))
  BY <1>1 DEF Effective
<1>4. m.id \in Events /\ m.name \in {"hazard", "handled"}
  BY DEF Messages
<1>5. Applied(list, q) \in [Events -> Rows]
  BY AppliedType
<1>6. ASSUME Len(q) + 1 \notin new
      PROVE  Applied(list, longer)[e] = Applied(list, q)[e]
  <2>1. new = old
    <3> HIDE DEF new, old
    <3>1. \A n \in new : n \in 1 .. Len(q)
      BY <1>1, <1>3, <1>6
    <3> QED
      BY <1>2, <1>3, <3>1
  <2>2. CASE old = {}
    BY <2>1, <2>2, NoneEffective
  <2>3. CASE old # {}
    <3>1. PICK n \in old : \A k \in old : n >= k
      BY <2>3, LastExists
    <3>2. Applied(list, q)[e] = q[n].row
      BY <3>1, LastOne
    <3>3. n \in new /\ \A k \in new : n >= k
      BY <2>1, <3>1
    <3>4. Applied(list, longer)[e] = longer[n].row
      <4> HIDE DEF longer
      <4> QED
        BY <1>1, <3>3, LastOne
    <3>5. n \in 1 .. Len(q)
      BY <1>3
    <3> QED
      BY <1>1, <3>2, <3>4, <3>5
  <2> QED
    BY <2>2, <2>3
<1>7. ASSUME Len(q) + 1 \in new
      PROVE  Applied(list, longer)[e] = m.row
  <2>1. \A k \in new : Len(q) + 1 >= k
    <3> HIDE DEF new
    <3> QED
      BY <1>1, <1>3
  <2>2. Applied(list, longer)[e] = longer[Len(q) + 1].row
    <3> HIDE DEF longer
    <3> QED
      BY <1>1, <1>7, <2>1, LastOne
  <2> QED
    BY <1>1, <2>2
<1>8. CASE m.id # e
  <2>1. Len(q) + 1 \notin new
    BY <1>1, <1>8 DEF Effective
  <2>2. Shown(Applied(list, q), m)[e] = Applied(list, q)[e]
    BY <1>4, <1>5, <1>8 DEF Shown
  <2> QED
    BY <1>6, <2>1, <2>2
<1>9. CASE m.id = e
  <2>1. Len(q) + 1 \in new <=>
          \/ m.name = "hazard"
          \/ list[e] # "absent"
          \/ \E k \in DOMAIN q : q[k].id = e /\ q[k].name = "hazard"
    <3> HIDE DEF longer
    <3>1. Len(q) + 1 \in DOMAIN longer
      BY <1>1
    <3>2. (\E k \in 1 .. Len(q) + 1 : longer[k].id = e /\ longer[k].name = "hazard")
            <=> \/ \E k \in DOMAIN q : q[k].id = e /\ q[k].name = "hazard"
                \/ m.name = "hazard"
      <4>1. 1 .. Len(q) + 1 = DOMAIN q \cup {Len(q) + 1}
        BY <1>1
      <4> QED
        BY <1>1, <1>9, <4>1
    <3> QED
      BY <1>1, <1>9, <3>1, <3>2 DEF Effective
  <2>2. Len(q) + 1 \in new <=> m.name = "hazard" \/ Applied(list, q)[e] # "absent"
    BY <2>1, AbsentToTheEnd
  <2>3. CASE Len(q) + 1 \in new
    <3>1. ~(m.name = "handled" /\ Applied(list, q)[m.id] = "absent")
      BY <1>9, <2>2, <2>3
    <3>2. Shown(Applied(list, q), m)[e] = m.row
      BY <1>5, <1>9, <3>1 DEF Shown
    <3> QED
      BY <1>7, <2>3, <3>2
  <2>4. CASE Len(q) + 1 \notin new
    <3>1. m.name = "handled" /\ Applied(list, q)[m.id] = "absent"
      BY <1>4, <1>9, <2>2, <2>4
    <3>2. Shown(Applied(list, q), m) = Applied(list, q)
      BY <3>1 DEF Shown
    <3> QED
      BY <1>6, <2>4, <3>2
  <2> QED
    BY <2>3, <2>4
<1> QED
  BY <1>8, <1>9

\* The message at the head of the queue, applied, leaves the outcome as it was.
LEMMA HeadIsShown ==
    ASSUME NEW list \in [Events -> Rows], NEW q \in Seq(Messages), q # <<>>,
           \A n \in DOMAIN q : q[n].row # "absent",
           NEW e \in Events
    PROVE  Applied(Shown(list, Head(q)), Tail(q))[e] = Applied(list, q)[e]
<1> DEFINE h == Head(q)
           rest == Tail(q)
           next == Shown(list, h)
           old == Effective(list, q, e)
           new == Effective(next, rest, e)
<1>1. /\ Len(q) \in Nat /\ Len(q) > 0 /\ DOMAIN q = 1 .. Len(q)
      /\ rest \in Seq(Messages) /\ DOMAIN rest = 1 .. Len(q) - 1
      /\ h = q[1] /\ \A n \in DOMAIN rest : rest[n] = q[n + 1]
  <2>1. Len(q) \in Nat /\ DOMAIN q = 1 .. Len(q) /\ Len(q) # 0
    BY EntriesOf, EmptySeq
  <2>2. rest \in Seq(Messages) /\ Len(rest) = Len(q) - 1
    BY HeadTailProperties
  <2>3. DOMAIN rest = 1 .. Len(rest)
    BY <2>2, EntriesOf
  <2>4. \A n \in 1 .. Len(rest) : rest[n] = q[n + 1]
    BY HeadTailProperties
  <2> QED
    BY <2>1, <2>2, <2>3, <2>4
<1>2. /\ 1 \in DOMAIN q /\ h \in Messages /\ h.id \in Events /\ h.row \in Rows
      /\ h.row # "absent" /\ h.name \in {"hazard", "handled"}
  <2>1. 1 \in DOMAIN q
    BY <1>1
  <2> QED
    BY <1>1, <2>1, EntriesOf
<1>3. 1 \in old <=> h.id = e /\ (h.name = "hazard" \/ list[e] # "absent")
  <2>1. 1 .. 1 = {1}
    OBVIOUS
  <2> QED
    BY <1>1, <1>2, <2>1 DEF Effective
<1>4. next[e] = IF 1 \in old THEN h.row ELSE list[e]
  BY <1>2, <1>3 DEF Shown
<1>5. \A n \in DOMAIN rest : n \in new <=> n + 1 \in old
  <2> HIDE DEF h, rest, next
  <2> TAKE n \in DOMAIN rest
  <2>1. n \in Nat /\ n + 1 \in DOMAIN q /\ rest[n] = q[n + 1]
    BY <1>1
  <2>2. (\E k \in 1 .. n + 1 : q[k].id = e /\ q[k].name = "hazard")
          <=> \/ h.id = e /\ h.name = "hazard"
              \/ \E k \in 1 .. n : rest[k].id = e /\ rest[k].name = "hazard"
    <3>1. ASSUME NEW k \in 1 .. n + 1, q[k].id = e /\ q[k].name = "hazard"
          PROVE  \/ h.id = e /\ h.name = "hazard"
                 \/ \E j \in 1 .. n : rest[j].id = e /\ rest[j].name = "hazard"
      <4>1. CASE k = 1
        BY <1>1, <3>1, <4>1
      <4>2. CASE k # 1
        <5>1. k - 1 \in 1 .. n /\ k - 1 \in DOMAIN rest /\ (k - 1) + 1 = k
          BY <1>1, <2>1, <4>2
        <5>2. rest[k - 1] = q[k]
          BY <1>1, <5>1
        <5> QED
          BY <3>1, <5>1, <5>2
      <4> QED
        BY <4>1, <4>2
    <3>2. ASSUME NEW k \in 1 .. n, rest[k].id = e /\ rest[k].name = "hazard"
          PROVE  \E j \in 1 .. n + 1 : q[j].id = e /\ q[j].name = "hazard"
      <4>1. k \in DOMAIN rest /\ k + 1 \in 1 .. n + 1
        BY <1>1, <2>1
      <4> QED
        BY <1>1, <3>2, <4>1
    <3>3. 1 \in 1 .. n + 1
      BY <2>1
    <3> QED
      BY <1>1, <3>1, <3>2, <3>3
  <2>3. n \in new <=>
          /\ q[n + 1].id = e
          /\ \/ q[n + 1].name = "hazard"
             \/ next[e] # "absent"
             \/ \E k \in 1 .. n : rest[k].id = e /\ rest[k].name = "hazard"
    BY <2>1 DEF Effective
  <2>4. n + 1 \in old <=>
          /\ q[n + 1].id = e
          /\ \/ q[n + 1].name = "hazard"
             \/ list[e] # "absent"
             \/ h.id = e /\ h.name = "hazard"
             \/ \E k \in 1 .. n : rest[k].id = e /\ rest[k].name = "hazard"
    BY <2>1, <2>2 DEF Effective
  <2>5. next[e] # "absent" <=> list[e] # "absent" \/ (h.id = e /\ h.name = "hazard")
    <3> HIDE DEF old
    <3> QED
      BY <1>2, <1>3, <1>4
  <2> QED
    BY <2>3, <2>4, <2>5
<1>6. new \in SUBSET DOMAIN rest /\ old \in SUBSET DOMAIN q
  BY DEF Effective
<1>7. CASE new = {}
  <2>1. Applied(next, rest)[e] = next[e]
    BY <1>7, NoneEffective
  <2>2. \A k \in old : k = 1
    <3> HIDE DEF new, old, rest
    <3> TAKE k \in old
    <3>1. ASSUME k # 1 PROVE FALSE
      <4>1. k - 1 \in DOMAIN rest /\ (k - 1) + 1 = k
        BY <1>1, <1>6, <3>1
      <4> QED
        BY <1>5, <1>7, <4>1
    <3> QED
      BY <3>1
  <2>3. CASE 1 \in old
    <3>1. \A k \in old : 1 >= k
      BY <2>2
    <3>2. Applied(list, q)[e] = q[1].row
      BY <2>3, <3>1, LastOne
    <3> QED
      BY <1>1, <1>4, <2>1, <2>3, <3>2
  <2>4. CASE 1 \notin old
    <3>1. old = {}
      BY <2>2, <2>4
    <3>2. Applied(list, q)[e] = list[e]
      BY <3>1, NoneEffective
    <3> QED
      BY <1>4, <2>1, <2>4, <3>2
  <2> QED
    BY <2>3, <2>4
<1>8. CASE new # {}
  <2>1. PICK n \in new : \A k \in new : n >= k
    <3> HIDE DEF rest, next
    <3> QED
      BY <1>1, <1>8, LastExists
  <2>2. Applied(next, rest)[e] = rest[n].row
    <3> HIDE DEF rest, next
    <3> QED
      BY <1>1, <2>1, LastOne
  <2>3. n + 1 \in old /\ \A k \in old : n + 1 >= k
    <3> HIDE DEF new, old, rest
    <3>1. n \in DOMAIN rest /\ n \in Nat
      BY <1>1, <1>6
    <3>2. ASSUME NEW k \in old PROVE n + 1 >= k
      <4>1. k \in 1 .. Len(q)
        BY <1>1, <1>6
      <4>2. CASE k = 1
        BY <3>1, <4>2
      <4>3. CASE k # 1
        <5>1. k - 1 \in DOMAIN rest /\ (k - 1) + 1 = k
          BY <1>1, <4>1, <4>3
        <5>2. k - 1 \in new
          BY <1>5, <3>2, <5>1
        <5> QED
          BY <2>1, <3>1, <4>1, <5>2
      <4> QED
        BY <4>2, <4>3
    <3> QED
      BY <1>5, <3>1, <3>2
  <2>4. Applied(list, q)[e] = q[n + 1].row
    BY <2>3, LastOne
  <2>5. n \in DOMAIN rest
    BY <1>6
  <2> QED
    BY <1>1, <2>2, <2>4, <2>5
<1> QED
  BY <1>7, <1>8

-----------------------------------------------------------------------------
(***************************************************************************)
(* Types.                                                                  *)
(***************************************************************************)
LEMMA Parameters ==
    /\ Events \subseteq Nat /\ MaxIngests \in Nat
    /\ QueueMax \in Nat \ {0} /\ PageLimit \in Nat \ {0}
  BY ConstantsOK

\* publish appends the message, or there is nobody to hear it.
LEMMA PutCases ==
    ASSUME TypeOK, NEW m \in Messages, Put(m)
    PROVE  \/ /\ Hears /\ stream' = stream /\ stream = "live"
              /\ queue' = Append(queue, m)
              /\ queue' \in Seq(Messages) /\ Len(queue') <= QueueMax
           \/ /\ ~Hears /\ queue' = queue
              /\ stream' = stream \/ (stream = "live" /\ stream' = "dropped")
<1>1. queue \in Seq(Messages) /\ Len(queue) \in Nat /\ QueueMax \in Nat
  BY Parameters, EntriesOf DEF TypeOK
<1>2. Append(queue, m) \in Seq(Messages) /\ Len(Append(queue, m)) = Len(queue) + 1
  BY <1>1, AppendProperties
<1> QED
  BY <1>1, <1>2 DEF Put, Hears, wire

LEMMA TypeInit ==
    ASSUME Init
    PROVE  TypeOK
<1>1. <<>> \in Seq(Messages) /\ Len(<<>>) = 0 /\ QueueMax \in Nat /\ MaxIngests \in Nat
  BY Parameters, EmptySeq
<1>2. /\ row \in [Events -> Rows] /\ listed \in [Events -> Rows]
      /\ publishing \in [Events -> {"none", "open", "handled"}]
  BY DEF Init, Rows
<1>3. queue \in Seq(Messages) /\ Len(queue) <= QueueMax
  BY <1>1 DEF Init
<1>4. ingests \in 0 .. MaxIngests
  BY <1>1 DEF Init
<1> QED
  BY <1>2, <1>3, <1>4 DEF Init, TypeOK

LEMMA PutType ==
    ASSUME TypeOK, NEW m \in Messages, Put(m), UNCHANGED <<connected>>
    PROVE  /\ stream' \in {"none", "live", "dropped", "dead"}
           /\ queue' \in Seq(Messages) /\ Len(queue') <= QueueMax
           /\ stream' \in {"none", "dead"} => queue' = <<>>
           /\ connected' <=> stream' # "none"
  BY PutCases DEF TypeOK

LEMMA TypeStep ==
    ASSUME TypeOK, [Next]_vars
    PROVE  TypeOK'
<1> USE DEF TypeOK, backend, wire, answers, app, Note
<1>1. ASSUME NEW e \in Events, Ingest(e)
      PROVE  TypeOK'
  <2>1. row' \in [Events -> Rows] /\ row'[e] \in {"open", "handled"}
    BY <1>1 DEF Ingest, Rows
  <2>2. ingests' \in 0 .. MaxIngests
    BY <1>1, Parameters DEF Ingest
  <2> QED
    BY <1>1, <2>1, <2>2 DEF Ingest
<1>2. ASSUME NEW e \in Events, Publish(e)
      PROVE  TypeOK'
  <2>1. [name |-> "hazard", id |-> e, row |-> publishing[e]] \in Messages
    BY <1>2 DEF Publish, Messages, Rows
  <2> DEFINE m == [name |-> "hazard", id |-> e, row |-> publishing[e]]
  <2> HIDE DEF m
  <2>2. Put(m) /\ UNCHANGED <<row, again, answers, app, ingests>>
    BY <1>2 DEF Publish, m
  <2>3. /\ stream' \in {"none", "live", "dropped", "dead"}
        /\ queue' \in Seq(Messages) /\ Len(queue') <= QueueMax
        /\ stream' \in {"none", "dead"} => queue' = <<>>
        /\ connected' <=> stream' # "none"
    BY <2>1, <2>2, PutType DEF m
  <2>4. publishing' \in [Events -> {"none", "open", "handled"}] /\ stale' \in SUBSET Events
    BY <1>2 DEF Publish
  <2> QED
    BY <2>2, <2>3, <2>4
<1>3. ASSUME NEW e \in Events, PublishRaises(e)
      PROVE  TypeOK'
  <2>1. ingests' \in 0 .. MaxIngests
    BY <1>3, Parameters DEF PublishRaises
  <2> QED
    BY <1>3, <2>1 DEF PublishRaises
<1>4. ASSUME NEW e \in Events, NEW mine \in BOOLEAN, HandleEvent(e, mine)
      PROVE  TypeOK'
  <2> DEFINE m == [name |-> "handled", id |-> e, row |-> "handled"]
  <2>1. m \in Messages
    BY DEF Messages, Rows
  <2> HIDE DEF m
  <2>2. Put(m) /\ UNCHANGED <<publishing, again, refreshAnswer, pollAnswer, app, ingests>>
    BY <1>4 DEF HandleEvent, m
  <2>3. /\ stream' \in {"none", "live", "dropped", "dead"}
        /\ queue' \in Seq(Messages) /\ Len(queue') <= QueueMax
        /\ stream' \in {"none", "dead"} => queue' = <<>>
        /\ connected' <=> stream' # "none"
    BY <2>1, <2>2, PutType
  <2>4. row' \in [Events -> Rows] /\ {handleAnswers', stale'} \subseteq SUBSET Events
    BY <1>4 DEF HandleEvent, Rows
  <2> QED
    BY <2>2, <2>3, <2>4
<1>5. ASSUME NEW e \in Events, NEW arrives \in BOOLEAN, ApplyHandle(e, arrives)
      PROVE  TypeOK'
  <2>1. listed' \in [Events -> Rows] /\ {handleAnswers', stale'} \subseteq SUBSET Events
    BY <1>5 DEF ApplyHandle, Rows
  <2> QED
    BY <1>5, <2>1 DEF ApplyHandle
<1>6. ASSUME Connect PROVE TypeOK'
  BY <1>6, Parameters, EmptySeq DEF Connect
<1>7. ASSUME ConnectFails PROVE TypeOK'
  BY <1>7 DEF ConnectFails
<1>8. ASSUME Deliver PROVE TypeOK'
  <2>1. /\ Tail(queue) \in Seq(Messages) /\ Len(Tail(queue)) = Len(queue) - 1
        /\ Head(queue) \in Messages /\ Len(queue) \in Nat
    BY <1>8, HeadTailProperties, EntriesOf DEF Deliver
  <2>2. listed' \in [Events -> Rows]
    BY <1>8, <2>1 DEF Deliver, Shown, Messages
  <2>3. Len(queue') <= QueueMax
    BY <1>8, <2>1, Parameters DEF Deliver
  <2> QED
    BY <1>8, <2>1, <2>2, <2>3 DEF Deliver
<1>9. ASSUME StreamEnds PROVE TypeOK'
  <2>1. <<>> \in Seq(Messages) /\ Len(<<>>) = 0 /\ QueueMax \in Nat \ {0}
    BY Parameters, EmptySeq
  <2>2. InQueue \in SUBSET Events
    BY EntriesOf DEF InQueue
  <2>3. queue' \in Seq(Messages) /\ Len(queue') <= QueueMax /\ stale' \in SUBSET Events
    BY <1>9, <2>1, <2>2 DEF StreamEnds
  <2> QED
    BY <1>9, <2>3 DEF StreamEnds
<1>10. ASSUME Cut PROVE TypeOK'
  <2>1. <<>> \in Seq(Messages) /\ Len(<<>>) = 0 /\ QueueMax \in Nat \ {0}
    BY Parameters, EmptySeq
  <2>2. InQueue \in SUBSET Events
    BY EntriesOf DEF InQueue
  <2>3. queue' \in Seq(Messages) /\ Len(queue') <= QueueMax /\ stale' \in SUBSET Events
    BY <1>10, <2>1, <2>2 DEF Cut
  <2> QED
    BY <1>10, <2>3 DEF Cut
<1>11. ASSUME AskRefresh PROVE TypeOK'
  <2>1. refreshAnswer' \in [Events -> Rows]
    BY <1>11 DEF AskRefresh, Rows
  <2> QED
    BY <1>11, <2>1 DEF AskRefresh
<1>12. ASSUME ApplyRefresh PROVE TypeOK'
  <2>1. /\ listed' \in [Events -> Rows] /\ stale' \in SUBSET Events
        /\ refreshAnswer' = NoAnswer /\ running' = TRUE
        /\ UNCHANGED <<backend, wire, pollAnswer, handleAnswers, connected, polling, ingests>>
    BY <1>12 DEF ApplyRefresh
  <2> QED
    BY <2>1
<1>13. ASSUME RefreshFails PROVE TypeOK'
  <2>1. /\ refreshAnswer' = NoAnswer /\ running' = TRUE
        /\ UNCHANGED <<backend, wire, pollAnswer, handleAnswers, listed, connected,
                       polling, stale, ingests>>
    BY <1>13 DEF RefreshFails
  <2> QED
    BY <2>1
<1>14. ASSUME AskPoll PROVE TypeOK'
  <2>1. pollAnswer' \in SUBSET Events
    BY <1>14 DEF AskPoll, Newest, Since
  <2> QED
    BY <1>14, <2>1 DEF AskPoll
<1>15. ASSUME ApplyPoll PROVE TypeOK'
  <2>1. listed' \in [Events -> Rows] /\ stale' \in SUBSET Events
    BY <1>15 DEF ApplyPoll, Rows
  <2> QED
    BY <1>15, <2>1 DEF ApplyPoll
<1>16. ASSUME PollFails PROVE TypeOK'
  BY <1>16 DEF PollFails
<1>17. ASSUME NEW e \in Events, HandleRaises(e)
       PROVE  TypeOK'
  <2>1. row' \in [Events -> Rows] /\ stale' \in SUBSET Events
    BY <1>17 DEF HandleRaises, Rows
  <2> QED
    BY <1>17, <2>1 DEF HandleRaises
<1>18. CASE UNCHANGED vars
  BY <1>18 DEF vars
<1> HIDE DEF TypeOK, backend, wire, answers, app, Note
<1> QED
  BY <1>1, <1>2, <1>3, <1>4, <1>5, <1>6, <1>7, <1>8, <1>9, <1>10, <1>11, <1>12, <1>13,
     <1>14, <1>15, <1>16, <1>17, <1>18 DEF Next, Poll

-----------------------------------------------------------------------------
(***************************************************************************)
(* The table is never behind what is under way.                            *)
(***************************************************************************)
\* A row stays, and stays handled.
LEMMA RowGrows ==
    ASSUME TypeOK, [Next]_vars, NEW e \in Events
    PROVE  /\ row[e] # "absent" => row'[e] # "absent"
           /\ row[e] = "handled" => row'[e] = "handled"
<1> USE DEF TypeOK, backend
<1>1. ASSUME NEW f \in Events, Ingest(f) \/ Publish(f) \/ PublishRaises(f)
      PROVE  row' = row \/ row' = [row EXCEPT ![f] = IF @ = "absent" THEN "open" ELSE @]
  BY <1>1 DEF Ingest, Publish, PublishRaises
<1>2. ASSUME NEW f \in Events, NEW mine \in BOOLEAN,
             HandleEvent(f, mine) \/ ApplyHandle(f, mine) \/ HandleRaises(f)
      PROVE  row' = row \/ row' = [row EXCEPT ![f] = "handled"]
  BY <1>2 DEF HandleEvent, ApplyHandle, HandleRaises
<1>3. ASSUME \/ Connect \/ ConnectFails \/ Deliver \/ StreamEnds \/ Cut
             \/ AskRefresh \/ ApplyRefresh \/ RefreshFails \/ Poll \/ UNCHANGED vars
      PROVE  row' = row
  BY <1>3 DEF Connect, ConnectFails, Deliver, StreamEnds, Cut, AskRefresh, ApplyRefresh,
     RefreshFails, Poll, AskPoll, ApplyPoll, PollFails, vars
<1> HIDE DEF TypeOK, backend
<1>4. row \in [Events -> Rows]
  BY DEF TypeOK
<1>5. ASSUME NEW f \in Events,
             row' = [row EXCEPT ![f] = IF @ = "absent" THEN "open" ELSE @]
      PROVE  /\ row[e] # "absent" => row'[e] # "absent"
             /\ row[e] = "handled" => row'[e] = "handled"
  BY <1>4, <1>5
<1>6. ASSUME NEW f \in Events, row' = [row EXCEPT ![f] = "handled"]
      PROVE  /\ row[e] # "absent" => row'[e] # "absent"
             /\ row[e] = "handled" => row'[e] = "handled"
  BY <1>4, <1>6
<1> QED
  BY <1>1, <1>2, <1>3, <1>5, <1>6 DEF Next

LEMMA UnderWayType ==
    ASSUME TypeOK
    PROVE  UnderWay \subseteq Messages
  BY EntriesOf DEF TypeOK, UnderWay

\* What is under way after a step was so before, or was published by it.
LEMMA PutUnderWay ==
    ASSUME TypeOK, NEW m \in Messages, Put(m)
    PROVE  UnderWay' \subseteq UnderWay \cup {m}
<1>1. CASE queue' = queue
  BY <1>1 DEF UnderWay
<1>2. CASE queue' = Append(queue, m)
  <2>1. /\ queue \in Seq(Messages) /\ Len(queue) \in Nat
        /\ DOMAIN queue = 1 .. Len(queue) /\ DOMAIN queue' = 1 .. Len(queue) + 1
        /\ \A n \in 1 .. Len(queue) : queue'[n] = queue[n]
        /\ queue'[Len(queue) + 1] = m
    BY <1>2, EntriesOf, AppendProperties DEF TypeOK
  <2>2. ASSUME NEW n \in DOMAIN queue' PROVE queue'[n] \in UnderWay \cup {m}
    BY <2>1 DEF UnderWay
  <2> QED
    BY <2>2 DEF UnderWay
<1> QED
  BY <1>1, <1>2, PutCases

LEMMA TableKept ==
    ASSUME TypeOK, TableInv, [Next]_vars,
           \A e \in Events : publishing'[e] # "none" =>
               publishing[e] # "none" \/ row'[e] # "absent",
           \A m \in UnderWay' : m \in UnderWay \/ Backed(m)',
           \A e \in handleAnswers' : e \in handleAnswers \/ row'[e] = "handled"
    PROVE  TableInv'
<1>1. \A e \in Events : publishing'[e] # "none" => row'[e] # "absent"
  BY RowGrows DEF TableInv
<1>2. ASSUME NEW m \in UnderWay' PROVE Backed(m)'
  <2>1. CASE m \in UnderWay
    <3>1. m.id \in Events /\ Backed(m)
      BY <2>1, UnderWayType DEF TableInv, Messages
    <3> QED
      BY <3>1, RowGrows DEF Backed
  <2> QED
    BY <1>2, <2>1
<1>3. \A e \in handleAnswers' : row'[e] = "handled"
  <2>1. handleAnswers \subseteq Events
    BY DEF TypeOK
  <2> QED
    BY <2>1, RowGrows DEF TableInv
<1> QED
  BY <1>1, <1>2, <1>3 DEF TableInv

LEMMA TableStep ==
    ASSUME TypeOK, TableInv, [Next]_vars
    PROVE  TableInv'
<1>1. ASSUME NEW e \in Events, Ingest(e)
      PROVE  TableInv'
  <2>1. /\ row' = [row EXCEPT ![e] = IF @ = "absent" THEN "open" ELSE @]
        /\ publishing' = [publishing EXCEPT ![e] = row'[e]]
        /\ queue' = queue /\ handleAnswers' = handleAnswers
    BY <1>1 DEF Ingest, wire, answers
  <2>2. row'[e] # "absent"
    BY <2>1 DEF TypeOK
  <2>3. UnderWay' = UnderWay
    BY <2>1 DEF UnderWay
  <2>4. \A f \in Events : publishing'[f] # "none" =>
          publishing[f] # "none" \/ row'[f] # "absent"
    BY <2>1, <2>2 DEF TypeOK
  <2> QED
    BY <2>1, <2>3, <2>4, TableKept
<1>2. ASSUME NEW e \in Events, Publish(e)
      PROVE  TableInv'
  <2> DEFINE m == [name |-> "hazard", id |-> e, row |-> publishing[e]]
  <2>1. /\ publishing[e] # "none" /\ m \in Messages /\ Put(m)
        /\ publishing' = [publishing EXCEPT ![e] = "none"]
        /\ row' = row /\ handleAnswers' = handleAnswers
    BY <1>2 DEF Publish, TypeOK, Messages, Rows, answers
  <2>2. UnderWay' \subseteq UnderWay \cup {m}
    <3> HIDE DEF m
    <3> QED
      BY <2>1, PutUnderWay
  <2>3. ASSUME NEW n, n = m PROVE Backed(n)'
    BY <2>1, <2>3 DEF Backed, TableInv, TypeOK
  <2>4. \A f \in Events : publishing'[f] # "none" => publishing[f] # "none"
    BY <2>1 DEF TypeOK
  <2> HIDE DEF m
  <2> QED
    BY <2>1, <2>2, <2>3, <2>4, TableKept
<1>3. ASSUME NEW e \in Events, PublishRaises(e)
      PROVE  TableInv'
  <2>1. /\ publishing' = [publishing EXCEPT ![e] = "none"]
        /\ row' = row /\ queue' = queue /\ handleAnswers' = handleAnswers
    BY <1>3 DEF PublishRaises, wire, answers
  <2>2. UnderWay' = UnderWay
    BY <2>1 DEF UnderWay
  <2>3. \A f \in Events : publishing'[f] # "none" => publishing[f] # "none"
    BY <2>1 DEF TypeOK
  <2> QED
    BY <2>1, <2>2, <2>3, TableKept
<1>4. ASSUME NEW e \in Events, NEW mine \in BOOLEAN, HandleEvent(e, mine)
      PROVE  TableInv'
  <2> DEFINE m == [name |-> "handled", id |-> e, row |-> "handled"]
  <2>1. /\ m \in Messages /\ Put(m)
        /\ row' = [row EXCEPT ![e] = "handled"] /\ publishing' = publishing
        /\ handleAnswers' \subseteq handleAnswers \cup {e}
    BY <1>4 DEF HandleEvent, Messages, Rows
  <2>2. UnderWay' \subseteq UnderWay \cup {m}
    <3> HIDE DEF m
    <3> QED
      BY <2>1, PutUnderWay
  <2>3. ASSUME NEW n, n = m PROVE Backed(n)'
    BY <2>1, <2>3 DEF Backed, TypeOK
  <2>4. row'[e] = "handled"
    BY <2>1 DEF TypeOK
  <2> HIDE DEF m
  <2> QED
    BY <2>1, <2>2, <2>3, <2>4, TableKept
<1>5. ASSUME \/ \E e \in Events, arrives \in BOOLEAN : ApplyHandle(e, arrives)
             \/ ConnectFails \/ AskRefresh \/ ApplyRefresh \/ RefreshFails \/ Poll
             \/ UNCHANGED vars
      PROVE  TableInv'
  <2>1. row' = row /\ publishing' = publishing /\ queue' = queue
        /\ handleAnswers' \subseteq handleAnswers
    BY <1>5 DEF ApplyHandle, ConnectFails, AskRefresh, ApplyRefresh, RefreshFails, Poll,
       AskPoll, ApplyPoll, PollFails, vars, backend, wire, answers
  <2>2. UnderWay' = UnderWay
    BY <2>1 DEF UnderWay
  <2> QED
    BY <2>1, <2>2, TableKept
<1>6. ASSUME Connect \/ StreamEnds \/ Cut
      PROVE  TableInv'
  <2>1. row' = row /\ publishing' = publishing /\ queue' = <<>>
        /\ handleAnswers' = handleAnswers
    BY <1>6 DEF Connect, StreamEnds, Cut, backend, answers
  <2>2. UnderWay' = {}
    BY <2>1 DEF UnderWay
  <2> QED
    BY <2>1, <2>2, TableKept
<1>7. ASSUME Deliver
      PROVE  TableInv'
  <2>1. /\ row' = row /\ publishing' = publishing /\ handleAnswers' = handleAnswers
        /\ queue # <<>> /\ queue' = Tail(queue)
    BY <1>7 DEF Deliver, backend, answers
  <2>2. UnderWay' \subseteq UnderWay
    <3>1. queue \in Seq(Messages) /\ queue' \in Seq(Messages) /\ Len(queue') = Len(queue) - 1
          /\ \A n \in 1 .. Len(queue') : queue'[n] = queue[n + 1]
      BY <2>1, HeadTailProperties DEF TypeOK
    <3>2. /\ Len(queue) \in Nat /\ DOMAIN queue = 1 .. Len(queue)
          /\ DOMAIN queue' = 1 .. Len(queue')
      BY <3>1, EntriesOf
    <3>3. \A n \in DOMAIN queue' : n + 1 \in DOMAIN queue /\ queue'[n] = queue[n + 1]
      BY <3>1, <3>2
    <3> QED
      BY <3>3 DEF UnderWay
  <2> QED
    BY <2>1, <2>2, TableKept
<1>8. ASSUME NEW e \in Events, HandleRaises(e)
      PROVE  TableInv'
  <2>1. publishing' = publishing /\ queue' = queue /\ handleAnswers' = handleAnswers
    BY <1>8 DEF HandleRaises, wire, answers
  <2>2. UnderWay' = UnderWay
    BY <2>1 DEF UnderWay
  <2> QED
    BY <2>1, <2>2, TableKept
<1> QED
  BY <1>1, <1>2, <1>3, <1>4, <1>5, <1>6, <1>7, <1>8 DEF Next

-----------------------------------------------------------------------------
(***************************************************************************)
(* The list and the table.                                                 *)
(***************************************************************************)
\* ListTrue, of one event.
Accounted(e) ==
    \/ Ahead[e] = row[e]
    \/ publishing[e] # "none" \/ e \in again
    \/ e \in stale

LEMMA RowsUnderWay ==
    ASSUME TypeOK, TableInv
    PROVE  /\ queue \in Seq(Messages)
           /\ \A n \in DOMAIN queue : queue[n] \in Messages /\ Backed(queue[n])
           /\ \A n \in DOMAIN queue : queue[n].row # "absent"
<1>1. queue \in Seq(Messages) /\ \A n \in DOMAIN queue : queue[n] \in Messages
  BY EntriesOf DEF TypeOK
<1>2. \A n \in DOMAIN queue : Backed(queue[n])
  BY DEF TableInv, UnderWay
<1> QED
  BY <1>1, <1>2 DEF Backed

LEMMA AheadType ==
    ASSUME TypeOK
    PROVE  Ahead \in [Events -> Rows]
  BY AppliedType DEF Ahead, TypeOK

\* A step that leaves an event alone leaves it accounted for.
LEMMA LeftAlone ==
    ASSUME TypeOK, NEW e \in Events, Accounted(e),
           Ahead'[e] = Ahead[e], row'[e] = row[e],
           publishing[e] # "none" \/ e \in again => publishing'[e] # "none" \/ e \in again',
           e \in stale => Ahead'[e] = row'[e] \/ e \in stale'
    PROVE  Accounted(e)'
  BY DEF Accounted

LEMMA NotedKept ==
    ASSUME NEW incidents, Note(incidents), NEW e \in stale \cup incidents
    PROVE  Ahead'[e] = row'[e] \/ e \in stale'
  BY DEF Note

\* Putting what is in the table into the list: what is under way may still
\* change it, but then to what it was going to be, or it brings the same.
LEMMA Overwritten ==
    ASSUME TypeOK, TableInv, NEW list, NEW e \in Events, list[e] = row[e]
    PROVE  Applied(list, queue)[e] = Ahead[e] \/ Applied(list, queue)[e] = row[e]
<1> DEFINE old == Effective(listed, queue, e)
           new == Effective(list, queue, e)
<1>1. /\ queue \in Seq(Messages) /\ Len(queue) \in Nat /\ DOMAIN queue = 1 .. Len(queue)
      /\ \A n \in DOMAIN queue : queue[n] \in Messages /\ Backed(queue[n])
      /\ row[e] \in Rows
  BY RowsUnderWay, EntriesOf DEF TypeOK
<1>2. CASE new = {}
  BY <1>2, NoneEffective
<1>3. CASE new # {}
  <2>1. PICK n \in new : \A k \in new : n >= k
    BY <1>1, <1>3, LastExists
  <2>2. Applied(list, queue)[e] = queue[n].row
    BY <1>1, <2>1, LastOne
  <2>3. n \in DOMAIN queue /\ queue[n].id = e
    BY <2>1 DEF Effective
  <2>4. row[e] # "absent"
    BY <1>1, <2>3 DEF Backed
  <2>5. old \subseteq new
    BY <2>4 DEF Effective
  <2>6. CASE n \in old
    <3>1. Applied(listed, queue)[e] = queue[n].row
      BY <1>1, <2>1, <2>5, <2>6, LastOne
    <3> QED
      BY <2>2, <3>1 DEF Ahead
  <2>7. CASE n \notin old
    <3>1. n \in 1 .. n
      BY <1>1, <2>3
    <3>2. queue[n].name # "hazard"
      BY <2>3, <2>7, <3>1 DEF Effective
    <3>3. queue[n].name = "handled"
      BY <1>1, <2>3, <3>2 DEF Messages
    <3> QED
      BY <1>1, <2>2, <2>3, <3>3 DEF Backed
  <2> QED
    BY <2>6, <2>7
<1> QED
  BY <1>2, <1>3

\* A step that applies an answer to the list.
LEMMA AnswerApplied ==
    ASSUME TypeOK, TableInv, NEW e \in Events, Accounted(e), NEW incidents, Note(incidents),
           row' = row, queue' = queue, publishing' = publishing, again' = again,
           listed'[e] = listed[e] \/ listed'[e] = row[e] \/ e \in incidents
    PROVE  Accounted(e)'
<1>1. Ahead'[e] = Applied(listed', queue)[e] /\ Ahead[e] = Applied(listed, queue)[e]
  BY DEF Ahead
<1>2. CASE e \in incidents
  BY <1>2, NotedKept DEF Accounted
<1>3. CASE listed'[e] = listed[e]
  <2>1. Ahead'[e] = Ahead[e]
    BY <1>1, <1>3, ListAlone
  <2>2. e \in stale => Ahead'[e] = row'[e] \/ e \in stale'
    BY NotedKept
  <2> QED
    BY <2>1, <2>2, LeftAlone
<1>4. CASE listed'[e] = row[e]
  <2>1. Applied(listed', queue)[e] = Ahead[e] \/ Applied(listed', queue)[e] = row[e]
    BY <1>4, Overwritten
  <2>2. CASE Ahead'[e] = row[e]
    BY <2>2 DEF Accounted
  <2>3. CASE Ahead'[e] = Ahead[e]
    <3>1. e \in stale => Ahead'[e] = row'[e] \/ e \in stale'
      BY NotedKept
    <3> QED
      BY <2>3, <3>1, LeftAlone
  <2> QED
    BY <1>1, <2>1, <2>2, <2>3
<1> QED
  BY <1>2, <1>3, <1>4

\* A published message shows the event it is about, if it is heard and
\* applies, and no other.
LEMMA Published ==
    ASSUME TypeOK, TableInv, NEW m \in Messages, Put(m), listed' = listed, NEW e \in Events
    PROVE  /\ Hears => Ahead'[e] = Shown(Ahead, m)[e]
           /\ ~Hears => Ahead'[e] = Ahead[e]
           /\ m.id # e => Ahead'[e] = Ahead[e]
<1>1. Ahead'[e] = Applied(listed, queue')[e] /\ Ahead[e] = Applied(listed, queue)[e]
  BY DEF Ahead
<1>2. Shown(Ahead, m)[e] = Shown(Applied(listed, queue), m)[e]
  BY DEF Ahead
<1>3. CASE ~Hears
  BY <1>1, <1>3, PutCases
<1>4. CASE Hears
  <2>1. queue' = Append(queue, m)
    BY <1>4, PutCases
  <2>2. Applied(listed, Append(queue, m))[e] = Shown(Applied(listed, queue), m)[e]
    BY RowsUnderWay, AppendIsShown DEF TypeOK
  <2>3. m.id # e => Shown(Ahead, m)[e] = Ahead[e]
    BY AheadType DEF Shown, Messages
  <2> QED
    BY <1>1, <1>2, <1>4, <2>1, <2>2, <2>3
<1> QED
  BY <1>3, <1>4 DEF Ahead

\* Losing the queue changes the outcome of the events in it only.
LEMMA QueueLost ==
    ASSUME queue' = <<>>, listed' = listed, NEW e \in Events, e \notin InQueue
    PROVE  Ahead'[e] = Ahead[e]
<1>1. Applied(listed, queue)[e] = listed[e]
  BY NothingUnderWay DEF InQueue
<1>2. Applied(listed', queue')[e] = listed'[e]
  BY NothingUnderWay
<1> QED
  BY <1>1, <1>2 DEF Ahead

LEMMA ListStep ==
    ASSUME FeedInv, [Next]_vars, NEW f \in Events
    PROVE  Accounted(f)'
<1>1. TypeOK /\ TableInv /\ Accounted(f)
  BY DEF FeedInv, ListTrue, Accounted
<1>2. ASSUME NEW e \in Events, Ingest(e)
      PROVE  Accounted(f)'
  <2>1. /\ row' = [row EXCEPT ![e] = IF @ = "absent" THEN "open" ELSE @]
        /\ publishing' = [publishing EXCEPT ![e] = row'[e]]
        /\ again' = again \ {e} /\ queue' = queue /\ listed' = listed /\ Note({})
    BY <1>2 DEF Ingest, wire, app
  <2>2. CASE f = e
    <3>1. publishing'[f] # "none"
      BY <1>1, <2>1, <2>2 DEF TypeOK, Rows
    <3> QED
      BY <3>1 DEF Accounted
  <2>3. CASE f # e
    <3>1. Ahead'[f] = Ahead[f]
      BY <2>1 DEF Ahead
    <3>2. row'[f] = row[f] /\ publishing'[f] = publishing[f]
      BY <1>1, <2>1, <2>3 DEF TypeOK
    <3>3. f \in again => f \in again'
      BY <2>1, <2>3
    <3>4. f \in stale => Ahead'[f] = row'[f] \/ f \in stale'
      BY <2>1, NotedKept
    <3> QED
      BY <1>1, <3>1, <3>2, <3>3, <3>4, LeftAlone
  <2> QED
    BY <2>2, <2>3
<1>3. ASSUME NEW e \in Events, Publish(e)
      PROVE  Accounted(f)'
  <2> DEFINE m == [name |-> "hazard", id |-> e, row |-> publishing[e]]
             missed == IF Hears /\ publishing[e] = row[e] THEN {} ELSE {e}
  <2>1. /\ publishing[e] # "none" /\ m \in Messages /\ Put(m)
        /\ publishing' = [publishing EXCEPT ![e] = "none"]
        /\ row' = row /\ again' = again /\ listed' = listed /\ Note(missed)
    BY <1>1, <1>3 DEF Publish, TypeOK, Messages, Rows, app
  <2>2. m.id = e /\ m.name = "hazard" /\ m.row = publishing[e]
    OBVIOUS
  <2> HIDE DEF m
  <2>3. CASE f = e /\ Hears /\ publishing[e] = row[e]
    <3>1. Ahead'[f] = Shown(Ahead, m)[f]
      BY <1>1, <2>1, <2>3, Published
    <3>2. Shown(Ahead, m)[f] = publishing[e]
      BY <1>1, <2>2, <2>3, AheadType DEF Shown
    <3> QED
      BY <2>1, <2>3, <3>1, <3>2 DEF Accounted
  <2>4. CASE f = e /\ ~(Hears /\ publishing[e] = row[e])
    <3>1. f \in missed
      BY <2>4
    <3> HIDE DEF missed
    <3> QED
      BY <2>1, <3>1, NotedKept DEF Accounted
  <2>5. CASE f # e
    <3>1. Ahead'[f] = Ahead[f]
      BY <1>1, <2>1, <2>2, <2>5, Published
    <3>2. row'[f] = row[f] /\ publishing'[f] = publishing[f] /\ again' = again
      BY <1>1, <2>1, <2>5 DEF TypeOK
    <3>3. f \in stale => Ahead'[f] = row'[f] \/ f \in stale'
      <4> HIDE DEF missed
      <4> QED
        BY <2>1, NotedKept
    <3> QED
      BY <1>1, <3>1, <3>2, <3>3, LeftAlone
  <2> QED
    BY <2>3, <2>4, <2>5
<1>4. ASSUME NEW e \in Events, PublishRaises(e)
      PROVE  Accounted(f)'
  <2>1. /\ publishing' = [publishing EXCEPT ![e] = "none"] /\ again' = again \cup {e}
        /\ row' = row /\ queue' = queue /\ listed' = listed /\ stale' = stale
    BY <1>4 DEF PublishRaises, wire, app
  <2>2. CASE f = e
    BY <2>1, <2>2 DEF Accounted
  <2>3. CASE f # e
    <3>1. Ahead'[f] = Ahead[f] /\ row'[f] = row[f] /\ publishing'[f] = publishing[f]
      BY <1>1, <2>1, <2>3 DEF Ahead, TypeOK
    <3> QED
      BY <1>1, <2>1, <3>1, LeftAlone
  <2> QED
    BY <2>2, <2>3
<1>5. ASSUME NEW e \in Events, NEW mine \in BOOLEAN, HandleEvent(e, mine)
      PROVE  Accounted(f)'
  <2> DEFINE m == [name |-> "handled", id |-> e, row |-> "handled"]
             missed == IF Hears THEN {} ELSE {e}
  <2>1. /\ m \in Messages /\ Put(m) /\ row[e] # "absent"
        /\ row' = [row EXCEPT ![e] = "handled"]
        /\ publishing' = publishing /\ again' = again /\ listed' = listed /\ Note(missed)
    BY <1>5 DEF HandleEvent, Messages, Rows, app
  <2>2. m.id = e /\ m.name = "handled" /\ m.row = "handled"
    OBVIOUS
  <2> HIDE DEF m
  <2>3. f \in stale => Ahead'[f] = row'[f] \/ f \in stale'
    <3> HIDE DEF missed
    <3> QED
      BY <2>1, NotedKept
  <2>4. CASE f = e /\ Hears /\ Ahead[e] # "absent"
    <3>1. Ahead'[f] = Shown(Ahead, m)[f]
      BY <1>1, <2>1, <2>4, Published
    <3>2. Shown(Ahead, m)[f] = "handled"
      BY <1>1, <2>2, <2>4, AheadType DEF Shown
    <3>3. row'[f] = "handled"
      BY <1>1, <2>1, <2>4 DEF TypeOK
    <3> QED
      BY <3>1, <3>2, <3>3 DEF Accounted
  <2>5. CASE f = e /\ Ahead[e] = "absent"
    <3>1. publishing[f] # "none" \/ f \in again \/ f \in stale
      BY <1>1, <2>1, <2>5 DEF Accounted
    <3> QED
      BY <2>1, <2>3, <3>1 DEF Accounted
  <2>6. CASE f = e /\ ~Hears
    <3>1. f \in missed
      BY <2>6
    <3> HIDE DEF missed
    <3> QED
      BY <2>1, <3>1, NotedKept DEF Accounted
  <2>7. CASE f # e
    <3>1. Ahead'[f] = Ahead[f]
      BY <1>1, <2>1, <2>2, <2>7, Published
    <3>2. row'[f] = row[f]
      BY <1>1, <2>1, <2>7 DEF TypeOK
    <3> QED
      BY <1>1, <2>1, <2>3, <3>1, <3>2, LeftAlone
  <2> QED
    BY <2>4, <2>5, <2>6, <2>7
<1>6. ASSUME NEW e \in Events, NEW arrives \in BOOLEAN, ApplyHandle(e, arrives)
      PROVE  Accounted(f)'
  <2>1. /\ row' = row /\ queue' = queue /\ publishing' = publishing /\ again' = again
        /\ Note({}) /\ e \in handleAnswers
        /\ listed' = listed \/ listed' = [listed EXCEPT ![e] = "handled"]
    BY <1>6 DEF ApplyHandle, backend, wire
  <2>2. row[e] = "handled"
    BY <1>1, <2>1 DEF TableInv
  <2>3. listed'[f] = listed[f] \/ listed'[f] = row[f]
    BY <1>1, <2>1, <2>2 DEF TypeOK
  <2> QED
    BY <1>1, <2>1, <2>3, AnswerApplied
<1>7. ASSUME ApplyRefresh
      PROVE  Accounted(f)'
  <2> DEFINE incidents == {e \in Events : refreshAnswer[e] # row[e]}
  <2>1. /\ row' = row /\ queue' = queue /\ publishing' = publishing /\ again' = again
        /\ Note(incidents) /\ listed' = refreshAnswer
    BY <1>7 DEF ApplyRefresh, backend, wire
  <2>2. listed'[f] = row[f] \/ f \in incidents
    BY <2>1
  <2> HIDE DEF incidents
  <2> QED
    BY <1>1, <2>1, <2>2, AnswerApplied
<1>8. ASSUME ApplyPoll
      PROVE  Accounted(f)'
  <2> DEFINE incidents == {e \in pollAnswer : row[e] # "open"}
  <2>1. /\ row' = row /\ queue' = queue /\ publishing' = publishing /\ again' = again
        /\ Note(incidents)
        /\ listed' = [e \in Events |-> IF e \in pollAnswer THEN "open" ELSE listed[e]]
    BY <1>8 DEF ApplyPoll, backend, wire
  <2>2. listed'[f] = listed[f] \/ listed'[f] = row[f] \/ f \in incidents
    BY <2>1
  <2> HIDE DEF incidents
  <2> QED
    BY <1>1, <2>1, <2>2, AnswerApplied
<1>9. ASSUME \/ Connect \/ ConnectFails \/ AskRefresh \/ RefreshFails \/ AskPoll
             \/ PollFails \/ UNCHANGED vars
      PROVE  Accounted(f)'
  <2>1. /\ row' = row /\ queue' = queue /\ publishing' = publishing /\ again' = again
        /\ listed' = listed /\ stale' = stale
    BY <1>1, <1>9 DEF Connect, ConnectFails, AskRefresh, RefreshFails, AskPoll, PollFails, vars,
       backend, wire, app, TypeOK
  <2>2. Ahead'[f] = Ahead[f]
    BY <2>1 DEF Ahead
  <2> QED
    BY <1>1, <2>1, <2>2, LeftAlone
<1>10. ASSUME Deliver
       PROVE  Accounted(f)'
  <2>1. /\ queue # <<>> /\ listed' = Shown(listed, Head(queue)) /\ queue' = Tail(queue)
        /\ row' = row /\ publishing' = publishing /\ again' = again /\ stale' = stale
    BY <1>10 DEF Deliver, backend
  <2>2. Applied(Shown(listed, Head(queue)), Tail(queue))[f] = Applied(listed, queue)[f]
    BY <1>1, <2>1, RowsUnderWay, HeadIsShown DEF TypeOK
  <2>3. Ahead'[f] = Ahead[f]
    BY <2>1, <2>2 DEF Ahead
  <2> QED
    BY <1>1, <2>1, <2>3, LeftAlone
<1>11. ASSUME StreamEnds \/ Cut
       PROVE  Accounted(f)'
  <2>1. /\ queue' = <<>> /\ listed' = listed /\ row' = row /\ publishing' = publishing
        /\ again' = again /\ Note(InQueue)
    BY <1>11 DEF StreamEnds, Cut, backend, app
  <2>2. CASE f \in InQueue
    BY <2>1, <2>2, NotedKept DEF Accounted
  <2>3. CASE f \notin InQueue
    <3>1. Ahead'[f] = Ahead[f]
      BY <2>1, <2>3, QueueLost
    <3>2. f \in stale => Ahead'[f] = row'[f] \/ f \in stale'
      BY <2>1, NotedKept
    <3> QED
      BY <1>1, <2>1, <3>1, <3>2, LeftAlone
  <2> QED
    BY <2>2, <2>3
<1>12. ASSUME NEW e \in Events, HandleRaises(e)
       PROVE  Accounted(f)'
  <2>1. /\ row' = [row EXCEPT ![e] = "handled"] /\ queue' = queue /\ listed' = listed
        /\ publishing' = publishing /\ again' = again /\ Note({e})
    BY <1>12 DEF HandleRaises, wire, app
  <2>2. CASE f = e
    BY <2>1, <2>2, NotedKept DEF Accounted
  <2>3. CASE f # e
    <3>1. Ahead'[f] = Ahead[f] /\ row'[f] = row[f]
      BY <1>1, <2>1, <2>3 DEF Ahead, TypeOK
    <3>2. f \in stale => Ahead'[f] = row'[f] \/ f \in stale'
      BY <2>1, NotedKept
    <3> QED
      BY <1>1, <2>1, <3>1, <3>2, LeftAlone
  <2> QED
    BY <2>2, <2>3
<1> QED
  BY <1>2, <1>3, <1>4, <1>5, <1>6, <1>7, <1>8, <1>9, <1>10, <1>11, <1>12 DEF Next, Poll

-----------------------------------------------------------------------------
(***************************************************************************)
(* The theorems.                                                           *)
(***************************************************************************)
\* The invariant is inductive.
THEOREM FeedInvariant == Spec => []FeedInv
<1>1. ASSUME Init PROVE FeedInv
  <2>1. TypeOK
    BY <1>1, TypeInit
  <2>2. TableInv
    BY <1>1 DEF Init, TableInv, UnderWay
  <2>3. ASSUME NEW e \in Events PROVE Ahead[e] = row[e]
    <3>1. Applied(listed, queue)[e] = listed[e]
      BY <1>1, NothingUnderWay DEF Init
    <3> QED
      BY <1>1, <3>1 DEF Init, Ahead
  <2> QED
    BY <2>1, <2>2, <2>3 DEF FeedInv, ListTrue
<1>2. ASSUME FeedInv, [Next]_vars PROVE FeedInv'
  <2>1. TypeOK' /\ TableInv'
    BY <1>2, TypeStep, TableStep DEF FeedInv
  <2>2. \A e \in Events : Accounted(e)'
    BY <1>2, ListStep
  <2>3. ListTrue'
    BY <2>2 DEF ListTrue, Accounted
  <2> QED
    BY <2>1, <2>3 DEF FeedInv
<1> QED
  BY <1>1, <1>2, PTL DEF Spec

\* Every variable has the values the code gives it; the queue of a subscriber
\* is never longer than Broker's max_queue.
THEOREM TypeCorrect == Spec => []TypeOK
<1>1. FeedInv => TypeOK
  BY DEF FeedInv
<1> QED
  BY <1>1, FeedInvariant, PTL

\* Whatever the order in which messages and answers reach _events: what it shows
\* of an event, once what is under way is applied, is the event's row, unless
\* news of it went past the App since the two last agreed.
THEOREM ListShowsTable == Spec => []ListTrue
<1>1. FeedInv => ListTrue
  BY DEF FeedInv
<1> QED
  BY <1>1, FeedInvariant, PTL
====
