----------------------------- MODULE UplinkProofs -----------------------------
(***************************************************************************)
(* Proofs about Uplink for every set of events and records, every limit of *)
(* the queue and the subscriptions, and any number of outages, unanswered  *)
(* POSTs and restarts.                                                     *)
(***************************************************************************)
EXTENDS Uplink, SequenceTheorems, TLAPS

-----------------------------------------------------------------------------
(***************************************************************************)
(* The inductive invariant.  An item is in one place at most on the robot, *)
(* so a POST that succeeds leaves no second copy behind; and each item has *)
(* a budget of writes, one more for each answer lost, which its copy and   *)
(* its late requests draw on.                                              *)
(***************************************************************************)
Distinct(s) == \A m, n \in DOMAIN s : s[m].item = s[n].item => m = n

\* No item is twice in a sequence, or in two of them.
PlaceInv ==
    /\ \A k \in Kinds :
         /\ Distinct(inbox[k])
         /\ \A item \in ItemsOf(inbox[k]) : item.kind = k
         /\ ItemsOf(inbox[k]) \cap ItemsOf(pending) = {}
         /\ ItemsOf(inbox[k]) \cap ItemsOf(queue) = {}
    /\ Distinct(pending) /\ Distinct(queue)
    /\ ItemsOf(pending) \cap ItemsOf(queue) = {}

\* A callback has something to POST, a direct POST one entry; drain puts back
\* no more than it took.
JobInv ==
    /\ job = "idle" <=> pending = <<>>
    /\ job = "enqueue" => Len(pending) = 1
    /\ Len(queue) <= MaxLen
    /\ job = "drain" => Len(pending) + Len(queue) <= MaxLen

One(b) == IF b THEN 1 ELSE 0

\* The writes an item has seen, and those its late requests and its copy on the
\* robot may still bring.
BudgetInv ==
    \A item \in Items :
        stores[item] + inflight[item] + One(item \in Waiting) <= 1 + unanswered[item]

\* Only what was published is about.
SourceInv ==
    /\ \A item \in Items \ published : stores[item] = 0 /\ inflight[item] = 0
    /\ Waiting \subseteq published

\* A row was written, and only rows are handled.
RowInv == handled \subseteq stored /\ \A e \in stored : stores[Event(e)] > 0

UplinkInv ==
    /\ TypeOK /\ PlaceInv /\ JobInv /\ BudgetInv /\ SourceInv /\ RowInv
    /\ Accounted

-----------------------------------------------------------------------------
(***************************************************************************)
(* The items of a sequence of entries.                                     *)
(***************************************************************************)
LEMMA EmptyItems == ItemsOf(<<>>) = {} /\ Distinct(<<>>)
  BY DEF ItemsOf, Distinct

LEMMA EntryItem ==
    ASSUME NEW s \in Seq(Entries)
    PROVE  ItemsOf(s) \subseteq Items
<1>1. \A n \in DOMAIN s : s[n] \in Entries
  BY LenProperties, ElementOfSeq
<1> QED
  BY <1>1 DEF ItemsOf, Entries

LEMMA AppendItems ==
    ASSUME NEW s \in Seq(Entries), NEW x \in Entries
    PROVE  /\ Append(s, x) \in Seq(Entries)
           /\ Append(s, x) # <<>>
           /\ Len(Append(s, x)) = Len(s) + 1
           /\ ItemsOf(Append(s, x)) = ItemsOf(s) \cup {x.item}
           /\ Distinct(s) /\ x.item \notin ItemsOf(s) => Distinct(Append(s, x))
<1> DEFINE k == Len(s) + 1
           t == Append(s, x)
<1>1. /\ t \in Seq(Entries) /\ t # <<>> /\ Len(t) = k
      /\ \A i \in 1 .. Len(s) : t[i] = s[i]
      /\ t[k] = x
  BY AppendProperties
<1>2. Len(s) \in Nat /\ DOMAIN s = 1 .. Len(s) /\ DOMAIN t = 1 .. k
  BY <1>1, LenProperties
<1>3. DOMAIN t = DOMAIN s \cup {k} /\ k \notin DOMAIN s
  BY <1>2
<1>4. \A i \in DOMAIN s : t[i] = s[i]
  BY <1>1, <1>2
<1> HIDE DEF k, t
<1>5. ItemsOf(t) = ItemsOf(s) \cup {x.item}
  BY <1>1, <1>3, <1>4 DEF ItemsOf
<1>6. Distinct(s) /\ x.item \notin ItemsOf(s) => Distinct(t)
  BY <1>1, <1>3, <1>4 DEF ItemsOf, Distinct
<1> QED
  BY <1>1, <1>5, <1>6 DEF k, t

LEMMA HeadItems ==
    ASSUME NEW s \in Seq(Entries), s # <<>>
    PROVE  /\ Head(s) \in Entries /\ Tail(s) \in Seq(Entries)
           /\ Len(s) \in Nat /\ Len(Tail(s)) = Len(s) - 1
           /\ Tail(s) = <<>> <=> Len(s) = 1
           /\ ItemsOf(s) = {Head(s).item} \cup ItemsOf(Tail(s))
           /\ Distinct(s) => Distinct(Tail(s)) /\ Head(s).item \notin ItemsOf(Tail(s))
<1> DEFINE t == Tail(s)
<1>1. /\ Head(s) \in Entries /\ t \in Seq(Entries) /\ Len(t) = Len(s) - 1
      /\ \A i \in 1 .. Len(t) : t[i] = s[i + 1]
  BY HeadTailProperties
<1>2. /\ Len(s) \in Nat \ {0} /\ DOMAIN s = 1 .. Len(s)
      /\ Len(t) \in Nat /\ DOMAIN t = 1 .. Len(t)
  BY <1>1, EmptySeq, LenProperties
<1>3. Head(s) = s[1] /\ 1 \in DOMAIN s
  BY <1>2
<1>4. t = <<>> <=> Len(s) = 1
  <2> HIDE DEF t
  <2>1. t = <<>> <=> Len(t) = 0
    BY <1>1, EmptySeq
  <2> QED
    BY <1>1, <1>2, <2>1
<1>5. /\ \A i \in DOMAIN t : i \in Nat /\ i + 1 \in DOMAIN s /\ i + 1 # 1 /\ t[i] = s[i + 1]
      /\ \A i \in DOMAIN s : i = 1 \/ (i - 1 \in DOMAIN t /\ t[i - 1] = s[i])
  BY <1>1, <1>2
<1> HIDE DEF t
<1>6. ItemsOf(s) = {Head(s).item} \cup ItemsOf(t)
  BY <1>3, <1>5 DEF ItemsOf
<1>7. ASSUME Distinct(s) PROVE Distinct(t) /\ Head(s).item \notin ItemsOf(t)
  <2>1. Head(s).item \notin ItemsOf(t)
    BY <1>3, <1>5, <1>7 DEF ItemsOf, Distinct
  <2>2. \A m, n \in DOMAIN t : t[m].item = t[n].item => m + 1 = n + 1
    BY <1>5, <1>7 DEF Distinct
  <2>3. \A m, n \in DOMAIN t : m + 1 = n + 1 => m = n
    BY <1>5
  <2> QED
    BY <2>1, <2>2, <2>3 DEF Distinct
<1> QED
  BY <1>1, <1>2, <1>4, <1>6, <1>7 DEF t

\* Where an item can be.
LEMMA Places ==
    ASSUME NEW box, NEW S, NEW T, NEW item
    PROVE  item \in (UNION {ItemsOf(box[k]) : k \in Kinds}) \cup S \cup T <=>
             (\E k \in Kinds : item \in ItemsOf(box[k])) \/ item \in S \/ item \in T
<1> DEFINE Boxes == {ItemsOf(box[k]) : k \in Kinds}
<1>1. item \in UNION Boxes <=> \E k \in Kinds : item \in ItemsOf(box[k])
  <2>1. item \in UNION Boxes <=> \E B \in Boxes : item \in B
    OBVIOUS
  <2> QED
    BY <2>1
<1> HIDE DEF Boxes
<1>2. item \in (UNION Boxes) \cup S \cup T <=> item \in UNION Boxes \/ item \in S \/ item \in T
  OBVIOUS
<1> QED
  BY <1>1, <1>2 DEF Boxes

LEMMA KindOfItem ==
    ASSUME NEW item \in Items
    PROVE  item.kind \in Kinds
  BY DEF Items, Kinds, Event, Brief, Record

\* One item's count goes up by one.
LEMMA Counted ==
    ASSUME NEW f \in [Items -> Nat], NEW item \in Items,
           NEW g, g = [f EXCEPT ![item] = f[item] + 1]
    PROVE  /\ g \in [Items -> Nat]
           /\ \A i \in Items : g[i] = IF i = item THEN f[i] + 1 ELSE f[i]
  OBVIOUS

\* An item is written; nothing else in the tables changes but its own row.
LEMMA IngestTypes ==
    ASSUME TypeOK, NEW item \in Items, Ingest(item)
    PROVE  /\ {stored', handled', briefs'} \subseteq SUBSET Events
           /\ stores' \in [Items -> Nat]
           /\ \A i \in Items : stores'[i] = IF i = item THEN stores[i] + 1 ELSE stores[i]
           /\ handled' = handled
           /\ item.kind = "event" => stored' = stored \cup {item.id}
           /\ item.kind # "event" => stored' = stored
           /\ stored \subseteq stored'
           /\ \A e \in stored' \ stored : item = Event(e)
<1>1. /\ stores \in [Items -> Nat] /\ stored \subseteq Events /\ handled \subseteq Events
      /\ briefs \subseteq Events
  BY DEF TypeOK
<1>2. /\ item.kind \in {"event", "brief", "record"}
      /\ item.kind = "event" => item.id \in Events /\ item = Event(item.id)
      /\ item.kind = "brief" => item.id \in Events
  BY ConstantsOK DEF Items, Event, Brief, Record
<1>3. stores' = [stores EXCEPT ![item] = stores[item] + 1]
  BY DEF Ingest
<1>4. CASE item.kind = "event"
  <2>1. stored' = stored \cup {item.id} /\ handled' = handled /\ briefs' = briefs
    BY <1>4 DEF Ingest, HandledAfterUpsert
  <2> QED
    BY <1>1, <1>2, <1>3, <1>4, <2>1
<1>5. CASE item.kind = "brief"
  <2>1. briefs' = briefs \cup {item.id} /\ stored' = stored /\ handled' = handled
    BY <1>5 DEF Ingest
  <2> QED
    BY <1>1, <1>2, <1>3, <1>5, <2>1
<1>6. CASE item.kind = "record"
  <2>1. stored' = stored /\ handled' = handled /\ briefs' = briefs
    BY <1>6 DEF Ingest, rows
  <2> QED
    BY <1>1, <1>2, <1>3, <1>6, <2>1
<1> QED
  BY <1>2, <1>4, <1>5, <1>6

-----------------------------------------------------------------------------
(***************************************************************************)
(* What a POST does to the entries.                                        *)
(***************************************************************************)
\* The entry being sent is on the robot, and nowhere else on it.
LEMMA EntryWaits ==
    ASSUME TypeOK, PlaceInv, JobInv, Posting
    PROVE  /\ pending \in Seq(Entries) /\ pending # <<>>
           /\ Entry \in Entries /\ Entry.item \in Items /\ Entry.item \in Waiting
           /\ Entry.item \notin ItemsOf(Tail(pending))
           /\ Entry.item \notin ItemsOf(queue)
           /\ \A k \in Kinds : Entry.item \notin ItemsOf(inbox[k])
<1>1. pending \in Seq(Entries) /\ pending # <<>>
  BY DEF TypeOK, JobInv, Posting
<1>2. /\ Entry \in Entries
      /\ ItemsOf(pending) = {Entry.item} \cup ItemsOf(Tail(pending))
      /\ Entry.item \notin ItemsOf(Tail(pending))
  BY <1>1, HeadItems DEF Entry, PlaceInv
<1>3. Entry.item \in Waiting
  BY <1>2, Places DEF Waiting
<1> QED
  BY <1>1, <1>2, <1>3 DEF PlaceInv, Entries

LEMMA SucceededEffect ==
    ASSUME TypeOK, PlaceInv, JobInv, Posting, Succeeded, UNCHANGED inbox
    PROVE  /\ {pending', queue'} \subseteq Seq(Entries) /\ burst' = 0
           /\ job' \in {"idle", "enqueue", "drain"}
           /\ PlaceInv' /\ JobInv'
           /\ Waiting' = Waiting \ {Entry.item}
           /\ lost' = lost
<1>1. /\ pending \in Seq(Entries) /\ pending # <<>> /\ Entry.item \in Waiting
      /\ Entry.item \notin ItemsOf(Tail(pending))
      /\ Entry.item \notin ItemsOf(queue)
      /\ \A k \in Kinds : Entry.item \notin ItemsOf(inbox[k])
  BY EntryWaits
<1>2. /\ Tail(pending) \in Seq(Entries)
      /\ Len(pending) \in Nat /\ Len(Tail(pending)) = Len(pending) - 1
      /\ Tail(pending) = <<>> <=> Len(pending) = 1
      /\ ItemsOf(pending) = {Entry.item} \cup ItemsOf(Tail(pending))
      /\ Distinct(pending) => Distinct(Tail(pending))
  BY <1>1, HeadItems DEF Entry
<1>3. /\ pending' = Tail(pending) /\ burst' = 0
      /\ job' = IF Tail(pending) = <<>> THEN "idle" ELSE job
      /\ queue' = queue /\ lost' = lost /\ inbox' = inbox
  BY DEF Succeeded, NextEntry
<1>4. queue \in Seq(Entries) /\ job \in {"enqueue", "drain"}
  BY DEF TypeOK, Posting
<1>5. PlaceInv'
  BY <1>2, <1>3 DEF PlaceInv
<1>6. JobInv'
  <2>1. Len(queue) \in Nat /\ MaxLen \in Nat
    BY <1>4, LenProperties, ConstantsOK
  <2> QED
    BY <1>2, <1>3, <1>4, <2>1 DEF JobInv
<1>7. \A i : i \in Waiting' <=> i \in Waiting /\ i # Entry.item
  BY <1>1, <1>2, <1>3, Places DEF Waiting
<1>8. Waiting' = Waiting \ {Entry.item}
  BY <1>7
<1> QED
  BY <1>2, <1>3, <1>4, <1>5, <1>6, <1>8

\* A POST that fails gives nothing up but a record, and nothing silently but
\* that.
LEMMA FailedEffect ==
    ASSUME TypeOK, PlaceInv, JobInv, Posting, Failed, UNCHANGED inbox
    PROVE  /\ {pending', queue'} \subseteq Seq(Entries) /\ burst' = 0
           /\ job' \in {"idle", "enqueue", "drain"}
           /\ PlaceInv' /\ JobInv'
           /\ Waiting' \subseteq Waiting
           /\ \A i \in Waiting \ Waiting' :
                i \in lost' \/ (i = Entry.item /\ i.kind \notin PersistentKinds)
           /\ lost \subseteq lost' /\ lost' \subseteq lost \cup Waiting
<1>1. /\ pending \in Seq(Entries) /\ pending # <<>> /\ Entry \in Entries
      /\ Entry.item \in Waiting
      /\ Entry.item \notin ItemsOf(Tail(pending))
      /\ Entry.item \notin ItemsOf(queue)
      /\ \A k \in Kinds : Entry.item \notin ItemsOf(inbox[k])
  BY EntryWaits
<1>2. /\ Tail(pending) \in Seq(Entries)
      /\ Len(pending) \in Nat /\ Len(Tail(pending)) = Len(pending) - 1
      /\ Tail(pending) = <<>> <=> Len(pending) = 1
      /\ ItemsOf(pending) = {Entry.item} \cup ItemsOf(Tail(pending))
      /\ Distinct(pending) => Distinct(Tail(pending))
  BY <1>1, HeadItems DEF Entry
<1>3. /\ pending' = Tail(pending) /\ burst' = 0
      /\ job' = IF Tail(pending) = <<>> THEN "idle" ELSE job
      /\ inbox' = inbox
  BY DEF Failed, NextEntry
<1>4. /\ queue \in Seq(Entries) /\ job \in {"enqueue", "drain"}
      /\ Len(queue) \in Nat /\ MaxLen \in Nat \ {0}
  BY LenProperties, ConstantsOK DEF TypeOK, Posting
<1>5. CASE job = "enqueue" /\ Len(queue) < MaxLen
  <2>1. queue' = Append(queue, Entry) /\ lost' = lost
    BY <1>4, <1>5 DEF Failed, AddEntry
  <2>2. /\ queue' \in Seq(Entries) /\ Len(queue') = Len(queue) + 1
        /\ ItemsOf(queue') = ItemsOf(queue) \cup {Entry.item}
        /\ Distinct(queue) => Distinct(queue')
    BY <1>1, <1>4, <2>1, AppendItems
  <2>3. PlaceInv'
    BY <1>1, <1>2, <1>3, <2>2 DEF PlaceInv
  <2>4. JobInv'
    BY <1>2, <1>3, <1>4, <1>5, <2>2 DEF JobInv
  <2>5. \A i : i \in Waiting' <=> i \in Waiting
    BY <1>2, <1>3, <2>2, Places DEF Waiting
  <2> QED
    BY <1>2, <1>3, <1>4, <2>1, <2>2, <2>3, <2>4, <2>5
<1>6. CASE job = "enqueue" /\ ~(Len(queue) < MaxLen)
  <2>1. queue # <<>>
    BY <1>4, <1>6, EmptySeq
  <2>2. queue' = Append(Tail(queue), Entry) /\ lost' = lost \cup {Head(queue).item}
    BY <1>4, <1>6 DEF Failed, AddEntry
  <2>3. /\ Tail(queue) \in Seq(Entries) /\ Len(Tail(queue)) = Len(queue) - 1
        /\ ItemsOf(queue) = {Head(queue).item} \cup ItemsOf(Tail(queue))
        /\ Distinct(queue) => Distinct(Tail(queue))
    BY <1>4, <2>1, HeadItems
  <2>4. /\ queue' \in Seq(Entries) /\ Len(queue') = Len(queue)
        /\ ItemsOf(queue') = ItemsOf(Tail(queue)) \cup {Entry.item}
        /\ Distinct(Tail(queue)) => Distinct(queue')
    <3> DEFINE rest == Tail(queue)
    <3>1. Entry.item \notin ItemsOf(rest)
      BY <1>1, <2>3
    <3>2. rest \in Seq(Entries) /\ queue' = Append(rest, Entry) /\ Len(rest) = Len(queue) - 1
      BY <2>2, <2>3
    <3> HIDE DEF rest
    <3>3. /\ queue' \in Seq(Entries) /\ Len(queue') = Len(rest) + 1
          /\ ItemsOf(queue') = ItemsOf(rest) \cup {Entry.item}
          /\ Distinct(rest) => Distinct(queue')
      BY <1>1, <3>1, <3>2, AppendItems
    <3> QED
      BY <1>4, <3>2, <3>3 DEF rest
  <2>5. PlaceInv'
    BY <1>1, <1>2, <1>3, <2>3, <2>4 DEF PlaceInv
  <2>6. JobInv'
    BY <1>2, <1>3, <1>4, <1>6, <2>4 DEF JobInv
  <2>7. \A i : /\ i \in Waiting' => i \in Waiting
               /\ i \in Waiting => i \in Waiting' \/ i = Head(queue).item
    BY <1>2, <1>3, <2>3, <2>4, Places DEF Waiting
  <2>8. Head(queue).item \in Waiting
    BY <2>3, Places DEF Waiting
  <2> QED
    BY <1>2, <1>3, <1>4, <2>2, <2>4, <2>5, <2>6, <2>7, <2>8
<1>7. CASE job = "drain" /\ queue' # queue
  <2>1. lost' = lost
    BY <1>7 DEF Failed
  <2>2. PICK x \in Entries : x.item = Entry.item /\ queue' = Append(queue, x)
    <3>1. CASE Entry.item.kind \in PersistentKinds
      BY <1>1, <1>7, <3>1 DEF Failed, Requeue
    <3>2. CASE Entry.item.kind \notin PersistentKinds
      <4> DEFINE x == [Entry EXCEPT !.attempts = @ + 1]
      <4>1. Entry.attempts + 1 < MaxAttempts /\ queue' = Append(queue, x)
        BY <1>7, <3>2 DEF Failed, Requeue
      <4>2. Entry.item \in Items /\ Entry.attempts \in Nat /\ MaxAttempts \in Nat
        BY <1>1, ConstantsOK DEF Entries
      <4>3. Entry.attempts + 1 \in 0 .. MaxAttempts
        BY <4>1, <4>2
      <4>4. x \in Entries /\ x.item = Entry.item
        BY <1>1, <4>2, <4>3 DEF Entries
      <4> QED
        BY <4>1, <4>4
    <3> QED
      BY <3>1, <3>2
  <2>3. /\ queue' \in Seq(Entries) /\ Len(queue') = Len(queue) + 1
        /\ ItemsOf(queue') = ItemsOf(queue) \cup {Entry.item}
        /\ Distinct(queue) => Distinct(queue')
    BY <1>1, <1>4, <2>2, AppendItems
  <2>4. PlaceInv'
    BY <1>1, <1>2, <1>3, <2>3 DEF PlaceInv
  <2>5. JobInv'
    BY <1>2, <1>3, <1>4, <1>7, <2>3 DEF JobInv
  <2>6. \A i : i \in Waiting' <=> i \in Waiting
    BY <1>2, <1>3, <2>3, Places DEF Waiting
  <2> QED
    BY <1>2, <1>3, <1>4, <2>1, <2>3, <2>4, <2>5, <2>6
<1>8. CASE job = "drain" /\ queue' = queue
  <2>1. lost' = lost
    BY <1>8 DEF Failed
  <2>2. Entry.item.kind \notin PersistentKinds
    <3> SUFFICES ASSUME Entry.item.kind \in PersistentKinds PROVE FALSE
      OBVIOUS
    <3>1. queue' = Append(queue, Entry)
      BY <1>8 DEF Failed, Requeue
    <3>2. Len(queue') = Len(queue) + 1
      BY <1>1, <1>4, <3>1, AppendItems
    <3> QED
      BY <1>4, <1>8, <3>2
  <2>3. PlaceInv'
    BY <1>1, <1>2, <1>3, <1>8 DEF PlaceInv
  <2>4. JobInv'
    BY <1>2, <1>3, <1>4, <1>8 DEF JobInv
  <2>5. \A i : /\ i \in Waiting' => i \in Waiting
               /\ i \in Waiting => i \in Waiting' \/ i = Entry.item
    BY <1>2, <1>3, <1>8, Places DEF Waiting
  <2> QED
    BY <1>2, <1>3, <1>4, <1>8, <2>1, <2>2, <2>3, <2>4, <2>5
<1> QED
  BY <1>4, <1>5, <1>6, <1>7, <1>8

-----------------------------------------------------------------------------
(***************************************************************************)
(* The initial state, and one lemma for each kind of step.                 *)
(***************************************************************************)
LEMMA InitUplinkInv == Init => UplinkInv
<1> SUFFICES ASSUME Init PROVE UplinkInv
  OBVIOUS
<1>1. /\ <<>> \in Seq(Entries) /\ Len(<<>>) = 0
      /\ ItemsOf(<<>>) = {} /\ Distinct(<<>>)
  BY EmptyItems, EmptySeq
<1>2. TypeOK
  <2>1. /\ burst \in 0 .. Burst /\ outages \in 0 .. MaxOutages
        /\ restarts \in 0 .. MaxRestarts /\ 0 <= Depth /\ 0 + 0 <= MaxLen + 1
    BY ConstantsOK DEF Init
  <2>2. inbox \in [Kinds -> Seq(Entries)] /\ \A k \in Kinds : inbox[k] = <<>>
    BY <1>1 DEF Init
  <2>3. /\ {pending, queue} \subseteq Seq(Entries)
        /\ Len(pending) + Len(queue) <= MaxLen + 1
        /\ \A k \in Kinds : Len(inbox[k]) <= Depth
    BY <1>1, <2>1, <2>2 DEF Init
  <2>4. {stored, handled, briefs} \subseteq SUBSET Events
    BY DEF Init
  <2>5. {inflight, stores, unanswered} \subseteq [Items -> Nat]
    BY DEF Init
  <2> QED
    BY <2>1, <2>2, <2>3, <2>4, <2>5 DEF Init, TypeOK
<1>3. PlaceInv
  BY <1>1 DEF Init, PlaceInv
<1>4. JobInv
  BY <1>1, ConstantsOK DEF Init, JobInv
<1>5. \A i : i \notin Waiting
  BY <1>1, Places DEF Init, Waiting
<1>6. BudgetInv
  BY <1>5 DEF Init, BudgetInv, One
<1>7. SourceInv /\ RowInv /\ Accounted
  BY <1>5 DEF Init, SourceInv, RowInv, Accounted
<1> QED
  BY <1>2, <1>3, <1>4, <1>6, <1>7 DEF UplinkInv

LEMMA PendingBound ==
    ASSUME NEW p \in Seq(Entries), NEW q \in Seq(Entries),
           NEW j \in {"idle", "enqueue", "drain"},
           j = "idle" <=> p = <<>>,
           j = "enqueue" => Len(p) = 1,
           Len(q) <= MaxLen,
           j = "drain" => Len(p) + Len(q) <= MaxLen
    PROVE  Len(p) + Len(q) <= MaxLen + 1
<1>1. Len(p) \in Nat /\ Len(q) \in Nat /\ MaxLen \in Nat
  BY LenProperties, ConstantsOK
<1>2. CASE j = "idle"
  <2>1. Len(p) = 0
    BY <1>2, EmptySeq
  <2> QED
    BY <1>1, <2>1
<1>3. CASE j = "enqueue"
  <2>1. Len(p) = 1
    BY <1>3
  <2> QED
    BY <1>1, <2>1
<1>4. CASE j = "drain"
  BY <1>1, <1>4
<1> QED
  BY <1>2, <1>3, <1>4

\* An event has an item.
LEMMA EventItem == \A e \in Events : Event(e) \in Items /\ Event(e).kind = "event" /\ Event(e).id = e
  BY DEF Items, Event

LEMMA RowsWritten ==
    ASSUME TypeOK, RowInv, NEW item \in Items, Ingest(item)
    PROVE  RowInv'
<1>1. /\ {stored', handled', briefs'} \subseteq SUBSET Events
      /\ stores' \in [Items -> Nat]
      /\ \A i \in Items : stores'[i] = IF i = item THEN stores[i] + 1 ELSE stores[i]
      /\ handled' = handled /\ stored \subseteq stored'
      /\ \A e \in stored' \ stored : item = Event(e)
  BY IngestTypes
<1>2. handled' \subseteq stored'
  BY <1>1 DEF RowInv
<1>3. ASSUME NEW e \in stored' PROVE stores'[Event(e)] > 0
  <2>1. e \in Events
    BY <1>1
  <2>2. Event(e) \in Items /\ stores[Event(e)] \in Nat
    BY <2>1, EventItem DEF TypeOK
  <2>3. CASE e \in stored
    BY <1>1, <2>2, <2>3 DEF RowInv
  <2>4. CASE e \notin stored
    BY <1>1, <2>2, <2>4
  <2> QED
    BY <2>3, <2>4
<1> QED
  BY <1>2, <1>3 DEF RowInv

\* What the types of a POST's callback come to.
LEMMA CallbackTypes ==
    ASSUME TypeOK, JobInv', {pending', queue'} \subseteq Seq(Entries),
           job' \in {"idle", "enqueue", "drain"}, burst' = 0,
           UNCHANGED <<published, inbox, due, net, outages, restarts>>,
           {stored', handled', briefs'} \subseteq SUBSET Events,
           {inflight', stores', unanswered'} \subseteq [Items -> Nat],
           lost' \subseteq Items
    PROVE  TypeOK'
<1>1. Len(pending') + Len(queue') <= MaxLen + 1
  <2>1. /\ pending' \in Seq(Entries) /\ queue' \in Seq(Entries)
        /\ job' = "idle" <=> pending' = <<>>
        /\ job' = "enqueue" => Len(pending') = 1
        /\ Len(queue') <= MaxLen
        /\ job' = "drain" => Len(pending') + Len(queue') <= MaxLen
    BY DEF JobInv
  <2> QED
    BY <2>1, PendingBound
<1>2. burst' \in 0 .. Burst
  BY ConstantsOK
<1>3. {stored', handled', briefs'} \subseteq SUBSET Events
  BY DEF TypeOK
<1> QED
  BY <1>1, <1>2, <1>3 DEF TypeOK

\* The POST is answered: the entry is gone from the robot, and written once more.
LEMMA PostAnsweredInv ==
    ASSUME UplinkInv, PostAnswered
    PROVE  UplinkInv'
<1> DEFINE it == Entry.item
<1> USE DEF network, bounds
<1>0. TypeOK /\ PlaceInv /\ JobInv /\ BudgetInv /\ SourceInv /\ RowInv /\ Accounted
  BY DEF UplinkInv
<1>1. /\ Posting /\ Ingest(it) /\ Succeeded
      /\ UNCHANGED <<published, inbox, due, net, inflight, unanswered, outages, restarts>>
  BY DEF PostAnswered
<1>2. it \in Items /\ it \in Waiting
  BY <1>0, <1>1, EntryWaits
<1>3. /\ {pending', queue'} \subseteq Seq(Entries) /\ burst' = 0
      /\ job' \in {"idle", "enqueue", "drain"}
      /\ PlaceInv' /\ JobInv'
      /\ Waiting' = Waiting \ {it}
      /\ lost' = lost
  BY <1>0, <1>1, SucceededEffect
<1> HIDE DEF it
<1>4. /\ {stored', handled', briefs'} \subseteq SUBSET Events
      /\ stores' \in [Items -> Nat]
      /\ \A i \in Items : stores'[i] = IF i = it THEN stores[i] + 1 ELSE stores[i]
      /\ handled' = handled /\ stored \subseteq stored'
      /\ \A e \in stored' \ stored : it = Event(e)
  BY <1>0, <1>1, <1>2, IngestTypes
<1>5. {inflight, stores, unanswered} \subseteq [Items -> Nat]
  BY <1>0 DEF TypeOK
<1>6. TypeOK'
  <2>1. {inflight', stores', unanswered'} \subseteq [Items -> Nat] /\ lost' \subseteq Items
    BY <1>0, <1>1, <1>3, <1>4 DEF TypeOK
  <2> QED
    BY <1>0, <1>1, <1>3, <1>4, <2>1, CallbackTypes
<1>7. BudgetInv'
  BY <1>0, <1>1, <1>2, <1>3, <1>4, <1>5 DEF BudgetInv, One
<1>8. SourceInv'
  BY <1>0, <1>1, <1>2, <1>3, <1>4 DEF SourceInv
<1>9. RowInv'
  BY <1>0, <1>1, <1>2, RowsWritten
<1>10. Accounted'
  BY <1>0, <1>1, <1>2, <1>3, <1>4, <1>5 DEF Accounted, Promised
<1> QED
  BY <1>3, <1>6, <1>7, <1>8, <1>9, <1>10 DEF UplinkInv

\* The row is written, the answer lost: one more write is to come.
LEMMA PostUnansweredInv ==
    ASSUME UplinkInv, PostUnanswered
    PROVE  UplinkInv'
<1> DEFINE it == Entry.item
<1> USE DEF network, bounds, counts, rows
<1>0. TypeOK /\ PlaceInv /\ JobInv /\ BudgetInv /\ SourceInv /\ RowInv /\ Accounted
  BY DEF UplinkInv
<1>1. /\ Posting /\ Ingest(it) /\ Failed
      /\ unanswered' = [unanswered EXCEPT ![it] = unanswered[it] + 1]
      /\ UNCHANGED <<published, inbox, due, net, inflight, outages, restarts>>
  BY DEF PostUnanswered, LoseAnswer
<1>2. it \in Items /\ it \in Waiting
  BY <1>0, <1>1, EntryWaits
<1>3. /\ {pending', queue'} \subseteq Seq(Entries) /\ burst' = 0
      /\ job' \in {"idle", "enqueue", "drain"}
      /\ PlaceInv' /\ JobInv'
      /\ Waiting' \subseteq Waiting
      /\ \A i \in Waiting \ Waiting' :
           i \in lost' \/ (i = it /\ i.kind \notin PersistentKinds)
      /\ lost \subseteq lost' /\ lost' \subseteq lost \cup Waiting
  BY <1>0, <1>1, FailedEffect
<1> HIDE DEF it
<1>4. /\ {stored', handled', briefs'} \subseteq SUBSET Events
      /\ stores' \in [Items -> Nat]
      /\ \A i \in Items : stores'[i] = IF i = it THEN stores[i] + 1 ELSE stores[i]
  BY <1>0, <1>1, <1>2, IngestTypes
<1>5. {inflight, stores, unanswered} \subseteq [Items -> Nat] /\ published \subseteq Items
  BY <1>0 DEF TypeOK
<1>11. /\ unanswered' \in [Items -> Nat]
       /\ \A i \in Items :
            unanswered'[i] = IF i = it THEN unanswered[i] + 1 ELSE unanswered[i]
  BY <1>1, <1>2, <1>5, Counted
<1>6. TypeOK'
  <2>1. {inflight', stores', unanswered'} \subseteq [Items -> Nat] /\ lost' \subseteq Items
    BY <1>0, <1>1, <1>2, <1>3, <1>4, <1>5, <1>11 DEF TypeOK, SourceInv
  <2> QED
    BY <1>0, <1>1, <1>3, <1>4, <2>1, CallbackTypes
<1>7. BudgetInv'
  BY <1>0, <1>1, <1>2, <1>3, <1>4, <1>5, <1>11 DEF BudgetInv, One
<1>8. SourceInv'
  BY <1>0, <1>1, <1>2, <1>3, <1>4 DEF SourceInv
<1>9. RowInv'
  BY <1>0, <1>1, <1>2, RowsWritten
<1>10. Accounted'
  BY <1>0, <1>1, <1>2, <1>3, <1>4, <1>5 DEF Accounted, Promised, PersistentKinds
<1> QED
  BY <1>3, <1>6, <1>7, <1>8, <1>9, <1>10 DEF UplinkInv

\* The robot gives up on a request that the backend is still to see.
LEMMA PostTimesOutInv ==
    ASSUME UplinkInv, PostTimesOut
    PROVE  UplinkInv'
<1> DEFINE it == Entry.item
<1> USE DEF network, bounds, counts, rows
<1>0. TypeOK /\ PlaceInv /\ JobInv /\ BudgetInv /\ SourceInv /\ RowInv /\ Accounted
  BY DEF UplinkInv
<1>1. /\ Posting /\ Failed
      /\ unanswered' = [unanswered EXCEPT ![it] = unanswered[it] + 1]
      /\ inflight' = [inflight EXCEPT ![it] = inflight[it] + 1]
      /\ UNCHANGED <<published, inbox, due, net, stored, handled, briefs, stores,
                     outages, restarts>>
  BY DEF PostTimesOut, LoseAnswer
<1>2. it \in Items /\ it \in Waiting
  BY <1>0, <1>1, EntryWaits
<1>3. /\ {pending', queue'} \subseteq Seq(Entries) /\ burst' = 0
      /\ job' \in {"idle", "enqueue", "drain"}
      /\ PlaceInv' /\ JobInv'
      /\ Waiting' \subseteq Waiting
      /\ \A i \in Waiting \ Waiting' :
           i \in lost' \/ (i = it /\ i.kind \notin PersistentKinds)
      /\ lost \subseteq lost' /\ lost' \subseteq lost \cup Waiting
  BY <1>0, <1>1, FailedEffect
<1> HIDE DEF it
<1>4. {inflight, stores, unanswered} \subseteq [Items -> Nat] /\ published \subseteq Items
  BY <1>0 DEF TypeOK
<1>10. /\ {inflight', unanswered'} \subseteq [Items -> Nat]
       /\ \A i \in Items :
            /\ unanswered'[i] = IF i = it THEN unanswered[i] + 1 ELSE unanswered[i]
            /\ inflight'[i] = IF i = it THEN inflight[i] + 1 ELSE inflight[i]
  BY <1>1, <1>2, <1>4, Counted
<1>5. TypeOK'
  <2>1. /\ {inflight', stores', unanswered'} \subseteq [Items -> Nat]
        /\ {stored', handled', briefs'} \subseteq SUBSET Events
        /\ lost' \subseteq Items
    BY <1>0, <1>1, <1>2, <1>3, <1>4, <1>10 DEF TypeOK, SourceInv
  <2> QED
    BY <1>0, <1>1, <1>3, <2>1, CallbackTypes
<1>6. BudgetInv'
  BY <1>0, <1>1, <1>2, <1>3, <1>4, <1>10 DEF BudgetInv, One
<1>7. SourceInv'
  BY <1>0, <1>1, <1>2, <1>3, <1>10 DEF SourceInv
<1>8. RowInv'
  BY <1>0, <1>1 DEF RowInv
<1>9. Accounted'
  BY <1>0, <1>1, <1>2, <1>3, <1>4, <1>10 DEF Accounted, Promised, PersistentKinds
<1> QED
  BY <1>3, <1>5, <1>6, <1>7, <1>8, <1>9 DEF UplinkInv

\* The backend is out of reach.
LEMMA PostFailsInv ==
    ASSUME UplinkInv, PostFails
    PROVE  UplinkInv'
<1> DEFINE it == Entry.item
<1> USE DEF network, bounds, counts, rows
<1>0. TypeOK /\ PlaceInv /\ JobInv /\ BudgetInv /\ SourceInv /\ RowInv /\ Accounted
  BY DEF UplinkInv
<1>1. /\ Posting /\ Failed
      /\ UNCHANGED <<published, inbox, due, net, inflight, stored, handled, briefs,
                     stores, unanswered, outages, restarts>>
  BY DEF PostFails
<1>2. it \in Items /\ it \in Waiting
  BY <1>0, <1>1, EntryWaits
<1>3. /\ {pending', queue'} \subseteq Seq(Entries) /\ burst' = 0
      /\ job' \in {"idle", "enqueue", "drain"}
      /\ PlaceInv' /\ JobInv'
      /\ Waiting' \subseteq Waiting
      /\ \A i \in Waiting \ Waiting' :
           i \in lost' \/ (i = it /\ i.kind \notin PersistentKinds)
      /\ lost \subseteq lost' /\ lost' \subseteq lost \cup Waiting
  BY <1>0, <1>1, FailedEffect
<1> HIDE DEF it
<1>4. {inflight, stores, unanswered} \subseteq [Items -> Nat] /\ published \subseteq Items
  BY <1>0 DEF TypeOK
<1>5. TypeOK'
  <2>1. /\ {inflight', stores', unanswered'} \subseteq [Items -> Nat]
        /\ {stored', handled', briefs'} \subseteq SUBSET Events
        /\ lost' \subseteq Items
    BY <1>0, <1>1, <1>3, <1>4 DEF TypeOK, SourceInv
  <2> QED
    BY <1>0, <1>1, <1>3, <2>1, CallbackTypes
<1>6. BudgetInv'
  BY <1>0, <1>1, <1>3, <1>4 DEF BudgetInv, One
<1>7. SourceInv' /\ RowInv'
  BY <1>0, <1>1, <1>3 DEF SourceInv, RowInv
<1>8. Accounted'
  BY <1>0, <1>1, <1>3 DEF Accounted, Promised, PersistentKinds
<1> QED
  BY <1>3, <1>5, <1>6, <1>7, <1>8 DEF UplinkInv

\* A request the robot has given up on is processed after all.
LEMMA LateRequestInv ==
    ASSUME UplinkInv, NEW item \in Items, LateRequest(item)
    PROVE  UplinkInv'
<1> USE DEF network, bounds, counts, rows, robot
<1>0. TypeOK /\ PlaceInv /\ JobInv /\ BudgetInv /\ SourceInv /\ RowInv /\ Accounted
  BY DEF UplinkInv
<1>1. /\ Ingest(item) /\ inflight[item] > 0
      /\ inflight' = [inflight EXCEPT ![item] = inflight[item] - 1]
      /\ UNCHANGED <<published, burst, inbox, job, pending, queue, due, net, unanswered,
                     lost, outages, restarts>>
  BY DEF LateRequest
<1>3. /\ {stored', handled', briefs'} \subseteq SUBSET Events
      /\ stores' \in [Items -> Nat]
      /\ \A i \in Items : stores'[i] = IF i = item THEN stores[i] + 1 ELSE stores[i]
  BY <1>0, <1>1, IngestTypes
<1>4. {inflight, stores, unanswered} \subseteq [Items -> Nat] /\ published \subseteq Items
  BY <1>0 DEF TypeOK
<1>2. /\ inflight' \in [Items -> Nat]
      /\ \A i \in Items : inflight'[i] = IF i = item THEN inflight[i] - 1 ELSE inflight[i]
  BY <1>1, <1>4
<1>5. TypeOK'
  <2>1. {stored', handled', briefs'} \subseteq SUBSET Events
    BY <1>0, <1>1, <1>3 DEF TypeOK
  <2> QED
    BY <1>0, <1>1, <1>2, <1>3, <1>4, <2>1 DEF TypeOK
<1>6. Waiting' = Waiting
  BY <1>1 DEF Waiting
<1>7. PlaceInv' /\ JobInv'
  BY <1>0, <1>1 DEF PlaceInv, JobInv
<1>8. BudgetInv'
  BY <1>0, <1>1, <1>2, <1>3, <1>4, <1>6 DEF BudgetInv, One
<1>9. SourceInv'
  BY <1>0, <1>1, <1>2, <1>3, <1>4, <1>6 DEF SourceInv
<1>10. RowInv'
  BY <1>0, <1>1, RowsWritten
<1>11. Accounted'
  BY <1>0, <1>1, <1>2, <1>3, <1>4, <1>6 DEF Accounted, Promised
<1> QED
  BY <1>5, <1>7, <1>8, <1>9, <1>10, <1>11 DEF UplinkInv

\* A full subscription drops its oldest entry for a new one.
LEMMA PushItems ==
    ASSUME NEW box \in Seq(Entries), NEW x \in Entries, NEW full, NEW t,
           Len(box) <= Depth, full <=> Len(box) = Depth,
           t = Append(IF full THEN Tail(box) ELSE box, x)
    PROVE  /\ t \in Seq(Entries) /\ Len(t) <= Depth
           /\ ItemsOf(t) \subseteq ItemsOf(box) \cup {x.item}
           /\ x.item \in ItemsOf(t)
           /\ \A i \in ItemsOf(box) \ ItemsOf(t) : full /\ i = Head(box).item
           /\ full => Head(box).item \in ItemsOf(box)
           /\ Distinct(box) /\ x.item \notin ItemsOf(box) => Distinct(t)
<1>1. Len(box) \in Nat /\ Depth \in Nat \ {0}
  BY LenProperties, ConstantsOK
<1>2. CASE full
  <2> DEFINE rest == Tail(box)
  <2>1. box # <<>>
    BY <1>1, <1>2, EmptySeq
  <2>2. /\ rest \in Seq(Entries) /\ Len(rest) = Len(box) - 1
        /\ ItemsOf(box) = {Head(box).item} \cup ItemsOf(rest)
        /\ Distinct(box) => Distinct(rest)
    BY <2>1, HeadItems
  <2>3. t = Append(rest, x)
    BY <1>2
  <2> HIDE DEF rest
  <2>4. /\ t \in Seq(Entries) /\ Len(t) = Len(rest) + 1
        /\ ItemsOf(t) = ItemsOf(rest) \cup {x.item}
        /\ Distinct(rest) /\ x.item \notin ItemsOf(rest) => Distinct(t)
    BY <2>2, <2>3, AppendItems
  <2>5. Len(t) <= Depth
    BY <1>1, <1>2, <2>2, <2>4
  <2> QED
    BY <1>2, <2>2, <2>4, <2>5
<1>3. CASE ~full
  <2>1. t = Append(box, x)
    BY <1>3
  <2>2. /\ t \in Seq(Entries) /\ Len(t) = Len(box) + 1
        /\ ItemsOf(t) = ItemsOf(box) \cup {x.item}
        /\ Distinct(box) /\ x.item \notin ItemsOf(box) => Distinct(t)
    BY <2>1, AppendItems
  <2>3. Len(t) <= Depth
    BY <1>1, <1>3, <2>2
  <2> QED
    BY <1>3, <2>2, <2>3
<1> QED
  BY <1>2, <1>3

\* A node publishes an item that was nowhere before.
LEMMA PublishInv ==
    ASSUME UplinkInv, NEW item \in Items, Publish(item)
    PROVE  UplinkInv'
<1> USE DEF network, bounds, counts, rows, robot
<1>0. TypeOK /\ PlaceInv /\ JobInv /\ BudgetInv /\ SourceInv /\ RowInv /\ Accounted
  BY DEF UplinkInv
<1> DEFINE k0 == item.kind
           box == inbox[k0]
           full == Len(box) = Depth
           x == [item |-> item, attempts |-> 0]
           t == Append(IF full THEN Tail(box) ELSE box, x)
<1>1. /\ item \notin published /\ published' = published \cup {item}
      /\ burst' = burst \/ (burst < Burst /\ burst' = burst + 1)
      /\ inbox' = [inbox EXCEPT ![k0] = t]
      /\ lost' = IF full THEN lost \cup {Head(box).item} ELSE lost
      /\ UNCHANGED <<job, pending, queue, due, net, inflight, stored, handled, briefs,
                     stores, unanswered, outages, restarts>>
  BY DEF Publish
<1>2. k0 \in Kinds /\ x \in Entries /\ x.item = item
  BY KindOfItem, ConstantsOK DEF Entries
<1>3. box \in Seq(Entries) /\ Len(box) <= Depth /\ inbox \in [Kinds -> Seq(Entries)]
  BY <1>0, <1>2 DEF TypeOK
<1>4. /\ t \in Seq(Entries) /\ Len(t) <= Depth
      /\ ItemsOf(t) \subseteq ItemsOf(box) \cup {item}
      /\ item \in ItemsOf(t)
      /\ \A i \in ItemsOf(box) \ ItemsOf(t) : full /\ i = Head(box).item
      /\ full => Head(box).item \in ItemsOf(box)
      /\ Distinct(box) /\ item \notin ItemsOf(box) => Distinct(t)
  <2>1. full <=> Len(box) = Depth
    OBVIOUS
  <2>2. t = Append(IF full THEN Tail(box) ELSE box, x)
    OBVIOUS
  <2> HIDE DEF box, full, x, t
  <2> QED
    BY <1>2, <1>3, <2>1, <2>2, PushItems
<1>5. ItemsOf(box) \subseteq Items
  BY <1>3, EntryItem
<1> HIDE DEF full, x, t
<1>6. /\ inbox' \in [Kinds -> Seq(Entries)]
      /\ \A k \in Kinds : inbox'[k] = IF k = k0 THEN t ELSE inbox[k]
  BY <1>1, <1>2, <1>3, <1>4
<1>7. item \notin Waiting /\ inflight[item] = 0 /\ stores[item] = 0
  BY <1>0, <1>1 DEF SourceInv
<1>8. /\ \A k \in Kinds : item \notin ItemsOf(inbox[k])
      /\ item \notin ItemsOf(pending) /\ item \notin ItemsOf(queue)
  BY <1>7, Places DEF Waiting
<1>9. /\ \A i \in Waiting' : i \in Waiting \/ i = item
      /\ \A i \in Waiting : i \in Waiting' \/ i \in lost'
      /\ item \in Waiting'
  <2>1. ASSUME NEW i
        PROVE  /\ i \in Waiting' => i \in Waiting \/ i = item
               /\ i \in Waiting => i \in Waiting' \/ (full /\ i = Head(box).item)
               /\ item \in Waiting'
    <3>1. i \in Waiting' <=> (\E k \in Kinds : i \in ItemsOf(inbox'[k]))
                               \/ i \in ItemsOf(pending) \/ i \in ItemsOf(queue)
      BY <1>1, Places DEF Waiting
    <3>2. item \in Waiting' <=> (\E k \in Kinds : item \in ItemsOf(inbox'[k]))
                               \/ item \in ItemsOf(pending) \/ item \in ItemsOf(queue)
      BY <1>1, Places DEF Waiting
    <3>3. i \in Waiting <=> (\E k \in Kinds : i \in ItemsOf(inbox[k]))
                               \/ i \in ItemsOf(pending) \/ i \in ItemsOf(queue)
      BY Places DEF Waiting
    <3> QED
      BY <1>2, <1>4, <1>6, <3>1, <3>2, <3>3
  <2> QED
    BY <1>1, <2>1
<1>10. TypeOK'
  <2>1. burst' \in 0 .. Burst
    BY <1>0, <1>1, ConstantsOK DEF TypeOK
  <2>2. lost' \subseteq Items /\ published' \subseteq Items
    BY <1>0, <1>1, <1>4, <1>5 DEF TypeOK
  <2>3. \A k \in Kinds : Len(inbox'[k]) <= Depth
    BY <1>0, <1>4, <1>6 DEF TypeOK
  <2> QED
    BY <1>0, <1>1, <1>6, <2>1, <2>2, <2>3 DEF TypeOK
<1>11. PlaceInv'
  BY <1>0, <1>1, <1>2, <1>4, <1>6, <1>8 DEF PlaceInv
<1>12. JobInv'
  BY <1>0, <1>1 DEF JobInv
<1>13. BudgetInv'
  <2> SUFFICES ASSUME NEW i \in Items
               PROVE  stores[i] + inflight[i] + One(i \in Waiting') <= 1 + unanswered[i]
    BY <1>1 DEF BudgetInv
  <2>1. stores[i] \in Nat /\ inflight[i] \in Nat /\ unanswered[i] \in Nat
    BY <1>0 DEF TypeOK
  <2>2. CASE i = item
    BY <1>7, <2>1, <2>2 DEF One
  <2>3. CASE i # item
    <3>1. i \in Waiting' => i \in Waiting
      BY <1>9, <2>3
    <3> QED
      BY <1>0, <2>1, <3>1 DEF BudgetInv, One
  <2> QED
    BY <2>2, <2>3
<1>14. SourceInv' /\ RowInv'
  BY <1>0, <1>1, <1>9 DEF SourceInv, RowInv
<1>15. Accounted'
  BY <1>0, <1>1, <1>9 DEF Accounted
<1> QED
  BY <1>10, <1>11, <1>12, <1>13, <1>14, <1>15 DEF UplinkInv

LEMMA OneItem ==
    ASSUME NEW x \in Entries
    PROVE  /\ <<x>> \in Seq(Entries) /\ Len(<<x>>) = 1 /\ <<x>> # <<>>
           /\ ItemsOf(<<x>>) = {x.item} /\ Distinct(<<x>>)
<1>1. <<>> \in Seq(Entries) /\ Len(<<>>) = 0 /\ Append(<<>>, x) = <<x>>
  BY EmptySeq
<1> QED
  BY <1>1, AppendItems, EmptyItems

\* A message goes from its subscription to the callback.
LEMMA TakeInv ==
    ASSUME UplinkInv, NEW k \in Kinds, Take(k)
    PROVE  UplinkInv'
<1> USE DEF network, bounds, counts, rows, robot
<1>0. TypeOK /\ PlaceInv /\ JobInv /\ BudgetInv /\ SourceInv /\ RowInv /\ Accounted
  BY DEF UplinkInv
<1> DEFINE box == inbox[k]
           x == Head(box)
           t == Tail(box)
<1>1. /\ job = "idle" /\ job' = "enqueue" /\ box # <<>>
      /\ pending' = <<x>> /\ inbox' = [inbox EXCEPT ![k] = t]
      /\ due' = due \ {k}
      /\ UNCHANGED <<published, burst, queue, net, inflight, stored, handled, briefs,
                     stores, unanswered, lost, outages, restarts>>
  BY DEF Take
<1>2. box \in Seq(Entries) /\ Len(box) <= Depth /\ inbox \in [Kinds -> Seq(Entries)]
  BY <1>0 DEF TypeOK
<1>3. /\ x \in Entries /\ t \in Seq(Entries)
      /\ Len(box) \in Nat /\ Len(t) = Len(box) - 1
      /\ ItemsOf(box) = {x.item} \cup ItemsOf(t)
      /\ Distinct(box) => Distinct(t) /\ x.item \notin ItemsOf(t)
  BY <1>1, <1>2, HeadItems
<1>4. Len(t) <= Depth
  BY <1>2, <1>3, ConstantsOK
<1> HIDE DEF box, x, t
<1>5. /\ pending' \in Seq(Entries) /\ Len(pending') = 1 /\ pending' # <<>>
      /\ ItemsOf(pending') = {x.item} /\ Distinct(pending')
  BY <1>1, <1>3, OneItem
<1>6. /\ inbox' \in [Kinds -> Seq(Entries)]
      /\ \A j \in Kinds : inbox'[j] = IF j = k THEN t ELSE inbox[j]
  BY <1>1, <1>2, <1>3
<1>7. ItemsOf(pending) = {}
  BY <1>0, <1>1, EmptyItems DEF JobInv
<1>8. /\ \A j \in Kinds : /\ Distinct(inbox[j])
                          /\ \A i \in ItemsOf(inbox[j]) : i.kind = j
                          /\ ItemsOf(inbox[j]) \cap ItemsOf(queue) = {}
      /\ Distinct(queue)
  BY <1>0 DEF PlaceInv
<1>9. box = inbox[k]
  BY DEF box
<1>10. TypeOK'
  <2>1. \A j \in Kinds : Len(inbox'[j]) <= Depth
    BY <1>0, <1>4, <1>6 DEF TypeOK
  <2>2. Len(pending') + Len(queue') <= MaxLen + 1
    <3>1. Len(queue) <= MaxLen /\ Len(queue) \in Nat /\ MaxLen \in Nat
      BY <1>0, LenProperties, ConstantsOK DEF JobInv, TypeOK
    <3> QED
      BY <1>1, <1>5, <3>1
  <2>3. {pending', queue'} \subseteq Seq(Entries)
    BY <1>0, <1>1, <1>5 DEF TypeOK
  <2> QED
    BY <1>0, <1>1, <1>6, <2>1, <2>2, <2>3 DEF TypeOK
<1>11. PlaceInv'
  <2>1. \A j \in Kinds : /\ ItemsOf(inbox'[j]) \subseteq ItemsOf(inbox[j])
                         /\ x.item \notin ItemsOf(inbox'[j])
                         /\ Distinct(inbox'[j])
    <3>1. x.item.kind = k
      BY <1>3, <1>8, <1>9
    <3> SUFFICES ASSUME NEW j \in Kinds
                 PROVE  /\ ItemsOf(inbox'[j]) \subseteq ItemsOf(inbox[j])
                        /\ x.item \notin ItemsOf(inbox'[j])
                        /\ Distinct(inbox'[j])
      OBVIOUS
    <3>2. CASE j = k
      <4>1. inbox'[j] = t /\ inbox[j] = box /\ Distinct(box)
        BY <1>6, <1>8, <1>9, <3>2
      <4> QED
        BY <1>3, <4>1
    <3>3. CASE j # k
      <4>1. inbox'[j] = inbox[j]
        BY <1>6, <3>3
      <4>2. x.item \notin ItemsOf(inbox[j])
        BY <1>8, <3>1, <3>3
      <4> QED
        BY <1>8, <4>1, <4>2
    <3> QED
      BY <3>2, <3>3
  <2>2. x.item \notin ItemsOf(queue)
    BY <1>3, <1>8, <1>9
  <2> QED
    BY <1>1, <1>5, <1>8, <2>1, <2>2 DEF PlaceInv
<1>12. JobInv'
  BY <1>0, <1>1, <1>5 DEF JobInv
<1>13. Waiting' = Waiting
  <2>1. ASSUME NEW i PROVE i \in Waiting' <=> i \in Waiting
    <3>1. i \in Waiting' <=> (\E j \in Kinds : i \in ItemsOf(inbox'[j]))
                               \/ i \in ItemsOf(pending') \/ i \in ItemsOf(queue')
      BY Places DEF Waiting
    <3>2. i \in Waiting <=> (\E j \in Kinds : i \in ItemsOf(inbox[j]))
                               \/ i \in ItemsOf(pending) \/ i \in ItemsOf(queue)
      BY Places DEF Waiting
    <3> QED
      BY <1>1, <1>3, <1>5, <1>6, <1>7, <1>9, <3>1, <3>2
  <2> QED
    BY <2>1
<1>14. BudgetInv' /\ SourceInv' /\ RowInv' /\ Accounted'
  BY <1>0, <1>1, <1>13 DEF BudgetInv, SourceInv, RowInv, Accounted
<1> QED
  BY <1>10, <1>11, <1>12, <1>14 DEF UplinkInv

\* drain takes the whole queue.
LEMMA StartDrainInv ==
    ASSUME UplinkInv, StartDrain
    PROVE  UplinkInv'
<1> USE DEF network, bounds, counts, rows, robot
<1>0. TypeOK /\ PlaceInv /\ JobInv /\ BudgetInv /\ SourceInv /\ RowInv /\ Accounted
  BY DEF UplinkInv
<1>1. /\ job = "idle" /\ job' = "drain" /\ queue # <<>>
      /\ pending' = queue /\ queue' = <<>>
      /\ due' \subseteq Kinds
      /\ UNCHANGED <<published, burst, inbox, net, inflight, stored, handled, briefs,
                     stores, unanswered, lost, outages, restarts>>
  BY DEF StartDrain, Undrained
<1>2. /\ pending = <<>> /\ ItemsOf(<<>>) = {} /\ Distinct(<<>>)
      /\ <<>> \in Seq(Entries) /\ Len(<<>>) = 0
  BY <1>0, <1>1, EmptyItems, EmptySeq DEF JobInv
<1>3. queue \in Seq(Entries) /\ Len(queue) \in Nat /\ Len(queue) <= MaxLen /\ MaxLen \in Nat
  BY <1>0, LenProperties, ConstantsOK DEF JobInv, TypeOK
<1>4. TypeOK'
  <2>1. Len(pending') + Len(queue') <= MaxLen + 1
    BY <1>1, <1>2, <1>3
  <2>2. {pending', queue'} \subseteq Seq(Entries)
    BY <1>1, <1>2, <1>3
  <2> QED
    BY <1>0, <1>1, <2>1, <2>2 DEF TypeOK
<1>5. PlaceInv'
  BY <1>0, <1>1, <1>2 DEF PlaceInv
<1>6. JobInv'
  BY <1>1, <1>2, <1>3 DEF JobInv
<1>7. \A i : i \in Waiting' <=> i \in Waiting
  BY <1>1, <1>2, Places DEF Waiting
<1>8. Waiting' = Waiting
  BY <1>7
<1>9. BudgetInv' /\ SourceInv' /\ RowInv' /\ Accounted'
  BY <1>0, <1>1, <1>8 DEF BudgetInv, SourceInv, RowInv, Accounted
<1> QED
  BY <1>4, <1>5, <1>6, <1>9 DEF UplinkInv

\* The network goes and comes back.
LEMMA NetInv ==
    ASSUME UplinkInv, NetDown \/ NetUp
    PROVE  UplinkInv'
<1> USE DEF network, bounds, counts, rows, robot
<1>0. TypeOK /\ PlaceInv /\ JobInv /\ BudgetInv /\ SourceInv /\ RowInv /\ Accounted
  BY DEF UplinkInv
<1>1. /\ net' \in {"up", "down"} /\ outages' \in 0 .. MaxOutages
      /\ UNCHANGED <<published, burst, inbox, job, pending, queue, due, inflight, stored,
                     handled, briefs, stores, unanswered, lost, restarts>>
  BY <1>0, ConstantsOK DEF NetDown, NetUp, TypeOK
<1>2. TypeOK' /\ PlaceInv' /\ JobInv'
  BY <1>0, <1>1 DEF TypeOK, PlaceInv, JobInv
<1>3. Waiting' = Waiting
  BY <1>1 DEF Waiting
<1>4. BudgetInv' /\ SourceInv' /\ RowInv' /\ Accounted'
  BY <1>0, <1>1, <1>3 DEF BudgetInv, SourceInv, RowInv, Accounted
<1> QED
  BY <1>2, <1>4 DEF UplinkInv

\* A restart forgets what the robot still held, and says so in lost.
LEMMA RestartInv ==
    ASSUME UplinkInv, Restart
    PROVE  UplinkInv'
<1> USE DEF network, bounds, counts, rows, robot
<1>0. TypeOK /\ PlaceInv /\ JobInv /\ BudgetInv /\ SourceInv /\ RowInv /\ Accounted
  BY DEF UplinkInv
<1>1. /\ restarts' \in 0 .. MaxRestarts
      /\ lost' = lost \cup Waiting
      /\ inbox' = [k \in Kinds |-> <<>>]
      /\ job' = "idle" /\ pending' = <<>> /\ queue' = <<>> /\ burst' = 0 /\ due' = {}
      /\ UNCHANGED <<published, net, inflight, stored, handled, briefs, stores,
                     unanswered, outages>>
  BY <1>0, ConstantsOK DEF Restart, TypeOK
<1>2. /\ ItemsOf(<<>>) = {} /\ Distinct(<<>>)
      /\ <<>> \in Seq(Entries) /\ Len(<<>>) = 0
  BY EmptyItems, EmptySeq
<1>3. inbox' \in [Kinds -> Seq(Entries)] /\ \A k \in Kinds : inbox'[k] = <<>>
  BY <1>1, <1>2
<1>4. TypeOK'
  <2>1. /\ {pending', queue'} \subseteq Seq(Entries)
        /\ Len(pending') + Len(queue') <= MaxLen + 1
        /\ \A k \in Kinds : Len(inbox'[k]) <= Depth
        /\ burst' \in 0 .. Burst
    BY <1>1, <1>2, <1>3, ConstantsOK
  <2>2. lost' \subseteq Items
    BY <1>0, <1>1 DEF TypeOK, SourceInv
  <2> QED
    BY <1>0, <1>1, <1>3, <2>1, <2>2 DEF TypeOK
<1>5. PlaceInv'
  BY <1>1, <1>2, <1>3 DEF PlaceInv
<1>6. JobInv'
  BY <1>1, <1>2, ConstantsOK DEF JobInv
<1>7. \A i : i \notin Waiting'
  <2>1. ASSUME NEW i PROVE i \notin Waiting'
    <3>1. i \in Waiting' <=> (\E j \in Kinds : i \in ItemsOf(inbox'[j]))
                               \/ i \in ItemsOf(pending') \/ i \in ItemsOf(queue')
      BY Places DEF Waiting
    <3> QED
      BY <1>1, <1>2, <1>3, <3>1
  <2> QED
    BY <2>1
<1>8. BudgetInv'
  <2> SUFFICES ASSUME NEW i \in Items
               PROVE  stores[i] + inflight[i] + One(i \in Waiting') <= 1 + unanswered[i]
    BY <1>1 DEF BudgetInv
  <2>1. stores[i] \in Nat /\ inflight[i] \in Nat /\ unanswered[i] \in Nat
    BY <1>0 DEF TypeOK
  <2>2. stores[i] + inflight[i] + One(i \in Waiting) <= 1 + unanswered[i]
    BY <1>0 DEF BudgetInv
  <2> QED
    BY <1>7, <2>1, <2>2 DEF One
<1>9. SourceInv' /\ RowInv' /\ Accounted'
  BY <1>0, <1>1, <1>7 DEF SourceInv, RowInv, Accounted
<1> QED
  BY <1>4, <1>5, <1>6, <1>8, <1>9 DEF UplinkInv

\* The manager handles an event, the sweep deletes some.
LEMMA HandleInv ==
    ASSUME UplinkInv, NEW e \in Events, Handle(e)
    PROVE  UplinkInv'
<1> USE DEF network, bounds, counts, rows, robot
<1>0. TypeOK /\ PlaceInv /\ JobInv /\ BudgetInv /\ SourceInv /\ RowInv /\ Accounted
  BY DEF UplinkInv
<1>1. /\ e \in stored /\ handled' = handled \cup {e}
      /\ UNCHANGED <<published, burst, inbox, job, pending, queue, due, net, inflight,
                     stored, briefs, stores, unanswered, lost, outages, restarts>>
  BY DEF Handle
<1>2. TypeOK'
  <2>1. {stored', handled', briefs'} \subseteq SUBSET Events
    BY <1>0, <1>1 DEF TypeOK
  <2> QED
    BY <1>0, <1>1, <2>1 DEF TypeOK
<1>3. PlaceInv' /\ JobInv' /\ RowInv'
  BY <1>0, <1>1 DEF PlaceInv, JobInv, RowInv
<1>4. Waiting' = Waiting
  BY <1>1 DEF Waiting
<1>5. BudgetInv' /\ SourceInv' /\ Accounted'
  BY <1>0, <1>1, <1>4 DEF BudgetInv, SourceInv, Accounted
<1> QED
  BY <1>2, <1>3, <1>5 DEF UplinkInv

LEMMA PurgeInv ==
    ASSUME UplinkInv, NEW old \in SUBSET handled, Purge(old)
    PROVE  UplinkInv'
<1> USE DEF network, bounds, counts, rows, robot
<1>0. TypeOK /\ PlaceInv /\ JobInv /\ BudgetInv /\ SourceInv /\ RowInv /\ Accounted
  BY DEF UplinkInv
<1>1. /\ stored' = stored \ old /\ handled' = handled \ old
      /\ briefs' = briefs \ old
      /\ UNCHANGED <<published, burst, inbox, job, pending, queue, due, net, inflight,
                     stores, unanswered, lost, outages, restarts>>
  BY DEF Purge
<1>2. TypeOK'
  <2>1. {stored', handled', briefs'} \subseteq SUBSET Events
    BY <1>0, <1>1 DEF TypeOK
  <2> QED
    BY <1>0, <1>1, <2>1 DEF TypeOK
<1>3. PlaceInv' /\ JobInv' /\ RowInv'
  BY <1>0, <1>1 DEF PlaceInv, JobInv, RowInv
<1>4. Waiting' = Waiting
  BY <1>1 DEF Waiting
<1>5. BudgetInv' /\ SourceInv' /\ Accounted'
  BY <1>0, <1>1, <1>4 DEF BudgetInv, SourceInv, Accounted
<1> QED
  BY <1>2, <1>3, <1>5 DEF UplinkInv

LEMMA UplinkInvPreserved == UplinkInv /\ [Next]_vars => UplinkInv'
<1> SUFFICES ASSUME UplinkInv, [Next]_vars PROVE UplinkInv'
  OBVIOUS
<1>1. CASE \E item \in Items : Publish(item)
  BY <1>1, PublishInv
<1>2. CASE \E k \in Kinds : Take(k)
  BY <1>2, TakeInv
<1>3. CASE StartDrain
  BY <1>3, StartDrainInv
<1>4. CASE Post
  BY <1>4, PostAnsweredInv, PostUnansweredInv, PostTimesOutInv, PostFailsInv DEF Post
<1>5. CASE \E item \in Items : LateRequest(item)
  BY <1>5, LateRequestInv
<1>6. CASE NetDown \/ NetUp
  BY <1>6, NetInv
<1>7. CASE Restart
  BY <1>7, RestartInv
<1>8. CASE \E e \in Events : Handle(e)
  BY <1>8, HandleInv
<1>9. CASE \E old \in SUBSET handled : Purge(old)
  BY <1>9, PurgeInv
<1>10. CASE UNCHANGED vars
  <2>1. Waiting' = Waiting
    BY <1>10 DEF vars, robot, Waiting
  <2> QED
    BY <1>10, <2>1 DEF vars, robot, network, rows, counts, bounds, UplinkInv, TypeOK,
       PlaceInv, JobInv, BudgetInv, SourceInv, RowInv, Accounted
<1> QED
  BY <1>1, <1>2, <1>3, <1>4, <1>5, <1>6, <1>7, <1>8, <1>9, <1>10 DEF Next

-----------------------------------------------------------------------------
(***************************************************************************)
(* The theorems.                                                           *)
(***************************************************************************)
\* The invariant holds in every state of the uplink and its backend.
THEOREM UplinkInvariant == Spec => []UplinkInv
<1>1. Init => UplinkInv
  BY InitUplinkInv
<1>2. UplinkInv /\ [Next]_vars => UplinkInv'
  BY UplinkInvPreserved
<1> QED
  BY <1>1, <1>2, PTL DEF Spec

\* Every variable keeps its type: among them, no subscription and no queue
\* ever holds more than its limit.
THEOREM TypeCorrect == Spec => []TypeOK
<1>1. UplinkInv => TypeOK
  BY DEF UplinkInv
<1> QED
  BY <1>1, UplinkInvariant, PTL

\* An event or a brief that was published is in the backend, on its way, or
\* among those pushed out, evicted or forgotten by a restart: RetryQueue gives
\* none up silently.
THEOREM NothingGivenUp == Spec => []Accounted
<1>1. UplinkInv => Accounted
  BY DEF UplinkInv
<1> QED
  BY <1>1, UplinkInvariant, PTL

\* The backend writes an item again only for a POST of it that it processed
\* and the robot saw no answer to, and once for each, however many there are.
THEOREM OneWritePerAnswer == Spec => []WrittenOncePerAnswer
<1>1. UplinkInv => WrittenOncePerAnswer
  <2> SUFFICES ASSUME UplinkInv, NEW item \in Items
               PROVE  stores[item] <= 1 + unanswered[item]
    BY DEF WrittenOncePerAnswer
  <2>1. /\ stores[item] \in Nat /\ inflight[item] \in Nat /\ unanswered[item] \in Nat
        /\ stores[item] + inflight[item] + One(item \in Waiting) <= 1 + unanswered[item]
    BY DEF UplinkInv, TypeOK, BudgetInv
  <2> QED
    BY <2>1 DEF One
<1> QED
  BY <1>1, UplinkInvariant, PTL

-----------------------------------------------------------------------------
(***************************************************************************)
(* The events table implements EventLog.                                   *)
(***************************************************************************)
\* Only an event's own item is equal to it.
LEMMA EventNames == \A e, f \in Events : Event(e) = Event(f) => e = f
  BY DEF Event

LEMMA InitLog == Init => Log!Init
<1> SUFFICES ASSUME Init PROVE Log!Init
  OBVIOUS
<1>1. \A e \in Events : RowShown(e) = "absent"
  BY EventItem DEF Init, RowShown
<1>2. Table = [e \in Events |-> "absent"]
  BY <1>1 DEF Table
<1>3. Doubted = [e \in Events |-> 0]
  BY EventItem DEF Init, Doubted, DoubtsOf
<1> QED
  BY <1>2, <1>3 DEF Log!Init

\* What the budget says of an item that is about to be written.
LEMMA WritesLeft ==
    ASSUME UplinkInv, NEW item \in Items, item \in Waiting \/ inflight[item] > 0
    PROVE  stores[item] <= unanswered[item]
<1>1. /\ stores[item] \in Nat /\ inflight[item] \in Nat /\ unanswered[item] \in Nat
      /\ stores[item] + inflight[item] + One(item \in Waiting) <= 1 + unanswered[item]
  BY DEF UplinkInv, TypeOK, BudgetInv
<1> QED
  BY <1>1 DEF One

\* A first write is an upload, any other a repeated upload.
LEMMA WriteLog ==
    ASSUME UplinkInv, NEW item \in Items, Ingest(item),
           stores[item] <= unanswered[item],
           \/ unanswered' = unanswered
           \/ unanswered' = [unanswered EXCEPT ![item] = unanswered[item] + 1]
    PROVE  Log!Next \/ UNCHANGED Log!vars
<1>0. TypeOK /\ RowInv /\ stores \in [Items -> Nat] /\ unanswered \in [Items -> Nat]
  BY DEF UplinkInv, TypeOK
<1>1. /\ \A i \in Items : stores'[i] = IF i = item THEN stores[i] + 1 ELSE stores[i]
      /\ handled' = handled
      /\ item.kind = "event" => stored' = stored \cup {item.id}
      /\ item.kind # "event" => stored' = stored
  BY <1>0, IngestTypes
<1>2. \A f \in Events : /\ Event(f) \in Items
                        /\ stores[Event(f)] \in Nat /\ unanswered[Event(f)] \in Nat
  BY <1>0, EventItem
<1>5. /\ \A i \in Items : i # item => unanswered'[i] = unanswered[i]
      /\ unanswered'[item] \in {unanswered[item], unanswered[item] + 1}
  BY <1>0
<1>3. CASE item.kind # "event"
  <2>1. \A f \in Events : /\ Event(f) # item
                          /\ stores'[Event(f)] = stores[Event(f)]
                          /\ unanswered'[Event(f)] = unanswered[Event(f)]
    BY <1>1, <1>2, <1>3, <1>5, EventItem
  <2>2. \A f \in Events : RowShown(f)' = RowShown(f)
    BY <1>1, <1>3, <2>1 DEF RowShown
  <2>3. Table' = Table
    BY <2>2 DEF Table
  <2>4. Doubted' = Doubted
    BY <2>1 DEF Doubted, DoubtsOf
  <2> QED
    BY <2>3, <2>4 DEF Log!vars
<1>4. CASE item.kind = "event"
  <2>1. PICK e \in Events : item = Event(e)
    BY <1>4 DEF Items, Event, Brief, Record
  <2>2. /\ stored' = stored \cup {e}
        /\ stores[item] \in Nat /\ unanswered[item] \in Nat
        /\ stores'[item] = stores[item] + 1
    BY <1>1, <1>2, <1>4, <2>1, EventItem
  <2>3. \A f \in Events : f # e => /\ stores'[Event(f)] = stores[Event(f)]
                                   /\ unanswered'[Event(f)] = unanswered[Event(f)]
    BY <1>1, <1>2, <1>5, <2>1, EventNames
  <2>4. \A f \in Events : f # e => RowShown(f)' = RowShown(f)
    BY <1>1, <2>2, <2>3 DEF RowShown
  <2>7. \A f \in Events : f # e => DoubtsOf(Event(f))' = DoubtsOf(Event(f))
    BY <2>3 DEF DoubtsOf
  <2>8. Doubted' = [Doubted EXCEPT ![e] = DoubtsOf(item)']
    BY <2>1, <2>7 DEF Doubted
  <2>9. Doubted[e] = DoubtsOf(item)
    BY <2>1 DEF Doubted, DoubtsOf
  <2>5. CASE stores[item] = 0
    <3>1. e \notin stored /\ e \notin handled
      BY <1>0, <2>1, <2>5 DEF RowInv
    <3>2. RowShown(e) = "absent" /\ RowShown(e)' = "open"
      BY <1>1, <2>1, <2>2, <2>5, <3>1 DEF RowShown
    <3>3. Table[e] = "absent" /\ Table' = [Table EXCEPT ![e] = "open"]
      BY <2>4, <3>2 DEF Table
    <3>4. DoubtsOf(item)' \in {DoubtsOf(item), DoubtsOf(item) + 1}
      BY <1>5, <2>2, <2>5 DEF DoubtsOf
    <3>5. Doubted' \in {Doubted, [Doubted EXCEPT ![e] = Doubted[e] + 1]}
      BY <2>8, <2>9, <3>4 DEF Doubted
    <3>6. Log!Upload(e)
      BY <3>3, <3>5 DEF Log!Upload
    <3> QED
      BY <3>6 DEF Log!Next
  <2>6. CASE stores[item] # 0
    <3>1. /\ RowShown(e) # "absent"
          /\ RowShown(e)' = IF RowShown(e) = "purged" THEN "open" ELSE RowShown(e)
      BY <1>0, <1>1, <2>1, <2>2, <2>6 DEF RowShown, RowInv
    <3>2. /\ Table[e] # "absent"
          /\ Table' = [Table EXCEPT ![e] = IF @ = "purged" THEN "open" ELSE @]
      BY <2>4, <3>1 DEF Table
    <3>3. /\ DoubtsOf(item) > 0
          /\ DoubtsOf(item)' \in {DoubtsOf(item), DoubtsOf(item) - 1}
      BY <1>5, <2>2, <2>6 DEF DoubtsOf
    <3>4. /\ Doubted[e] > 0
          /\ Doubted' \in {Doubted, [Doubted EXCEPT ![e] = Doubted[e] - 1]}
      BY <2>8, <2>9, <3>3 DEF Doubted
    <3>5. Log!Repeat(e)
      BY <3>2, <3>4 DEF Log!Repeat
    <3> QED
      BY <3>5 DEF Log!Next
  <2> QED
    BY <2>5, <2>6
<1> QED
  BY <1>3, <1>4

LEMMA NextLog == UplinkInv /\ [Next]_vars => [Log!Next]_(Log!vars)
<1> SUFFICES ASSUME UplinkInv, [Next]_vars PROVE Log!Next \/ UNCHANGED Log!vars
  OBVIOUS
<1> USE DEF rows, counts
<1>0. /\ TypeOK /\ PlaceInv /\ JobInv /\ RowInv
      /\ stores \in [Items -> Nat] /\ unanswered \in [Items -> Nat]
  BY DEF UplinkInv, TypeOK
<1>1. CASE PostAnswered \/ PostUnanswered
  <2>1. /\ Posting /\ Ingest(Entry.item)
        /\ \/ unanswered' = unanswered
           \/ unanswered' = [unanswered EXCEPT ![Entry.item] = unanswered[Entry.item] + 1]
    BY <1>1 DEF PostAnswered, PostUnanswered, LoseAnswer
  <2>2. Entry.item \in Items /\ Entry.item \in Waiting
    BY <1>0, <2>1, EntryWaits
  <2> QED
    BY <2>1, <2>2, WritesLeft, WriteLog
<1>2. CASE \E item \in Items : LateRequest(item)
  <2>1. PICK item \in Items :
          Ingest(item) /\ unanswered' = unanswered /\ inflight[item] > 0
    BY <1>2 DEF LateRequest
  <2> QED
    BY <2>1, WritesLeft, WriteLog
<1>3. CASE PostTimesOut
  <2>2. PICK item \in Items : item = Entry.item /\ item \in Waiting
    BY <1>0, <1>3, EntryWaits DEF PostTimesOut
  <2>1. /\ unanswered' = [unanswered EXCEPT ![item] = unanswered[item] + 1]
        /\ UNCHANGED <<stored, handled, stores>>
    BY <1>3, <2>2 DEF PostTimesOut, LoseAnswer
  <2>3. stores[item] \in Nat /\ unanswered[item] \in Nat /\ stores[item] <= unanswered[item]
    BY <1>0, <2>2, WritesLeft
  <2>4. \A f \in Events : RowShown(f)' = RowShown(f)
    BY <2>1 DEF RowShown
  <2>5. Table' = Table
    BY <2>4 DEF Table
  <2>8. \A i \in Items : unanswered'[i] = IF i = item THEN unanswered[i] + 1 ELSE unanswered[i]
    BY <1>0, <2>1
  <2>9. \A i \in Items : i # item => DoubtsOf(i)' = DoubtsOf(i)
    BY <2>1, <2>8 DEF DoubtsOf
  <2>10. DoubtsOf(item)' = DoubtsOf(item) + 1
    BY <2>1, <2>2, <2>3, <2>8 DEF DoubtsOf
  <2>6. CASE \E e \in Events : item = Event(e)
    <3>1. PICK e \in Events : item = Event(e)
      BY <2>6
    <3>2. \A f \in Events : f # e => Event(f) # item /\ Event(f) \in Items
      BY <3>1, EventNames, EventItem
    <3>3. \A f \in Events : f # e => DoubtsOf(Event(f))' = DoubtsOf(Event(f))
      BY <2>9, <3>2
    <3>4. Doubted[e] = DoubtsOf(item)
      BY <3>1 DEF Doubted
    <3>5. Doubted' = [Doubted EXCEPT ![e] = Doubted[e] + 1]
      BY <2>10, <3>1, <3>3, <3>4 DEF Doubted
    <3>6. Log!Doubt(e)
      BY <2>5, <3>5 DEF Log!Doubt
    <3> QED
      BY <3>6 DEF Log!Next
  <2>7. CASE ~ \E e \in Events : item = Event(e)
    <3>1. \A f \in Events : Event(f) \in Items /\ Event(f) # item
      BY <2>7, EventItem
    <3>2. \A f \in Events : DoubtsOf(Event(f))' = DoubtsOf(Event(f))
      BY <2>9, <3>1
    <3>3. Doubted' = Doubted
      BY <3>2 DEF Doubted
    <3> QED
      BY <2>5, <3>3 DEF Log!vars
  <2> QED
    BY <2>6, <2>7
<1>4. CASE \E e \in Events : Handle(e)
  <2>1. PICK e \in Events : /\ e \in stored /\ handled' = handled \cup {e}
                            /\ UNCHANGED <<stored, stores, unanswered>>
    BY <1>4 DEF Handle
  <2>2. Doubted' = Doubted
    BY <2>1 DEF Doubted, DoubtsOf
  <2>3. \A f \in Events : f # e => RowShown(f)' = RowShown(f)
    BY <2>1 DEF RowShown
  <2>4. CASE e \in handled
    <3>1. handled' = handled
      BY <2>1, <2>4
    <3>2. \A f \in Events : RowShown(f)' = RowShown(f)
      BY <2>1, <3>1 DEF RowShown
    <3> QED
      BY <2>2, <3>2 DEF Table, Log!vars
  <2>5. CASE e \notin handled
    <3>1. RowShown(e) = "open" /\ RowShown(e)' = "handled"
      BY <2>1, <2>5 DEF RowShown
    <3>2. Table[e] = "open" /\ Table' = [Table EXCEPT ![e] = "handled"]
      BY <2>3, <3>1 DEF Table
    <3>3. Log!Handle(e)
      BY <2>2, <3>2 DEF Log!Handle
    <3> QED
      BY <3>3 DEF Log!Next
  <2> QED
    BY <2>4, <2>5
<1>5. CASE \E old \in SUBSET handled : Purge(old)
  <2>1. PICK old \in SUBSET handled :
          /\ stored' = stored \ old /\ handled' = handled \ old
          /\ UNCHANGED <<stores, unanswered>>
    BY <1>5 DEF Purge
  <2>2. Doubted' = Doubted
    BY <2>1 DEF Doubted, DoubtsOf
  <2>3. \A f \in Events : RowShown(f)' = IF f \in old THEN "purged" ELSE RowShown(f)
    <3> SUFFICES ASSUME NEW f \in Events
                 PROVE  RowShown(f)' = IF f \in old THEN "purged" ELSE RowShown(f)
      OBVIOUS
    <3>1. CASE f \in old
      <4>1. stores[Event(f)] > 0
        BY <1>0, <3>1 DEF RowInv
      <4> QED
        BY <2>1, <3>1, <4>1 DEF RowShown
    <3>2. CASE f \notin old
      BY <2>1, <3>2 DEF RowShown
    <3> QED
      BY <3>1, <3>2
  <2>4. Table' = [f \in Events |-> IF f \in old THEN "purged" ELSE Table[f]]
    BY <2>3 DEF Table
  <2>5. old \in SUBSET Events
    BY <1>0 DEF TypeOK
  <2>6. \A f \in old : Table[f] = "handled"
    <3>1. \A f \in old : f \in handled /\ f \in stored /\ f \in Events
      BY <1>0, <2>5 DEF RowInv
    <3>2. \A f \in old : RowShown(f) = "handled"
      BY <3>1 DEF RowShown
    <3> QED
      BY <3>1, <3>2 DEF Table
  <2>7. Log!Purge(old)
    BY <2>2, <2>4, <2>6 DEF Log!Purge
  <2> QED
    BY <2>5, <2>7 DEF Log!Next
<1>6. CASE \/ \E item \in Items : Publish(item)
           \/ \E k \in Kinds : Take(k)
           \/ StartDrain \/ PostFails \/ NetDown \/ NetUp \/ Restart
           \/ UNCHANGED vars
  <2>1. UNCHANGED <<stored, handled, stores, unanswered>>
    BY <1>6 DEF Publish, Take, StartDrain, PostFails, NetDown, NetUp, Restart, vars
  <2>2. Table' = Table /\ Doubted' = Doubted
    BY <2>1 DEF Table, RowShown, Doubted, DoubtsOf
  <2> QED
    BY <2>2 DEF Log!vars
<1> QED
  BY <1>1, <1>2, <1>3, <1>4, <1>5, <1>6 DEF Next, Post

\* What the manager is promised of the events table, module EventLog, the
\* uplink, the network and the backend's tables deliver together.
THEOREM TableImplementsEventLog == Spec => ImplementsEventLog
  BY InitLog, NextLog, UplinkInvariant, PTL DEF Spec, ImplementsEventLog, Log!Spec
=============================================================================
