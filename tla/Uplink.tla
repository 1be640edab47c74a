-------------------------------- MODULE Uplink --------------------------------
(***************************************************************************)
(* The robot's uplink and the backend it feeds: uplink_node.py with the    *)
(* RetryQueue of uplink.py, the ROS subscriptions in front of it, the HTTP *)
(* POSTs between them, and the rows server.py and store.py keep, with the  *)
(* manager who handles an event and the retention sweep that deletes it.   *)
(*                                                                         *)
(* uplink_node runs its callbacks on one thread (rclpy.spin), and a POST   *)
(* blocks it until the answer or the 8 s timeout: messages that arrive     *)
(* meanwhile wait in the subscription's history and push the oldest out    *)
(* when it is full.                                                        *)
(*                                                                         *)
(* Abstractions.  The kinds that are not persistent (record, report,       *)
(* acceptance) are treated alike and stand under "record"; images are      *)
(* uploaded best-effort before their item and are left out.                *)
(***************************************************************************)
EXTENDS Naturals, Sequences, SequencesExt, FiniteSets

CONSTANTS
    Events,        \* event_ids
    Cognized,      \* those that pass cognition_node's gate and get a brief
    Records,       \* workstation records, reports, acceptances
    MaxAttempts,   \* RetryQueue.max_attempts
    MaxLen,        \* RetryQueue.max_len
    Depth,         \* the subscriptions' QoS depth (10)
    Burst,         \* events the 10 s evidence_cooldown lets out during one POST
    MaxOutages,    \* bound: how often the network goes down
    MaxUnanswered, \* bound: POSTs that are processed and not answered
    MaxRestarts    \* bound: restarts of uplink_node

ASSUME ConstantsOK ==
    /\ Cognized \subseteq Events
    /\ {MaxAttempts, MaxLen, Depth, Burst} \subseteq Nat \ {0}
    /\ {MaxOutages, MaxUnanswered, MaxRestarts} \subseteq Nat

Kinds == {"event", "brief", "record"}
Event(e) == [kind |-> "event", id |-> e]
Brief(e) == [kind |-> "brief", id |-> e]
Record(r) == [kind |-> "record", id |-> r]
Items == {Event(e) : e \in Events} \cup {Brief(e) : e \in Cognized}
           \cup {Record(r) : r \in Records}

\* Fault variant of PersistentKinds: every kind is given up after MaxAttempts.
NoPersistentKinds == {}

PersistentKinds == {"event", "brief"}

\* What the README promises to re-upload until it is there.
Promised == {item \in Items : item.kind \in {"event", "brief"}}

VARIABLES
    \* robot
    published,   \* items put on their ROS topics
    burst,       \* events published since the last POST ended
    inbox,       \* the subscriptions' histories, by kind
    job,         \* the callback that is running
    pending,     \* the entries it still has to POST
    queue,       \* RetryQueue._q
    due,         \* subscriptions rclpy serves before the timer's next turn
    \* network
    net,
    inflight,    \* how many POSTs of each item the robot has given up on and
                 \* the backend will process
    \* backend
    stored,      \* event_ids with a row in events
    handled,     \* those with handled = 1
    briefs,      \* event_ids with a row in briefs
    \* history
    stores,      \* how often each item was written
    unanswered,  \* how many POSTs of each item were processed, or will be,
                 \* without an answer
    lost,        \* items gone: pushed out, evicted, or forgotten by a restart
    outages, restarts

robot == <<published, burst, inbox, job, pending, queue, due>>
network == <<net, inflight>>
rows == <<stored, handled, briefs>>
counts == <<stores, unanswered>>
bounds == <<outages, restarts>>
vars == <<robot, network, rows, counts, lost, bounds>>

\* An entry of the queue: RetryQueue's (kind, body, attempts).
Entries == [item : Items, attempts : 0 .. MaxAttempts]
ItemsOf(seq) == {seq[n].item : n \in DOMAIN seq}

\* The items the robot still means to send.
Waiting == (UNION {ItemsOf(inbox[k]) : k \in Kinds})
             \cup ItemsOf(pending) \cup ItemsOf(queue)

TypeOK ==
    /\ published \subseteq Items
    /\ burst \in 0 .. Burst
    /\ inbox \in [Kinds -> Seq(Entries)]
    /\ \A k \in Kinds : Len(inbox[k]) <= Depth
    /\ job \in {"idle", "enqueue", "drain"}
    /\ {pending, queue} \subseteq Seq(Entries)
    /\ Len(pending) + Len(queue) <= MaxLen + 1
    /\ due \subseteq Kinds
    /\ net \in {"up", "down"}
    /\ {stored, handled, briefs} \subseteq SUBSET Events
    /\ {inflight, stores, unanswered} \subseteq [Items -> Nat]
    /\ lost \subseteq Items
    /\ outages \in 0 .. MaxOutages
    /\ restarts \in 0 .. MaxRestarts

Init ==
    /\ published = {} /\ burst = 0
    /\ inbox = [k \in Kinds |-> <<>>]
    /\ job = "idle" /\ pending = <<>> /\ queue = <<>> /\ due = {}
    /\ net = "up"
    /\ stored = {} /\ handled = {} /\ briefs = {}
    /\ inflight = [item \in Items |-> 0]
    /\ stores = inflight /\ unanswered = inflight
    /\ lost = {}
    /\ outages = 0 /\ restarts = 0

-----------------------------------------------------------------------------
(***************************************************************************)
(* Backend.  Each handler commits before it answers.                       *)
(***************************************************************************)
\* Fault variant of HandledAfterUpsert: the upsert replaces the whole row.
HandledAfterReplace(e) == handled' = handled \ {e}

\* upsert_event leaves the handled columns of an existing row alone; a new
\* row has the schema's default, unhandled.
HandledAfterUpsert(e) == UNCHANGED handled

\* The /api/ingest handler of item's kind.
Ingest(item) ==
    /\ stores' = [stores EXCEPT ![item] = @ + 1]
    /\ CASE item.kind = "event" ->
              /\ stored' = stored \cup {item.id}
              /\ HandledAfterUpsert(item.id)
              /\ UNCHANGED briefs
         [] item.kind = "brief" ->
              briefs' = briefs \cup {item.id} /\ UNCHANGED <<stored, handled>>
         [] item.kind = "record" -> UNCHANGED rows

\* The manager handles an event in the App.
Handle(e) ==
    /\ e \in stored
    /\ handled' = handled \cup {e}
    /\ UNCHANGED <<robot, network, stored, briefs, counts, lost, bounds>>

\* The retention sweep: events handled long enough ago, and their briefs.
Purge(old) ==
    /\ old # {}
    /\ stored' = stored \ old
    /\ handled' = handled \ old
    /\ briefs' = briefs \ old
    /\ UNCHANGED <<robot, network, counts, lost, bounds>>

-----------------------------------------------------------------------------
(***************************************************************************)
(* Robot.                                                                  *)
(***************************************************************************)
\* A node publishes an item; the subscription keeps the last Depth.  The
\* cooldown between two events is far longer than an idle executor takes to
\* pick one up, and spans all but Burst of those published during a POST.
Publish(item) ==
    /\ item \notin published
    /\ item.kind = "brief" => Event(item.id) \in published
    /\ published' = published \cup {item}
    /\ IF item.kind = "event"
       THEN IF job = "idle" THEN inbox["event"] = <<>> /\ UNCHANGED burst
                            ELSE burst < Burst /\ burst' = burst + 1
       ELSE UNCHANGED burst
    /\ LET box == inbox[item.kind]
           full == Len(box) = Depth
       IN /\ inbox' = [inbox EXCEPT ![item.kind] =
                         Append(IF full THEN Tail(box) ELSE box,
                                [item |-> item, attempts |-> 0])]
          /\ lost' = IF full THEN lost \cup {Head(box).item} ELSE lost
    /\ UNCHANGED <<job, pending, queue, due, network, rows, counts, bounds>>

\* _on_event and its like: _enqueue tries a direct POST first.
Take(k) ==
    /\ job = "idle"
    /\ inbox[k] # <<>>
    /\ job' = "enqueue"
    /\ pending' = <<Head(inbox[k])>>
    /\ inbox' = [inbox EXCEPT ![k] = Tail(@)]
    /\ due' = due \ {k}
    /\ UNCHANGED <<published, burst, queue, network, rows, counts, lost, bounds>>

\* Fault variant of Undrained: drain keeps what it is about to send.
UndrainedCopy == UNCHANGED queue

\* drain takes the whole queue; what fails is appended again.
Undrained == queue' = <<>>

\* _flush, on its timer.  rclpy runs every callback that was ready when it
\* last waited, timers first, before it waits again.
StartDrain ==
    /\ job = "idle"
    /\ queue # <<>>
    /\ due = {}
    /\ due' = {k \in Kinds : inbox[k] # <<>>}
    /\ job' = "drain"
    /\ pending' = queue
    /\ Undrained
    /\ UNCHANGED <<published, burst, inbox, network, rows, counts, lost, bounds>>

\* Fault variant of NextEntry: drain stops at its first entry.
OnlyEntry == pending' = <<>> /\ job' = "idle" /\ burst' = 0

\* The callback goes on with its next entry, or is over.
NextEntry ==
    /\ pending' = Tail(pending)
    /\ job' = IF Tail(pending) = <<>> THEN "idle" ELSE job
    /\ burst' = 0

\* Fault variant of AddEntry: nothing is evicted.
AddUnbounded(entry) == queue' = Append(queue, entry) /\ UNCHANGED lost

\* RetryQueue.add: the oldest entry goes when the queue is full.
AddEntry(entry) ==
    IF Len(queue) >= MaxLen
    THEN /\ queue' = Append(Tail(queue), entry)
         /\ lost' = lost \cup {Head(queue).item}
    ELSE queue' = Append(queue, entry) /\ UNCHANGED lost

\* drain's verdict on an entry it could not send.  The attempts of a persistent
\* one are never asked for, and not counted.
Requeue(entry) ==
    \/ entry.item.kind \in PersistentKinds /\ queue' = Append(queue, entry)
    \/ /\ entry.item.kind \notin PersistentKinds
       /\ IF entry.attempts + 1 < MaxAttempts
          THEN queue' = Append(queue, [entry EXCEPT !.attempts = @ + 1])
          ELSE UNCHANGED queue

Posting == job # "idle"
Entry == Head(pending)

Succeeded == NextEntry /\ UNCHANGED <<queue, lost>>
Failed == /\ NextEntry
          /\ IF job = "enqueue" THEN AddEntry(Entry)
                                ELSE Requeue(Entry) /\ UNCHANGED lost

PostAnswered ==
    /\ Posting /\ net = "up"
    /\ Ingest(Entry.item)
    /\ Succeeded
    /\ UNCHANGED <<published, inbox, due, network, unanswered, bounds>>

\* The POSTs without an answer so far.
Unanswered == FoldFunction(+, 0, unanswered)

LoseAnswer ==
    /\ Unanswered < MaxUnanswered
    /\ unanswered' = [unanswered EXCEPT ![Entry.item] = @ + 1]

\* The row is written and the answer lost.
PostUnanswered ==
    /\ Posting /\ net = "up"
    /\ LoseAnswer
    /\ Ingest(Entry.item)
    /\ Failed
    /\ UNCHANGED <<published, inbox, due, network, bounds>>

\* The robot times out on a request the backend is yet to process.
PostTimesOut ==
    /\ Posting /\ net = "up"
    /\ LoseAnswer
    /\ inflight' = [inflight EXCEPT ![Entry.item] = @ + 1]
    /\ Failed
    /\ UNCHANGED <<published, inbox, due, net, rows, stores, bounds>>

\* No route to the backend: refused at once, or the timeout runs out.
PostFails ==
    /\ Posting /\ net = "down"
    /\ Failed
    /\ UNCHANGED <<published, inbox, due, network, rows, counts, bounds>>

\* The late request is processed after all.
LateRequest(item) ==
    /\ inflight[item] > 0
    /\ inflight' = [inflight EXCEPT ![item] = @ - 1]
    /\ Ingest(item)
    /\ UNCHANGED <<robot, net, unanswered, lost, bounds>>

NetDown ==
    /\ net = "up" /\ outages < MaxOutages
    /\ net' = "down" /\ outages' = outages + 1
    /\ UNCHANGED <<robot, inflight, rows, counts, lost, restarts>>

NetUp ==
    /\ net = "down" /\ net' = "up"
    /\ UNCHANGED <<robot, inflight, rows, counts, lost, bounds>>

\* uplink_node is restarted: its queue is a list in memory.
Restart ==
    /\ restarts < MaxRestarts
    /\ restarts' = restarts + 1
    /\ lost' = lost \cup Waiting
    /\ inbox' = [k \in Kinds |-> <<>>]
    /\ job' = "idle" /\ pending' = <<>> /\ queue' = <<>> /\ burst' = 0
    /\ due' = {}
    /\ UNCHANGED <<published, network, rows, counts, outages>>

Post == PostAnswered \/ PostUnanswered \/ PostTimesOut \/ PostFails

Next ==
    \/ \E item \in Items : Publish(item)
    \/ \E k \in Kinds : Take(k)
    \/ StartDrain \/ Post
    \/ \E item \in Items : LateRequest(item)
    \/ NetDown \/ NetUp \/ Restart
    \/ \E e \in Events : Handle(e)
    \/ \E old \in SUBSET handled : Purge(old)

Spec == Init /\ [][Next]_vars

\* The network comes back, a POST ends (8 s timeout), and rclpy's executor
\* runs every ready callback of a wait before it waits again: each is ready
\* again and again until it has run.
FairSpec == /\ Spec
            /\ WF_vars(NetUp)
            /\ WF_vars(Post)
            /\ SF_vars(StartDrain)
            /\ \A k \in Kinds : SF_vars(Take(k))
-----------------------------------------------------------------------------
(***************************************************************************)
(* Properties.                                                             *)
(***************************************************************************)
\* RetryQueue gives no event or brief up: one that was published and is not
\* in the backend is still on its way, unless it was pushed out of a full
\* subscription, evicted from a full queue or forgotten by a restart.
Accounted ==
    \A item \in published \cap Promised :
        stores[item] > 0 \/ inflight[item] > 0 \/ item \in Waiting \cup lost

\* An item is written again only for a POST whose answer never came, once for
\* each: the direct POST, the queue and drain hold it at most once between them.
WrittenOncePerAnswer == \A item \in Items : stores[item] <= 1 + unanswered[item]

\* Retries end in delivery: the backlog clears again and again, every event
\* and brief published so far being in the backend or dropped for one of
\* those reasons, once the network is back.
Delivered ==
    []<>(\A item \in published \cap Promised : stores[item] > 0 \/ item \in lost)

\* What the events table shows of e; "purged" is an event that was written
\* and has no row.
RowShown(e) ==
    CASE e \in handled -> "handled"
      [] e \in stored \ handled -> "open"
      [] e \notin stored /\ stores[Event(e)] > 0 -> "purged"
      [] OTHER -> "absent"

Table == [e \in Events |-> RowShown(e)]

\* How often e may still be written again: its uploads without an answer, but
\* for those made up for.
DoubtsOf(item) ==
    IF stores[item] = 0 THEN unanswered[item] ELSE 1 + unanswered[item] - stores[item]

Doubted == [e \in Events |-> DoubtsOf(Event(e))]

\* The events table does what module EventLog promises.
Log == INSTANCE EventLog WITH row <- Table, doubted <- Doubted

ImplementsEventLog == Log!Spec

\* README.md: "During network outages critical alerts enter an
\* unlimited-retry queue and are idempotently re-uploaded by event_id after
\* recovery -- zero loss, no duplicates."
ZeroLoss == lost \cap Promised = {}
=============================================================================
