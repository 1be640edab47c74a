------------------------------- MODULE AlertFeed -------------------------------
(***************************************************************************)
(* From an event's row to the manager's screen: the ingest handlers of     *)
(* server.py, which run in worker threads, the Broker of push.py and the   *)
(* SSE stream it feeds, and in the App the SseClient and the               *)
(* AlertsController with its refresh, its polling and its handle.          *)
(*                                                                         *)
(* The App learns of an event by four ways that do not know of each other: *)
(* a message of the stream, the answer to a refresh, the answer to a poll, *)
(* the answer to its own handle.  Each is applied when it arrives, and     *)
(* shows the row as it was when the server looked.                         *)
(*                                                                         *)
(* Abstractions.  An event is its timestamp.  Only this App's subscription *)
(* is modelled; other clients only handle events.  The local overrides     *)
(* (deleted, reopened) and the filter choose what is displayed of the list *)
(* and are left out, as is init() once more after the server's address was *)
(* changed.  Polls do not overlap each other.                              *)
(***************************************************************************)
EXTENDS Naturals, Sequences, FiniteSets, FiniteSetsExt

CONSTANTS
    Events,      \* their timestamps, all different
    NoAnswer,    \* no answer is under way
    QueueMax,    \* Broker's max_queue (200)
    PageLimit,   \* limit of the App's getEvents (100)
    MaxIngests   \* bound: uploads, of events, of the briefs that re-push them,
                 \* and repeated after an error

ASSUME ConstantsOK ==
    /\ Events \subseteq Nat
    /\ {QueueMax, PageLimit} \subseteq Nat \ {0}
    /\ MaxIngests \in Nat

VARIABLES
    \* backend
    row,           \* the events table
    publishing,    \* the row an ingest thread has read and not yet published
    again,         \* events whose upload ended in an error: the robot repeats it
    stream,        \* the App's stream; "dropped": still open, its queue no
                   \* longer among Broker._subs; "dead": cut without a sign
    queue,         \* the subscriber's queue
    \* App
    running,       \* init() is past its first refresh
    listed,        \* _events, as the row shown of each
    connected,     \* _connected
    polling,       \* _pollTimer is not null
    refreshAnswer, pollAnswer, handleAnswers,
    \* history
    stale,         \* see Note
    ingests

backend == <<row, publishing, again>>
wire == <<stream, queue>>
answers == <<refreshAnswer, pollAnswer, handleAnswers>>
app == <<running, listed, connected, polling>>
vars == <<backend, wire, answers, app, stale, ingests>>

Rows == {"absent", "open", "handled"}
Messages == [name : {"hazard", "handled"}, id : Events, row : Rows]

TypeOK ==
    /\ row \in [Events -> Rows]
    /\ publishing \in [Events -> {"none", "open", "handled"}]
    /\ again \subseteq Events
    /\ stream \in {"none", "live", "dropped", "dead"}
    /\ queue \in Seq(Messages) /\ Len(queue) <= QueueMax
    /\ stream \in {"none", "dead"} => queue = <<>>
    /\ {running, connected, polling} \subseteq BOOLEAN
    /\ connected <=> stream # "none"
    /\ listed \in [Events -> Rows]
    /\ refreshAnswer \in [Events -> Rows] \cup {NoAnswer}
    /\ pollAnswer \in (SUBSET Events) \cup {NoAnswer}
    /\ {handleAnswers, stale} \subseteq SUBSET Events
    /\ ingests \in 0 .. MaxIngests

Init ==
    /\ row = [e \in Events |-> "absent"]
    /\ publishing = [e \in Events |-> "none"]
    /\ again = {}
    /\ stream = "none" /\ queue = <<>>
    /\ running = FALSE /\ connected = FALSE /\ polling = FALSE
    /\ listed = [e \in Events |-> "absent"]
    /\ refreshAnswer = NoAnswer /\ pollAnswer = NoAnswer /\ handleAnswers = {}
    /\ stale = {}
    /\ ingests = 0

\* Fault variant of Shown: a message about an event that is not listed is
\* passed over.
ShownIfKnown(list, m) ==
    IF list[m.id] = "absent" THEN list ELSE [list EXCEPT ![m.id] = m.row]

\* _onSse: "hazard" inserts or replaces the event, "handled" marks it if it
\* is there.
Shown(list, m) ==
    IF m.name = "handled" /\ list[m.id] = "absent"
    THEN list ELSE [list EXCEPT ![m.id] = m.row]

\* The messages of q about e that will take effect on the list.
Effective(list, q, e) ==
    {n \in DOMAIN q :
       /\ q[n].id = e
       /\ \/ q[n].name = "hazard"
          \/ list[e] # "absent"
          \/ \E k \in 1 .. n : q[k].id = e /\ q[k].name = "hazard"}

\* The list once the messages of q are applied: of each event the last row.
\* It is the fold of Shown over q, written out.
Applied(list, q) ==
    [e \in Events |-> IF Effective(list, q, e) = {} THEN list[e]
                      ELSE q[Max(Effective(list, q, e))].row]

\* The list once the messages under way are applied.
Ahead == Applied(listed, queue)

\* History: the events on which something went past the App, until the list
\* (with what is under way) agrees with the table again.
Note(incidents) == stale' = {e \in stale \cup incidents : Ahead'[e] # row'[e]}

-----------------------------------------------------------------------------
(***************************************************************************)
(* Backend.                                                                *)
(***************************************************************************)
\* Fault variant of Put: the queue has no limit.
PutUnbounded(m) ==
    UNCHANGED stream /\ queue' = IF stream = "live" THEN Append(queue, m) ELSE queue

\* Fault variant of Put: a full queue loses its oldest message.
PutEvicting(m) ==
    /\ UNCHANGED stream
    /\ IF stream = "live"
       THEN queue' = Append(IF Len(queue) = QueueMax THEN Tail(queue) ELSE queue, m)
       ELSE UNCHANGED queue

\* Broker.publish: a subscriber with a full queue is dropped.
Put(m) ==
    IF stream = "live"
    THEN IF Len(queue) < QueueMax
         THEN queue' = Append(queue, m) /\ UNCHANGED stream
         ELSE stream' = "dropped" /\ UNCHANGED queue
    ELSE UNCHANGED wire

Hears == stream = "live" /\ Len(queue) < QueueMax

\* ingest_event and ingest_brief up to get_event: commit, read the row.
Ingest(e) ==
    /\ publishing[e] = "none"
    /\ \/ ingests < MaxIngests /\ ingests' = ingests + 1
       \/ e \in again /\ UNCHANGED ingests
    /\ again' = again \ {e}
    /\ row' = [row EXCEPT ![e] = IF @ = "absent" THEN "open" ELSE @]
    /\ publishing' = [publishing EXCEPT ![e] = row'[e]]
    /\ UNCHANGED <<wire, answers, app>>
    /\ Note({})

\* The rest of it: the row as it was read, whatever it is by now.
Publish(e) ==
    /\ publishing[e] # "none"
    /\ publishing' = [publishing EXCEPT ![e] = "none"]
    /\ Put([name |-> "hazard", id |-> e, row |-> publishing[e]])
    /\ UNCHANGED <<row, again, answers, app, ingests>>
    /\ Note(IF Hears /\ publishing[e] = row[e] THEN {} ELSE {e})

\* The loop of publish runs in the worker thread; a client that comes or goes
\* meanwhile changes the set it iterates over: RuntimeError, answered 500.
PublishRaises(e) ==
    /\ publishing[e] # "none"
    /\ ingests < MaxIngests /\ ingests' = ingests + 1
    /\ publishing' = [publishing EXCEPT ![e] = "none"]
    /\ again' = again \cup {e}
    /\ UNCHANGED <<row, wire, answers, app, stale>>

\* handle_event runs on the event loop: nothing comes between its commit and
\* its publish.  The request is this App's, which offers it on open events and
\* waits for the answer, or another client's.
HandleEvent(e, mine) ==
    /\ IF mine THEN row[e] # "absent" /\ listed[e] = "open" /\ e \notin handleAnswers
               ELSE row[e] = "open"
    /\ row' = [row EXCEPT ![e] = "handled"]
    /\ Put([name |-> "handled", id |-> e, row |-> "handled"])
    /\ handleAnswers' = IF mine THEN handleAnswers \cup {e} ELSE handleAnswers
    /\ UNCHANGED <<publishing, again, refreshAnswer, pollAnswer, app, ingests>>
    /\ Note(IF Hears THEN {} ELSE {e})

\* Its publish raises when a worker thread, in one of its own, drops a subscriber
\* meanwhile: the event is handled, nobody is told, and the answer is 500.
HandleRaises(e) ==
    /\ row[e] = "open"
    /\ \E f \in Events : publishing[f] # "none"
    /\ row' = [row EXCEPT ![e] = "handled"]
    /\ UNCHANGED <<publishing, again, wire, answers, app, ingests>>
    /\ Note({e})

-----------------------------------------------------------------------------
(***************************************************************************)
(* The stream.                                                             *)
(***************************************************************************)
InQueue == {queue[n].id : n \in DOMAIN queue}

\* init() goes on to start the SseClient when its refresh is over; _connect
\* tries again after every end.  The queue is new.
Connect ==
    /\ running /\ stream = "none"
    /\ stream' = "live" /\ queue' = <<>>
    /\ connected' = TRUE /\ polling' = FALSE
    /\ UNCHANGED <<backend, answers, running, listed, stale, ingests>>

\* No connection: polling begins.  (An answer other than 200 changes nothing.)
ConnectFails ==
    /\ running /\ stream = "none"
    /\ polling' = TRUE
    /\ UNCHANGED <<backend, wire, answers, running, listed, connected, stale,
                   ingests>>

\* gen() takes a message from the queue, dropped or not, and it arrives.
Deliver ==
    /\ queue # <<>>
    /\ listed' = Shown(listed, Head(queue))
    /\ queue' = Tail(queue)
    /\ UNCHANGED <<backend, stream, answers, running, connected, polling,
                   stale, ingests>>

\* onDone or onError: the App sees the end, polls and retries.
StreamEnds ==
    /\ stream # "none"
    /\ stream' = "none" /\ queue' = <<>>
    /\ connected' = FALSE /\ polling' = TRUE
    /\ UNCHANGED <<backend, answers, running, listed, ingests>>
    /\ Note(InQueue)

\* The connection is gone and nobody tells the App: it ignores the pings and
\* does not miss them.
Cut ==
    /\ stream \in {"live", "dropped"}
    /\ stream' = "dead" /\ queue' = <<>>
    /\ UNCHANGED <<backend, answers, app, ingests>>
    /\ Note(InQueue)

-----------------------------------------------------------------------------
(***************************************************************************)
(* The App's requests.  An answer shows the table as it was when the       *)
(* server made it, and is applied when it arrives.                         *)
(***************************************************************************)
Newer(e, S) == {f \in S : f > e}

\* Fault variant of Newest: the oldest come first.
Oldest(S) == {e \in S : Cardinality({f \in S : f < e}) < PageLimit}

\* ORDER BY timestamp DESC LIMIT.
Newest(S) == {e \in S : Cardinality(Newer(e, S)) < PageLimit}

Stored(r) == {e \in Events : r[e] # "absent"}

\* refresh(): init's first, or the manager's.
AskRefresh ==
    /\ refreshAnswer = NoAnswer
    /\ refreshAnswer' = [e \in Events |->
                           IF e \in Newest(Stored(row)) THEN row[e] ELSE "absent"]
    /\ UNCHANGED <<backend, wire, pollAnswer, handleAnswers, app, stale, ingests>>

ApplyRefresh ==
    /\ refreshAnswer # NoAnswer
    /\ listed' = refreshAnswer                              \* clear, addAll
    /\ refreshAnswer' = NoAnswer
    /\ running' = TRUE
    /\ UNCHANGED <<backend, wire, pollAnswer, handleAnswers, connected, polling,
                   ingests>>
    /\ Note({e \in Events : refreshAnswer[e] # row[e]})

\* An error is shown; init() goes on.
RefreshFails ==
    /\ refreshAnswer # NoAnswer
    /\ refreshAnswer' = NoAnswer
    /\ running' = TRUE
    /\ UNCHANGED <<backend, wire, pollAnswer, handleAnswers, listed, connected,
                   polling, stale, ingests>>

\* since: the first of the list is its newest.
Since(list) == {e \in Events : Newer(e, Stored(list)) = {}}

\* The poll timer: open events since the newest one listed.
AskPoll ==
    /\ polling /\ ~connected /\ pollAnswer = NoAnswer
    /\ pollAnswer' = Newest({e \in Since(listed) : row[e] = "open"})
    /\ UNCHANGED <<backend, wire, refreshAnswer, handleAnswers, app, stale, ingests>>

ApplyPoll ==
    /\ pollAnswer # NoAnswer
    /\ listed' = [e \in Events |-> IF e \in pollAnswer THEN "open" ELSE listed[e]]
    /\ pollAnswer' = NoAnswer
    /\ UNCHANGED <<backend, wire, refreshAnswer, handleAnswers, running,
                   connected, polling, ingests>>
    /\ Note({e \in pollAnswer : row[e] # "open"})

\* The error is caught, and the timer tries again.
PollFails ==
    /\ pollAnswer # NoAnswer
    /\ pollAnswer' = NoAnswer
    /\ UNCHANGED <<backend, wire, refreshAnswer, handleAnswers, app, stale, ingests>>

\* handle() goes on with the answer, or throws.
ApplyHandle(e, arrives) ==
    /\ e \in handleAnswers
    /\ handleAnswers' = handleAnswers \ {e}
    /\ listed' = IF arrives THEN [listed EXCEPT ![e] = "handled"] ELSE listed
    /\ UNCHANGED <<backend, wire, refreshAnswer, pollAnswer, running, connected,
                   polling, ingests>>
    /\ Note({})

Robot == \E e \in Events : Publish(e) \/ (e \in again /\ Ingest(e))
Poll == AskPoll \/ ApplyPoll \/ PollFails

Next ==
    \/ \E e \in Events : Ingest(e) \/ Publish(e) \/ PublishRaises(e) \/ HandleRaises(e)
    \/ \E e \in Events, mine \in BOOLEAN : HandleEvent(e, mine) \/ ApplyHandle(e, mine)
    \/ Connect \/ ConnectFails \/ Deliver \/ StreamEnds \/ Cut
    \/ AskRefresh \/ ApplyRefresh \/ RefreshFails
    \/ Poll

Spec == Init /\ [][Next]_vars

\* Threads end, the robot repeats what was refused (an event's entry has
\* no last attempt), the stream and the timers go on, and of the polls that are
\* tried again and again one is answered.
FairSpec == /\ Spec
            /\ WF_vars(Robot) /\ WF_vars(Deliver) /\ WF_vars(Poll)
            /\ SF_vars(ApplyPoll)

-----------------------------------------------------------------------------
(***************************************************************************)
(* Properties.                                                             *)
(***************************************************************************)
\* What the list shows of an event is its row, or will be once what is under
\* way is applied; if not, news of it went past the App since they last
\* agreed: it was published with no queue or a full one to put it in, or not at
\* all (HandleRaises), lost with the stream, overtaken by a handle, or
\* overwritten by the answer to a request the server had answered earlier or
\* with a page too short for it.
ListTrue ==
    \A e \in Events :
        \/ Ahead[e] = row[e]
        \/ publishing[e] # "none" \/ e \in again
        \/ e \in stale

\* The stream brings the news: again and again the list is the table, but for
\* the events something went past the App on.
NewsArrives == []<>(\A e \in Events : listed[e] = row[e] \/ e \in stale)

\* Polling stands in for the stream: while there is none, an open event newer
\* than all that are listed does not stay out of the list.
PollingCatchesUp ==
    []<>(polling => ~\E e \in Since(listed) : row[e] = "open" /\ listed[e] = "absent")
=============================================================================
