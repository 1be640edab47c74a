---------------------------- MODULE CommandChannel ----------------------------
(***************************************************************************)
(* The command channel from the App to the robot: the commands table of    *)
(* the backend (store.py, server.py), the command_receiver_node that polls *)
(* it, the worker thread it starts for a mode switch or a map save, and    *)
(* the ModeController of mode_switch.py with its state file, its lock file *)
(* and the scripts it runs.                                                *)
(*                                                                         *)
(* The receiver's timer callback and the worker are two threads of one     *)
(* process; a script is a child process and outlives both.  A POST is      *)
(* answered, processed without its answer arriving, or not processed.      *)
(*                                                                         *)
(* Abstractions.  A command is its kind: "plain" is any that is carried    *)
(* out in the callback by publishing, or refused there (an unknown type, a *)
(* failed asset lookup).  What a script does is its effect on the stack    *)
(* that runs on the robot, as far as the script itself checks it; one that *)
(* is killed half-way is left out.                                         *)
(***************************************************************************)
EXTENDS Naturals, Sequences, SequencesExt, FiniteSets

CONSTANTS
    Commands,      \* command_ids, one per POST /api/commands
    NoCommand,
    KindOf,        \* each command's kind
    PendingLimit,  \* pending_limit
    MaxFaults,     \* bound: POSTs that are not answered
    MaxCrashes     \* bound: restarts of the node or the robot

SwitchKinds == {"mapping", "normal"}
Kinds == {"plain", "save"} \cup SwitchKinds

ASSUME ConstantsOK ==
    /\ NoCommand \notin Commands
    /\ KindOf \in [Commands -> Kinds]
    /\ PendingLimit \in Nat \ {0}
    /\ {MaxFaults, MaxCrashes} \subseteq Nat

VARIABLES
    \* backend
    order,      \* the commands created, oldest first
    status,     \* the status column
    \* command_receiver_node's timer callback
    step,       \* where it is; "down" while the process is not there
    batch,      \* the commands of this poll still to handle; Head is current
    verdict,    \* the status it is about to report
    \* the worker thread
    worker,     \* the command it works for
    work,       \* where it is; "ending" and after, it does nothing more
    workVerdict,
    modeThread, \* _mode_thread is not None
    \* files and processes of the robot
    mode,       \* the state file
    lock,       \* the lock file: absent, fresh, or older than lock_timeout_s
    scripts,    \* commands whose script is running
    stack,      \* what runs on the robot: the voice stack, all or part of it
                \* back, the mapping stack, or neither
    \* history
    dispatched, \* the commands whose ack was answered, in the order taken up
    skipped,    \* commands whose ack failed or was not answered
    excused,    \* commands that may stay in "sent", see NeverForgotten
    orphans,    \* commands whose script the node has left running
    stolen,     \* a switch has taken the lock of one whose script is running
    strayed,    \* since the last switch began a reboot has changed the stack,
                \* or its script could not be run
    faults, crashes

backend == <<order, status>>
receiver == <<step, batch, verdict>>
thread == <<worker, work, workVerdict, modeThread>>
robot == <<mode, lock, scripts, stack>>
history == <<dispatched, skipped, excused, orphans, stolen, strayed>>
bounds == <<faults, crashes>>
vars == <<backend, receiver, thread, robot, history, bounds>>

Statuses == {"none", "queued", "sent", "done", "failed"}

TypeOK ==
    /\ order \in Seq(Commands)
    /\ status \in [Commands -> Statuses]
    /\ step \in {"down", "idle", "ack", "dispatch", "check", "report"}
    /\ batch \in Seq(Commands) /\ Len(batch) <= PendingLimit
    /\ step \in {"down", "idle"} <=> batch = <<>>
    /\ {verdict, workVerdict} \subseteq {"done", "failed"}
    /\ worker \in Commands \cup {NoCommand}
    /\ work \in {"none", "decide", "script", "write", "report", "finally", "ending"}
    /\ modeThread \in BOOLEAN
    /\ mode \in {"normal", "switching", "mapping", "mapping_error"}
    /\ lock \in {"absent", "fresh", "stale"}
    /\ scripts \subseteq Commands
    /\ stack \in {"voice", "partial", "mapping", "down"}
    /\ dispatched \in Seq(Commands)
    /\ {skipped, excused} \subseteq SUBSET Commands
    /\ orphans \subseteq scripts
    /\ {stolen, strayed} \subseteq BOOLEAN
    /\ faults \in 0 .. MaxFaults
    /\ crashes \in 0 .. MaxCrashes

Init ==
    /\ order = <<>> /\ status = [c \in Commands |-> "none"]
    /\ step = "idle" /\ batch = <<>> /\ verdict = "done"
    /\ worker = NoCommand /\ work = "none" /\ workVerdict = "done"
    /\ modeThread = FALSE
    /\ mode = "normal" /\ lock = "absent" /\ scripts = {} /\ stack = "voice"
    /\ dispatched = <<>> /\ skipped = {} /\ excused = {}
    /\ orphans = {} /\ stolen = FALSE /\ strayed = FALSE
    /\ faults = 0 /\ crashes = 0

-----------------------------------------------------------------------------
(***************************************************************************)
(* Backend.                                                                *)
(***************************************************************************)
\* POST /api/commands.
Create(c) ==
    /\ status[c] = "none"
    /\ status' = [status EXCEPT ![c] = "queued"]
    /\ order' = Append(order, c)
    /\ UNCHANGED <<receiver, thread, robot, history, bounds>>

\* The places in the table of the commands in one of these states.
Places(states) == {m \in DOMAIN order : status[order[m]] \in states}

\* The commands at these places, oldest first: the i-th has i places up to its own.
OldestFirst(places) ==
    [i \in 1 .. Cardinality(places) |->
        order[CHOOSE m \in places : Cardinality({n \in places : n <= m}) = i]]

\* Fault variant of PendingCommands: those already sent are listed too.
UnfinishedCommands == OldestFirst(Places({"queued", "sent"}))

\* Fault variant of PendingCommands: the newest come first.
NewestCommands == Reverse(OldestFirst(Places({"queued"})))

\* GET /api/robot/commands/pending, before its LIMIT.
PendingCommands == OldestFirst(Places({"queued"}))

\* ack_command.
AckCommand(c) ==
    status' = IF status[c] = "queued" THEN [status EXCEPT ![c] = "sent"] ELSE status

\* Fault variant of SetResult: only a queued command takes a result.
SetQueuedResult(c, result) ==
    status' = IF status[c] = "queued" THEN [status EXCEPT ![c] = result] ELSE status

\* set_command_result: whatever the status was.
SetResult(c, result) == status' = [status EXCEPT ![c] = result]

\* What becomes of a POST: the backend processes it or not, the robot gets
\* an answer or not.
Answered == UNCHANGED faults
Fault == faults < MaxFaults /\ faults' = faults + 1

-----------------------------------------------------------------------------
(***************************************************************************)
(* The receiver's timer callback.                                          *)
(***************************************************************************)
Current == Head(batch)

NextCommand ==
    /\ batch' = Tail(batch)
    /\ step' = IF Tail(batch) = <<>> THEN "idle" ELSE "ack"

\* Fault variant of Fetched: the LIMIT is not applied.
FetchedAll == PendingCommands

\* LIMIT pending_limit.
Fetched ==
    IF Len(PendingCommands) <= PendingLimit
    THEN PendingCommands ELSE SubSeq(PendingCommands, 1, PendingLimit)

\* _poll up to its loop.  Without an answer it tries again at the next tick.
Poll ==
    /\ step = "idle"
    /\ PendingCommands # <<>>
    /\ batch' = Fetched
    /\ step' = "ack"
    /\ UNCHANGED <<backend, verdict, thread, robot, history, bounds>>

\* _handle begins with the ack, and drops the command when it has no answer.
AckAnswered ==
    /\ step = "ack"
    /\ Answered
    /\ AckCommand(Current)
    /\ step' = "dispatch"
    /\ UNCHANGED <<order, batch, verdict, thread, robot, history, crashes>>

AckUnanswered ==
    /\ step = "ack"
    /\ Fault
    /\ AckCommand(Current)
    /\ skipped' = skipped \cup {Current}
    /\ excused' = excused \cup {Current}
    /\ NextCommand
    /\ UNCHANGED <<order, verdict, thread, robot, dispatched, orphans,
                   stolen, strayed, crashes>>

AckFails ==
    /\ step = "ack"
    /\ Fault
    /\ skipped' = skipped \cup {Current}
    /\ NextCommand
    /\ UNCHANGED <<backend, verdict, thread, robot, dispatched, excused,
                   orphans, stolen, strayed, crashes>>

\* The executor publishes, or fails, or the plan is refused.
DispatchNow ==
    /\ step = "dispatch"
    /\ KindOf[Current] = "plain"
    /\ verdict' \in {"done", "failed"}
    /\ step' = "report"
    /\ dispatched' = Append(dispatched, Current)
    /\ UNCHANGED <<backend, batch, thread, robot, skipped, excused, orphans,
                   stolen, strayed, bounds>>

StartWorker ==
    /\ worker' = Current /\ work' = "decide" /\ modeThread' = TRUE
    /\ dispatched' = Append(dispatched, Current)
    /\ NextCommand
    /\ UNCHANGED <<verdict, workVerdict, excused>>

\* Fault variant of RefuseBusy: it returns without a report.
RefuseSilently ==
    /\ dispatched' = Append(dispatched, Current)
    /\ NextCommand
    /\ UNCHANGED <<verdict, excused, thread>>

\* A switch is running: the command is answered, not carried out.
RefuseBusy ==
    /\ verdict' = "failed"
    /\ step' = "report"
    /\ dispatched' = Append(dispatched, Current)
    /\ UNCHANGED <<batch, excused, thread>>

\* Fault variant of SeesWorker: the receiver does not look.
SeesNothing == FALSE

\* The first look at _mode_thread.
SeesWorker == modeThread

DispatchToWorker ==
    /\ step = "dispatch"
    /\ KindOf[Current] \in SwitchKinds \cup {"save"}
    /\ IF SeesWorker
       THEN step' = "check" /\ UNCHANGED <<batch, verdict, dispatched, excused, thread>>
       ELSE StartWorker
    /\ UNCHANGED <<backend, robot, skipped, orphans, stolen, strayed, bounds>>

\* The second look, is_alive().  The worker may have come to its end since
\* the first, after or before (see Dies) _mode_thread was read again.
CheckWorker ==
    /\ step = "check"
    /\ \/ work # "none" /\ RefuseBusy
       \/ work = "none" /\ StartWorker
    /\ UNCHANGED <<backend, robot, skipped, orphans, stolen, strayed, bounds>>

\* _report's POST; a failure is only logged.
ReportAnswered ==
    /\ step = "report"
    /\ Answered
    /\ SetResult(Current, verdict)
    /\ NextCommand
    /\ UNCHANGED <<order, verdict, thread, robot, history, crashes>>

ReportFails ==
    /\ step = "report"
    /\ Fault
    /\ excused' = excused \cup {Current}
    /\ NextCommand
    /\ UNCHANGED <<backend, verdict, thread, robot, dispatched, skipped,
                   orphans, stolen, strayed, crashes>>

-----------------------------------------------------------------------------
(***************************************************************************)
(* The worker: _run_mode_job over ModeController.set_mode and save_map.    *)
(***************************************************************************)
WorkerReports(result) == work' = "report" /\ workVerdict' = result

\* The switches whose script is running.
Switching == {c \in scripts : KindOf[c] \in SwitchKinds}

\* set_mode up to its script: the target is the current mode, another
\* switch holds a fresh lock, or the switch begins.
BeginSwitch ==
    /\ work = "decide" /\ KindOf[worker] \in SwitchKinds
    /\ CASE mode = KindOf[worker] ->
              WorkerReports("done") /\ UNCHANGED <<mode, lock, scripts, stolen, strayed>>
         [] mode # KindOf[worker] /\ lock = "fresh" ->
              WorkerReports("failed") /\ UNCHANGED <<mode, lock, scripts, stolen, strayed>>
         [] mode # KindOf[worker] /\ lock # "fresh" ->
              /\ lock' = "fresh"
              /\ mode' = "switching"
              /\ scripts' = scripts \cup {worker}
              /\ work' = "script"
              /\ stolen' = (Switching # {} /\ (stolen \/ lock = "stale"))
              /\ strayed' = FALSE
              /\ UNCHANGED workVerdict
    /\ UNCHANGED <<backend, receiver, worker, modeThread, stack, dispatched,
                   skipped, excused, orphans, bounds>>

BeginSave ==
    /\ work = "decide" /\ KindOf[worker] = "save"
    /\ IF mode = "mapping"
       THEN scripts' = scripts \cup {worker} /\ work' = "script" /\ UNCHANGED workVerdict
       ELSE WorkerReports("failed") /\ UNCHANGED scripts
    /\ UNCHANGED <<backend, receiver, worker, modeThread, mode, lock, stack,
                   history, bounds>>

\* The stack after the script of a command of this kind.  mapping_mode_on.sh
\* takes down what it could not bring up; mapping_mode_off.sh leaves it.
StackAfter(kind, ok) ==
    CASE kind = "mapping" -> IF ok THEN "mapping" ELSE "down"
      [] kind = "normal"  -> IF ok THEN "voice" ELSE "partial"
      [] kind = "save"    -> stack

\* A script exits, with code 0 or another.
ScriptEnds(c, ok) ==
    /\ c \in scripts
    /\ scripts' = scripts \ {c}
    /\ stack' = StackAfter(KindOf[c], ok)
    /\ IF work = "script" /\ worker = c
       THEN work' = "write" /\ workVerdict' = IF ok THEN "done" ELSE "failed"
       ELSE UNCHANGED <<work, workVerdict>>
    /\ orphans' = orphans \ {c}
    /\ UNCHANGED <<backend, receiver, worker, modeThread, mode, lock, dispatched,
                   skipped, excused, stolen, strayed, bounds>>

\* run_script cannot run it: code 127, and nothing has changed.
ScriptNotRun ==
    /\ work = "script"
    /\ scripts' = scripts \ {worker} /\ orphans' = orphans \ {worker}
    /\ work' = "write" /\ workVerdict' = "failed"
    /\ strayed' = (strayed \/ KindOf[worker] \in SwitchKinds)
    /\ UNCHANGED <<backend, receiver, worker, modeThread, mode, lock, stack,
                   dispatched, skipped, excused, stolen, bounds>>

\* Fault variant of ModeAfter: a failed start is not told apart.
ModeAfterAny(kind, ok) == kind

\* What set_mode writes to the state file after the script: "normal" also when
\* part of the voice stack is not back, so that trying again changes nothing.
ModeAfter(kind, ok) == IF kind = "mapping" /\ ~ok THEN "mapping_error" ELSE kind

\* The rest of set_mode and save_map.  A failed exit script is a warning,
\* reported as done.
EndWork ==
    /\ work = "write"
    /\ IF KindOf[worker] \in SwitchKinds
       THEN /\ mode' = ModeAfter(KindOf[worker], workVerdict = "done")
            /\ lock' = "absent"
            /\ WorkerReports(IF KindOf[worker] = "normal" THEN "done" ELSE workVerdict)
       ELSE WorkerReports(workVerdict) /\ UNCHANGED <<mode, lock>>
    /\ UNCHANGED <<backend, receiver, worker, modeThread, scripts, stack,
                   history, bounds>>

WorkReportAnswered ==
    /\ work = "report"
    /\ Answered
    /\ SetResult(worker, workVerdict)
    /\ work' = "finally"
    /\ UNCHANGED <<order, receiver, worker, workVerdict, modeThread, robot,
                   history, crashes>>

WorkReportFails ==
    /\ work = "report"
    /\ Fault
    /\ excused' = excused \cup {worker}
    /\ work' = "finally"
    /\ UNCHANGED <<backend, receiver, worker, workVerdict, modeThread, robot,
                   dispatched, skipped, orphans, stolen, strayed, crashes>>

\* _mode_thread = None, then the thread ends.
ForgetThread ==
    /\ work = "finally"
    /\ modeThread' = FALSE
    /\ work' = "ending"
    /\ UNCHANGED <<backend, receiver, worker, workVerdict, robot, history, bounds>>

EndThread ==
    /\ work = "ending"
    /\ work' = "none" /\ worker' = NoCommand
    /\ UNCHANGED <<backend, receiver, workVerdict, modeThread, robot, history,
                   bounds>>

-----------------------------------------------------------------------------
(***************************************************************************)
(* Time and crashes.                                                       *)
(***************************************************************************)
LockExpires ==
    /\ lock = "fresh" /\ lock' = "stale"
    /\ UNCHANGED <<backend, receiver, thread, mode, scripts, stack, history, bounds>>

\* The commands between their ack and their report.
InHand == (IF step \in {"dispatch", "check", "report"} THEN {Current} ELSE {})
            \cup (IF work \in {"decide", "script", "write", "report"}
                  THEN {worker} ELSE {})

ProcessGone ==
    /\ step' = "down" /\ batch' = <<>> /\ verdict' = "done"
    /\ worker' = NoCommand /\ work' = "none" /\ workVerdict' = "done"
    /\ modeThread' = FALSE
    /\ excused' = excused \cup InHand
    /\ UNCHANGED <<backend, dispatched, skipped, faults>>

\* The node is killed; its scripts go on.
Crash ==
    /\ step # "down"
    /\ crashes < MaxCrashes /\ crashes' = crashes + 1
    /\ ProcessGone
    /\ orphans' = scripts
    /\ UNCHANGED <<robot, stolen, strayed>>

\* The worker has set _mode_thread to None between the two looks: the
\* AttributeError leaves rclpy.spin and ends the node.
Dies ==
    /\ step = "check" /\ ~modeThread
    /\ ProcessGone
    /\ orphans' = scripts
    /\ UNCHANGED <<robot, stolen, strayed, crashes>>

\* The lock is in /run and goes, the state file stays; the autostart brings
\* the voice stack up.
Reboot ==
    /\ crashes < MaxCrashes /\ crashes' = crashes + 1
    /\ ProcessGone
    /\ lock' = "absent" /\ scripts' = {} /\ stack' = "voice"
    /\ orphans' = {} /\ stolen' = FALSE
    /\ strayed' = (mode # "normal")
    /\ UNCHANGED mode

\* Somebody starts the node (again): nothing on the robot watches over it.
Start ==
    /\ step = "down" /\ step' = "idle"
    /\ UNCHANGED <<backend, batch, verdict, thread, robot, history, bounds>>

Receive == \/ Poll \/ AckAnswered \/ AckUnanswered \/ AckFails
           \/ DispatchNow \/ DispatchToWorker \/ CheckWorker
           \/ ReportAnswered \/ ReportFails

Work == \/ BeginSwitch \/ BeginSave \/ EndWork
        \/ ScriptNotRun \/ WorkReportAnswered \/ WorkReportFails \/ ForgetThread \/ EndThread

Scripts == \E c \in scripts, ok \in BOOLEAN : ScriptEnds(c, ok)

Next ==
    \/ \E c \in Commands : Create(c)
    \/ Receive \/ Work \/ Scripts
    \/ LockExpires \/ Crash \/ Dies \/ Reboot \/ Start

Spec == Init /\ [][Next]_vars

\* The timer fires, threads run, and the scripts, which have their own
\* limits, end.
FairSpec == Spec /\ WF_vars(Receive) /\ WF_vars(Work) /\ WF_vars(Scripts)

\* ... and a node that went down is started again.
RestartedSpec == FairSpec /\ WF_vars(Start)
-----------------------------------------------------------------------------
(***************************************************************************)
(* Properties.                                                             *)
(***************************************************************************)
\* No command is taken up twice, whatever answers are lost and whenever
\* the node is restarted: the ack takes it off the pending list first.
AtMostOnce == \A m, n \in DOMAIN dispatched : dispatched[m] = dispatched[n] => m = n

\* The robot takes commands up in the order they were given; one is
\* overtaken only if its ack went wrong or the node went down with it in hand.
InOrder ==
    \A m, n \in DOMAIN order :
        /\ m < n
        /\ Contains(dispatched, order[n])
        /\ order[m] \notin skipped \cup excused
        => \E p, q \in DOMAIN dispatched :
             p < q /\ dispatched[p] = order[m] /\ dispatched[q] = order[n]

\* A command in "sent" is being worked on, unless the answer to its ack or
\* its report was lost, or the node went down with it in hand.
NeverForgotten ==
    \A c \in Commands : status[c] = "sent" => c \in InHand \cup excused

\* Two scripts never run side by side (one switching the stack under the
\* other's feet) but for those a node that went down has left running; and
\* the lock keeps two switches apart even then, until it has expired.
OneScript ==
    /\ Cardinality(scripts \ orphans) <= 1
    /\ ~stolen => Cardinality(Switching) <= 1

\* The state file tells the truth about the stack, and "normal" no more than
\* that the mapping stack is gone and the voice stack was started.  It is
\* wrong after a reboot while it does not say "normal" and after a script
\* that could not be run, until the next switch begins, and after a switch
\* that took the lock of one still running.
ModeFileTrue ==
    ~stolen /\ ~strayed =>
        /\ mode = "mapping" => stack = "mapping"
        /\ mode = "normal" => stack \in {"voice", "partial"}
        /\ mode = "mapping_error" => stack = "down"

\* Every command gets its receipt in the end: again and again all those
\* created have one or are excused, unless the node is down and nobody
\* starts it.
Resolved ==
    []<>\/ step = "down"
        \/ \A c \in Commands \ excused : status[c] \in {"none", "done", "failed"}

\* The channel gives the App what module CommandLifecycle promises; a command
\* is taken up when its ack was answered and it is dispatched.
Lifecycle == INSTANCE CommandLifecycle WITH taken <- Range(dispatched)

ImplementsLifecycle == Lifecycle!Spec

-----------------------------------------------------------------------------
(***************************************************************************)
(* What the operations manual says and this code does not keep.            *)
(***************************************************************************)
\* docs/ops/lab_mapping_procedure.md: "switching" lasts a dozen seconds, in
\* which the App disables its switch.
SwitchingEnds == mode = "switching" ~> mode # "switching"
=============================================================================
