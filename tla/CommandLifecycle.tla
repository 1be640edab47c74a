--------------------------- MODULE CommandLifecycle ---------------------------
(***************************************************************************)
(* What the App may rely on of a command it has given: it is carried out   *)
(* at most once, it is never offered again after it was sent, it gets at   *)
(* most one receipt, and a receipt means that the robot took the command   *)
(* up.                                                                     *)
(***************************************************************************)
CONSTANT Commands

VARIABLES
    status,   \* what the App sees
    taken     \* the commands the robot has taken up

vars == <<status, taken>>

TypeOK ==
    /\ status \in [Commands -> {"none", "queued", "sent", "done", "failed"}]
    /\ taken \subseteq Commands

Init == status = [c \in Commands |-> "none"] /\ taken = {}

Becomes(c, before, after) ==
    /\ status[c] = before
    /\ status' = [status EXCEPT ![c] = after]

Create(c) == Becomes(c, "none", "queued") /\ UNCHANGED taken

Send(c) == Becomes(c, "queued", "sent") /\ UNCHANGED taken

Take(c) ==
    /\ status[c] = "sent" /\ c \notin taken
    /\ taken' = taken \cup {c}
    /\ UNCHANGED status

Finish(c, result) ==
    /\ c \in taken
    /\ Becomes(c, "sent", result)
    /\ UNCHANGED taken

Next ==
    \E c \in Commands :
        \/ Create(c) \/ Send(c) \/ Take(c)
        \/ \E result \in {"done", "failed"} : Finish(c, result)

Spec == Init /\ [][Next]_vars
=============================================================================
