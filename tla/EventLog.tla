------------------------------- MODULE EventLog -------------------------------
(***************************************************************************)
(* What the backend's events table promises to the manager, whatever the   *)
(* network does to the uploads: an event appears once; from open it is     *)
(* handled, from handled it is only deleted; and a deleted one comes back, *)
(* unhandled, only by an upload whose answer the robot never saw, once for *)
(* each such upload.                                                       *)
(***************************************************************************)
EXTENDS Naturals

CONSTANT Events

VARIABLES
    row,      \* what the table shows of each event
    doubted   \* how often the robot may still upload an event again

vars == <<row, doubted>>

TypeOK ==
    /\ row \in [Events -> {"absent", "open", "handled", "purged"}]
    /\ doubted \in [Events -> Nat]

Init == row = [e \in Events |-> "absent"] /\ doubted = [e \in Events |-> 0]

\* The answer to an upload of e is lost, whether it was processed or not.
Doubt(e) == doubted' = [doubted EXCEPT ![e] = @ + 1] /\ UNCHANGED row

Upload(e) ==
    /\ row[e] = "absent"
    /\ row' = [row EXCEPT ![e] = "open"]
    /\ doubted' \in {doubted, [doubted EXCEPT ![e] = @ + 1]}

\* The repeated upload changes nothing, unless the event has been deleted; it
\* may itself get no answer.
Repeat(e) ==
    /\ doubted[e] > 0 /\ row[e] # "absent"
    /\ row' = [row EXCEPT ![e] = IF @ = "purged" THEN "open" ELSE @]
    /\ doubted' \in {doubted, [doubted EXCEPT ![e] = @ - 1]}

Handle(e) ==
    /\ row[e] = "open"
    /\ row' = [row EXCEPT ![e] = "handled"]
    /\ UNCHANGED doubted

Purge(old) ==
    /\ \A e \in old : row[e] = "handled"
    /\ row' = [e \in Events |-> IF e \in old THEN "purged" ELSE row[e]]
    /\ UNCHANGED doubted

Next ==
    \/ \E e \in Events : Doubt(e) \/ Upload(e) \/ Repeat(e) \/ Handle(e)
    \/ \E old \in SUBSET Events : Purge(old)

Spec == Init /\ [][Next]_vars
=============================================================================
