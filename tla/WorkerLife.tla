----------------------------- MODULE WorkerLife -----------------------------
(***************************************************************************)
(* The life of a worker as far as its master is concerned: where it is,    *)
(* what wakes it, and what SIGTERM does to it there.                       *)
(***************************************************************************)
EXTENDS WorkerPlaces

VARIABLES place, running_

vars == <<place, running_>>

Init == place = "loop" /\ running_ = TRUE

Step == place' \in OwnStep(place, running_) /\ UNCHANGED running_

Wake == place' \in Woken(place) /\ UNCHANGED running_

\* An exception, a fault or SIGPIPE: only in a handler.
Dies ==
    /\ place \in {"serving", "draining"}
    /\ place' = "dead"
    /\ UNCHANGED running_

Sigterm ==
    /\ place \in LoopPlaces /\ running_
    /\ place' \in Interrupted(place)
    /\ running_' = FALSE

Next == Step \/ Wake \/ Dies \/ Sigterm

Spec == Init /\ [][Next]_vars
=============================================================================
