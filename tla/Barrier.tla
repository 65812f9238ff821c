------------------------------- MODULE Barrier -------------------------------
(***************************************************************************)
(* What an event barrier promises (3/EventBarrier.cc), without lock,       *)
(* conditions or counters.  While no event is under way arriving threads   *)
(* wait.  An event lets every thread that waits, or arrives during the     *)
(* event, respond; it ends when nobody that arrived is left to respond,    *)
(* and only then do its caller and the threads that have responded go on.  *)
(***************************************************************************)
CONSTANTS Thread

VARIABLES
    event,      \* an event is under way
    arrived,    \* threads that have arrived and not yet responded
    passed,     \* the arrived threads that have been let through to respond
    responded   \* threads that have responded and wait for the others

vars == <<event, arrived, passed, responded>>

Init ==
    /\ event = FALSE
    /\ arrived = {} /\ passed = {} /\ responded = {}

Arrive(t) ==
    /\ t \notin arrived \cup responded
    /\ arrived' = arrived \cup {t}
    /\ UNCHANGED <<event, passed, responded>>

Start == event' = TRUE /\ UNCHANGED <<arrived, passed, responded>>

\* Nobody is let through while no event is under way.
Pass(t) ==
    /\ event /\ t \in arrived
    /\ passed' = passed \cup {t}
    /\ UNCHANGED <<event, arrived, responded>>

\* Arriving during an event lets through at once.
ArrivePass(t) ==
    /\ event /\ t \notin arrived \cup responded
    /\ arrived' = arrived \cup {t}
    /\ passed' = passed \cup {t}
    /\ UNCHANGED <<event, responded>>

\* The last thread to respond goes on at once, the others wait.
Respond(t) ==
    /\ t \in passed
    /\ arrived' = arrived \ {t}
    /\ passed' = passed \ {t}
    /\ responded' = IF arrived' = {} THEN responded ELSE responded \cup {t}
    /\ UNCHANGED event

\* The event ends: all that arrived have responded, and they may go on.
End ==
    /\ event /\ arrived = {}
    /\ event' = FALSE
    /\ responded' = {}
    /\ UNCHANGED <<arrived, passed>>

Next ==
    \/ Start \/ End
    \/ \E t \in Thread : Arrive(t) \/ Pass(t) \/ ArrivePass(t) \/ Respond(t)

Spec == Init /\ [][Next]_vars
=============================================================================
