------------------------------- MODULE MCLab3 -------------------------------
(***************************************************************************)
(* The two tests of lab 3 that use event barriers (ThreadTest in           *)
(* 3/threadtest.cc runs one of them): the test of one barrier with a       *)
(* signaller and three waiters, and two riders of a building of four       *)
(* floors.  In either the other test's state stays as it is.               *)
(***************************************************************************)
EXTENDS BarrierTest, Elevator, TLC

MCFloors == 4
MCId     == {"In", "Out"} \X {1, -1} \X (1..MCFloors)

VARIABLE test   \* "barrier" (test 2) or "elevator" (test 4)

vars == <<test, barrierVars, left, liftVars>>

Init ==
    /\ test \in {"barrier", "elevator"}
    /\ TestInit
    /\ test = "barrier" => from = [r \in Rider |-> 1] /\ to = [r \in Rider |-> 2]
    /\ LiftInit
    /\ test = "barrier" => callDir = [f \in Floor |-> BOTH]

InTest(step)     == test = "barrier" /\ step /\ UNCHANGED <<test, liftVars>>
InElevator(step) == test = "elevator" /\ step /\ UNCHANGED <<test, left>>

Next == InTest(TestNext) \/ InElevator(LiftNext)

\* A thread that is not asleep goes on (ReadyRuns in Synch), and the threads
\* that have been let through a barrier call Complete.
Fairness ==
    /\ \A t \in Thread : WF_vars(InTest(Continue(t))) /\ WF_vars(InTest(Respond(t)))
    /\ WF_vars(InElevator(LiftStep))
    /\ \A r \in Rider : WF_vars(InElevator(RiderStep(r)))

Spec == Init /\ [][Next]_vars /\ Fairness
=============================================================================
