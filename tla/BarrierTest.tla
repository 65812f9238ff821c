---------------------------- MODULE BarrierTest ----------------------------
(***************************************************************************)
(* The event barrier's users.  Test 2 of lab 3 (BarrierThread in           *)
(* 3/threadtest.cc) has one signaller and several threads that Wait and    *)
(* Complete; here each does so at most Rounds times, in any order, so that *)
(* the barrier is used again after an event, as the elevator does.  The    *)
(* properties are about any user of the barriers.                          *)
(***************************************************************************)
EXTENDS EventBarrier

CONSTANTS
    Signaller,  \* the one thread that calls Signal
    Rounds      \* bound: how often each thread uses the barrier

ASSUME ClientAssumption == Signaller \in Thread /\ Rounds \in Nat /\ Id # {}

VARIABLE left   \* how often each thread will still use the barrier

testVars == <<barrierVars, left>>

TestInit == BarrierInit /\ left = [t \in Thread |-> Rounds]

Waiter == Thread \ {Signaller}
TheBarrier == CHOOSE b \in Id : TRUE

Use(t) == left[t] > 0 /\ left' = [left EXCEPT ![t] = @ - 1]

DoWait(t)   == Use(t) /\ WaitCall(t, TheBarrier)
DoSignal    == Use(Signaller) /\ SignalCall(Signaller, TheBarrier)
Respond(t)  == CompleteCall(t, TheBarrier) /\ UNCHANGED left
Continue(t) == (WaitReturn(t) \/ CompleteReturn(t) \/ SignalResume(t)) /\ UNCHANGED left

TestNext ==
    \/ DoSignal \/ \E t \in Waiter : DoWait(t)
    \/ \E t \in Thread : Respond(t) \/ Continue(t)

-----------------------------------------------------------------------------
(***************************************************************************)
(* What the barrier promises: module Barrier.  A thread returns from Wait  *)
(* only during an event, and from Complete and Signal only when all that   *)
(* arrived have responded, although Wait and Complete do not retest after  *)
(* they have slept and late arrivals join an event that is under way.      *)
(***************************************************************************)
Promise == INSTANCE Barrier WITH
    event     <- barrierStatus[TheBarrier] = SIGNALED,
    arrived   <- Arrived(TheBarrier),
    passed    <- {t \in Thread : at[t] = TheBarrier /\ pc[t] = "passed"},
    responded <- con_complete[TheBarrier]

ImplementsBarrier == Promise!Spec

(***************************************************************************)
(* A thread that has been let through gets out, and Signal returns: the    *)
(* wake-up of con_signal is never lost between its test and its sleep.     *)
(***************************************************************************)
EveryoneOut ==
    \A t \in Thread : pc[t] \in {"passed", "inComplete", "inSignal"} ~> pc[t] = "out"

(***************************************************************************)
(* No event leaves a thread behind: while no event is under way nobody is  *)
(* between Wait and Complete except asleep, and nobody sleeps in Complete  *)
(* or Signal; the count that decides it is exact.                          *)
(***************************************************************************)
NobodyLeftBehind ==
    /\ WaiterNumExact
    /\ \A b \in Id : barrierStatus[b] = UNSIGNALED =>
        /\ con_complete[b] = {} /\ con_signal[b] = {}
        /\ \A t \in Arrived(b) : t \in con_wait[b]
=============================================================================
