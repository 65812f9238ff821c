------------------------------- MODULE Monitor -------------------------------
(***************************************************************************)
(* What a lock, its condition variables and a semaphore promise their      *)
(* callers, without queues, a ready list or a processor: the contract that *)
(* the comments of 3/synch.h state and that the classes built on them      *)
(* (EventBarrier, AlarmClock, BoundedBuffer, Table) rely on.               *)
(***************************************************************************)
EXTENDS Naturals

CONSTANTS Thread, NoThread, Cond, InitialValue

VARIABLES
    holder,     \* the thread that holds the lock, or NoThread
    want,       \* threads that are to get the lock before they go on
    waiting,    \* the threads waiting on each condition
    tokens      \* the semaphore's value

vars == <<holder, want, waiting, tokens>>

Init ==
    /\ holder = NoThread
    /\ want = {}
    /\ waiting = [c \in Cond |-> {}]
    /\ tokens = InitialValue

\* A thread starts to wait for the lock.
Request(t) ==
    /\ holder # NoThread /\ t # holder /\ t \notin want
    /\ want' = want \cup {t}
    /\ UNCHANGED <<holder, waiting, tokens>>

\* A thread that wants the lock, or comes by while it is free, gets it.
Take(t) ==
    /\ holder = NoThread
    /\ holder' = t
    /\ want' = want \ {t}
    /\ UNCHANGED <<waiting, tokens>>

Release(t) ==
    /\ holder = t
    /\ holder' = NoThread
    /\ UNCHANGED <<want, waiting, tokens>>

\* Releasing the lock and starting to wait are one step.
Wait(t, c) ==
    /\ holder = t
    /\ holder' = NoThread
    /\ waiting' = [waiting EXCEPT ![c] = @ \cup {t}]
    /\ UNCHANGED <<want, tokens>>

\* A signal moves one waiting thread, if there is one, ...
Signal(t, c) ==
    /\ holder = t
    /\ \E u \in waiting[c] :
          /\ waiting' = [waiting EXCEPT ![c] = @ \ {u}]
          /\ want' = want \cup {u}
    /\ UNCHANGED <<holder, tokens>>

\* ... and a broadcast moves them all: none goes on without the lock.
Broadcast(t, c) ==
    /\ holder = t
    /\ waiting' = [waiting EXCEPT ![c] = {}]
    /\ want' = want \cup waiting[c]
    /\ UNCHANGED <<holder, tokens>>

Down == tokens > 0 /\ tokens' = tokens - 1 /\ UNCHANGED <<holder, want, waiting>>
Up   == tokens' = tokens + 1 /\ UNCHANGED <<holder, want, waiting>>

Next ==
    \/ \E t \in Thread : Request(t) \/ Take(t) \/ Release(t)
    \/ \E t \in Thread, c \in Cond : Wait(t, c) \/ Signal(t, c) \/ Broadcast(t, c)
    \/ Down \/ Up

Spec == Init /\ [][Next]_vars
=============================================================================
