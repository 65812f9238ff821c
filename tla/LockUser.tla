------------------------------ MODULE LockUser ------------------------------
(***************************************************************************)
(* What the three monitors of lab 2 (2/BoundedBuffer.cc, 2/Table.cc and    *)
(* 2/dllist.cc) and the synchronous disk share: one lock each.  Of the     *)
(* lock they need what Monitor promises and ImplementsMonitor in Synch     *)
(* shows, so here it is its holder.  Nachos is started with -L 1: with     *)
(* is_lock = 0 the monitors do not use their locks, which is how lab 2     *)
(* demonstrates races.                                                     *)
(*                                                                         *)
(* Threads are preempted where a lock or condition enables interrupts and  *)
(* at the calls of Yield that lab 2 planted: a step is the code between    *)
(* two such points.                                                        *)
(***************************************************************************)
CONSTANTS
    Thread,
    NoThread    \* the NULL pointer

ASSUME UserAssumption == NoThread \notin Thread

VARIABLES
    holder,     \* the thread that holds the lock, or NoThread
    pc          \* where each thread is

userVars == <<holder, pc>>

UserInit ==
    /\ holder = NoThread
    /\ pc = [t \in Thread |-> "out"]

Go(t, before, after) ==
    /\ pc[t] = before
    /\ pc' = [pc EXCEPT ![t] = after]

Acquire(t) == holder = NoThread /\ holder' = t

\* Lock::Release, also the one inside Condition::Wait.
Release == holder' = NoThread
=============================================================================
