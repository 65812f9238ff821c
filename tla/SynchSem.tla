------------------------------ MODULE SynchSem ------------------------------
(***************************************************************************)
(* Lab 2's other Lock and Condition, built from semaphores                 *)
(* (2/synch-sem.cc).  The semaphores are those of Synch; here P is a step  *)
(* enabled while the value is positive and V adds one, which is what       *)
(* ImplementsMonitor shows of them.                                        *)
(*                                                                         *)
(* P and V enable interrupts when they return, so a thread may be          *)
(* preempted after every one of them: each step below is the code between  *)
(* two such points.                                                        *)
(***************************************************************************)
EXTENDS Naturals, FiniteSets

CONSTANTS
    Thread,
    NoThread    \* the NULL pointer

ASSUME NoThreadAssumption == NoThread \notin Thread

VARIABLES
    lockValue,  \* the value of Lock::sem
    lockOwner,
    condValue,  \* the value of Condition::sem
    count,      \* Condition::count
    at          \* where each thread is

semVars == <<lockValue, lockOwner, condValue, count, at>>

\* out        no lock held
\* acquired   back from sem->P() in Lock::Acquire, lockOwner not yet set
\* in         between Acquire and Release
\* released   in Wait, after Release and before count++
\* waiting    in Wait, blocked in sem->P()
\* reacquire  in Wait, after sem->P(), calling Acquire
\* broadcast  in Broadcast, after sem->V() and before count--
Place == {"out", "acquired", "in", "released", "waiting", "reacquire", "broadcast"}

SemTypeOK ==
    /\ lockValue \in Nat
    /\ lockOwner \in Thread \cup {NoThread}
    /\ condValue \in Nat
    /\ count \in Nat
    /\ at \in [Thread -> Place]

\* The constructor leaves lockOwner unset: it may even be a thread's address.
SemInit ==
    /\ lockValue = 1
    /\ lockOwner \in Thread \cup {NoThread}
    /\ condValue = 0
    /\ count = 0
    /\ at = [t \in Thread |-> "out"]

Go(t, from, to) == at[t] = from /\ at' = [at EXCEPT ![t] = to]

\* sem->P() of Lock::Acquire, from a client or at the end of Wait.
AcquireP(t) ==
    /\ Go(t, "out", "acquired") \/ Go(t, "reacquire", "acquired")
    /\ lockValue > 0
    /\ lockValue' = lockValue - 1
    /\ UNCHANGED <<lockOwner, condValue, count>>

SetOwner(t) ==
    /\ Go(t, "acquired", "in")
    /\ lockOwner' = t
    /\ UNCHANGED <<lockValue, condValue, count>>

\* Lock::Release: lockOwner is cleared before V() and V does not enable
\* interrupts before it has raised the value.
FreeLock == lockValue' = lockValue + 1 /\ lockOwner' = NoThread

Release(t) ==
    /\ Go(t, "in", "out")
    /\ FreeLock
    /\ UNCHANGED <<condValue, count>>

\* The first part of Condition::Wait.
WaitRelease(t) ==
    /\ Go(t, "in", "released")
    /\ FreeLock
    /\ UNCHANGED <<condValue, count>>

\* A variant that counts a waiter only if P() has to wait.
WaitCount_OnlyIfBlocked(t) ==
    /\ \/ Go(t, "released", "waiting") /\ condValue = 0 /\ count' = count + 1
          /\ UNCHANGED condValue
       \/ Go(t, "released", "reacquire") /\ condValue > 0 /\ condValue' = condValue - 1
          /\ UNCHANGED count
    /\ UNCHANGED <<lockValue, lockOwner>>

\* count++ and the call of sem->P(), which takes a token or goes to sleep.
WaitCount(t) ==
    /\ count' = count + 1
    /\ \/ Go(t, "released", "waiting") /\ condValue = 0 /\ UNCHANGED condValue
       \/ Go(t, "released", "reacquire") /\ condValue > 0 /\ condValue' = condValue - 1
    /\ UNCHANGED <<lockValue, lockOwner>>

\* A sleeping waiter takes a token.
WaitP(t) ==
    /\ Go(t, "waiting", "reacquire")
    /\ condValue > 0
    /\ condValue' = condValue - 1
    /\ UNCHANGED <<lockValue, lockOwner, count>>

Signal(t) ==
    /\ at[t] = "in" /\ count > 0
    /\ count' = count - 1
    /\ condValue' = condValue + 1
    /\ UNCHANGED <<lockValue, lockOwner, at>>

\* Broadcast's loop: V() may be followed by a preemption, then count-- and the
\* test of the loop.
BroadcastV(t) ==
    /\ Go(t, "in", "broadcast") /\ count > 0
    /\ condValue' = condValue + 1
    /\ UNCHANGED <<lockValue, lockOwner, count>>

BroadcastLoop(t) ==
    /\ count' = count - 1
    /\ \/ Go(t, "broadcast", "in") /\ count' = 0 /\ UNCHANGED condValue
       \/ Go(t, "broadcast", "broadcast") /\ count' > 0 /\ condValue' = condValue + 1
    /\ UNCHANGED <<lockValue, lockOwner>>

SemNext ==
    \E t \in Thread :
        \/ AcquireP(t) \/ SetOwner(t) \/ Release(t)
        \/ WaitRelease(t) \/ WaitCount(t) \/ WaitP(t)
        \/ Signal(t) \/ BroadcastV(t) \/ BroadcastLoop(t)

SemSpec == SemInit /\ [][SemNext]_semVars

-----------------------------------------------------------------------------
(***************************************************************************)
(* The lock's token is with one thread or in the semaphore, never both or  *)
(* twice, and whoever may call Release, Wait, Signal or Broadcast passes   *)
(* the assertion isHeldByCurrentThread() although lockOwner is not set     *)
(* together with the semaphore.                                            *)
(***************************************************************************)
Holders == {t \in Thread : at[t] \in {"acquired", "in", "broadcast"}}

LockToken ==
    /\ lockValue \in {0, 1}
    /\ lockValue = 1 => Holders = {}
    /\ \A t, u \in Holders : t = u
    /\ \A t \in Holders : at[t] # "acquired" => lockOwner = t

Waiting      == {t \in Thread : at[t] = "waiting"}
Broadcasting == {t \in Thread : at[t] = "broadcast"}

(***************************************************************************)
(* What Signal and Broadcast do for the threads that are asleep in P().    *)
(* Signal does nothing, and Broadcast ends, when count is zero: then every *)
(* sleeper has its wake-up posted, although threads count themselves       *)
(* without the lock, also halfway through a Broadcast, and although one    *)
(* that comes later may take the wake-up posted for a sleeper.  So the     *)
(* sleeper that is robbed is found by the next Signal; that it is not      *)
(* robbed, or that a thread on its way to P() is found, is not said.       *)
(***************************************************************************)
SleepersReached ==
    \A t \in Thread : at[t] = "in" /\ count = 0 => condValue = Cardinality(Waiting)

\* No wake-up is left over for a thread that calls Wait when nobody sleeps.
NoneLeftOver == condValue <= Cardinality(Waiting)

WakeUpsExact == SemTypeOK /\ LockToken /\ SleepersReached /\ NoneLeftOver

(***************************************************************************)
(* 2/synch-sem.h:126-129 says of Wait that "releasing the lock and going   *)
(* to sleep are *atomic*": whoever holds the lock and finds count zero     *)
(* would know that nobody is in Wait.  A thread that has released the lock *)
(* and not yet counted itself is one that Signal does not find.            *)
(***************************************************************************)
SignalFindsWaiters ==
    \A t, u \in Thread : at[t] = "in" /\ count = 0 => at[u] # "released"
=============================================================================
