-------------------------------- MODULE Synch --------------------------------
(***************************************************************************)
(* The synchronization primitives of lab 3, 3/synch.cc (the semaphore,     *)
(* lock and condition variable are those of lab 2, 2/synch-sleep.cc),      *)
(* built on Thread::Sleep and Scheduler::ReadyToRun with interrupts off.   *)
(*                                                                         *)
(* Any number of threads use one lock, the conditions of Cond with that    *)
(* lock, and one semaphore; a device may V the semaphore from its          *)
(* interrupt handler, as the disk, console and network drivers do.         *)
(***************************************************************************)
EXTENDS Scheduler, FiniteSets

CONSTANTS
    Cond,           \* the condition variables used with the lock
    InitialValue,   \* Semaphore::Semaphore's initialValue
    MaxValue        \* bound: value plus pending requests never exceed it

ASSUME SynchAssumption == InitialValue \in Nat /\ MaxValue \in Nat

VARIABLES
    isLockBusy, lockOwner, lockQueue,   \* class Lock
    condQueue,                          \* Condition::queue of each condition
    value, semQueue,                    \* class Semaphore
    pendingIO,      \* interrupts scheduled whose handler will V the semaphore
    call,           \* what each thread is in the middle of
    inside          \* threads between Acquire's return and Release or Wait

lock == <<isLockBusy, lockOwner, lockQueue, inside>>
sem  == <<value, semQueue>>
vars == <<sched, lock, condQueue, sem, pendingIO, call>>

\* "run": outside the primitives, interrupts enabled.  Otherwise the primitive
\* in whose Sleep() the thread is, or has just been woken from.
Call == {"run", "Acquire", "Wait", "P", "done"}

TypeOK ==
    /\ SchedTypeOK
    /\ isLockBusy \in BOOLEAN
    /\ lockOwner \in Thread \cup {NoThread}
    /\ lockQueue \in Seq(Thread)
    /\ condQueue \in [Cond -> Seq(Thread)]
    /\ value \in Nat
    /\ semQueue \in Seq(Thread)
    /\ pendingIO \in Nat
    /\ call \in [Thread -> Call]
    /\ inside \subseteq Thread

\* Lock's constructor leaves lockOwner unset: it may hold any pointer.
Init ==
    /\ SchedInit
    /\ isLockBusy = FALSE
    /\ lockOwner \in Thread \cup {NoThread}
    /\ lockQueue = <<>>
    /\ condQueue = [c \in Cond |-> <<>>]
    /\ value = InitialValue
    /\ semQueue = <<>>
    /\ pendingIO = 0
    /\ call = [t \in Thread |-> "run"]
    /\ inside = {}

\* t has the processor and is about to start an operation.
Running(t) ==
    machineStatus = "SystemMode" /\ currentThread = t /\ call[t] = "run"

\* t has the processor again after the Sleep() inside primitive p.
Woken(t, p) ==
    machineStatus = "SystemMode" /\ currentThread = t /\ call[t] = p

-----------------------------------------------------------------------------
\* A variant of the loop that tests isLockBusy once ("if" for "while"): a
\* thread woken from its sleep takes the lock without looking again.
AcquireLoop_NoRetest(t) ==
    \/ /\ isLockBusy /\ call[t] = "run"
       /\ lockQueue' = Append(lockQueue, t)
       /\ call' = [call EXCEPT ![t] = "Acquire"]
       /\ Sleep(<<>>, threadToBeDestroyed)
       /\ UNCHANGED <<isLockBusy, lockOwner, inside>>
    \/ /\ ~isLockBusy \/ call[t] # "run"
       /\ isLockBusy' = TRUE
       /\ lockOwner' = t
       /\ inside' = inside \cup {t}
       /\ call' = [call EXCEPT ![t] = "run"]
       /\ UNCHANGED <<lockQueue, sched>>

\* The body of Lock::Acquire from the test of its while loop to the next
\* Sleep() or to its return.
AcquireLoop(t) ==
    \/ /\ isLockBusy
       /\ lockQueue' = Append(lockQueue, t)
       /\ call' = [call EXCEPT ![t] = "Acquire"]
       /\ Sleep(<<>>, threadToBeDestroyed)
       /\ UNCHANGED <<isLockBusy, lockOwner, inside>>
    \/ /\ ~isLockBusy
       /\ isLockBusy' = TRUE
       /\ lockOwner' = t
       /\ inside' = inside \cup {t}
       /\ call' = [call EXCEPT ![t] = "run"]
       /\ UNCHANGED <<lockQueue, sched>>

\* The effect of Lock::Release on the lock; the caller readies First(lockQueue).
FreeLock(t) ==
    /\ lockQueue' = Rest(lockQueue)
    /\ isLockBusy' = FALSE
    /\ lockOwner' = NoThread
    /\ inside' = inside \ {t}

Acquire(t) ==
    /\ Running(t) /\ t \notin inside
    /\ AcquireLoop(t)
    /\ UNCHANGED <<condQueue, sem, pendingIO>>

\* A variant of Lock::Release that wakes a waiter only when several wait.
Release_WakesLate(t) ==
    /\ Running(t) /\ t \in inside
    /\ ReadyToRun(IF Len(lockQueue) > 1 THEN <<Head(lockQueue)>> ELSE <<>>)
    /\ lockQueue' = IF Len(lockQueue) > 1 THEN Tail(lockQueue) ELSE lockQueue
    /\ isLockBusy' = FALSE
    /\ lockOwner' = NoThread
    /\ inside' = inside \ {t}
    /\ UNCHANGED <<condQueue, sem, pendingIO, call>>

Release(t) ==
    /\ Running(t) /\ t \in inside
    /\ ReadyToRun(First(lockQueue))
    /\ FreeLock(t)
    /\ UNCHANGED <<condQueue, sem, pendingIO, call>>

-----------------------------------------------------------------------------
\* Condition::Wait up to its Sleep(): Release, enqueue and sleep in one step,
\* since interrupts stay off.
Wait(t, c) ==
    /\ Running(t) /\ t \in inside
    /\ FreeLock(t)
    /\ condQueue' = [condQueue EXCEPT ![c] = Append(@, t)]
    /\ call' = [call EXCEPT ![t] = "Wait"]
    /\ Sleep(First(lockQueue), threadToBeDestroyed)
    /\ UNCHANGED <<sem, pendingIO>>

\* A variant of Condition::Signal that wakes the thread and leaves it queued.
Signal_KeepsQueued(t, c) ==
    /\ Running(t) /\ t \in inside
    /\ ReadyToRun(First(condQueue[c]))
    /\ UNCHANGED <<lock, condQueue, sem, pendingIO, call>>

\* A variant of Condition::Signal that does not check that the lock is held.
Signal_Unchecked(t, c) ==
    /\ Running(t)
    /\ ReadyToRun(First(condQueue[c]))
    /\ condQueue' = [condQueue EXCEPT ![c] = Rest(@)]
    /\ UNCHANGED <<lock, sem, pendingIO, call>>

Signal(t, c) ==
    /\ Running(t) /\ t \in inside
    /\ ReadyToRun(First(condQueue[c]))
    /\ condQueue' = [condQueue EXCEPT ![c] = Rest(@)]
    /\ UNCHANGED <<lock, sem, pendingIO, call>>

\* A variant of Condition::Broadcast that stops after the first thread and
\* forgets the others.
Broadcast_DropsRest(t, c) ==
    /\ Running(t) /\ t \in inside
    /\ ReadyToRun(First(condQueue[c]))
    /\ condQueue' = [condQueue EXCEPT ![c] = <<>>]
    /\ UNCHANGED <<lock, sem, pendingIO, call>>

Broadcast(t, c) ==
    /\ Running(t) /\ t \in inside
    /\ ReadyToRun(condQueue[c])
    /\ condQueue' = [condQueue EXCEPT ![c] = <<>>]
    /\ UNCHANGED <<lock, sem, pendingIO, call>>

-----------------------------------------------------------------------------
\* The body of Semaphore::P from the test of its while loop.
PLoop(t) ==
    \/ /\ value = 0
       /\ semQueue' = Append(semQueue, t)
       /\ call' = [call EXCEPT ![t] = "P"]
       /\ Sleep(<<>>, threadToBeDestroyed)
       /\ UNCHANGED value
    \/ /\ value > 0
       /\ value' = value - 1
       /\ call' = [call EXCEPT ![t] = "run"]
       /\ UNCHANGED <<semQueue, sched>>

P(t) ==
    /\ Running(t)
    /\ PLoop(t)
    /\ UNCHANGED <<lock, condQueue, pendingIO>>

\* A variant of Semaphore::V that wakes a thread only when the value was zero.
VBody_WakesAtZero ==
    /\ ReadyToRun(IF value = 0 THEN First(semQueue) ELSE <<>>)
    /\ semQueue' = IF value = 0 THEN Rest(semQueue) ELSE semQueue
    /\ value' = value + 1

\* Semaphore::V
VBody ==
    /\ ReadyToRun(First(semQueue))
    /\ semQueue' = Rest(semQueue)
    /\ value' = value + 1

V(t) ==
    /\ Running(t)
    /\ value + pendingIO < MaxValue
    /\ VBody
    /\ UNCHANGED <<lock, condQueue, pendingIO, call>>

\* The thread starts an I/O operation: Interrupt::Schedule.
StartIO(t) ==
    /\ Running(t)
    /\ value + pendingIO < MaxValue
    /\ pendingIO' = pendingIO + 1
    /\ UNCHANGED <<sched, lock, condQueue, sem, call>>

\* The device handler, run by CheckIfDue from OneTick (a thread has just
\* enabled interrupts) or from Idle: it calls V with interrupts off.
DeviceInterrupt ==
    /\ pendingIO > 0
    /\ Running(currentThread) \/ machineStatus = "IdleMode"
    /\ pendingIO' = pendingIO - 1
    /\ VBody
    /\ UNCHANGED <<lock, condQueue, call>>

-----------------------------------------------------------------------------
\* Thread::Yield, called by the thread or, after the timer's handler has asked
\* for it, by OneTick.
Yield(t) ==
    /\ Running(t)
    /\ YieldCPU
    /\ UNCHANGED <<lock, condQueue, sem, pendingIO, call>>

Fork(t, u) ==
    /\ Running(t)
    /\ ForkThread(u)
    /\ UNCHANGED <<lock, condQueue, sem, pendingIO, call>>

\* Thread::Finish, when the forked function returns.
Finish(t) ==
    /\ Running(t) /\ t \notin inside
    /\ call' = [call EXCEPT ![t] = "done"]
    /\ Sleep(<<>>, t)
    /\ UNCHANGED <<lock, condQueue, sem, pendingIO>>

\* The thread continues inside Acquire or Wait: both retest isLockBusy.
ResumeAcquire(t) ==
    /\ Woken(t, "Acquire") \/ Woken(t, "Wait")
    /\ AcquireLoop(t)
    /\ UNCHANGED <<condQueue, sem, pendingIO>>

\* A variant of Semaphore::P that does not retest the value after its sleep.
ResumeP_NoRetest(t) ==
    /\ Woken(t, "P")
    /\ value' = value - 1
    /\ call' = [call EXCEPT ![t] = "run"]
    /\ UNCHANGED <<semQueue, sched, lock, condQueue, pendingIO>>

ResumeP(t) ==
    /\ Woken(t, "P")
    /\ PLoop(t)
    /\ UNCHANGED <<lock, condQueue, pendingIO>>

IdleDispatch == LeaveIdle /\ UNCHANGED <<lock, condQueue, sem, pendingIO, call>>

Halt ==
    /\ pendingIO = 0
    /\ HaltIdle
    /\ UNCHANGED <<lock, condQueue, sem, pendingIO, call>>

ThreadStep(t) ==
    \/ Acquire(t) \/ Release(t) \/ ResumeAcquire(t)
    \/ \E c \in Cond : Wait(t, c) \/ Signal(t, c) \/ Broadcast(t, c)
    \/ P(t) \/ V(t) \/ ResumeP(t)
    \/ StartIO(t) \/ Yield(t) \/ Finish(t)
    \/ \E u \in Thread : Fork(t, u)

Next ==
    \/ \E t \in Thread : ThreadStep(t)
    \/ DeviceInterrupt \/ IdleDispatch \/ Halt

Spec == Init /\ [][Next]_vars

\* With the random timer the running thread is preempted again and again
\* (Timer::TimerExpired always schedules the next interrupt); code between two
\* enabling points, handlers and the idle loop always go on.
Fairness ==
    /\ \A t \in Thread : WF_vars(Yield(t)) /\ WF_vars(ResumeAcquire(t) \/ ResumeP(t))
    /\ WF_vars(DeviceInterrupt) /\ WF_vars(IdleDispatch)

FairSpec == Spec /\ Fairness

-----------------------------------------------------------------------------
(***************************************************************************)
(* Lock: a thread that has returned from Acquire (or from Wait) and has    *)
(* not released is the owner the lock records, so there is at most one,    *)
(* Release's assertion isHeldByCurrentThread() never fails for it, and     *)
(* fails for every other thread, although lockOwner starts uninitialized.  *)
(***************************************************************************)
LockHeld == \A t \in Thread : t \in inside <=> isLockBusy /\ lockOwner = t

\* At most one thread is between Acquire and Release.
MutualExclusion == \A t, u \in inside : t = u

(***************************************************************************)
(* A sleeping thread is on one wait queue, once: the queue of the          *)
(* primitive it called.  A READY thread is on none, so it can never be     *)
(* made ready a second time, and a finished or destroyed thread is on      *)
(* none, so no list keeps a pointer to freed memory.                       *)
(***************************************************************************)
Sleepers(p) == {t \in Thread : call[t] = p /\ status[t] = "BLOCKED"}

WaitQueuesExact ==
    /\ IsInjective(lockQueue) /\ Range(lockQueue) = Sleepers("Acquire")
    /\ IsInjective(semQueue) /\ Range(semQueue) = Sleepers("P")
    /\ \A c \in Cond : IsInjective(condQueue[c])
    /\ \A c, d \in Cond : c # d => Range(condQueue[c]) \cap Range(condQueue[d]) = {}
    /\ UNION {Range(condQueue[c]) : c \in Cond} = Sleepers("Wait")

(***************************************************************************)
(* No lost wake-up.  While threads wait for the lock it is held, or one of *)
(* the threads woken for it is on its way to retest; while threads wait    *)
(* for the semaphore there are at least as many woken ones as tokens.  So  *)
(* the machine halts only when no waiting thread could go on.              *)
(***************************************************************************)
OnTheirWay(p) == {t \in Thread : call[t] = p /\ status[t] # "BLOCKED"}

NoLostWakeup ==
    /\ lockQueue # <<>> /\ ~isLockBusy => OnTheirWay("Acquire") \cup OnTheirWay("Wait") # {}
    /\ semQueue # <<>> => value <= Cardinality(OnTheirWay("P"))

(***************************************************************************)
(* A thread leaves a condition's queue only while the running thread holds *)
(* the lock, and only together with every thread that has waited longer.   *)
(***************************************************************************)
WokenInTurn ==
    [][\A c \in Cond : condQueue'[c] # condQueue[c] =>
          /\ currentThread \in inside
          /\ \/ \E t \in Thread : condQueue'[c] = Append(condQueue[c], t)
             \/ \E n \in 1..Len(condQueue[c]) :
                    condQueue'[c] = SubSeq(condQueue[c], n + 1, Len(condQueue[c]))
      ]_vars

(***************************************************************************)
(* "Scheduler::Run() will call the destructor, once we're running in the   *)
(* context of a different thread" (thread.cc:134): as long as the machine  *)
(* runs, a finished thread leaves threadToBeDestroyed only by that call.   *)
(***************************************************************************)
CarcassDestroyed ==
    [][/\ threadToBeDestroyed # NoThread /\ threadToBeDestroyed' # threadToBeDestroyed
       /\ machineStatus' = "SystemMode"
          => status'[threadToBeDestroyed] = "DELETED"]_vars

(***************************************************************************)
(* Round robin under the random timer: every READY thread gets the         *)
(* processor, and a token left while threads wait is taken or its waiters  *)
(* are all woken.                                                          *)
(***************************************************************************)
ReadyRuns == \A t \in Thread : status[t] = "READY" ~> status[t] = "RUNNING"

TokenTaken == semQueue # <<>> /\ value > 0 ~> semQueue = <<>> \/ value = 0

Progress == ReadyRuns /\ TokenTaken

-----------------------------------------------------------------------------
(***************************************************************************)
(* What the primitives promise (module Monitor): the holder is the lock's  *)
(* owner, the threads that want it are those in Acquire, and those in Wait *)
(* that have been signalled.                                               *)
(***************************************************************************)
Monitor == INSTANCE Monitor WITH
    holder  <- IF isLockBusy THEN lockOwner ELSE NoThread,
    want    <- {t \in Thread : call[t] = "Acquire"} \cup OnTheirWay("Wait"),
    waiting <- [c \in Cond |-> Range(condQueue[c])],
    tokens  <- value

ImplementsMonitor == Monitor!Spec
=============================================================================
