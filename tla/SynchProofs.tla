----------------------------- MODULE SynchProofs -----------------------------
(***************************************************************************)
(* Proofs about Synch for every set of threads and conditions.             *)
(***************************************************************************)
EXTENDS Synch, SchedulerProofs, FiniteSetTheorems

-----------------------------------------------------------------------------
(* Type correctness of the primitives.                                     *)

\* The types hold in the initial state.
LEMMA InitType == Init => TypeOK
  <1> SUFFICES ASSUME Init PROVE TypeOK
    OBVIOUS
  <1>1. <<>> \in Seq(Thread)
    BY EmptySeq
  <1>2. status \in [Thread -> ThreadStatus]
    BY DEF Init, SchedInit, ThreadStatus
  <1>3. SchedTypeOK
    BY <1>1, <1>2, SchedulerAssumption DEF Init, SchedInit, SchedTypeOK
  <1>4. condQueue \in [Cond -> Seq(Thread)]
    BY <1>1 DEF Init
  <1>5. call \in [Thread -> Call]
    BY DEF Init, Call
  <1> QED
    BY <1>1, <1>3, <1>4, <1>5, SynchAssumption DEF Init, TypeOK

\* Acquire's loop keeps the types, whether it sleeps or takes the lock.
LEMMA AcquireLoopType ==
    ASSUME TypeOK, NEW t \in Thread, AcquireLoop(t),
           UNCHANGED <<condQueue, sem, pendingIO>>
    PROVE  TypeOK'
  <1>1. CASE isLockBusy
    <2>0. lockQueue' = Append(lockQueue, t) /\ lockQueue \in Seq(Thread)
      BY <1>1 DEF AcquireLoop, TypeOK
    <2>1. lockQueue' \in Seq(Thread)
      BY <2>0, AppendProperties
    <2>2. Sleep(<<>>, threadToBeDestroyed)
      BY <1>1 DEF AcquireLoop
    <2>3. SchedTypeOK'
      BY <2>2, SleepNothingType DEF TypeOK
    <2> QED
      BY <1>1, <2>1, <2>3 DEF AcquireLoop, TypeOK, Call, sem
  <1>2. CASE ~isLockBusy
    BY <1>2 DEF AcquireLoop, TypeOK, SchedTypeOK, Call, sem, sched
  <1> QED
    BY <1>1, <1>2

\* P's loop keeps the types; in particular the value never goes below zero.
LEMMA PLoopType ==
    ASSUME TypeOK, NEW t \in Thread, PLoop(t),
           UNCHANGED <<lock, condQueue, pendingIO>>
    PROVE  TypeOK'
  <1>3. value \in Nat
    BY DEF TypeOK
  <1>1. CASE value = 0
    <2>0. semQueue' = Append(semQueue, t) /\ semQueue \in Seq(Thread)
      BY <1>1 DEF PLoop, TypeOK
    <2>1. semQueue' \in Seq(Thread)
      BY <2>0, AppendProperties
    <2>2. Sleep(<<>>, threadToBeDestroyed)
      BY <1>1 DEF PLoop, TypeOK
    <2>3. SchedTypeOK'
      BY <2>2, SleepNothingType DEF TypeOK
    <2> QED
      BY <1>1, <2>1, <2>3 DEF PLoop, TypeOK, Call, lock
  <1>2. CASE value > 0
    <2>1. value' \in Nat
      BY <1>2, <1>3 DEF PLoop
    <2>2. call' \in [Thread -> Call] /\ semQueue' = semQueue /\ UNCHANGED sched
      BY <1>2 DEF PLoop, TypeOK, Call
    <2> QED
      BY <2>1, <2>2 DEF TypeOK, SchedTypeOK, sched, lock
  <1>4. value = 0 \/ value > 0
    BY <1>3
  <1> QED
    BY <1>1, <1>2, <1>4

\* V's body keeps the types, called by a thread or by a handler.
LEMMA VBodyType ==
    ASSUME TypeOK, VBody, pendingIO' \in Nat,
           UNCHANGED <<lock, condQueue, call>>
    PROVE  TypeOK'
  <1>1. semQueue' \in Seq(Thread)
    BY FirstRestType DEF VBody, TypeOK
  <1>2. SchedTypeOK'
    BY FirstRestType, ReadyToRunType DEF VBody, TypeOK
  <1> QED
    BY <1>1, <1>2 DEF VBody, TypeOK, lock

\* Every step keeps the types.
LEMMA NextType == TypeOK /\ [Next]_vars => TypeOK'
  <1> SUFFICES ASSUME TypeOK, [Next]_vars PROVE TypeOK'
    OBVIOUS
  <1> USE DEF TypeOK
  <1>1. ASSUME NEW t \in Thread, Acquire(t) PROVE TypeOK'
    BY <1>1, AcquireLoopType DEF Acquire
  <1>2. ASSUME NEW t \in Thread, Release(t) PROVE TypeOK'
    <2>1. SchedTypeOK'
      BY <1>2, FirstRestType, ReadyToRunType DEF Release
    <2> QED
      BY <1>2, <2>1, FirstRestType DEF Release, FreeLock, sem
  <1>3. ASSUME NEW t \in Thread, ResumeAcquire(t) PROVE TypeOK'
    BY <1>3, AcquireLoopType DEF ResumeAcquire
  <1>4. ASSUME NEW t \in Thread, NEW c \in Cond, Wait(t, c) PROVE TypeOK'
    <2>1. SchedTypeOK'
      BY <1>4, FirstRestType, SleepType DEF Wait, SchedTypeOK
    <2>2. condQueue' \in [Cond -> Seq(Thread)]
      BY <1>4, AppendProperties DEF Wait
    <2> QED
      BY <1>4, <2>1, <2>2, FirstRestType DEF Wait, FreeLock, Call, sem
  <1>5. ASSUME NEW t \in Thread, NEW c \in Cond, Signal(t, c) PROVE TypeOK'
    <2>1. SchedTypeOK'
      BY <1>5, FirstRestType, ReadyToRunType DEF Signal
    <2>2. condQueue' \in [Cond -> Seq(Thread)]
      BY <1>5, FirstRestType DEF Signal
    <2> QED
      BY <1>5, <2>1, <2>2 DEF Signal, lock, sem
  <1>6. ASSUME NEW t \in Thread, NEW c \in Cond, Broadcast(t, c) PROVE TypeOK'
    <2>1. SchedTypeOK'
      BY <1>6, ReadyToRunType DEF Broadcast
    <2>2. condQueue' \in [Cond -> Seq(Thread)]
      BY <1>6, EmptySeq DEF Broadcast
    <2> QED
      BY <1>6, <2>1, <2>2 DEF Broadcast, lock, sem
  <1>7. ASSUME NEW t \in Thread, P(t) PROVE TypeOK'
    BY <1>7, PLoopType DEF P
  <1>8. ASSUME NEW t \in Thread, V(t) PROVE TypeOK'
    BY <1>8, VBodyType DEF V
  <1>9. ASSUME NEW t \in Thread, ResumeP(t) PROVE TypeOK'
    BY <1>9, PLoopType DEF ResumeP
  <1>10. ASSUME NEW t \in Thread, StartIO(t) PROVE TypeOK'
    BY <1>10 DEF StartIO, SchedTypeOK, sched, lock, sem
  <1>11. ASSUME NEW t \in Thread, Yield(t) PROVE TypeOK'
    BY <1>11, YieldType DEF Yield, lock, sem
  <1>12. ASSUME NEW t \in Thread, Finish(t) PROVE TypeOK'
    <2>1. SchedTypeOK'
      BY <1>12, SleepType, EmptySeq DEF Finish
    <2> QED
      BY <1>12, <2>1 DEF Finish, Call, lock, sem
  <1>13. ASSUME NEW t \in Thread, NEW u \in Thread, Fork(t, u) PROVE TypeOK'
    <2>1. <<u>> \in Seq(Thread)
      OBVIOUS
    <2>2. SchedTypeOK'
      BY <1>13, <2>1, ReadyToRunType DEF Fork, ForkThread
    <2> QED
      BY <1>13, <2>2 DEF Fork, lock, sem
  <1>14. CASE DeviceInterrupt
    BY <1>14, VBodyType DEF DeviceInterrupt
  <1>15. CASE IdleDispatch
    <2>1. SchedTypeOK'
      BY <1>15, RunType DEF IdleDispatch, LeaveIdle, SchedTypeOK
    <2> QED
      BY <1>15, <2>1 DEF IdleDispatch, lock, sem
  <1>16. CASE Halt
    BY <1>16 DEF Halt, HaltIdle, SchedTypeOK, lock, sem
  <1>17. CASE UNCHANGED vars
    BY <1>17 DEF vars, SchedTypeOK, sched, lock, sem
  <1> QED
    BY <1>1, <1>2, <1>3, <1>4, <1>5, <1>6, <1>7, <1>8, <1>9, <1>10, <1>11,
       <1>12, <1>13, <1>14, <1>15, <1>16, <1>17
    DEF Next, ThreadStep

(***************************************************************************)
(* Type correctness: every list of the scheduler and of the primitives     *)
(* holds threads and the semaphore's value never goes below zero.          *)
(***************************************************************************)
THEOREM TypeCorrect == Spec => []TypeOK
  <1> QED
    BY InitType, NextType, PTL DEF Spec

-----------------------------------------------------------------------------
(* The lock.                                                               *)

\* Taking a free lock, or going to sleep on a busy one, keeps the lock's state
\* in agreement with the threads that are inside.
LEMMA AcquireLoopHeld ==
    ASSUME TypeOK, LockHeld, NEW t \in Thread, AcquireLoop(t)
    PROVE  LockHeld'
  <1>1. CASE isLockBusy
    BY <1>1 DEF AcquireLoop, LockHeld
  <1>2. CASE ~isLockBusy
    <2>1. inside = {}
      BY <1>2 DEF LockHeld, TypeOK
    <2> QED
      BY <1>2, <2>1 DEF AcquireLoop, LockHeld
  <1> QED
    BY <1>1, <1>2

\* The one thread inside leaves: nobody is inside afterwards.
LEMMA FreeLockHeld ==
    ASSUME TypeOK, LockHeld, NEW t \in inside, FreeLock(t)
    PROVE  LockHeld'
  <1>1. inside' = {}
    BY DEF LockHeld, FreeLock, TypeOK
  <1> QED
    BY <1>1 DEF LockHeld, FreeLock

\* Every step keeps LockHeld.
LEMMA NextHeld == TypeOK /\ LockHeld /\ [Next]_vars => LockHeld'
  <1> SUFFICES ASSUME TypeOK, LockHeld, [Next]_vars PROVE LockHeld'
    OBVIOUS
  <1>1. ASSUME NEW t \in Thread, Acquire(t) \/ ResumeAcquire(t) PROVE LockHeld'
    BY <1>1, AcquireLoopHeld DEF Acquire, ResumeAcquire
  <1>2. ASSUME NEW t \in Thread, Release(t) PROVE LockHeld'
    BY <1>2, FreeLockHeld DEF Release
  <1>3. ASSUME NEW t \in Thread, NEW c \in Cond, Wait(t, c) PROVE LockHeld'
    BY <1>3, FreeLockHeld DEF Wait
  <1>4. ASSUME UNCHANGED lock PROVE LockHeld'
    BY <1>4 DEF LockHeld, lock
  <1>5. ASSUME NEW t \in Thread, NEW c \in Cond, Signal(t, c) \/ Broadcast(t, c)
        PROVE  UNCHANGED lock
    BY <1>5 DEF Signal, Broadcast
  <1>6. ASSUME NEW t \in Thread, P(t) \/ V(t) \/ ResumeP(t) \/ StartIO(t)
        PROVE  UNCHANGED lock
    BY <1>6 DEF P, V, ResumeP, StartIO
  <1>7. ASSUME NEW t \in Thread,
               Yield(t) \/ Finish(t) \/ \E u \in Thread : Fork(t, u)
        PROVE  UNCHANGED lock
    BY <1>7 DEF Yield, Finish, Fork
  <1>8. ASSUME DeviceInterrupt \/ IdleDispatch \/ Halt \/ UNCHANGED vars
        PROVE  UNCHANGED lock
    BY <1>8 DEF DeviceInterrupt, IdleDispatch, Halt, vars
  <1> QED
    BY <1>1, <1>2, <1>3, <1>4, <1>5, <1>6, <1>7, <1>8 DEF Next, ThreadStep

(***************************************************************************)
(* The lock's owner is the one thread between Acquire and Release, so the  *)
(* assertion isHeldByCurrentThread() of Release, Wait, Signal and          *)
(* Broadcast never fails for a caller that acquired the lock.              *)
(***************************************************************************)
THEOREM LockCorrect == Spec => []LockHeld
  <1>1. Init => LockHeld
    BY DEF Init, LockHeld
  <1> QED
    BY <1>1, TypeCorrect, NextHeld, PTL DEF Spec

(***************************************************************************)
(* At most one thread is between Acquire and Release.                      *)
(***************************************************************************)
THEOREM AtMostOneInside == Spec => []MutualExclusion
  <1>1. TypeOK /\ LockHeld => MutualExclusion
    BY DEF TypeOK, LockHeld, MutualExclusion
  <1> QED
    BY <1>1, TypeCorrect, LockCorrect, PTL

-----------------------------------------------------------------------------
(* The wait queues.  WaitQueuesExact and SchedulerConsistent need each     *)
(* other: a queue whose threads sleep keeps the ready list free of         *)
(* repetitions, and the ready list keeps a running thread off the queues.  *)
(* Together they are inductive with what is known of finished threads.     *)

(***************************************************************************)
(* A finished thread never wakes up, and no other thread is destroyed      *)
(* (Thread::Finish is the only place that sets threadToBeDestroyed).       *)
(***************************************************************************)
FinishedGone ==
    /\ \A t \in Thread : call[t] = "done" => status[t] \in {"BLOCKED", "DELETED"}
    /\ threadToBeDestroyed \in Thread => call[threadToBeDestroyed] = "done"

QueueInv == TypeOK /\ SchedulerConsistent /\ WaitQueuesExact /\ FinishedGone

Primitive == {"Acquire", "Wait", "P"}

\* The operation goes to sleep in primitive p, or for ever.
LEMMA GoesToSleep ==
    ASSUME QueueInv, NEW t \in Thread,
           machineStatus = "SystemMode", currentThread = t,
           NEW p \in Primitive \cup {"done"},
           \A u \in Thread : call'[u] = IF u = t THEN p ELSE call[u],
           NEW wake \in Seq(Thread), IsInjective(wake),
           \A u \in Range(wake) : status[u] = "BLOCKED" /\ call[u] # "done",
           NEW dead \in Thread \cup {NoThread},
           p = "done" => dead = t, p # "done" => dead = threadToBeDestroyed,
           Sleep(wake, dead)
    PROVE  /\ SchedulerConsistent' /\ FinishedGone'
           /\ \A r \in Primitive :
                 /\ Sleepers(r)' = (Sleepers(r) \ Range(wake)) \cup (IF r = p THEN {t} ELSE {})
                 /\ OnTheirWay(r)' = (OnTheirWay(r) \ {t}) \cup {u \in Range(wake) : call[u] = r}
  <1>1. status[t] = "RUNNING"
    BY DEF QueueInv, SchedulerConsistent, OneRunning
  <1>2. dead \in Thread =>
            dead \notin Range(wake) /\ (dead = currentThread \/ status[dead] # "READY")
    BY <1>1 DEF QueueInv, FinishedGone
  <1>3. Range(wake) \subseteq Thread /\ t \notin Range(wake)
    BY <1>1, RangeOfSeq
  <1>4. /\ SchedulerConsistent'
        /\ \A u \in Thread :
                 \/ u = dead /\ status'[u] = "DELETED"
                 \/ u = currentThread /\ status'[u] = "BLOCKED"
                 \/ u # currentThread /\ u \in Range(wake) /\ status'[u] \in {"READY", "RUNNING"}
                 \/ /\ u # currentThread /\ u \notin Range(wake)
                    /\ status'[u] = status[u] \/ (status[u] = "READY" /\ status'[u] = "RUNNING")
        /\ threadToBeDestroyed' \in {dead, NoThread}
    BY <1>2, SleepConsistent DEF QueueInv, TypeOK
  <1>5. NoThread \notin Thread
    BY SchedulerAssumption
  <1>6. dead \in Thread => call'[dead] = "done" /\ (dead = t \/ call[dead] = "done")
    BY <1>1, <1>5 DEF QueueInv, FinishedGone
  <1>7. FinishedGone'
    <2>1. ASSUME NEW u \in Thread, call'[u] = "done" PROVE status'[u] \in {"BLOCKED", "DELETED"}
      BY <2>1, <1>1, <1>4, <1>5 DEF QueueInv, FinishedGone
    <2> QED
      BY <2>1, <1>4, <1>5, <1>6 DEF FinishedGone
  <1>8. ASSUME NEW r \in Primitive, NEW u \in Thread
        PROVE  u \in Sleepers(r)'
                 <=> u \in (Sleepers(r) \ Range(wake)) \cup (IF r = p THEN {t} ELSE {})
    <2>1. CASE u = t
      BY <2>1, <1>1, <1>4, <1>5, <1>6 DEF Sleepers, Primitive
    <2>2. CASE u # t
      BY <2>2, <1>4, <1>5, <1>6 DEF Sleepers, Primitive
    <2> QED
      BY <2>1, <2>2
  <1>9. ASSUME NEW r \in Primitive, NEW u \in Thread
        PROVE  u \in OnTheirWay(r)'
                 <=> u \in (OnTheirWay(r) \ {t}) \cup {v \in Range(wake) : call[v] = r}
    <2>1. CASE u = t
      BY <2>1, <1>3, <1>4, <1>5, <1>6 DEF OnTheirWay, Primitive
    <2>2. CASE u # t
      BY <2>2, <1>3, <1>4, <1>5, <1>6 DEF OnTheirWay, Primitive
    <2> QED
      BY <2>1, <2>2
  <1>10. \A r \in Primitive : /\ Sleepers(r) \subseteq Thread /\ Sleepers(r)' \subseteq Thread
                              /\ OnTheirWay(r) \subseteq Thread /\ OnTheirWay(r)' \subseteq Thread
    BY DEF Sleepers, OnTheirWay
  <1> QED
    BY <1>3, <1>4, <1>7, <1>8, <1>9, <1>10

\* It wakes nobody before it sleeps: every operation but Wait.
LEMMA SleepsWakingNobody ==
    ASSUME QueueInv, NEW t \in Thread,
           machineStatus = "SystemMode", currentThread = t,
           NEW p \in Primitive \cup {"done"}, call' = [call EXCEPT ![t] = p],
           NEW dead, dead = IF p = "done" THEN t ELSE threadToBeDestroyed,
           Sleep(<<>>, dead)
    PROVE  /\ SchedulerConsistent' /\ FinishedGone'
           /\ \A r \in Primitive :
                 /\ Sleepers(r)' = Sleepers(r) \cup (IF r = p THEN {t} ELSE {})
                 /\ OnTheirWay(r)' = OnTheirWay(r) \ {t}
  <1> DEFINE none == <<>>
  <1>1. none \in Seq(Thread) /\ IsInjective(none) /\ Range(none) = {}
    BY EmptySeq DEF IsInjective, Range
  <1>2. Sleep(none, dead)
    OBVIOUS
  <1> HIDE DEF none
  <1>3. /\ dead \in Thread \cup {NoThread}
        /\ p = "done" => dead = t
        /\ p # "done" => dead = threadToBeDestroyed
    BY DEF QueueInv, TypeOK, SchedTypeOK
  <1>4. \A u \in Range(none) : status[u] = "BLOCKED" /\ call[u] # "done"
    BY <1>1
  <1>5. \A u \in Thread : call'[u] = IF u = t THEN p ELSE call[u]
    BY DEF QueueInv, TypeOK
  <1>6. /\ SchedulerConsistent' /\ FinishedGone'
        /\ \A r \in Primitive :
              /\ Sleepers(r)' = (Sleepers(r) \ Range(none)) \cup (IF r = p THEN {t} ELSE {})
              /\ OnTheirWay(r)' = (OnTheirWay(r) \ {t}) \cup {u \in Range(none) : call[u] = r}
    BY <1>1, <1>2, <1>3, <1>4, <1>5, GoesToSleep
  <1> QED
    BY <1>1, <1>6

\* The operation makes sleeping threads ready and goes on.
LEMMA WakesUp ==
    ASSUME QueueInv, UNCHANGED call,
           NEW wake \in Seq(Thread), IsInjective(wake),
           \A u \in Range(wake) :
               status[u] \in {"BLOCKED", "JUST_CREATED"} /\ call[u] # "done",
           ReadyToRun(wake)
    PROVE  /\ SchedulerConsistent' /\ FinishedGone'
           /\ \A r \in Primitive :
                 /\ Sleepers(r)' = Sleepers(r) \ Range(wake)
                 /\ OnTheirWay(r)' = OnTheirWay(r) \cup {u \in Range(wake) : call[u] = r}
  <1>1. \A u \in Range(wake) : status[u] \notin {"READY", "RUNNING"}
    OBVIOUS
  <1>2. /\ SchedulerConsistent'
        /\ \A u \in Thread : status'[u] = IF u \in Range(wake) THEN "READY" ELSE status[u]
    BY <1>1, ReadyToRunConsistent DEF QueueInv, TypeOK
  <1>3. threadToBeDestroyed' = threadToBeDestroyed
    BY DEF ReadyToRun
  <1>4. FinishedGone'
    BY <1>2, <1>3 DEF QueueInv, FinishedGone
  <1>5. \A r \in Primitive : Sleepers(r)' = Sleepers(r) \ Range(wake)
    BY <1>2 DEF Sleepers
  <1>6. \A r \in Primitive :
            OnTheirWay(r)' = OnTheirWay(r) \cup {u \in Range(wake) : call[u] = r}
    BY <1>2, RangeOfSeq DEF OnTheirWay
  <1> QED
    BY <1>2, <1>4, <1>5, <1>6

\* The operation puts nobody to sleep and wakes nobody; the thread that has the
\* processor may leave its primitive, and others may get it.
LEMMA KeepsSleepers ==
    ASSUME QueueInv, SchedulerConsistent',
           threadToBeDestroyed' \in {threadToBeDestroyed, NoThread},
           \A t \in Thread :
               \/ t = threadToBeDestroyed /\ status'[t] = "DELETED"
               \/ status'[t] = status[t]
               \/ {status[t], status'[t]} \subseteq {"READY", "RUNNING"},
           call' \in [Thread -> Call],
           \A t \in Thread : call'[t] = call[t] \/ (status[t] = "RUNNING" /\ call'[t] = "run")
    PROVE  /\ FinishedGone'
           /\ \A r \in Primitive :
                 /\ Sleepers(r)' = Sleepers(r)
                 /\ OnTheirWay(r)' = {t \in OnTheirWay(r) : call'[t] = r}
  <1>1. \A t \in Thread : call'[t] = "done" <=> call[t] = "done"
    BY DEF QueueInv, FinishedGone
  <1>2. threadToBeDestroyed \in Thread => call[threadToBeDestroyed] = "done"
    BY DEF QueueInv, FinishedGone
  <1>3. FinishedGone'
    BY <1>1, SchedulerAssumption DEF QueueInv, FinishedGone
  <1>4. ASSUME NEW r \in Primitive, NEW t \in Thread
        PROVE  call'[t] = r /\ status'[t] = "BLOCKED" <=> call[t] = r /\ status[t] = "BLOCKED"
    BY <1>1, <1>2 DEF Primitive
  <1>5. \A r \in Primitive : Sleepers(r)' = Sleepers(r)
    BY <1>4 DEF Sleepers
  <1>6. ASSUME NEW r \in Primitive, NEW t \in Thread, call'[t] = r
        PROVE  status'[t] # "BLOCKED" <=> call[t] = r /\ status[t] # "BLOCKED"
    BY <1>4, <1>6 DEF Primitive
  <1>7. \A r \in Primitive : OnTheirWay(r)' = {t \in OnTheirWay(r) : call'[t] = r}
    BY <1>6 DEF OnTheirWay
  <1> QED
    BY <1>3, <1>5, <1>7

\* No list and nobody's sleep has changed.
LEMMA QueuesKept ==
    ASSUME QueueInv, UNCHANGED <<lockQueue, condQueue, semQueue>>,
           \A r \in Primitive : Sleepers(r)' = Sleepers(r)
    PROVE  WaitQueuesExact'
  BY DEF QueueInv, WaitQueuesExact, Primitive

\* One more sleeper on the lock's queue, or one less.
LEMMA LockQueueStep ==
    ASSUME QueueInv, UNCHANGED <<condQueue, semQueue>>,
           Sleepers("P")' = Sleepers("P"), Sleepers("Wait")' = Sleepers("Wait"),
           \/ /\ lockQueue' = Append(lockQueue, currentThread)
              /\ currentThread \notin Sleepers("Acquire")
              /\ Sleepers("Acquire")' = Sleepers("Acquire") \cup {currentThread}
           \/ /\ lockQueue' = Rest(lockQueue)
              /\ Sleepers("Acquire")' = Sleepers("Acquire") \ Range(First(lockQueue))
    PROVE  WaitQueuesExact'
  <1>1. /\ lockQueue \in Seq(Thread) /\ currentThread \in Thread
        /\ IsInjective(lockQueue) /\ Range(lockQueue) = Sleepers("Acquire")
    BY DEF QueueInv, TypeOK, SchedTypeOK, WaitQueuesExact
  <1>2. IsInjective(lockQueue') /\ Range(lockQueue') = Sleepers("Acquire")'
    <2>1. /\ Range(Append(lockQueue, currentThread)) = Range(lockQueue) \cup {currentThread}
          /\ currentThread \notin Range(lockQueue) => IsInjective(Append(lockQueue, currentThread))
      BY <1>1, AppendRange
    <2>2. /\ IsInjective(Rest(lockQueue))
          /\ Range(Rest(lockQueue)) = Range(lockQueue) \ Range(First(lockQueue))
      BY <1>1, FirstRestRange
    <2> QED
      BY <1>1, <2>1, <2>2
  <1> QED
    BY <1>2 DEF QueueInv, WaitQueuesExact

\* The same for the semaphore's queue.
LEMMA SemQueueStep ==
    ASSUME QueueInv, UNCHANGED <<condQueue, lockQueue>>,
           Sleepers("Acquire")' = Sleepers("Acquire"), Sleepers("Wait")' = Sleepers("Wait"),
           \/ /\ semQueue' = Append(semQueue, currentThread)
              /\ currentThread \notin Sleepers("P")
              /\ Sleepers("P")' = Sleepers("P") \cup {currentThread}
           \/ /\ semQueue' = Rest(semQueue)
              /\ Sleepers("P")' = Sleepers("P") \ Range(First(semQueue))
    PROVE  WaitQueuesExact'
  <1>1. /\ semQueue \in Seq(Thread) /\ currentThread \in Thread
        /\ IsInjective(semQueue) /\ Range(semQueue) = Sleepers("P")
    BY DEF QueueInv, TypeOK, SchedTypeOK, WaitQueuesExact
  <1>2. IsInjective(semQueue') /\ Range(semQueue') = Sleepers("P")'
    <2>1. /\ Range(Append(semQueue, currentThread)) = Range(semQueue) \cup {currentThread}
          /\ currentThread \notin Range(semQueue) => IsInjective(Append(semQueue, currentThread))
      BY <1>1, AppendRange
    <2>2. /\ IsInjective(Rest(semQueue))
          /\ Range(Rest(semQueue)) = Range(semQueue) \ Range(First(semQueue))
      BY <1>1, FirstRestRange
    <2> QED
      BY <1>1, <2>1, <2>2
  <1> QED
    BY <1>2 DEF QueueInv, WaitQueuesExact

\* What the queue of one condition gains or loses, the sleepers in Wait do.
LEMMA CondQueueStep ==
    ASSUME QueueInv, NEW c \in Cond, NEW q \in Seq(Thread),
           condQueue' = [condQueue EXCEPT ![c] = q], IsInjective(q),
           IsInjective(lockQueue'), Range(lockQueue') = Sleepers("Acquire")',
           UNCHANGED semQueue, Sleepers("P")' = Sleepers("P"),
           \/ /\ Range(q) = Range(condQueue[c]) \cup {currentThread}
              /\ currentThread \notin Sleepers("Wait")
              /\ Sleepers("Wait")' = Sleepers("Wait") \cup {currentThread}
           \/ \E gone \in SUBSET Range(condQueue[c]) :
                 /\ Range(q) = Range(condQueue[c]) \ gone
                 /\ Sleepers("Wait")' = Sleepers("Wait") \ gone
    PROVE  WaitQueuesExact'
  <1>1. /\ condQueue \in [Cond -> Seq(Thread)]
        /\ \A d \in Cond : condQueue'[d] = IF d = c THEN q ELSE condQueue[d]
    BY DEF QueueInv, TypeOK
  <1>2. /\ \A d \in Cond : IsInjective(condQueue[d])
        /\ \A d, e \in Cond : d # e => Range(condQueue[d]) \cap Range(condQueue[e]) = {}
        /\ \A t : t \in Sleepers("Wait") <=> \E d \in Cond : t \in Range(condQueue[d])
    BY DEF QueueInv, WaitQueuesExact
  <1>3. \A d \in Cond : IsInjective(condQueue'[d])
    BY <1>1, <1>2
  <1>4. \A d, e \in Cond : d # e => Range(condQueue'[d]) \cap Range(condQueue'[e]) = {}
    BY <1>1, <1>2
  <1>5. \A t : t \in Sleepers("Wait")' <=> \E d \in Cond : t \in Range(condQueue'[d])
    BY <1>1, <1>2
  <1>6. UNION {Range(condQueue'[d]) : d \in Cond} = Sleepers("Wait")'
    BY <1>5
  <1>7. IsInjective(semQueue') /\ Range(semQueue') = Sleepers("P")'
    BY DEF QueueInv, WaitQueuesExact
  <1> QED
    BY <1>3, <1>4, <1>6, <1>7 DEF WaitQueuesExact

\* What Acquire's loop does, called from wherever: the caller stops being on its
\* way, asleep again or with the lock.
LEMMA AcquireLoopQueues ==
    ASSUME QueueInv, NEW t \in Thread, machineStatus = "SystemMode", currentThread = t,
           AcquireLoop(t), UNCHANGED <<condQueue, sem>>
    PROVE  /\ SchedulerConsistent' /\ WaitQueuesExact' /\ FinishedGone'
           /\ \A r \in Primitive : OnTheirWay(r)' = OnTheirWay(r) \ {t}
  <1>0. threadToBeDestroyed \in Thread \cup {NoThread} /\ call \in [Thread -> Call]
    BY DEF QueueInv, TypeOK, SchedTypeOK
  <1>1. status[t] = "RUNNING"
    BY DEF QueueInv, SchedulerConsistent, OneRunning
  <1>2. CASE isLockBusy
    <2>1. /\ call' = [call EXCEPT ![t] = "Acquire"] /\ lockQueue' = Append(lockQueue, t)
          /\ Sleep(<<>>, threadToBeDestroyed)
      BY <1>2 DEF AcquireLoop
    <2>2. /\ SchedulerConsistent' /\ FinishedGone'
          /\ \A r \in Primitive :
                /\ Sleepers(r)' = Sleepers(r) \cup (IF r = "Acquire" THEN {t} ELSE {})
                /\ OnTheirWay(r)' = OnTheirWay(r) \ {t}
      <3>1. "Acquire" \in Primitive \cup {"done"} /\ "Acquire" # "done"
        BY DEF Primitive
      <3>2. threadToBeDestroyed = IF "Acquire" = "done" THEN t ELSE threadToBeDestroyed
        BY <3>1
      <3> QED
        BY <2>1, <3>1, <3>2, SleepsWakingNobody
    <2>3. t \notin Sleepers("Acquire")
      BY <1>1 DEF Sleepers
    <2> QED
      BY <2>1, <2>2, <2>3, LockQueueStep DEF Primitive, sem
  <1>3. CASE ~isLockBusy
    <2>1. call' = [call EXCEPT ![t] = "run"] /\ UNCHANGED <<lockQueue, sched>>
      BY <1>3 DEF AcquireLoop
    <2>2. SchedulerConsistent'
      BY <2>1 DEF QueueInv, SchedulerConsistent, ReadyListExact, OneRunning, sched
    <2>3. /\ call' \in [Thread -> Call]
          /\ \A u \in Thread : call'[u] = IF u = t THEN "run" ELSE call[u]
      BY <2>1, <1>0 DEF Call
    <2>4. /\ FinishedGone'
          /\ \A r \in Primitive : /\ Sleepers(r)' = Sleepers(r)
                                  /\ OnTheirWay(r)' = {u \in OnTheirWay(r) : call'[u] = r}
      BY <2>1, <2>2, <2>3, <1>0, <1>1, KeepsSleepers DEF sched
    <2>5. \A r \in Primitive : OnTheirWay(r)' = OnTheirWay(r) \ {t}
      BY <2>3, <2>4 DEF OnTheirWay, Primitive
    <2> QED
      BY <2>1, <2>2, <2>4, <2>5, QueuesKept DEF sem
  <1> QED
    BY <1>2, <1>3

\* The same for P's loop.
LEMMA PLoopQueues ==
    ASSUME QueueInv, NEW t \in Thread, machineStatus = "SystemMode", currentThread = t,
           PLoop(t), UNCHANGED <<lock, condQueue>>
    PROVE  /\ SchedulerConsistent' /\ WaitQueuesExact' /\ FinishedGone'
           /\ \A r \in Primitive : OnTheirWay(r)' = OnTheirWay(r) \ {t}
  <1>0. /\ threadToBeDestroyed \in Thread \cup {NoThread} /\ call \in [Thread -> Call]
        /\ value \in Nat
    BY DEF QueueInv, TypeOK, SchedTypeOK
  <1>1. status[t] = "RUNNING"
    BY DEF QueueInv, SchedulerConsistent, OneRunning
  <1>2. CASE value = 0
    <2>1. /\ call' = [call EXCEPT ![t] = "P"] /\ semQueue' = Append(semQueue, t)
          /\ Sleep(<<>>, threadToBeDestroyed)
      BY <1>2 DEF PLoop
    <2>2. /\ SchedulerConsistent' /\ FinishedGone'
          /\ \A r \in Primitive :
                /\ Sleepers(r)' = Sleepers(r) \cup (IF r = "P" THEN {t} ELSE {})
                /\ OnTheirWay(r)' = OnTheirWay(r) \ {t}
      <3>1. "P" \in Primitive \cup {"done"} /\ "P" # "done"
        BY DEF Primitive
      <3>2. threadToBeDestroyed = IF "P" = "done" THEN t ELSE threadToBeDestroyed
        BY <3>1
      <3> QED
        BY <2>1, <3>1, <3>2, SleepsWakingNobody
    <2>3. t \notin Sleepers("P")
      BY <1>1 DEF Sleepers
    <2> QED
      BY <2>1, <2>2, <2>3, SemQueueStep DEF Primitive, lock
  <1>3. CASE value > 0
    <2>1. call' = [call EXCEPT ![t] = "run"] /\ UNCHANGED <<semQueue, sched>>
      BY <1>3 DEF PLoop
    <2>2. SchedulerConsistent'
      BY <2>1 DEF QueueInv, SchedulerConsistent, ReadyListExact, OneRunning, sched
    <2>3. /\ call' \in [Thread -> Call]
          /\ \A u \in Thread : call'[u] = IF u = t THEN "run" ELSE call[u]
      BY <2>1, <1>0 DEF Call
    <2>4. /\ FinishedGone'
          /\ \A r \in Primitive : /\ Sleepers(r)' = Sleepers(r)
                                  /\ OnTheirWay(r)' = {u \in OnTheirWay(r) : call'[u] = r}
      BY <2>1, <2>2, <2>3, <1>0, <1>1, KeepsSleepers DEF sched
    <2>5. \A r \in Primitive : OnTheirWay(r)' = OnTheirWay(r) \ {t}
      BY <2>3, <2>4 DEF OnTheirWay, Primitive
    <2> QED
      BY <2>1, <2>2, <2>4, <2>5, QueuesKept DEF lock
  <1> QED
    BY <1>0, <1>2, <1>3

\* V wakes the thread that has waited longest.
LEMMA VBodyQueues ==
    ASSUME QueueInv, VBody, UNCHANGED <<lock, condQueue, call>>
    PROVE  /\ SchedulerConsistent' /\ WaitQueuesExact' /\ FinishedGone'
           /\ OnTheirWay("P")' = OnTheirWay("P") \cup Range(First(semQueue))
           /\ OnTheirWay("Acquire")' = OnTheirWay("Acquire")
           /\ OnTheirWay("Wait")' = OnTheirWay("Wait")
  <1> DEFINE wake == First(semQueue)
  <1>1. semQueue \in Seq(Thread) /\ IsInjective(semQueue) /\ Range(semQueue) = Sleepers("P")
    BY DEF QueueInv, TypeOK, WaitQueuesExact
  <1>2. /\ wake \in Seq(Thread) /\ IsInjective(wake) /\ Range(wake) \subseteq Sleepers("P")
    BY <1>1, FirstRestType, FirstRestRange
  <1>3. ReadyToRun(wake) /\ semQueue' = Rest(semQueue)
    BY DEF VBody
  <1> HIDE DEF wake
  <1>4. /\ SchedulerConsistent' /\ FinishedGone'
        /\ \A r \in Primitive :
              /\ Sleepers(r)' = Sleepers(r) \ Range(wake)
              /\ OnTheirWay(r)' = OnTheirWay(r) \cup {u \in Range(wake) : call[u] = r}
    BY <1>2, <1>3, WakesUp DEF Sleepers
  <1>5. /\ Sleepers("P")' = Sleepers("P") \ Range(wake)
        /\ Sleepers("Acquire")' = Sleepers("Acquire") /\ Sleepers("Wait")' = Sleepers("Wait")
    BY <1>2, <1>4 DEF Primitive, Sleepers
  <1>6. /\ OnTheirWay("P")' = OnTheirWay("P") \cup Range(wake)
        /\ OnTheirWay("Acquire")' = OnTheirWay("Acquire")
        /\ OnTheirWay("Wait")' = OnTheirWay("Wait")
    BY <1>2, <1>4 DEF Primitive, Sleepers
  <1> QED
    BY <1>3, <1>4, <1>5, <1>6, SemQueueStep DEF lock, wake

\* Release wakes the thread that has waited longest for the lock.
LEMMA ReleaseQueues ==
    ASSUME QueueInv, NEW t \in Thread, Release(t)
    PROVE  /\ SchedulerConsistent' /\ WaitQueuesExact' /\ FinishedGone'
           /\ OnTheirWay("Acquire")' = OnTheirWay("Acquire") \cup Range(First(lockQueue))
           /\ OnTheirWay("P")' = OnTheirWay("P")
           /\ OnTheirWay("Wait")' = OnTheirWay("Wait")
  <1> DEFINE wake == First(lockQueue)
  <1>1. lockQueue \in Seq(Thread) /\ IsInjective(lockQueue) /\ Range(lockQueue) = Sleepers("Acquire")
    BY DEF QueueInv, TypeOK, WaitQueuesExact
  <1>2. /\ wake \in Seq(Thread) /\ IsInjective(wake) /\ Range(wake) \subseteq Sleepers("Acquire")
    BY <1>1, FirstRestType, FirstRestRange
  <1>3. ReadyToRun(wake) /\ lockQueue' = Rest(lockQueue) /\ UNCHANGED <<condQueue, sem, call>>
    BY DEF Release, FreeLock
  <1> HIDE DEF wake
  <1>4. /\ SchedulerConsistent' /\ FinishedGone'
        /\ \A r \in Primitive :
              /\ Sleepers(r)' = Sleepers(r) \ Range(wake)
              /\ OnTheirWay(r)' = OnTheirWay(r) \cup {u \in Range(wake) : call[u] = r}
    BY <1>2, <1>3, WakesUp DEF Sleepers
  <1>5. /\ Sleepers("Acquire")' = Sleepers("Acquire") \ Range(wake)
        /\ Sleepers("P")' = Sleepers("P") /\ Sleepers("Wait")' = Sleepers("Wait")
    BY <1>2, <1>4 DEF Primitive, Sleepers
  <1>6. /\ OnTheirWay("Acquire")' = OnTheirWay("Acquire") \cup Range(wake)
        /\ OnTheirWay("P")' = OnTheirWay("P")
        /\ OnTheirWay("Wait")' = OnTheirWay("Wait")
    BY <1>2, <1>4 DEF Primitive, Sleepers
  <1> QED
    BY <1>3, <1>4, <1>5, <1>6, LockQueueStep DEF sem, wake

\* Wait moves the caller to the condition's queue and wakes a thread for the lock.
LEMMA WaitQueues ==
    ASSUME QueueInv, NEW t \in Thread, NEW c \in Cond, Wait(t, c)
    PROVE  /\ SchedulerConsistent' /\ WaitQueuesExact' /\ FinishedGone'
           /\ OnTheirWay("Acquire")' = OnTheirWay("Acquire") \cup Range(First(lockQueue))
           /\ OnTheirWay("P")' = OnTheirWay("P")
           /\ OnTheirWay("Wait")' = OnTheirWay("Wait")
  <1> DEFINE wake == First(lockQueue)
             q == Append(condQueue[c], t)
  <1>1. /\ lockQueue \in Seq(Thread) /\ IsInjective(lockQueue) /\ Range(lockQueue) = Sleepers("Acquire")
        /\ condQueue[c] \in Seq(Thread) /\ IsInjective(condQueue[c])
        /\ Range(condQueue[c]) \subseteq Sleepers("Wait")
        /\ threadToBeDestroyed \in Thread \cup {NoThread}
    BY DEF QueueInv, TypeOK, SchedTypeOK, WaitQueuesExact
  <1>2. /\ wake \in Seq(Thread) /\ IsInjective(wake) /\ Range(wake) \subseteq Sleepers("Acquire")
        /\ IsInjective(Rest(lockQueue)) /\ Range(Rest(lockQueue)) = Range(lockQueue) \ Range(wake)
    <2>1. wake \in Seq(Thread)
      BY <1>1, FirstRestType
    <2> QED
      BY <1>1, <2>1, FirstRestRange
  <1>3. /\ machineStatus = "SystemMode" /\ currentThread = t /\ call[t] = "run"
        /\ call' = [call EXCEPT ![t] = "Wait"]
        /\ Sleep(wake, threadToBeDestroyed)
        /\ lockQueue' = Rest(lockQueue) /\ condQueue' = [condQueue EXCEPT ![c] = q]
        /\ UNCHANGED semQueue
    BY DEF Wait, Running, FreeLock, sem
  <1>4. status[t] = "RUNNING"
    BY <1>3 DEF QueueInv, SchedulerConsistent, OneRunning
  <1>5. t \notin Sleepers("Wait") /\ t \notin Range(condQueue[c])
    BY <1>1, <1>4 DEF Sleepers
  <1>6. q \in Seq(Thread) /\ IsInjective(q) /\ Range(q) = Range(condQueue[c]) \cup {t}
    BY <1>1, <1>5, AppendRange, AppendProperties
  <1> HIDE DEF wake, q
  <1>7. /\ SchedulerConsistent' /\ FinishedGone'
        /\ \A r \in Primitive :
              /\ Sleepers(r)' = (Sleepers(r) \ Range(wake)) \cup (IF r = "Wait" THEN {t} ELSE {})
              /\ OnTheirWay(r)' = (OnTheirWay(r) \ {t}) \cup {u \in Range(wake) : call[u] = r}
    <2>1. \A u \in Range(wake) : status[u] = "BLOCKED" /\ call[u] # "done"
      BY <1>2 DEF Sleepers
    <2>2. "Wait" \in Primitive \cup {"done"} /\ "Wait" # "done"
      BY DEF Primitive
    <2>3. \A u \in Thread : call'[u] = IF u = t THEN "Wait" ELSE call[u]
      BY <1>3 DEF QueueInv, TypeOK
    <2> QED
      BY <1>1, <1>2, <1>3, <2>1, <2>2, <2>3, GoesToSleep
  <1>8. /\ Sleepers("Acquire")' = Sleepers("Acquire") \ Range(wake)
        /\ Sleepers("P")' = Sleepers("P") /\ Sleepers("Wait")' = Sleepers("Wait") \cup {t}
    BY <1>2, <1>7 DEF Primitive, Sleepers
  <1>9. /\ OnTheirWay("Acquire")' = OnTheirWay("Acquire") \cup Range(wake)
        /\ OnTheirWay("P")' = OnTheirWay("P")
        /\ OnTheirWay("Wait")' = OnTheirWay("Wait")
    <2>1. \A r \in Primitive : t \notin OnTheirWay(r)
      BY <1>3 DEF OnTheirWay, Primitive
    <2>2. \A u \in Range(wake) : call[u] = "Acquire"
      BY <1>2 DEF Sleepers
    <2>3. \A r \in Primitive :
              OnTheirWay(r)' = OnTheirWay(r) \cup {u \in Range(wake) : call[u] = r}
      BY <1>7, <2>1
    <2> QED
      BY <2>2, <2>3 DEF Primitive
  <1>10. WaitQueuesExact'
    BY <1>1, <1>2, <1>3, <1>5, <1>6, <1>7, <1>8, CondQueueStep
  <1> QED
    BY <1>7, <1>9, <1>10 DEF wake

\* Signal and Broadcast take threads off the condition's queue and ready them.
LEMMA SignalQueues ==
    ASSUME QueueInv, NEW t \in Thread, NEW c \in Cond, Signal(t, c) \/ Broadcast(t, c)
    PROVE  /\ SchedulerConsistent' /\ WaitQueuesExact' /\ FinishedGone'
           /\ OnTheirWay("Acquire")' = OnTheirWay("Acquire")
           /\ OnTheirWay("P")' = OnTheirWay("P")
           /\ \/ /\ Signal(t, c)
                 /\ OnTheirWay("Wait")' = OnTheirWay("Wait") \cup Range(First(condQueue[c]))
              \/ /\ Broadcast(t, c)
                 /\ OnTheirWay("Wait")' = OnTheirWay("Wait") \cup Range(condQueue[c])
  <1>1. /\ condQueue[c] \in Seq(Thread) /\ IsInjective(condQueue[c])
        /\ Range(condQueue[c]) \subseteq Sleepers("Wait")
        /\ IsInjective(lockQueue) /\ Range(lockQueue) = Sleepers("Acquire")
    BY DEF QueueInv, TypeOK, WaitQueuesExact
  <1>2. PICK wake \in Seq(Thread), q \in Seq(Thread) :
          /\ IsInjective(wake) /\ Range(wake) \subseteq Range(condQueue[c])
          /\ IsInjective(q) /\ Range(q) = Range(condQueue[c]) \ Range(wake)
          /\ ReadyToRun(wake) /\ condQueue' = [condQueue EXCEPT ![c] = q]
          /\ \/ Signal(t, c) /\ wake = First(condQueue[c])
             \/ Broadcast(t, c) /\ wake = condQueue[c]
    <2>1. CASE Signal(t, c)
      BY <2>1, <1>1, FirstRestType, FirstRestRange DEF Signal
    <2>2. CASE Broadcast(t, c)
      <3>1. <<>> \in Seq(Thread) /\ IsInjective(<<>>) /\ Range(<<>>) = {}
        BY EmptySeq DEF IsInjective, Range
      <3> QED
        BY <2>2, <3>1, <1>1 DEF Broadcast
    <2> QED
      BY <2>1, <2>2
  <1>3. UNCHANGED <<lockQueue, semQueue, call>>
    BY DEF Signal, Broadcast, lock, sem
  <1>4. /\ SchedulerConsistent' /\ FinishedGone'
        /\ \A r \in Primitive :
              /\ Sleepers(r)' = Sleepers(r) \ Range(wake)
              /\ OnTheirWay(r)' = OnTheirWay(r) \cup {u \in Range(wake) : call[u] = r}
    BY <1>1, <1>2, <1>3, WakesUp DEF Sleepers
  <1>5. /\ Sleepers("Wait")' = Sleepers("Wait") \ Range(wake)
        /\ Sleepers("Acquire")' = Sleepers("Acquire") /\ Sleepers("P")' = Sleepers("P")
    BY <1>1, <1>2, <1>4 DEF Primitive, Sleepers
  <1>6. /\ OnTheirWay("Wait")' = OnTheirWay("Wait") \cup Range(wake)
        /\ OnTheirWay("Acquire")' = OnTheirWay("Acquire")
        /\ OnTheirWay("P")' = OnTheirWay("P")
    BY <1>1, <1>2, <1>4 DEF Primitive, Sleepers
  <1>7. WaitQueuesExact'
    BY <1>1, <1>2, <1>3, <1>4, <1>5, CondQueueStep
  <1> QED
    BY <1>2, <1>4, <1>6, <1>7

\* Finish puts the caller to sleep for ever.
LEMMA FinishQueues ==
    ASSUME QueueInv, NEW t \in Thread, Finish(t)
    PROVE  /\ SchedulerConsistent' /\ WaitQueuesExact' /\ FinishedGone'
           /\ \A r \in Primitive : OnTheirWay(r)' = OnTheirWay(r)
  <1>1. /\ machineStatus = "SystemMode" /\ currentThread = t /\ call[t] = "run"
        /\ call' = [call EXCEPT ![t] = "done"] /\ Sleep(<<>>, t)
        /\ UNCHANGED <<lockQueue, condQueue, semQueue>>
    BY DEF Finish, Running, lock, sem
  <1>2. /\ SchedulerConsistent' /\ FinishedGone'
        /\ \A r \in Primitive :
              /\ Sleepers(r)' = Sleepers(r) \cup (IF r = "done" THEN {t} ELSE {})
              /\ OnTheirWay(r)' = OnTheirWay(r) \ {t}
    BY <1>1, SleepsWakingNobody
  <1>3. \A r \in Primitive : Sleepers(r)' = Sleepers(r) /\ OnTheirWay(r)' = OnTheirWay(r)
    BY <1>1, <1>2 DEF Primitive, OnTheirWay
  <1> QED
    BY <1>1, <1>2, <1>3, QueuesKept

\* Fork readies a thread that is on no queue.
LEMMA ForkQueues ==
    ASSUME QueueInv, NEW t \in Thread, NEW u \in Thread, Fork(t, u)
    PROVE  /\ SchedulerConsistent' /\ WaitQueuesExact' /\ FinishedGone'
           /\ \A r \in Primitive : OnTheirWay(r)' = OnTheirWay(r)
  <1> DEFINE wake == <<u>>
  <1>1. wake \in Seq(Thread)
    OBVIOUS
  <1>2. IsInjective(wake) /\ Range(wake) = {u}
    BY DEF IsInjective, Range
  <1>3. /\ status[u] = "JUST_CREATED" /\ ReadyToRun(wake) /\ UNCHANGED call
        /\ UNCHANGED <<lockQueue, condQueue, semQueue>>
    BY DEF Fork, ForkThread, lock, sem
  <1> HIDE DEF wake
  <1>4. call[u] # "done"
    BY <1>3 DEF QueueInv, FinishedGone
  <1>5. /\ SchedulerConsistent' /\ FinishedGone'
        /\ \A r \in Primitive :
              /\ Sleepers(r)' = Sleepers(r) \ Range(wake)
              /\ OnTheirWay(r)' = OnTheirWay(r) \cup {v \in Range(wake) : call[v] = r}
    BY <1>1, <1>2, <1>3, <1>4, WakesUp
  <1>6. \A r \in Primitive : Sleepers(r)' = Sleepers(r) /\ OnTheirWay(r)' = OnTheirWay(r)
    BY <1>2, <1>3, <1>5 DEF Sleepers, OnTheirWay
  <1> QED
    BY <1>3, <1>5, <1>6, QueuesKept

\* Yield and the idle loop change who runs, and StartIO and Halt not even that.
LEMMA DispatchQueues ==
    ASSUME QueueInv, NEW t \in Thread,
           StartIO(t) \/ Yield(t) \/ IdleDispatch \/ Halt \/ UNCHANGED vars
    PROVE  /\ SchedulerConsistent' /\ WaitQueuesExact' /\ FinishedGone'
           /\ \A r \in Primitive : OnTheirWay(r)' = OnTheirWay(r)
  <1>0. /\ SchedTypeOK /\ currentThread \in Thread /\ call \in [Thread -> Call]
        /\ threadToBeDestroyed \in Thread \cup {NoThread}
        /\ threadToBeDestroyed \in Thread =>
               status[threadToBeDestroyed] \notin {"READY", "RUNNING"}
    BY DEF QueueInv, TypeOK, SchedTypeOK, FinishedGone
  <1>1. UNCHANGED <<lockQueue, condQueue, semQueue, call>>
    BY DEF StartIO, Yield, IdleDispatch, Halt, vars, lock, sem
  <1>2. CASE Yield(t) \/ IdleDispatch
    <2>1. \/ machineStatus = "SystemMode" /\ YieldCPU
          \/ LeaveIdle
      BY <1>2 DEF Yield, Running, IdleDispatch
    <2>2. /\ SchedulerConsistent'
          /\ \A u \in Thread :
                \/ u = threadToBeDestroyed /\ status'[u] = "DELETED"
                \/ status'[u] = status[u]
                \/ {status[u], status'[u]} \subseteq {"READY", "RUNNING"}
          /\ threadToBeDestroyed' \in {threadToBeDestroyed, NoThread}
      BY <1>0, <2>1, YieldConsistent, LeaveIdleConsistent DEF QueueInv
    <2>3. /\ FinishedGone'
          /\ \A r \in Primitive : /\ Sleepers(r)' = Sleepers(r)
                                  /\ OnTheirWay(r)' = {u \in OnTheirWay(r) : call'[u] = r}
      BY <1>0, <1>1, <2>2, KeepsSleepers
    <2>4. \A r \in Primitive : OnTheirWay(r)' = OnTheirWay(r)
      BY <1>1, <2>3 DEF OnTheirWay
    <2> QED
      BY <1>1, <2>2, <2>3, <2>4, QueuesKept
  <1>3. CASE StartIO(t) \/ Halt \/ UNCHANGED vars
    <2>1. /\ UNCHANGED <<status, readyList, currentThread, threadToBeDestroyed>>
          /\ \/ machineStatus' = machineStatus
             \/ machineStatus = "IdleMode" /\ machineStatus' = "Halted"
      BY <1>3 DEF StartIO, Halt, HaltIdle, vars, sched
    <2>2. SchedulerConsistent'
      BY <2>1 DEF QueueInv, SchedulerConsistent, ReadyListExact, OneRunning
    <2>3. /\ FinishedGone'
          /\ \A r \in Primitive : Sleepers(r)' = Sleepers(r) /\ OnTheirWay(r)' = OnTheirWay(r)
      BY <1>1, <2>1 DEF QueueInv, FinishedGone, Sleepers, OnTheirWay
    <2> QED
      BY <1>1, <2>2, <2>3, QueuesKept
  <1> QED
    BY <1>2, <1>3

\* Every step keeps the wait queues exact.
LEMMA NextQueues == QueueInv /\ [Next]_vars => QueueInv'
  <1> SUFFICES ASSUME QueueInv, [Next]_vars
               PROVE  SchedulerConsistent' /\ WaitQueuesExact' /\ FinishedGone'
    BY NextType DEF QueueInv
  <1> DEFINE Goal == SchedulerConsistent' /\ WaitQueuesExact' /\ FinishedGone'
  <1>1. ASSUME NEW t \in Thread, Acquire(t) \/ ResumeAcquire(t) PROVE Goal
    BY <1>1, AcquireLoopQueues DEF Acquire, ResumeAcquire, Running, Woken
  <1>2. ASSUME NEW t \in Thread, Release(t) PROVE Goal
    BY <1>2, ReleaseQueues
  <1>3. ASSUME NEW t \in Thread, NEW c \in Cond, Wait(t, c) PROVE Goal
    BY <1>3, WaitQueues
  <1>4. ASSUME NEW t \in Thread, NEW c \in Cond, Signal(t, c) \/ Broadcast(t, c) PROVE Goal
    BY <1>4, SignalQueues
  <1>5. ASSUME NEW t \in Thread, P(t) \/ ResumeP(t) PROVE Goal
    BY <1>5, PLoopQueues DEF P, ResumeP, Running, Woken
  <1>6. ASSUME NEW t \in Thread, V(t) \/ DeviceInterrupt PROVE Goal
    BY <1>6, VBodyQueues DEF V, DeviceInterrupt
  <1>7. ASSUME NEW t \in Thread, Finish(t) PROVE Goal
    BY <1>7, FinishQueues
  <1>8. ASSUME NEW t \in Thread, NEW u \in Thread, Fork(t, u) PROVE Goal
    BY <1>8, ForkQueues
  <1>9. ASSUME NEW t \in Thread,
               StartIO(t) \/ Yield(t) \/ IdleDispatch \/ Halt \/ UNCHANGED vars
        PROVE  Goal
    BY <1>9, DispatchQueues
  <1>10. Main \in Thread
    BY SchedulerAssumption
  <1> QED
    BY <1>1, <1>2, <1>3, <1>4, <1>5, <1>6, <1>7, <1>8, <1>9, <1>10 DEF Next, ThreadStep

\* The queues start empty, and nobody sleeps.
LEMMA InitQueues == Init => QueueInv
  <1> SUFFICES ASSUME Init PROVE QueueInv
    OBVIOUS
  <1> DEFINE none == <<>>
  <1>1. IsInjective(none) /\ Range(none) = {}
    BY DEF IsInjective, Range
  <1>2. /\ lockQueue = none /\ semQueue = none /\ readyList = none
        /\ \A c \in Cond : condQueue[c] = none
    BY DEF Init, SchedInit
  <1> HIDE DEF none
  <1>3. TypeOK
    BY InitType
  <1>4. SchedulerConsistent
    BY <1>1, <1>2, SchedulerAssumption
    DEF Init, SchedInit, SchedulerConsistent, ReadyListExact, OneRunning
  <1>5. Sleepers("Acquire") = {} /\ Sleepers("P") = {} /\ Sleepers("Wait") = {}
    BY DEF Init, SchedInit, Sleepers
  <1>6. WaitQueuesExact
    <2>1. UNION {Range(condQueue[c]) : c \in Cond} = {}
      BY <1>1, <1>2
    <2> QED
      BY <1>1, <1>2, <1>5, <2>1 DEF WaitQueuesExact
  <1>7. FinishedGone
    BY SchedulerAssumption DEF Init, SchedInit, FinishedGone
  <1> QED
    BY <1>3, <1>4, <1>6, <1>7 DEF QueueInv

\* QueueInv is an invariant.
LEMMA QueuesAlways == Spec => []QueueInv
  BY InitQueues, NextQueues, PTL DEF Spec

(***************************************************************************)
(* The ready list holds exactly the READY threads, each once, and the      *)
(* RUNNING thread is the current one: no Scheduler::Run ever dispatches a  *)
(* thread on a stack that is in use.                                       *)
(***************************************************************************)
THEOREM ReadyListCorrect == Spec => []SchedulerConsistent
  <1>1. QueueInv => SchedulerConsistent
    BY DEF QueueInv
  <1> QED
    BY <1>1, QueuesAlways, PTL

(***************************************************************************)
(* A sleeping thread is on exactly one wait queue, that of the primitive   *)
(* it called, and no other thread is on any.                               *)
(***************************************************************************)
THEOREM QueuesCorrect == Spec => []WaitQueuesExact
  <1>1. QueueInv => WaitQueuesExact
    BY DEF QueueInv
  <1> QED
    BY <1>1, QueuesAlways, PTL

-----------------------------------------------------------------------------
(* No wake-up is lost.  The count of threads on their way out of P needs   *)
(* the set to be finite: it grows by one thread at a time, from none.      *)

WayInv == IsFiniteSet(OnTheirWay("P")) /\ NoLostWakeup

\* The lock's part: the step leaves the lock held, wakes the first thread of the
\* lock's queue, or changes nothing of it.
LEMMA LockWay ==
    ASSUME QueueInv, NoLostWakeup,
           \/ isLockBusy' = TRUE
           \/ /\ lockQueue' = Rest(lockQueue)
              /\ OnTheirWay("Acquire")' = OnTheirWay("Acquire") \cup Range(First(lockQueue))
           \/ /\ UNCHANGED <<isLockBusy, lockQueue>>
              /\ OnTheirWay("Acquire") \subseteq OnTheirWay("Acquire")'
              /\ OnTheirWay("Wait") \subseteq OnTheirWay("Wait")'
    PROVE  lockQueue' # <<>> /\ ~isLockBusy'
             => OnTheirWay("Acquire")' \cup OnTheirWay("Wait")' # {}
  <1>1. CASE lockQueue = <<>>
    <2>1. Rest(lockQueue) = <<>>
      BY <1>1 DEF Rest
    <2> QED
      BY <1>1, <2>1 DEF NoLostWakeup
  <1>2. CASE lockQueue # <<>>
    <2>1. lockQueue \in Seq(Thread) /\ IsInjective(lockQueue)
      BY DEF QueueInv, TypeOK, WaitQueuesExact
    <2>2. Range(First(lockQueue)) = {Head(lockQueue)}
      BY <1>2, <2>1, FirstRestRange
    <2> QED
      BY <1>2, <2>2 DEF NoLostWakeup
  <1> QED
    BY <1>1, <1>2

\* The semaphore's part when nothing of it changes.
LEMMA SemWay ==
    ASSUME QueueInv, WayInv, UNCHANGED <<value, semQueue>>,
           OnTheirWay("P")' = OnTheirWay("P")
    PROVE  /\ IsFiniteSet(OnTheirWay("P"))'
           /\ semQueue' # <<>> => value' <= Cardinality(OnTheirWay("P"))'
  BY DEF WayInv, NoLostWakeup

\* P takes at most one thread off the way, with one token.
LEMMA PLoopWay ==
    ASSUME QueueInv, WayInv, NEW t \in Thread, PLoop(t),
           OnTheirWay("P")' = OnTheirWay("P") \ {t}
    PROVE  /\ IsFiniteSet(OnTheirWay("P"))'
           /\ semQueue' # <<>> => value' <= Cardinality(OnTheirWay("P"))'
  <1> DEFINE way == OnTheirWay("P")
  <1>1. value \in Nat /\ IsFiniteSet(way)
    BY DEF QueueInv, TypeOK, WayInv
  <1>2. semQueue # <<>> => value <= Cardinality(way)
    BY DEF WayInv, NoLostWakeup
  <1>3. (way)' = way \ {t}
    OBVIOUS
  <1>4. /\ \/ value = 0 /\ value' = 0
           \/ value > 0 /\ value' = value - 1 /\ semQueue' = semQueue
    BY DEF PLoop
  <1> HIDE DEF way
  <1>5. /\ IsFiniteSet(way \ {t})
        /\ Cardinality(way \ {t}) = IF t \in way THEN Cardinality(way) - 1 ELSE Cardinality(way)
    BY <1>1, FS_RemoveElement
  <1>6. Cardinality(way) \in Nat /\ Cardinality(way \ {t}) \in Nat
    BY <1>1, <1>5, FS_CardinalityType
  <1>7. semQueue' # <<>> => value' <= Cardinality(way \ {t})
    BY <1>1, <1>2, <1>4, <1>5, <1>6
  <1> QED
    BY <1>3, <1>5, <1>7 DEF way

\* V adds one thread to those on their way, if one waits, and one token.
LEMMA VBodyWay ==
    ASSUME QueueInv, WayInv, VBody,
           OnTheirWay("P")' = OnTheirWay("P") \cup Range(First(semQueue))
    PROVE  /\ IsFiniteSet(OnTheirWay("P"))'
           /\ semQueue' # <<>> => value' <= Cardinality(OnTheirWay("P"))'
  <1> DEFINE way == OnTheirWay("P")
  <1>1. /\ value \in Nat /\ IsFiniteSet(way)
        /\ semQueue \in Seq(Thread) /\ IsInjective(semQueue)
        /\ Range(semQueue) = Sleepers("P")
    BY DEF QueueInv, TypeOK, WayInv, WaitQueuesExact
  <1>2. value' = value + 1 /\ semQueue' = Rest(semQueue)
    BY DEF VBody
  <1>3. CASE semQueue = <<>>
    <2>1. /\ Range(First(semQueue)) = {} /\ Rest(semQueue) = <<>>
      BY <1>3 DEF First, Rest, Range
    <2> QED
      BY <1>1, <1>2, <2>1
  <1>4. CASE semQueue # <<>>
    <2> DEFINE u == Head(semQueue)
    <2>1. Range(First(semQueue)) = {u} /\ Range(First(semQueue)) \subseteq Range(semQueue)
      BY <1>1, <1>4, FirstRestRange
    <2>2. u \notin way
      BY <1>1, <2>1 DEF Sleepers, OnTheirWay
    <2>3. value <= Cardinality(way)
      BY <1>4 DEF WayInv, NoLostWakeup
    <2>4. (way)' = way \cup {u}
      BY <2>1
    <2> HIDE DEF way, u
    <2>5. IsFiniteSet(way \cup {u}) /\ Cardinality(way \cup {u}) = Cardinality(way) + 1
      BY <1>1, <2>2, FS_AddElement
    <2>6. Cardinality(way) \in Nat
      BY <1>1, FS_CardinalityType
    <2>7. value' <= Cardinality(way \cup {u})
      BY <1>1, <1>2, <2>3, <2>5, <2>6
    <2> QED
      BY <2>4, <2>5, <2>7 DEF way
  <1> QED
    BY <1>3, <1>4

\* Every step keeps it.
LEMMA NextWay == QueueInv /\ WayInv /\ [Next]_vars => WayInv'
  <1> SUFFICES ASSUME QueueInv, WayInv, [Next]_vars
               PROVE  /\ lockQueue' # <<>> /\ ~isLockBusy'
                           => OnTheirWay("Acquire")' \cup OnTheirWay("Wait")' # {}
                      /\ IsFiniteSet(OnTheirWay("P"))'
                      /\ semQueue' # <<>> => value' <= Cardinality(OnTheirWay("P"))'
    BY DEF WayInv, NoLostWakeup
  <1> DEFINE LockGoal == lockQueue' # <<>> /\ ~isLockBusy'
                            => OnTheirWay("Acquire")' \cup OnTheirWay("Wait")' # {}
             SemGoal == /\ IsFiniteSet(OnTheirWay("P"))'
                        /\ semQueue' # <<>> => value' <= Cardinality(OnTheirWay("P"))'
  <1>0. NoLostWakeup /\ Main \in Thread
    BY SchedulerAssumption DEF WayInv
  <1>1. ASSUME NEW t \in Thread, Acquire(t) \/ ResumeAcquire(t) PROVE LockGoal /\ SemGoal
    <2>1. /\ machineStatus = "SystemMode" /\ currentThread = t /\ call[t] # "P"
          /\ AcquireLoop(t) /\ UNCHANGED <<condQueue, sem>>
      BY <1>1 DEF Acquire, ResumeAcquire, Running, Woken
    <2>2. OnTheirWay("P")' = OnTheirWay("P") \ {t}
      BY <2>1, AcquireLoopQueues DEF Primitive
    <2>3. OnTheirWay("P")' = OnTheirWay("P")
      BY <2>1, <2>2 DEF OnTheirWay
    <2>4. isLockBusy' = TRUE
      BY <2>1 DEF AcquireLoop, QueueInv, TypeOK
    <2> QED
      BY <1>0, <2>1, <2>3, <2>4, LockWay, SemWay DEF sem
  <1>2. ASSUME NEW t \in Thread,
               Release(t) \/ \E c \in Cond : Wait(t, c)
        PROVE  LockGoal /\ SemGoal
    <2>1. /\ OnTheirWay("Acquire")' = OnTheirWay("Acquire") \cup Range(First(lockQueue))
          /\ OnTheirWay("P")' = OnTheirWay("P")
      BY <1>2, ReleaseQueues, WaitQueues
    <2>2. lockQueue' = Rest(lockQueue) /\ UNCHANGED sem
      BY <1>2 DEF Release, Wait, FreeLock
    <2> QED
      BY <1>0, <2>1, <2>2, LockWay, SemWay DEF sem
  <1>3. ASSUME NEW t \in Thread, NEW c \in Cond, Signal(t, c) \/ Broadcast(t, c)
        PROVE  LockGoal /\ SemGoal
    <2>1. /\ OnTheirWay("Acquire")' = OnTheirWay("Acquire")
          /\ OnTheirWay("P")' = OnTheirWay("P")
          /\ OnTheirWay("Wait") \subseteq OnTheirWay("Wait")'
      BY <1>3, SignalQueues
    <2>2. UNCHANGED <<lock, sem>>
      BY <1>3 DEF Signal, Broadcast
    <2> QED
      BY <1>0, <2>1, <2>2, LockWay, SemWay DEF lock, sem
  <1>4. ASSUME NEW t \in Thread, P(t) \/ ResumeP(t) PROVE LockGoal /\ SemGoal
    <2>1. /\ machineStatus = "SystemMode" /\ currentThread = t /\ call[t] \in {"run", "P"}
          /\ PLoop(t) /\ UNCHANGED <<lock, condQueue>>
      BY <1>4 DEF P, ResumeP, Running, Woken
    <2>2. /\ OnTheirWay("P")' = OnTheirWay("P") \ {t}
          /\ OnTheirWay("Acquire")' = OnTheirWay("Acquire") \ {t}
          /\ OnTheirWay("Wait")' = OnTheirWay("Wait") \ {t}
      BY <2>1, PLoopQueues DEF Primitive
    <2>3. t \notin OnTheirWay("Acquire") /\ t \notin OnTheirWay("Wait")
      BY <2>1 DEF OnTheirWay
    <2>4. SemGoal
      BY <2>1, <2>2, PLoopWay
    <2>5. LockGoal
      BY <1>0, <2>1, <2>2, <2>3, LockWay DEF lock
    <2> QED
      BY <2>4, <2>5
  <1>5. ASSUME NEW t \in Thread, V(t) \/ DeviceInterrupt PROVE LockGoal /\ SemGoal
    <2>1. VBody /\ UNCHANGED <<lock, condQueue, call>>
      BY <1>5 DEF V, DeviceInterrupt
    <2>2. /\ OnTheirWay("P")' = OnTheirWay("P") \cup Range(First(semQueue))
          /\ OnTheirWay("Acquire")' = OnTheirWay("Acquire")
          /\ OnTheirWay("Wait")' = OnTheirWay("Wait")
      BY <2>1, VBodyQueues
    <2>3. SemGoal
      BY <2>1, <2>2, VBodyWay
    <2>4. LockGoal
      BY <1>0, <2>1, <2>2, LockWay DEF lock
    <2> QED
      BY <2>3, <2>4
  <1>6. ASSUME UNCHANGED <<lock, sem>>,
               \A r \in Primitive : OnTheirWay(r)' = OnTheirWay(r)
        PROVE  LockGoal /\ SemGoal
    <2>1. /\ OnTheirWay("P")' = OnTheirWay("P")
          /\ OnTheirWay("Acquire")' = OnTheirWay("Acquire")
          /\ OnTheirWay("Wait")' = OnTheirWay("Wait")
      BY <1>6 DEF Primitive
    <2> QED
      BY <1>0, <1>6, <2>1, LockWay, SemWay DEF lock, sem
  <1>7. ASSUME NEW t \in Thread, Finish(t) \/ \E u \in Thread : Fork(t, u)
        PROVE  LockGoal /\ SemGoal
    <2>1. UNCHANGED <<lock, sem>>
      BY <1>7 DEF Finish, Fork
    <2>2. \A r \in Primitive : OnTheirWay(r)' = OnTheirWay(r)
      BY <1>7, FinishQueues, ForkQueues
    <2> QED
      BY <1>6, <2>1, <2>2
  <1>8. ASSUME NEW t \in Thread,
               StartIO(t) \/ Yield(t) \/ IdleDispatch \/ Halt \/ UNCHANGED vars
        PROVE  LockGoal /\ SemGoal
    <2>1. UNCHANGED <<lock, sem>>
      BY <1>8 DEF StartIO, Yield, IdleDispatch, Halt, vars
    <2>2. \A r \in Primitive : OnTheirWay(r)' = OnTheirWay(r)
      BY <1>8, DispatchQueues
    <2> QED
      BY <1>6, <2>1, <2>2
  <1> HIDE DEF LockGoal, SemGoal
  <1>9. LockGoal /\ SemGoal
    BY <1>0, <1>1, <1>2, <1>3, <1>4, <1>5, <1>7, <1>8 DEF Next, ThreadStep
  <1> QED
    BY <1>9 DEF LockGoal, SemGoal

\* Nobody waits at first.
LEMMA InitWay == Init => WayInv
  <1> SUFFICES ASSUME Init PROVE WayInv
    OBVIOUS
  <1>1. OnTheirWay("P") = {} /\ lockQueue = <<>> /\ semQueue = <<>>
    BY DEF Init, OnTheirWay
  <1> QED
    BY <1>1, FS_EmptySet DEF WayInv, NoLostWakeup

(***************************************************************************)
(* No lost wake-up, for any number of threads: a free lock that threads    *)
(* wait for has a thread on its way to retest it, and the tokens threads   *)
(* wait for are no more than the threads already woken.                    *)
(***************************************************************************)
THEOREM NoWakeupLost == Spec => []NoLostWakeup
  <1>1. WayInv => NoLostWakeup
    BY DEF WayInv
  <1> QED
    BY <1>1, InitWay, NextWay, QueuesAlways, PTL DEF Spec

-----------------------------------------------------------------------------
(* Who leaves a condition's queue.                                         *)

\* What one step may do to the queue of one condition.
WokenByHolder(c) ==
    condQueue'[c] # condQueue[c] =>
        /\ currentThread \in inside
        /\ \/ \E t \in Thread : condQueue'[c] = Append(condQueue[c], t)
           \/ \E n \in 1..Len(condQueue[c]) :
                  condQueue'[c] = SubSeq(condQueue[c], n + 1, Len(condQueue[c]))

\* Wait adds the caller, Signal takes the first thread, Broadcast takes all.
LEMMA NextWoken == TypeOK /\ [Next]_vars => \A c \in Cond : WokenByHolder(c)
  <1> SUFFICES ASSUME TypeOK, [Next]_vars, NEW c \in Cond, condQueue'[c] # condQueue[c]
               PROVE  /\ currentThread \in inside
                      /\ \/ \E t \in Thread : condQueue'[c] = Append(condQueue[c], t)
                         \/ \E n \in 1..Len(condQueue[c]) :
                                condQueue'[c] = SubSeq(condQueue[c], n + 1, Len(condQueue[c]))
    BY DEF WokenByHolder
  <1> DEFINE q == condQueue[c]
  <1>1. q \in Seq(Thread) /\ condQueue \in [Cond -> Seq(Thread)]
    BY DEF TypeOK
  <1>2. PICK t \in Thread : \E d \in Cond : Wait(t, d) \/ Signal(t, d) \/ Broadcast(t, d)
    BY DEF Next, ThreadStep, Acquire, Release, ResumeAcquire, P, V, ResumeP, StartIO,
           Yield, Finish, Fork, DeviceInterrupt, IdleDispatch, Halt, vars
  <1>3. PICK d \in Cond : Wait(t, d) \/ Signal(t, d) \/ Broadcast(t, d)
    BY <1>2
  <1>4. currentThread = t /\ t \in inside
    BY <1>3 DEF Wait, Signal, Broadcast, Running
  <1>5. c = d
    BY <1>1, <1>3 DEF Wait, Signal, Broadcast
  <1>6. CASE Wait(t, d)
    BY <1>1, <1>4, <1>5, <1>6 DEF Wait
  <1>7. CASE Signal(t, d) \/ Broadcast(t, d)
    <2>1. condQueue'[c] = IF Signal(t, d) THEN Rest(q) ELSE <<>>
      BY <1>1, <1>5, <1>7 DEF Signal, Broadcast
    <2>2. q # <<>>
      <3>1. q = <<>> => Rest(q) = <<>>
        BY DEF Rest
      <3> QED
        BY <2>1, <3>1
    <2>3. Len(q) \in Nat /\ Len(q) >= 1
      BY <1>1, <2>2, EmptySeq, LenProperties
    <2>4. Rest(q) = SubSeq(q, 1 + 1, Len(q))
      BY <1>1, <2>2, TailIsSubSeq DEF Rest
    <2>5. SubSeq(q, Len(q) + 1, Len(q)) = <<>>
      BY <1>1, <2>3, SubSeqEmpty
    <2> QED
      BY <1>4, <2>1, <2>3, <2>4, <2>5
  <1> QED
    BY <1>3, <1>6, <1>7

(***************************************************************************)
(* A thread leaves a condition's queue only while the running thread holds *)
(* the lock, and only with every thread that has waited longer.            *)
(***************************************************************************)
THEOREM WokenInOrder == Spec => WokenInTurn
  <1>1. TypeOK /\ [Next]_vars
          => [\A c \in Cond : condQueue'[c] # condQueue[c] =>
                /\ currentThread \in inside
                /\ \/ \E t \in Thread : condQueue'[c] = Append(condQueue[c], t)
                   \/ \E n \in 1..Len(condQueue[c]) :
                          condQueue'[c] = SubSeq(condQueue[c], n + 1, Len(condQueue[c]))]_vars
    BY NextWoken DEF WokenByHolder
  <1> QED
    BY <1>1, TypeCorrect, PTL DEF Spec, WokenInTurn

-----------------------------------------------------------------------------
(* The primitives implement the contract of Monitor.                       *)

\* The abstract state that ImplementsMonitor substitutes.
AbsHolder  == IF isLockBusy THEN lockOwner ELSE NoThread
AbsWant    == {t \in Thread : call[t] = "Acquire"} \cup OnTheirWay("Wait")
AbsWaiting == [c \in Cond |-> Range(condQueue[c])]

\* A busy lock has a thread for owner, uninitialized as lockOwner may start.
Owned == isLockBusy => lockOwner \in Thread

\* Every step keeps the owner of the lock exact.
LEMMA NextOwned == Owned /\ [Next]_vars => Owned'
  BY DEF Owned, Next, ThreadStep, Acquire, Release, Wait, Signal, Broadcast, P, V, ResumeP,
         ResumeAcquire, StartIO, Yield, Finish, Fork, DeviceInterrupt, IdleDispatch, Halt,
         vars, lock, AcquireLoop, FreeLock

MonInv == QueueInv /\ LockHeld /\ Owned

\* Acquire requests the lock or takes it, and the loop after a sleep takes it
\* or goes back to sleep unseen.
LEMMA AcquireMaps ==
    ASSUME MonInv, NEW t \in Thread, Acquire(t) \/ ResumeAcquire(t)
    PROVE  Monitor!Next \/ UNCHANGED Monitor!vars
  <1>1. /\ machineStatus = "SystemMode" /\ currentThread = t /\ AcquireLoop(t)
        /\ UNCHANGED <<condQueue, sem>>
        /\ \/ call[t] = "run" /\ t \notin inside
           \/ call[t] \in {"Acquire", "Wait"}
    BY DEF Acquire, ResumeAcquire, Running, Woken
  <1>2. status[t] = "RUNNING" /\ call \in [Thread -> Call]
    BY <1>1 DEF MonInv, QueueInv, SchedulerConsistent, OneRunning, TypeOK
  <1>3. OnTheirWay("Wait")' = OnTheirWay("Wait") \ {t}
    BY <1>1, AcquireLoopQueues DEF MonInv, Primitive
  <1>4. UNCHANGED <<AbsWaiting, value>>
    BY <1>1 DEF AbsWaiting, sem
  <1>5. CASE isLockBusy
    <2>1. call' = [call EXCEPT ![t] = "Acquire"] /\ UNCHANGED AbsHolder
      BY <1>1, <1>5 DEF AcquireLoop, AbsHolder
    <2>2. AbsWant' = AbsWant \cup {t}
      BY <1>2, <1>3, <2>1 DEF AbsWant
    <2>3. CASE call[t] = "run"
      <3>1. AbsHolder # NoThread /\ t # AbsHolder
        BY <1>1, <1>5, <2>3, SchedulerAssumption DEF MonInv, LockHeld, Owned, AbsHolder
      <3>2. t \notin AbsWant
        BY <2>3 DEF AbsWant, OnTheirWay
      <3>3. Monitor!Request(t)
        BY <1>4, <2>1, <2>2, <3>1, <3>2
        DEF Monitor!Request, AbsHolder, AbsWant, AbsWaiting
      <3> QED
        BY <3>3 DEF Monitor!Next
    <2>4. CASE call[t] # "run"
      <3>1. t \in AbsWant
        BY <1>1, <1>2, <2>4 DEF AbsWant, OnTheirWay
      <3>2. UNCHANGED AbsWant
        BY <2>2, <3>1
      <3> QED
        BY <1>4, <2>1, <3>2 DEF Monitor!vars, AbsHolder, AbsWant, AbsWaiting
    <2> QED
      BY <2>3, <2>4
  <1>6. CASE ~isLockBusy
    <2>1. call' = [call EXCEPT ![t] = "run"] /\ AbsHolder = NoThread /\ AbsHolder' = t
      BY <1>1, <1>6 DEF AcquireLoop, AbsHolder
    <2>2. AbsWant' = AbsWant \ {t}
      BY <1>2, <1>3, <2>1 DEF AbsWant
    <2>3. Monitor!Take(t)
      BY <1>4, <2>1, <2>2 DEF Monitor!Take, AbsHolder, AbsWant, AbsWaiting
    <2> QED
      BY <2>3 DEF Monitor!Next
  <1> QED
    BY <1>5, <1>6

\* What Release and Wait do to the lock.
LEMMA FreeLockMaps ==
    ASSUME MonInv, NEW t \in Thread, t \in inside, FreeLock(t)
    PROVE  AbsHolder = t /\ AbsHolder' = NoThread
  BY DEF MonInv, LockHeld, FreeLock, AbsHolder

\* Release is the contract's Release, and Wait its Wait.
LEMMA ReleaseMaps ==
    ASSUME MonInv, NEW t \in Thread, Release(t)
    PROVE  Monitor!Next \/ UNCHANGED Monitor!vars
  <1>1. AbsHolder = t /\ AbsHolder' = NoThread
    BY FreeLockMaps DEF Release
  <1>2. UNCHANGED <<AbsWaiting, value>>
    BY DEF Release, AbsWaiting, sem
  <1>3. OnTheirWay("Wait")' = OnTheirWay("Wait") /\ UNCHANGED call
    BY ReleaseQueues DEF MonInv, Release
  <1>4. UNCHANGED AbsWant
    BY <1>3 DEF AbsWant
  <1>5. Monitor!Release(t)
    BY <1>1, <1>2, <1>4 DEF Monitor!Release, AbsHolder, AbsWant, AbsWaiting
  <1> QED
    BY <1>5 DEF Monitor!Next

\* A queue changed is a set of waiting threads changed.
LEMMA WaitingMaps ==
    ASSUME TypeOK, NEW c \in Cond, NEW q, condQueue' = [condQueue EXCEPT ![c] = q]
    PROVE  /\ AbsWaiting' = [AbsWaiting EXCEPT ![c] = Range(q)]
           /\ AbsWaiting[c] = Range(condQueue[c])
  <1>1. \A d \in Cond : condQueue'[d] = IF d = c THEN q ELSE condQueue[d]
    BY DEF TypeOK
  <1>2. \A d \in Cond : Range(condQueue'[d]) = IF d = c THEN Range(q) ELSE Range(condQueue[d])
    BY <1>1
  <1>3. AbsWaiting' = [d \in Cond |-> IF d = c THEN Range(q) ELSE Range(condQueue[d])]
    BY <1>2 DEF AbsWaiting
  <1>4. /\ DOMAIN AbsWaiting = Cond
        /\ \A d \in Cond : AbsWaiting[d] = Range(condQueue[d])
    BY DEF AbsWaiting
  <1>5. [AbsWaiting EXCEPT ![c] = Range(q)]
            = [d \in Cond |-> IF d = c THEN Range(q) ELSE Range(condQueue[d])]
    BY <1>4
  <1> QED
    BY <1>3, <1>4, <1>5

\* Wait is the monitor's Wait.
LEMMA WaitMaps ==
    ASSUME MonInv, NEW t \in Thread, NEW c \in Cond, Wait(t, c)
    PROVE  Monitor!Next \/ UNCHANGED Monitor!vars
  <1> DEFINE q == Append(condQueue[c], t)
  <1>0. TypeOK /\ call \in [Thread -> Call] /\ condQueue[c] \in Seq(Thread)
    BY DEF MonInv, QueueInv, TypeOK
  <1>1. AbsHolder = t /\ AbsHolder' = NoThread
    BY FreeLockMaps DEF Wait
  <1>2. /\ call[t] = "run" /\ call' = [call EXCEPT ![t] = "Wait"]
        /\ condQueue' = [condQueue EXCEPT ![c] = q] /\ UNCHANGED value
    BY DEF Wait, Running, sem
  <1>3. Range(q) = Range(condQueue[c]) \cup {t}
    BY <1>0, AppendRange
  <1> HIDE DEF q
  <1>4. AbsWaiting' = [AbsWaiting EXCEPT ![c] = AbsWaiting[c] \cup {t}]
    BY <1>0, <1>2, <1>3, WaitingMaps
  <1>5. OnTheirWay("Wait")' = OnTheirWay("Wait")
    BY WaitQueues DEF MonInv
  <1>6. UNCHANGED AbsWant
    BY <1>0, <1>2, <1>5 DEF AbsWant
  <1>7. Monitor!Wait(t, c)
    BY <1>1, <1>2, <1>4, <1>6 DEF Monitor!Wait, AbsHolder, AbsWant, AbsWaiting
  <1> QED
    BY <1>7 DEF Monitor!Next

\* Signal moves the first waiting thread, if there is one, and Broadcast all.
LEMMA SignalMaps ==
    ASSUME MonInv, NEW t \in Thread, NEW c \in Cond, Signal(t, c) \/ Broadcast(t, c)
    PROVE  Monitor!Next \/ UNCHANGED Monitor!vars
  <1>0. /\ TypeOK /\ call \in [Thread -> Call] /\ condQueue \in [Cond -> Seq(Thread)]
        /\ IsInjective(condQueue[c])
    BY DEF MonInv, QueueInv, TypeOK, WaitQueuesExact
  <1>1. AbsHolder = t /\ UNCHANGED <<AbsHolder, value, call>>
    BY DEF MonInv, LockHeld, Signal, Broadcast, AbsHolder, lock, sem
  <1>2. CASE Signal(t, c) /\ condQueue[c] = <<>>
    <2>1. Rest(condQueue[c]) = <<>> /\ Range(First(condQueue[c])) = {}
      BY <1>2 DEF Rest, First, Range
    <2>2. UNCHANGED AbsWaiting
      BY <1>0, <1>2, <2>1 DEF Signal, AbsWaiting
    <2>3. OnTheirWay("Wait")' = OnTheirWay("Wait")
      <3>1. Range(condQueue[c]) = {}
        BY <1>2 DEF Range
      <3> QED
        BY <2>1, <3>1, SignalQueues DEF MonInv
    <2>4. UNCHANGED AbsWant
      BY <1>1, <2>3 DEF AbsWant
    <2> QED
      BY <1>1, <2>2, <2>4 DEF Monitor!vars, AbsHolder, AbsWant, AbsWaiting
  <1>3. CASE Signal(t, c) /\ condQueue[c] # <<>>
    <2> DEFINE u == Head(condQueue[c])
               q == Rest(condQueue[c])
    <2>1. /\ Range(First(condQueue[c])) = {u} /\ u \in Range(condQueue[c])
          /\ Range(q) = Range(condQueue[c]) \ {u}
      BY <1>0, <1>3, FirstRestRange
    <2>2. condQueue' = [condQueue EXCEPT ![c] = q]
      BY <1>3 DEF Signal
    <2>3. OnTheirWay("Wait")' = OnTheirWay("Wait") \cup {u}
      <3>1. ~Broadcast(t, c) \/ Range(condQueue[c]) = {u}
        <4>1. ASSUME Broadcast(t, c) PROVE Range(condQueue[c]) = {u}
          <5>1. condQueue'[c] = <<>> /\ condQueue'[c] = q
            BY <1>0, <2>2, <4>1 DEF Broadcast
          <5>2. Range(q) = {}
            BY <5>1 DEF Range
          <5> QED
            BY <2>1, <5>2
        <4> QED
          BY <4>1
      <3> QED
        BY <1>3, <2>1, <3>1, SignalQueues DEF MonInv
    <2> HIDE DEF u, q
    <2>4. AbsWaiting' = [AbsWaiting EXCEPT ![c] = AbsWaiting[c] \ {u}] /\ u \in AbsWaiting[c]
      BY <1>0, <2>1, <2>2, WaitingMaps
    <2>5. AbsWant' = AbsWant \cup {u}
      BY <1>1, <2>3 DEF AbsWant
    <2>6. Monitor!Signal(t, c)
      BY <1>1, <2>4, <2>5 DEF Monitor!Signal, AbsHolder, AbsWant, AbsWaiting
    <2> QED
      BY <2>6 DEF Monitor!Next
  <1>4. CASE Broadcast(t, c) /\ ~Signal(t, c)
    <2> DEFINE none == <<>>
    <2>1. condQueue' = [condQueue EXCEPT ![c] = none]
      BY <1>4 DEF Broadcast
    <2>2. Range(none) = {}
      BY DEF Range
    <2> HIDE DEF none
    <2>3. AbsWaiting' = [AbsWaiting EXCEPT ![c] = {}] /\ AbsWaiting[c] = Range(condQueue[c])
      BY <1>0, <2>1, <2>2, WaitingMaps
    <2>4. OnTheirWay("Wait")' = OnTheirWay("Wait") \cup Range(condQueue[c])
      BY <1>4, SignalQueues DEF MonInv
    <2>5. AbsWant' = AbsWant \cup AbsWaiting[c]
      BY <1>1, <2>3, <2>4 DEF AbsWant
    <2>6. Monitor!Broadcast(t, c)
      BY <1>1, <2>3, <2>5 DEF Monitor!Broadcast, AbsHolder, AbsWant, AbsWaiting
    <2> QED
      BY <2>6 DEF Monitor!Next
  <1> QED
    BY <1>2, <1>3, <1>4

\* The semaphore takes and adds a token, or goes to sleep unseen.
LEMMA SemMaps ==
    ASSUME MonInv, NEW t \in Thread, P(t) \/ ResumeP(t) \/ V(t) \/ DeviceInterrupt
    PROVE  Monitor!Next \/ UNCHANGED Monitor!vars
  <1>1. UNCHANGED <<AbsHolder, AbsWaiting>>
    BY DEF P, ResumeP, V, DeviceInterrupt, lock, AbsHolder, AbsWaiting
  <1>2. UNCHANGED AbsWant
    <2>1. CASE P(t) \/ ResumeP(t)
      <3>1. /\ machineStatus = "SystemMode" /\ currentThread = t /\ call[t] \in {"run", "P"}
            /\ PLoop(t) /\ UNCHANGED <<lock, condQueue>>
        BY <2>1 DEF P, ResumeP, Running, Woken
      <3>2. OnTheirWay("Wait")' = OnTheirWay("Wait") \ {t}
        BY <3>1, PLoopQueues DEF MonInv, Primitive
      <3>3. OnTheirWay("Wait")' = OnTheirWay("Wait")
        BY <3>1, <3>2 DEF OnTheirWay
      <3>4. /\ call \in [Thread -> Call]
            /\ call' = [call EXCEPT ![t] = "P"] \/ call' = [call EXCEPT ![t] = "run"]
        BY <3>1 DEF PLoop, MonInv, QueueInv, TypeOK
      <3> QED
        BY <3>1, <3>3, <3>4 DEF AbsWant
    <2>2. CASE V(t) \/ DeviceInterrupt
      <3>1. VBody /\ UNCHANGED <<lock, condQueue, call>>
        BY <2>2 DEF V, DeviceInterrupt
      <3>2. OnTheirWay("Wait")' = OnTheirWay("Wait")
        BY <3>1, VBodyQueues DEF MonInv
      <3> QED
        BY <3>1, <3>2 DEF AbsWant
    <2> QED
      BY <2>1, <2>2
  <1>3. \/ value > 0 /\ value' = value - 1
        \/ value' = value + 1
        \/ value' = value
    BY DEF P, ResumeP, V, DeviceInterrupt, PLoop, VBody
  <1>4. Monitor!Down \/ Monitor!Up \/ UNCHANGED Monitor!vars
    BY <1>1, <1>2, <1>3
    DEF Monitor!Down, Monitor!Up, Monitor!vars, AbsHolder, AbsWant, AbsWaiting
  <1> QED
    BY <1>4 DEF Monitor!Next

\* Nobody sees the scheduler at work.
LEMMA DispatchMaps ==
    ASSUME MonInv, NEW t \in Thread,
           \/ StartIO(t) \/ Yield(t) \/ Finish(t) \/ \E u \in Thread : Fork(t, u)
           \/ IdleDispatch \/ Halt \/ UNCHANGED vars
    PROVE  UNCHANGED Monitor!vars
  <1>1. UNCHANGED <<AbsHolder, AbsWaiting, value>>
    BY DEF StartIO, Yield, Finish, Fork, IdleDispatch, Halt, vars, lock, sem,
           AbsHolder, AbsWaiting
  <1>2. OnTheirWay("Wait")' = OnTheirWay("Wait")
    BY FinishQueues, ForkQueues, DispatchQueues DEF MonInv, Primitive
  <1>3. {u \in Thread : call[u] = "Acquire"}' = {u \in Thread : call[u] = "Acquire"}
    <2>1. CASE Finish(t)
      BY <2>1 DEF Finish, Running, MonInv, QueueInv, TypeOK
    <2>2. CASE ~Finish(t)
      <3>1. UNCHANGED call
        BY <2>2 DEF StartIO, Yield, Fork, IdleDispatch, Halt, vars
      <3> QED
        BY <3>1
    <2> QED
      BY <2>1, <2>2
  <1>4. UNCHANGED AbsWant
    BY <1>2, <1>3 DEF AbsWant
  <1> QED
    BY <1>1, <1>4 DEF Monitor!vars, AbsHolder, AbsWant, AbsWaiting

\* Every step of the primitives is a step of the contract or unseen by it.
LEMMA NextMaps == MonInv /\ [Next]_vars => [Monitor!Next]_(Monitor!vars)
  <1> SUFFICES ASSUME MonInv, [Next]_vars PROVE Monitor!Next \/ UNCHANGED Monitor!vars
    OBVIOUS
  <1>1. Main \in Thread
    BY SchedulerAssumption
  <1> QED
    BY <1>1, AcquireMaps, ReleaseMaps, WaitMaps, SignalMaps, SemMaps, DispatchMaps
    DEF Next, ThreadStep

\* The contract's initial state is the primitives'.
LEMMA InitMaps == Init => Monitor!Init
  <1> SUFFICES ASSUME Init PROVE Monitor!Init
    OBVIOUS
  <1>1. AbsHolder = NoThread /\ value = InitialValue
    BY DEF Init, AbsHolder
  <1>2. AbsWant = {}
    BY DEF Init, AbsWant, OnTheirWay
  <1>3. AbsWaiting = [c \in Cond |-> {}]
    <2>1. Range(<<>>) = {}
      BY DEF Range
    <2> QED
      BY <2>1 DEF Init, AbsWaiting
  <1> QED
    BY <1>1, <1>2, <1>3 DEF Monitor!Init, AbsHolder, AbsWant, AbsWaiting

(***************************************************************************)
(* Lock, Condition and Semaphore, on their queues and the scheduler, keep  *)
(* the contract of Monitor: the lock has one holder, a wait releases it    *)
(* and starts to wait at once, a signal moves one waiting thread to those  *)
(* that want the lock, a broadcast all, and none goes on without the lock. *)
(***************************************************************************)
THEOREM MonitorImplemented == Spec => ImplementsMonitor
  <1>1. Init => Owned
    BY DEF Init, Owned
  <1>2. Spec => []Owned
    BY <1>1, NextOwned, PTL DEF Spec
  <1>3. QueueInv /\ LockHeld /\ Owned => MonInv
    BY DEF MonInv
  <1>4. Spec => []MonInv
    BY <1>2, <1>3, QueuesAlways, LockCorrect, PTL
  <1> QED
    BY <1>4, InitMaps, NextMaps, PTL DEF Spec, ImplementsMonitor, Monitor!Spec
=============================================================================
