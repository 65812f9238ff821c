-------------------------------- MODULE Alarm --------------------------------
(***************************************************************************)
(* Lab 3's alarm clock (3/Alarm.cc) with the interrupts of                 *)
(* machine/interrupt.cc and test 3 of 3/threadtest.cc: main forks          *)
(* ProhibitExit and some AlarmThreads and is an AlarmThread itself.        *)
(*                                                                         *)
(* Pause schedules an interrupt and waits on a condition whose queue is    *)
(* sorted by wake-up time; the handler Expire calls Awaken, which takes    *)
(* the alarm's lock, in the context of whatever thread was interrupted.    *)
(*                                                                         *)
(* Times are relative: `pending` and `left` hold the ticks still to go, so *)
(* that the clock needs no bound.  One tick is one Interrupt::OneTick (ten *)
(* units of stats->totalTicks).                                            *)
(***************************************************************************)
EXTENDS Scheduler, FiniteSets

CONSTANTS
    Guard,      \* the thread that runs ProhibitExit
    MaxSleep    \* bound: sleep_time is in 0..MaxSleep (the code has 0..299)

ASSUME AlarmAssumption ==
    Guard \in Thread \ {Main} /\ MaxSleep \in Nat /\ IsFiniteSet(Thread)

VARIABLES
    randomTimer,    \* Nachos was started with -rs: the timer preempts threads
    pending,        \* Interrupt::pending: ticks to go of each Expire, sorted
    inHandler,      \* Interrupt::inHandler, between steps
    failed,         \* an assertion of the kernel has failed
    isLockBusy, lockQueue,      \* AlarmClock::lock
    conQueue,       \* ConditionPriority::queue of AlarmClock::con
    left,           \* ticks to each thread's wake-up time
    countAlarm,
    pc

alarm == <<pending, lockQueue, isLockBusy, conQueue, left, countAlarm>>
vars  == <<sched, alarm, randomTimer, inHandler, failed, pc>>

\* fork        main, in ThreadTest3
\* loop        ProhibitExit
\* start       AlarmThread, before Pause
\* acquire     in Pause's Acquire
\* locked      after it, interrupts enabled, before Schedule and Wait
\* asleep      in con->Wait, up to the return of its Acquire
\* awake       after it, interrupts enabled, before Release
\* released    after Release
PC == {"fork", "loop", "start", "acquire", "locked", "asleep", "awake", "released", "done"}

TypeOK ==
    /\ SchedTypeOK
    /\ randomTimer \in BOOLEAN /\ inHandler \in BOOLEAN /\ failed \in BOOLEAN
    /\ pending \in Seq(0..MaxSleep)
    /\ isLockBusy \in BOOLEAN
    /\ lockQueue \in Seq(Thread) /\ conQueue \in Seq(Thread)
    /\ left \in [Thread -> 0..MaxSleep]
    /\ countAlarm \in 0..Cardinality(Thread)
    /\ pc \in [Thread -> PC]

Init ==
    /\ SchedInit
    /\ randomTimer \in BOOLEAN
    /\ pending = <<>>
    /\ inHandler = FALSE /\ failed = FALSE
    /\ isLockBusy = FALSE
    /\ lockQueue = <<>> /\ conQueue = <<>>
    /\ left = [t \in Thread |-> 0]
    /\ countAlarm = 0
    /\ pc = [t \in Thread |->
               IF t = Main THEN "fork" ELSE IF t = Guard THEN "loop" ELSE "start"]

\* List::SortedInsert of x with key k, where key[i] is the key of q[i]: behind
\* the items with an equal key.
SortedInsert(q, x, k, key) ==
    LET n == Cardinality({i \in DOMAIN q : key[i] <= k})
    IN  SubSeq(q, 1, n) \o <<x>> \o SubSeq(q, n + 1, Len(q))

Running(t) == machineStatus = "SystemMode" /\ currentThread = t /\ ~failed

Due == pending # <<>> /\ Head(pending) = 0

\* The thread goes on only when OneTick has found nothing more to do.
Step(t, from) == Running(t) /\ ~inHandler /\ ~Due /\ pc[t] = from

Goto(t, to) == pc' = [pc EXCEPT ![t] = to]

\* Interrupts are enabled and the processor may be in OneTick.
InterruptsOn(t) ==
    /\ Running(t) /\ ~inHandler
    /\ pc[t] \in {"fork", "loop", "start", "locked", "awake", "released"}

-----------------------------------------------------------------------------
\* The threads.

\* ThreadTest3: ProhibitExit is forked first, then the AlarmThreads.
ForkNext(u) ==
    /\ Step(Main, "fork")
    /\ u = Guard \/ status[Guard] # "JUST_CREATED"
    /\ ForkThread(u)
    /\ UNCHANGED <<alarm, randomTimer, inHandler, failed, pc>>

ForkedAll ==
    /\ Step(Main, "fork")
    /\ \A u \in Thread : status[u] # "JUST_CREATED"
    /\ Goto(Main, "start")
    /\ UNCHANGED <<sched, alarm, randomTimer, inHandler, failed>>

\* Lock::Acquire: the loop's body, then the place after it.
AcquireLoop(t, again, after) ==
    \/ /\ isLockBusy
       /\ lockQueue' = Append(lockQueue, t)
       /\ Goto(t, again)
       /\ Sleep(<<>>, threadToBeDestroyed)
       /\ UNCHANGED isLockBusy
    \/ /\ ~isLockBusy
       /\ isLockBusy' = TRUE
       /\ Goto(t, after)
       /\ UNCHANGED <<sched, lockQueue>>

\* AlarmThread up to the end of Pause's Acquire.
StartPause(t) ==
    /\ Step(t, "start")
    /\ countAlarm' = countAlarm + 1
    /\ AcquireLoop(t, "acquire", "locked")
    /\ UNCHANGED <<pending, conQueue, left, randomTimer, inHandler, failed>>

\* Schedule and ConditionPriority::Wait up to its Sleep(): interrupts are not
\* enabled between the two.
PauseWait(t) ==
    \E howLong \in 1..MaxSleep :
        /\ Step(t, "locked")
        /\ pending' = SortedInsert(pending, howLong, howLong, pending)
        /\ conQueue' = SortedInsert(conQueue, t, howLong,
                                    [i \in DOMAIN conQueue |-> left[conQueue[i]]])
        /\ left' = [left EXCEPT ![t] = howLong]
        /\ isLockBusy' = FALSE
        /\ lockQueue' = Rest(lockQueue)
        /\ Goto(t, "asleep")
        /\ Sleep(First(lockQueue), threadToBeDestroyed)
        /\ UNCHANGED <<countAlarm, randomTimer, inHandler, failed>>

\* Random() % 300 may be 0: Schedule's ASSERT(fromNow > 0) fails.
PauseZero(t) ==
    /\ Step(t, "locked")
    /\ failed' = TRUE
    /\ UNCHANGED <<sched, alarm, randomTimer, inHandler, pc>>

\* The thread goes on in Acquire, called by Pause or by Wait.
Resume(t) ==
    /\ \/ Step(t, "acquire") /\ AcquireLoop(t, "acquire", "locked")
       \/ Step(t, "asleep") /\ AcquireLoop(t, "asleep", "awake")
    /\ UNCHANGED <<pending, conQueue, left, countAlarm, randomTimer, inHandler, failed>>

\* A variant of Pause whose Release wakes nobody.
PauseEnd_WakesNobody(t) ==
    /\ Step(t, "awake")
    /\ isLockBusy' = FALSE
    /\ Goto(t, "released")
    /\ UNCHANGED <<sched, lockQueue, pending, conQueue, left, countAlarm,
                   randomTimer, inHandler, failed>>

PauseEnd(t) ==
    /\ Step(t, "awake")
    /\ isLockBusy' = FALSE
    /\ lockQueue' = Rest(lockQueue)
    /\ ReadyToRun(First(lockQueue))
    /\ Goto(t, "released")
    /\ UNCHANGED <<pending, conQueue, left, countAlarm, randomTimer, inHandler, failed>>

AlarmThreadEnd(t) ==
    /\ Step(t, "released")
    /\ countAlarm' = countAlarm - 1
    /\ Goto(t, "done")
    /\ Sleep(<<>>, t)
    /\ UNCHANGED <<pending, lockQueue, isLockBusy, conQueue, left, randomTimer, inHandler, failed>>

\* ProhibitExit yields while there are sleepers, so that the machine does not
\* become idle, ...
ProhibitYield ==
    /\ Step(Guard, "loop") /\ countAlarm # 0
    /\ YieldCPU
    /\ UNCHANGED <<alarm, randomTimer, inHandler, failed, pc>>

\* A variant of ProhibitExit that stops when one thread is left asleep.
ProhibitEnd_Early ==
    /\ Step(Guard, "loop") /\ countAlarm <= 1
    /\ Goto(Guard, "done")
    /\ Sleep(<<>>, Guard)
    /\ UNCHANGED <<alarm, randomTimer, inHandler, failed>>

\* ... and returns when there are none.
ProhibitEnd ==
    /\ Step(Guard, "loop") /\ countAlarm = 0
    /\ Goto(Guard, "done")
    /\ Sleep(<<>>, Guard)
    /\ UNCHANGED <<alarm, randomTimer, inHandler, failed>>

-----------------------------------------------------------------------------
\* Interrupts.

\* OneTick advances the clock when a thread enables interrupts.
Tick ==
    /\ InterruptsOn(currentThread) /\ ~Due
    /\ pending # <<>>
    /\ pending' = [i \in DOMAIN pending |-> pending[i] - 1]
    /\ left' = [t \in Thread |-> IF left[t] > 0 THEN left[t] - 1 ELSE 0]
    /\ UNCHANGED <<sched, lockQueue, isLockBusy, conQueue, countAlarm,
                   randomTimer, inHandler, failed, pc>>

\* A variant of Awaken that readies the last of the sleepers.
Awaken_WrongEnd ==
    /\ ~isLockBusy
    /\ ReadyToRun((IF conQueue = <<>> THEN <<>> ELSE <<conQueue[Len(conQueue)]>>)
                    \o First(lockQueue))
    /\ conQueue' = IF conQueue = <<>> THEN <<>> ELSE SubSeq(conQueue, 1, Len(conQueue) - 1)
    /\ lockQueue' = Rest(lockQueue)

\* Awaken with the lock free: Acquire, Signal and Release with interrupts off.
Awaken ==
    /\ ~isLockBusy
    /\ ReadyToRun(First(conQueue) \o First(lockQueue))
    /\ conQueue' = Rest(conQueue)
    /\ lockQueue' = Rest(lockQueue)

\* CheckIfDue fires an Expire that is due.
Fire ==
    /\ InterruptsOn(currentThread) /\ Due
    /\ pending' = Tail(pending)
    /\ Awaken
    /\ UNCHANGED <<isLockBusy, left, countAlarm, randomTimer, inHandler, failed, pc>>

\* Awaken with the lock held by the interrupted thread itself, or by one that
\* was preempted: the handler's Acquire puts the interrupted thread on the
\* lock's queue and to sleep.
FireBlocked ==
    /\ InterruptsOn(currentThread) /\ Due
    /\ isLockBusy
    /\ pending' = Tail(pending)
    /\ inHandler' = TRUE
    /\ lockQueue' = Append(lockQueue, currentThread)
    /\ Sleep(<<>>, threadToBeDestroyed)
    /\ UNCHANGED <<isLockBusy, conQueue, left, countAlarm, randomTimer, failed, pc>>

\* The next thread runs with inHandler set.  One that is itself in Acquire goes
\* back to sleep; any other enables interrupts, and SetLevel's assertion fails.
InHandlerAcquire(t) ==
    /\ Running(t) /\ inHandler /\ pc[t] \in {"acquire", "asleep"}
    /\ isLockBusy
    /\ AcquireLoop(t, pc[t], pc[t])
    /\ UNCHANGED <<pending, conQueue, left, countAlarm, randomTimer, inHandler, failed>>

InHandlerEnable(t) ==
    /\ Running(t) /\ inHandler /\ pc[t] \notin {"acquire", "asleep"}
    /\ failed' = TRUE
    /\ UNCHANGED <<sched, alarm, randomTimer, inHandler, pc>>

\* The timer's handler asks for a yield on return.
Preempt ==
    /\ randomTimer /\ ~Due
    /\ InterruptsOn(currentThread)
    /\ YieldCPU
    /\ UNCHANGED <<alarm, randomTimer, inHandler, failed, pc>>

\* CheckIfDue in IdleMode does not fire an interrupt of type TimerInt when no
\* other is pending, and Expire is scheduled with that type.
Lone == Len(pending) = 1 /\ ~randomTimer

\* Idle advances the clock to the first interrupt and fires it and those that
\* are due with it.
IdleFire ==
    /\ machineStatus = "IdleMode" /\ ~inHandler
    /\ pending # <<>> /\ ~Lone
    /\ readyList = <<>> \/ Due
    /\ Awaken
    /\ pending' = [i \in 1..(Len(pending) - 1) |-> pending[i + 1] - Head(pending)]
    /\ left' = [t \in Thread |->
                  IF left[t] > Head(pending) THEN left[t] - Head(pending) ELSE 0]
    /\ UNCHANGED <<isLockBusy, countAlarm, randomTimer, inHandler, failed, pc>>

IdleEnd ==
    /\ ~Due \/ Lone
    /\ LeaveIdle
    /\ UNCHANGED <<alarm, randomTimer, inHandler, failed, pc>>

\* The machine halts: also inside a handler that sleeps, since the handlers
\* that may still fire block on the same lock.
Halt ==
    /\ pending = <<>> \/ Lone \/ inHandler
    /\ HaltIdle
    /\ UNCHANGED <<alarm, randomTimer, inHandler, failed, pc>>

ThreadStep(t) ==
    \/ StartPause(t) \/ PauseWait(t) \/ PauseZero(t) \/ Resume(t)
    \/ PauseEnd(t) \/ AlarmThreadEnd(t)
    \/ InHandlerAcquire(t) \/ InHandlerEnable(t)

MainStep == (\E u \in Thread : ForkNext(u)) \/ ForkedAll

Interrupts == Tick \/ Fire \/ FireBlocked \/ IdleFire \/ IdleEnd \/ Halt

Next ==
    \/ \E t \in Thread : ThreadStep(t)
    \/ MainStep \/ ProhibitYield \/ ProhibitEnd
    \/ Interrupts \/ Preempt

Spec == Init /\ [][Next]_vars

\* Every enabling of interrupts is a tick, and the random timer, if there is one,
\* preempts the current thread again and again; but its interval is random (up
\* to 2 * TimerTicks), so a thread that gets the processor again and again also
\* makes a step: strong fairness.
FairSpec ==
    /\ Spec
    /\ \A t \in Thread : SF_vars(ThreadStep(t))
    /\ SF_vars(MainStep) /\ SF_vars(ProhibitEnd) /\ WF_vars(ProhibitYield)
    /\ SF_vars(Tick) /\ WF_vars(Fire \/ FireBlocked)
    /\ WF_vars(IdleFire) /\ WF_vars(IdleEnd) /\ WF_vars(Halt)
    /\ WF_vars(Preempt)

-----------------------------------------------------------------------------
(***************************************************************************)
(* The condition's queue and the pending interrupts agree, thread by       *)
(* thread: the handler that fires first wakes the thread that sleeps       *)
(* shortest, although it only signals "the first", and so no thread is     *)
(* woken before its time.                                                  *)
(***************************************************************************)
NotEarly ==
    \A t \in Thread :
        pc[t] = "awake" \/ (pc[t] = "asleep" /\ status[t] # "BLOCKED") => left[t] = 0

AlarmPerSleeper ==
    /\ TypeOK /\ NotEarly
    /\ ~inHandler =>
        /\ Len(pending) = Len(conQueue)
        /\ \A i \in DOMAIN pending : pending[i] = left[conQueue[i]]

(***************************************************************************)
(* When the machine halts, no thread is left asleep: ProhibitExit (without *)
(* the timer) or the timer's own interrupts (with it) keep a lone alarm    *)
(* from being ignored, unless a handler has gone to sleep.                 *)
(***************************************************************************)
NobodyOversleeps ==
    machineStatus = "Halted" /\ ~inHandler => \A t \in Thread : pc[t] = "done"

(***************************************************************************)
(* A sleeping thread is awakened, unless an assertion fails or the machine *)
(* halts inside a handler.                                                 *)
(***************************************************************************)
Awakened ==
    \A t \in Thread : pc[t] = "asleep" ~> pc[t] = "done" \/ failed \/ inHandler

(***************************************************************************)
(* ASSERT((now == IntOff) || (inHandler == FALSE)) (interrupt.cc:119): "in-*)
(* terrupt handlers are prohibited from enabling interrupts".  No thread   *)
(* gets to enable them while a handler is under way.                       *)
(***************************************************************************)
NeverEnabledInHandler == ~(failed /\ inHandler)
=============================================================================
