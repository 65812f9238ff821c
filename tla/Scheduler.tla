------------------------------ MODULE Scheduler ------------------------------
(***************************************************************************)
(* Threads and the scheduler of Nachos: nachos-3.4/code/threads/thread.cc, *)
(* scheduler.cc, list.cc and the part of machine/interrupt.cc that decides *)
(* what the processor does when no thread is ready.                        *)
(*                                                                         *)
(* There is one processor.  A routine that has disabled interrupts runs    *)
(* until it enables them again or until Thread::Sleep or Thread::Yield     *)
(* gives the processor away, so everything between two such points is one  *)
(* atomic step.  This module has the state and the operators those steps   *)
(* are made of; Synch builds the thread's operations from them.            *)
(***************************************************************************)
EXTENDS Naturals, Sequences, Functions

CONSTANTS
    Thread,     \* the threads of the run, "main" included
    Main,       \* the thread Initialize() creates in state RUNNING
    NoThread    \* the NULL pointer

ASSUME SchedulerAssumption == Main \in Thread /\ NoThread \notin Thread

VARIABLES
    status,               \* Thread::status; "DELETED" after the destructor
    readyList,            \* Scheduler::readyList
    currentThread,        \* the thread whose stack the processor is on
    threadToBeDestroyed,  \* a finished thread whose carcass is not freed yet
    suspended,            \* threads inside Scheduler::Run, i.e. in SWITCH
    machineStatus         \* Interrupt::status, and "Halted" after Halt()

sched == <<status, readyList, currentThread, threadToBeDestroyed, suspended,
           machineStatus>>

ThreadStatus == {"JUST_CREATED", "RUNNING", "READY", "BLOCKED", "DELETED"}

SchedTypeOK ==
    /\ status \in [Thread -> ThreadStatus]
    /\ readyList \in Seq(Thread)
    /\ currentThread \in Thread
    /\ threadToBeDestroyed \in Thread \cup {NoThread}
    /\ suspended \subseteq Thread
    /\ machineStatus \in {"SystemMode", "IdleMode", "Halted"}

SchedInit ==
    /\ status = [t \in Thread |-> IF t = Main THEN "RUNNING" ELSE "JUST_CREATED"]
    /\ readyList = <<>>
    /\ currentThread = Main
    /\ threadToBeDestroyed = NoThread
    /\ suspended = {}
    /\ machineStatus = "SystemMode"

-----------------------------------------------------------------------------
\* List::Remove: the first item of the list, if there is one, and the rest.
First(q) == IF q = <<>> THEN <<>> ELSE <<Head(q)>>
Rest(q)  == IF q = <<>> THEN <<>> ELSE Tail(q)

\* ReadyToRun on each thread of the sequence ts: the status ...
MarkReady(ts) ==
    [t \in Thread |-> IF t \in Range(ts) THEN "READY" ELSE status[t]]

\* ... and the whole effect, when the caller keeps the processor.
ReadyToRun(ts) ==
    /\ status' = MarkReady(ts)
    /\ readyList' = readyList \o ts
    /\ UNCHANGED <<currentThread, threadToBeDestroyed, suspended, machineStatus>>

\* Scheduler::Run(Head(rl)) with thread statuses st and threadToBeDestroyed =
\* dead.  A thread that was switched out before returns from SWITCH and
\* destroys the carcass; a thread that runs for the first time starts in
\* ThreadRoot instead, which does not.
Run(st, rl, dead) ==
    LET next  == Head(rl)
        reaps == next \in suspended \cup {currentThread}
    IN  /\ readyList' = Tail(rl)
        /\ currentThread' = next
        /\ status' = [t \in Thread |->
                        IF t = next THEN "RUNNING"
                        ELSE IF t = dead /\ reaps THEN "DELETED" ELSE st[t]]
        /\ threadToBeDestroyed' = IF reaps THEN NoThread ELSE dead
        /\ suspended' = (suspended \cup {currentThread}) \ {next}
        /\ machineStatus' = "SystemMode"

\* Thread::Sleep of the current thread, after ReadyToRun on the threads of
\* wake and with threadToBeDestroyed = dead.  With no thread ready the machine
\* is left in Interrupt::Idle, on the sleeping thread's stack.
Sleep(wake, dead) ==
    LET st == [MarkReady(wake) EXCEPT ![currentThread] = "BLOCKED"]
        rl == readyList \o wake
    IN  \/ /\ rl # <<>>
           /\ Run(st, rl, dead)
        \/ /\ rl = <<>>
           /\ status' = st
           /\ threadToBeDestroyed' = dead
           /\ machineStatus' = "IdleMode"
           /\ UNCHANGED <<readyList, currentThread, suspended>>

\* A variant of Thread::Yield that takes the next thread without putting the
\* running one back on the ready list.
YieldCPU_Forgets ==
    /\ readyList # <<>>
    /\ Run([status EXCEPT ![currentThread] = "READY"], readyList, threadToBeDestroyed)

\* Thread::Yield, when another thread is ready (it returns at once otherwise).
YieldCPU ==
    /\ readyList # <<>>
    /\ Run([status EXCEPT ![currentThread] = "READY"],
           Append(readyList, currentThread), threadToBeDestroyed)

\* Thread::Fork of u: the only place a JUST_CREATED thread becomes READY.
ForkThread(u) ==
    /\ status[u] = "JUST_CREATED"
    /\ ReadyToRun(<<u>>)

\* The loop of Thread::Sleep after Interrupt::Idle has run a handler that
\* made a thread ready.
LeaveIdle ==
    /\ machineStatus = "IdleMode"
    /\ readyList # <<>>
    /\ Run(status, readyList, threadToBeDestroyed)

\* Interrupt::Idle with no pending device interrupt: the machine halts.
HaltIdle ==
    /\ machineStatus = "IdleMode"
    /\ readyList = <<>>
    /\ machineStatus' = "Halted"
    /\ UNCHANGED <<status, readyList, currentThread, threadToBeDestroyed, suspended>>

-----------------------------------------------------------------------------
(***************************************************************************)
(* The ready list holds exactly the READY threads, each once (a second     *)
(* entry would run a thread on a stack that is in use), and the RUNNING    *)
(* thread is the current one, except while the machine idles on the stack  *)
(* of a sleeping thread.                                                   *)
(***************************************************************************)
ReadyListExact ==
    /\ IsInjective(readyList)
    /\ \A t \in Thread : status[t] = "READY" <=> t \in Range(readyList)

OneRunning ==
    \A t \in Thread :
        status[t] = "RUNNING" <=> t = currentThread /\ machineStatus = "SystemMode"

SchedulerConsistent == ReadyListExact /\ OneRunning
=============================================================================
