# A TLA+ model of the Nachos kernel and of labs 1 to 3

The repository is a course's copy of Nachos 3.4 (`nachos-3.4/code`, an operating
system kernel that runs as one host process on a simulated machine) with three
sets of student files that replace or extend `nachos-3.4/code/threads`: `1/` (a
doubly linked list), `2/` (locks and condition variables, a table, a bounded
buffer) and `3/` (an event barrier, an alarm clock, an elevator).  Paths below
are relative to the repository's root.

## 1. Inventory

### The system's parts

| part | state | operations | interacts with |
|---|---|---|---|
| threads and scheduler (`threads/thread.cc`, `scheduler.cc`, `list.cc`) | thread status, ready list, current thread, thread to be destroyed | Fork, Yield, Sleep, Finish; ReadyToRun, FindNextToRun, Run | called by every primitive; calls `Interrupt::Idle` |
| interrupts and time (`machine/interrupt.cc`, `timer.cc`) | level, pending interrupts, `inHandler`, `yieldOnReturn`, machine status, clock | SetLevel, OneTick, CheckIfDue, Idle, Halt, Schedule | runs device handlers in the context of the interrupted thread |
| semaphore, lock, condition (`3/synch.cc`, `2/synch-sleep.cc`) | value, busy flag, owner, wait queues | P, V, Acquire, Release, Wait, Signal, Broadcast | threads and scheduler |
| lock and condition from semaphores (`2/synch-sem.cc`) | two semaphores, owner, count | the same | semaphore |
| event barrier (`3/EventBarrier.cc`) | status, `waiter_num`, three conditions | Wait, Signal, Complete | lock, condition |
| elevator and building (`3/Elevator.cc`) | floor, direction, occupancy, call buttons, four barriers a floor | Run/VisitFloor, OpenDoors, CloseDoors; CallUp/Down, AwaitUp/Down, Enter, RequestFloor, Exit | event barriers |
| alarm clock (`3/Alarm.cc`) | lock, sorted wait queue, one pending interrupt a sleeper | Pause, Awaken (from the handler Expire) | interrupts, lock, ConditionPriority |
| bounded buffer, table, list (`2/BoundedBuffer.cc`, `Table.cc`, `dllist.cc`) | ring and indexes; entries; nodes | Read, Write; Alloc, Get, Release; SortedInsert, Remove | lock, condition, planted `Yield()` |
| file system (`filesys/`, `userprog/bitmap.cc`) | directory, headers, bitmap on disk | Create, Open, Remove, ReadAt, WriteAt | synchronous disk |
| disk (`machine/disk.cc`, `filesys/synchdisk.cc`) | one active request, head position, lock and semaphore | ReadSector, WriteSector, RequestDone | interrupts, semaphore |
| network (`machine/network.cc`, `network/post.cc`, `threads/synchlist.cc`) | one packet each way, mailboxes | Send, Receive, PostalDelivery, the two handlers | interrupts, semaphore, lock, condition |
| console (`machine/console.cc`, `userprog/progtest.cc`) | one character each way | GetChar, PutChar, two handlers; ConsoleTest | interrupts, semaphore |
| simulated processor (`machine/mipssim.cc`, `machine.cc`, `translate.cc`) | registers, pending load, main memory, page table or TLB | OneInstruction, RaiseException, Translate | calls the kernel's ExceptionHandler |
| user programs (`userprog/addrspace.cc`, `exception.cc`, `progtest.cc`) | page table, registers | StartProcess, InitRegisters, RestoreState, ExceptionHandler(Halt) | processor, file system |
| context switch (`threads/switch.c`, `switch.h`, `thread.cc`) | the host's registers, Thread objects, stacks | SWITCH, ThreadRoot, StackAllocate, Save/RestoreUserState | scheduler |
| lists (`threads/list.cc`, `1/dllist.cc`) | elements with keys, first, last | Append, Prepend, Remove, SortedInsert, SortedRemove | everything that waits |
| object file tools (`bin/coff2noff.c`, `coff2flat.c`) | sections, header, output file | one pass over the sections | linker, AddrSpace |
| stand-alone interpreter (`bin/execute.c`, `main.c`, `system.c`) | registers, memory | load_program, runprogram, system_trap | |
| statistics, host calls, tests and examples | | | |

### What is hard

Nachos has one processor and switches threads only where interrupts are enabled
or where a thread sleeps or yields.  The random timer (`-rs`) makes every such
point a preemption point.  So the hazards are: a woken thread that has to look
again (Mesa semantics everywhere), handlers that run inside whatever thread was
interrupted, state read without a lock, wake-ups that are lost or go to the
wrong thread, and a machine that takes "nobody is ready" for the end of the
program, which turns a lost wake-up into a quiet halt.  The list, with the line
where each one bites and the properties that look for it, is `hazards` in
`PROJECT.json`.

### What makes each part correct

* scheduler: the ready list holds each READY thread once; every ready thread runs;
* primitives: mutual exclusion, wait queues that agree with the threads' states,
  no lost wake-up, service in order, and the contract of module `Monitor`;
* event barrier: the contract of module `Barrier`; everyone gets out;
* elevator: riders pass only the right door of a standing elevator; every rider is served;
* alarm clock: nobody is woken early, nobody oversleeps;
* lab 2: the buffer is a FIFO, an index of the table has one owner, the list is
  sorted and linked, nobody sleeps in vain;
* disk: one request at a time, its answer goes to the thread that asked, and comes
  when the sector has passed the head;
* network and post office: mail that the network does not lose reaches its box
  once and in order, and nobody waits at a box that has mail;
* file system: the contract of module `Files`; on disk, names, headers and bitmap
  agree, and a crash loses no sector and harms no other file;
* console: what is typed is echoed, in order, once;
* processor: its arithmetic is that of the integers, a program means the same as
  in the plain interpreter, whatever faults and restarts come, and a page that no
  dirty bit speaks of is unchanged;
* loading: a program starts only from a complete file and finds every byte where
  it was linked;
* context switch: a thread finds its registers, its stack and its user program again;
* lists: the contract of module `Queue`.

## 2. Modules

| module | models | built on |
|---|---|---|
| `Scheduler` | state and effects of thread.cc, scheduler.cc, the idle loop | |
| `Synch` | every operation of 3/synch.cc, device handlers, Fork, Yield, Finish | extends `Scheduler` |
| `Monitor` | what the primitives promise | refined by `Synch` |
| `SynchSem` | 2/synch-sem.cc | |
| `EventBarrier` | 3/EventBarrier.cc, a family of barriers | |
| `Barrier` | what an event barrier promises | refined by `BarrierTest` |
| `BarrierTest` | the barrier's users | extends `EventBarrier` |
| `Elevator` | 3/Elevator.cc and the riders | extends `EventBarrier` |
| `Alarm` | 3/Alarm.cc, ConditionPriority, pending interrupts, test 3 | extends `Scheduler` |
| `LockUser` | a lock as its holder, for the three below | |
| `BoundedBuffer`, `Table`, `DLList` | 2/BoundedBuffer.cc, 2/Table.cc, 2/dllist.cc with their users | extend `LockUser` |
| `Lab2Test` | `ThreadTest` of lab 2: `testnum` selects one of the three | extends the three |
| `Disk` | machine/disk.cc: one request, its latency, the interrupt | |
| `SynchDisk` | filesys/synchdisk.cc | extends `Disk`, `LockUser` |
| `PostOffice` | network/post.cc, machine/network.cc, threads/synchlist.cc of several machines | |
| `Post` | what the post office promises | refined by `PostOffice` |
| `FileSystem` | filesys/*.cc and bitmap.cc, with crashes | |
| `Files` | what the file system promises its client | refined by `FileSystem` |
| `Console` | machine/console.cc and ConsoleTest | |
| `Words` | the machine word, with bytes of `ByteBits` bits | |
| `Translation` | machine/translate.cc | extends `Words` |
| `Mips` | machine/mipssim.cc, machine.cc, exception.cc | extends `Translation` |
| `Execute` | bin/execute.c, the plain meaning of a program | extends `Words` |
| `UserMachine` | user code on the machine, and how it maps to `Execute` | extends `Mips` |
| `ObjectFiles` | bin/coff2noff.c, bin/coff2flat.c, load_program of bin/main.c | |
| `AddrSpace` | userprog/addrspace.cc, StartProcess | extends `ObjectFiles`, `Mips` |
| `ContextSwitch` | threads/switch.c and switch.h, StackAllocate, the user part of Run | |
| `Lists` | threads/list.cc and 1/dllist.cc, pointer by pointer | |
| `Queue` | what a list promises | refined by `Lists` |
| `SchedulerProofs` | lemmas about the scheduler and the lists of threads | extends `Scheduler` |
| `SynchProofs`, `AlarmProofs` | theorems about `Synch`, `Alarm` | extend them and `SchedulerProofs` |
| `FileProofs` | theorems about `FileSystem` | extends it |
| `FoundationProofs` | theorems about lab 2's semaphores, the context switch and the lists | extends `SynchSem`, `ContextSwitch`, `Lists` |
| `Lab2Proofs` | theorems about the bounded buffer, the table and the list of lab 2 | extends `Lab2Test` |
| `Lab3Proofs` | theorems about the barrier's test and the elevator | extends `BarrierTest`, `Elevator` |
| `DeviceProofs` | theorems about disk, post office and console | extends `SynchDisk`, `PostOffice`, `Console` |
| `MCSynch`, `MCAlarm`, `MCLab2`, `MCFileSystem` | give the constants their values for TLC | |
| `MCLab3` | lab 3's test 2 (barrier) or test 4 (elevator) | extends `BarrierTest`, `Elevator` |
| `MCDevices` | Nachos started with the disk, the network or the console | extends `SynchDisk`, `PostOffice`, `Console` |
| `MCFoundations` | one of the five parts below the kernel: processor, program, context switch, lists, lab 2's semaphores | extends their modules |

The last three run parts that do not act on each other side by side, one per
behaviour; `AddrSpace` composes the tools, the loader, the translation and the
registers of the machine, `UserMachine` the processor and the translation.

**Granularity.**  A step is the code between two points where interrupts are
enabled or the processor is given away.  Inside a primitive interrupts are off,
so `Acquire` up to its `Sleep()` or its return is one step, and so is `Wait` up
to its `Sleep()`.  A device handler is one step of its own, taken while a thread
has interrupts enabled or while the machine idles.  In the modules above the
primitives, a critical section of a lock is one step where no other code can
tell the difference (`EventBarrier`), and is cut where it yields or waits
(`BoundedBuffer`, `Table`, `DLList`, the alarm's lock in `Alarm`).

**Scheduler and Synch.**  `status`, `readyList`, `currentThread`,
`threadToBeDestroyed` and the wait queues are the code's variables.  `suspended`
is the set of threads inside `SWITCH`: a thread that is dispatched for the first
time starts in `ThreadRoot` and does not run the code behind `SWITCH`.  `call`
is where a thread is (in whose `Sleep()`), `inside` who may call Release.  Threads call any operation in any order that
the assertions of the code allow.  While the machine idles, `currentThread` is the
thread on whose stack it does.  `lockOwner` starts with any value, as the
constructor leaves it.

**SynchSem.**  `P` and `V` are atomic steps of a counting semaphore, justified by
`ImplementsMonitor`; every step in between is a step of its own.  This condition
promises less than `Monitor`: a thread that has released the lock in `Wait` and not
counted itself is one that `Signal` and `Broadcast` do not find (`lost_signal`), and a
thread that comes to `P()` later may take the token posted for one that sleeps.
`WakeUpsExact` is what is left: a sleeper has its wake-up posted or is found by the
next Signal, also when it was robbed, and no token waits where nobody sleeps.

**EventBarrier, Elevator.**  `con_wait`, `con_signal` and `con_complete` are the
threads asleep on each condition, `pc` and `at` say where a thread is in which
barrier.  The elevator adds the floor, direction, buttons and riders.  `stage` is
the elevator's place in `VisitFloor`.  The loop of `VisitFloor` enables no
interrupts between floors, so riders move only while the elevator is elsewhere.
`callDir` starts with arbitrary legal values because the constructor's `memset`
clears only the size of a pointer.

**Alarm.**  Times are ticks to go, not dates, which makes the state space finite
without a bound on the clock.  `randomTimer` is the presence of `-rs`: with it
the pending list is never empty and threads are preempted.  `inHandler` and
`failed` show the state after a handler has slept and an assertion has failed.

**Lab 2.**  With `-L 1` (`is_lock`) the monitors use their locks; without it they
are meant to race, and that mode is not modelled.  The list is a heap: `next`,
`prev` and `key` of each element, so that a yield in the middle of an operation
(`err_type` 1 to 5) leaves real dangling state.  `NumInsert` and `NumRemove` are
the arguments of generateN and removeN; DLListThread passes the same number for
both, and then `Remove` never finds the list empty, so the runs use one more
removal than insertion to reach that branch.  `new` is assumed to find an element that
is free (`live # Elem`); the runs have as many as they insert.

**Disk, SynchDisk.**  All of disk.cc's arithmetic is modelled (seek, rotation, the
track buffer), but on times relative to now: the angle of the platter, the age of
the track buffer, the ticks to the interrupt.  The code's formulas only use the
clock modulo a turn or as a difference, so nothing is lost, and the clock needs
no bound.  `SystemTick` passes at a time, not a multiple of `RotationTime`, so that
requests start in the middle of a sector.

**PostOffice.**  A machine is a Nachos process with its own interrupts; a network is
the queue at each socket, from which `Send` may lose a packet.  `inHdr` is the
packet the network buffers until it is taken; `sendDue` are the pending SendDone
interrupts.  threads/synch.cc leaves `Lock` and `Condition` empty, so the
locks are those of the labs.  `posted` numbers the messages, so that one that is
doubled or overtaken shows.

**FileSystem.**  An operation reads, computes in memory and then writes sector by
sector; `pending` are the sectors it has yet to write, and Nachos may exit before
each.  A directory entry whose name lies in the next sector (entry 6 of the ten,
20 bytes each in sectors of 128) is `Straddle`.  The bitmap is a set of sectors; a
header and the bytes of a file are kept apart (`header`, `data`), and writing one
over the other spoils it.  `garbage` is what `new char[]` holds where WriteAt has
read nothing: it reaches the disk only beyond the end of the file.  There is one
client, as the code requires.  It closes a file before it removes it or opens it
again, and does not ask for more than `MaxFileSize`, which the code does not check.
`damaged` is set when a crash leaves a disk that is not `Consistent`; the system
stops there, as filesys.cc:40 makes no promise.

**Console.**  `unread` is what the host's keyboard still has.  The poll is a step that
is always due again; a poll that finds nothing changes nothing and is left out.  The
character 0xFF is the `char` whose value is `EOF`.

**Words, Translation, Mips.**  A word is four bytes, but a byte has `ByteBits` bits;
the runs use 2, so words of 8 bits, half words of 4 and shift amounts modulo 8 keep
the proportions of the code, and every operation is computed as the code computes it,
with the sign bit, the masks and the shifts where it has them.  C's `&`, `|` and `^` are
set operations on the places of the bits (`BitAnd`, `BitOr`, `BitXor`), and `TwoTo` is
the table of the powers of two up to the width of a word: both are functions, not
recursive operators, so that the modules above them can be proved about.  An instruction word is
a record of its fields; `Decode` and the two tables work on those.  A step of the
machine is `OneInstruction`.  `table` is the page table or the TLB.  The kernel here
knows the system call Halt and asserts on everything else; for the machine with a TLB
translate.cc leaves the refill to the kernel, and none is in the repository:
`Refill` is such a kernel, and what makes an instruction start again.  Undefined in C,
the quotient of the least integer by -1 is either the wrapped value or the end of
Nachos (`DivideCrash`).

**Execute and UserMachine.**  bin/execute.c has the same instruction set without load
delay, exceptions or translation.  `AgreesWithExecute` maps the machine to it: a
pending load counts as landed, memory is seen through the kernel's page table, and
each step of the machine is a turn of the interpreter, or nothing when an instruction
faults and will start again.  `DelayHazard` excludes what a compiler does not emit
(a link to the register of a pending load is a use of it); `KnownDifference` lists where the two differ, by the reading of both:

* `OR`, where rs | rt is not rs: the machine computes rs | rs (mipssim.cc:376), while
  mipssim.h:202 describes the instruction with both registers; a compiler that uses
  `OR` to move a register does not show it;
* `SRL`, `SRLV` of a negative word: the machine shifts a signed `tmp`, so it copies
  the sign, although a logical shift is meant;
* `ANDI`, `ORI`, `XORI` with the sign bit of the immediate set: execute.c extends it;
* `MULT`, `MULTU` beyond half words: execute.c leaves out the carries into the high word;
* division by zero, and the least integer by -1: execute.c dies;
* `LWL`, `LWR`, `SWL`, `SWR`: execute.c masks differently or lacks them, and the
  machine asserts on unaligned addresses;
* `JALR` with one register for both; `J` and `JAL` across a region of addresses, which
  the machine takes from the instruction after the delay slot;
* the host calls of system_trap, which `BREAK` makes too in execute.c and which is an
  illegal instruction for the machine; overflow and read-only pages, which only the
  machine has.

**ObjectFiles, AddrSpace.**  An object file is a sequence of sections.  The tools go
through them one by one; a file may be too short, a write may fail, and `Kill` stops
the tool anywhere.  `out.header` stays `Absent` until coff2noff writes it last.  The
contents of a section are bytes; addresses count from the tool's origin.  An object is
`Linked` if its sections follow one another from address 0, which is how the comment in
addrspace.cc wants it linked.  The
kernel's `ReadAt` of each segment is a step.  The tools have `fdIn` where they mean to
test `fdOut` (coff2noff.c:115, coff2flat.c:77), so an output that cannot be opened
shows at the first write, which `Fail` is.  coff2flat leaves its output behind when it
fails; load_program checks `MEMSIZE` after it has written, refuses a program that
fits exactly, and takes `EOF` for bytes a short file lacks.

**ContextSwitch.**  `cpu` and `memory` are the host's; `SWITCH` and `ThreadRoot` are
lists of instructions on the offsets of switch.h, which `RunCode` executes.  C code
keeps to the calling convention and may overwrite any other register
(`UseRegisters`).  `frame` and `owed` are history variables: what a thread must find.
The comment at switch.c:275 says that the i386's ThreadRoot expects the startup routine
in eax; switch.h and the code use ecx.  The i386's SWITCH writes the return address to
4(%esp) of the stack it switches to, the slot of an argument that is never read again.

**Lists.**  An operation is a step: its callers have interrupts disabled or hold a
lock.  Deleted elements lose their contents.  Lab 1's list is taken without an
`err_type`; lab 2's, with them and its lock, is `DLList`.

## 3. Runs

| run | instance | shows |
|---|---|---|
| `synch` | 3 threads, one lock, 2 conditions, a semaphore, value + pending I/O up to 2 | types, `SchedulerConsistent`, `LockHeld`, `WaitQueuesExact`, `NoLostWakeup`, `WokenInTurn`, `ImplementsMonitor`; under fairness `Progress`: every ready thread runs and no token stays while somebody sleeps for it |
| `lab3` | test 2: a signaller and 3 waiters, each twice; test 4: 2 riders, any two floors of those the test uses | `NobodyLeftBehind` (with the exact count of waiters), `ImplementsBarrier`, `EveryoneOut`; `RightDoor` (with the doors closed while the elevator moves), `Served` |
| `alarm` | main, ProhibitExit and 2 more threads, sleeps of up to 2 ticks, with and without `-rs` | `AlarmPerSleeper` (a pending interrupt for each sleeper, in the same order and not early), `NobodyOversleeps`, `Awakened` |
| `lab2` | 3 threads, 2-byte ring, 4-entry table, lists of up to 3 | `IsFifo`, `NobodySleepsInVain`, `TableExact`, `ListIntact` |
| `devices` | disk: 2 threads, 2 tracks of 3 sectors; network: 2 machines, a sender and 2 receivers, 2 messages; console: up to 3 characters of four kinds, q and 0xFF among them | `OneRequest`, `TransferExact`, `Answered`; `OnePacket`, `MailArrives`, `ImplementsPost`; `EchoInOrder`, `Echoed` |
| `filesys` | 3 names, 2 directory entries, 3 free sectors of 2 bytes, transfers of up to 2 bytes, crashes anywhere | `SectorsExact`, `NothingLeaks`, `ImplementsFiles` |
| `foundations` | processor: every operation alone on 49 pairs of operands, and every program of three out of thirteen instructions on a page table with a page of each kind and on a TLB of two entries; program: ten object files through three tools; context switch: 3 threads on 3 hosts; lists: 4 elements, keys -1 to 1; semaphores: 4 threads | `AgreesWithExecute`, `ArithmeticExact`, `CleanUnchanged`; `LoadExact`; `RegistersKept`, `RootInOrder`; `ChainIntact`, `ImplementsQueue`; `WakeUpsExact` (a lock has one token or one holder; who finds `count` zero knows that each thread asleep has its wake-up posted, and none is left over) |
| `carcass`, `stranded`, `alarm_assert`, `lock_leak`, `lost_signal` | | the five findings below |

The type invariant of a module is a property of its own or a conjunct of the
invariant that depends on it (`RightDoor`, `AlarmPerSleeper`, `NobodySleepsInVain`,
`TableExact`, `ListIntact`, `OneRequest`, `SectorsExact`, `WakeUpsExact`, `CleanUnchanged`).

**Why the bounds are enough.**  Three threads give a holder, a waiter and a
barger, two waiters on one queue, and a finishing thread with a new successor.
Four are needed in `SynchSem` for a broadcast to be interrupted with two sleepers
and a newcomer.  Two rounds of the barrier let a thread come back while a slow
one has not left.  A ring of two bytes wraps around with both sides sleeping; a
table of four entries overflows with three threads that want two each; a list of
three has a first, a middle and a last element.  Two tracks of three sectors make
every case of a seek, a rotation and a hit or miss of the track buffer; two
messages with three clients make a sender wait for another's interrupt, a packet
wait behind one that is buffered, and two receivers wait for one message.  Two
directory entries with three names make the directory full, three sectors make
the disk full of one, two or no files; a file has one sector written in part, or two
with the write across both; one open file at a time is enough because handles
share nothing but the disk.  Names are only compared, so they are symmetric.  Words
of eight bits have both signs, carries out of both halves and all shift amounts; the
operands include 0, 1, the greatest, the least and -1.  Three instructions in a row
are a load, its delay slot and the use, or a branch, its delay slot and the target,
with a fault and a restart at each; two entries in the TLB make the refill throw out
the code's page or the data's.  Among the object files are sections that are missing, empty,
too short, out of order, unknown or with a gap, and one does not fit into memory.
Three threads let one be started, or resumed, after two others have used the
registers.  Four elements have a first, a last and two in the middle, with equal keys.

**Deadlock** is not checked: the tests end when their threads have ended.

**Fairness.**  `Synch` assumes that the random timer preempts the running thread
again and again (`Timer::TimerExpired` always schedules the next interrupt) and
that a woken thread, a handler and the idle loop go on: weak fairness of `Yield`,
`ResumeAcquire`/`ResumeP`, `DeviceInterrupt` and `IdleDispatch`.  Nothing is
assumed about what threads choose to call.  The modules above rely on the first half
of `Progress`: each thread that is not asleep takes its next step.  `Alarm` needs
strong fairness of the threads' steps and of the clock, because preemption and the loop of ProhibitExit interleave with them; the
timer's interval is random, so a thread that gets the processor again and again
also gets on.  `DiskFairness` lets threads inside the driver go on, the interrupt
that is due come, and time pass while a request is active.  `PostOfficeFairness` lets
the interrupts come (the network always schedules the next poll) and is strong for
the worker and for clients in the middle of a call, which compete for the locks of
mailboxes and for wake-ups: nothing in the locks forbids that a newcomer always
comes first, but the ready list is first come, first served.  Whether anybody
calls anything, and whether the network loses everything, is open.
`ConsoleFairness`: the console always schedules its next poll, the interrupt of a
character that is being written comes, and ConsoleTest runs when it can.

### Findings

* `carcass`: a finished thread's carcass is destroyed only if the next thread has
  run before; otherwise it is kept and may be overwritten and leaked.
* `stranded`: the elevator quits while riders are on board between Enter and
  RequestFloor.
* `alarm_assert`: the alarm's handler may sleep on the clock's lock, and the next
  thread fails `SetLevel`'s assertion.
* `lock_leak`: `Remove` of an empty list returns with the lock held.
* `lost_signal`: `Wait` of 2/synch-sem.cc releases the lock in one step and counts
  itself in another, although 2/synch-sem.h:127-129 says that releasing the lock and
  going to sleep are atomic: a `Signal` in between finds `count` zero and is lost.

Seen while modelling, without a run of their own: coff2noff refuses `.bss` and `.sbss`
exactly when they are contiguous, where its comment (coff2noff.c:200) asks that they
be; Table.h:5-7 names the entries of a table 0 to size-1, while `Alloc` (Table.cc:23)
gives, and the assertions of `Get` and `Release` accept, 1 to size, which is what
`Table` models; the comment on `valid` in translate.h:35 says the opposite of what Translate does;
and what the notes on `KnownDifference` and `ObjectFiles` above list.

`sendBusy` of network.cc is never set; `OnePacket` shows that the
post office does not need it.

## 4. Proofs

What a run shows for three or four threads the theorems show for every value of the
constants.  They are proved from the assumptions that the modules state about their
constants, which TLC evaluates in the runs.  `lemma` and `theorem` below are those
of the modules named `...Proofs`.

| theorem | property | about |
|---|---|---|
| `TypeCorrect`, `ReadyListCorrect`, `QueuesCorrect` | `TypeOK`, `SchedulerConsistent`, `WaitQueuesExact` | `Synch` |
| `LockCorrect`, `AtMostOneInside` | `LockHeld` | `Synch` |
| `NoWakeupLost`, `WokenInOrder` | `NoLostWakeup`, `WokenInTurn` | `Synch` |
| `MonitorImplemented` | `ImplementsMonitor` | `Synch` implements `Monitor` |
| `SemMonitorCorrect` | `WakeUpsExact` | `SynchSem` |
| `BufferCorrect`, `BufferIsFifo`, `TableCorrect` | `NobodySleepsInVain`, `IsFifo`, `TableExact` | `BoundedBuffer`, `Table` |
| `ListCorrect` | `ListIntact` | `DLList` |
| `BarrierLeavesNobody`, `BarrierImplemented` | `NobodyLeftBehind`, `ImplementsBarrier` | `BarrierTest` implements `Barrier` |
| `DoorsCorrect`, `LiftLeavesNobody` | `RightDoor`, `NobodyLeftBehind` | `Elevator` |
| `AlarmsExact`, `HaltsAfterAlarms` | `AlarmPerSleeper`, `NobodyOversleeps` | `Alarm` |
| `OneRequestAtATime`, `TransfersInTime` | `OneRequest`, `TransferExact` | `SynchDisk` |
| `OnePacketAtATime`, `PostImplemented` | `OnePacket`, `ImplementsPost` | `PostOffice` implements `Post` |
| `EchoCorrect` | `EchoInOrder` | `Console` |
| `CleanPagesStay` | `CleanUnchanged` | `Mips`, `Translation` |
| `ArithmeticStaysExact` | `ArithmeticExact` | `Mips`, `Words` |
| `ProgramsLoadExactly` | `LoadExact` | `ObjectFiles`, `AddrSpace` |
| `RegistersAreKept`, `RootStaysInOrder` | `RegistersKept`, `RootInOrder` | `ContextSwitch` |
| `ChainStaysIntact`, `ListsAreQueues` | `ChainIntact`, `ImplementsQueue` | `Lists` implements `Queue` |
| `DiskStaysExact`, `ExitLosesNothing` | `SectorsExact`, `NothingLeaks` | `FileSystem` |
| `FilesImplemented` | `ImplementsFiles` | `FileSystem` implements `Files` |

### The inductive invariants

Most of what the runs check is not inductive as it stands.  What has to be added, and why:

**Synch.**  `TypeOK` is inductive by itself; `LockHeld` with it.  A weaker form of
`LockHeld` ("at most one inside") would not be: Release by a thread that is not the
owner could not be excluded.  `SchedulerConsistent` and `WaitQueuesExact` need each
other and `FinishedGone`, that no queue holds a thread that has finished
(`QueueInv`): a wake-up puts a thread on the ready list, and that it is not there
already follows only from what the wait queue says of it.  `NoLostWakeup` counts the
threads on their way with `Cardinality`, so `WayInv` adds that they are finitely many,
which holds although the set of threads may be infinite.  The refinement of `Monitor`
uses `MonInv`, the queues with the lock's owner: an abstract waiter is a thread on a
condition's queue, a thread that wants the lock may be on the lock's queue or anywhere
on its way to it.  Every action maps to an action of `Monitor` or to a stutter.

**SynchSem.**  `SemInv` rests on a count that every step keeps (`CountExact`): `count` and
the tokens posted add up to the threads asleep and the Broadcast between its `V()` and
its `count--`, during which `count` is positive.  As there is one holder, there is no
such Broadcast while another thread may call Signal (`OneBroadcast`), and `WakeUpsExact`
follows.

**Bounded buffer and table.**  `BufferInv` ties `in` to `out` and `hav` modulo the buffer's
size and, in `Halfway`, says what holds at each planted `Yield()`: the byte that has been
copied and not counted, or counted and not passed.  `TableInv` does the same for the
entry that Alloc has found and not yet stored to.  That the buffer is a FIFO is an
action property; its proof needs `BufferInv` to know where in the ring the bytes are.

**Doubly linked list.**  `DLInv` names the sequence of linked elements, which accounts for
all that exist but the one a thread has created and not linked yet (`ChainAt`).
`AtYield` says for each of the five planted yields what the thread that yields has found
and may still rely on: its element fits between the two it has read.  That it does so
after the yield rests on the lock alone (`ListLock`), so every other thread is outside.
The loop of SortedInsert is a condition on where it stops (`StopsAt`); that the key
belongs there takes the least place with a greater key (`StopsWhereItFits`).

**Barrier and elevator.**  `EventInv(s)` is about any family of barriers with one
signaller at a time: each queue holds the threads that are where the queue says, the count is
the number of threads that have arrived and not left, and while an event is on,
nobody waits for it and somebody is on the way to end it.  `TestInv` and `LiftInv` are
built on it, so the elevator's proof is about doors and floors only: a rider is at the
door of the floor he is on (`RiderExact`), and the elevator's barrier is the one door
that is open (`DoorOpen`).  The occupancy counts the riders on board.

**Alarm.**  `AlarmInv` has three parts.  While no handler is running, the pending interrupts
and the condition's queue agree position by position (`Aligned`): SortedInsert with the
same keys puts both at the same place.  The lock has one holder, and a free lock that
is waited for has a thread on its way (`LockInv`).  Without the random timer nothing
is preempted (`NoPreemption`): threads that have not started are in front of the ready
list, so that all of them are counted before ProhibitExit looks.  This is what
`NobodyOversleeps` rests on, and the reason is subtle: with the timer it holds because
the pending list is never empty.

**Devices.**  `DiskTurn` says that the lock's holder is the only thread in the driver and
that the answers due, under way and given are as many as there are threads asleep, at
most one.  The arithmetic of the platter is there for any geometry, with a lemma for each
formula of disk.cc that says in which range it stays.  `TransferExact` then needs that full
turns leave no trace in a remainder (`FullTurns`), from which follow the two ways a
request ends: where its sector ends (`PlatterExact`), or, from the track buffer, after
the sector has passed (`BufferExact`).  `ConsoleInv` relates the text, what is
unread and what is echoed by position.  `PostInv` says for each machine who sends
(`Sends`) and what the network holds (`Holds`), and that each mailbox is what its
receivers wait for (`BoxesExact`); the refinement of `Post` follows from it step by step.

**Processor.**  `MachineInv` types the machine: every register holds a word, which each
operation has to preserve (a lemma per operator of `Words`), and the register of a pending
load is one of the 32.  `TableAgrees` says that a valid entry, of the page table or of
the TLB, is the translation of a page in the kernel's table, `PagesAgree` that this table
changes in nothing but its bits, so that no two valid pages ever have the same frame.
`CleanPages` is the part that is about memory.  A store translates first and writes then:
the entry of the frame it writes to is dirty before a byte changes (`TouchAlike`,
`WriteKeeps`), and a refill saves the bit of the entry it throws out (`RefillKeeps`).

The arithmetic needs no more of the state than that registers hold words.  The loop of
Mult has an invariant of its own (`Owes`): hi and lo, with what the bits of a that are
left still have to add to them, make up the product.  Nothing is ever carried out of the high word
because the product of two words fits in two (`PairRoom`), and b may overflow when it is
shifted only if no bit of a is left to use it (`MultTurnOwes`).  The signed shift of a brings in copies
of the sign at the top, which the loop ends too early to see (`ShiftOne`).

**Object files and address spaces.**  Each tool has an invariant about the sections it has
been through.  coff2noff's (`Converted`) says that the three sizes add up to where the
sections end (`Reach`), which is the number of pages the kernel asks for, and that each
segment of the file is one section of the object; coff2flat's (`Flat`) that the image is
exact as far as it goes and that only uninitialized data may follow a part that was left
out; the interpreter's (`Image`) that the sections whose names it has looked for are in
place.  Two sections of a linked object never share an address (`LinkedIs`, by induction
from the smallest counterexample), so what is to be found at an address does not depend on
the order of loading (`ContentsIs`).  `KernelLoads` says what memory holds between the steps of the
constructor; a file that was not finished never gets that far, because its header is
still a hole.

**File system.**  While sectors are pending, neither the disk nor the memory satisfies
`Consistent`; what does is the disk that the pending sectors lead to.  `FileInv` says so,
and that the pending sectors are what is left of a Create (`Growing`), a Remove
(`Shrinking`) or a Write (`Writing`).  In each of them the entries that are in use keep
their sectors from one write to the next, which is what makes `NothingLeaks` inductive: a
Create's map comes after the directory that accounts for it, and a Remove's before.
Open files are those of the directory with its headers (`OpenIn`), or Write could
overwrite a header.  Allocate needs that the k-th call of Find finds the k-th clear
sector, which is an induction; the lemma `Least` (a set of naturals has a least
element) makes a proof from the smallest counterexample of it.

The files of `Files` are those of the disk that the pending sectors lead to
(`LogicalFiles`), so an operation takes effect when it starts and WriteSector is a
stutter, or `Completed` with the last sector.  That it changes no file needs that no
file's contents are written by Create or Remove, and no header by Write
(`HalfwayAt`, in `RefInv`).  It also says how far the disk is from where
the writes lead, which is what Crash needs: the directories differ in the entry of the
operation only (`Differ`), and a new file's header is not in the map yet, so that a
consistent disk between the writes has all other files and their headers.  Read
and Write agree with `Files` byte by byte (`Fills`): a sector written in part keeps its
other bytes because the two ends of the request were read before, up to the end of the
file.  Create succeeds in both or in none: the sectors in use are counted in `Files` as
pairs of a file and a number, and `TakenCount` is a bijection from these to the
sectors that the files own.

**Context switch.**  `RegistersKept` says nothing of a thread that does not run, so
`SwitchInv` does: what its Thread object and, on the i386, its stack hold if SWITCH has
saved it (`SavedExact`) or StackAllocate has prepared it (`FreshExact`), and what its
function will return to (`FrameExact`).  Of the thread that runs it says how far ThreadRoot
has come and which registers it still relies on (`RootState`).  It also fixes the i386's
stack pointer in C code, because SWITCH's arguments and return address are found relative
to it.  The i386's SWITCH is executed by one lemma per instruction;
the lists of the MIPS and the SNAKE, as long as their tables of slots, by lemmas about
any list of distinct registers, from the smallest counterexample.

**Lists.**  `ListsInv` says that there is a sequence whose elements are those that exist,
each once, linked in this order and, in lab 1's list, sorted.  Every call is one `Join`
at a place of this sequence or one `Leave`, so that these two are proved once and a call
has only to show which place it finds.  `ChainIntact` speaks of a walk along `next`, a
recursive function; the lemma `ChainIs` shows, from the smallest counterexample, that its
first steps are those of the sequence and that the bound on its length is never met.
The refinement of `Queue` maps the sequence to its items with their keys.

TLC checked every invariant before its proof on the constants of the run of its module;
`AlarmInv` with five threads and sleeps of up to four ticks, as `NoPreemption` says
little about two.

### Assumptions

They are as weak as the code allows.  Some say only that a marker is no value
(`NoHeaderAssumption`, `ClosedAssumption`, `NoneAssumption`, `UserAssumption`, `NoThreadAssumption`), or that
sizes are positive.  `ClientAssumption` asks for one barrier and one signaller,
`ElevatorAssumption` for one floor, `FileSystemAssumption` for a greatest byte, `SwitchAssumption` for stacks
of more than 16 words (the source has 4096),
`ByteBitsAssumption` for bytes of at least two bits, `PageAssumption` for pages of whole
words, `ProgramAssumption` and `ObjectsAssumption` for instruction words and object files of the right types,
`MemoryAssumption` for a kernel that gives no two pages the same frame, `LinkerAssumption`
for a linker that, where it puts the sections of an object one after the other, has one
of each name and the uninitialized data last,
`ListsAssumption` and `ListAssumption` for finitely many elements, and
`AlarmAssumption` for finitely many threads, because `countAlarm` counts them.
`EchoCorrect` has a condition in its property: no character that looks like `EOF` was typed.

### Only model-checked

* liveness (`Progress`, `EveryoneOut`, `Served`, `Awakened`, `Answered`, `MailArrives`,
  `Echoed`): the prover does not reason about ENABLED, and so not about fairness;
* `AgreesWithExecute`, which compares two decoders and some sixty instructions one by one.

## 5. Not modelled

Statistics, host calls (sysdep.cc), debugging and argument parsing: wrappers,
counters and text.  `vm/` holds no source.  The test programs call system calls this
kernel does not have; the C++ examples are a tutorial.  Of the processor, the
single-step debugger and what arbitrary words decode to; of the interpreter in bin/,
the trace, the statistics, the disassembler and out.c, which print.  Of the context
switch, the SPARC: its register windows are spilled by a trap of the host, whose code
is not here.  Of the file system, `List` and `Print`, which only read; a file that is
removed while it is open, and one longer than `MaxFileSize`, are outside of what the
code provides for.

## 6. Plan

1. Done: scheduler and primitives with `Monitor`; `SynchSem`; barrier with its
   abstract specification, elevator, alarm clock; lab 2's monitors; disk, post
   office, console and file system with their abstract specifications; processor,
   translation, loading, context switch and lists.
2. Done: the theorems of section 4, among them five refinements (`Monitor`, `Barrier`,
   `Post`, `Queue`, `Files`).
3. Left: a proof of `AgreesWithExecute`.
