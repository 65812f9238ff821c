--------------------------- MODULE ContextSwitch ---------------------------
(***************************************************************************)
(* What Scheduler takes for granted: threads/switch.c moves a thread's     *)
(* registers into its Thread object and another's out of its own, and a    *)
(* new thread's object and stack are made up by Thread::StackAllocate so   *)
(* that it starts in ThreadRoot.  SWITCH and ThreadRoot are lists of       *)
(* instructions on the offsets of threads/switch.h, for three of the four  *)
(* hosts (the SPARC's register windows are left out); they run with        *)
(* interrupts disabled, so one step runs a whole list.  C code around them *)
(* keeps to the host's calling convention: it may overwrite every register *)
(* that is not callee-saved.                                               *)
(***************************************************************************)
EXTENDS Naturals, Sequences, SequencesExt

CONSTANTS
    KThread, Main,
    Arch,       \* the hosts
    WordsOfStack    \* StackSize

\* StackSize is 4 * 1024 words; StackTop and the fencepost need more than 16 of them.
ASSUME SwitchAssumption ==
    /\ Main \in KThread
    /\ Arch \subseteq {"MIPS", "SNAKE", "i386"}
    /\ WordsOfStack \in Nat /\ WordsOfStack > 16

VARIABLES
    arch,       \* the host Nachos was built for
    cpu,        \* its registers
    memory,     \* Thread objects, stacks and _eax_save
    pc,         \* what the processor executes
    current,    \* currentThread
    made,       \* the threads StackAllocate has prepared
    frame,      \* history: the registers when a thread's function was called
    owed,       \* history: the registers a thread must find when it goes on
    calls,      \* history: what ThreadRoot has called, with the argument
    (* the user programs *)
    userCpu, loadedTable,     \* the simulated machine's registers and page table
    space,                  \* the threads with an address space
    userRegisters,          \* what SaveUserState has saved
    owedUser                \* history: the user registers of each user program

kernelVars == <<arch, cpu, memory, pc, current, made, frame, owed, calls>>
userStateVars == <<userCpu, loadedTable, space, userRegisters, owedUser>>
switchVars == <<kernelVars, userStateVars>>

\* Values: pointers, code addresses and data, <<kind, of what, where>>.
Object(t, offset) == <<"thread", t, offset>>
StackWord(t, n) == <<"stack", t, 4 * n>>
Code(name, n) == <<"code", name, n>>
Datum(t, r) == <<"data", t, r>>
UserDatum(t) == <<"user", t, 0>>
Junk == <<"junk", Main, 0>>
Fencepost == <<"fencepost", Main, 0>>
arg(t) == <<"arg", t, 0>>
eax_save == <<"global", Main, 0>>

InRun == Code("Run", 0)                 \* in C code that has called, or may call, SWITCH
ThreadFinish == Code("ThreadFinish", 0)
InterruptEnable == Code("InterruptEnable", 0)
Func == Code("func", 0)

-----------------------------------------------------------------------------
\* Instructions.  Put and Get are a register and an offset from a base register.
Put(r, base, offset) == [op |-> "put", reg |-> r, base |-> base, offset |-> offset]
Get(r, base, offset) == [op |-> "get", reg |-> r, base |-> base, offset |-> offset]
Move(r, from) == [op |-> "move", reg |-> r, base |-> from, offset |-> 0]
Push(r) == [op |-> "push", reg |-> r, base |-> "sp", offset |-> 0]
Call(r) == [op |-> "call", reg |-> r, base |-> "sp", offset |-> 0]

Plus(pointer, offset) == [pointer EXCEPT ![3] = @ + offset]
Minus4(pointer) == [pointer EXCEPT ![3] = @ - 4]
Address(m, i) == IF i.base = "eax_save" THEN eax_save ELSE Plus(m.cpu[i.base], i.offset)

Do(m, i) ==
    IF i.op = "put" THEN [m EXCEPT !.memory[Address(m, i)] = m.cpu[i.reg]]
    ELSE IF i.op = "get" THEN [m EXCEPT !.cpu[i.reg] = m.memory[Address(m, i)]]
    ELSE IF i.op = "move" THEN [m EXCEPT !.cpu[i.reg] = m.cpu[i.base]]
    ELSE [m EXCEPT !.cpu["sp"] = Minus4(@), !.memory[Minus4(m.cpu["sp"])] = m.cpu[i.reg]]

RunCode(m, code) ==
    LET after[n \in 0..Len(code)] == IF n = 0 THEN m ELSE Do(after[n - 1], code[n])
    IN  after[Len(code)]

\* The registers in the order of their offsets 0, 4, 8, ... in a Thread object.
Slots == [MIPS  |-> <<"sp", "s0", "s1", "s2", "s3", "s4", "s5", "s6", "s7", "fp", "ra">>,
          SNAKE |-> <<"sp", "r3", "r4", "r5", "r6", "r7", "r8", "r9", "r10", "r11", "r12",
                      "r13", "r14", "r15", "r16", "r17", "r18", "rp">>,
          i386  |-> <<"sp", "eax", "ebx", "ecx", "edx", "ebp", "esi", "edi", "pc">>]
Offset(r) == 4 * (CHOOSE k \in DOMAIN Slots[arch] : Slots[arch][k] = r) - 4

\* What C code finds unchanged when a function returns; ReturnTo holds the return address.
CalleeSaved ==
    IF arch = "i386" THEN {"sp", "ebx", "ebp", "esi", "edi"}
    ELSE ToSet(Slots[arch]) \ {"ra", "rp"}
ReturnTo == [MIPS |-> "ra", SNAKE |-> "rp", i386 |-> "none"]
Argument == [MIPS |-> "a0", SNAKE |-> "arg0", i386 |-> "none"]
Second   == [MIPS |-> "a1", SNAKE |-> "arg1", i386 |-> "none"]

Registers == ToSet(Slots[arch]) \cup {Argument[arch], Second[arch]}
ArgumentOf(m) == IF arch = "i386" THEN m.memory[m.cpu["sp"]] ELSE m.cpu[Argument[arch]]

SaveAll(base) == [k \in DOMAIN Slots[arch] |-> Put(Slots[arch][k], base, 4 * (k - 1))]
LoadAll(base) == [k \in DOMAIN Slots[arch] |-> Get(Slots[arch][k], base, 4 * (k - 1))]

\* A variant of the i386's that takes the return address from its own stack.
SwitchI386_NoStack ==
    << Put("eax", "eax_save", 0), Get("eax", "sp", 4),
       Put("ebx", "eax", Offset("ebx")), Put("esi", "eax", Offset("esi")),
       Put("edi", "eax", Offset("edi")), Put("ebp", "eax", Offset("ebp")),
       Get("eax", "sp", 8),
       Get("ebx", "eax", Offset("ebx")), Get("esi", "eax", Offset("esi")),
       Get("edi", "eax", Offset("edi")), Get("ebp", "eax", Offset("ebp")),
       Get("eax", "eax_save", 0) >>

SwitchI386 ==
    << Put("eax", "eax_save", 0), Get("eax", "sp", 4),
       Put("ebx", "eax", Offset("ebx")), Put("ecx", "eax", Offset("ecx")),
       Put("edx", "eax", Offset("edx")), Put("esi", "eax", Offset("esi")),
       Put("edi", "eax", Offset("edi")), Put("ebp", "eax", Offset("ebp")),
       Put("sp", "eax", Offset("sp")),
       Get("ebx", "eax_save", 0), Put("ebx", "eax", Offset("eax")),
       Get("ebx", "sp", 0), Put("ebx", "eax", Offset("pc")),
       Get("eax", "sp", 8),
       Get("ebx", "eax", Offset("eax")), Put("ebx", "eax_save", 0),
       Get("ebx", "eax", Offset("ebx")), Get("ecx", "eax", Offset("ecx")),
       Get("edx", "eax", Offset("edx")), Get("esi", "eax", Offset("esi")),
       Get("edi", "eax", Offset("edi")), Get("ebp", "eax", Offset("ebp")),
       Get("sp", "eax", Offset("sp")),
       Get("eax", "eax", Offset("pc")), Put("eax", "sp", 4),
       Get("eax", "eax_save", 0) >>

SWITCH ==
    IF arch = "i386" THEN SwitchI386
    ELSE SaveAll(Argument[arch]) \o LoadAll(Second[arch])

\* The registers in which ThreadRoot expects what StackAllocate has put in their slots.
InitialPC  == [MIPS |-> "s0", SNAKE |-> "r3", i386 |-> "esi"]
InitialArg == [MIPS |-> "s1", SNAKE |-> "r4", i386 |-> "edx"]
WhenDonePC == [MIPS |-> "s2", SNAKE |-> "r5", i386 |-> "edi"]
StartupPC  == [MIPS |-> "s3", SNAKE |-> "r6", i386 |-> "ecx"]

-----------------------------------------------------------------------------
\* A variant that fetches the argument after the i386 has lost it.
ThreadRoot_LateArgument ==
    << Call(StartupPC[arch]),
       IF arch = "i386" THEN Push(InitialArg[arch]) ELSE Move(Argument[arch], InitialArg[arch]),
       Call(InitialPC[arch]), Call(WhenDonePC[arch]) >>

ThreadRoot ==
    IF arch = "i386"
    THEN << Push("ebp"), Move("ebp", "sp"), Push(InitialArg[arch]),
            Call(StartupPC[arch]), Call(InitialPC[arch]), Call(WhenDonePC[arch]) >>
    ELSE << Call(StartupPC[arch]), Move(Argument[arch], InitialArg[arch]),
            Call(InitialPC[arch]), Call(WhenDonePC[arch]) >>

-----------------------------------------------------------------------------
StackTop(t) == IF arch = "SNAKE" THEN StackWord(t, 16) ELSE StackWord(t, WordsOfStack - 4)
FenceWord(t) == IF arch = "SNAKE" THEN StackWord(t, WordsOfStack - 1) ELSE StackWord(t, 0)

SwitchInit ==
    /\ arch \in Arch
    /\ cpu = [r \in Registers |-> IF r = "sp" THEN StackWord(Main, WordsOfStack - 1) ELSE Junk]
    /\ memory = [a \in {Object(t, 4 * n) : t \in KThread, n \in 0..18}
                      \cup {StackWord(t, n) : t \in KThread, n \in 0..(WordsOfStack - 1)}
                      \cup {eax_save} |-> Junk]
    /\ pc = InRun /\ current = Main /\ made = {Main}
    /\ owed = [t \in KThread |-> cpu] /\ frame = owed
    /\ calls = [t \in KThread |-> <<>>]
    /\ userCpu = Junk /\ loadedTable = Main /\ space = {}
    /\ userRegisters = [t \in KThread |-> Junk] /\ owedUser = userRegisters

\* What StackAllocate stores in the new thread's stack and Thread object.
Prepared(t) ==
    LET top == StackTop(t)
        entry == IF arch = "i386" THEN Minus4(top) ELSE top
        field(r) == Object(t, Offset(r))
        return == IF arch = "i386" THEN "pc" ELSE ReturnTo[arch]
    IN  [a \in DOMAIN memory |->
            IF arch = "i386" /\ a = entry THEN Code("ThreadRoot", 0)
            ELSE IF a = FenceWord(t) THEN Fencepost
            ELSE IF a = Object(t, 0) THEN entry
            ELSE IF a = field(return) THEN Code("ThreadRoot", 0)
            ELSE IF a = field(StartupPC[arch]) THEN InterruptEnable
            ELSE IF a = field(InitialPC[arch]) THEN Func
            ELSE IF a = field(InitialArg[arch]) THEN arg(t)
            ELSE IF a = field(WhenDonePC[arch]) THEN ThreadFinish
            ELSE memory[a]]

Finishing(t) == Len(calls[t]) = 3
InBody == pc = InRun /\ ~Finishing(current)

StackAllocate(t) ==
    /\ InBody /\ t \notin made
    /\ memory' = Prepared(t)
    /\ made' = made \cup {t}
    /\ UNCHANGED <<arch, cpu, pc, current, frame, owed, calls, userStateVars>>

\* C code fills the registers with data of its own.
UseRegisters ==
    /\ pc = InRun
    /\ cpu' = [r \in DOMAIN cpu |-> IF r = "sp" THEN cpu[r]
                                   ELSE IF r \in CalleeSaved THEN Datum(current, r) ELSE Junk]
    /\ owed' = [owed EXCEPT ![current] = cpu']
    /\ UNCHANGED <<arch, memory, pc, current, made, frame, calls, userStateVars>>

\* The i386 passes arguments and the return address on the stack.
CallSWITCH(u) ==
    LET m == [cpu |-> cpu, memory |-> memory]
        push(n, v) == [n EXCEPT !.cpu["sp"] = Minus4(@), !.memory[Minus4(n.cpu["sp"])] = v]
    IN  IF arch = "i386" THEN push(push(push(m, Object(u, 0)), Object(current, 0)), InRun)
        ELSE [m EXCEPT !.cpu[Argument[arch]] = Object(current, 0), !.cpu[Second[arch]] = Object(u, 0),
                       !.cpu[ReturnTo[arch]] = InRun]

\* Where a function that returns goes on; on the i386 that takes a word from the stack.
ReturnAddress(m) == IF arch = "i386" THEN m.memory[m.cpu["sp"]] ELSE m.cpu[ReturnTo[arch]]
Popped(m, words) == IF arch = "i386" THEN [m.cpu EXCEPT !["sp"] = Plus(@, 4 * words)] ELSE m.cpu

\* RestoreUserState and AddrSpace::RestoreState, in the thread that goes on.
RestoreUser(u) ==
    IF u \in space THEN userCpu' = userRegisters[u] /\ loadedTable' = u
    ELSE UNCHANGED <<userCpu, loadedTable>>

\* Scheduler::Run; whoever returns from SWITCH also drops its arguments.
Run(u) ==
    LET m == RunCode(CallSWITCH(u), SWITCH)
    IN  /\ pc = InRun
        /\ u \in made \ {current} /\ ~Finishing(u)
        /\ userRegisters' = IF current \in space THEN [userRegisters EXCEPT ![current] = userCpu]
                            ELSE userRegisters
        /\ memory' = m.memory
        /\ pc' = ReturnAddress(m)
        /\ cpu' = Popped(m, IF pc' = InRun THEN 3 ELSE 1)
        /\ current' = u
        /\ IF pc' = InRun THEN RestoreUser(u) ELSE UNCHANGED <<userCpu, loadedTable>>
        /\ UNCHANGED <<arch, made, frame, owed, calls, space, owedUser>>

\* ThreadRoot up to its next call, and the call.
RootStep ==
    LET next == CHOOSE c \in (pc[3] + 1)..Len(ThreadRoot) :
                    /\ ThreadRoot[c].op = "call"
                    /\ \A k \in (pc[3] + 1)..(c - 1) : ThreadRoot[k].op # "call"
        m == RunCode([cpu |-> cpu, memory |-> memory], SubSeq(ThreadRoot, pc[3] + 1, next - 1))
        target == m.cpu[ThreadRoot[next].reg]
        back == Code("ThreadRoot", next)
        in == IF arch = "i386"
              THEN [cpu |-> [m.cpu EXCEPT !["sp"] = Minus4(@)],
                    memory |-> [m.memory EXCEPT ![Minus4(m.cpu["sp"])] = back]]
              ELSE [m EXCEPT !.cpu[ReturnTo[arch]] = back]
    IN  /\ pc[2] = "ThreadRoot"
        /\ calls' = [calls EXCEPT ![current] =
                        Append(@, <<target, IF target = Func THEN ArgumentOf(m) ELSE Junk>>)]
        /\ memory' = in.memory
        /\ IF target = InterruptEnable
           THEN /\ cpu' = [r \in DOMAIN cpu |-> IF r \in CalleeSaved THEN m.cpu[r] ELSE Junk]
                /\ pc' = ReturnAddress(in)
           ELSE /\ cpu' = in.cpu
                /\ pc' = IF target \in {Func, ThreadFinish} THEN InRun ELSE target
        /\ frame' = [frame EXCEPT ![current] = cpu']
        /\ owed' = [owed EXCEPT ![current] = cpu']
        /\ UNCHANGED <<arch, current, made, userStateVars>>

\* The thread's function returns; a user program never does.
ReturnFromFunc ==
    LET m == [cpu |-> frame[current], memory |-> memory]
    IN  /\ InBody /\ current \notin space \cup {Main}
        /\ pc' = ReturnAddress(m)
        /\ cpu' = [r \in DOMAIN cpu |-> IF r \in CalleeSaved THEN Popped(m, 1)[r] ELSE Junk]
        /\ UNCHANGED <<arch, memory, current, made, frame, owed, calls, userStateVars>>

\* StartProcess gives the thread an address space; its user program then runs.
UserRuns ==
    /\ InBody
    /\ IF current \in space THEN UNCHANGED <<space, loadedTable>>
       ELSE space' = space \cup {current} /\ loadedTable' = current
    /\ userCpu' = UserDatum(current)
    /\ owedUser' = [owedUser EXCEPT ![current] = userCpu']
    /\ UNCHANGED <<kernelVars, userRegisters>>

SwitchNext ==
    \/ \E t \in KThread : StackAllocate(t) \/ Run(t)
    \/ UseRegisters \/ RootStep \/ ReturnFromFunc \/ UserRuns

-----------------------------------------------------------------------------
\* What Save- and RestoreUserState, and RestoreState, owe a user program.
UserStateKept ==
    InBody /\ current \in space => userCpu = owedUser[current] /\ loadedTable = current

(***************************************************************************)
(* Whatever the others did in between, a thread that goes on after SWITCH  *)
(* finds its stack pointer and every register the calling convention has   *)
(* SWITCH keep, and the fenceposts that CheckOverflow looks at are intact. *)
(* While a thread with an address space runs, the simulated machine holds  *)
(* its user program's registers and its page table.                        *)
(***************************************************************************)
RegistersKept ==
    /\ pc = InRun => \A r \in CalleeSaved : cpu[r] = owed[current][r]
    /\ \A t \in made \ {Main} : memory[FenceWord(t)] = Fencepost
    /\ UserStateKept

(***************************************************************************)
(* A thread starts in ThreadRoot, which enables interrupts, calls the      *)
(* thread's function with its argument and then ThreadFinish, in this      *)
(* order, whatever the first two do to the registers; nothing else is ever *)
(* jumped to.                                                              *)
(***************************************************************************)
RootInOrder ==
    /\ pc = InRun \/ pc[2] = "ThreadRoot"
    /\ \A t \in KThread :
        IsPrefix(calls[t], << <<InterruptEnable, Junk>>, <<Func, arg(t)>>, <<ThreadFinish, Junk>> >>)
=============================================================================
