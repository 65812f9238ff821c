---------------------------- MODULE MCFoundations ---------------------------
(***************************************************************************)
(* What threads and user programs stand on, one part per behaviour: the    *)
(* simulated processor, the way of a program from the linker into its      *)
(* memory, the context switch, the lists, and lab 2's locks over           *)
(* semaphores.  The parts share nothing; those that are not looked at keep *)
(* a first state.                                                          *)
(***************************************************************************)
EXTENDS UserMachine, AddrSpace, ContextSwitch, Lists, SynchSem

-----------------------------------------------------------------------------
\* Instructions.  Registers 1 and 2 hold samples, 3 is free.

R(funct, s, t, d, by) ==
    [op |-> 0, rs |-> s, rt |-> t, rd |-> d, shamt |-> by, funct |-> funct, imm |-> 0, target |-> 0]
I(op, s, t, imm) ==
    [op |-> op, rs |-> s, rt |-> t, rd |-> 0, shamt |-> 0, funct |-> 0, imm |-> imm, target |-> 0]
J(op, target) == [I(op, 0, 0, 0) EXCEPT !.target = target]
Nop == R(0, 0, 0, 0, 0)

\* Every value of every field that selects an operation, alone, on every pair of samples.
Single ==
    {R(f, 1, 2, 3, 0) : f \in 4..63} \cup {R(f, 1, 2, 3, 3) : f \in 0..3} \cup {R(9, 1, 0, 1, 0)}
    \cup {I(op, 1, 2, imm) : op \in (4..15) \cup (32..46), imm \in {0, 1, 4, 13}}
    \cup {I(op, 1, 2, 0) : op \in (16..31) \cup (47..63)}
    \cup {I(1, 1, t, imm) : t \in {0, 1, 2, 16, 17}, imm \in {1, 15}}
    \cup {J(2, 2), J(3, 1)}

\* In any order: instructions that meet in load delays, delay slots, faults and restarts.
Mixed ==
    { R(33, 1, 2, 3, 0), R(33, 3, 2, 1, 0),         \* ADDU
      I(35, 1, 3, 0), I(32, 1, 2, 1), I(34, 1, 3, 0),   \* LW, LB, LWL
      I(43, 1, 3, 0), I(43, 1, 2, 4), I(40, 1, 2, 1),   \* SW, SB
      I(5, 3, 2, 1), I(4, 0, 0, 14), R(8, 31, 0, 0, 0), \* BNE, BEQ backwards, JR
      J(3, 2), R(26, 2, 3, 0, 0) }                      \* JAL, DIV

MCPrograms == {<<a, Nop, Nop, Nop>> : a \in Single} \cup {<<a, b, c, Nop>> : a, b, c \in Mixed}

MCSamples(p) == IF p[2] = Nop THEN {0, 1, 2, 32, 127, 128, 255} ELSE {32, 36}

Entry(v, physical, there, ro) ==
    [virtualPage |-> v, physicalPage |-> physical, valid |-> there, readOnly |-> ro,
     use |-> FALSE, dirty |-> FALSE]

\* A read-only page of code, one that is missing, one of data, and one outside memory.
MCPageTable ==
    [p \in 0..3 |-> IF p = 0 THEN Entry(p, 1, TRUE, TRUE) ELSE IF p = 1 THEN Entry(p, 0, FALSE, FALSE)
                    ELSE IF p = 2 THEN Entry(p, 0, TRUE, FALSE) ELSE Entry(p, 7, TRUE, FALSE)]
MCMemory == [a \in 0..(MemorySize - 1) |-> (3 * a + (a \div 4)) % 4]

-----------------------------------------------------------------------------
\* Object files: names, sizes, and how many bytes of the last section are missing.

Section(name, addr, size, bytes) ==
    [name |-> name, addr |-> addr, size |-> size,
     data |-> IF name \in {".bss", ".sbss"} THEN <<>> ELSE [k \in 1..bytes |-> 1 + ((addr + k) % 3)]]

Linking(names, sizes, missing) ==
    LET start(k) == FoldLeft(LAMBDA sum, size : sum + size, 0, SubSeq(sizes, 1, k - 1))
    IN  [k \in DOMAIN names |->
            Section(names[k], start(k), sizes[k], IF k = Len(names) THEN sizes[k] - missing ELSE sizes[k])]

MCObjects ==
    { Linking(<<".text", ".data", ".bss">>, <<8, 4, 8>>, 0),
      Linking(<<".text", ".rdata", ".bss">>, <<8, 8, 0>>, 0),
      Linking(<<".data", ".text">>, <<4, 12>>, 0),
      Linking(<<".text", ".rdata", ".data">>, <<4, 4, 8>>, 0),
      Linking(<<".text", ".sbss", ".bss">>, <<8, 4, 4>>, 0),
      Linking(<<".text", ".sdata">>, <<8, 4>>, 0),
      Linking(<<".text", ".data">>, <<8, 8>>, 4),
      Linking(<<".text", ".data">>, <<24, 12>>, 0),
      << Section(".text", 0, 8, 8), Section(".sbss", 8, 4, 0), Section(".bss", 16, 4, 0) >>,
      << Section(".text", 8, 8, 8), Section(".data", 0, 4, 4) >> }

-----------------------------------------------------------------------------
VARIABLE part

loaderVars == <<toolVars, kernel, pageTable>>
vars == <<part, machine, loaderVars, switchVars, listsVars, semVars>>

AnObject == CHOOSE o \in MCObjects : TRUE

\* The other parts hold as little as the properties let them.
SwitchIdle ==
    /\ arch = "MIPS" /\ cpu = <<>> /\ memory = <<>> /\ pc = Code("ThreadRoot", 0)
    /\ current = Main /\ made = {} /\ frame = <<>> /\ owed = <<>> /\ calls = [t \in KThread |-> <<>>]
    /\ userCpu = Junk /\ loadedTable = Main /\ space = {} /\ userRegisters = <<>> /\ owedUser = <<>>

Init ==
    /\ part \in {"machine", "program", "switch", "lists", "locks"}
    /\ part # "program" => tool = "noff" /\ object = AnObject
    /\ IF part = "machine" THEN MachineInit /\ ToolInit /\ kernel = "idle" /\ pageTable = <<>>
       ELSE AddrSpaceInit
    /\ IF part = "switch" THEN SwitchInit ELSE SwitchIdle
    /\ part # "lists" => list = "List"
    /\ ListsInit
    /\ part # "locks" => lockOwner = NoThread
    /\ SemInit

Next ==
    /\ UNCHANGED part
    /\ \/ part = "machine" /\ OneInstruction /\ UNCHANGED <<loaderVars, switchVars, listsVars, semVars>>
       \/ part = "program" /\ AddrSpaceNext /\ UNCHANGED <<switchVars, listsVars, semVars>>
       \/ part = "switch" /\ SwitchNext /\ UNCHANGED <<machine, loaderVars, listsVars, semVars>>
       \/ part = "lists" /\ ListsNext /\ UNCHANGED <<machine, loaderVars, switchVars, semVars>>
       \/ part = "locks" /\ SemNext /\ UNCHANGED <<machine, loaderVars, switchVars, listsVars>>

Spec == Init /\ [][Next]_vars
=============================================================================
