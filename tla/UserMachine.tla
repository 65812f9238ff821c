---------------------------- MODULE UserMachine ----------------------------
(***************************************************************************)
(* A stretch of user code on the simulated machine, with a page table or   *)
(* with a TLB, and what the machine owes it: the arithmetic of its words,  *)
(* the meaning the plain interpreter of bin/execute.c gives the program,   *)
(* whatever exceptions and restarts come between its instructions, and     *)
(* dirty bits a pager may trust.                                           *)
(***************************************************************************)
EXTENDS Mips

CONSTANTS Programs,      \* the stretches of code: sequences of instruction words
          Samples(_),    \* the contents of registers 1 and 2 when it starts, per program
          PageTable,     \* the kernel's page table, a function on the program's pages
          InitialMemory  \* the contents of main memory

\* the fields of an instruction word; where rt selects a branch it names no register
InstructionWord ==
  {w \in [op : 0 .. 63, funct : 0 .. 63, rs : GPRegs, rt : 0 .. 31, rd : GPRegs, shamt : 0 .. WordBits - 1,
          imm : 0 .. TwoTo[HalfBits] - 1, target : 0 .. TwoTo[WordBits - 6] - 1] :
     opTable(w.op) = "BCOND" \/ w.rt \in GPRegs}

ASSUME ProgramAssumption == \A p \in Programs : p \in Seq(InstructionWord) /\ Samples(p) \subseteq Word

\* the kernel gives no two pages the same frame
ASSUME MemoryAssumption ==
  /\ InitialMemory \in [0 .. MemorySize - 1 -> Byte]
  /\ IsFiniteSet(DOMAIN PageTable) /\ DOMAIN PageTable = 0 .. Cardinality(DOMAIN PageTable) - 1
  /\ PageTable \in [DOMAIN PageTable -> TranslationEntry]
  /\ \A p \in DOMAIN PageTable : PageTable[p].virtualPage = p
  /\ \A p, q \in DOMAIN PageTable :
       PageTable[p].valid /\ PageTable[q].valid /\ PageTable[p].physicalPage = PageTable[q].physicalPage => p = q

Unmapped == [virtualPage |-> 0, physicalPage |-> 0, valid |-> FALSE, readOnly |-> FALSE,
             use |-> FALSE, dirty |-> FALSE]

MachineInit ==
  /\ program \in Programs
  /\ mainMemory = InitialMemory
  /\ pages = PageTable
  /\ useTLB \in BOOLEAN
  /\ table = IF useTLB THEN [n \in 1 .. TLBSize |-> Unmapped]
             ELSE [n \in 1 .. Cardinality(DOMAIN PageTable) |-> PageTable[n - 1]]
  /\ \E first, second \in Samples(program) :
       registers = [r \in AllRegs |-> IF r = 1 THEN first ELSE IF r = 2 THEN second
                                      ELSE IF r = NextPCReg THEN 4 ELSE 0]
  /\ status = "user"

----------------------------------------------------------------------------
\* The plain interpreter's view of the machine: a pending load has landed, memory is virtual

Mapped == {a \in 0 .. Cardinality(DOMAIN pages) * PageSize - 1 :
             pages[vpn(a)].valid /\ pages[vpn(a)].physicalPage < NumPhysPages}

Settled == [r \in GPRegs |-> IF r # 0 /\ r = registers[LoadReg] THEN registers[LoadValueReg] ELSE registers[r]]

Exec == INSTANCE Execute WITH
  Reg <- Settled,
  HI <- registers[HiReg], LO <- registers[LoReg], pc <- registers[PCReg], npc <- registers[NextPCReg],
  mem <- [a \in Mapped |-> mainMemory[pages[vpn(a)].physicalPage * PageSize + (a % PageSize)]],
  exited <- status # "user"

Jumps == {"J", "JAL", "JR", "JALR"}

\* what a compiler never emits: using a register in the delay slot of its load, jumping in a delay slot
DelayHazard ==
  \/ registers[LoadReg] \in (IF instr.opCode \in DOMAIN LoadSize THEN {instr.rs}
                             ELSE {instr.rs, instr.rt, instr.rd}) \ {0}
  \/ registers[LoadReg] = R31 /\ instr.opCode \in {"JAL", "BGEZAL", "BLTZAL"}
  \/ registers[NextPCReg] # Wrap(PC + 4) /\ instr.opCode \in Branches \cup Jumps

\* the instructions, or the operands, on which the two simulators are known to differ
KnownDifference ==
  LET opc == instr.opCode
  IN \/ opc \in Unaligned
     \/ opc = "OR" /\ BitOr(rs, rt) # rs
     \/ opc \in {"SRL", "SRLV"} /\ Negative(rt)
     \/ opc \in {"ANDI", "ORI", "XORI"} /\ Negative(instr.extra)
     \/ opc \in {"MULT", "MULTU"} /\ ~({rs, rt} \subseteq 0 .. TwoTo[HalfBits] - 1)
     \/ opc \in {"DIV", "DIVU"} /\ (rt = 0 \/ QuotientOverflows)
     \/ opc \in {"J", "JAL"} /\ ShiftRight(PC, WordBits - 4) # ShiftRight(NextAfter, WordBits - 4)
     \/ opc = "JALR" /\ instr.rd = instr.rs
     \/ Exec!op \in {"SYSCALL", "BREAK"} /\ Settled[2] \in Exec!HostCalls
     \/ opc \in DOMAIN LoadSize \cup DOMAIN StoreSize /\ DataException = "ReadOnlyException"
     \/ Overflows

\* Every step of the machine is a turn of the plain interpreter or changes nothing it can see: delayed
\* loads, delay slots, faults taken and restarted at any instruction all stay invisible to the program.
AgreesWithExecute ==
  [][\/ status = "kernel"
     \/ FetchException = "NoException" /\ (~InProgram \/ DelayHazard \/ KnownDifference)
     \/ Exec!runprogram
     \/ UNCHANGED Exec!interpreter]_machine

----------------------------------------------------------------------------
Fits(n) == n \in -(TwoTo[WordBits - 1]) .. TwoTo[WordBits - 1] - 1

\* ADD, ADDI and SUB compute in the integers or trap,
SumExact ==
  LET sum == IF instr.opCode = "ADDI" THEN Signed(rs) + Signed(instr.extra)
             ELSE IF instr.opCode = "ADD" THEN Signed(rs) + Signed(rt) ELSE Signed(rs) - Signed(rt)
      target == IF instr.opCode = "ADDI" THEN instr.rt ELSE instr.rd
  IN Executes({"ADD", "ADDI", "SUB"}) =>
       IF Fits(sum) THEN target \in {0, registers[LoadReg]} \/ Signed(registers'[target]) = sum
       ELSE status' = "aborted"

\* how the instruction reads a word
Reading(w) == IF instr.opCode \in {"MULT", "DIV"} THEN Signed(w) ELSE w

\* MULT and MULTU give both words of the product,
ProductExact ==
  Executes({"MULT", "MULTU"}) =>
    Reading(registers'[HiReg]) * TwoTo[WordBits] + registers'[LoReg] = Reading(rs) * Reading(rt)

\* and DIV and DIVU a quotient and a remainder that make up the dividend,
QuotientExact ==
  LET x == Reading(rs)
      y == Reading(rt)
      hi == Reading(registers'[HiReg])
  IN Executes({"DIV", "DIVU"}) /\ rt # 0 /\ ~QuotientOverflows =>
       /\ Reading(registers'[LoReg]) * y + hi = x
       /\ Magnitude(hi) < Magnitude(y)
       /\ hi # 0 => (hi < 0) = (x < 0)

\* for every pair of operands.
ArithmeticExact == [][SumExact /\ ProductExact /\ QuotientExact]_machine

MachineTypeOK ==
  /\ registers \in [AllRegs -> Word]
  /\ registers[0] = 0
  /\ registers[LoadReg] \in GPRegs
  /\ mainMemory \in [0 .. MemorySize - 1 -> Byte]
  /\ \A n \in DOMAIN table : table[n] \in TranslationEntry
  /\ status \in {"kernel", "user", "halted", "aborted"}

\* A page no dirty bit speaks of holds what was loaded into it, so a pager may drop it without writing it.
CleanUnchanged ==
  MachineTypeOK /\ \A p \in DOMAIN pages :
    LET noted == {table[n] : n \in {m \in DOMAIN table : IF useTLB THEN table[m].virtualPage = p ELSE m = p + 1}}
        frame == pages[p].physicalPage
    IN /\ pages[p].valid /\ frame < NumPhysPages
       /\ ~pages[p].dirty
       /\ \A e \in noted : e.valid => ~e.dirty
       => \A a \in frame * PageSize .. (frame + 1) * PageSize - 1 : mainMemory[a] = InitialMemory[a]
=============================================================================
