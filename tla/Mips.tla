------------------------------- MODULE Mips --------------------------------
(***************************************************************************)
(* machine/mipssim.cc and machine/machine.cc: the simulated processor that *)
(* runs user programs, one instruction of Machine::Run per step.           *)
(*                                                                         *)
(* program[n] holds the fields of the instruction word at virtual address  *)
(* 4*(n-1); what other words of memory decode to is not modelled, and a    *)
(* program that jumps to one of them stops there.  The kernel behind the   *)
(* exceptions is userprog/exception.cc, which knows the system call Halt   *)
(* and asserts on everything else; a machine with a TLB has, besides, the  *)
(* kernel translate.cc asks for, which loads the missing translation and   *)
(* lets the instruction start again.  "pages" is that kernel's page table. *)
(***************************************************************************)
EXTENDS Translation

CONSTANTS GPRegs, SC_Halt

VARIABLES registers, status, program, pages

machine == <<mainMemory, table, useTLB, registers, status, program, pages>>

R31 == 31
HiReg == 32
LoReg == 33
PCReg == 34
NextPCReg == 35
PrevPCReg == 36
LoadReg == 37
LoadValueReg == 38
BadVAddrReg == 39
AllRegs == GPRegs \cup (HiReg .. BadVAddrReg)

ASSUME RegisterAssumption == GPRegs \subseteq 0 .. 31 /\ {0, R31} \subseteq GPRegs

----------------------------------------------------------------------------
\* Decoding

Reserved(list, first, n) == IF n - first + 1 \in DOMAIN list THEN list[n - first + 1] ELSE "RES"

MainOps == << "SPECIAL", "BCOND", "J", "JAL", "BEQ", "BNE", "BLEZ", "BGTZ",
              "ADDI", "ADDIU", "SLTI", "SLTIU", "ANDI", "ORI", "XORI", "LUI" >>
MemoryOps == << "LB", "LH", "LWL", "LW", "LBU", "LHU", "LWR", "RES",
                "SB", "SH", "SWL", "SW", "RES", "RES", "SWR" >>
opTable(op) == IF op \in (16 .. 19) \cup (48 .. 51) \cup (56 .. 59) THEN "UNIMP"
               ELSE IF op < 16 THEN MainOps[op + 1] ELSE Reserved(MemoryOps, 32, op)

ShiftOps == << "SLL", "RES", "SRL", "SRA", "SLLV", "RES", "SRLV", "SRAV",
               "JR", "JALR", "RES", "RES", "SYSCALL", "UNIMP", "RES", "RES",
               "MFHI", "MTHI", "MFLO", "MTLO", "RES", "RES", "RES", "RES",
               "MULT", "MULTU", "DIV", "DIVU" >>
AddOps == << "ADD", "ADDU", "SUB", "SUBU", "AND", "OR", "XOR", "NOR", "RES", "RES", "SLT", "SLTU" >>
specialTable(funct) == IF funct < 32 THEN Reserved(ShiftOps, 0, funct) ELSE Reserved(AddOps, 32, funct)

bcondTable(rt) == IF rt = 0 THEN "BLTZ" ELSE IF rt = 1 THEN "BGEZ"
                  ELSE IF rt = 16 THEN "BLTZAL" ELSE IF rt = 17 THEN "BGEZAL" ELSE "UNIMP"

Decode(word) ==
  LET main == opTable(word.op)
  IN [rs |-> word.rs, rt |-> word.rt, rd |-> word.rd,
      opCode |-> IF main = "SPECIAL" THEN specialTable(word.funct)
                 ELSE IF main = "BCOND" THEN bcondTable(word.rt) ELSE main,
      extra |-> IF main = "SPECIAL" THEN word.shamt
                ELSE IF main \in {"J", "JAL"} THEN word.target
                ELSE SignExtend(word.imm, HalfBits)]

----------------------------------------------------------------------------
\* Registers, exceptions and the end of an instruction

\* the pending load lands after the instruction's own result, and r0 stays zero
DelayedLoad(regs, nextReg, nextValue) ==
  [[regs EXCEPT ![regs[LoadReg]] = regs[LoadValueReg]]
     EXCEPT ![LoadReg] = nextReg, ![LoadValueReg] = nextValue, ![0] = 0]

Advance(regs, pcAfter) ==
  [regs EXCEPT ![PrevPCReg] = regs[PCReg], ![PCReg] = regs[NextPCReg], ![NextPCReg] = pcAfter]

\* the kernel puts the translation of page p in some slot of the TLB and keeps the bits of the old one
Refill(tb, p) ==
  \E slot \in DOMAIN tb :
    /\ table' = [tb EXCEPT ![slot] = [pages[p] EXCEPT !.use = FALSE, !.dirty = FALSE]]
    /\ pages' = IF tb[slot].valid
                THEN [pages EXCEPT ![tb[slot].virtualPage].dirty = @ \/ tb[slot].dirty]
                ELSE pages
    /\ UNCHANGED status

ExceptionHandler(which, regs, tb) ==
  LET p == vpn(regs[BadVAddrReg])
  IN IF which = "PageFaultException" /\ useTLB /\ p \in DOMAIN pages /\ pages[p].valid
     THEN Refill(tb, p)
     ELSE /\ status' = IF which = "SyscallException" /\ regs[2] = SC_Halt THEN "halted" ELSE "aborted"
          /\ table' = tb
          /\ UNCHANGED pages

\* A variant that leaves the instruction behind, so that it does not start again.
RaiseException_Skips(which, badVAddr, tb) ==
  LET regs == Advance(DelayedLoad([registers EXCEPT ![BadVAddrReg] = badVAddr], 0, 0),
                      Wrap(registers[NextPCReg] + 4))
  IN /\ registers' = regs
     /\ ExceptionHandler(which, regs, tb)
     /\ UNCHANGED <<mainMemory, useTLB, program>>

RaiseException(which, badVAddr, tb) ==
  LET regs == DelayedLoad([registers EXCEPT ![BadVAddrReg] = badVAddr], 0, 0)
  IN /\ registers' = regs
     /\ ExceptionHandler(which, regs, tb)
     /\ UNCHANGED <<mainMemory, useTLB, program>>

Abort ==
  /\ status' = "aborted"
  /\ UNCHANGED <<mainMemory, table, useTLB, registers, program, pages>>

----------------------------------------------------------------------------
\* Fetching: every action below starts with ReadMem(registers[PCReg], 4, &raw)

PC == registers[PCReg]
FetchException == Exception(table, PC, 4, FALSE)
fetched == Touch(table, PC, FALSE)
InProgram == PC \div 4 + 1 \in DOMAIN program
instr == Decode(program[PC \div 4 + 1])
Executes(ops) == status = "user" /\ FetchException = "NoException" /\ InProgram /\ instr.opCode \in ops

rs == registers[instr.rs]
rt == registers[instr.rt]
NextAfter == Wrap(registers[NextPCReg] + 4)

Complete(regs, pcAfter) ==
  /\ registers' = Advance(DelayedLoad(regs, 0, 0), pcAfter)
  /\ table' = fetched
  /\ UNCHANGED <<mainMemory, useTLB, status, program, pages>>

FetchFault ==
  /\ status = "user"
  /\ FetchException # "NoException"
  /\ RaiseException(FetchException, PC, table)

----------------------------------------------------------------------------
\* Arithmetic

ThreeRegister == {"ADD", "ADDU", "SUB", "SUBU", "AND", "OR", "XOR", "NOR", "SLT", "SLTU", "SLL", "SLLV",
                  "SRA", "SRAV", "SRL", "SRLV", "MFHI", "MFLO"}

\* what lands in rd; SRL and SRLV shift the signed "tmp", so they too copy the sign
RegisterResult ==
  LET op == instr.opCode
      by == rs % WordBits
  IN CASE op \in {"ADD", "ADDU"} -> Wrap(rs + rt)
       [] op \in {"SUB", "SUBU"} -> Wrap(rs - rt)
       [] op = "AND" -> BitAnd(rs, rt)
       [] op = "OR" -> BitOr(rs, rs)
       [] op = "XOR" -> BitXor(rs, rt)
       [] op = "NOR" -> Complement(BitOr(rs, rt))
       [] op = "SLT" -> Bit(Signed(rs) < Signed(rt))
       [] op = "SLTU" -> Bit(rs < rt)
       [] op = "SLL" -> ShiftLeft(rt, instr.extra)
       [] op = "SLLV" -> ShiftLeft(rt, by)
       [] op \in {"SRA", "SRL"} -> ShiftRightSigned(rt, instr.extra)
       [] op \in {"SRAV", "SRLV"} -> ShiftRightSigned(rt, by)
       [] op = "MFHI" -> registers[HiReg]
       [] op = "MFLO" -> registers[LoReg]

Immediate == {"ADDI", "ADDIU", "ANDI", "ORI", "XORI", "SLTI", "SLTIU", "LUI"}

\* what lands in rt
ImmediateResult ==
  LET op == instr.opCode
      low == Low(instr.extra, HalfBits)
  IN CASE op \in {"ADDI", "ADDIU"} -> Wrap(rs + instr.extra)
       [] op = "ANDI" -> BitAnd(rs, low)
       [] op = "ORI" -> BitOr(rs, low)
       [] op = "XORI" -> BitXor(rs, low)
       [] op = "SLTI" -> Bit(Signed(rs) < Signed(instr.extra))
       [] op = "SLTIU" -> Bit(rs < instr.extra)
       [] op = "LUI" -> ShiftLeft(instr.extra, HalfBits)

\* the tests on sign bits: like operands and an unlike sum, unlike operands and an unlike difference
Overflows ==
  LET second == IF instr.opCode = "ADDI" THEN instr.extra ELSE rt
  IN \/ /\ instr.opCode \in {"ADD", "ADDI"}
        /\ Negative(rs) = Negative(second)
        /\ Negative(Wrap(rs + second)) # Negative(rs)
     \/ /\ instr.opCode = "SUB"
        /\ Negative(rs) # Negative(rt)
        /\ Negative(Wrap(rs - rt)) # Negative(rs)

Compute ==
  \/ /\ Executes(ThreeRegister)
     /\ ~Overflows
     /\ Complete([registers EXCEPT ![instr.rd] = RegisterResult], NextAfter)
  \/ /\ Executes(Immediate)
     /\ ~Overflows
     /\ Complete([registers EXCEPT ![instr.rt] = ImmediateResult], NextAfter)

Overflow ==
  /\ Executes({"ADD", "ADDI", "SUB"})
  /\ Overflows
  /\ RaiseException("OverflowException", 0, fetched)

\* A variant without the carry from the low word.
MultTurn_NoCarry(m) ==
  LET added == IF m.a % 2 = 1 THEN [m EXCEPT !.lo = Wrap(m.lo + m.bLo), !.hi = Wrap(m.hi + m.bHi)] ELSE m
  IN IF m.a = 1 THEN [added EXCEPT !.a = 0]
     ELSE [added EXCEPT !.bHi = Wrap(2 * m.bHi + Bit(Negative(m.bLo))), !.bLo = Wrap(2 * m.bLo),
                        !.a = ShiftRightSigned(m.a, 1)]

\* one turn of Mult's loop: add the shifted b where a has a bit, with its carry
MultTurn(m) ==
  LET lo == Wrap(m.lo + m.bLo)
      added == IF m.a % 2 = 1
               THEN [m EXCEPT !.lo = lo, !.hi = Wrap(m.hi + Bit(lo < m.bLo) + m.bHi)] ELSE m
  IN IF m.a = 1 THEN [added EXCEPT !.a = 0]
     ELSE [added EXCEPT !.bHi = Wrap(2 * m.bHi + Bit(Negative(m.bLo))), !.bLo = Wrap(2 * m.bLo),
                        !.a = ShiftRightSigned(m.a, 1)]

\* Mult: <<*hiPtr, *loPtr>>
Mult(a, b, signedArith) ==
  LET positive(w) == IF signedArith /\ Negative(w) THEN Wrap(-w) ELSE w
      negative == signedArith /\ Negative(a) # Negative(b)
      turn[n \in 0 .. WordBits] ==
        IF n = 0 THEN [a |-> positive(a), bLo |-> positive(b), bHi |-> 0, lo |-> 0, hi |-> 0]
        ELSE LET m == turn[n - 1] IN IF m.a = 0 THEN m ELSE MultTurn(m)
      product == turn[WordBits]
  IN IF a = 0 \/ b = 0 THEN <<0, 0>>
     ELSE IF ~negative THEN <<product.hi, product.lo>>
     ELSE <<Wrap(Complement(product.hi) + Bit(product.lo = 0)), Wrap(-product.lo)>>

HiLo(hi, lo) == [registers EXCEPT ![HiReg] = hi, ![LoReg] = lo]

Multiply ==
  /\ Executes({"MULT", "MULTU"})
  /\ LET product == Mult(rs, rt, instr.opCode = "MULT")
     IN Complete(HiLo(product[1], product[2]), NextAfter)

MoveToHiLo ==
  \/ Executes({"MTHI"}) /\ Complete(HiLo(rs, registers[LoReg]), NextAfter)
  \/ Executes({"MTLO"}) /\ Complete(HiLo(registers[HiReg], rs), NextAfter)

\* the one quotient that does not fit a word, which C leaves undefined
QuotientOverflows == instr.opCode = "DIV" /\ Signed(rs) = -(TwoTo[WordBits - 1]) /\ Signed(rt) = -1

Divide ==
  /\ Executes({"DIV", "DIVU"})
  /\ LET x == IF instr.opCode = "DIV" THEN Signed(rs) ELSE rs
         y == IF instr.opCode = "DIV" THEN Signed(rt) ELSE rt
     IN Complete(IF rt = 0 THEN HiLo(0, 0) ELSE HiLo(Wrap(Remainder(x, y)), Wrap(Quotient(x, y))), NextAfter)

\* where the host's divide instruction traps on it, Nachos dies
DivideCrash ==
  /\ Executes({"DIV"})
  /\ QuotientOverflows
  /\ Abort

----------------------------------------------------------------------------
\* Branches and jumps: they change the program counter after next

Branches == {"BEQ", "BNE", "BGTZ", "BLEZ", "BGEZ", "BLTZ", "BGEZAL", "BLTZAL"}
Link(r) == [registers EXCEPT ![r] = NextAfter]

Taken(regs) ==
  LET op == instr.opCode
      value == Signed(regs[instr.rs])
  IN \/ op = "BEQ" /\ regs[instr.rs] = regs[instr.rt]
     \/ op = "BNE" /\ regs[instr.rs] # regs[instr.rt]
     \/ op = "BGTZ" /\ value > 0
     \/ op = "BLEZ" /\ value <= 0
     \/ op \in {"BGEZ", "BGEZAL"} /\ value >= 0
     \/ op \in {"BLTZ", "BLTZAL"} /\ value < 0

Branch ==
  /\ Executes(Branches)
  /\ LET regs == IF instr.opCode \in {"BGEZAL", "BLTZAL"} THEN Link(R31) ELSE registers
     IN Complete(regs, IF Taken(regs) THEN Wrap(registers[NextPCReg] + ShiftLeft(instr.extra, 2)) ELSE NextAfter)

\* a jump keeps the top four bits of the address it replaces
Jump ==
  \/ /\ Executes({"J", "JAL"})
     /\ Complete(IF instr.opCode = "JAL" THEN Link(R31) ELSE registers,
                 NextAfter - Low(NextAfter, WordBits - 4) + ShiftLeft(instr.extra, 2))
  \/ /\ Executes({"JR"})
     /\ Complete(registers, rs)
  \/ /\ Executes({"JALR"})
     /\ Complete(Link(instr.rd), Link(instr.rd)[instr.rs])

----------------------------------------------------------------------------
\* Loads and stores

LoadSize == [LB |-> 1, LBU |-> 1, LH |-> 2, LHU |-> 2, LW |-> 4, LWL |-> 4, LWR |-> 4]
StoreSize == [SB |-> 1, SH |-> 2, SW |-> 4, SWL |-> 4, SWR |-> 4]
Unaligned == {"LWL", "LWR", "SWL", "SWR"}

tmp == Wrap(rs + instr.extra)
Size == IF instr.opCode \in DOMAIN LoadSize THEN LoadSize[instr.opCode] ELSE StoreSize[instr.opCode]
\* SWL and SWR read the word they are about to change first
Reads == instr.opCode \in DOMAIN LoadSize \cup {"SWL", "SWR"}
AlignedOrNot == instr.opCode \in Unaligned => tmp % 4 = 0

DataException ==
  LET reading == Exception(fetched, tmp, Size, FALSE)
  IN IF Reads /\ reading # "NoException" THEN reading
     ELSE IF instr.opCode \in DOMAIN StoreSize THEN Exception(fetched, tmp, Size, TRUE)
     ELSE "NoException"

\* a store that fails after its read has already marked the page used
DataFault ==
  /\ Executes(DOMAIN LoadSize \cup DOMAIN StoreSize)
  /\ AlignedOrNot
  /\ DataException # "NoException"
  /\ RaiseException(DataException, tmp,
       IF instr.opCode \in {"SWL", "SWR"} /\ Exception(fetched, tmp, 4, FALSE) = "NoException"
       THEN Touch(fetched, tmp, FALSE) ELSE fetched)

\* nextLoadValue: what the register will hold one instruction later
Loaded(value) ==
  LET op == instr.opCode
      k == ByteBits * (tmp % 4)
      old == IF registers[LoadReg] = instr.rt THEN registers[LoadValueReg] ELSE rt
      kept == WordBits - ByteBits - k
  IN CASE op = "LB" -> SignExtend(value, ByteBits)
       [] op = "LH" -> SignExtend(value, HalfBits)
       [] op \in {"LBU", "LHU", "LW"} -> value
       [] op = "LWL" -> Low(old, k) + ShiftLeft(value, k)
       [] op = "LWR" -> old - Low(old, ByteBits + k) + ShiftRight(value, kept)

Load ==
  /\ Executes(DOMAIN LoadSize)
  /\ AlignedOrNot
  /\ DataException = "NoException"
  /\ registers' = Advance(DelayedLoad(registers, instr.rt, Loaded(ReadMem(fetched, tmp, Size))), NextAfter)
  /\ table' = Touch(fetched, tmp, FALSE)
  /\ UNCHANGED <<mainMemory, useTLB, status, program, pages>>

Stored ==
  LET k == ByteBits * (tmp % 4)
      old == ReadMem(fetched, tmp - (tmp % 4), 4)
      kept == WordBits - ByteBits - k
  IN IF instr.opCode = "SWL" THEN old - Low(old, WordBits - k) + ShiftRight(rt, k)
     ELSE IF instr.opCode = "SWR" THEN Low(old, kept) + ShiftLeft(rt, kept)
     ELSE rt

Store ==
  /\ Executes(DOMAIN StoreSize)
  /\ AlignedOrNot
  /\ DataException = "NoException"
  /\ mainMemory' = WriteMem(fetched, tmp, Size, Stored)
  /\ table' = Touch(fetched, tmp, TRUE)
  /\ registers' = Advance(DelayedLoad(registers, 0, 0), NextAfter)
  /\ UNCHANGED <<useTLB, status, program, pages>>

\* ASSERT((tmp & 0x3) == 0) in the four unaligned accesses
UnalignedAssert ==
  /\ Executes(Unaligned)
  /\ ~AlignedOrNot
  /\ Abort

----------------------------------------------------------------------------
Trap ==
  \/ Executes({"SYSCALL"}) /\ RaiseException("SyscallException", 0, fetched)
  \/ Executes({"RES", "UNIMP"}) /\ RaiseException("IllegalInstrException", 0, fetched)

OneInstruction ==
  \/ FetchFault \/ Compute \/ Overflow \/ Multiply \/ MoveToHiLo \/ Divide \/ DivideCrash
  \/ Branch \/ Jump \/ DataFault \/ Load \/ Store \/ UnalignedAssert \/ Trap
=============================================================================
