------------------------------ MODULE Execute ------------------------------
(***************************************************************************)
(* bin/execute.c: the stand-alone MIPS interpreter that came with the      *)
(* object file tools, one turn of runprogram's loop per step.  It has no   *)
(* load delay, no exceptions and no address translation, which makes it    *)
(* the plain meaning of a program that the simulated machine (Mips) has to *)
(* preserve.  The next turn's "Reg[0] = 0" is part of the step.  A host    *)
(* address outside mem, or one the host cannot access in one piece, ends   *)
(* the interpreter; host shifts use the low bits of their count.           *)
(***************************************************************************)
EXTENDS Words, Sequences

VARIABLES Reg, HI, LO, pc, npc, mem, exited, program

interpreter == <<Reg, HI, LO, pc, npc, mem, exited, program>>

\* encode.h
Normal == [J |-> 2, JAL |-> 3, BEQ |-> 4, BNE |-> 5, BLEZ |-> 6, BGTZ |-> 7, ADDI |-> 8, ADDIU |-> 9,
           SLTI |-> 10, SLTIU |-> 11, ANDI |-> 12, ORI |-> 13, XORI |-> 14, LUI |-> 15,
           LB |-> 32, LH |-> 33, LWL |-> 34, LW |-> 35, LBU |-> 36, LHU |-> 37, LWR |-> 38,
           SB |-> 40, SH |-> 41, SW |-> 43]
Special == [SLL |-> 0, SRL |-> 2, SRA |-> 3, SLLV |-> 4, SRLV |-> 6, SRAV |-> 7, JR |-> 8, JALR |-> 9,
            SYSCALL |-> 12, BREAK |-> 13, MFHI |-> 16, MTHI |-> 17, MFLO |-> 18, MTLO |-> 19,
            MULT |-> 24, MULTU |-> 25, DIV |-> 26, DIVU |-> 27, ADD |-> 32, ADDU |-> 33, SUB |-> 34,
            SUBU |-> 35, AND |-> 36, OR |-> 37, XOR |-> 38, NOR |-> 39, SLT |-> 42, SLTU |-> 43]
Bcond == [BLTZ |-> 0, BGEZ |-> 1, BLTZAL |-> 16, BGEZAL |-> 17]

\* the case label of a switch that a field selects; u() and "no coprocessors" are the default
Case(labels, field) ==
  IF \E l \in DOMAIN labels : labels[l] = field THEN CHOOSE l \in DOMAIN labels : labels[l] = field
  ELSE "unimplemented"

instr == program[pc \div 4 + 1]
op == IF instr.op = 0 THEN Case(Special, instr.funct)
      ELSE IF instr.op = 1 THEN Case(Bcond, instr.rt) ELSE Case(Normal, instr.op)
immed == SignExtend(instr.imm, HalfBits)
rs == Reg[instr.rs]
rt == Reg[instr.rt]

Runs(ops) == ~exited /\ pc \div 4 + 1 \in DOMAIN program /\ op \in ops

Turn(regs, target) ==
  /\ Reg' = [regs EXCEPT ![0] = 0]
  /\ pc' = npc
  /\ npc' = target
  /\ UNCHANGED <<exited, program>>

After == Wrap(npc + 4)

Exit ==
  /\ exited' = TRUE
  /\ UNCHANGED <<Reg, HI, LO, pc, npc, mem, program>>

----------------------------------------------------------------------------
RegisterOps == {"SLL", "SRL", "SRA", "SLLV", "SRLV", "SRAV", "MFHI", "MFLO", "ADD", "ADDU", "SUB", "SUBU",
                "AND", "OR", "XOR", "NOR", "SLT", "SLTU"}

RegisterValue ==
  LET by == rs % WordBits
  IN CASE op = "SLL" -> ShiftLeft(rt, instr.shamt)
       [] op = "SRL" -> ShiftRight(rt, instr.shamt)
       [] op = "SRA" -> ShiftRightSigned(rt, instr.shamt)
       [] op = "SLLV" -> ShiftLeft(rt, by)
       [] op = "SRLV" -> ShiftRight(rt, by)
       [] op = "SRAV" -> ShiftRightSigned(rt, by)
       [] op = "MFHI" -> HI
       [] op = "MFLO" -> LO
       [] op \in {"ADD", "ADDU"} -> Wrap(rs + rt)
       [] op \in {"SUB", "SUBU"} -> Wrap(rs - rt)
       [] op = "AND" -> BitAnd(rs, rt)
       [] op = "OR" -> BitOr(rs, rt)
       [] op = "XOR" -> BitXor(rs, rt)
       [] op = "NOR" -> Complement(BitOr(rs, rt))
       [] op = "SLT" -> Bit(Signed(rs) < Signed(rt))
       [] op = "SLTU" -> Bit(rs < rt)

ImmediateOps == {"ADDI", "ADDIU", "SLTI", "SLTIU", "ANDI", "ORI", "XORI", "LUI"}

ImmediateValue ==
  CASE op \in {"ADDI", "ADDIU"} -> Wrap(rs + immed)
    [] op = "SLTI" -> Bit(Signed(rs) < Signed(immed))
    [] op = "SLTIU" -> Bit(rs < immed)
    [] op = "ANDI" -> BitAnd(rs, immed)
    [] op = "ORI" -> BitOr(rs, immed)
    [] op = "XORI" -> BitXor(rs, immed)
    [] op = "LUI" -> ShiftLeft(instr.imm, HalfBits)

Arithmetic ==
  /\ \/ Runs(RegisterOps) /\ Turn([Reg EXCEPT ![instr.rd] = RegisterValue], After)
     \/ Runs(ImmediateOps) /\ Turn([Reg EXCEPT ![instr.rt] = ImmediateValue], After)
  /\ UNCHANGED <<HI, LO, mem>>

\* the high word from half-word products, without the carries between them
Product(t1, t2) ==
  LET low(t) == Low(t, HalfBits)
      high(t) == ShiftRight(t, HalfBits)
      cross(x, y) == ShiftRightSigned(Wrap(high(x) * low(y)), HalfBits)
  IN <<Wrap(high(t1) * high(t2) + cross(t1, t2) + cross(t2, t1)), Wrap(t1 * t2)>>

Multiplication ==
  /\ Runs({"MULT", "MULTU"})
  /\ LET negative == op = "MULT" /\ Negative(rs) # Negative(rt)
         positive(w) == IF op = "MULT" /\ Negative(w) THEN Wrap(-w) ELSE w
         product == Product(positive(rs), positive(rt))
     IN /\ LO' = IF negative THEN Wrap(-product[2]) ELSE product[2]
        /\ HI' = IF negative THEN Wrap(Complement(product[1]) + Bit(product[2] = 0)) ELSE product[1]
  /\ Turn(Reg, After)
  /\ UNCHANGED mem

\* the host traps on a division by zero and on the quotient that does not fit
Division ==
  /\ Runs({"DIV", "DIVU"})
  /\ LET x == IF op = "DIV" THEN Signed(rs) ELSE rs
         y == IF op = "DIV" THEN Signed(rt) ELSE rt
     IN IF y = 0 \/ (op = "DIV" /\ Quotient(x, y) = TwoTo[WordBits - 1]) THEN Exit
        ELSE LO' = Wrap(Quotient(x, y)) /\ HI' = Wrap(Remainder(x, y)) /\ Turn(Reg, After) /\ UNCHANGED mem

MoveTo ==
  /\ Runs({"MTHI", "MTLO"})
  /\ HI' = IF op = "MTHI" THEN rs ELSE HI
  /\ LO' = IF op = "MTLO" THEN rs ELSE LO
  /\ Turn(Reg, After)
  /\ UNCHANGED mem

----------------------------------------------------------------------------
Link(r) == [Reg EXCEPT ![r] = Wrap(pc + 8)]

Goes(regs) ==
  LET value == Signed(regs[instr.rs])
  IN \/ op = "BEQ" /\ rs = rt
     \/ op = "BNE" /\ rs # rt
     \/ op = "BLEZ" /\ value <= 0
     \/ op = "BGTZ" /\ value > 0
     \/ op \in {"BLTZ", "BLTZAL"} /\ value < 0
     \/ op \in {"BGEZ", "BGEZAL"} /\ value >= 0

BranchTo ==
  /\ Runs({"BEQ", "BNE", "BLEZ", "BGTZ", "BLTZ", "BGEZ", "BLTZAL", "BGEZAL"})
  /\ LET regs == IF op \in {"BLTZAL", "BGEZAL"} THEN Link(31) ELSE Reg
     IN Turn(regs, IF Goes(regs) THEN Wrap(pc + 4 + ShiftLeft(immed, 2)) ELSE After)
  /\ UNCHANGED <<HI, LO, mem>>

JumpTo ==
  /\ \/ Runs({"J"}) /\ Turn(Reg, pc - Low(pc, WordBits - 4) + ShiftLeft(instr.target, 2))
     \/ Runs({"JAL"}) /\ Turn(Link(31), pc - Low(pc, WordBits - 4) + ShiftLeft(instr.target, 2))
     \/ Runs({"JR"}) /\ Turn(Reg, rs)
     \/ Runs({"JALR"}) /\ Turn(Link(instr.rd), rs)
  /\ UNCHANGED <<HI, LO, mem>>

----------------------------------------------------------------------------
\* int.h
addr == Wrap(rs + immed)
Width == [LB |-> 1, LBU |-> 1, LH |-> 2, LHU |-> 2, LW |-> 4, SB |-> 1, SH |-> 2, SW |-> 4]
InMemory(a, n) == a % n = 0 /\ a .. a + n - 1 \subseteq DOMAIN mem

fetch(a, n) ==
  LET byte(k) == IF k < n THEN mem[a + k] * TwoTo[ByteBits * k] ELSE 0
  IN byte(0) + byte(1) + byte(2) + byte(3)

store(a, n, value) ==
  [b \in DOMAIN mem |-> IF b \in a .. a + n - 1 THEN Low(ShiftRight(value, ByteBits * (b - a)), ByteBits)
                        ELSE mem[b]]

FetchTo ==
  /\ Runs({"LB", "LBU", "LH", "LHU", "LW"})
  /\ InMemory(addr, Width[op])
  /\ LET word == fetch(addr, Width[op])
     IN Turn([Reg EXCEPT ![instr.rt] = IF op = "LB" THEN SignExtend(word, ByteBits)
                                       ELSE IF op = "LH" THEN SignExtend(word, HalfBits) ELSE word], After)
  /\ UNCHANGED <<HI, LO, mem>>

\* LWL masks with "-1 >> n", which is still -1, and so keeps every bit of the register
FetchUnaligned ==
  LET k == addr % 4
      word == fetch(addr - k, 4)
  IN /\ Runs({"LWL", "LWR"})
     /\ InMemory(addr - k, 4)
     /\ Turn([Reg EXCEPT ![instr.rt] =
                IF op = "LWL" THEN BitOr(rt, ShiftLeft(word, ByteBits * k))
                ELSE BitOr(IF k = 0 THEN 0 ELSE rt - Low(rt, ByteBits * k),
                           ShiftRightSigned(word, ByteBits * ((4 - k) % 4)))], After)
     /\ UNCHANGED <<HI, LO, mem>>

StoreFrom ==
  /\ Runs({"SB", "SH", "SW"})
  /\ InMemory(addr, Width[op])
  /\ mem' = store(addr, Width[op], rt)
  /\ Turn(Reg, After)
  /\ UNCHANGED <<HI, LO>>

BadAddress ==
  /\ \/ Runs(DOMAIN Width) /\ ~InMemory(addr, Width[op])
     \/ Runs({"LWL", "LWR"}) /\ ~InMemory(addr - (addr % 4), 4)
     \/ ~exited /\ ~InMemory(pc, 4)
  /\ Exit

----------------------------------------------------------------------------
\* system.c: exit and unknown calls end the interpreter, the others return what the host says
HostCalls == {3, 4, 5, 6, 17, 19, 54, 62, 64}

SystemTrap ==
  /\ Runs({"SYSCALL", "BREAK"})
  /\ IF Reg[2] \in HostCalls
     THEN \E result \in Word : Turn([Reg EXCEPT ![1] = result], After) /\ UNCHANGED <<HI, LO, mem>>
     ELSE Exit

Unimplemented == Runs({"unimplemented"}) /\ Exit

runprogram ==
  \/ Arithmetic \/ Multiplication \/ Division \/ MoveTo \/ BranchTo \/ JumpTo \/ FetchTo \/ FetchUnaligned
  \/ StoreFrom \/ BadAddress \/ SystemTrap \/ Unimplemented
=============================================================================
