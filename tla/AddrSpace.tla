----------------------------- MODULE AddrSpace -----------------------------
(***************************************************************************)
(* userprog/addrspace.cc and StartProcess of userprog/progtest.cc: the     *)
(* kernel loads the file coff2noff has left, if any, into main memory and  *)
(* sets the machine up to run it.  ReadAt may sleep, so the parts of the   *)
(* constructor that read are steps of their own.                           *)
(***************************************************************************)
EXTENDS ObjectFiles, Mips

CONSTANT UserStackSize

StackReg == 29

ASSUME StackAssumption == UserStackSize \in Nat /\ StackReg \in GPRegs

VARIABLES
    kernel,     \* where StartProcess is
    pageTable   \* of the address space

addrSpaceVars == <<toolVars, kernel, pageTable>>

\* idle      before Open
\* code      in the constructor, the code not yet read
\* data      the initialized data not yet read
\* loaded    back in StartProcess
\* running   about to execute the first instruction
\* absent    no such file
\* aborted   an assertion has failed
AddrSpaceInit ==
    /\ ToolInit
    /\ kernel = "idle" /\ pageTable = <<>>
    /\ mainMemory = [a \in 0..(MemorySize - 1) |-> 0] /\ registers = [r \in AllRegs |-> 0]
    /\ table = <<>> /\ useTLB = FALSE
    /\ status = "kernel" /\ program = <<>> /\ pages = <<>>

noff == out.header

divRoundUp(n, s) == (n + s - 1) \div s

\* A variant without the space of the uninitialized data.
numPages_NoBss == divRoundUp(noff.code.size + noff.initData.size + UserStackSize, PageSize)

numPages == divRoundUp(noff.code.size + noff.initData.size + noff.uninitData.size + UserStackSize, PageSize)

Identity ==
    [i \in 1..numPages |-> [virtualPage |-> i - 1, physicalPage |-> i - 1, valid |-> TRUE,
                            readOnly |-> FALSE, use |-> FALSE, dirty |-> FALSE]]

\* StartProcess up to the first read of a segment: the assertions on the magic
\* number and on numPages, the page table, and the zeroing of memory.
OpenExecutable ==
    /\ tool = "noff" /\ phase # "convert" /\ kernel = "idle"
    /\ IF out = Absent THEN kernel' = "absent" /\ UNCHANGED <<pageTable, mainMemory>>
       ELSE IF noff = Absent \/ numPages > NumPhysPages
       THEN kernel' = "aborted" /\ UNCHANGED <<pageTable, mainMemory>>
       ELSE /\ kernel' = "code"
            /\ pageTable' = Identity
            /\ mainMemory' = [a \in DOMAIN mainMemory |->
                                IF a < numPages * PageSize THEN 0 ELSE mainMemory[a]]
    /\ UNCHANGED <<toolVars, table, useTLB, registers, status, program, pages>>

ReadSegment(seg) ==
    mainMemory' = [a \in DOMAIN mainMemory |->
                    IF a \in seg.virtualAddr..(seg.virtualAddr + seg.size - 1)
                    THEN out.body[seg.inFileAddr + a - seg.virtualAddr + 1] ELSE mainMemory[a]]

LoadSegments ==
    /\ \/ kernel = "code" /\ kernel' = "data" /\ ReadSegment(noff.code)
       \/ kernel = "data" /\ kernel' = "loaded" /\ ReadSegment(noff.initData)
    /\ UNCHANGED <<toolVars, pageTable, table, useTLB, registers, status, program, pages>>

\* InitRegisters and RestoreState.
StartProgram ==
    /\ kernel = "loaded"
    /\ kernel' = "running"
    /\ registers' = [r \in AllRegs |-> IF r = NextPCReg THEN 4
                                       ELSE IF r = StackReg THEN numPages * PageSize - 16 ELSE 0]
    /\ table' = pageTable
    /\ status' = "user"
    /\ UNCHANGED <<toolVars, pageTable, mainMemory, useTLB, program, pages>>

AddrSpaceNext ==
    \/ ToolNext /\ UNCHANGED <<kernel, pageTable, machine>>
    \/ OpenExecutable \/ LoadSegments \/ StartProgram

-----------------------------------------------------------------------------
(***************************************************************************)
(* A program starts only from a file whose conversion was finished, and    *)
(* then finds, through the page table, every byte of a linked object at    *)
(* its address and zeros in the uninitialized data and the stack, its      *)
(* first instruction next, and a stack that ends within its memory and has *)
(* room (all but 16 bytes of UserStackSize) above everything it was        *)
(* linked with.                                                            *)
(***************************************************************************)
LoadExact ==
    /\ ImageExact
    /\ kernel = "running" =>
        /\ phase = "done"
        /\ Linked =>
            /\ \A a \in 0..(Len(table) * PageSize - 1) :
                /\ Exception(table, a, 1, TRUE) = "NoException"
                /\ ReadMem(table, a, 1) = Contents(a)
            /\ PC = 0 /\ registers[NextPCReg] = 4
            /\ registers[StackReg] < Len(table) * PageSize
            /\ \A k \in DOMAIN object :
                object[k].addr + object[k].size + UserStackSize <= registers[StackReg] + 16
=============================================================================
