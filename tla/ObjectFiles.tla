---------------------------- MODULE ObjectFiles ----------------------------
(***************************************************************************)
(* The tools of bin/ that turn a linked program into memory: coff2noff     *)
(* writes the file the kernel loads, coff2flat an image of the memory, and *)
(* the interpreter of main.c loads its own memory.  An object file is a    *)
(* sequence of sections; addresses count from the address the tool takes   *)
(* for the first (memoffset in int.h).  A file is a header, Absent until   *)
(* it is written, and the bytes behind it.                                 *)
(***************************************************************************)
EXTENDS Naturals, Sequences, FiniteSetsExt

CONSTANTS
    Objects,    \* the object files: sequences of [name, addr, size, data], where
                \* data is shorter than size if the file is too short
    StackSize, MEMSIZE,
    Absent      \* no header, no file

Bss == {".bss", ".sbss"}
LoadOrder == <<".text", ".rdata", ".data", ".sdata", ".sbss", ".bss">>

\* What the linker is asked for (-N -T 0, addrspace.cc:5): sections one after the other from 0.
OneAfterTheOther(sections) ==
    \A k \in DOMAIN sections :
        sections[k].addr = IF k = 1 THEN 0 ELSE sections[k - 1].addr + sections[k - 1].size

ASSUME ObjectsAssumption ==
    \A o \in Objects :
        /\ o \in Seq([name : STRING, addr : Nat, size : Nat, data : Seq(Nat)])
        /\ \A k \in DOMAIN o : Len(o[k].data) <= o[k].size /\ (o[k].name \in Bss => o[k].data = <<>>)

\* A linker that does so has one section of each name, the uninitialized data last.
ASSUME LinkerAssumption ==
    \A o \in Objects : OneAfterTheOther(o) =>
        \A j, k \in DOMAIN o :
            /\ o[k].data # <<>> => o[k].name \in Range(LoadOrder)
            /\ o[j].name = o[k].name => j = k
            /\ (j < k /\ o[j].name \in Bss) => o[k].name \in Bss

ASSUME SizesAssumption == MEMSIZE \in Nat /\ StackSize \in Nat /\ StackSize >= 4

VARIABLES
    tool,       \* the tool that runs: "noff", "flat" or "execute"
    object,     \* its input
    index,      \* the section it looks at
    noffH,      \* coff2noff's header
    out,        \* the output file, or the interpreter's memory
    phase       \* "convert", "done", "failed" or "killed"

toolVars == <<tool, object, index, noffH, out, phase>>

Empty == [virtualAddr |-> 0, inFileAddr |-> 0, size |-> 0]

ToolInit ==
    /\ tool \in {"noff", "flat", "execute"}
    /\ object \in Objects
    /\ index = 1
    /\ noffH = [code |-> Empty, initData |-> Empty, uninitData |-> Empty]
    /\ out = [header |-> Absent,
              body |-> IF tool = "execute" THEN [k \in 1..MEMSIZE |-> 0] ELSE <<>>]
    /\ phase = "convert"

Runs(t) == phase = "convert" /\ tool = t
Finished == index > Len(object)
section == object[index]

-----------------------------------------------------------------------------
\* coff2noff

Segment ==
    IF section.size = 0 THEN "empty"
    ELSE IF section.name = ".text" THEN "code"
    ELSE IF section.name \in {".data", ".rdata"} THEN "initData"
    ELSE IF section.name \in Bss THEN "uninitData" ELSE "unknown"

Copied == Segment \in {"code", "initData"}

\* Two sections of uninitialized data are refused if the second follows the first.
Refused ==
    \/ Segment = "unknown"
    \/ Copied /\ Len(section.data) < section.size
    \/ Segment = "initData" /\ noffH.initData.size # 0
    \/ /\ Segment = "uninitData" /\ noffH.uninitData.size # 0
       /\ section.addr = noffH.uninitData.virtualAddr + noffH.uninitData.size

CopySection ==
    /\ Runs("noff") /\ ~Finished /\ ~Refused
    /\ index' = index + 1
    /\ out' = IF Copied THEN [out EXCEPT !.body = @ \o section.data] ELSE out
    /\ noffH' = IF Segment = "empty" THEN noffH
                ELSE IF Segment = "uninitData" /\ noffH.uninitData.size # 0
                THEN [noffH EXCEPT !.uninitData.size = @ + section.size]
                ELSE [noffH EXCEPT ![Segment] = [virtualAddr |-> section.addr,
                                                 inFileAddr |-> Len(out.body),
                                                 size |-> section.size]]
    /\ UNCHANGED <<tool, object, phase>>

\* The magic number comes last: until then the header is a hole in the file.
WriteHeader ==
    /\ Runs("noff") /\ Finished
    /\ out' = [out EXCEPT !.header = noffH]
    /\ phase' = "done"
    /\ UNCHANGED <<tool, object, index, noffH>>

\* A section is refused, or a write fails: the output file is removed.
Fail ==
    /\ Runs("noff")
    /\ Finished \/ (~Finished /\ (Refused \/ Copied))
    /\ out' = Absent
    /\ phase' = "failed"
    /\ UNCHANGED <<tool, object, index, noffH>>

\* Whoever started the tool stops it: the output file stays as it is.
Kill ==
    /\ phase = "convert"
    /\ phase' = "killed"
    /\ UNCHANGED <<tool, object, index, noffH, out>>

-----------------------------------------------------------------------------
\* coff2flat, which leaves its output behind when it fails

top == Max({0} \cup {object[k].addr + object[k].size : k \in 1..(index - 1)})

FlatSection ==
    /\ Runs("flat") /\ ~Finished
    /\ \/ section.name \in Bss /\ UNCHANGED out
       \/ /\ section.name \notin Bss /\ Len(section.data) >= section.size
          /\ out' = [out EXCEPT !.body = @ \o section.data]
    /\ index' = index + 1
    /\ UNCHANGED <<tool, object, noffH, phase>>

\* The input is too short, or a write fails.
FlatFail ==
    /\ Runs("flat")
    /\ Finished \/ (~Finished /\ section.name \notin Bss)
    /\ phase' = "failed"
    /\ UNCHANGED <<tool, object, index, noffH, out>>

\* The blank word behind the stack; what was not written in between reads as zero.
AddStack ==
    /\ Runs("flat") /\ Finished
    /\ out' = [out EXCEPT !.body =
                [k \in 1..Max({Len(@), top + StackSize}) |->
                    IF k \in 1..Len(@) /\ k <= top + StackSize - 4 THEN @[k] ELSE 0]]
    /\ phase' = "done"
    /\ UNCHANGED <<tool, object, index, noffH>>

-----------------------------------------------------------------------------
\* The interpreter's load_program

EndOfFile == 255    \* (char) EOF

\* getc gives EOF for every byte that a file which is too short lacks.
LOADSECTION(s) ==
    [k \in 1..MEMSIZE |->
        IF k - s.addr \in 1..Len(s.data) THEN s.data[k - s.addr]
        ELSE IF k - s.addr \in 1..s.size THEN EndOfFile ELSE out.body[k]]

\* A section without contents in the file, or missing, is not loaded; one that
\* reaches the end of memory ends the interpreter.  (The FILE that getc reads has
\* been closed and is, in the C library this is written for, ldopen's again.)
load_program ==
    LET found == {k \in DOMAIN object : object[k].name = LoadOrder[index] /\ object[k].data # <<>>}
        s == object[Min(found)]
    IN  /\ Runs("execute") /\ index \in DOMAIN LoadOrder
        /\ IF found = {} THEN index' = index + 1 /\ UNCHANGED <<out, phase>>
           ELSE IF s.addr + s.size >= MEMSIZE THEN phase' = "failed" /\ UNCHANGED <<index, out>>
           ELSE /\ index' = index + 1
                /\ out' = [out EXCEPT !.body = LOADSECTION(s)]
                /\ UNCHANGED phase
        /\ UNCHANGED <<tool, object, noffH>>

LoadDone ==
    /\ Runs("execute") /\ index \notin DOMAIN LoadOrder
    /\ phase' = "done"
    /\ UNCHANGED <<tool, object, index, noffH, out>>

ToolNext ==
    \/ CopySection \/ WriteHeader \/ Fail \/ Kill
    \/ FlatSection \/ FlatFail \/ AddStack
    \/ load_program \/ LoadDone

-----------------------------------------------------------------------------
Linked == OneAfterTheOther(object)

\* What the program is to find at address a.
Contents(a) ==
    LET in == {k \in DOMAIN object : a \in object[k].addr..(object[k].addr + Len(object[k].data) - 1)}
    IN  IF in = {} THEN 0 ELSE object[Min(in)].data[a - object[Min(in)].addr + 1]

TooShort == \E k \in DOMAIN object : object[k].name \notin Bss /\ Len(object[k].data) < object[k].size

(***************************************************************************)
(* The flat image and the interpreter's memory have every byte of a linked *)
(* program at its address and zeros elsewhere, the uninitialized data and  *)
(* the stack included.  Only the interpreter does not notice that a file   *)
(* is too short.                                                           *)
(***************************************************************************)
ImageExact ==
    /\ (phase = "done" /\ TooShort) => tool = "execute"
    /\ (Linked /\ phase = "done" /\ tool # "noff" /\ ~TooShort) =>
        \A k \in DOMAIN out.body : out.body[k] = Contents(k - 1)
=============================================================================
