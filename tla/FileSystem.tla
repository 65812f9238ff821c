----------------------------- MODULE FileSystem -----------------------------
(***************************************************************************)
(* The file system of filesys/: a bitmap of free sectors (bitmap.cc), one  *)
(* directory (directory.cc), a header for each file (filehdr.cc) and open  *)
(* files (openfile.cc) on a disk that is written sector by sector.         *)
(*                                                                         *)
(* An operation reads what it needs, computes what it will write, and      *)
(* then writes; there is no concurrent access (filesys.cc:33), so the      *)
(* reading and computing is one step and each sector written is another.   *)
(* Nachos may exit before each of them.                                    *)
(***************************************************************************)
EXTENDS Integers, Sequences, FiniteSets, FiniteSetsExt

CONSTANTS
    Name,           \* file names, as strncmp tells them apart: 9 characters
    Byte,           \* a subset of Nat with 0 in it
    SectorSize,
    NumSectors,
    SystemSectors,  \* the first ones: headers and contents of map and directory
    NumDirEntries,
    Straddle,       \* the entry whose name is in the directory's next sector
    NumDirect,      \* data sectors that fit in a header
    MaxTransfer,    \* bound: bytes of one Read or Write
    MaxOpen,        \* bound: files open at a time
    NoName,         \* in an entry never used
    NoHeader,       \* in a sector that holds no header
    Nobody, Closed, None

Sector     == 0..(NumSectors - 1)
FileSector == SystemSectors..(NumSectors - 1)
Offset     == 0..(SectorSize - 1)
Entry      == 1..NumDirEntries

\* MaxFileSize of filehdr.h:21.  Create does not check it: the client has to.
MaxFileSize == NumDirect * SectorSize

ASSUME FileSystemAssumption ==
    /\ {SectorSize, SystemSectors, MaxTransfer, NumDirEntries} \subseteq Nat \ {0}
    /\ {NumSectors, NumDirect} \subseteq Nat /\ SystemSectors <= NumSectors
    /\ Byte \subseteq Nat /\ 0 \in Byte /\ \E b \in Byte : \A c \in Byte : c <= b
    /\ Straddle \in Entry
    /\ Nobody \notin Name /\ NoName \notin Name

VARIABLES
    \* on the disk:
    map,        \* the bitmap: the sectors that are marked
    dir,        \* the directory's table
    header,     \* the header in each of the other sectors, or NoHeader
    data,       \* the bytes in each of them
    \* in memory:
    pending,    \* the sectors that the operation has yet to write
    busy,       \* the name it was called with, or Nobody
    opened,     \* the header and seekPosition of each open file, or Closed
    result,     \* what an operation is about to return, or None
    damaged     \* history: a crash left the disk inconsistent

fsVars == <<map, dir, header, data, pending, busy, opened, result, damaged>>

Header == [numBytes : 0..MaxFileSize, dataSectors : UNION {[1..n -> FileSector] : n \in 0..NumDirect}]

ASSUME NoHeaderAssumption == NoHeader \notin Header

ASSUME ClosedAssumption ==
    Closed \notin (0..MaxFileSize) \cup [hdr : Header, seekPosition : 0..MaxFileSize]

TypeOK ==
    /\ map \subseteq Sector
    /\ dir \in [Entry -> [inUse : BOOLEAN, sector : Sector, name : Name \cup {NoName}]]
    /\ header \in [FileSector -> Header \cup {NoHeader}]
    /\ data \in [FileSector -> [Offset -> Byte]]
    /\ busy \in Name \cup {Nobody}
    /\ pending = <<>> <=> busy = Nobody
    /\ opened \in [Name -> [hdr : Header, seekPosition : 0..MaxFileSize] \cup {Closed}]
    /\ damaged \in BOOLEAN

\* FileSystem(TRUE): a formatted disk, whose file held zeros.
Init ==
    /\ map = 0..(SystemSectors - 1)
    /\ dir = [i \in Entry |-> [inUse |-> FALSE, sector |-> 0, name |-> NoName]]
    /\ header = [s \in FileSector |-> NoHeader]
    /\ data = [s \in FileSector |-> [o \in Offset |-> 0]]
    /\ pending = <<>>
    /\ busy = Nobody
    /\ opened = [n \in Name |-> Closed]
    /\ result = None
    /\ damaged = FALSE

-----------------------------------------------------------------------------
(* BitMap and FileHeader *)

\* The k-th call of Find.
Find(marked, k) ==
    CHOOSE s \in Sector \ marked : Cardinality({r \in Sector \ marked : r < s}) = k - 1

NumClear(marked) == Cardinality(Sector \ marked)

divRoundUp(n, s) == (n + s - 1) \div s

\* A variant that rounds the number of sectors down.
Allocate_RoundsDown(marked, fileSize) ==
    [numBytes |-> fileSize,
     dataSectors |-> [i \in 1..(fileSize \div SectorSize) |-> Find(marked, i)]]

Allocate(marked, fileSize) ==
    [numBytes |-> fileSize,
     dataSectors |-> [i \in 1..divRoundUp(fileSize, SectorSize) |-> Find(marked, i)]]

DataSectors(hdr) == {hdr.dataSectors[i] : i \in DOMAIN hdr.dataSectors}

Deallocate(marked, hdr) == marked \ DataSectors(hdr)

(* Directory *)

Entries(d, name) == {i \in Entry : d[i].inUse /\ d[i].name = name}
FindIndex(d, name) == Min(Entries(d, name))

FreeEntries(d) == {i \in Entry : ~d[i].inUse}
Add(d, name, s) == [d EXCEPT ![Min(FreeEntries(d))] = [inUse |-> TRUE, sector |-> s, name |-> name]]

DirRemove(d, name) == [d EXCEPT ![FindIndex(d, name)].inUse = FALSE]

(* Writing a sector: [to, at, val] *)

\* The directory's first sector ends before the name in entry Straddle.
FirstSectorOf(old, new) ==
    [i \in Entry |-> IF i < Straddle THEN new[i]
                     ELSE IF i = Straddle THEN [new[i] EXCEPT !.name = old[i].name]
                     ELSE old[i]]

WriteMap(m)        == <<[to |-> "map", val |-> m]>>
WriteDir(d)        == <<[to |-> "dir", val |-> FirstSectorOf(dir, d)], [to |-> "dir", val |-> d]>>
WriteHeader(s, h)  == <<[to |-> "header", at |-> s, val |-> h]>>
WriteData(s, b)    == [to |-> "data", at |-> s, val |-> b]

\* The bytes of a header mean nothing in a file.
Junk == [o \in Offset |-> Max(Byte)]

(* OpenFile *)

ByteToSector(hdr, offset) == hdr.dataSectors[(offset \div SectorSize) + 1]

ByteAt(hdr, offset) == data[ByteToSector(hdr, offset)][offset % SectorSize]

\* numBytes, clipped to the file; 0 if the request is empty.
Clip(hdr, numBytes, pos) ==
    IF numBytes <= 0 \/ pos >= hdr.numBytes THEN 0 ELSE Min({numBytes, hdr.numBytes - pos})

ReadAt(hdr, numBytes, pos) ==
    [i \in 1..Clip(hdr, numBytes, pos) |-> ByteAt(hdr, pos + i - 1)]

\* A variant that reads the sector only where the request starts.
Buffer_FirstOnly(hdr, from, numBytes, pos, sector, garbage) ==
    [o \in Offset |->
        LET p == sector * SectorSize + o
        IN  IF p - pos \in 0..(numBytes - 1) THEN from[p - pos + 1]
            ELSE IF p < pos THEN ByteAt(hdr, p)
            ELSE garbage]

\* The buffer that WriteAt fills for the sector'th sector of the file: a sector
\* that is written in part has been read, up to the end of the file.
Buffer(hdr, from, numBytes, pos, sector, garbage) ==
    LET first == pos \div SectorSize
        last  == (pos + numBytes - 1) \div SectorSize
        wasRead == \/ sector = first /\ pos # first * SectorSize
                   \/ sector = last /\ pos + numBytes # (last + 1) * SectorSize
    IN  [o \in Offset |->
            LET p == sector * SectorSize + o
            IN  IF p - pos \in 0..(numBytes - 1) THEN from[p - pos + 1]
                ELSE IF wasRead /\ p < hdr.numBytes THEN ByteAt(hdr, p)
                ELSE garbage]

\* The sectors that WriteAt writes, after clipping numBytes to be positive.
WriteAt(hdr, from, numBytes, pos, garbage) ==
    LET first == pos \div SectorSize
        last  == (pos + numBytes - 1) \div SectorSize
    IN  [i \in 1..(last - first + 1) |->
            WriteData(ByteToSector(hdr, (first + i - 1) * SectorSize),
                      Buffer(hdr, from, numBytes, pos, first + i - 1, garbage))]

-----------------------------------------------------------------------------
Idle == pending = <<>> /\ result = None /\ ~damaged

Returns(ok, bytes) == result' = [ok |-> ok, bytes |-> bytes]

Disk == <<map, dir, header, data>>

\* An operation that writes; Returned is what it will return.
Start(name, writes) ==
    /\ pending' = writes
    /\ busy' = name

Refused ==
    /\ Returns(FALSE, <<>>)
    /\ UNCHANGED <<pending, busy, opened>>

CanCreate(name, initialSize) ==
    /\ Entries(dir, name) = {}
    /\ NumClear(map) > 0
    /\ FreeEntries(dir) # {}
    /\ NumClear(map) - 1 >= divRoundUp(initialSize, SectorSize)

Create(name, initialSize) ==
    /\ Idle
    /\ IF CanCreate(name, initialSize)
       THEN LET sector == Find(map, 1)
                marked == map \cup {sector}
                hdr    == Allocate(marked, initialSize)
            IN  /\ Start(name, WriteHeader(sector, hdr)
                                 \o WriteDir(Add(dir, name, sector))
                                 \o WriteMap(marked \cup DataSectors(hdr)))
                /\ Returns(TRUE, <<>>)
                /\ UNCHANGED opened
       ELSE Refused
    /\ UNCHANGED <<Disk, damaged>>

\* A variant that takes the name from the directory before it frees the sectors.
Remove_DirFirst(name) ==
    /\ Idle
    /\ opened[name] = Closed
    /\ Entries(dir, name) # {}
    /\ LET sector == dir[FindIndex(dir, name)].sector
       IN  Start(name, WriteDir(DirRemove(dir, name))
                        \o WriteMap(Deallocate(map, header[sector]) \ {sector}))
    /\ Returns(TRUE, <<>>)
    /\ UNCHANGED <<Disk, damaged, opened>>

\* A client closes a file before it removes it.
Remove(name) ==
    /\ Idle
    /\ opened[name] = Closed
    /\ IF Entries(dir, name) # {}
       THEN LET sector == dir[FindIndex(dir, name)].sector
            IN  /\ DataSectors(header[sector]) \subseteq map        \* the ASSERT of Deallocate
                /\ Start(name, WriteMap(Deallocate(map, header[sector]) \ {sector})
                                 \o WriteDir(DirRemove(dir, name)))
                /\ Returns(TRUE, <<>>)
                /\ UNCHANGED opened
       ELSE Refused
    /\ UNCHANGED <<Disk, damaged>>

Open(name) ==
    /\ Idle
    /\ opened[name] = Closed
    /\ Cardinality({n \in Name : opened[n] # Closed}) < MaxOpen
    /\ IF Entries(dir, name) # {}
       THEN /\ opened' = [opened EXCEPT ![name] =
                  [hdr |-> header[dir[FindIndex(dir, name)].sector], seekPosition |-> 0]]
            /\ Returns(TRUE, <<>>)
            /\ UNCHANGED <<pending, busy>>
       ELSE Refused
    /\ UNCHANGED <<Disk, damaged>>

Close(name) ==
    /\ Idle
    /\ opened[name] # Closed
    /\ opened' = [opened EXCEPT ![name] = Closed]
    /\ Returns(TRUE, <<>>)
    /\ UNCHANGED <<Disk, damaged, pending, busy>>

Seek(name, pos) ==
    /\ Idle
    /\ opened[name] # Closed
    /\ opened' = [opened EXCEPT ![name].seekPosition = pos]
    /\ Returns(TRUE, <<>>)
    /\ UNCHANGED <<Disk, damaged, pending, busy>>

Read(name, numBytes) ==
    /\ Idle
    /\ opened[name] # Closed
    /\ LET into == ReadAt(opened[name].hdr, numBytes, opened[name].seekPosition)
       IN  /\ Returns(TRUE, into)
           /\ opened' = [opened EXCEPT ![name].seekPosition = @ + Len(into)]
    /\ UNCHANGED <<Disk, damaged, pending, busy>>

Write(name, from) ==
    /\ Idle
    /\ opened[name] # Closed
    /\ LET file     == opened[name]
           numBytes == Clip(file.hdr, Len(from), file.seekPosition)
       IN  /\ Returns(TRUE, <<>>)
           /\ opened' = [opened EXCEPT ![name].seekPosition = @ + numBytes]
           /\ IF numBytes = 0 THEN UNCHANGED <<pending, busy>>
              ELSE \E garbage \in Byte :
                     Start(name, WriteAt(file.hdr, from, numBytes, file.seekPosition, garbage))
    /\ UNCHANGED <<Disk, damaged>>

\* synchDisk->WriteSector
WriteSector ==
    /\ pending # <<>>
    /\ LET w == Head(pending)
       IN  /\ map' = IF w.to = "map" THEN w.val ELSE map
           /\ dir' = IF w.to = "dir" THEN w.val ELSE dir
           /\ header' = IF w.to = "header" THEN [header EXCEPT ![w.at] = w.val]
                        ELSE IF w.to = "data" THEN [header EXCEPT ![w.at] = NoHeader]
                        ELSE header
           /\ data' = IF w.to = "header" THEN [data EXCEPT ![w.at] = Junk]
                      ELSE IF w.to = "data" THEN [data EXCEPT ![w.at] = w.val]
                      ELSE data
    /\ pending' = Tail(pending)
    /\ busy' = IF Len(pending) = 1 THEN Nobody ELSE busy
    /\ UNCHANGED <<opened, result, damaged>>

\* The operation returns to its caller.
Return ==
    /\ pending = <<>> /\ result # None
    /\ result' = None
    /\ UNCHANGED <<Disk, damaged, pending, busy, opened>>

(***************************************************************************)
(* A disk is consistent if the names of the files differ, every entry      *)
(* leads to a header with as many sectors as the length needs, and the     *)
(* bitmap marks exactly the sectors of the system, the headers and their   *)
(* contents, each of which belongs to one owner only.                      *)
(***************************************************************************)
InUse(d) == {i \in Entry : d[i].inUse}

Owned(d, h, i) == {d[i].sector} \cup DataSectors(h[d[i].sector])

Consistent(m, d, h) ==
    /\ \A i \in InUse(d) :
          /\ d[i].sector \in FileSector /\ h[d[i].sector] # NoHeader
          /\ LET hdr == h[d[i].sector]
             IN  /\ Len(hdr.dataSectors) = divRoundUp(hdr.numBytes, SectorSize)
                 /\ Cardinality(Owned(d, h, i)) = 1 + Len(hdr.dataSectors)
                 /\ Owned(d, h, i) \subseteq FileSector
    /\ \A i, j \in InUse(d) : i # j =>
          d[i].name # d[j].name /\ Owned(d, h, i) \cap Owned(d, h, j) = {}
    /\ m = 0..(SystemSectors - 1) \cup UNION {Owned(d, h, i) : i \in InUse(d)}

\* Nachos exits and starts again, with FileSystem(FALSE).
Crash ==
    /\ ~damaged
    /\ pending' = <<>>
    /\ busy' = Nobody
    /\ opened' = [n \in Name |-> Closed]
    /\ result' = None
    /\ damaged' = ~Consistent(map, dir, header)
    /\ UNCHANGED Disk

Next ==
    \/ WriteSector \/ Return \/ Crash
    \/ \E name \in Name :
         \/ Open(name) \/ Close(name) \/ Remove(name)
         \/ \E n \in 0..MaxFileSize : Create(name, n) \/ Seek(name, n)
         \/ \E n \in 1..MaxTransfer : Read(name, n) \/ \E from \in [1..n -> Byte] : Write(name, from)

Spec == Init /\ [][Next]_fsVars

-----------------------------------------------------------------------------
(* The disk with the pending sectors written. *)

WritesTo(what) == {i \in DOMAIN pending : pending[i].to = what}

LogicalMap == IF WritesTo("map") = {} THEN map ELSE pending[Max(WritesTo("map"))].val
LogicalDir == IF WritesTo("dir") = {} THEN dir ELSE pending[Max(WritesTo("dir"))].val

LogicalHeader ==
    [s \in FileSector |->
        LET W == {i \in WritesTo("header") : pending[i].at = s}
        IN  IF W = {} THEN header[s] ELSE pending[Max(W)].val]

LogicalData ==
    [s \in FileSector |->
        LET W == {i \in WritesTo("data") : pending[i].at = s}
        IN  IF W = {} THEN data[s] ELSE pending[Max(W)].val]

(***************************************************************************)
(* Every operation leaves a consistent disk behind ("we simply discard the *)
(* changed version", filesys.cc:28, of one that fails).                    *)
(***************************************************************************)
SectorsExact ==
    /\ TypeOK
    /\ ~damaged => Consistent(LogicalMap, LogicalDir, LogicalHeader)

(***************************************************************************)
(* Whenever Nachos exits, no sector is lost: what the bitmap on the disk   *)
(* marks is the system's or belongs to a file of the directory there.      *)
(***************************************************************************)
NothingLeaks ==
    \A s \in map \ 0..(SystemSectors - 1) : \E i \in InUse(dir) :
        /\ header[dir[i].sector] # NoHeader
        /\ s \in Owned(dir, header, i)

(***************************************************************************)
(* The file system implements Files: an operation takes effect at once,    *)
(* and a crash that leaves the disk consistent undoes or truncates only    *)
(* the operation under way.                                                *)
(***************************************************************************)
Contents(n) ==
    LET hdr == LogicalHeader[LogicalDir[FindIndex(LogicalDir, n)].sector]
    IN  [i \in 1..hdr.numBytes |-> LogicalData[ByteToSector(hdr, i - 1)][(i - 1) % SectorSize]]

FilesThere ==
    [n \in {m \in Name : ~damaged /\ Entries(LogicalDir, m) # {}} |-> Contents(n)]

Positions == [n \in Name |-> IF opened[n] = Closed THEN Closed ELSE opened[n].seekPosition]

F == INSTANCE Files WITH
        files <- FilesThere,
        position <- Positions,
        Capacity <- NumSectors - SystemSectors

ImplementsFiles == F!Spec
=============================================================================
