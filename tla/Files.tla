------------------------------- MODULE Files --------------------------------
(***************************************************************************)
(* What the file system of filesys/filesys.h promises its client: a set    *)
(* of named files of a fixed length, and, of a crash, that it harms no     *)
(* file but the one an operation was changing.  "It may corrupt the disk"  *)
(* (filesys.cc:40): a damaged disk keeps no promise.                       *)
(***************************************************************************)
EXTENDS Integers, Sequences, FiniteSets

CONSTANTS
    Name,
    Byte,
    SectorSize,
    MaxFileSize,
    NumDirEntries,
    Capacity,       \* sectors for the headers and the contents of files
    MaxTransfer,    \* bound: bytes of one Read or Write
    Nobody, Closed, None

VARIABLES
    files,          \* the contents of each file there is
    position,       \* of each open file its seekPosition, or else Closed
    busy,           \* the file that the last operation may still be changing
    damaged,        \* a crash has damaged the disk
    result          \* what an operation is about to return, or None

fileVars == <<position, busy, damaged, result, files>>

NumSectorsOf(length) == (length + SectorSize - 1) \div SectorSize

\* The sectors in use: of each file the header, number 0, and its contents.
Taken == UNION {{n} \X (0..NumSectorsOf(Len(files[n]))) : n \in DOMAIN files}

\* The directory and the sectors are limited.
HasRoomFor(length) ==
    /\ Cardinality(DOMAIN files) < NumDirEntries
    /\ Cardinality(Taken) + 1 + NumSectorsOf(length) <= Capacity

IsOpen(n) == position[n] # Closed

\* What is left of a transfer of k bytes after clipping it to the file.
Clip(n, k) == IF position[n] + k > Len(files[n]) THEN Len(files[n]) - position[n] ELSE k
IsEmpty(n, k) == k <= 0 \/ position[n] >= Len(files[n])

Returns(ok, bytes) == result' = [ok |-> ok, bytes |-> bytes]

-----------------------------------------------------------------------------
Init ==
    /\ files = [n \in {} |-> <<>>]
    /\ position = [n \in Name |-> Closed]
    /\ busy = Nobody
    /\ damaged = FALSE
    /\ result = None

Create(n, length) ==
    /\ UNCHANGED position
    /\ IF n \notin DOMAIN files /\ HasRoomFor(length)
       THEN /\ busy' = n
            /\ Returns(TRUE, <<>>)
            /\ \E content \in [1..length -> Byte] :
                 files' = [m \in DOMAIN files \cup {n} |-> IF m = n THEN content ELSE files[m]]
       ELSE /\ Returns(FALSE, <<>>)
            /\ UNCHANGED <<busy, files>>

Remove(n) ==
    /\ ~IsOpen(n)
    /\ UNCHANGED position
    /\ busy' = IF n \in DOMAIN files THEN n ELSE Nobody
    /\ Returns(n \in DOMAIN files, <<>>)
    /\ files' = [m \in DOMAIN files \ {n} |-> files[m]]

Open(n) ==
    /\ ~IsOpen(n)
    /\ Returns(n \in DOMAIN files, <<>>)
    /\ position' = [position EXCEPT ![n] = IF n \in DOMAIN files THEN 0 ELSE Closed]
    /\ UNCHANGED <<busy, files>>

Close(n) ==
    /\ IsOpen(n)
    /\ position' = [position EXCEPT ![n] = Closed]
    /\ Returns(TRUE, <<>>)
    /\ UNCHANGED <<busy, files>>

Seek(n, p) ==
    /\ IsOpen(n)
    /\ position' = [position EXCEPT ![n] = p]
    /\ Returns(TRUE, <<>>)
    /\ UNCHANGED <<busy, files>>

Read(n, k) ==
    /\ IsOpen(n)
    /\ IF IsEmpty(n, k)
       THEN Returns(TRUE, <<>>) /\ UNCHANGED position
       ELSE /\ Returns(TRUE, SubSeq(files[n], position[n] + 1, position[n] + Clip(n, k)))
            /\ position' = [position EXCEPT ![n] = @ + Clip(n, k)]
    /\ UNCHANGED <<busy, files>>

Write(n, bytes) ==
    /\ IsOpen(n)
    /\ Returns(TRUE, <<>>)
    /\ IF IsEmpty(n, Len(bytes))
       THEN UNCHANGED <<position, busy, files>>
       ELSE LET k == Clip(n, Len(bytes))
            IN  /\ position' = [position EXCEPT ![n] = @ + k]
                /\ busy' = n
                /\ files' = [files EXCEPT ![n] = [i \in DOMAIN @ |->
                       IF i - position[n] \in 1..k THEN bytes[i - position[n]] ELSE @[i]]]

\* The last sector of the operation is on the disk.
Completed ==
    /\ busy' = Nobody
    /\ UNCHANGED <<position, result, files>>

Return ==
    /\ busy = Nobody
    /\ result' = None
    /\ UNCHANGED <<position, busy, files>>

\* Nachos exits and is started again.
Crash ==
    /\ busy' = Nobody
    /\ position' = [n \in Name |-> Closed]
    /\ result' = None
    /\ ~damaged' => \A n \in Name \ {busy} :
           /\ n \in DOMAIN files' <=> n \in DOMAIN files
           /\ n \in DOMAIN files => files'[n] = files[n]
    /\ ~damaged' => \A n \in DOMAIN files \cap DOMAIN files' : Len(files'[n]) = Len(files[n])

Next ==
    /\ ~damaged
    /\ \/ Crash
       \/ /\ damaged' = damaged
          /\ \/ Completed
             \/ Return
             \/ /\ result = None
                /\ \E n \in Name :
                     \/ Open(n) \/ Close(n) \/ Remove(n)
                     \/ \E length \in 0..MaxFileSize : Create(n, length) \/ Seek(n, length)
                     \/ \E k \in 1..MaxTransfer : Read(n, k)
                     \/ \E k \in 1..MaxTransfer : \E bytes \in [1..k -> Byte] : Write(n, bytes)

Spec == Init /\ [][Next]_fileVars
=============================================================================
