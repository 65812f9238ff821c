-------------------------------- MODULE Table --------------------------------
(***************************************************************************)
(* Lab 2's table (2/Table.cc) with its test, TableThread of                *)
(* 2/threadtest.cc: each thread allocates N entries and then releases them *)
(* in the opposite order.  What a thread puts into the table is a pointer  *)
(* to a variable of its own, here the thread.                              *)
(***************************************************************************)
EXTENDS LockUser, Integers, Sequences, Functions

CONSTANTS
    table_size,
    N           \* entries that each thread allocates

ASSUME TableAssumption == table_size \in Nat /\ N \in Nat

VARIABLES
    table,      \* the object in each entry; the code leaves entry 0 unused
    num,        \* what Alloc has returned to each thread
    entry,      \* the loop's i, kept across Yield()
    asserted    \* ASSERT(index > 0 && index <= table_size) has failed

tableVars == <<table, num, entry, asserted>>

\* What the loop of Alloc goes through and the assertions of Get and Release
\* accept; Table.h:5-7 names the entries 0..size-1 instead.
Index == 1..table_size

\* out         between calls, allocating
\* search      in Alloc, after Acquire
\* found       in Alloc, in Yield()
\* free        between calls, releasing
\* clear       in Release, in Yield()
TablePC == {"out", "search", "found", "free", "clear"}

TableTypeOK ==
    /\ table \in [Index -> Thread \cup {NoThread}]
    /\ num \in [Thread -> Seq(Index \cup {-1})] /\ \A t \in Thread : Len(num[t]) <= N
    /\ entry \in [Thread -> Nat]
    /\ asserted \in BOOLEAN

TableInit ==
    /\ table = [i \in Index |-> NoThread]
    /\ num = [t \in Thread |-> <<>>]
    /\ entry = [t \in Thread |-> 1]
    /\ asserted = FALSE

-----------------------------------------------------------------------------
AllocCall(t) ==
    /\ Len(num[t]) < N
    /\ Go(t, "out", "search")
    /\ Acquire(t)
    /\ UNCHANGED tableVars

IsFirstFree(i) ==
    table[i] = NoThread /\ \A j \in Index : j < i => table[j] # NoThread

AllocFind(t) ==
    \E i \in Index :
        /\ IsFirstFree(i)
        /\ Go(t, "search", "found")
        /\ entry' = [entry EXCEPT ![t] = i]
        /\ UNCHANGED <<holder, table, num, asserted>>

\* No entry is free: Alloc returns -1.
AllocFail(t) ==
    /\ \A i \in Index : table[i] # NoThread
    /\ Go(t, "search", "out")
    /\ num' = [num EXCEPT ![t] = Append(@, -1)]
    /\ Release
    /\ UNCHANGED <<table, entry, asserted>>

\* A variant of Alloc that releases the lock before it yields.
AllocStore_Unlocked(t) ==
    \/ /\ holder = t
       /\ Release
       /\ UNCHANGED <<pc, tableVars>>
    \/ /\ holder # t
       /\ Go(t, "found", "out")
       /\ table' = [table EXCEPT ![entry[t]] = t]
       /\ num' = [num EXCEPT ![t] = Append(@, entry[t])]
       /\ UNCHANGED <<holder, entry, asserted>>

AllocStore(t) ==
    /\ Go(t, "found", "out")
    /\ table' = [table EXCEPT ![entry[t]] = t]
    /\ num' = [num EXCEPT ![t] = Append(@, entry[t])]
    /\ Release
    /\ UNCHANGED <<entry, asserted>>

StartFreeing(t) ==
    /\ Len(num[t]) = N
    /\ Go(t, "out", "free")
    /\ UNCHANGED <<holder, tableVars>>

LastNum(t) == num[t][Len(num[t])]

\* Get and Release of an entry.
ReleaseCall(t) ==
    /\ num[t] # <<>> /\ LastNum(t) \in Index
    /\ Go(t, "free", "clear")
    /\ Acquire(t)
    /\ UNCHANGED tableVars

\* The assertion of Get: TableThread does not look whether Alloc returned -1.
GetAssert(t) ==
    /\ num[t] # <<>> /\ LastNum(t) \notin Index
    /\ pc[t] = "free"
    /\ asserted' = TRUE
    /\ UNCHANGED <<userVars, table, num, entry>>

ReleaseClear(t) ==
    /\ Go(t, "clear", "free")
    /\ table' = [table EXCEPT ![LastNum(t)] = NoThread]
    /\ num' = [num EXCEPT ![t] = SubSeq(@, 1, Len(@) - 1)]
    /\ Release
    /\ UNCHANGED <<entry, asserted>>

TableNext ==
    \E t \in Thread :
        /\ ~asserted
        /\ \/ AllocCall(t) \/ AllocFind(t) \/ AllocFail(t) \/ AllocStore(t)
           \/ StartFreeing(t) \/ ReleaseCall(t) \/ GetAssert(t) \/ ReleaseClear(t)

-----------------------------------------------------------------------------
(***************************************************************************)
(* An entry holds a thread's object exactly while that thread has been     *)
(* given its index and has not released it, and no index is given twice:   *)
(* Get, which takes no lock, returns the caller's own object.  The indexes *)
(* are those of Table.cc, 1 to the size of the table: a client that takes  *)
(* Table.h at its word would look for one more below and none at the top.  *)
(***************************************************************************)
TableExact ==
    /\ TableTypeOK
    /\ \A i \in Index, t \in Thread : table[i] = t <=> i \in Range(num[t])
    /\ \A t \in Thread : \A i, j \in DOMAIN num[t] :
           num[t][i] = num[t][j] /\ num[t][i] # -1 => i = j
=============================================================================
