------------------------------- MODULE DLList -------------------------------
(***************************************************************************)
(* The doubly linked list of labs 1 and 2 (2/dllist.cc; 1/dllist.cc is the *)
(* same without the lock) with the loops that lab 2 tests it with          *)
(* (2/dllist-driver.cc): each thread inserts NumInsert keys (generateN)    *)
(* and then removes NumRemove (removeN).  DLListThread makes both numbers  *)
(* N, and then no Remove ever finds the list empty, because a thread takes *)
(* out no more than it has put in; a client may as well take more.         *)
(*                                                                         *)
(* err_type selects one place where the list yields in the middle of an    *)
(* operation.                                                              *)
(***************************************************************************)
EXTENDS LockUser, Naturals, FiniteSets

CONSTANTS
    Elem,       \* addresses that `new DLLElement` may return
    NULL,
    Key,
    NumInsert, NumRemove     \* the argument of generateN and of removeN

ASSUME ListAssumption ==
    /\ IsFiniteSet(Elem) /\ NULL \notin Elem
    /\ Key \subseteq Nat /\ Key # {} /\ {NumInsert, NumRemove} \subseteq Nat

VARIABLES
    err_type,
    first, last,
    next, prev, key,    \* the fields of each element
    live,               \* the elements that exist
    element,            \* the element a thread inserts or removes
    place,              \* SortedInsert's p, kept across Yield()
    inserted, removed   \* how many calls each thread has made

listVars == <<err_type, first, last, next, prev, key, live, element, place, inserted, removed>>

\* out         between calls, inserting
\* insert      in SortedInsert, after Acquire
\* insEmpty, insFront, insMiddle: in its Yield() number 2, 3 and 4
\* signalled   in SortedInsert, between Signal and Release
\* free        between calls, removing
\* toRemove    asleep in Remove's Acquire
\* remove      in Remove, after Acquire
\* remFirst, remNext: in its Yield() number 1 and 5
\* done        DLListThread has returned
ListPC == {"out", "insert", "insEmpty", "insFront", "insMiddle", "signalled",
           "free", "toRemove", "remove", "remFirst", "remNext", "done"}

Pointer == Elem \cup {NULL}

ListTypeOK ==
    /\ err_type \in 0..5
    /\ first \in Pointer /\ last \in Pointer
    /\ next \in [Elem -> Pointer] /\ prev \in [Elem -> Pointer]
    /\ key \in [Elem -> Key]
    /\ live \subseteq Elem
    /\ element \in [Thread -> Pointer] /\ place \in [Thread -> Pointer]
    /\ inserted \in [Thread -> 0..NumInsert]
    /\ removed \in [Thread -> 0..NumRemove]

ListInit ==
    /\ err_type \in 0..5
    /\ first = NULL /\ last = NULL
    /\ next = [e \in Elem |-> NULL] /\ prev = [e \in Elem |-> NULL]
    /\ key = [e \in Elem |-> CHOOSE k \in Key : TRUE]
    /\ live = {}
    /\ element = [t \in Thread |-> NULL] /\ place = [t \in Thread |-> NULL]
    /\ inserted = [t \in Thread |-> 0] /\ removed = [t \in Thread |-> 0]

IsEmpty == first = NULL

-----------------------------------------------------------------------------
\* SortedInsert.

\* new DLLElement(item, sortKey)
New(k, e) ==
    /\ live' = live \cup {e}
    /\ key' = [key EXCEPT ![e] = k]

\* listEmpty->Signal(lock), on which nobody ever waits (see RemoveEmpty), ...
InsertSignal(t) ==
    /\ element' = [element EXCEPT ![t] = NULL]
    /\ place' = [place EXCEPT ![t] = NULL]
    /\ UNCHANGED <<holder, err_type, inserted, removed>>

\* ... and the Release at the end of the call.
InsertReturn(t) ==
    /\ Go(t, "signalled", "out")
    /\ Release
    /\ inserted' = [inserted EXCEPT ![t] = @ + 1]
    /\ UNCHANGED <<err_type, first, last, next, prev, key, live, element, place, removed>>

LinkOnly(e) == first' = e /\ last' = e /\ UNCHANGED <<next, prev>>

LinkFront(e) ==
    /\ next' = [next EXCEPT ![e] = first]
    /\ prev' = [prev EXCEPT ![first] = e]
    /\ first' = e
    /\ UNCHANGED last

\* A variant that does not set the prev pointer of the element behind.
LinkMiddle_OneWay(e, p) ==
    /\ next' = [next EXCEPT ![e] = next[p], ![p] = e]
    /\ prev' = [prev EXCEPT ![e] = p]
    /\ UNCHANGED <<first, last>>

LinkMiddle(e, p) ==
    /\ next' = [next EXCEPT ![e] = next[p], ![p] = e]
    /\ prev' = [prev EXCEPT ![e] = p, ![next[p]] = e]
    /\ UNCHANGED <<first, last>>

LinkEnd(e, p) ==
    /\ next' = [next EXCEPT ![p] = e]
    /\ prev' = [prev EXCEPT ![e] = p]
    /\ last' = e
    /\ UNCHANGED first

InsertCall(t) ==
    /\ inserted[t] < NumInsert
    /\ Go(t, "out", "insert")
    /\ Acquire(t)
    /\ UNCHANGED listVars

\* p is where the loop of SortedInsert stops for key k: the first element
\* whose next one is missing or has at least this key.
StopsAt(p, k) ==
    /\ p \in live
    /\ next[p] # NULL => key[next[p]] >= k
    /\ \A q \in live \ {p} : next[q] # NULL /\ key[next[q]] >= k => key[q] >= k

\* The branch that SortedInsert takes for an element e with key k, when
\* err_type does not make it yield there.
InsertNow(t, e, k) ==
    /\ \/ IsEmpty /\ err_type # 2 /\ LinkOnly(e)
       \/ ~IsEmpty /\ k <= key[first] /\ err_type # 3 /\ LinkFront(e)
       \/ /\ ~IsEmpty /\ k > key[first]
          /\ \E p \in live :
                /\ StopsAt(p, k)
                /\ \/ next[p] # NULL /\ err_type # 4 /\ LinkMiddle(e, p)
                   \/ next[p] = NULL /\ LinkEnd(e, p)
    /\ Go(t, "insert", "signalled")
    /\ InsertSignal(t)

\* The same when it yields: it keeps what it has read.
InsertYields(t, e, k) ==
    /\ \/ /\ IsEmpty /\ err_type = 2
          /\ Go(t, "insert", "insEmpty")
          /\ UNCHANGED <<next, place>>
       \/ /\ ~IsEmpty /\ k <= key[first] /\ err_type = 3
          /\ Go(t, "insert", "insFront")
          /\ next' = [next EXCEPT ![e] = first]
          /\ UNCHANGED place
       \/ /\ ~IsEmpty /\ k > key[first] /\ err_type = 4
          /\ Go(t, "insert", "insMiddle")
          /\ \E p \in live :
                /\ StopsAt(p, k) /\ next[p] # NULL
                /\ place' = [place EXCEPT ![t] = p]
          /\ UNCHANGED next
    /\ element' = [element EXCEPT ![t] = e]
    /\ UNCHANGED <<holder, err_type, first, last, prev, inserted, removed>>

\* `new` may return any free address; the one chosen here loses nothing, since
\* nothing depends on the order of addresses.  bound: memory never runs out.
Insert(t) ==
    /\ pc[t] = "insert" /\ live # Elem
    /\ \E k \in Key :
          LET e == CHOOSE x \in Elem \ live : TRUE
          IN  New(k, e) /\ (InsertNow(t, e, k) \/ InsertYields(t, e, k))

\* After the Yield() of err_type 2, 3 or 4.
InsertResume(t) ==
    /\ \/ Go(t, "insEmpty", "signalled") /\ LinkOnly(element[t])
       \/ Go(t, "insFront", "signalled") /\ LinkFront(element[t])
       \/ Go(t, "insMiddle", "signalled") /\ LinkMiddle(element[t], place[t])
    /\ InsertSignal(t)
    /\ UNCHANGED <<key, live>>

-----------------------------------------------------------------------------
\* Remove.

StartRemoving(t) ==
    /\ inserted[t] = NumInsert
    /\ Go(t, "out", "free")
    /\ UNCHANGED <<holder, listVars>>

\* removeN tests IsEmpty() without the lock, stops on an empty list ...
RemoveEnd(t) ==
    /\ IsEmpty \/ removed[t] = NumRemove
    /\ Go(t, "free", "done")
    /\ UNCHANGED <<holder, listVars>>

\* ... and else calls Remove, which gets the lock at once or goes to sleep.
RemoveTest(t) ==
    /\ ~IsEmpty /\ removed[t] < NumRemove
    /\ \/ Go(t, "free", "remove") /\ Acquire(t)
       \/ Go(t, "free", "toRemove") /\ holder # NoThread /\ UNCHANGED holder
    /\ UNCHANGED listVars

RemoveCall(t) ==
    /\ Go(t, "toRemove", "remove")
    /\ Acquire(t)
    /\ UNCHANGED listVars

\* The list has become empty: Remove returns NULL with the lock held, and so
\* its loop that waits on listEmpty is never reached with an empty list.
RemoveEmpty(t) ==
    /\ IsEmpty
    /\ Go(t, "remove", "free")
    /\ removed' = [removed EXCEPT ![t] = @ + 1]
    /\ UNCHANGED <<holder, err_type, first, last, next, prev, key, live, element, place, inserted>>

\* `delete element` and the Release at the end of the call.
RemoveReturn(t, e) ==
    /\ live' = live \ {e}
    /\ key' = [key EXCEPT ![e] = CHOOSE k \in Key : TRUE]
    /\ next' = [next EXCEPT ![e] = NULL]
    /\ removed' = [removed EXCEPT ![t] = @ + 1]
    /\ element' = [element EXCEPT ![t] = NULL]
    /\ Release
    /\ UNCHANGED <<err_type, place, inserted>>

\* first->next->prev = NULL; first = first->next; and e is deleted.
UnlinkFirst(e) ==
    /\ first' = next[first]
    /\ prev' = [prev EXCEPT ![next[first]] = NULL, ![e] = NULL]
    /\ UNCHANGED last

UnlinkOnly(e) == first' = NULL /\ last' = NULL /\ UNCHANGED prev

\* From the test of first == last: the last element, or one of several.
RemoveRest(t, e, here) ==
    \/ /\ first = last
       /\ Go(t, here, "free") /\ UnlinkOnly(e) /\ RemoveReturn(t, e)
    \/ /\ first # last /\ err_type # 5
       /\ Go(t, here, "free") /\ UnlinkFirst(e) /\ RemoveReturn(t, e)
    \/ /\ first # last /\ err_type = 5
       /\ Go(t, here, "remNext")
       /\ element' = [element EXCEPT ![t] = e]
       /\ UNCHANGED <<holder, err_type, first, last, next, prev, key, live, place, inserted, removed>>

Remove(t) ==
    \/ /\ ~IsEmpty /\ err_type # 1
       /\ RemoveRest(t, first, "remove")
    \/ /\ ~IsEmpty /\ err_type = 1
       /\ Go(t, "remove", "remFirst")
       /\ element' = [element EXCEPT ![t] = first]
       /\ UNCHANGED <<holder, err_type, first, last, next, prev, key, live, place, inserted, removed>>

\* After the Yield() of err_type 1 or 5.
RemoveResume(t) ==
    \/ RemoveRest(t, element[t], "remFirst")
    \/ /\ Go(t, "remNext", "free")
       /\ UnlinkFirst(element[t])
       /\ RemoveReturn(t, element[t])

ListNext ==
    \E t \in Thread :
        \/ InsertCall(t) \/ Insert(t) \/ InsertResume(t) \/ InsertReturn(t)
        \/ StartRemoving(t) \/ RemoveEnd(t) \/ RemoveTest(t) \/ RemoveCall(t)
        \/ RemoveEmpty(t) \/ Remove(t) \/ RemoveResume(t)

-----------------------------------------------------------------------------
(***************************************************************************)
(* While nobody is in the middle of an operation, whatever err_type: the   *)
(* elements that exist are exactly those that a walk from first along next *)
(* finds, none is lost and none deleted is left; they are linked in both   *)
(* directions and sorted by key.                                           *)
(***************************************************************************)
InOperation(t) == pc[t] \in {"insEmpty", "insFront", "insMiddle", "remFirst", "remNext"}

Walk[n \in 0..Cardinality(Elem)] ==
    IF n = 0 THEN {first} \ {NULL}
    ELSE Walk[n - 1] \cup ({next[e] : e \in Walk[n - 1]} \ {NULL})

ListIntact ==
    /\ ListTypeOK
    /\ (\A t \in Thread : ~InOperation(t)) =>
          /\ first = NULL <=> last = NULL
          /\ live = Walk[Cardinality(Elem)]
          /\ ~IsEmpty => {first, last} \subseteq live /\ prev[first] = NULL /\ next[last] = NULL
          /\ \A e \in live :
                /\ e = last \/ (next[e] \in live /\ prev[next[e]] = e /\ key[e] <= key[next[e]])
                /\ e = first \/ (prev[e] \in live /\ next[prev[e]] = e)

(***************************************************************************)
(* "while (IsEmpty()) listEmpty->Wait(lock)" (dllist.cc:76): a Remove of   *)
(* an empty list waits with the lock released.  A thread that is between   *)
(* two calls does not hold the lock.                                       *)
(***************************************************************************)
LockReturned == \A t \in Thread : pc[t] \in {"out", "free", "done"} => holder # t
=============================================================================
