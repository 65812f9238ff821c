------------------------------- MODULE Lists -------------------------------
(***************************************************************************)
(* The pointers of the two lists everything else keeps its threads,        *)
(* interrupts and packets in: List (threads/list.cc) and lab 1's DLList    *)
(* (1/dllist.cc).  A caller has interrupts disabled or holds a lock, so an *)
(* operation is a step; what happens to lab 2's DLList when it yields in   *)
(* the middle is in module DLList.  An element is its address, which also  *)
(* stands for the item it holds.                                           *)
(***************************************************************************)
EXTENDS Integers, Sequences, FiniteSets, SequencesExt, FiniteSetsExt

CONSTANTS
    Element,    \* the addresses that `new` may return
    NULL,
    MaxKey      \* bound: calls keep the sort keys in -MaxKey .. MaxKey

\* Memory is finite, and `new` does not return NULL.
ASSUME ListsAssumption ==
    IsFiniteSet(Element) /\ NULL \notin Element /\ MaxKey \in Nat

VARIABLES
    list,       \* "List" or "DLList"
    first, last, next, prev, key,
    live,       \* the elements that exist
    returned    \* the item the last call returned, or NULL

listsVars == <<list, first, last, next, prev, key, live, returned>>

Keys == -MaxKey..MaxKey

ListsInit ==
    /\ list \in {"List", "DLList"}
    /\ first = NULL /\ last = NULL
    /\ next = [e \in Element |-> NULL] /\ prev = next
    /\ key = [e \in Element |-> 0]
    /\ live = {} /\ returned = NULL

IsEmpty == first = NULL

\* The elements a walk from first meets.
Chain ==
    LET walk[n \in 0..Cardinality(Element)] ==
            IF n = 0 THEN <<>>
            ELSE LET met == walk[n - 1]
                     e == IF met = <<>> THEN first ELSE next[Last(met)]
                 IN  IF e = NULL THEN met ELSE Append(met, e)
    IN  walk[Cardinality(Element)]

\* Where a loop over ptr->next stops: the first element whose next one passes the test, or the last.
StopsBefore(Test(_)) ==
    LET c == Chain IN c[Min({n \in DOMAIN c : n = Len(c) \/ Test(c[n + 1])})]

New(e, k) ==
    /\ e \notin live
    /\ live' = live \cup {e}
    /\ key' = [key EXCEPT ![e] = k]
    /\ returned' = NULL
    /\ UNCHANGED list

LinkOnly(e) == IsEmpty /\ first' = e /\ last' = e /\ UNCHANGED <<next, prev>>

-----------------------------------------------------------------------------
\* threads/list.cc

LinkLast(e) ==
    /\ next' = [next EXCEPT ![last] = e]
    /\ last' = e
    /\ UNCHANGED <<first, prev>>

LinkFirst(e) ==
    /\ next' = [next EXCEPT ![e] = first]
    /\ first' = e
    /\ UNCHANGED <<last, prev>>

ListAppend(e) ==
    /\ list = "List"
    /\ New(e, 0)
    /\ LinkOnly(e) \/ (~IsEmpty /\ LinkLast(e))

ListPrepend(e) ==
    /\ list = "List"
    /\ New(e, 0)
    /\ LinkOnly(e) \/ (~IsEmpty /\ LinkFirst(e))

\* A variant that puts an item before those with the same key.
ListSortedInsert_Before(e, k) ==
    /\ list = "List"
    /\ New(e, k)
    /\ LET Greater(f) == k <= key[f]
           p == StopsBefore(Greater)
       IN  \/ LinkOnly(e)
           \/ ~IsEmpty /\ k <= key[first] /\ LinkFirst(e)
           \/ ~IsEmpty /\ k > key[first] /\ next[p] = NULL /\ LinkLast(e)
           \/ /\ ~IsEmpty /\ k > key[first] /\ next[p] # NULL
              /\ next' = [next EXCEPT ![e] = next[p], ![p] = e]
              /\ UNCHANGED <<first, last, prev>>

ListSortedInsert(e, k) ==
    /\ list = "List"
    /\ New(e, k)
    /\ LET Greater(f) == k < key[f]
           p == StopsBefore(Greater)
       IN  \/ LinkOnly(e)
           \/ ~IsEmpty /\ k < key[first] /\ LinkFirst(e)
           \/ ~IsEmpty /\ k >= key[first] /\ next[p] = NULL /\ LinkLast(e)
           \/ /\ ~IsEmpty /\ k >= key[first] /\ next[p] # NULL
              /\ next' = [next EXCEPT ![e] = next[p], ![p] = e]
              /\ UNCHANGED <<first, last, prev>>

\* `delete e` and the return of its item; freed memory holds nothing of use.
Delete(e) ==
    /\ live' = live \ {e}
    /\ key' = [key EXCEPT ![e] = 0]
    /\ returned' = e
    /\ UNCHANGED list

\* A variant that leaves last behind when the list gets empty.
ListSortedRemove_KeepsLast ==
    /\ list = "List" /\ ~IsEmpty
    /\ first' = next[first]
    /\ next' = [next EXCEPT ![first] = NULL]
    /\ UNCHANGED <<last, prev>>
    /\ Delete(first)

\* SortedRemove, which takes the front; Remove is a call of it.
ListSortedRemove ==
    /\ list = "List" /\ ~IsEmpty
    /\ \/ first = last /\ first' = NULL /\ last' = NULL
       \/ first # last /\ first' = next[first] /\ UNCHANGED last
    /\ next' = [next EXCEPT ![first] = NULL]
    /\ UNCHANGED prev
    /\ Delete(first)

-----------------------------------------------------------------------------
\* 1/dllist.cc

LinkFront(e) ==
    /\ next' = [next EXCEPT ![e] = first]
    /\ prev' = [prev EXCEPT ![first] = e]
    /\ first' = e
    /\ UNCHANGED last

LinkEnd(e) ==
    /\ next' = [next EXCEPT ![last] = e]
    /\ prev' = [prev EXCEPT ![e] = last]
    /\ last' = e
    /\ UNCHANGED first

LinkBehind(e, p) ==
    /\ next' = [next EXCEPT ![e] = next[p], ![p] = e]
    /\ prev' = [prev EXCEPT ![e] = p, ![next[p]] = e]
    /\ UNCHANGED <<first, last>>

\* The new element gets a key less than all, or greater than all.
DLPrepend(e) ==
    /\ list = "DLList"
    /\ New(e, IF IsEmpty THEN 0 ELSE key[first] - 1)
    /\ LinkOnly(e) \/ (~IsEmpty /\ LinkFront(e))
    /\ key'[e] \in Keys

DLAppend(e) ==
    /\ list = "DLList"
    /\ New(e, IF IsEmpty THEN 0 ELSE key[last] + 1)
    /\ LinkOnly(e) \/ (~IsEmpty /\ LinkEnd(e))
    /\ key'[e] \in Keys

DLSortedInsert(e, k) ==
    /\ list = "DLList"
    /\ New(e, k)
    /\ LET AtLeast(f) == key[f] >= k
           p == StopsBefore(AtLeast)
       IN  \/ LinkOnly(e)
           \/ ~IsEmpty /\ k <= key[first] /\ LinkFront(e)
           \/ ~IsEmpty /\ k > key[first] /\ next[p] # NULL /\ LinkBehind(e, p)
           \/ ~IsEmpty /\ k > key[first] /\ next[p] = NULL /\ LinkEnd(e)

\* The four cases of SortedRemove; Remove has the first two.
Unlink(p) ==
    \/ /\ first = last
       /\ first' = NULL /\ last' = NULL
       /\ UNCHANGED <<next, prev>>
    \/ /\ first # last /\ p = first
       /\ first' = next[first]
       /\ prev' = [prev EXCEPT ![next[p]] = NULL]
       /\ next' = [next EXCEPT ![p] = NULL]
       /\ UNCHANGED last
    \/ /\ first # last /\ p # first /\ p = last
       /\ last' = prev[last]
       /\ next' = [next EXCEPT ![prev[p]] = NULL]
       /\ prev' = [prev EXCEPT ![p] = NULL]
       /\ UNCHANGED first
    \/ /\ p \notin {first, last}
       /\ next' = [next EXCEPT ![prev[p]] = next[p], ![p] = NULL]
       /\ prev' = [prev EXCEPT ![next[p]] = prev[p], ![p] = NULL]
       /\ UNCHANGED <<first, last>>

DLRemove ==
    /\ list = "DLList" /\ ~IsEmpty
    /\ Unlink(first)
    /\ Delete(first)

DLSortedRemove(k) ==
    /\ list = "DLList"
    /\ LET c == Chain IN \E n \in DOMAIN c :
        /\ key[c[n]] = k
        /\ \A m \in 1..(n - 1) : key[c[m]] # k
        /\ Unlink(c[n])
        /\ Delete(c[n])

-----------------------------------------------------------------------------
\* A call that finds the list empty, or no element with the key.
Nothing ==
    /\ \/ IsEmpty
       \/ list = "DLList" /\ Keys # {key[e] : e \in ToSet(Chain)}
    /\ returned' = NULL
    /\ UNCHANGED <<list, first, last, next, prev, key, live>>

\* The destructors remove element after element; the next list is a new one.
Destroy ==
    /\ first' = NULL /\ last' = NULL
    /\ next' = [e \in Element |-> NULL] /\ prev' = next'
    /\ key' = [e \in Element |-> 0]
    /\ live' = live \ ToSet(Chain) /\ returned' = NULL
    /\ UNCHANGED list

ListsNext ==
    \/ \E e \in Element :
        \/ ListAppend(e) \/ ListPrepend(e) \/ DLPrepend(e) \/ DLAppend(e)
        \/ \E k \in Keys : ListSortedInsert(e, k) \/ DLSortedInsert(e, k)
    \/ ListSortedRemove \/ DLRemove \/ \E k \in Keys : DLSortedRemove(k)
    \/ Nothing \/ Destroy

-----------------------------------------------------------------------------
(***************************************************************************)
(* After any sequence of calls the elements that exist are those of the    *)
(* chain, each once, last is the end of it, lab 1's list has the same      *)
(* chain backwards, and its keys, made up or given, are in order.          *)
(***************************************************************************)
ChainIntact ==
    LET c == Chain
    IN  /\ live = ToSet(c) /\ Cardinality(live) = Len(c)
        /\ last = IF c = <<>> THEN NULL ELSE Last(c)
        /\ list = "DLList" =>
            \A n \in DOMAIN c :
                /\ prev[c[n]] = IF n = 1 THEN NULL ELSE c[n - 1]
                /\ n > 1 => key[c[n - 1]] <= key[c[n]]

ItemsWithKeys == LET c == Chain IN [n \in DOMAIN c |-> [item |-> c[n], key |-> key[c[n]]]]

Sequence == INSTANCE Queue WITH
    Item <- Element, Behind <- list = "List", result <- returned,
    items <- ItemsWithKeys

(***************************************************************************)
(* Either list is the sequence of module Queue: FIFO among equal keys,     *)
(* which the order of interrupts and wake-ups relies on, in List, and LIFO *)
(* in lab 1's.                                                             *)
(***************************************************************************)
ImplementsQueue == Sequence!Spec
=============================================================================
