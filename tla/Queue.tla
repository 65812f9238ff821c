------------------------------- MODULE Queue -------------------------------
(***************************************************************************)
(* What the lists of threads/list.h and 1/dllist.h promise: a sequence of  *)
(* items with their sort keys.  Sorted insertion puts an item before the   *)
(* first one with a greater key; the lists differ in what they do with     *)
(* equal keys, which is the parameter Behind.                              *)
(***************************************************************************)
EXTENDS Integers, Sequences, SequencesExt, FiniteSetsExt

CONSTANTS
    Item,
    MaxKey,     \* bound: the sort keys are -MaxKey .. MaxKey
    NULL

VARIABLES
    Behind,     \* whether an item goes behind those with its key
    items,      \* [item, key] from the front on
    result      \* what the last operation has returned: an item, or NULL

queueVars == <<Behind, items, result>>

Init == Behind \in BOOLEAN /\ items = <<>> /\ result = NULL

\* The list with a new item in front, at the end, or at its place by the key.
Added(list) ==
    LET new == [item : Item \ {list[n].item : n \in DOMAIN list}, key : -MaxKey..MaxKey]
        later(e) == {n \in DOMAIN list : list[n].key > e.key \/ (~Behind /\ list[n].key = e.key)}
    IN  UNION {{<<e>> \o list, Append(list, e), InsertAt(list, Min(later(e) \cup {Len(list) + 1}), e)} :
               e \in new}

Add == result' = NULL /\ items' \in Added(items)

Take(n) == items' = RemoveAt(items, n) /\ result' = items[n].item

\* The first item, or the first with a certain key.
TakeOne ==
    \/ items # <<>> /\ Take(1)
    \/ \E n \in DOMAIN items : (\A m \in 1..(n - 1) : items[m].key # items[n].key) /\ Take(n)

Fail == result' = NULL /\ UNCHANGED items
Destroy == items' = <<>> /\ result' = NULL

Next == (Add \/ TakeOne \/ Fail \/ Destroy) /\ UNCHANGED Behind

Spec == Init /\ [][Next]_queueVars
=============================================================================
