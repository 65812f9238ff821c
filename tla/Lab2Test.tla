------------------------------ MODULE Lab2Test ------------------------------
(***************************************************************************)
(* ThreadTest of 2/threadtest.cc: testnum selects the list, the table or   *)
(* the bounded buffer for the threads to use.                              *)
(***************************************************************************)
EXTENDS BoundedBuffer, Table, DLList

VARIABLE testnum

vars == <<userVars, testnum, listVars, tableVars, bufferVars>>

Init ==
    /\ UserInit
    /\ testnum \in 2..4
    /\ ListInit /\ TableInit /\ BufferInit

ThreadTest2 == testnum = 2 /\ ListNext /\ UNCHANGED <<testnum, tableVars, bufferVars>>
ThreadTest3 == testnum = 3 /\ TableNext /\ UNCHANGED <<testnum, listVars, bufferVars>>
ThreadTest4 == testnum = 4 /\ BufferNext /\ UNCHANGED <<testnum, listVars, tableVars>>

Next == ThreadTest2 \/ ThreadTest3 \/ ThreadTest4

Spec == Init /\ [][Next]_vars
=============================================================================
