---------------------------- MODULE EventBarrier ----------------------------
(***************************************************************************)
(* Lab 3's EventBarrier (3/EventBarrier.cc): a family of barriers, each    *)
(* with a lock and three conditions.  The lock's critical sections are     *)
(* atomic for other users of the barrier (AtMostOneInside and              *)
(* ImplementsMonitor in Synch), so a step is the code from Acquire to the  *)
(* next Wait on a condition or to Release.  A thread woken from a          *)
(* condition runs its next section whenever it gets the lock again.        *)
(***************************************************************************)
EXTENDS Naturals, FiniteSets

CONSTANTS
    Thread,
    Id,         \* the barriers
    SIGNALED, UNSIGNALED

ASSUME StatusAssumption == SIGNALED # UNSIGNALED

VARIABLES
    barrierStatus,  \* status of each barrier
    waiter_num,     \* threads that have called Wait and not yet Complete
    con_wait, con_signal, con_complete,   \* threads asleep on each condition
    pc,             \* where each thread is in the barrier's operations
    at              \* the barrier each thread uses, or used last

barrierVars == <<barrierStatus, waiter_num, con_wait, con_signal, con_complete, pc, at>>

\* out         outside, or back from Complete or Signal
\* inWait      in Wait, in con_wait->Wait(lock)
\* passed      back from Wait, Complete not yet called
\* inComplete  in Complete, in con_complete->Wait(lock)
\* inSignal    in Signal, in con_signal->Wait(lock)
PC == {"out", "inWait", "passed", "inComplete", "inSignal"}

BarrierTypeOK ==
    /\ barrierStatus \in [Id -> {SIGNALED, UNSIGNALED}]
    /\ waiter_num \in [Id -> Nat]
    /\ con_wait \in [Id -> SUBSET Thread]
    /\ con_signal \in [Id -> SUBSET Thread]
    /\ con_complete \in [Id -> SUBSET Thread]
    /\ pc \in [Thread -> PC]
    /\ at \in [Thread -> Id]

BarrierInit ==
    /\ barrierStatus = [b \in Id |-> UNSIGNALED]
    /\ waiter_num = [b \in Id |-> 0]
    /\ con_wait = [b \in Id |-> {}]
    /\ con_signal = [b \in Id |-> {}]
    /\ con_complete = [b \in Id |-> {}]
    /\ pc = [t \in Thread |-> "out"]
    /\ at = [t \in Thread |-> CHOOSE b \in Id : TRUE]

Go(t, b, from, to) ==
    /\ pc[t] = from
    /\ pc' = [pc EXCEPT ![t] = to]
    /\ at' = [at EXCEPT ![t] = b]

-----------------------------------------------------------------------------
\* EventBarrier::Wait up to its return or its sleep.
WaitCall(t, b) ==
    /\ waiter_num' = [waiter_num EXCEPT ![b] = @ + 1]
    /\ \/ /\ barrierStatus[b] = SIGNALED
          /\ Go(t, b, "out", "passed")
          /\ UNCHANGED con_wait
       \/ /\ barrierStatus[b] = UNSIGNALED
          /\ Go(t, b, "out", "inWait")
          /\ con_wait' = [con_wait EXCEPT ![b] = @ \cup {t}]
    /\ UNCHANGED <<barrierStatus, con_signal, con_complete>>

\* Wait after its sleep: con_wait is not tested in a loop.
WaitReturn(t) ==
    /\ t \notin con_wait[at[t]]
    /\ Go(t, at[t], "inWait", "passed")
    /\ UNCHANGED <<barrierStatus, waiter_num, con_wait, con_signal, con_complete>>

\* A variant of the end of Signal that leaves the barrier signaled.
SignalEnd_StaysSignaled(b) ==
    /\ con_complete' = [con_complete EXCEPT ![b] = {}]
    /\ con_signal' = con_signal
    /\ barrierStatus' = [barrierStatus EXCEPT ![b] = SIGNALED]

\* The end of Signal, when nobody is left to respond.
SignalEnd(b) ==
    /\ con_complete' = [con_complete EXCEPT ![b] = {}]
    /\ con_signal' = con_signal
    /\ barrierStatus' = [barrierStatus EXCEPT ![b] = UNSIGNALED]

\* EventBarrier::Signal up to its return or its sleep.
SignalCall(t, b) ==
    /\ con_wait' = [con_wait EXCEPT ![b] = {}]
    /\ \/ /\ waiter_num[b] = 0
          /\ Go(t, b, "out", "out")
          /\ SignalEnd(b)
       \/ /\ waiter_num[b] # 0
          /\ Go(t, b, "out", "inSignal")
          /\ con_signal' = [con_signal EXCEPT ![b] = @ \cup {t}]
          /\ barrierStatus' = [barrierStatus EXCEPT ![b] = SIGNALED]
          /\ UNCHANGED con_complete
    /\ UNCHANGED waiter_num

\* A variant of Signal with "if" for "while": it does not look again whether
\* somebody has arrived since it was woken.
SignalResume_NoRetest(t) ==
    LET b == at[t]
    IN  /\ pc[t] = "inSignal" /\ t \notin con_signal[b]
        /\ Go(t, b, "inSignal", "out")
        /\ SignalEnd(b)
        /\ UNCHANGED <<waiter_num, con_wait>>

\* Signal after its sleep: the test of its while loop again.
SignalResume(t) ==
    LET b == at[t]
    IN  /\ pc[t] = "inSignal" /\ t \notin con_signal[b]
        /\ \/ /\ waiter_num[b] = 0
              /\ Go(t, b, "inSignal", "out")
              /\ SignalEnd(b)
           \/ /\ waiter_num[b] # 0
              /\ con_signal' = [con_signal EXCEPT ![b] = @ \cup {t}]
              /\ UNCHANGED <<barrierStatus, con_complete, pc, at>>
        /\ UNCHANGED <<waiter_num, con_wait>>

\* A variant of Complete whose last caller does not signal.
CompleteCall_NoSignal(t, b) ==
    /\ waiter_num' = [waiter_num EXCEPT ![b] = @ - 1]
    /\ \/ /\ waiter_num'[b] = 0
          /\ Go(t, b, "passed", "out")
          /\ UNCHANGED <<con_signal, con_complete>>
       \/ /\ waiter_num'[b] # 0
          /\ Go(t, b, "passed", "inComplete")
          /\ con_complete' = [con_complete EXCEPT ![b] = @ \cup {t}]
          /\ UNCHANGED con_signal
    /\ UNCHANGED <<barrierStatus, con_wait>>

\* EventBarrier::Complete up to its return or its sleep.  The last to respond
\* signals one sleeper of con_signal and returns.
CompleteCall(t, b) ==
    /\ waiter_num' = [waiter_num EXCEPT ![b] = @ - 1]
    /\ \/ /\ waiter_num'[b] = 0
          /\ Go(t, b, "passed", "out")
          /\ \/ con_signal[b] = {} /\ UNCHANGED con_signal
             \/ \E s \in con_signal[b] : con_signal' = [con_signal EXCEPT ![b] = @ \ {s}]
          /\ UNCHANGED con_complete
       \/ /\ waiter_num'[b] # 0
          /\ Go(t, b, "passed", "inComplete")
          /\ con_complete' = [con_complete EXCEPT ![b] = @ \cup {t}]
          /\ UNCHANGED con_signal
    /\ UNCHANGED <<barrierStatus, con_wait>>

\* Complete after its sleep.
CompleteReturn(t) ==
    /\ t \notin con_complete[at[t]]
    /\ Go(t, at[t], "inComplete", "out")
    /\ UNCHANGED <<barrierStatus, waiter_num, con_wait, con_signal, con_complete>>

-----------------------------------------------------------------------------
(***************************************************************************)
(* waiter_num counts the threads that have arrived and not responded.      *)
(***************************************************************************)
Arrived(b) == {t \in Thread : at[t] = b /\ pc[t] \in {"inWait", "passed"}}

WaiterNumExact == \A b \in Id : waiter_num[b] = Cardinality(Arrived(b))
=============================================================================
