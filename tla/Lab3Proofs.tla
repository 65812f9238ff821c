------------------------------ MODULE Lab3Proofs ------------------------------
(***************************************************************************)
(* Proofs about lab 3's event barriers, for any number of threads and any  *)
(* number of uses: in the test of one barrier no event leaves a thread     *)
(* behind, and the barrier keeps its promise (module Barrier).  In a       *)
(* building of any height, with any number of riders, whoever is let       *)
(* through a door is at its own floor, and again nobody is left behind.    *)
(***************************************************************************)
EXTENDS BarrierTest, Elevator, FiniteSetTheorems, TLAPS

-----------------------------------------------------------------------------
(* What the operations keep, with one signaller.                           *)

(***************************************************************************)
(* What NobodyLeftBehind rests on when s is the only thread that signals.  *)
(* The conditions' queues hold threads that are where the queue says.  A   *)
(* barrier is signaled exactly while s is in its Signal; meanwhile nobody  *)
(* sleeps in Wait, and otherwise whoever has arrived does.                 *)
(***************************************************************************)
QueuesHonest(s) == \A b \in Id :
    /\ con_wait[b] \subseteq {t \in Thread : at[t] = b /\ pc[t] = "inWait"}
    /\ con_complete[b] \subseteq {t \in Thread : at[t] = b /\ pc[t] = "inComplete"}
    /\ con_signal[b] \subseteq {s}
    /\ con_signal[b] # {} => barrierStatus[b] = SIGNALED

CountExact == \A b \in Id :
    IsFiniteSet(Arrived(b)) /\ waiter_num[b] = Cardinality(Arrived(b))

OnlySignals(s) == \A t \in Thread :
    /\ pc[t] = "inSignal" => t = s
    /\ t = s => pc[t] \in {"out", "inSignal"}

EventExact(s) == \A b \in Id :
    /\ barrierStatus[b] = SIGNALED <=> pc[s] = "inSignal" /\ at[s] = b
    /\ barrierStatus[b] = SIGNALED => con_wait[b] = {}
    /\ barrierStatus[b] = UNSIGNALED =>
         con_complete[b] = {} /\ Arrived(b) \subseteq con_wait[b]

EventInv(s) ==
    BarrierTypeOK /\ QueuesHonest(s) /\ CountExact /\ OnlySignals(s) /\ EventExact(s)

\* What a move of one thread does to the threads that have arrived.
LEMMA GoArrived ==
    ASSUME BarrierTypeOK, NEW t \in Thread, NEW b \in Id, NEW old \in PC, NEW new \in PC,
           Go(t, b, old, new), old = "out" \/ at[t] = b
    PROVE  /\ pc' \in [Thread -> PC] /\ at' \in [Thread -> Id]
           /\ \A u \in Thread : /\ pc'[u] = IF u = t THEN new ELSE pc[u]
                                /\ at'[u] = IF u = t THEN b ELSE at[u]
           /\ \A c \in Id : c # b => Arrived(c)' = Arrived(c)
           /\ Arrived(b)' = IF new \in {"inWait", "passed"} THEN Arrived(b) \cup {t}
                            ELSE Arrived(b) \ {t}
  <1>1. /\ pc' \in [Thread -> PC] /\ at' \in [Thread -> Id]
        /\ pc[t] = old
        /\ \A u \in Thread : /\ pc'[u] = IF u = t THEN new ELSE pc[u]
                             /\ at'[u] = IF u = t THEN b ELSE at[u]
    BY DEF BarrierTypeOK, Go
  <1>2. ASSUME NEW c \in Id, c # b PROVE Arrived(c)' = Arrived(c)
    BY <1>1, <1>2 DEF Arrived
  <1>3. CASE new \in {"inWait", "passed"}
    <2>1. Arrived(b)' = Arrived(b) \cup {t}
      BY <1>1, <1>3 DEF Arrived
    <2> QED
      BY <1>1, <1>2, <1>3, <2>1
  <1>4. CASE new \notin {"inWait", "passed"}
    <2>1. Arrived(b)' = Arrived(b) \ {t}
      BY <1>1, <1>4 DEF Arrived
    <2> QED
      BY <1>1, <1>2, <1>4, <2>1
  <1> QED
    BY <1>3, <1>4

\* The count follows an arrival, ...
LEMMA CountUp ==
    ASSUME CountExact, BarrierTypeOK, NEW t \in Thread, NEW b \in Id, t \notin Arrived(b),
           waiter_num' = [waiter_num EXCEPT ![b] = @ + 1],
           Arrived(b)' = Arrived(b) \cup {t},
           \A c \in Id : c # b => Arrived(c)' = Arrived(c)
    PROVE  CountExact' /\ waiter_num' \in [Id -> Nat]
  <1> DEFINE a == Arrived(b)
  <1>1. IsFiniteSet(a) /\ waiter_num[b] = Cardinality(a)
    BY DEF CountExact
  <1>2. IsFiniteSet(a \cup {t}) /\ Cardinality(a \cup {t}) = Cardinality(a) + 1
    BY <1>1, FS_AddElement
  <1>3. /\ waiter_num' \in [Id -> Nat]
        /\ \A c \in Id : waiter_num'[c] = IF c = b THEN waiter_num[b] + 1 ELSE waiter_num[c]
    BY DEF BarrierTypeOK
  <1>4. \A c \in Id : IsFiniteSet(Arrived(c)') /\ waiter_num'[c] = Cardinality(Arrived(c)')
    BY <1>1, <1>2, <1>3 DEF CountExact
  <1> QED
    BY <1>3, <1>4 DEF CountExact

\* ... a response, ...
LEMMA CountDown ==
    ASSUME CountExact, BarrierTypeOK, NEW t \in Thread, NEW b \in Id, t \in Arrived(b),
           waiter_num' = [waiter_num EXCEPT ![b] = @ - 1],
           Arrived(b)' = Arrived(b) \ {t},
           \A c \in Id : c # b => Arrived(c)' = Arrived(c)
    PROVE  CountExact' /\ waiter_num' \in [Id -> Nat]
  <1> DEFINE a == Arrived(b)
  <1>1. IsFiniteSet(a) /\ waiter_num[b] = Cardinality(a) /\ waiter_num[b] \in Nat
    BY DEF CountExact, BarrierTypeOK
  <1>2. IsFiniteSet(a \ {t}) /\ Cardinality(a \ {t}) = Cardinality(a) - 1
    BY <1>1, FS_RemoveElement
  <1>3. Cardinality(a \ {t}) \in Nat
    BY <1>2, FS_CardinalityType
  <1>4. /\ waiter_num[b] - 1 \in Nat
        /\ \A c \in Id : waiter_num'[c] = IF c = b THEN waiter_num[b] - 1 ELSE waiter_num[c]
    BY <1>1, <1>2, <1>3 DEF BarrierTypeOK
  <1>5. waiter_num' \in [Id -> Nat]
    BY <1>4 DEF BarrierTypeOK
  <1>6. \A c \in Id : IsFiniteSet(Arrived(c)') /\ waiter_num'[c] = Cardinality(Arrived(c)')
    BY <1>1, <1>2, <1>4 DEF CountExact
  <1> QED
    BY <1>5, <1>6 DEF CountExact

\* ... and is zero exactly when nobody has arrived.
LEMMA CountZero ==
    ASSUME CountExact, NEW b \in Id
    PROVE  waiter_num[b] = 0 <=> Arrived(b) = {}
  BY FS_EmptySet DEF CountExact

\* Wait, by a thread that does not signal.
LEMMA WaitCallInv ==
    ASSUME NEW s \in Thread, EventInv(s), NEW t \in Thread, t # s, NEW b \in Id, WaitCall(t, b)
    PROVE  EventInv(s)'
  <1>0. /\ BarrierTypeOK /\ QueuesHonest(s) /\ CountExact /\ OnlySignals(s) /\ EventExact(s)
        /\ UNCHANGED <<barrierStatus, con_signal, con_complete>>
        /\ waiter_num' = [waiter_num EXCEPT ![b] = @ + 1]
    BY DEF EventInv, WaitCall
  <1>1. PICK new \in {"passed", "inWait"} :
          /\ Go(t, b, "out", new)
          /\ new = "passed" => barrierStatus[b] = SIGNALED /\ con_wait' = con_wait
          /\ new = "inWait" => /\ barrierStatus[b] = UNSIGNALED
                               /\ con_wait' = [con_wait EXCEPT ![b] = @ \cup {t}]
    BY DEF WaitCall
  <1>2. /\ pc' \in [Thread -> PC] /\ at' \in [Thread -> Id] /\ pc[t] = "out"
        /\ \A u \in Thread : /\ pc'[u] = IF u = t THEN new ELSE pc[u]
                             /\ at'[u] = IF u = t THEN b ELSE at[u]
        /\ \A c \in Id : c # b => Arrived(c)' = Arrived(c)
        /\ Arrived(b)' = Arrived(b) \cup {t}
    <2>1. new \in PC /\ "out" \in PC /\ pc[t] = "out"
      BY <1>1 DEF PC, Go
    <2> QED
      BY <1>0, <1>1, <2>1, GoArrived
  <1>3. CountExact' /\ waiter_num' \in [Id -> Nat]
    <2>1. t \notin Arrived(b)
      BY <1>2 DEF Arrived
    <2> QED
      BY <1>0, <1>2, <2>1, CountUp
  <1>4. /\ con_wait' \in [Id -> SUBSET Thread]
        /\ \A c \in Id : con_wait'[c] = IF c = b /\ new = "inWait" THEN con_wait[c] \cup {t}
                                        ELSE con_wait[c]
    <2>1. con_wait \in [Id -> SUBSET Thread]
      BY <1>0 DEF BarrierTypeOK
    <2>2. CASE new = "passed"
      BY <1>1, <2>1, <2>2
    <2>3. CASE new = "inWait"
      BY <1>1, <2>1, <2>3
    <2> QED
      BY <2>2, <2>3
  <1>5. BarrierTypeOK'
    BY <1>0, <1>2, <1>3, <1>4 DEF BarrierTypeOK
  <1>6. QueuesHonest(s)'
    BY <1>0, <1>1, <1>2, <1>4 DEF QueuesHonest
  <1>7. OnlySignals(s)'
    BY <1>0, <1>1, <1>2 DEF OnlySignals
  <1>8. EventExact(s)'
    <2>1. \A c \in Id : c # b => con_wait'[c] = con_wait[c] /\ Arrived(c)' = Arrived(c)
      BY <1>2, <1>4
    <2>2. pc'[s] = pc[s] /\ at'[s] = at[s]
      BY <1>2
    <2>3. /\ barrierStatus[b] = SIGNALED => con_wait'[b] = con_wait[b]
          /\ barrierStatus[b] = UNSIGNALED => con_wait'[b] = con_wait[b] \cup {t}
      BY <1>1, <1>4, StatusAssumption
    <2> QED
      BY <1>0, <1>2, <2>1, <2>2, <2>3 DEF EventExact
  <1> QED
    BY <1>3, <1>5, <1>6, <1>7, <1>8 DEF EventInv

\* The return of Wait: its thread does not look whether the event is over, but
\* no event is over before it has responded.
LEMMA WaitReturnInv ==
    ASSUME NEW s \in Thread, EventInv(s), NEW t \in Thread, t # s, WaitReturn(t)
    PROVE  EventInv(s)' /\ UNCHANGED at
  <1> DEFINE b == at[t]
  <1>0. /\ BarrierTypeOK /\ QueuesHonest(s) /\ CountExact /\ OnlySignals(s) /\ EventExact(s)
        /\ UNCHANGED <<barrierStatus, waiter_num, con_wait, con_signal, con_complete>>
        /\ b \in Id /\ t \notin con_wait[b] /\ Go(t, b, "inWait", "passed")
    BY DEF EventInv, WaitReturn, BarrierTypeOK
  <1>1. /\ pc' \in [Thread -> PC] /\ at' \in [Thread -> Id] /\ pc[t] = "inWait"
        /\ \A u \in Thread : /\ pc'[u] = IF u = t THEN "passed" ELSE pc[u]
                             /\ at'[u] = at[u]
        /\ \A c \in Id : Arrived(c)' = Arrived(c)
    <2>1. "inWait" \in PC /\ "passed" \in PC /\ pc[t] = "inWait"
      BY <1>0 DEF PC, Go
    <2> HIDE DEF b
    <2>2. /\ pc' \in [Thread -> PC] /\ at' \in [Thread -> Id]
          /\ \A u \in Thread : /\ pc'[u] = IF u = t THEN "passed" ELSE pc[u]
                               /\ at'[u] = IF u = t THEN b ELSE at[u]
          /\ \A c \in Id : c # b => Arrived(c)' = Arrived(c)
          /\ Arrived(b)' = Arrived(b) \cup {t}
      BY <1>0, <2>1, GoArrived DEF b
    <2>3. t \in Arrived(b)
      BY <2>1 DEF Arrived, b
    <2> QED
      BY <2>1, <2>2, <2>3 DEF b
  <1>2. at' = at
    BY <1>0, <1>1 DEF BarrierTypeOK
  <1>3. BarrierTypeOK' /\ CountExact'
    BY <1>0, <1>1 DEF BarrierTypeOK, CountExact
  <1>4. QueuesHonest(s)'
    BY <1>0, <1>1 DEF QueuesHonest
  <1>5. OnlySignals(s)'
    BY <1>0, <1>1 DEF OnlySignals
  <1>6. EventExact(s)'
    BY <1>0, <1>1 DEF EventExact
  <1> QED
    BY <1>2, <1>3, <1>4, <1>5, <1>6 DEF EventInv

\* Complete, by a thread that has been let through.
LEMMA CompleteCallInv ==
    ASSUME NEW s \in Thread, EventInv(s), NEW t \in Thread, t # s, NEW b \in Id, at[t] = b,
           CompleteCall(t, b)
    PROVE  EventInv(s)' /\ UNCHANGED at
  <1>0. /\ BarrierTypeOK /\ QueuesHonest(s) /\ CountExact /\ OnlySignals(s) /\ EventExact(s)
        /\ UNCHANGED <<barrierStatus, con_wait>>
        /\ waiter_num' = [waiter_num EXCEPT ![b] = @ - 1]
    BY DEF EventInv, CompleteCall
  <1>1. PICK new \in {"out", "inComplete"} :
          /\ Go(t, b, "passed", new)
          /\ new = "out" => con_complete' = con_complete
          /\ new = "inComplete" => con_complete' = [con_complete EXCEPT ![b] = @ \cup {t}]
    BY DEF CompleteCall
  <1>2. con_signal' = con_signal \/ \E u \in con_signal[b] : con_signal' = [con_signal EXCEPT ![b] = @ \ {u}]
    BY DEF CompleteCall
  <1>3. /\ pc' \in [Thread -> PC] /\ at' \in [Thread -> Id] /\ pc[t] = "passed"
        /\ \A u \in Thread : /\ pc'[u] = IF u = t THEN new ELSE pc[u]
                             /\ at'[u] = at[u]
        /\ \A c \in Id : c # b => Arrived(c)' = Arrived(c)
        /\ Arrived(b)' = Arrived(b) \ {t}
    <2>1. new \in PC /\ "passed" \in PC /\ pc[t] = "passed"
      BY <1>1 DEF PC, Go
    <2> QED
      BY <1>0, <1>1, <2>1, GoArrived
  <1>4. t \in Arrived(b) /\ barrierStatus[b] = SIGNALED
    <2>1. t \in Arrived(b) /\ t \notin con_wait[b]
      BY <1>0, <1>3 DEF Arrived, QueuesHonest
    <2> QED
      BY <1>0, <2>1 DEF EventExact, BarrierTypeOK
  <1>5. CountExact' /\ waiter_num' \in [Id -> Nat]
    BY <1>0, <1>3, <1>4, CountDown
  <1>6. /\ con_complete' \in [Id -> SUBSET Thread]
        /\ \A c \in Id : con_complete'[c] = IF c = b /\ new = "inComplete"
                                            THEN con_complete[c] \cup {t} ELSE con_complete[c]
    <2>1. con_complete \in [Id -> SUBSET Thread]
      BY <1>0 DEF BarrierTypeOK
    <2>2. CASE new = "out"
      BY <1>1, <2>1, <2>2
    <2>3. CASE new = "inComplete"
      BY <1>1, <2>1, <2>3
    <2> QED
      BY <2>2, <2>3
  <1>7. /\ con_signal' \in [Id -> SUBSET Thread]
        /\ \A c \in Id : con_signal'[c] \subseteq con_signal[c]
    <2>1. con_signal \in [Id -> SUBSET Thread]
      BY <1>0 DEF BarrierTypeOK
    <2>2. CASE con_signal' = con_signal
      BY <2>1, <2>2
    <2>3. CASE \E u \in con_signal[b] : con_signal' = [con_signal EXCEPT ![b] = @ \ {u}]
      BY <2>1, <2>3
    <2> QED
      BY <1>2, <2>2, <2>3
  <1>8. at' = at
    BY <1>0, <1>3 DEF BarrierTypeOK
  <1>9. BarrierTypeOK'
    BY <1>0, <1>3, <1>5, <1>6, <1>7 DEF BarrierTypeOK
  <1>10. QueuesHonest(s)'
    BY <1>0, <1>1, <1>3, <1>6, <1>7 DEF QueuesHonest
  <1>11. OnlySignals(s)'
    BY <1>0, <1>1, <1>3 DEF OnlySignals
  <1>12. EventExact(s)'
    <2>1. /\ \A c \in Id : c # b => con_complete'[c] = con_complete[c] /\ Arrived(c)' = Arrived(c)
          /\ pc'[s] = pc[s] /\ at'[s] = at[s]
      BY <1>3, <1>6
    <2> QED
      BY <1>0, <1>4, <2>1, StatusAssumption DEF EventExact
  <1> QED
    BY <1>5, <1>8, <1>9, <1>10, <1>11, <1>12 DEF EventInv

\* The return of Complete.
LEMMA CompleteReturnInv ==
    ASSUME NEW s \in Thread, EventInv(s), NEW t \in Thread, t # s, CompleteReturn(t)
    PROVE  EventInv(s)' /\ UNCHANGED at
  <1> DEFINE b == at[t]
  <1>0. /\ BarrierTypeOK /\ QueuesHonest(s) /\ CountExact /\ OnlySignals(s) /\ EventExact(s)
        /\ UNCHANGED <<barrierStatus, waiter_num, con_wait, con_signal, con_complete>>
        /\ b \in Id /\ t \notin con_complete[b] /\ Go(t, b, "inComplete", "out")
    BY DEF EventInv, CompleteReturn, BarrierTypeOK
  <1>1. /\ pc' \in [Thread -> PC] /\ at' \in [Thread -> Id] /\ pc[t] = "inComplete"
        /\ \A u \in Thread : /\ pc'[u] = IF u = t THEN "out" ELSE pc[u]
                             /\ at'[u] = at[u]
        /\ \A c \in Id : Arrived(c)' = Arrived(c)
    <2>1. "inComplete" \in PC /\ "out" \in PC /\ pc[t] = "inComplete"
      BY <1>0 DEF PC, Go
    <2> HIDE DEF b
    <2>2. /\ pc' \in [Thread -> PC] /\ at' \in [Thread -> Id]
          /\ \A u \in Thread : /\ pc'[u] = IF u = t THEN "out" ELSE pc[u]
                               /\ at'[u] = IF u = t THEN b ELSE at[u]
          /\ \A c \in Id : c # b => Arrived(c)' = Arrived(c)
          /\ Arrived(b)' = Arrived(b) \ {t}
      BY <1>0, <2>1, GoArrived DEF b
    <2>3. t \notin Arrived(b)
      BY <2>1 DEF Arrived, b
    <2> QED
      BY <2>1, <2>2, <2>3 DEF b
  <1>2. at' = at
    BY <1>0, <1>1 DEF BarrierTypeOK
  <1>3. BarrierTypeOK' /\ CountExact'
    BY <1>0, <1>1 DEF BarrierTypeOK, CountExact
  <1>4. QueuesHonest(s)'
    BY <1>0, <1>1 DEF QueuesHonest
  <1>5. OnlySignals(s)'
    BY <1>0, <1>1 DEF OnlySignals
  <1>6. EventExact(s)'
    BY <1>0, <1>1 DEF EventExact
  <1> QED
    BY <1>2, <1>3, <1>4, <1>5, <1>6 DEF EventInv

\* Signal starts an event, or there is nobody to respond.
LEMMA SignalCallInv ==
    ASSUME NEW s \in Thread, EventInv(s), NEW b \in Id, SignalCall(s, b)
    PROVE  /\ EventInv(s)'
           /\ pc[s] = "out" /\ at' = [at EXCEPT ![s] = b]
           /\ \A c \in Id : barrierStatus[c] = UNSIGNALED
           /\ \A u \in Thread : u # s => pc'[u] = pc[u]
           /\ \A c \in Id : con_complete'[c] = con_complete[c] /\ Arrived(c)' = Arrived(c)
  <1>0. /\ BarrierTypeOK /\ QueuesHonest(s) /\ CountExact /\ OnlySignals(s) /\ EventExact(s)
        /\ UNCHANGED waiter_num /\ con_wait' = [con_wait EXCEPT ![b] = {}]
        /\ pc[s] = "out" /\ at' = [at EXCEPT ![s] = b]
    BY DEF EventInv, SignalCall, Go
  <1>1. \A c \in Id : /\ barrierStatus[c] = UNSIGNALED
                      /\ con_complete[c] = {} /\ con_signal[c] = {}
                      /\ Arrived(c) \subseteq con_wait[c]
    BY <1>0, StatusAssumption DEF EventExact, BarrierTypeOK, QueuesHonest
  <1>2. PICK new \in {"out", "inSignal"} :
          /\ Go(s, b, "out", new)
          /\ new = "out" => /\ waiter_num[b] = 0 /\ con_signal' = con_signal
                            /\ con_complete' = [con_complete EXCEPT ![b] = {}]
                            /\ barrierStatus' = [barrierStatus EXCEPT ![b] = UNSIGNALED]
          /\ new = "inSignal" => /\ con_signal' = [con_signal EXCEPT ![b] = @ \cup {s}]
                                 /\ con_complete' = con_complete
                                 /\ barrierStatus' = [barrierStatus EXCEPT ![b] = SIGNALED]
    BY DEF SignalCall, SignalEnd
  <1>3. /\ pc' \in [Thread -> PC] /\ at' \in [Thread -> Id]
        /\ \A u \in Thread : /\ pc'[u] = IF u = s THEN new ELSE pc[u]
                             /\ at'[u] = IF u = s THEN b ELSE at[u]
        /\ \A c \in Id : c # b => Arrived(c)' = Arrived(c)
        /\ Arrived(b)' = Arrived(b)
    <2>1. new \in PC /\ "out" \in PC /\ pc[s] = "out"
      BY <1>0, <1>2 DEF PC
    <2>2. /\ pc' \in [Thread -> PC] /\ at' \in [Thread -> Id]
          /\ \A u \in Thread : /\ pc'[u] = IF u = s THEN new ELSE pc[u]
                               /\ at'[u] = IF u = s THEN b ELSE at[u]
          /\ \A c \in Id : c # b => Arrived(c)' = Arrived(c)
          /\ Arrived(b)' = Arrived(b) \ {s}
      BY <1>0, <1>2, <2>1, GoArrived
    <2>3. s \notin Arrived(b)
      BY <2>1 DEF Arrived
    <2> QED
      BY <2>2, <2>3
  <1>4. /\ con_wait' \in [Id -> SUBSET Thread]
        /\ \A c \in Id : con_wait'[c] = IF c = b THEN {} ELSE con_wait[c]
    BY <1>0 DEF BarrierTypeOK
  <1>5. /\ con_complete' \in [Id -> SUBSET Thread] /\ con_signal' \in [Id -> SUBSET Thread]
        /\ barrierStatus' \in [Id -> {SIGNALED, UNSIGNALED}]
        /\ \A c \in Id : con_complete'[c] = {}
        /\ \A c \in Id : con_signal'[c] = IF c = b /\ new = "inSignal" THEN {s} ELSE {}
        /\ \A c \in Id : barrierStatus'[c] = IF c = b /\ new = "inSignal" THEN SIGNALED
                                             ELSE UNSIGNALED
    <2>1. /\ con_complete \in [Id -> SUBSET Thread] /\ con_signal \in [Id -> SUBSET Thread]
          /\ barrierStatus \in [Id -> {SIGNALED, UNSIGNALED}]
      BY <1>0 DEF BarrierTypeOK
    <2>2. CASE new = "out"
      BY <1>1, <1>2, <2>1, <2>2
    <2>3. CASE new = "inSignal"
      BY <1>1, <1>2, <2>1, <2>3
    <2> QED
      BY <2>2, <2>3
  <1>6. BarrierTypeOK'
    BY <1>0, <1>3, <1>4, <1>5 DEF BarrierTypeOK
  <1>7. CountExact'
    BY <1>0, <1>3 DEF CountExact
  <1>8. QueuesHonest(s)'
    BY <1>0, <1>2, <1>3, <1>4, <1>5 DEF QueuesHonest
  <1>9. OnlySignals(s)'
    BY <1>0, <1>2, <1>3 DEF OnlySignals
  <1>10. EventExact(s)'
    <2>1. new = "out" => Arrived(b) = {}
      BY <1>0, <1>2, CountZero
    <2>2. \A c \in Id : Arrived(c)' = Arrived(c)
      BY <1>3
    <2> QED
      BY <1>1, <1>2, <1>3, <1>4, <1>5, <2>1, <2>2, StatusAssumption DEF EventExact
  <1> QED
    BY <1>0, <1>1, <1>3, <1>5, <1>6, <1>7, <1>8, <1>9, <1>10 DEF EventInv

\* The rest of Signal: the event ends, or the signaller sleeps again.
LEMMA SignalResumeInv ==
    ASSUME NEW s \in Thread, EventInv(s), SignalResume(s)
    PROVE  /\ EventInv(s)'
           /\ pc[s] = "inSignal" /\ UNCHANGED at
           /\ \A u \in Thread : u # s => pc'[u] = pc[u]
           /\ \A c \in Id : Arrived(c)' = Arrived(c)
           /\ \/ /\ UNCHANGED <<pc, barrierStatus, con_complete>>
              \/ /\ pc'[s] = "out" /\ Arrived(at[s]) = {} /\ con_complete'[at[s]] = {}
                 /\ barrierStatus[at[s]] = SIGNALED /\ barrierStatus'[at[s]] = UNSIGNALED
  <1> DEFINE b == at[s]
  <1>0. /\ BarrierTypeOK /\ QueuesHonest(s) /\ CountExact /\ OnlySignals(s) /\ EventExact(s)
        /\ UNCHANGED <<waiter_num, con_wait>>
        /\ pc[s] = "inSignal" /\ b \in Id /\ s \notin con_signal[b]
    BY DEF EventInv, SignalResume, BarrierTypeOK
  <1>1. CASE UNCHANGED <<barrierStatus, con_complete, pc, at>>
             /\ con_signal' = [con_signal EXCEPT ![b] = @ \cup {s}]
    <2>1. \A c \in Id : Arrived(c)' = Arrived(c)
      BY <1>1 DEF Arrived
    <2>2. barrierStatus[b] = SIGNALED
      BY <1>0 DEF EventExact
    <2>3. /\ con_signal' \in [Id -> SUBSET Thread]
          /\ \A c \in Id : con_signal'[c] = IF c = b THEN con_signal[c] \cup {s} ELSE con_signal[c]
      BY <1>0, <1>1 DEF BarrierTypeOK
    <2>4. BarrierTypeOK'
      BY <1>0, <1>1, <2>3 DEF BarrierTypeOK
    <2>5. QueuesHonest(s)'
      <3> HIDE DEF b
      <3> QED
        BY <1>0, <1>1, <2>2, <2>3 DEF QueuesHonest
    <2>6. CountExact' /\ OnlySignals(s)'
      BY <1>0, <1>1, <2>1 DEF CountExact, OnlySignals
    <2>7. EventExact(s)'
      BY <1>0, <1>1, <2>1 DEF EventExact
    <2> QED
      BY <1>0, <1>1, <2>1, <2>4, <2>5, <2>6, <2>7 DEF EventInv
  <1>2. CASE waiter_num[b] = 0 /\ Go(s, b, "inSignal", "out") /\ SignalEnd(b)
    <2>1. /\ con_signal' = con_signal /\ con_complete' = [con_complete EXCEPT ![b] = {}]
          /\ barrierStatus' = [barrierStatus EXCEPT ![b] = UNSIGNALED]
      BY <1>2 DEF SignalEnd
    <2>2. Arrived(b) = {}
      BY <1>0, <1>2, CountZero
    <2>3. \A c \in Id : barrierStatus[c] = IF c = b THEN SIGNALED ELSE UNSIGNALED
      BY <1>0, StatusAssumption DEF EventExact, BarrierTypeOK
    <2>4. con_signal[b] = {} /\ con_wait[b] = {}
      BY <1>0, <2>3 DEF QueuesHonest, EventExact
    <2> HIDE DEF b
    <2>5. /\ pc' \in [Thread -> PC] /\ at' \in [Thread -> Id]
          /\ \A u \in Thread : /\ pc'[u] = IF u = s THEN "out" ELSE pc[u]
                               /\ at'[u] = at[u]
          /\ \A c \in Id : Arrived(c)' = Arrived(c)
      <3>1. "out" \in PC /\ "inSignal" \in PC
        BY DEF PC
      <3>2. /\ pc' \in [Thread -> PC] /\ at' \in [Thread -> Id]
            /\ \A u \in Thread : /\ pc'[u] = IF u = s THEN "out" ELSE pc[u]
                                 /\ at'[u] = IF u = s THEN b ELSE at[u]
            /\ \A c \in Id : c # b => Arrived(c)' = Arrived(c)
            /\ Arrived(b)' = Arrived(b) \ {s}
        BY <1>0, <1>2, <3>1, GoArrived DEF b
      <3> QED
        BY <2>2, <3>2 DEF b
    <2>6. at' = at
      BY <1>0, <2>5 DEF BarrierTypeOK
    <2>7. /\ con_complete' \in [Id -> SUBSET Thread]
          /\ barrierStatus' \in [Id -> {SIGNALED, UNSIGNALED}]
          /\ \A c \in Id : con_complete'[c] = IF c = b THEN {} ELSE con_complete[c]
          /\ \A c \in Id : barrierStatus'[c] = UNSIGNALED
      BY <1>0, <2>1, <2>3 DEF BarrierTypeOK
    <2>8. BarrierTypeOK'
      BY <1>0, <2>1, <2>5, <2>7 DEF BarrierTypeOK
    <2>9. QueuesHonest(s)'
      BY <1>0, <2>1, <2>3, <2>4, <2>5, <2>7, StatusAssumption DEF QueuesHonest
    <2>10. CountExact' /\ OnlySignals(s)'
      BY <1>0, <2>5 DEF CountExact, OnlySignals
    <2>11. EventExact(s)'
      BY <1>0, <2>2, <2>3, <2>5, <2>7, StatusAssumption DEF EventExact
    <2> QED
      BY <1>0, <2>2, <2>3, <2>5, <2>6, <2>7, <2>8, <2>9, <2>10, <2>11 DEF EventInv, b
  <1> QED
    BY <1>1, <1>2 DEF SignalResume

\* The invariant is what NobodyLeftBehind needs.
LEMMA EventInvSuffices ==
    ASSUME NEW s \in Thread, EventInv(s)
    PROVE  NobodyLeftBehind
  <1>1. WaiterNumExact
    BY DEF EventInv, CountExact, WaiterNumExact
  <1>2. \A b \in Id : barrierStatus[b] = UNSIGNALED => con_signal[b] = {}
    BY StatusAssumption DEF EventInv, QueuesHonest
  <1>3. \A b \in Id : barrierStatus[b] = UNSIGNALED =>
            con_complete[b] = {} /\ \A t \in Arrived(b) : t \in con_wait[b]
    BY DEF EventInv, EventExact
  <1> QED
    BY <1>1, <1>2, <1>3 DEF NobodyLeftBehind

\* At the start nobody uses a barrier.
LEMMA InitEvent ==
    ASSUME NEW s \in Thread, BarrierInit, Id # {}
    PROVE  EventInv(s)
  <1>1. (CHOOSE b \in Id : TRUE) \in Id
    BY Id # {}
  <1>2. BarrierTypeOK
    BY <1>1 DEF BarrierInit, BarrierTypeOK, PC
  <1>3. \A b \in Id : Arrived(b) = {}
    BY DEF BarrierInit, Arrived
  <1>4. CountExact
    BY <1>3, FS_EmptySet DEF BarrierInit, CountExact
  <1>5. QueuesHonest(s) /\ OnlySignals(s)
    BY DEF BarrierInit, QueuesHonest, OnlySignals
  <1>6. EventExact(s)
    BY <1>3, StatusAssumption DEF BarrierInit, EventExact
  <1> QED
    BY <1>2, <1>4, <1>5, <1>6 DEF EventInv

-----------------------------------------------------------------------------
(* The test of one barrier.                                                *)

TestSpec == TestInit /\ [][TestNext]_testVars

\* All use the same barrier.
TestInv == EventInv(Signaller) /\ \A t \in Thread : at[t] = TheBarrier

\* Every step of the test keeps the invariant.
LEMMA NextTest == TestInv /\ [TestNext]_testVars => TestInv'
  <1> SUFFICES ASSUME TestInv, [TestNext]_testVars PROVE TestInv'
    OBVIOUS
  <1> DEFINE b == TheBarrier
             s == Signaller
  <1>0. /\ s \in Thread /\ b \in Id /\ EventInv(s) /\ BarrierTypeOK
        /\ \A t \in Thread : at[t] = b
        /\ \A t \in Thread : pc[t] = "inSignal" => t = s
        /\ pc[s] \in {"out", "inSignal"}
    BY ClientAssumption DEF TestInv, TheBarrier, EventInv, OnlySignals
  <1> HIDE DEF b, s
  <1>1. CASE DoSignal
    <2>1. SignalCall(s, b)
      BY <1>1 DEF DoSignal, b, s
    <2>2. EventInv(s)' /\ at' = [at EXCEPT ![s] = b]
      BY <1>0, <2>1, SignalCallInv
    <2> QED
      BY <1>0, <2>2 DEF TestInv, BarrierTypeOK, b, s, TheBarrier
  <1>2. ASSUME NEW t \in Waiter, DoWait(t) PROVE TestInv'
    <2>1. t \in Thread /\ t # s /\ WaitCall(t, b)
      BY <1>2 DEF Waiter, DoWait, b, s
    <2>2. EventInv(s)'
      BY <1>0, <2>1, WaitCallInv
    <2>3. at' = [at EXCEPT ![t] = b]
      BY <2>1 DEF WaitCall, Go
    <2> QED
      BY <1>0, <2>1, <2>2, <2>3 DEF TestInv, BarrierTypeOK, b, s, TheBarrier
  <1>3. ASSUME NEW t \in Thread, Respond(t) \/ Continue(t) PROVE TestInv'
    <2>1. EventInv(s)' /\ at' = at
      <3>1. CASE Respond(t)
        <4>1. CompleteCall(t, b) /\ at[t] = b /\ pc[t] = "passed"
          BY <1>0, <3>1 DEF Respond, b, CompleteCall, Go
        <4>2. t # s
          BY <1>0, <4>1
        <4> QED
          BY <1>0, <4>1, <4>2, CompleteCallInv
      <3>2. CASE WaitReturn(t)
        <4>1. t # s
          BY <1>0, <3>2 DEF WaitReturn, Go
        <4> QED
          BY <1>0, <3>2, <4>1, WaitReturnInv
      <3>3. CASE CompleteReturn(t)
        <4>1. t # s
          BY <1>0, <3>3 DEF CompleteReturn, Go
        <4> QED
          BY <1>0, <3>3, <4>1, CompleteReturnInv
      <3>4. CASE SignalResume(t)
        <4>1. t = s
          BY <1>0, <3>4 DEF SignalResume
        <4> QED
          BY <1>0, <3>4, <4>1, SignalResumeInv
      <3> QED
        BY <1>3, <3>1, <3>2, <3>3, <3>4 DEF Continue
    <2> QED
      BY <1>0, <2>1 DEF TestInv, b, s, TheBarrier
  <1>4. CASE UNCHANGED testVars
    BY <1>4 DEF testVars, barrierVars, TestInv, EventInv, BarrierTypeOK, QueuesHonest, CountExact,
                OnlySignals, EventExact, Arrived, TheBarrier
  <1> QED
    BY <1>1, <1>2, <1>3, <1>4 DEF TestNext

\* The test starts with nobody at the barrier.
LEMMA InitTest == TestInit => TestInv
  BY ClientAssumption, InitEvent DEF TestInit, TestInv, BarrierInit, TheBarrier

(***************************************************************************)
(* Whatever the number of threads and of uses, no event of the barrier     *)
(* under test leaves a thread behind, and the count is exact.              *)
(***************************************************************************)
THEOREM BarrierLeavesNobody == TestSpec => []NobodyLeftBehind
  <1>1. TestInv => NobodyLeftBehind
    BY ClientAssumption, EventInvSuffices DEF TestInv
  <1> QED
    BY <1>1, InitTest, NextTest, PTL DEF TestSpec

\* What Promise maps the barrier's state to.
AbsEvent     == barrierStatus[TheBarrier] = SIGNALED
AbsArrived   == Arrived(TheBarrier)
AbsPassed    == {t \in Thread : at[t] = TheBarrier /\ pc[t] = "passed"}
AbsResponded == con_complete[TheBarrier]

\* While no event is under way nobody responds and nobody has passed, and who
\* is outside or has passed has not responded.
LEMMA AbsFacts ==
    ASSUME TestInv
    PROVE  /\ TheBarrier \in Id /\ BarrierTypeOK
           /\ \A t \in Thread : at[t] = TheBarrier
           /\ AbsArrived = {t \in Thread : pc[t] \in {"inWait", "passed"}}
           /\ AbsPassed = {t \in Thread : pc[t] = "passed"}
           /\ AbsResponded \subseteq {t \in Thread : pc[t] = "inComplete"}
           /\ ~AbsEvent => AbsArrived \subseteq con_wait[TheBarrier] /\ AbsResponded = {}
           /\ con_wait[TheBarrier] \subseteq {t \in Thread : pc[t] = "inWait"}
  <1>1. /\ TheBarrier \in Id /\ BarrierTypeOK
        /\ QueuesHonest(Signaller) /\ EventExact(Signaller)
        /\ \A t \in Thread : at[t] = TheBarrier
    BY ClientAssumption DEF TestInv, TheBarrier, EventInv
  <1>2. /\ AbsArrived = {t \in Thread : pc[t] \in {"inWait", "passed"}}
        /\ AbsPassed = {t \in Thread : pc[t] = "passed"}
    BY <1>1 DEF AbsArrived, AbsPassed, Arrived
  <1>3. /\ AbsResponded \subseteq {t \in Thread : pc[t] = "inComplete"}
        /\ con_wait[TheBarrier] \subseteq {t \in Thread : pc[t] = "inWait"}
    BY <1>1 DEF QueuesHonest, AbsResponded
  <1>4. barrierStatus[TheBarrier] \in {SIGNALED, UNSIGNALED}
    BY <1>1 DEF BarrierTypeOK
  <1>5. ~AbsEvent => AbsArrived \subseteq con_wait[TheBarrier] /\ AbsResponded = {}
    BY <1>1, <1>4 DEF EventExact, AbsEvent, AbsArrived, AbsResponded
  <1> QED
    BY <1>1, <1>2, <1>3, <1>5

\* The same of two of the sets in a form that can be primed.
LEMMA AbsSets ==
    TestInv => /\ AbsArrived = {u \in Thread : pc[u] \in {"inWait", "passed"}}
               /\ AbsPassed = {u \in Thread : pc[u] = "passed"}
               /\ waiter_num[TheBarrier] = 0 <=> AbsArrived = {}
  <1> SUFFICES ASSUME TestInv
               PROVE  /\ AbsArrived = {u \in Thread : pc[u] \in {"inWait", "passed"}}
                      /\ AbsPassed = {u \in Thread : pc[u] = "passed"}
                      /\ waiter_num[TheBarrier] = 0 <=> AbsArrived = {}
    OBVIOUS
  <1>1. TheBarrier \in Id /\ CountExact
    BY AbsFacts DEF TestInv, EventInv
  <1>2. waiter_num[TheBarrier] = 0 <=> AbsArrived = {}
    BY <1>1, CountZero DEF AbsArrived
  <1> QED
    BY <1>2, AbsFacts

\* The abstract barrier's sets after a step are those of the code's next state.
LEMMA AbsSetsNext ==
    TestInv' => /\ AbsArrived' = {u \in Thread : pc'[u] \in {"inWait", "passed"}}
                /\ AbsPassed' = {u \in Thread : pc'[u] = "passed"}
                /\ waiter_num'[TheBarrier] = 0 <=> AbsArrived' = {}
  <1>1. TestInv' => (/\ AbsArrived = {u \in Thread : pc[u] \in {"inWait", "passed"}}
                     /\ AbsPassed = {u \in Thread : pc[u] = "passed"}
                     /\ waiter_num[TheBarrier] = 0 <=> AbsArrived = {})'
    BY AbsSets, PTL
  <1> QED
    BY <1>1

\* A waiter's step is one of the promised barrier's.
LEMMA WaiterMaps ==
    ASSUME TestInv, TestInv', NEW t \in Thread,
           DoWait(t) \/ WaitReturn(t) \/ CompleteReturn(t)
    PROVE  [Promise!Next]_(Promise!vars)
  <1> DEFINE b == TheBarrier
  <1>0. /\ b \in Id /\ BarrierTypeOK /\ AbsResponded \subseteq {u \in Thread : pc[u] = "inComplete"}
        /\ \A u \in Thread : at[u] = b
        /\ AbsArrived = {u \in Thread : pc[u] \in {"inWait", "passed"}}
        /\ AbsPassed = {u \in Thread : pc[u] = "passed"}
        /\ ~AbsEvent => AbsArrived \subseteq con_wait[b]
    BY AbsFacts
  <1>1. /\ AbsArrived' = {u \in Thread : pc'[u] \in {"inWait", "passed"}}
        /\ AbsPassed' = {u \in Thread : pc'[u] = "passed"}
    BY AbsSetsNext
  <1>2. AbsEvent' = AbsEvent /\ AbsResponded' = AbsResponded
    BY DEF DoWait, WaitCall, WaitReturn, CompleteReturn, AbsEvent, AbsResponded
  <1>3. CASE DoWait(t)
    <2>1. PICK new \in {"passed", "inWait"} :
            /\ pc[t] = "out" /\ pc' = [pc EXCEPT ![t] = new]
            /\ new = "passed" => AbsEvent
      BY <1>3 DEF DoWait, WaitCall, Go, AbsEvent
    <2>2. \A u \in Thread : pc'[u] = IF u = t THEN new ELSE pc[u]
      BY <1>0, <2>1 DEF BarrierTypeOK
    <2>3. t \notin AbsArrived \cup AbsResponded
      BY <1>0, <2>1
    <2>4. AbsArrived' = AbsArrived \cup {t}
      BY <1>0, <1>1, <2>1, <2>2
    <2>5. CASE new = "passed"
      <3>1. AbsPassed' = AbsPassed \cup {t}
        BY <1>0, <1>1, <2>1, <2>2, <2>5
      <3>2. Promise!ArrivePass(t)
        BY <1>2, <2>1, <2>3, <2>4, <2>5, <3>1
           DEF Promise!ArrivePass, AbsEvent, AbsArrived, AbsPassed, AbsResponded
      <3> QED
        BY <3>2 DEF Promise!Next
    <2>6. CASE new = "inWait"
      <3>1. AbsPassed' = AbsPassed
        BY <1>0, <1>1, <2>1, <2>2, <2>6
      <3>2. Promise!Arrive(t)
        BY <1>2, <2>3, <2>4, <3>1
           DEF Promise!Arrive, AbsEvent, AbsArrived, AbsPassed, AbsResponded
      <3> QED
        BY <3>2 DEF Promise!Next
    <2> QED
      BY <2>5, <2>6
  <1>4. CASE WaitReturn(t)
    <2>1. t \notin con_wait[b] /\ pc[t] = "inWait" /\ pc' = [pc EXCEPT ![t] = "passed"]
      BY <1>0, <1>4 DEF WaitReturn, Go
    <2>2. \A u \in Thread : pc'[u] = IF u = t THEN "passed" ELSE pc[u]
      BY <1>0, <2>1 DEF BarrierTypeOK
    <2>3. t \in AbsArrived /\ AbsEvent
      BY <1>0, <2>1
    <2>4. AbsArrived' = AbsArrived
      BY <1>0, <1>1, <2>1, <2>2
    <2>5. AbsPassed' = AbsPassed \cup {t}
      BY <1>0, <1>1, <2>1, <2>2
    <2>6. Promise!Pass(t)
      BY <1>2, <2>3, <2>4, <2>5
         DEF Promise!Pass, AbsEvent, AbsArrived, AbsPassed, AbsResponded
    <2> QED
      BY <2>6 DEF Promise!Next
  <1>5. CASE CompleteReturn(t)
    <2>1. pc[t] = "inComplete" /\ pc' = [pc EXCEPT ![t] = "out"]
      BY <1>5 DEF CompleteReturn, Go
    <2>2. \A u \in Thread : pc'[u] = IF u = t THEN "out" ELSE pc[u]
      BY <1>0, <2>1 DEF BarrierTypeOK
    <2>3. AbsArrived' = AbsArrived /\ AbsPassed' = AbsPassed
      BY <1>0, <1>1, <2>1, <2>2
    <2> QED
      BY <1>2, <2>3 DEF Promise!vars, AbsEvent, AbsArrived, AbsPassed, AbsResponded
  <1> QED
    BY <1>3, <1>4, <1>5

\* So is the call of Complete, ...
LEMMA RespondMaps ==
    ASSUME TestInv, TestInv', NEW t \in Thread, Respond(t)
    PROVE  Promise!Next
  <1> DEFINE b == TheBarrier
  <1>0. /\ b \in Id /\ BarrierTypeOK /\ CountExact
        /\ \A u \in Thread : at[u] = b
        /\ AbsArrived = {u \in Thread : pc[u] \in {"inWait", "passed"}}
        /\ AbsPassed = {u \in Thread : pc[u] = "passed"}
        /\ CompleteCall(t, b)
    BY AbsFacts DEF Respond, TestInv, EventInv
  <1>1. /\ AbsArrived' = {u \in Thread : pc'[u] \in {"inWait", "passed"}}
        /\ AbsPassed' = {u \in Thread : pc'[u] = "passed"}
        /\ waiter_num'[b] = 0 <=> AbsArrived' = {}
    BY AbsSetsNext
  <1>2. PICK new \in {"out", "inComplete"} :
          /\ pc[t] = "passed" /\ pc' = [pc EXCEPT ![t] = new]
          /\ new = "out" => waiter_num'[b] = 0 /\ con_complete' = con_complete
          /\ new = "inComplete" => /\ waiter_num'[b] # 0
                                   /\ con_complete' = [con_complete EXCEPT ![b] = @ \cup {t}]
          /\ UNCHANGED barrierStatus
    BY <1>0 DEF CompleteCall, Go
  <1>3. \A u \in Thread : pc'[u] = IF u = t THEN new ELSE pc[u]
    BY <1>0, <1>2 DEF BarrierTypeOK
  <1>4. /\ t \in AbsPassed
        /\ AbsArrived' = AbsArrived \ {t}
        /\ AbsPassed' = AbsPassed \ {t}
    BY <1>0, <1>1, <1>2, <1>3
  <1>5. AbsResponded' = IF AbsArrived' = {} THEN AbsResponded ELSE AbsResponded \cup {t}
    <2>1. CASE new = "out"
      BY <1>1, <1>2, <2>1 DEF AbsResponded
    <2>2. CASE new = "inComplete"
      <3>1. con_complete \in [Id -> SUBSET Thread]
        BY <1>0 DEF BarrierTypeOK
      <3> QED
        BY <1>0, <1>1, <1>2, <2>2, <3>1 DEF AbsResponded
    <2> QED
      BY <2>1, <2>2
  <1>6. Promise!Respond(t)
    <2>1. AbsEvent' = AbsEvent
      BY <1>2 DEF AbsEvent
    <2> QED
      BY <1>4, <1>5, <2>1
         DEF Promise!Respond, AbsEvent, AbsArrived, AbsPassed, AbsResponded
  <1> QED
    BY <1>6 DEF Promise!Next

\* ... and the signaller's steps begin and end the event.
LEMMA SignallerMaps ==
    ASSUME TestInv, TestInv', DoSignal \/ \E t \in Thread : SignalResume(t)
    PROVE  [Promise!Next]_(Promise!vars)
  <1> DEFINE b == TheBarrier
             s == Signaller
  <1>0. /\ b \in Id /\ s \in Thread /\ BarrierTypeOK /\ EventInv(s)
        /\ \A u \in Thread : at[u] = b
        /\ \A u \in Thread : pc[u] = "inSignal" => u = s
        /\ AbsPassed = {u \in Thread : pc[u] = "passed"}
    BY AbsFacts, ClientAssumption DEF TestInv, EventInv, OnlySignals
  <1>1. AbsPassed' = {u \in Thread : pc'[u] = "passed"}
    BY AbsSetsNext
  <1> HIDE DEF b, s
  <1>2. CASE DoSignal
    <2>1. SignalCall(s, b)
      BY <1>2 DEF DoSignal, b, s
    <2>2. /\ pc[s] = "out" /\ \A u \in Thread : u # s => pc'[u] = pc[u]
          /\ con_complete'[b] = con_complete[b] /\ Arrived(b)' = Arrived(b)
          /\ barrierStatus[b] = UNSIGNALED
      BY <1>0, <2>1, SignalCallInv
    <2>3. pc'[s] # "passed" /\ barrierStatus'[b] \in {SIGNALED, UNSIGNALED}
      BY <1>0, <2>1 DEF SignalCall, SignalEnd, Go, BarrierTypeOK
    <2>4. AbsArrived' = AbsArrived /\ AbsResponded' = AbsResponded
      BY <2>2 DEF AbsArrived, AbsResponded, b
    <2>5. AbsPassed' = AbsPassed
      BY <1>0, <1>1, <2>2, <2>3
    <2>6. CASE AbsEvent'
      <3>1. Promise!Start
        BY <2>4, <2>5, <2>6
           DEF Promise!Start, AbsEvent, AbsArrived, AbsPassed, AbsResponded
      <3> QED
        BY <3>1 DEF Promise!Next
    <2>7. CASE ~AbsEvent'
      <3>1. AbsEvent' = AbsEvent
        BY <2>2, <2>7, StatusAssumption DEF AbsEvent, b
      <3> QED
        BY <2>4, <2>5, <3>1 DEF Promise!vars, AbsEvent, AbsArrived, AbsPassed, AbsResponded
    <2> QED
      BY <2>6, <2>7
  <1>3. ASSUME NEW t \in Thread, SignalResume(t) PROVE [Promise!Next]_(Promise!vars)
    <2>1. SignalResume(s)
      BY <1>0, <1>3 DEF SignalResume
    <2>2. /\ at[s] = b /\ pc[s] = "inSignal"
          /\ \A u \in Thread : u # s => pc'[u] = pc[u]
          /\ Arrived(b)' = Arrived(b)
          /\ \/ UNCHANGED <<pc, barrierStatus, con_complete>>
             \/ /\ pc'[s] = "out" /\ Arrived(b) = {} /\ con_complete'[b] = {}
                /\ barrierStatus[b] = SIGNALED /\ barrierStatus'[b] = UNSIGNALED
      BY <1>0, <2>1, SignalResumeInv
    <2>3. AbsArrived' = AbsArrived
      BY <2>2 DEF AbsArrived, b
    <2>4. AbsPassed' = AbsPassed
      <3>1. pc'[s] # "passed"
        BY <2>2
      <3> QED
        BY <1>0, <1>1, <2>2, <3>1
    <2>5. CASE UNCHANGED <<pc, barrierStatus, con_complete>>
      BY <2>3, <2>4, <2>5
         DEF Promise!vars, AbsEvent, AbsArrived, AbsPassed, AbsResponded
    <2>6. CASE /\ Arrived(b) = {} /\ con_complete'[b] = {}
               /\ barrierStatus[b] = SIGNALED /\ barrierStatus'[b] = UNSIGNALED
      <3>1. /\ AbsEvent /\ AbsEvent' = FALSE /\ AbsArrived = {} /\ AbsResponded' = {}
        BY <2>6, StatusAssumption DEF AbsEvent, AbsArrived, AbsResponded, b
      <3>2. Promise!End
        BY <2>3, <2>4, <3>1
           DEF Promise!End, AbsEvent, AbsArrived, AbsPassed, AbsResponded
      <3> QED
        BY <3>2 DEF Promise!Next
    <2> QED
      BY <2>2, <2>5, <2>6
  <1> QED
    BY <1>2, <1>3

\* Every step of the test is one of the promised barrier's, or changes nothing
\* that it speaks of.
LEMMA NextTestMaps ==
    TestInv /\ TestInv' /\ [TestNext]_testVars => [Promise!Next]_(Promise!vars)
  <1> SUFFICES ASSUME TestInv, TestInv', [TestNext]_testVars
               PROVE  [Promise!Next]_(Promise!vars)
    OBVIOUS
  <1>1. CASE DoSignal
    BY <1>1, SignallerMaps
  <1>2. ASSUME NEW t \in Waiter, DoWait(t) PROVE [Promise!Next]_(Promise!vars)
    <2>1. t \in Thread
      BY DEF Waiter
    <2> QED
      BY <1>2, <2>1, WaiterMaps
  <1>3. ASSUME NEW t \in Thread, Respond(t) PROVE [Promise!Next]_(Promise!vars)
    BY <1>3, RespondMaps
  <1>4. ASSUME NEW t \in Thread, Continue(t) PROVE [Promise!Next]_(Promise!vars)
    BY <1>4, WaiterMaps, SignallerMaps DEF Continue
  <1>5. CASE UNCHANGED testVars
    BY <1>5 DEF testVars, barrierVars, Promise!vars, Arrived
  <1> QED
    BY <1>1, <1>2, <1>3, <1>4, <1>5 DEF TestNext

\* The promised barrier starts with nobody there and no event.
LEMMA InitTestMaps == TestInit => Promise!Init
  <1> SUFFICES ASSUME TestInit PROVE Promise!Init
    OBVIOUS
  <1>1. TheBarrier \in Id
    BY ClientAssumption DEF TheBarrier
  <1>2. barrierStatus[TheBarrier] = UNSIGNALED /\ con_complete[TheBarrier] = {}
    BY <1>1 DEF TestInit, BarrierInit
  <1>3. \A t \in Thread : pc[t] = "out"
    BY DEF TestInit, BarrierInit
  <1> QED
    BY <1>2, <1>3, StatusAssumption DEF Promise!Init, Arrived

(***************************************************************************)
(* The event barrier keeps its promise, module Barrier, for any number of  *)
(* threads: a thread returns from Wait only during an event, and from      *)
(* Complete and Signal only when all that arrived have responded.          *)
(***************************************************************************)
THEOREM BarrierImplemented == TestSpec => ImplementsBarrier
  <1>1. TestSpec => []TestInv
    BY InitTest, NextTest, PTL DEF TestSpec
  <1> QED
    BY <1>1, InitTestMaps, NextTestMaps, PTL DEF TestSpec, ImplementsBarrier, Promise!Spec

-----------------------------------------------------------------------------
(* The elevator.                                                           *)

buildingVars == <<barrierVars, liftVars>>

LiftSpec == (BarrierInit /\ LiftInit) /\ [][LiftNext]_buildingVars

\* Riders inside the elevator: occupancy is their number.
Aboard == {r \in Rider : trip[r] \in {"board", "ride", "exit"}}

OccupancyExact == IsFiniteSet(Aboard) /\ occupancy = Cardinality(Aboard)

\* Where a rider is in the barriers, and which barrier it waits on.
RiderExact(r) ==
    /\ trip[r] \in {"start", "call", "board", "done"} => pc[r] = "out"
    /\ trip[r] \in {"await", "ride"} => pc[r] \in {"inWait", "passed"}
    /\ trip[r] \in {"enter", "exit"} => pc[r] \in {"inComplete", "out"}
    /\ trip[r] = "call"  => \E d \in {UP, DOWN} : target[r] = <<"In", d, from[r]>>
    /\ trip[r] = "await" => \E d \in {UP, DOWN} : at[r] = <<"In", d, from[r]>>
    /\ trip[r] = "board" => \E d \in {UP, DOWN} : target[r] = <<"Out", d, to[r]>>
    /\ trip[r] = "ride"  => \E d \in {UP, DOWN} : at[r] = <<"Out", d, to[r]>>

\* While the elevator is in a Signal, the door is at its floor, in its direction.
DoorOpen ==
    pc[Lift] = "inSignal" =>
        \/ stage = "openIn" /\ at[Lift] = <<"Out", dir, currentfloor>>
        \/ stage = "close"  /\ at[Lift] = <<"In", dir, currentfloor>>

(***************************************************************************)
(* What RightDoor rests on: what holds of any use of the barriers with one *)
(* signaller, the door that is open, and where each rider waits.           *)
(***************************************************************************)
LiftInv ==
    /\ LiftTypeOK /\ EventInv(Lift) /\ OccupancyExact
    /\ DoorOpen
    /\ \A r \in Rider : RiderExact(r)

\* The doors are the barriers.
LEMMA DoorIds ==
    ASSUME NEW x \in {"In", "Out"}, NEW d \in {UP, DOWN}, NEW f \in Floor
    PROVE  <<x, d, f>> \in Id
  BY DoorsAssumption DEF Doors

\* A door is its kind, its direction and its floor: equal doors have equal parts.
LEMMA SameDoor ==
    ASSUME NEW x, NEW d, NEW f, NEW y, NEW e, NEW g, <<x, d, f>> = <<y, e, g>>
    PROVE  x = y /\ d = e /\ f = g
  OBVIOUS

\* A rider that has been let through is at the door that is open.
LEMMA PassedAtDoor ==
    ASSUME LiftInv, NEW r \in Rider, pc[r] = "passed"
    PROVE  pc[Lift] = "inSignal" /\ at[r] = at[Lift] /\ waiter_num[at[r]] # 0 /\ at[r] \in Id
  <1> DEFINE b == at[r]
  <1>1. /\ r \in Thread /\ BarrierTypeOK /\ QueuesHonest(Lift) /\ CountExact /\ EventExact(Lift)
    BY ElevatorAssumption DEF LiftInv, EventInv
  <1>2. b \in Id /\ r \in Arrived(b) /\ r \notin con_wait[b]
    BY <1>1 DEF BarrierTypeOK, Arrived, QueuesHonest
  <1>3. barrierStatus[b] = SIGNALED
    BY <1>1, <1>2 DEF BarrierTypeOK, EventExact
  <1>4. waiter_num[b] # 0
    BY <1>1, <1>2, CountZero
  <1> QED
    BY <1>1, <1>2, <1>3, <1>4 DEF EventExact

\* Somebody at a door of this floor makes current_floor_have() true.
LEMMA FloorHave ==
    ASSUME LiftInv, NEW x \in {"In", "Out"}, waiter_num[<<x, dir, currentfloor>>] # 0
    PROVE  current_floor_have # 0
  <1> DEFINE a == waiter_num[<<"In", UP, currentfloor>>]
             b == waiter_num[<<"Out", UP, currentfloor>>]
             c == waiter_num[<<"In", DOWN, currentfloor>>]
             d == waiter_num[<<"Out", DOWN, currentfloor>>]
  <1>1. waiter_num \in [Id -> Nat] /\ currentfloor \in Floor /\ dir \in {UP, DOWN}
    BY DEF LiftInv, LiftTypeOK, BarrierTypeOK
  <1>2. a \in Nat /\ b \in Nat /\ c \in Nat /\ d \in Nat
    BY <1>1, DoorIds
  <1>3. a # 0 \/ b # 0 \/ c # 0 \/ d # 0
    BY <1>1
  <1> HIDE DEF a, b, c, d
  <1>4. a + b + c + d # 0
    BY <1>2, <1>3
  <1> QED
    BY <1>4 DEF a, b, c, d, current_floor_have, PeopleAt

\* So the invariant gives what the run checks.
LEMMA LiftInvSuffices ==
    ASSUME LiftInv
    PROVE  RightDoor /\ NobodyLeftBehind
  <1>1. NobodyLeftBehind
    BY ElevatorAssumption, EventInvSuffices DEF LiftInv
  <1>2. LiftTypeOK
    BY DEF LiftInv
  <1>3. ASSUME NEW r \in Rider, trip[r] \in {"await", "ride"}, pc[r] = "passed"
        PROVE  /\ at[r] = <<IF trip[r] = "await" THEN "In" ELSE "Out", dir, currentfloor>>
               /\ currentfloor = IF trip[r] = "await" THEN from[r] ELSE to[r]
               /\ current_floor_have # 0
               /\ stage \notin {"visit", "quit"}
    <2>1. pc[Lift] = "inSignal" /\ at[r] = at[Lift] /\ waiter_num[at[r]] # 0
      BY <1>3, PassedAtDoor
    <2>2. PICK x \in {"In", "Out"} : at[r] = <<x, dir, currentfloor>>
      BY <2>1 DEF LiftInv, DoorOpen
    <2>3. stage \in {"openIn", "close"}
      BY <2>1 DEF LiftInv, DoorOpen
    <2>4. current_floor_have # 0
      BY <2>1, <2>2, FloorHave
    <2>5. CASE trip[r] = "await"
      <3>1. PICK d \in {UP, DOWN} : at[r] = <<"In", d, from[r]>>
        BY <2>5 DEF LiftInv, RiderExact
      <3>2. x = "In" /\ currentfloor = from[r]
        BY <2>2, <3>1, SameDoor
      <3> QED
        BY <2>2, <2>3, <2>4, <2>5, <3>2
    <2>6. CASE trip[r] = "ride"
      <3>1. PICK d \in {UP, DOWN} : at[r] = <<"Out", d, to[r]>>
        BY <2>6 DEF LiftInv, RiderExact
      <3>2. x = "Out" /\ currentfloor = to[r]
        BY <2>2, <3>1, SameDoor
      <3> QED
        BY <2>2, <2>3, <2>4, <2>6, <3>2
    <2> QED
      BY <1>3, <2>5, <2>6
  <1>4. stage \in {"visit", "quit"} => \A b \in Id : barrierStatus[b] = UNSIGNALED
    <2>1. stage \in {"visit", "quit"} => pc[Lift] # "inSignal"
      BY DEF LiftInv, DoorOpen
    <2> QED
      BY <2>1 DEF LiftInv, EventInv, EventExact, BarrierTypeOK
  <1> QED
    BY <1>1, <1>2, <1>3, <1>4 DEF RightDoor

\* At the start everybody is outside.
LEMMA InitLift == BarrierInit /\ LiftInit => LiftInv
  <1> SUFFICES ASSUME BarrierInit, LiftInit PROVE LiftInv
    OBVIOUS
  <1>0. 1 \in Floor /\ Id # {} /\ Lift \in Thread /\ Rider \subseteq Thread
    <2>1. 1 \in Floor
      BY ElevatorAssumption DEF Floor
    <2>2. <<"In", UP, 1>> \in Id
      BY <2>1, DoorIds
    <2> QED
      BY <2>1, <2>2, ElevatorAssumption
  <1>1. EventInv(Lift)
    BY <1>0, InitEvent
  <1>2. 1..(NumFloors - 1) \subseteq Floor
    BY ElevatorAssumption DEF Floor
  <1>3. LiftTypeOK
    <2>1. BarrierTypeOK
      BY <1>1 DEF EventInv
    <2>2. (CHOOSE b \in Id : TRUE) \in Id
      BY <1>0
    <2>3. /\ target \in [Rider -> Id] /\ trip \in [Rider -> Trip]
          /\ from \in [Rider -> Floor] /\ to \in [Rider -> Floor]
      BY <1>2, <2>2 DEF LiftInit, Trip
    <2>4. callDir \in [Floor -> {UP, DOWN, BOTH}] /\ dir \in {UP, DOWN}
      BY DEF LiftInit
    <2> QED
      BY <1>0, <2>1, <2>3, <2>4 DEF LiftInit, LiftTypeOK, Stage
  <1>4. OccupancyExact
    <2>1. Aboard = {}
      BY DEF LiftInit, Aboard
    <2> QED
      BY <2>1, FS_EmptySet DEF LiftInit, OccupancyExact
  <1>5. DoorOpen /\ \A r \in Rider : RiderExact(r)
    BY <1>0 DEF LiftInit, BarrierInit, DoorOpen, RiderExact
  <1> QED
    BY <1>1, <1>3, <1>4, <1>5 DEF LiftInv

\* The elevator's own steps outside the barriers.
LiftMoves == LiftStart \/ Quit \/ Stop \/ Pass \/ CloseDoors

\* They happen with no door open, and stay inside the building.
LEMMA LiftMovesInv ==
    ASSUME LiftInv, LiftMoves
    PROVE  LiftInv'
  <1>0. /\ LiftTypeOK /\ EventInv(Lift) /\ OccupancyExact
        /\ \A r \in Rider : RiderExact(r)
        /\ UNCHANGED <<barrierVars, occupancy, trip, from, to, target>>
    BY DEF LiftInv, LiftMoves, LiftStart, Quit, Stop, Pass, CloseDoors
  <1>1. /\ UNCHANGED <<barrierStatus, waiter_num, con_wait, con_signal, con_complete, pc, at>>
        /\ UNCHANGED <<occupancy, trip, from, to, target>>
    BY <1>0 DEF barrierVars
  <1>2. pc[Lift] # "inSignal"
    BY DEF LiftInv, DoorOpen, LiftMoves, LiftStart, Quit, Stop, Pass, CloseDoors
  <1>3. EventInv(Lift)'
    BY <1>0, <1>1 DEF EventInv, BarrierTypeOK, QueuesHonest, CountExact, OnlySignals,
                      EventExact, Arrived
  <1>4. OccupancyExact' /\ (\A r \in Rider : RiderExact(r))' /\ DoorOpen'
    BY <1>0, <1>1, <1>2 DEF OccupancyExact, Aboard, RiderExact, DoorOpen
  <1>5. currentfloor' \in Floor /\ dir' \in {UP, DOWN}
    <2>1. currentfloor \in Floor /\ dir \in {UP, DOWN} /\ -dir \in {UP, DOWN}
      BY <1>0 DEF LiftTypeOK, UP, DOWN
    <2>2. CASE UNCHANGED <<currentfloor, dir>>
      BY <2>1, <2>2
    <2>3. CASE Advance
      BY <2>1, <2>3 DEF Advance
    <2> QED
      BY <2>2, <2>3 DEF LiftMoves, LiftStart, Quit, Stop, Pass, CloseDoors
  <1>6. stage' \in Stage
    BY <1>0 DEF LiftTypeOK, Stage, LiftMoves, LiftStart, Quit, Stop, Pass, CloseDoors
  <1>7. callDir' \in [Floor -> {UP, DOWN, BOTH}]
    <2>1. callDir \in [Floor -> {UP, DOWN, BOTH}]
      BY <1>0 DEF LiftTypeOK
    <2>2. callDir' = callDir \/ callDir' = [callDir EXCEPT ![currentfloor] = BOTH]
      BY DEF LiftMoves, LiftStart, Quit, Stop, Pass, CloseDoors
    <2> QED
      BY <2>1, <2>2
  <1>8. LiftTypeOK'
    BY <1>0, <1>1, <1>3, <1>5, <1>6, <1>7 DEF LiftTypeOK, EventInv
  <1> QED
    BY <1>3, <1>4, <1>8 DEF LiftInv

\* The elevator's calls of Signal.
LiftSignals == OpenOut \/ OpenIn \/ LiftResume

\* A step of the elevator that signals a barrier keeps the invariant.
LEMMA LiftSignalsInv ==
    ASSUME LiftInv, LiftSignals
    PROVE  LiftInv'
  <1>0. /\ LiftTypeOK /\ EventInv(Lift) /\ BarrierTypeOK /\ OccupancyExact /\ DoorOpen
        /\ \A r \in Rider : RiderExact(r)
        /\ UNCHANGED <<currentfloor, dir, occupancy, callDir, trip, from, to, target>>
        /\ Lift \in Thread /\ \A r \in Rider : r # Lift /\ r \in Thread
        /\ dir \in {UP, DOWN} /\ currentfloor \in Floor
    BY ElevatorAssumption
       DEF LiftInv, LiftTypeOK, EventInv, LiftSignals, OpenOut, OpenIn, LiftResume, liftVars
  <1>1. /\ EventInv(Lift)' /\ stage' \in Stage /\ DoorOpen'
        /\ \A r \in Rider : pc'[r] = pc[r] /\ at'[r] = at[r]
    <2>1. ASSUME NEW x \in {"In", "Out"}, SignalCall(Lift, <<x, dir, currentfloor>>),
                 \/ x = "Out" /\ stage' = "openIn"
                 \/ x = "In" /\ stage' = "close"
          PROVE  /\ EventInv(Lift)' /\ stage' \in Stage /\ DoorOpen'
                 /\ \A r \in Rider : pc'[r] = pc[r] /\ at'[r] = at[r]
      <3> DEFINE b == <<x, dir, currentfloor>>
      <3>1. b \in Id
        BY <1>0, DoorIds
      <3>2. SignalCall(Lift, b)
        BY <2>1
      <3> HIDE DEF b
      <3>3. /\ EventInv(Lift)' /\ at' = [at EXCEPT ![Lift] = b]
            /\ \A u \in Thread : u # Lift => pc'[u] = pc[u]
        BY <1>0, <3>1, <3>2, SignalCallInv
      <3>4. at'[Lift] = b /\ \A u \in Thread : u # Lift => at'[u] = at[u]
        BY <1>0, <3>3 DEF BarrierTypeOK
      <3>5. stage' \in Stage
        BY <2>1 DEF Stage
      <3>6. DoorOpen'
        BY <1>0, <2>1, <3>4 DEF DoorOpen, b
      <3> QED
        BY <1>0, <3>3, <3>4, <3>5, <3>6
    <2>2. CASE LiftResume
      <3>1. SignalResume(Lift) /\ UNCHANGED <<stage, dir, currentfloor>>
        BY <2>2 DEF LiftResume, liftVars
      <3>2. /\ EventInv(Lift)' /\ pc[Lift] = "inSignal" /\ UNCHANGED at
            /\ \A u \in Thread : u # Lift => pc'[u] = pc[u]
        BY <1>0, <3>1, SignalResumeInv
      <3>3. DoorOpen' /\ stage' \in Stage
        BY <1>0, <3>1, <3>2 DEF DoorOpen, LiftTypeOK
      <3> QED
        BY <1>0, <3>2, <3>3
    <2> QED
      BY <2>1, <2>2 DEF LiftSignals, OpenOut, OpenIn
  <1>2. LiftTypeOK'
    BY <1>0, <1>1 DEF LiftTypeOK, EventInv
  <1>3. OccupancyExact'
    BY <1>0 DEF OccupancyExact, Aboard
  <1>4. (\A r \in Rider : RiderExact(r))'
    BY <1>0, <1>1 DEF RiderExact
  <1> QED
    BY <1>1, <1>2, <1>3, <1>4 DEF LiftInv

\* A rider's step keeps the invariant when it keeps what is said of that rider.
LEMMA RiderKeeps ==
    ASSUME LiftInv, NEW r \in Rider, EventInv(Lift)', RiderExact(r)',
           UNCHANGED <<currentfloor, dir, stage, from, to>>,
           \A u \in Thread : u # r => pc'[u] = pc[u] /\ at'[u] = at[u],
           \A u \in Rider : u # r => trip'[u] = trip[u] /\ target'[u] = target[u],
           trip' \in [Rider -> Trip], target' \in [Rider -> Id],
           callDir' \in [Floor -> {UP, DOWN, BOTH}],
           occupancy' \in Nat, OccupancyExact'
    PROVE  LiftInv'
  <1>0. /\ LiftTypeOK /\ DoorOpen /\ \A u \in Rider : RiderExact(u)
        /\ Lift \in Thread /\ Lift # r /\ Rider \subseteq Thread
    BY ElevatorAssumption DEF LiftInv
  <1>1. LiftTypeOK'
    BY <1>0 DEF LiftTypeOK, EventInv
  <1>2. DoorOpen'
    BY <1>0 DEF DoorOpen
  <1>3. ASSUME NEW u \in Rider PROVE RiderExact(u)'
    <2>1. CASE u = r
      BY <2>1
    <2>2. CASE u # r
      <3>1. /\ pc'[u] = pc[u] /\ at'[u] = at[u] /\ trip'[u] = trip[u]
            /\ target'[u] = target[u] /\ RiderExact(u)
        BY <1>0, <2>2
      <3> QED
        BY <3>1 DEF RiderExact
    <2> QED
      BY <2>1, <2>2
  <1> QED
    BY <1>1, <1>2, <1>3 DEF LiftInv

\* What every step of a rider does.
LEMMA TravelFacts ==
    ASSUME LiftInv, NEW r \in Rider, NEW here \in Trip, NEW there \in Trip,
           Travel(r, here, there)
    PROVE  /\ trip[r] = here /\ trip' \in [Rider -> Trip]
           /\ \A u \in Rider : trip'[u] = IF u = r THEN there ELSE trip[u]
           /\ UNCHANGED <<currentfloor, dir, stage, from, to>>
  BY DEF Travel, LiftInv, LiftTypeOK

\* A button pressed is a legal value of callDir.
LEMMA PressType ==
    ASSUME LiftInv, NEW f, NEW d \in {UP, DOWN}, Press(f, d)
    PROVE  callDir' \in [Floor -> {UP, DOWN, BOTH}]
  BY DEF LiftInv, LiftTypeOK, Press

\* A rider calls the elevator.
LEMMA CallLiftInv ==
    ASSUME LiftInv, NEW r \in Rider, CallLift(r)
    PROVE  LiftInv'
  <1> DEFINE d == IF from[r] < to[r] THEN UP ELSE DOWN
  <1>0. /\ Travel(r, "start", "call") /\ Press(from[r], d)
        /\ target' = [target EXCEPT ![r] = <<"In", d, from[r]>>]
        /\ UNCHANGED <<barrierVars, occupancy>>
    BY DEF CallLift
  <1>1. d \in {UP, DOWN}
    OBVIOUS
  <1> HIDE DEF d
  <1>2. /\ trip[r] = "start" /\ trip' \in [Rider -> Trip]
        /\ \A u \in Rider : trip'[u] = IF u = r THEN "call" ELSE trip[u]
        /\ UNCHANGED <<currentfloor, dir, stage, from, to>>
    <2>1. "start" \in Trip /\ "call" \in Trip
      BY DEF Trip
    <2> QED
      BY <1>0, <2>1, TravelFacts
  <1>3. /\ UNCHANGED <<barrierStatus, waiter_num, con_wait, con_signal, con_complete, pc, at>>
        /\ UNCHANGED occupancy
    BY <1>0 DEF barrierVars
  <1>4. callDir' \in [Floor -> {UP, DOWN, BOTH}]
    BY <1>0, <1>1, PressType
  <1>5. EventInv(Lift)'
    BY <1>3 DEF LiftInv, EventInv, BarrierTypeOK, QueuesHonest, CountExact, OnlySignals,
                EventExact, Arrived
  <1>6. /\ target' \in [Rider -> Id]
        /\ \A u \in Rider : target'[u] = IF u = r THEN <<"In", d, from[r]>> ELSE target[u]
    <2>1. from[r] \in Floor /\ target \in [Rider -> Id]
      BY DEF LiftInv, LiftTypeOK
    <2>2. <<"In", d, from[r]>> \in Id
      BY <1>1, <2>1, DoorIds
    <2> QED
      BY <1>0, <2>1, <2>2
  <1>7. OccupancyExact' /\ occupancy' \in Nat
    <2>1. Aboard' = Aboard
      BY <1>2 DEF Aboard
    <2> QED
      BY <1>3, <2>1 DEF LiftInv, LiftTypeOK, OccupancyExact
  <1>8. RiderExact(r)'
    <2>1. pc[r] = "out"
      BY <1>2 DEF LiftInv, RiderExact
    <2>2. trip'[r] = "call" /\ pc'[r] = "out" /\ target'[r] = <<"In", d, from'[r]>>
      BY <1>2, <1>3, <1>6, <2>1
    <2> QED
      BY <1>1, <2>2 DEF RiderExact
  <1> QED
    BY <1>2, <1>3, <1>4, <1>5, <1>6, <1>7, <1>8, RiderKeeps

\* A rider has entered and asks for its floor.
LEMMA RequestFloorInv ==
    ASSUME LiftInv, NEW r \in Rider, RequestFloor(r)
    PROVE  LiftInv'
  <1>0. /\ Travel(r, "enter", "board") /\ Press(to[r], dir) /\ pc[r] = "out"
        /\ target' = [target EXCEPT ![r] = <<"Out", dir, to[r]>>]
        /\ occupancy' = occupancy + 1 /\ UNCHANGED barrierVars
    BY DEF RequestFloor
  <1>1. dir \in {UP, DOWN} /\ to[r] \in Floor /\ target \in [Rider -> Id]
    BY DEF LiftInv, LiftTypeOK
  <1>2. /\ trip[r] = "enter" /\ trip' \in [Rider -> Trip]
        /\ \A u \in Rider : trip'[u] = IF u = r THEN "board" ELSE trip[u]
        /\ UNCHANGED <<currentfloor, dir, stage, from, to>>
    <2>1. "enter" \in Trip /\ "board" \in Trip
      BY DEF Trip
    <2> QED
      BY <1>0, <2>1, TravelFacts
  <1>3. UNCHANGED <<barrierStatus, waiter_num, con_wait, con_signal, con_complete, pc, at>>
    BY <1>0 DEF barrierVars
  <1>4. callDir' \in [Floor -> {UP, DOWN, BOTH}]
    BY <1>0, <1>1, PressType
  <1>5. EventInv(Lift)'
    BY <1>3 DEF LiftInv, EventInv, BarrierTypeOK, QueuesHonest, CountExact, OnlySignals,
                EventExact, Arrived
  <1>6. /\ target' \in [Rider -> Id]
        /\ \A u \in Rider : target'[u] = IF u = r THEN <<"Out", dir, to[r]>> ELSE target[u]
    <2>1. <<"Out", dir, to[r]>> \in Id
      BY <1>1, DoorIds
    <2> QED
      BY <1>0, <1>1, <2>1
  <1>7. OccupancyExact' /\ occupancy' \in Nat
    <2>1. Aboard' = Aboard \cup {r} /\ r \notin Aboard
      BY <1>2 DEF Aboard
    <2>2. IsFiniteSet(Aboard) /\ occupancy = Cardinality(Aboard) /\ occupancy \in Nat
      BY DEF LiftInv, LiftTypeOK, OccupancyExact
    <2>3. IsFiniteSet(Aboard \cup {r}) /\ Cardinality(Aboard \cup {r}) = Cardinality(Aboard) + 1
      BY <2>1, <2>2, FS_AddElement
    <2> QED
      BY <1>0, <2>1, <2>2, <2>3 DEF OccupancyExact
  <1>8. RiderExact(r)'
    <2>1. trip'[r] = "board" /\ pc'[r] = "out" /\ target'[r] = <<"Out", dir, to'[r]>>
      BY <1>0, <1>2, <1>3, <1>6
    <2> QED
      BY <1>1, <2>1 DEF RiderExact
  <1> QED
    BY <1>2, <1>3, <1>4, <1>5, <1>6, <1>7, <1>8, RiderKeeps

\* A rider has left.
LEMMA LeaveInv ==
    ASSUME LiftInv, NEW r \in Rider, Leave(r)
    PROVE  LiftInv'
  <1>0. /\ Travel(r, "exit", "done") /\ pc[r] = "out"
        /\ occupancy' = occupancy - 1 /\ UNCHANGED <<barrierVars, callDir, target>>
    BY DEF Leave
  <1>1. /\ trip[r] = "exit" /\ trip' \in [Rider -> Trip]
        /\ \A u \in Rider : trip'[u] = IF u = r THEN "done" ELSE trip[u]
        /\ UNCHANGED <<currentfloor, dir, stage, from, to>>
    <2>1. "exit" \in Trip /\ "done" \in Trip
      BY DEF Trip
    <2> QED
      BY <1>0, <2>1, TravelFacts
  <1>2. /\ UNCHANGED <<barrierStatus, waiter_num, con_wait, con_signal, con_complete, pc, at>>
        /\ UNCHANGED <<callDir, target>>
    BY <1>0 DEF barrierVars
  <1>3. EventInv(Lift)'
    BY <1>2 DEF LiftInv, EventInv, BarrierTypeOK, QueuesHonest, CountExact, OnlySignals,
                EventExact, Arrived
  <1>4. target' \in [Rider -> Id] /\ callDir' \in [Floor -> {UP, DOWN, BOTH}]
    BY <1>2 DEF LiftInv, LiftTypeOK
  <1>5. OccupancyExact' /\ occupancy' \in Nat
    <2>1. Aboard' = Aboard \ {r} /\ r \in Aboard
      BY <1>1 DEF Aboard
    <2>2. IsFiniteSet(Aboard) /\ occupancy = Cardinality(Aboard) /\ occupancy \in Nat
      BY DEF LiftInv, LiftTypeOK, OccupancyExact
    <2>3. IsFiniteSet(Aboard \ {r}) /\ Cardinality(Aboard \ {r}) = Cardinality(Aboard) - 1
      BY <2>1, <2>2, FS_RemoveElement
    <2>4. Cardinality(Aboard \ {r}) \in Nat
      BY <2>3, FS_CardinalityType
    <2> QED
      BY <1>0, <2>1, <2>2, <2>3, <2>4 DEF OccupancyExact
  <1>6. RiderExact(r)'
    <2>1. trip'[r] = "done" /\ pc'[r] = "out"
      BY <1>0, <1>1, <1>2
    <2> QED
      BY <2>1 DEF RiderExact
  <1> QED
    BY <1>1, <1>2, <1>3, <1>4, <1>5, <1>6, RiderKeeps

\* A rider waits at its floor, or on board.
LEMMA RiderWaitsInv ==
    ASSUME LiftInv, NEW r \in Rider, Await(r) \/ Ride(r)
    PROVE  LiftInv'
  <1>0. /\ r \in Thread /\ Lift \in Thread /\ r # Lift
        /\ EventInv(Lift) /\ BarrierTypeOK /\ OccupancyExact /\ LiftTypeOK /\ RiderExact(r)
        /\ target[r] \in Id
    BY ElevatorAssumption DEF LiftInv, EventInv, LiftTypeOK
  <1>1. PICK here \in {"call", "board"}, there \in {"await", "ride"} :
          /\ here = "call" <=> there = "await"
          /\ Travel(r, here, there)
    BY DEF Await, Ride
  <1>2. WaitCall(r, target[r]) /\ UNCHANGED <<occupancy, callDir, target>>
    BY DEF Await, Ride
  <1>3. /\ trip[r] = here /\ trip' \in [Rider -> Trip]
        /\ \A u \in Rider : trip'[u] = IF u = r THEN there ELSE trip[u]
        /\ UNCHANGED <<currentfloor, dir, stage, from, to>>
    <2>1. here \in Trip /\ there \in Trip
      BY DEF Trip
    <2> QED
      BY <1>1, <2>1, TravelFacts
  <1>4. EventInv(Lift)'
    BY <1>0, <1>2, WaitCallInv
  <1>5. PICK new \in {"passed", "inWait"} : Go(r, target[r], "out", new)
    BY <1>2 DEF WaitCall
  <1>6. /\ pc'[r] = new /\ at'[r] = target[r]
        /\ \A u \in Thread : u # r => pc'[u] = pc[u] /\ at'[u] = at[u]
    BY <1>0, <1>5 DEF Go, BarrierTypeOK
  <1>7. OccupancyExact' /\ occupancy' \in Nat
    <2>1. Aboard' = Aboard
      BY <1>1, <1>3 DEF Aboard
    <2> QED
      BY <1>0, <1>2, <2>1 DEF LiftTypeOK, OccupancyExact
  <1>8. RiderExact(r)'
    <2>1. trip'[r] = there /\ pc'[r] \in {"passed", "inWait"} /\ at'[r] = target[r]
          /\ from' = from /\ to' = to
      BY <1>3, <1>6
    <2>2. /\ there = "await" => \E d \in {UP, DOWN} : target[r] = <<"In", d, from[r]>>
          /\ there = "ride" => \E d \in {UP, DOWN} : target[r] = <<"Out", d, to[r]>>
      BY <1>0, <1>1, <1>3 DEF RiderExact
    <2> QED
      BY <2>1, <2>2 DEF RiderExact
  <1>9. target' \in [Rider -> Id] /\ callDir' \in [Floor -> {UP, DOWN, BOTH}]
    BY <1>0, <1>2 DEF LiftTypeOK
  <1> QED
    BY <1>2, <1>3, <1>4, <1>6, <1>7, <1>8, <1>9, RiderKeeps

\* A rider that has been let through tells so, at the door it waited on.
LEMMA RiderCompletesInv ==
    ASSUME LiftInv, NEW r \in Rider, Enter(r) \/ Exit(r)
    PROVE  LiftInv'
  <1>0. /\ r \in Thread /\ Lift \in Thread /\ r # Lift
        /\ EventInv(Lift) /\ BarrierTypeOK /\ OccupancyExact /\ LiftTypeOK
    BY ElevatorAssumption DEF LiftInv, EventInv
  <1>1. PICK here \in {"await", "ride"}, there \in {"enter", "exit"} :
          /\ here = "await" <=> there = "enter"
          /\ Travel(r, here, there)
          /\ CompleteCall(r, <<IF here = "await" THEN "In" ELSE "Out", dir, currentfloor>>)
    BY DEF Enter, Exit
  <1>2. pc[r] = "passed" /\ UNCHANGED <<occupancy, callDir, target>>
    BY DEF Enter, Exit
  <1>3. /\ trip[r] = here /\ trip' \in [Rider -> Trip]
        /\ \A u \in Rider : trip'[u] = IF u = r THEN there ELSE trip[u]
        /\ UNCHANGED <<currentfloor, dir, stage, from, to>>
    <2>1. here \in Trip /\ there \in Trip
      BY DEF Trip
    <2> QED
      BY <1>1, <2>1, TravelFacts
  <1>4. CompleteCall(r, at[r]) /\ at[r] \in Id
    <2>1. at[r] = <<IF here = "await" THEN "In" ELSE "Out", dir, currentfloor>>
      BY <1>2, <1>3, LiftInvSuffices DEF RightDoor
    <2> QED
      BY <1>0, <1>1, <2>1 DEF BarrierTypeOK
  <1>5. EventInv(Lift)' /\ UNCHANGED at
    BY <1>0, <1>4, CompleteCallInv
  <1>6. PICK new \in {"out", "inComplete"} : Go(r, at[r], "passed", new)
    BY <1>4 DEF CompleteCall
  <1>7. /\ pc'[r] = new
        /\ \A u \in Thread : u # r => pc'[u] = pc[u] /\ at'[u] = at[u]
    BY <1>0, <1>5, <1>6 DEF Go, BarrierTypeOK
  <1>8. OccupancyExact' /\ occupancy' \in Nat
    <2>1. Aboard' = Aboard
      BY <1>1, <1>3 DEF Aboard
    <2> QED
      BY <1>0, <1>2, <2>1 DEF LiftTypeOK, OccupancyExact
  <1>9. RiderExact(r)'
    <2>1. trip'[r] = there /\ pc'[r] \in {"out", "inComplete"}
      BY <1>3, <1>7
    <2> QED
      BY <2>1 DEF RiderExact
  <1>10. target' \in [Rider -> Id] /\ callDir' \in [Floor -> {UP, DOWN, BOTH}]
    BY <1>0, <1>2 DEF LiftTypeOK
  <1> QED
    BY <1>2, <1>3, <1>5, <1>7, <1>8, <1>9, <1>10, RiderKeeps

\* A rider returns from Wait or from Complete.
LEMMA RiderResumeInv ==
    ASSUME LiftInv, NEW r \in Rider, RiderResume(r)
    PROVE  LiftInv'
  <1>0. /\ r \in Thread /\ Lift \in Thread /\ r # Lift
        /\ EventInv(Lift) /\ BarrierTypeOK /\ OccupancyExact /\ LiftTypeOK /\ RiderExact(r)
        /\ UNCHANGED <<currentfloor, dir, occupancy, callDir, stage, trip, from, to, target>>
    BY ElevatorAssumption DEF LiftInv, EventInv, RiderResume, liftVars
  <1>1. EventInv(Lift)' /\ UNCHANGED at
    BY <1>0, WaitReturnInv, CompleteReturnInv DEF RiderResume
  <1>2. PICK old \in {"inWait", "inComplete"}, new \in {"passed", "out"} :
          /\ old = "inWait" <=> new = "passed"
          /\ pc[r] = old /\ pc' = [pc EXCEPT ![r] = new]
    BY DEF RiderResume, WaitReturn, CompleteReturn, Go
  <1>3. \A u \in Thread : pc'[u] = IF u = r THEN new ELSE pc[u]
    BY <1>0, <1>2 DEF BarrierTypeOK
  <1>4. RiderExact(r)'
    BY <1>0, <1>1, <1>2, <1>3 DEF RiderExact
  <1>5. OccupancyExact' /\ occupancy' \in Nat
    BY <1>0 DEF OccupancyExact, Aboard, LiftTypeOK
  <1>6. /\ target' \in [Rider -> Id] /\ callDir' \in [Floor -> {UP, DOWN, BOTH}]
        /\ trip' \in [Rider -> Trip]
    BY <1>0 DEF LiftTypeOK
  <1> QED
    BY <1>0, <1>1, <1>3, <1>4, <1>5, <1>6, RiderKeeps

\* Every step in the building keeps the invariant.
LEMMA NextLift == LiftInv /\ [LiftNext]_buildingVars => LiftInv'
  <1> SUFFICES ASSUME LiftInv, [LiftNext]_buildingVars PROVE LiftInv'
    OBVIOUS
  <1>1. CASE LiftStep
    BY <1>1, LiftMovesInv, LiftSignalsInv DEF LiftStep, LiftMoves, LiftSignals
  <1>2. ASSUME NEW r \in Rider, RiderStep(r) PROVE LiftInv'
    BY <1>2, CallLiftInv, RequestFloorInv, LeaveInv, RiderWaitsInv, RiderCompletesInv,
       RiderResumeInv DEF RiderStep
  <1>3. CASE UNCHANGED buildingVars
    <2>1. /\ UNCHANGED <<barrierStatus, waiter_num, con_wait, con_signal, con_complete, pc, at>>
          /\ UNCHANGED <<currentfloor, dir, occupancy, callDir, stage, trip, from, to, target>>
      BY <1>3 DEF buildingVars, barrierVars, liftVars
    <2>2. EventInv(Lift)'
      BY <2>1 DEF LiftInv, EventInv, BarrierTypeOK, QueuesHonest, CountExact, OnlySignals,
                  EventExact, Arrived
    <2> QED
      BY <2>1, <2>2 DEF LiftInv, LiftTypeOK, EventInv, OccupancyExact, Aboard, DoorOpen, RiderExact
  <1> QED
    BY <1>1, <1>2, <1>3 DEF LiftNext

(***************************************************************************)
(* In a building of any height and with any number of riders, whoever is   *)
(* let through a door is at its own floor, and completes the barrier it    *)
(* waited on, although Enter and Exit read the elevator's floor and        *)
(* direction without a lock.                                               *)
(***************************************************************************)
THEOREM DoorsCorrect == LiftSpec => []RightDoor
  <1>1. LiftInv => RightDoor
    BY LiftInvSuffices
  <1> QED
    BY <1>1, InitLift, NextLift, PTL DEF LiftSpec

(***************************************************************************)
(* No event of the building's barriers leaves a rider behind.              *)
(***************************************************************************)
THEOREM LiftLeavesNobody == LiftSpec => []NobodyLeftBehind
  <1>1. LiftInv => NobodyLeftBehind
    BY LiftInvSuffices
  <1> QED
    BY <1>1, InitLift, NextLift, PTL DEF LiftSpec
==============================================================================
