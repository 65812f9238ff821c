----------------------------- MODULE AlarmProofs -----------------------------
(***************************************************************************)
(* Proofs about the alarm clock, for any number of AlarmThreads and any    *)
(* longest sleep, with and without the random timer: the condition's queue *)
(* and the pending interrupts agree, so that nobody is woken early; and    *)
(* the machine does not halt while a thread sleeps, unless a handler has   *)
(* gone to sleep.                                                          *)
(***************************************************************************)
EXTENDS Alarm, SchedulerProofs, FiniteSetTheorems

-----------------------------------------------------------------------------
(* The inductive invariant.                                                *)

\* What a thread's status says about where it is.
ThreadInv ==
    /\ SchedulerConsistent
    /\ threadToBeDestroyed \in Thread => pc[threadToBeDestroyed] = "done"
    /\ pc[Guard] \in {"loop", "done"}
    /\ \A t \in Thread :
        /\ pc[t] = "fork" => t = Main
        /\ pc[t] = "loop" => t = Guard
        /\ status[t] = "JUST_CREATED" => t # Main /\ pc[Main] = "fork" /\ pc[t] \in {"start", "loop"}
        /\ status[t] = "DELETED" => pc[t] = "done"
        /\ pc[t] = "done" => status[t] \in {"BLOCKED", "DELETED"}

\* Who waits in a queue sleeps, once, and who is not on the condition's queue
\* has slept long enough.
QueueInv ==
    /\ IsInjective(lockQueue) /\ IsInjective(conQueue)
    /\ Range(lockQueue) \cap Range(conQueue) = {}
    /\ \A t \in Range(lockQueue) : status[t] = "BLOCKED" /\ pc[t] # "done"
    /\ \A t \in Range(conQueue) : status[t] = "BLOCKED" /\ pc[t] = "asleep"
    /\ \A t \in Thread :
        pc[t] = "awake" \/ (pc[t] = "asleep" /\ t \notin Range(conQueue)) => left[t] = 0

\* The interrupts, one for each sleeper, the next one first.
Aligned ==
    /\ Len(pending) = Len(conQueue)
    /\ \A i \in 1..Len(pending) : pending[i] = left[conQueue[i]]
    /\ \A i, j \in 1..Len(pending) : i <= j => pending[i] <= pending[j]

Awaits == {"acquire", "asleep"}
Inside == {"locked", "awake"}

\* The lock has one holder, which runs or is ready to; and if the lock is free
\* and threads wait for it, one of them is on its way.
LockInv ==
    /\ \A t \in Thread :
        /\ status[t] = "BLOCKED" => pc[t] = "done" \/ t \in Range(lockQueue) \/ t \in Range(conQueue)
        /\ t \in Range(lockQueue) => pc[t] \in Awaits
    /\ isLockBusy <=> \E t \in Thread : pc[t] \in Inside
    /\ \A t, u \in Thread : pc[t] \in Inside /\ pc[u] \in Inside => t = u
    /\ lockQueue # <<>> => \/ isLockBusy
                           \/ \E t \in Thread : pc[t] \in Awaits /\ status[t] \in {"READY", "RUNNING"}

\* The threads that countAlarm counts.
Away == {"acquire", "locked", "asleep", "awake", "released"}
Started == {t \in Thread : pc[t] \in Away}

(***************************************************************************)
(* Without the random timer a thread keeps the processor until it sleeps,  *)
(* and the threads that have not started are served before those that come *)
(* back: so all have started before ProhibitExit can see that none sleeps. *)
(***************************************************************************)
Served(q, f) ==
    \A i, j \in 1..Len(q) : i < j /\ f[q[j]] = "start" => f[q[i]] \in {"start", "loop"}

NoPreemption ==
    /\ pc[Guard] = "done" => \A t \in Thread : pc[t] = "done"
    /\ pc[Main] \in {"fork", "start"} => status[Main] = "RUNNING"
    /\ pc[Main] = "fork" => \A t \in Thread \ {Main} : pc[t] \in {"start", "loop"}
    /\ \A t \in Thread :
        /\ pc[t] \in {"locked", "awake", "released"} => status[t] = "RUNNING"
        /\ pc[t] # "acquire"
    /\ (\E a \in Thread : pc[a] = "start") =>
         \A t \in Thread : /\ pc[t] \in {"fork", "loop", "start", "locked", "asleep"}
                           /\ status[t] = "RUNNING" => pc[t] # "asleep"
    /\ Served(readyList, pc)
    /\ lockQueue = <<>>

BaseInv ==
    /\ TypeOK /\ ThreadInv /\ QueueInv
    /\ countAlarm = Cardinality(Started)
    /\ ~inHandler => Aligned /\ LockInv

AlarmInv ==
    /\ BaseInv
    /\ ~inHandler /\ ~randomTimer => NoPreemption
    /\ NobodyOversleeps

-----------------------------------------------------------------------------
(* List::SortedInsert.                                                     *)

\* A set of positions that has all that come before one of its own is a beginning.
LEMMA Beginning ==
    ASSUME NEW L \in Nat, NEW S \in SUBSET (1..L),
           \A i \in S : \A j \in 1..i : j \in S
    PROVE  Cardinality(S) \in 0..L /\ \A i \in 1..L : i \in S <=> i <= Cardinality(S)
  <1> DEFINE n == Cardinality(S)
  <1>1. IsFiniteSet(1..L) /\ Cardinality(1..L) = L
    BY FS_Interval
  <1>2. IsFiniteSet(S) /\ n <= L /\ n \in Nat
    BY <1>1, FS_Subset, FS_CardinalityType
  <1>3. ASSUME NEW i \in S PROVE i <= n
    <2>1. i \in 1..L /\ 1..i \in SUBSET S
      BY <1>3
    <2>2. Cardinality(1..i) = i
      BY <2>1, FS_Interval
    <2>3. Cardinality(1..i) <= n
      BY <1>2, <2>1, FS_Subset
    <2> QED
      BY <2>2, <2>3
  <1>4. ASSUME NEW i \in 1..L, i <= n, i \notin S PROVE FALSE
    <2>1. \A j \in S : j < i
      BY <1>4
    <2>2. S \in SUBSET (1..(i - 1)) /\ i - 1 \in Nat
      BY <2>1
    <2>3. IsFiniteSet(1..(i - 1)) /\ Cardinality(1..(i - 1)) = i - 1
      BY <2>2, FS_Interval
    <2>4. n <= i - 1
      BY <2>2, <2>3, FS_Subset
    <2> QED
      BY <1>2, <1>4, <2>4
  <1> QED
    BY <1>2, <1>3, <1>4

Insertion(q, x, n) == SubSeq(q, 1, n) \o <<x>> \o SubSeq(q, n + 1, Len(q))

\* The list r has the items of q, and x behind the first n.
Inserted(r, q, x, n) ==
    /\ Len(r) = Len(q) + 1
    /\ \A i \in 1..(Len(q) + 1) : r[i] = IF i <= n THEN q[i] ELSE IF i = n + 1 THEN x ELSE q[i - 1]

\* What the list is after an item is inserted behind the first n.
LEMMA InsertionAt ==
    ASSUME NEW S, NEW q \in Seq(S), NEW x \in S, NEW n \in 0..Len(q)
    PROVE  Insertion(q, x, n) \in Seq(S) /\ Inserted(Insertion(q, x, n), q, x, n)
  <1> DEFINE a == SubSeq(q, 1, n)
             c == SubSeq(q, n + 1, Len(q))
             e == <<x>>
  <1>1. Len(q) \in Nat /\ \A i \in 1..Len(q) : q[i] \in S
    BY LenProperties, ElementOfSeq
  <1>2. /\ a \in Seq(S) /\ Len(a) = n
        /\ \A i \in 1..n : a[i] = q[i]
    BY <1>1, SubSeqProperties
  <1>3. /\ c \in Seq(S) /\ Len(c) = Len(q) - n
        /\ \A i \in 1..(Len(q) - n) : c[i] = q[n + i]
    <2>1. \A i \in (n + 1)..Len(q) : q[i] \in S
      BY <1>1
    <2>2. /\ c \in Seq(S)
          /\ Len(c) = IF n + 1 <= Len(q) THEN Len(q) - (n + 1) + 1 ELSE 0
          /\ \A i \in 1..(Len(q) - (n + 1) + 1) : c[i] = q[n + 1 + i - 1]
      BY <1>1, <2>1, SubSeqProperties
    <2> QED
      BY <1>1, <2>2
  <1>4. e \in Seq(S) /\ Len(e) = 1 /\ e[1] = x
    OBVIOUS
  <1>5. Insertion(q, x, n) = (a \o e) \o c
    BY DEF Insertion
  <1> HIDE DEF a, c, e
  <1>6. /\ a \o e \in Seq(S) /\ Len(a \o e) = n + 1
        /\ \A i \in 1..(n + 1) : (a \o e)[i] = IF i <= n THEN q[i] ELSE x
    <2>1. /\ a \o e \in Seq(S) /\ Len(a \o e) = Len(a) + Len(e)
          /\ \A i \in 1..(Len(a) + Len(e)) : (a \o e)[i] = IF i <= Len(a) THEN a[i] ELSE e[i - Len(a)]
      BY <1>2, <1>4, ConcatProperties
    <2>2. \A i \in 1..(n + 1) : i <= n \/ i - n = 1
      BY <1>1
    <2> QED
      BY <1>1, <1>2, <1>4, <2>1, <2>2
  <1>7. /\ (a \o e) \o c \in Seq(S) /\ Len((a \o e) \o c) = Len(q) + 1
        /\ \A i \in 1..(Len(q) + 1) :
              ((a \o e) \o c)[i] = IF i <= n + 1 THEN (a \o e)[i] ELSE c[i - (n + 1)]
    <2>1. /\ (a \o e) \o c \in Seq(S) /\ Len((a \o e) \o c) = Len(a \o e) + Len(c)
          /\ \A i \in 1..(Len(a \o e) + Len(c)) :
                ((a \o e) \o c)[i] = IF i <= Len(a \o e) THEN (a \o e)[i] ELSE c[i - Len(a \o e)]
      BY <1>3, <1>6, ConcatProperties
    <2>2. Len(a \o e) + Len(c) = Len(q) + 1
      BY <1>1, <1>3, <1>6
    <2> QED
      BY <1>6, <2>1, <2>2
  <1>8. ASSUME NEW i \in 1..(Len(q) + 1)
        PROVE  ((a \o e) \o c)[i] = IF i <= n THEN q[i] ELSE IF i = n + 1 THEN x ELSE q[i - 1]
    <2>1. CASE i <= n + 1
      <3>1. i \in 1..(n + 1) /\ (i <= n \/ i = n + 1)
        BY <1>1, <2>1
      <3>2. ((a \o e) \o c)[i] = (a \o e)[i]
        BY <1>7, <2>1
      <3>3. (a \o e)[i] = IF i <= n THEN q[i] ELSE x
        BY <1>6, <3>1
      <3> QED
        BY <1>1, <3>1, <3>2, <3>3
    <2>2. CASE i > n + 1
      <3>1. i - (n + 1) \in 1..(Len(q) - n) /\ n + (i - (n + 1)) = i - 1
        BY <1>1, <2>2
      <3>2. c[i - (n + 1)] = q[i - 1]
        BY <1>3, <3>1
      <3> QED
        BY <1>1, <1>7, <2>2, <3>2
    <2>3. i <= n + 1 \/ i > n + 1
      BY <1>1
    <2> QED
      BY <2>1, <2>2, <2>3
  <1> QED
    BY <1>5, <1>7, <1>8 DEF Inserted

\* The list has what it had and the new item, each once.
LEMMA InsertionRange ==
    ASSUME NEW S, NEW q \in Seq(S), NEW x \in S, NEW n \in 0..Len(q)
    PROVE  /\ Range(Insertion(q, x, n)) = Range(q) \cup {x}
           /\ IsInjective(q) /\ x \notin Range(q) => IsInjective(Insertion(q, x, n))
  <1> DEFINE r == Insertion(q, x, n)
  <1>1. /\ r \in Seq(S) /\ Len(r) = Len(q) + 1 /\ Len(q) \in Nat
        /\ \A i \in 1..(Len(q) + 1) :
              r[i] = IF i <= n THEN q[i] ELSE IF i = n + 1 THEN x ELSE q[i - 1]
        /\ DOMAIN q = 1..Len(q) /\ DOMAIN r = 1..(Len(q) + 1)
    <2>1. r \in Seq(S) /\ Inserted(r, q, x, n)
      BY InsertionAt
    <2> QED
      BY <2>1, LenProperties DEF Inserted
  <1> HIDE DEF r
  <1>2. \A i \in 1..Len(q) : /\ i <= n => r[i] = q[i]
                             /\ i > n => r[i + 1] = q[i]
    BY <1>1
  <1>3. r[n + 1] = x
    BY <1>1
  <1>4. Range(r) = Range(q) \cup {x}
    <2>1. Range(q) = {q[i] : i \in 1..Len(q)} /\ Range(r) = {r[i] : i \in 1..(Len(q) + 1)}
      BY <1>1, RangeEquality
    <2>2. \A i \in 1..(Len(q) + 1) : r[i] = x \/ \E j \in 1..Len(q) : r[i] = q[j]
      <3> TAKE i \in 1..(Len(q) + 1)
      <3>1. CASE i <= n
        BY <1>1, <3>1
      <3>2. CASE i = n + 1
        BY <1>3, <3>2
      <3>3. CASE i > n + 1
        <4>1. i - 1 \in 1..Len(q) /\ r[i] = q[i - 1]
          BY <1>1, <3>3
        <4> QED
          BY <4>1
      <3> QED
        BY <1>1, <3>1, <3>2, <3>3
    <2>3. \A j \in 1..Len(q) : \E i \in 1..(Len(q) + 1) : r[i] = q[j]
      BY <1>1, <1>2
    <2>4. n + 1 \in 1..(Len(q) + 1)
      BY <1>1
    <2> QED
      BY <1>3, <2>1, <2>2, <2>3, <2>4
  <1>5. ASSUME IsInjective(q), x \notin Range(q) PROVE IsInjective(r)
    <2>1. /\ \A i, j \in 1..Len(q) : q[i] = q[j] => i = j
          /\ \A i \in 1..Len(q) : q[i] # x
      BY <1>1, <1>5, RangeEquality DEF IsInjective
    <2>2. ASSUME NEW i \in 1..(Len(q) + 1), NEW j \in 1..(Len(q) + 1), r[i] = r[j], i < j
          PROVE  FALSE
      <3>1. CASE j <= n
        BY <1>1, <2>1, <2>2, <3>1
      <3>2. CASE j = n + 1
        BY <1>1, <2>1, <2>2, <3>2
      <3>3. CASE j > n + 1
        <4>1. r[j] = q[j - 1] /\ j - 1 \in 1..Len(q)
          BY <1>1, <3>3
        <4>2. CASE i <= n
          BY <1>1, <2>1, <2>2, <3>3, <4>1, <4>2
        <4>3. CASE i = n + 1
          BY <1>1, <2>1, <2>2, <4>1, <4>3
        <4>4. CASE i > n + 1
          <5>1. r[i] = q[i - 1] /\ i - 1 \in 1..Len(q)
            BY <1>1, <4>4
          <5> QED
            BY <2>1, <2>2, <4>1, <5>1
        <4> QED
          BY <1>1, <4>2, <4>3, <4>4
      <3> QED
        BY <1>1, <3>1, <3>2, <3>3
    <2>3. \A i, j \in 1..(Len(q) + 1) : r[i] = r[j] => i = j
      BY <1>1, <2>2
    <2> QED
      BY <1>1, <2>3 DEF IsInjective
  <1> QED
    BY <1>4, <1>5 DEF r

-----------------------------------------------------------------------------
(* The interrupts and the condition's queue stay aligned.                  *)

\* Both lists, their types and how long they are.
LEMMA ListTypes ==
    ASSUME TypeOK
    PROVE  /\ pending \in Seq(0..MaxSleep) /\ conQueue \in Seq(Thread) /\ lockQueue \in Seq(Thread)
           /\ Len(pending) \in Nat /\ DOMAIN pending = 1..Len(pending)
           /\ Len(conQueue) \in Nat /\ DOMAIN conQueue = 1..Len(conQueue)
           /\ \A i \in 1..Len(pending) : pending[i] \in 0..MaxSleep
           /\ \A i \in 1..Len(conQueue) : conQueue[i] \in Thread /\ conQueue[i] \in Range(conQueue)
           /\ left \in [Thread -> 0..MaxSleep] /\ MaxSleep \in Nat
  <1>1. pending \in Seq(0..MaxSleep) /\ conQueue \in Seq(Thread) /\ lockQueue \in Seq(Thread)
        /\ left \in [Thread -> 0..MaxSleep] /\ MaxSleep \in Nat
    BY AlarmAssumption DEF TypeOK
  <1>2. /\ Len(pending) \in Nat /\ DOMAIN pending = 1..Len(pending)
        /\ Len(conQueue) \in Nat /\ DOMAIN conQueue = 1..Len(conQueue)
    BY <1>1, LenProperties
  <1>3. \A i \in 1..Len(pending) : pending[i] \in 0..MaxSleep
    BY <1>1, ElementOfSeq
  <1>4. \A i \in 1..Len(conQueue) : conQueue[i] \in Thread
    BY <1>1, ElementOfSeq
  <1>5. \A i \in 1..Len(conQueue) : conQueue[i] \in Range(conQueue)
    BY <1>2 DEF Range
  <1> QED
    BY <1>1, <1>2, <1>3, <1>4, <1>5

\* Schedule and ConditionPriority::Wait insert at the same place.
LEMMA PauseAligned ==
    ASSUME TypeOK, Aligned, NEW t \in Thread, t \notin Range(conQueue), NEW h \in 1..MaxSleep,
           IsInjective(conQueue),
           pending' = SortedInsert(pending, h, h, pending),
           conQueue' = SortedInsert(conQueue, t, h, [i \in DOMAIN conQueue |-> left[conQueue[i]]]),
           left' = [left EXCEPT ![t] = h]
    PROVE  /\ Aligned' /\ pending' \in Seq(0..MaxSleep) /\ conQueue' \in Seq(Thread)
           /\ left' \in [Thread -> 0..MaxSleep]
           /\ IsInjective(conQueue') /\ Range(conQueue') = Range(conQueue) \cup {t}
  <1> DEFINE P == {i \in DOMAIN pending : pending[i] <= h}
  <1>0. PICK L \in Nat : L = Len(pending)
    BY ListTypes
  <1>1. /\ pending \in Seq(0..MaxSleep) /\ conQueue \in Seq(Thread)
        /\ Len(conQueue) = L /\ DOMAIN pending = 1..L /\ DOMAIN conQueue = 1..L
        /\ \A i \in 1..L : /\ pending[i] \in 0..MaxSleep /\ pending[i] = left[conQueue[i]]
                           /\ conQueue[i] \in Thread /\ conQueue[i] \in Range(conQueue)
        /\ \A i, j \in 1..L : i <= j => pending[i] <= pending[j]
        /\ left \in [Thread -> 0..MaxSleep] /\ MaxSleep \in Nat /\ h \in 0..MaxSleep
    BY <1>0, ListTypes DEF Aligned
  <1>2. PICK n \in 0..L : n = Cardinality(P) /\ \A i \in 1..L : pending[i] <= h <=> i <= n
    <2>1. P \in SUBSET (1..L) /\ \A i \in 1..L : i \in P <=> pending[i] <= h
      BY <1>1
    <2>2. \A i \in P : \A j \in 1..i : j \in P
      BY <1>1, <2>1
    <2> HIDE DEF P
    <2>3. Cardinality(P) \in 0..L /\ \A i \in 1..L : i \in P <=> i <= Cardinality(P)
      BY <2>1, <2>2, Beginning
    <2> QED
      BY <2>1, <2>3
  <1>3. pending' = Insertion(pending, h, n)
    BY <1>2 DEF SortedInsert, Insertion
  <1>4. conQueue' = Insertion(conQueue, t, n)
    <2>1. {i \in DOMAIN conQueue : [k \in DOMAIN conQueue |-> left[conQueue[k]]][i] <= h} = P
      BY <1>1
    <2> QED
      BY <1>2, <2>1 DEF SortedInsert, Insertion
  <1>5. /\ pending' \in Seq(0..MaxSleep) /\ Len(pending') = L + 1
        /\ \A i \in 1..(L + 1) :
              pending'[i] = IF i <= n THEN pending[i] ELSE IF i = n + 1 THEN h ELSE pending[i - 1]
    <2>0. pending \in Seq(0..MaxSleep) /\ h \in 0..MaxSleep
      BY <1>1
    <2>1. n \in 0..Len(pending) /\ Len(pending) = L
      BY <1>0, <1>1
    <2>2. /\ Insertion(pending, h, n) \in Seq(0..MaxSleep)
          /\ Inserted(Insertion(pending, h, n), pending, h, n)
      BY <2>0, <2>1, InsertionAt
    <2> QED
      BY <1>3, <2>1, <2>2 DEF Inserted
  <1>6. /\ conQueue' \in Seq(Thread) /\ Len(conQueue') = L + 1
        /\ \A i \in 1..(L + 1) :
              conQueue'[i] = IF i <= n THEN conQueue[i] ELSE IF i = n + 1 THEN t ELSE conQueue[i - 1]
    <2>0. conQueue \in Seq(Thread) /\ t \in Thread
      BY <1>1
    <2>1. n \in 0..Len(conQueue) /\ Len(conQueue) = L
      BY <1>0, <1>1
    <2>2. /\ Insertion(conQueue, t, n) \in Seq(Thread)
          /\ Inserted(Insertion(conQueue, t, n), conQueue, t, n)
      BY <2>0, <2>1, InsertionAt
    <2> QED
      BY <1>4, <2>1, <2>2 DEF Inserted
  <1>7. IsInjective(conQueue') /\ Range(conQueue') = Range(conQueue) \cup {t}
    <2>1. n \in 0..Len(conQueue)
      BY <1>1
    <2>2. /\ Range(Insertion(conQueue, t, n)) = Range(conQueue) \cup {t}
          /\ IsInjective(conQueue) /\ t \notin Range(conQueue) => IsInjective(Insertion(conQueue, t, n))
      BY <1>1, <2>1, InsertionRange
    <2> QED
      BY <1>4, <2>2
  <1>8. \A u \in Thread : left'[u] = IF u = t THEN h ELSE left[u]
    BY <1>1
  <1>9. \A i \in 1..L : left'[conQueue[i]] = pending[i]
    BY <1>1, <1>8
  <1>10. \A i \in 1..(L + 1) :
            \/ i <= n /\ i \in 1..L
            \/ i = n + 1
            \/ i > n + 1 /\ i - 1 \in 1..L /\ ~(i - 1 <= n)
    OBVIOUS
  <1>11. ASSUME NEW i \in 1..(L + 1) PROVE pending'[i] = left'[conQueue'[i]]
    <2>1. CASE i <= n /\ i \in 1..L
      BY <1>5, <1>6, <1>9, <2>1
    <2>2. CASE i = n + 1
      <3>1. ~(i <= n)
        BY <2>2
      <3>2. pending'[i] = h /\ conQueue'[i] = t
        BY <1>5, <1>6, <2>2, <3>1
      <3> QED
        BY <1>8, <3>2
    <2>3. CASE i > n + 1 /\ i - 1 \in 1..L
      <3>1. ~(i <= n) /\ i # n + 1
        BY <1>2, <2>3
      <3> QED
        BY <1>5, <1>6, <1>9, <2>3, <3>1
    <2> QED
      BY <1>10, <2>1, <2>2, <2>3
  \* Item i of the new list is the one before, or the new one, or the one at i - 1.
  <1>12. ASSUME NEW i \in 1..(L + 1)
         PROVE  /\ i <= n => pending'[i] = pending[i] /\ pending[i] <= h
                /\ i = n + 1 => pending'[i] = h
                /\ i > n + 1 => pending'[i] = pending[i - 1] /\ ~(pending[i - 1] <= h)
    <2>1. CASE i <= n /\ i \in 1..L
      <3>1. ~(i = n + 1) /\ ~(i > n + 1)
        BY <1>2, <2>1
      <3> QED
        BY <1>2, <1>5, <2>1, <3>1
    <2>2. CASE i = n + 1
      <3>1. ~(i <= n) /\ ~(i > n + 1)
        BY <2>2
      <3> QED
        BY <1>5, <2>2, <3>1
    <2>3. CASE i > n + 1 /\ i - 1 \in 1..L /\ ~(i - 1 <= n)
      <3>1. ~(i <= n) /\ i # n + 1
        BY <1>2, <2>3
      <3>2. pending'[i] = pending[i - 1]
        BY <1>5, <3>1
      <3>3. ~(pending[i - 1] <= h)
        BY <1>2, <2>3
      <3> QED
        BY <3>1, <3>2, <3>3
    <2> QED
      BY <1>10, <2>1, <2>2, <2>3
  <1>13. ASSUME NEW i \in 1..(L + 1), NEW j \in 1..(L + 1), i <= j
         PROVE  pending'[i] <= pending'[j]
    <2>0. /\ h \in Int /\ \A k \in 1..L : pending[k] \in Int
          /\ n \in Int /\ i \in Int /\ j \in Int
      BY <1>1, <1>2
    <2>1. CASE j <= n
      <3>1. i <= n /\ i \in 1..L /\ j \in 1..L
        BY <1>2, <1>13, <2>1
      <3> QED
        BY <1>1, <1>12, <1>13, <2>1, <3>1
    <2>2. CASE j = n + 1
      <3>1. i <= n \/ i = n + 1
        BY <1>13, <2>0, <2>2
      <3> QED
        BY <1>12, <2>0, <2>2, <3>1
    <2>3. CASE j > n + 1
      <3>1. j - 1 \in 1..L /\ ~(pending[j - 1] <= h) /\ pending'[j] = pending[j - 1]
        <4>1. j - 1 \in 1..L
          BY <2>3
        <4> QED
          BY <1>12, <2>3, <4>1
      <3>2. CASE i <= n + 1
        <4>1. pending'[i] <= h
          BY <1>12, <2>0, <3>2
        <4>2. pending'[i] \in Int
          BY <1>5, <1>1, ElementOfSeq
        <4> QED
          BY <2>0, <3>1, <4>1, <4>2
      <3>3. CASE i > n + 1
        <4>1. i - 1 \in 1..L /\ pending'[i] = pending[i - 1] /\ i - 1 <= j - 1
          <5>1. i - 1 \in 1..L /\ i - 1 <= j - 1
            BY <1>13, <3>3
          <5> QED
            BY <1>12, <3>3, <5>1
        <4> QED
          BY <1>1, <3>1, <4>1
      <3> QED
        BY <2>0, <3>2, <3>3
    <2> QED
      BY <2>0, <2>1, <2>2, <2>3
  <1>14. Aligned'
    BY <1>5, <1>6, <1>11, <1>13 DEF Aligned
  <1>15. left' \in [Thread -> 0..MaxSleep]
    BY <1>1
  <1> QED
    BY <1>5, <1>6, <1>7, <1>14, <1>15

\* A function on 1..n is a sequence.
LEMMA FunctionIsSeq ==
    ASSUME NEW S, NEW n \in Nat, NEW f \in [1..n -> S]
    PROVE  f \in Seq(S) /\ Len(f) = n
  OBVIOUS

\* OneTick advances the clock.
LEMMA TickAligned ==
    ASSUME TypeOK, Aligned, ~Due, UNCHANGED conQueue,
           pending' = [i \in DOMAIN pending |-> pending[i] - 1],
           left' = [t \in Thread |-> IF left[t] > 0 THEN left[t] - 1 ELSE 0]
    PROVE  /\ Aligned' /\ pending' \in Seq(0..MaxSleep) /\ left' \in [Thread -> 0..MaxSleep]
           /\ \A t \in Thread : left[t] = 0 => left'[t] = 0
  <1>0. PICK L \in Nat : L = Len(pending)
    BY ListTypes
  <1>1. /\ pending \in Seq(0..MaxSleep) /\ Len(conQueue) = L /\ DOMAIN pending = 1..L
        /\ \A i \in 1..L : /\ pending[i] \in 0..MaxSleep /\ pending[i] = left[conQueue[i]]
                           /\ conQueue[i] \in Thread
        /\ \A i, j \in 1..L : i <= j => pending[i] <= pending[j]
        /\ left \in [Thread -> 0..MaxSleep] /\ MaxSleep \in Nat
    BY <1>0, ListTypes DEF Aligned
  <1>2. ASSUME NEW i \in 1..L PROVE pending[i] - 1 \in 0..MaxSleep /\ pending[i] > 0
    <2>1. pending # <<>> /\ Head(pending) = pending[1] /\ 1 \in 1..L
      BY <1>0, <1>1
    <2>2. pending[1] # 0
      BY <2>1 DEF Due
    <2> QED
      BY <1>1, <2>1, <2>2
  <1>3. pending' \in [1..L -> 0..MaxSleep]
    BY <1>1, <1>2
  <1>4. pending' \in Seq(0..MaxSleep) /\ Len(pending') = L
    BY <1>1, <1>3, FunctionIsSeq
  <1>5. \A i \in 1..L : pending'[i] = pending[i] - 1
    BY <1>1
  <1>6. /\ left' \in [Thread -> 0..MaxSleep]
        /\ \A t \in Thread : left'[t] = IF left[t] > 0 THEN left[t] - 1 ELSE 0
    BY <1>1
  <1>7. \A i \in 1..L : pending'[i] = left'[conQueue[i]]
    BY <1>1, <1>2, <1>5, <1>6
  <1>8. \A i, j \in 1..L : i <= j => pending'[i] <= pending'[j]
    BY <1>1, <1>5
  <1>9. Aligned'
    BY <1>1, <1>4, <1>7, <1>8 DEF Aligned
  <1> QED
    BY <1>4, <1>6, <1>9

\* Idle advances the clock to the first interrupt, which goes with the first sleeper.
LEMMA IdleAligned ==
    ASSUME TypeOK, Aligned, pending # <<>>,
           conQueue' = Rest(conQueue),
           pending' = [i \in 1..(Len(pending) - 1) |-> pending[i + 1] - Head(pending)],
           left' = [t \in Thread |->
                      IF left[t] > Head(pending) THEN left[t] - Head(pending) ELSE 0]
    PROVE  /\ Aligned' /\ pending' \in Seq(0..MaxSleep) /\ left' \in [Thread -> 0..MaxSleep]
           /\ \A t \in Thread : left[t] = 0 => left'[t] = 0
           /\ conQueue # <<>> /\ left'[Head(conQueue)] = 0
  <1>0. PICK L \in Nat : L = Len(pending)
    BY ListTypes
  <1>1. /\ pending \in Seq(0..MaxSleep) /\ conQueue \in Seq(Thread)
        /\ Len(conQueue) = L /\ DOMAIN pending = 1..L
        /\ \A i \in 1..L : /\ pending[i] \in 0..MaxSleep /\ pending[i] = left[conQueue[i]]
                           /\ conQueue[i] \in Thread
        /\ \A i, j \in 1..L : i <= j => pending[i] <= pending[j]
        /\ left \in [Thread -> 0..MaxSleep] /\ MaxSleep \in Nat
    BY <1>0, ListTypes DEF Aligned
  <1>2. L # 0 /\ conQueue # <<>>
    <2>1. L \in Nat \ {0}
      BY <1>0, <1>1, EmptySeq
    <2> QED
      BY <1>1, <2>1
  <1>3. PICK first \in 0..MaxSleep : first = Head(pending) /\ first = pending[1]
    BY <1>1, <1>2, HeadTailProperties
  <1>4. \A i \in 1..(L - 1) : i + 1 \in 1..L /\ pending[i + 1] - first \in 0..MaxSleep
    <2>1. \A i \in 1..L : first <= pending[i] /\ pending[i] \in 0..MaxSleep
      BY <1>1, <1>2, <1>3
    <2>2. \A i \in 1..(L - 1) : i + 1 \in 1..L
      BY <1>2
    <2> QED
      BY <1>1, <2>1, <2>2
  <1>5. pending' = [i \in 1..(L - 1) |-> pending[i + 1] - first]
    BY <1>0, <1>3
  <1>6. pending' \in [1..(L - 1) -> 0..MaxSleep] /\ L - 1 \in Nat
    <2>1. L - 1 \in Nat
      BY <1>2
    <2>2. [i \in 1..(L - 1) |-> pending[i + 1] - first] \in [1..(L - 1) -> 0..MaxSleep]
      BY <1>4
    <2> QED
      BY <1>5, <2>1, <2>2
  <1>7. pending' \in Seq(0..MaxSleep) /\ Len(pending') = L - 1
    BY <1>6, FunctionIsSeq
  <1>8. \A i \in 1..(L - 1) : pending'[i] = pending[i + 1] - first
    BY <1>5
  <1>9. /\ conQueue' \in Seq(Thread) /\ Len(conQueue') = L - 1
        /\ \A i \in 1..(L - 1) : conQueue'[i] = conQueue[i + 1]
        /\ Head(conQueue) = conQueue[1]
    BY <1>1, <1>2, HeadTailProperties DEF Rest
  <1>10. /\ left' \in [Thread -> 0..MaxSleep]
         /\ \A t \in Thread : left'[t] = IF left[t] > first THEN left[t] - first ELSE 0
    <2>1. left' = [t \in Thread |-> IF left[t] > first THEN left[t] - first ELSE 0]
      BY <1>3
    <2> QED
      BY <1>1, <2>1
  <1>11. ASSUME NEW i \in 1..(L - 1) PROVE pending'[i] = left'[conQueue'[i]]
    <2>1. /\ pending[i + 1] = left[conQueue[i + 1]] /\ conQueue[i + 1] \in Thread
          /\ pending[i + 1] - first \in 0..MaxSleep /\ pending[i + 1] \in 0..MaxSleep
      BY <1>1, <1>4
    <2>2. left'[conQueue[i + 1]] = pending[i + 1] - first
      BY <1>10, <2>1
    <2> QED
      BY <1>8, <1>9, <2>2
  <1>12. ASSUME NEW i \in 1..(L - 1), NEW j \in 1..(L - 1), i <= j
         PROVE  pending'[i] <= pending'[j]
    <2>1. pending[i + 1] <= pending[j + 1] /\ pending[i + 1] \in Int /\ pending[j + 1] \in Int
      BY <1>1, <1>4, <1>12
    <2>2. pending'[i] = pending[i + 1] - first /\ pending'[j] = pending[j + 1] - first
      BY <1>8
    <2> QED
      BY <2>1, <2>2
  <1>13. Aligned'
    BY <1>7, <1>9, <1>11, <1>12 DEF Aligned
  <1>14. left'[Head(conQueue)] = 0
    BY <1>1, <1>2, <1>3, <1>9, <1>10
  <1>15. \A t \in Thread : left[t] = 0 => left'[t] = 0
    BY <1>10
  <1> QED
    BY <1>2, <1>7, <1>10, <1>13, <1>14, <1>15

\* CheckIfDue fires an interrupt, and Awaken takes the sleeper it was for.
LEMMA FireAligned ==
    ASSUME TypeOK, Aligned, Due, UNCHANGED left, pending' = Tail(pending), conQueue' = Rest(conQueue)
    PROVE  Aligned' /\ conQueue # <<>> /\ left[Head(conQueue)] = 0
  <1>0. PICK L \in Nat : L = Len(pending)
    BY ListTypes
  <1>1. /\ pending \in Seq(0..MaxSleep) /\ conQueue \in Seq(Thread)
        /\ Len(conQueue) = L
        /\ \A i \in 1..L : pending[i] = left[conQueue[i]]
        /\ \A i, j \in 1..L : i <= j => pending[i] <= pending[j]
    BY <1>0, ListTypes DEF Aligned
  <1>2. L # 0 /\ conQueue # <<>> /\ pending # <<>> /\ Head(pending) = 0
    <2>1. L \in Nat \ {0}
      BY <1>0, <1>1, EmptySeq DEF Due
    <2> QED
      BY <1>1, <2>1 DEF Due
  <1>3. /\ pending' \in Seq(0..MaxSleep) /\ Len(pending') = L - 1
        /\ \A i \in 1..(L - 1) : pending'[i] = pending[i + 1]
        /\ Head(pending) = pending[1]
    BY <1>0, <1>1, <1>2, HeadTailProperties
  <1>4. /\ Len(conQueue') = L - 1
        /\ \A i \in 1..(L - 1) : conQueue'[i] = conQueue[i + 1]
        /\ Head(conQueue) = conQueue[1]
    BY <1>1, <1>2, HeadTailProperties DEF Rest
  <1>5. \A i \in 1..(L - 1) : i + 1 \in 1..L
    BY <1>2
  <1>6. \A i \in 1..(L - 1) : pending'[i] = left'[conQueue'[i]]
    BY <1>1, <1>3, <1>4, <1>5
  <1>7. \A i, j \in 1..(L - 1) : i <= j => i + 1 <= j + 1
    BY <1>2
  <1>8. \A i, j \in 1..(L - 1) : i <= j => pending'[i] <= pending'[j]
    BY <1>1, <1>3, <1>5, <1>7
  <1>9. Aligned'
    BY <1>3, <1>4, <1>6, <1>8 DEF Aligned
  <1>10. left[Head(conQueue)] = 0
    BY <1>1, <1>2, <1>3, <1>4
  <1> QED
    BY <1>2, <1>9, <1>10

-----------------------------------------------------------------------------
(***************************************************************************)
(* What a step does to the threads: t goes on to p, the threads of W are   *)
(* woken and those of Z go to sleep or end.                                *)
(***************************************************************************)
Moves(t, p, W, Z) ==
    /\ pc' = [pc EXCEPT ![t] = p]
    /\ W \cap Z = {}
    /\ \A u \in W : status[u] \in {"BLOCKED", "JUST_CREATED"} /\ pc[u] # "done" /\ u # t
    /\ \A u \in Thread :
        /\ u \in W => status'[u] \in {"READY", "RUNNING"}
        /\ u \in Z => status'[u] = "BLOCKED" \/ (status'[u] = "DELETED" /\ pc'[u] = "done")
        /\ u \notin W \cup Z => \/ status'[u] = status[u]
                                \/ {status[u], status'[u]} \subseteq {"READY", "RUNNING"}
                                \/ status'[u] = "DELETED" /\ pc[u] = "done"
    /\ SchedulerConsistent' /\ SchedTypeOK'
    /\ threadToBeDestroyed' \in Thread => pc'[threadToBeDestroyed'] = "done"

\* The current thread sleeps or ends, and readies others.
LEMMA SleepMoves ==
    ASSUME TypeOK, ThreadInv, NEW t \in Thread, t = currentThread, machineStatus = "SystemMode",
           NEW p \in PC, pc' = [pc EXCEPT ![t] = p], pc[t] # "done",
           NEW wake \in Seq(Thread), IsInjective(wake),
           \A u \in Range(wake) : status[u] = "BLOCKED" /\ pc[u] # "done",
           NEW dead \in Thread \cup {NoThread},
           dead = threadToBeDestroyed \/ (dead = t /\ p = "done"),
           Sleep(wake, dead)
    PROVE  Moves(t, p, Range(wake), {t})
  <1>0. /\ SchedTypeOK /\ SchedulerConsistent /\ NoThread \notin Thread
        /\ status[t] = "RUNNING" /\ pc \in [Thread -> PC]
        /\ Range(wake) \in SUBSET Thread
    BY SchedulerAssumption, RangeOfSeq DEF TypeOK, ThreadInv, SchedulerConsistent, OneRunning
  <1>1. \A u \in Range(wake) : status[u] \notin {"READY", "RUNNING"} /\ u # t
    BY <1>0
  <1>2. dead \in Thread => /\ dead = t \/ (pc[dead] = "done" /\ status[dead] \in {"BLOCKED", "DELETED"})
                           /\ pc'[dead] = "done"
    BY <1>0 DEF ThreadInv
  <1>3. dead \in Thread =>
            dead \notin Range(wake) /\ (dead = currentThread \/ status[dead] # "READY")
    BY <1>1, <1>2
  <1>4. /\ SchedulerConsistent'
        /\ \A u \in Thread :
              \/ u = dead /\ status'[u] = "DELETED"
              \/ u = currentThread /\ status'[u] = "BLOCKED"
              \/ u # currentThread /\ u \in Range(wake) /\ status'[u] \in {"READY", "RUNNING"}
              \/ /\ u # currentThread /\ u \notin Range(wake)
                 /\ status'[u] = status[u] \/ (status[u] = "READY" /\ status'[u] = "RUNNING")
        /\ threadToBeDestroyed' \in {dead, NoThread}
    BY <1>0, <1>1, <1>3, SleepConsistent
  <1>5. SchedTypeOK'
    BY <1>0, SleepType
  <1>6. threadToBeDestroyed' \in Thread => pc'[threadToBeDestroyed'] = "done"
    BY <1>0, <1>2, <1>4
  <1>7. ASSUME NEW u \in Thread
        PROVE  /\ u \in Range(wake) => status'[u] \in {"READY", "RUNNING"}
               /\ u = t => status'[u] = "BLOCKED" \/ (status'[u] = "DELETED" /\ pc'[u] = "done")
               /\ u \notin Range(wake) \cup {t} => \/ status'[u] = status[u]
                                                   \/ {status[u], status'[u]} \subseteq {"READY", "RUNNING"}
                                                   \/ status'[u] = "DELETED" /\ pc[u] = "done"
    BY <1>1, <1>2, <1>3, <1>4
  <1> QED
    BY <1>0, <1>1, <1>4, <1>5, <1>6, <1>7 DEF Moves

\* A step that readies threads and keeps the processor, or that is made without one.
LEMMA WakeMoves ==
    ASSUME TypeOK, ThreadInv, NEW t \in Thread, NEW p \in PC, pc' = [pc EXCEPT ![t] = p],
           p = pc[t] \/ pc[t] # "done",
           NEW wake \in Seq(Thread), IsInjective(wake),
           \A u \in Range(wake) : status[u] \in {"BLOCKED", "JUST_CREATED"} /\ pc[u] # "done" /\ u # t,
           ReadyToRun(wake)
    PROVE  Moves(t, p, Range(wake), {})
  <1>0. /\ SchedTypeOK /\ SchedulerConsistent /\ pc \in [Thread -> PC]
        /\ Range(wake) \in SUBSET Thread
    BY RangeOfSeq DEF TypeOK, ThreadInv
  <1>1. \A u \in Range(wake) : status[u] \notin {"READY", "RUNNING"}
    OBVIOUS
  <1>2. /\ SchedulerConsistent'
        /\ \A u \in Thread : status'[u] = IF u \in Range(wake) THEN "READY" ELSE status[u]
    BY <1>0, <1>1, ReadyToRunConsistent
  <1>3. SchedTypeOK'
    BY <1>0, ReadyToRunType
  <1>4. threadToBeDestroyed' \in Thread => pc'[threadToBeDestroyed'] = "done"
    BY <1>0 DEF ReadyToRun, ThreadInv
  <1> QED
    BY <1>2, <1>3, <1>4 DEF Moves

\* A step that leaves the scheduler alone.
LEMMA StillMoves ==
    ASSUME TypeOK, ThreadInv, NEW t \in Thread, NEW p \in PC, pc' = [pc EXCEPT ![t] = p],
           p = pc[t] \/ pc[t] # "done",
           UNCHANGED sched
    PROVE  Moves(t, p, {}, {})
  <1>1. SchedTypeOK' /\ SchedulerConsistent'
    BY DEF TypeOK, ThreadInv, sched, SchedTypeOK, SchedulerConsistent, ReadyListExact, OneRunning
  <1>2. threadToBeDestroyed' \in Thread => pc'[threadToBeDestroyed'] = "done"
    BY DEF sched, ThreadInv, TypeOK
  <1> QED
    BY <1>1, <1>2 DEF Moves, sched

\* The processor goes to the next thread on the ready list.
LEMMA YieldMoves ==
    ASSUME TypeOK, ThreadInv, UNCHANGED pc,
           \/ machineStatus = "SystemMode" /\ YieldCPU
           \/ LeaveIdle
    PROVE  Moves(currentThread, pc[currentThread], {}, {})
  <1>0. /\ SchedTypeOK /\ SchedulerConsistent /\ pc \in [Thread -> PC] /\ currentThread \in Thread
        /\ NoThread \notin Thread
    BY SchedulerAssumption DEF TypeOK, ThreadInv, SchedTypeOK
  <1>1. threadToBeDestroyed \in Thread =>
            status[threadToBeDestroyed] \notin {"READY", "RUNNING"}
    BY DEF ThreadInv
  <1>2. /\ SchedulerConsistent'
        /\ \A u \in Thread :
              \/ u = threadToBeDestroyed /\ status'[u] = "DELETED"
              \/ status'[u] = status[u]
              \/ {status[u], status'[u]} \subseteq {"READY", "RUNNING"}
        /\ threadToBeDestroyed' \in {threadToBeDestroyed, NoThread}
    BY <1>0, <1>1, YieldConsistent, LeaveIdleConsistent
  <1>3. SchedTypeOK'
    <2>1. CASE YieldCPU
      BY <1>0, <2>1, YieldType
    <2>2. CASE LeaveIdle
      <3>1. status \in [Thread -> ThreadStatus] /\ readyList \in Seq(Thread) /\ readyList # <<>>
            /\ threadToBeDestroyed \in Thread \cup {NoThread}
            /\ Run(status, readyList, threadToBeDestroyed)
        BY <1>0, <2>2 DEF LeaveIdle, SchedTypeOK
      <3> QED
        BY <1>0, <3>1, RunType
    <2> QED
      BY <2>1, <2>2
  <1>4. threadToBeDestroyed' \in Thread => pc'[threadToBeDestroyed'] = "done"
    BY <1>0, <1>2 DEF ThreadInv
  <1>5. pc' = [pc EXCEPT ![currentThread] = pc[currentThread]]
    BY <1>0
  <1>6. \A u \in Thread : u = threadToBeDestroyed => pc[u] = "done"
    BY DEF ThreadInv
  <1> QED
    BY <1>2, <1>3, <1>4, <1>5, <1>6 DEF Moves

\* Where a thread may go.
Route(t, p) ==
    /\ p = "fork" => t = Main
    /\ p = "loop" => t = Guard
    /\ t = Guard => p \in {"loop", "done"}
    /\ p # pc[t] => status[t] # "JUST_CREATED"
    /\ p # pc[t] /\ pc[t] = "fork" => \A u \in Thread : status[u] # "JUST_CREATED"

\* A step that takes a thread along a route it may go keeps what statuses say of places.
LEMMA ThreadsKept ==
    ASSUME TypeOK, ThreadInv, NEW t \in Thread, NEW p \in PC,
           NEW W \in SUBSET Thread, NEW Z \in SUBSET {t}, Moves(t, p, W, Z), Route(t, p),
           p = pc[t] \/ pc[t] # "done", p = "done" => t \in Z \/ pc[t] = "done"
    PROVE  ThreadInv'
  <1>0. /\ pc \in [Thread -> PC] /\ pc' = [pc EXCEPT ![t] = p]
        /\ \A u \in Thread : pc'[u] = IF u = t THEN p ELSE pc[u]
        /\ Guard \in Thread /\ Main \in Thread
    BY AlarmAssumption, SchedulerAssumption DEF TypeOK, Moves
  <1>1. SchedulerConsistent' /\ (threadToBeDestroyed' \in Thread => pc'[threadToBeDestroyed'] = "done")
    BY DEF Moves
  <1>2. pc'[Guard] \in {"loop", "done"}
    BY <1>0 DEF ThreadInv, Route
  <1>3. ASSUME NEW u \in Thread
        PROVE  /\ pc'[u] = "fork" => u = Main
               /\ pc'[u] = "loop" => u = Guard
    BY <1>0 DEF ThreadInv, Route
  <1>4. ASSUME NEW u \in Thread, status'[u] = "JUST_CREATED"
        PROVE  u # Main /\ pc'[Main] = "fork" /\ pc'[u] \in {"start", "loop"}
    <2>1. status[u] = "JUST_CREATED"
      BY <1>4 DEF Moves
    <2>2. u # Main /\ pc[Main] = "fork" /\ pc[u] \in {"start", "loop"}
      BY <2>1 DEF ThreadInv
    <2>3. t = Main => p = "fork"
      BY <2>1, <2>2 DEF Route
    <2>4. t = u => p = pc[u]
      BY <2>1 DEF Route
    <2> QED
      BY <1>0, <2>2, <2>3, <2>4
  <1>5. ASSUME NEW u \in Thread, status'[u] = "DELETED"
        PROVE  pc'[u] = "done"
    <2>1. CASE u \in Z
      BY <1>5, <2>1 DEF Moves
    <2>2. CASE u \notin Z
      <3>1. pc[u] = "done"
        BY <1>5, <2>2 DEF Moves, ThreadInv
      <3>2. u = t => p = "done"
        BY <3>1
      <3> QED
        BY <1>0, <3>1, <3>2
    <2> QED
      BY <2>1, <2>2
  <1>6. ASSUME NEW u \in Thread, pc'[u] = "done"
        PROVE  status'[u] \in {"BLOCKED", "DELETED"}
    <2>1. u \in Z \/ pc[u] = "done"
      BY <1>0, <1>6
    <2>2. CASE u \in Z
      BY <2>2 DEF Moves
    <2>3. CASE u \notin Z /\ pc[u] = "done"
      BY <2>3 DEF Moves, ThreadInv
    <2> QED
      BY <2>1, <2>2, <2>3
  <1> QED
    BY <1>1, <1>2, <1>3, <1>4, <1>5, <1>6 DEF ThreadInv

\* What a step does to the queues: A is put on the lock's queue, C on the
\* condition's, and the threads of W leave them; and who has slept is due.
Queues(t, p, W, A, C) ==
    /\ IsInjective(lockQueue') /\ IsInjective(conQueue')
    /\ Range(lockQueue') = (Range(lockQueue) \ W) \cup A
    /\ Range(conQueue') = (Range(conQueue) \ W) \cup C
    /\ A \cap C = {}
    /\ A \cup C # {} => p # "done"
    /\ C # {} => p = "asleep"
    /\ \A u \in Thread \ C : left[u] = 0 => left'[u] = 0
    /\ \A u \in W \cap Range(conQueue) : left'[u] = 0
    /\ p \in {"awake", "asleep"} /\ pc[t] # p /\ C = {} => left[t] = 0

\* The thread that makes a step is in no queue.
Free(t, p) == t \in Range(lockQueue) \cup Range(conQueue) => p = pc[t]

\* A step that puts only sleepers on the queues, and takes only the woken off, keeps them exact.
LEMMA QueuesKept ==
    ASSUME TypeOK, QueueInv, NEW t \in Thread, NEW p \in PC,
           NEW W \in SUBSET Thread, NEW Z \in SUBSET {t}, Moves(t, p, W, Z),
           NEW A \in SUBSET Z, NEW C \in SUBSET Z, Queues(t, p, W, A, C), Free(t, p),
           Z = {} \/ status[t] = "RUNNING"
    PROVE  QueueInv'
  <1>0. /\ pc \in [Thread -> PC]
        /\ \A u \in Thread : pc'[u] = IF u = t THEN p ELSE pc[u]
        /\ Range(lockQueue) \subseteq Thread /\ Range(conQueue) \subseteq Thread
    BY RangeOfSeq DEF TypeOK, Moves
  <1>1. Range(lockQueue') \cap Range(conQueue') = {}
    <2>1. Z \cap (Range(lockQueue) \cup Range(conQueue)) = {}
      BY DEF QueueInv
    <2> QED
      BY <2>1 DEF QueueInv, Queues
  <1>2. ASSUME NEW u \in Range(lockQueue') \cup Range(conQueue')
        PROVE  status'[u] = "BLOCKED" /\ pc'[u] # "done" /\ u \in Thread
    <2>1. CASE u \in A \cup C
      BY <1>0, <2>1 DEF Moves, Queues
    <2>2. CASE u \notin A \cup C
      <3>1. /\ u \in (Range(lockQueue) \cup Range(conQueue)) \ W /\ status[u] = "BLOCKED" /\ pc[u] # "done"
            /\ u \in Thread
        BY <1>0, <1>2, <2>2 DEF Queues, QueueInv
      <3>2. u \notin Z
        BY <3>1
      <3>3. pc'[u] = pc[u]
        BY <1>0, <3>1 DEF Free
      <3> QED
        BY <3>1, <3>2, <3>3 DEF Moves
    <2> QED
      BY <2>1, <2>2
  <1>3. ASSUME NEW u \in Range(conQueue') PROVE pc'[u] = "asleep"
    <2>1. CASE u \in C
      BY <1>0, <2>1 DEF Queues
    <2>2. CASE u \notin C
      <3>1. u \in Range(conQueue)
        BY <1>3, <2>2 DEF Queues
      <3> QED
        BY <1>0, <3>1 DEF Free, QueueInv
    <2> QED
      BY <2>1, <2>2
  <1>4. ASSUME NEW u \in Thread, pc'[u] = "awake" \/ (pc'[u] = "asleep" /\ u \notin Range(conQueue'))
        PROVE  left'[u] = 0
    <2>1. u \notin C
      BY <1>0, <1>4 DEF Queues
    <2>2. CASE u \in W \cap Range(conQueue)
      BY <2>2 DEF Queues
    <2>3. CASE u \notin W \cap Range(conQueue)
      <3>1. CASE pc'[u] = pc[u]
        <4>1. pc[u] = "awake" \/ (pc[u] = "asleep" /\ u \notin Range(conQueue))
          BY <1>4, <2>3, <3>1 DEF Queues
        <4>2. left[u] = 0
          BY <4>1 DEF QueueInv
        <4> QED
          BY <2>1, <4>2 DEF Queues
      <3>2. CASE pc'[u] # pc[u]
        <4>1. u = t /\ p # pc[t] /\ p \in {"awake", "asleep"}
          BY <1>0, <1>4, <3>2
        <4>2. C = {}
          BY <2>1, <4>1
        <4>3. left[t] = 0
          BY <4>1, <4>2 DEF Queues
        <4> QED
          BY <2>1, <4>1, <4>3 DEF Queues
      <3> QED
        BY <3>1, <3>2
    <2> QED
      BY <2>2, <2>3
  <1> QED
    BY <1>1, <1>2, <1>3, <1>4 DEF QueueInv, Queues

\* What a step does to the lock: t keeps or leaves it alone, or takes it when
\* it is free, or gives it up and wakes the first that waits.
Locking(t, p, W, Z, A, C) ==
    /\ A # {} => p \in Awaits
    /\ Z # {} => p = "done" \/ t \in A \cup C
    /\ \/ /\ isLockBusy' = isLockBusy
          /\ p \in Inside <=> pc[t] \in Inside
          /\ ~isLockBusy => A = {} /\ (pc[t] \in Awaits => t \notin Z /\ p = pc[t])
       \/ /\ ~isLockBusy /\ isLockBusy' /\ p \in Inside
       \/ /\ pc[t] \in Inside /\ p \notin Inside /\ ~isLockBusy' /\ A = {}
          /\ lockQueue # <<>> => Head(lockQueue) \in W

\* A step that takes, keeps or gives up the lock in turn leaves it with one holder, and a waiter on its way.
LEMMA LockKept ==
    ASSUME TypeOK, LockInv, NEW t \in Thread, NEW p \in PC,
           NEW W \in SUBSET Thread, NEW Z \in SUBSET {t}, Moves(t, p, W, Z),
           NEW A \in SUBSET Z, NEW C \in SUBSET Z, Queues(t, p, W, A, C), Free(t, p),
           Locking(t, p, W, Z, A, C), lockQueue' \in Seq(Thread),
           p = pc[t] \/ pc[t] # "done"
    PROVE  LockInv'
  <1>0. /\ pc \in [Thread -> PC] /\ lockQueue \in Seq(Thread)
        /\ \A u \in Thread : pc'[u] = IF u = t THEN p ELSE pc[u]
        /\ Range(lockQueue) \subseteq Thread /\ Range(conQueue) \subseteq Thread
        /\ lockQueue # <<>> => Head(lockQueue) \in Range(lockQueue)
        /\ lockQueue' # <<>> => \E u \in Thread : u \in Range(lockQueue')
        /\ lockQueue = <<>> => Range(lockQueue) = {}
    <2>1. Range(lockQueue) \subseteq Thread /\ Range(conQueue) \subseteq Thread
      BY RangeOfSeq DEF TypeOK
    <2>2. /\ lockQueue # <<>> => Head(lockQueue) \in Range(lockQueue)
          /\ lockQueue' # <<>> => Head(lockQueue') \in Range(lockQueue') /\ Head(lockQueue') \in Thread
      BY HeadTailRange, HeadTailProperties DEF TypeOK
    <2>3. lockQueue = <<>> => Range(lockQueue) = {}
      BY DEF Range
    <2> QED
      BY <2>1, <2>2, <2>3 DEF TypeOK, Moves
  <1>1. ASSUME NEW u \in Thread, status'[u] = "BLOCKED"
        PROVE  pc'[u] = "done" \/ u \in Range(lockQueue') \/ u \in Range(conQueue')
    <2>1. CASE u \in Z
      BY <1>0, <2>1 DEF Locking, Queues
    <2>2. CASE u \notin Z
      <3>1. u \notin W /\ status[u] = "BLOCKED"
        BY <1>1, <2>2 DEF Moves
      <3>2. pc[u] = "done" \/ u \in Range(lockQueue) \/ u \in Range(conQueue)
        BY <3>1 DEF LockInv
      <3>3. CASE u \in Range(lockQueue) \/ u \in Range(conQueue)
        BY <3>1, <3>3 DEF Queues
      <3>4. CASE pc[u] = "done"
        BY <1>0, <3>4
      <3> QED
        BY <3>2, <3>3, <3>4
    <2> QED
      BY <2>1, <2>2
  <1>2. ASSUME NEW u \in Thread, u \in Range(lockQueue') PROVE pc'[u] \in Awaits
    <2>1. CASE u \in A
      BY <1>0, <2>1 DEF Locking
    <2>2. CASE u \notin A
      <3>1. u \in Range(lockQueue)
        BY <1>2, <2>2 DEF Queues
      <3> QED
        BY <1>0, <3>1 DEF Free, LockInv
    <2> QED
      BY <2>1, <2>2
  <1>3. /\ isLockBusy' <=> \E u \in Thread : pc'[u] \in Inside
        /\ \A u, v \in Thread : pc'[u] \in Inside /\ pc'[v] \in Inside => u = v
    <2>0. /\ isLockBusy <=> \E u \in Thread : pc[u] \in Inside
          /\ \A u, v \in Thread : pc[u] \in Inside /\ pc[v] \in Inside => u = v
      BY DEF LockInv
    <2>1. CASE isLockBusy' = isLockBusy /\ (p \in Inside <=> pc[t] \in Inside)
      <3>1. \A u \in Thread : pc'[u] \in Inside <=> pc[u] \in Inside
        BY <1>0, <2>1
      <3> QED
        BY <2>0, <2>1, <3>1
    <2>2. CASE ~isLockBusy /\ isLockBusy' /\ p \in Inside
      <3>1. \A u \in Thread : pc'[u] \in Inside <=> u = t
        BY <1>0, <2>0, <2>2
      <3> QED
        BY <2>2, <3>1
    <2>3. CASE pc[t] \in Inside /\ p \notin Inside /\ ~isLockBusy'
      <3>1. \A u \in Thread : pc'[u] \notin Inside
        BY <1>0, <2>0, <2>3
      <3> QED
        BY <2>3, <3>1
    <2> QED
      BY <2>1, <2>2, <2>3 DEF Locking
  <1>5. ASSUME lockQueue' # <<>>, ~isLockBusy'
        PROVE  \E u \in Thread : pc'[u] \in Awaits /\ status'[u] \in {"READY", "RUNNING"}
    <2>0. A = {} /\ \E u \in Thread : u \in Range(lockQueue')
      BY <1>0, <1>5 DEF Locking, TypeOK
    <2>1. lockQueue # <<>>
      BY <1>0, <2>0 DEF Queues
    <2>2. CASE isLockBusy
      <3>1. Head(lockQueue) \in W /\ Head(lockQueue) \in Thread /\ pc[Head(lockQueue)] \in Awaits
        BY <1>0, <1>5, <2>1, <2>2 DEF Locking, LockInv
      <3>2. Head(lockQueue) # t
        BY <3>1 DEF Moves
      <3> QED
        BY <1>0, <3>1, <3>2 DEF Moves
    <2>3. CASE ~isLockBusy
      <3>1. PICK u \in Thread : pc[u] \in Awaits /\ status[u] \in {"READY", "RUNNING"}
        BY <2>1, <2>3 DEF LockInv
      <3>2. pc[t] \in Awaits => t \notin Z /\ p = pc[t]
        <4>1. pc[t] \notin Inside
          BY <2>3 DEF LockInv
        <4> QED
          BY <1>5, <2>3, <4>1 DEF Locking
      <3>3. u \notin Z /\ pc'[u] = pc[u]
        BY <1>0, <3>1, <3>2
      <3>4. pc[u] # "done"
        BY <3>1 DEF Awaits
      <3> QED
        BY <3>1, <3>3, <3>4 DEF Moves
    <2> QED
      BY <2>2, <2>3
  <1> QED
    BY <1>1, <1>2, <1>3, <1>5 DEF LockInv

-----------------------------------------------------------------------------
(* The count of the threads that have started.                             *)

\* What a step does to countAlarm.
Counts(t, p) ==
    \/ countAlarm' = countAlarm /\ (p \in Away <=> pc[t] \in Away)
    \/ countAlarm' = countAlarm + 1 /\ p \in Away /\ pc[t] \notin Away
    \/ countAlarm' = countAlarm - 1 /\ p \notin Away /\ pc[t] \in Away

\* countAlarm counts the threads between their start and their end.
LEMMA CountKept ==
    ASSUME TypeOK, countAlarm = Cardinality(Started), NEW t \in Thread, NEW p \in PC,
           pc' = [pc EXCEPT ![t] = p], Counts(t, p)
    PROVE  countAlarm' = Cardinality(Started') /\ countAlarm' \in 0..Cardinality(Thread)
  <1>0. /\ \A u \in Thread : pc'[u] = IF u = t THEN p ELSE pc[u]
        /\ IsFiniteSet(Thread) /\ Started \in SUBSET Thread /\ Started' \in SUBSET Thread
    BY AlarmAssumption DEF TypeOK, Started
  <1>1. /\ IsFiniteSet(Started) /\ IsFiniteSet(Started')
        /\ Cardinality(Started) \in Nat /\ Cardinality(Thread) \in Nat
        /\ Cardinality(Started') \in Nat /\ Cardinality(Started') <= Cardinality(Thread)
    BY <1>0, FS_Subset, FS_CardinalityType
  <1>2. CASE countAlarm' = countAlarm /\ (p \in Away <=> pc[t] \in Away)
    <2>1. Started' = Started
      BY <1>0, <1>2 DEF Started
    <2> QED
      BY <1>1, <1>2, <2>1
  <1>3. CASE countAlarm' = countAlarm + 1 /\ p \in Away /\ pc[t] \notin Away
    <2>1. Started' = Started \cup {t} /\ t \notin Started
      BY <1>0, <1>3 DEF Started
    <2>2. Cardinality(Started \cup {t}) = Cardinality(Started) + 1
      BY <1>1, <2>1, FS_AddElement
    <2> QED
      BY <1>1, <1>3, <2>1, <2>2
  <1>4. CASE countAlarm' = countAlarm - 1 /\ p \notin Away /\ pc[t] \in Away
    <2>1. Started' = Started \ {t} /\ t \in Started
      BY <1>0, <1>4 DEF Started
    <2>2. Cardinality(Started \ {t}) = Cardinality(Started) - 1
      BY <1>1, <2>1, FS_RemoveElement
    <2> QED
      BY <1>1, <1>4, <2>1, <2>2
  <1> QED
    BY <1>2, <1>3, <1>4 DEF Counts

-----------------------------------------------------------------------------
(***************************************************************************)
(* What a step of the thread t, or an interrupt, does: every action is one *)
(* of these, and every one of these keeps the invariant.                   *)
(***************************************************************************)
Effect(t, p, W, Z, A, C) ==
    /\ Moves(t, p, W, Z) /\ Route(t, p)
    /\ p = pc[t] \/ pc[t] # "done"
    /\ p = "done" => t \in Z \/ pc[t] = "done"
    /\ Z = {} \/ status[t] = "RUNNING"
    /\ Queues(t, p, W, A, C) /\ Free(t, p)
    /\ Counts(t, p)
    /\ lockQueue' \in Seq(Thread) /\ conQueue' \in Seq(Thread)
    /\ pending' \in Seq(0..MaxSleep) /\ left' \in [Thread -> 0..MaxSleep]
    /\ isLockBusy' \in BOOLEAN /\ failed' \in BOOLEAN /\ randomTimer' = randomTimer
    /\ inHandler' \in BOOLEAN /\ (inHandler => inHandler')
    /\ ~inHandler' => Aligned' /\ Locking(t, p, W, Z, A, C)

\* A step with such an effect keeps the invariant.
LEMMA EffectKeeps ==
    ASSUME BaseInv, NEW t \in Thread, NEW p \in PC,
           NEW W \in SUBSET Thread, NEW Z \in SUBSET {t}, NEW A \in SUBSET Z, NEW C \in SUBSET Z,
           Effect(t, p, W, Z, A, C)
    PROVE  BaseInv'
  <1>0. /\ TypeOK /\ ThreadInv /\ QueueInv /\ countAlarm = Cardinality(Started)
        /\ ~inHandler => Aligned /\ LockInv
    BY DEF BaseInv
  <1>1. ThreadInv'
    BY <1>0, ThreadsKept DEF Effect
  <1>2. QueueInv'
    BY <1>0, QueuesKept DEF Effect
  <1>3. pc' = [pc EXCEPT ![t] = p] /\ SchedTypeOK'
    BY DEF Effect, Moves
  <1>4. countAlarm' = Cardinality(Started') /\ countAlarm' \in 0..Cardinality(Thread)
    BY <1>0, <1>3, CountKept DEF Effect
  <1>5. ASSUME ~inHandler' PROVE Aligned' /\ LockInv'
    <2>1. LockInv /\ Locking(t, p, W, Z, A, C)
      BY <1>0, <1>5 DEF Effect
    <2> QED
      BY <1>0, <1>5, <2>1, LockKept DEF Effect
  <1>6. TypeOK'
    <2>1. pc' \in [Thread -> PC]
      BY <1>0, <1>3 DEF TypeOK
    <2> QED
      BY <1>0, <1>3, <1>4, <2>1 DEF TypeOK, Effect
  <1> QED
    BY <1>1, <1>2, <1>4, <1>5, <1>6 DEF BaseInv

-----------------------------------------------------------------------------
(* The threads' steps.                                                     *)

\* A thread that makes a step has the processor and waits for nothing.
LEMMA RunningThread ==
    ASSUME TypeOK, ThreadInv, QueueInv, NEW t \in Thread, Running(t)
    PROVE  /\ t = currentThread /\ machineStatus = "SystemMode" /\ status[t] = "RUNNING"
           /\ pc[t] # "done" /\ t \notin Range(lockQueue) \cup Range(conQueue)
  <1>1. t = currentThread /\ machineStatus = "SystemMode" /\ status[t] = "RUNNING"
    BY DEF Running, ThreadInv, SchedulerConsistent, OneRunning
  <1>2. pc[t] # "done"
    BY <1>1 DEF ThreadInv
  <1>3. t \notin Range(lockQueue) \cup Range(conQueue)
    BY <1>1 DEF QueueInv
  <1> QED
    BY <1>1, <1>2, <1>3

\* The running thread sleeps or ends, and wakes nobody.
LEMMA SleepAlone ==
    ASSUME TypeOK, ThreadInv, QueueInv, NEW t \in Thread, Running(t),
           NEW p \in PC, pc' = [pc EXCEPT ![t] = p],
           NEW dead \in Thread \cup {NoThread},
           dead = threadToBeDestroyed \/ (dead = t /\ p = "done"),
           Sleep(<<>>, dead)
    PROVE  Moves(t, p, {}, {t})
  <1>1. <<>> \in Seq(Thread) /\ IsInjective(<<>>) /\ Range(<<>>) = {}
    BY EmptySeq DEF IsInjective, Range
  <1> DEFINE none == <<>>
  <1>2. none \in Seq(Thread) /\ IsInjective(none) /\ Range(none) = {} /\ Sleep(none, dead)
    BY <1>1
  <1> HIDE DEF none
  <1>3. t = currentThread /\ machineStatus = "SystemMode" /\ pc[t] # "done"
    BY RunningThread
  <1>4. \A u \in Range(none) : status[u] = "BLOCKED" /\ pc[u] # "done"
    BY <1>2
  <1>5. Moves(t, p, Range(none), {t})
    BY <1>2, <1>3, <1>4, SleepMoves
  <1> QED
    BY <1>2, <1>5

\* Lock::Acquire of a thread: it sleeps on the lock's queue, or takes the lock.
LEMMA AcquireEffect ==
    ASSUME TypeOK, ThreadInv, QueueInv, NEW t \in Thread, Running(t),
           NEW again \in PC, again \in Awaits, NEW after \in PC \ {"done"},
           again = "asleep" \/ after \in {"awake", "asleep"} => pc[t] = "asleep",
           AcquireLoop(t, again, after), UNCHANGED <<conQueue, left>>
    PROVE  /\ lockQueue' \in Seq(Thread)
           /\ \/ /\ isLockBusy /\ isLockBusy' = isLockBusy
                 /\ Moves(t, again, {}, {t}) /\ Queues(t, again, {}, {t}, {})
              \/ /\ ~isLockBusy /\ isLockBusy' = TRUE
                 /\ Moves(t, after, {}, {}) /\ Queues(t, after, {}, {}, {})
  <1>0. /\ lockQueue \in Seq(Thread) /\ IsInjective(lockQueue) /\ IsInjective(conQueue)
        /\ pc \in [Thread -> PC]
        /\ threadToBeDestroyed \in Thread \cup {NoThread}
        /\ t \notin Range(lockQueue) \cup Range(conQueue) /\ pc[t] # "done"
    BY RunningThread DEF TypeOK, SchedTypeOK, QueueInv
  <1>1. pc[t] = "asleep" => left[t] = 0
    BY <1>0 DEF QueueInv
  <1>2. CASE isLockBusy
    <2>1. /\ lockQueue' = Append(lockQueue, t) /\ pc' = [pc EXCEPT ![t] = again]
          /\ Sleep(<<>>, threadToBeDestroyed) /\ isLockBusy' = isLockBusy
      BY <1>2 DEF AcquireLoop, Goto
    <2>2. Moves(t, again, {}, {t})
      BY <1>0, <2>1, SleepAlone
    <2>3. /\ lockQueue' \in Seq(Thread) /\ Range(lockQueue') = Range(lockQueue) \cup {t}
          /\ IsInjective(lockQueue')
      BY <1>0, <2>1, AppendProperties, AppendRange
    <2>4. Queues(t, again, {}, {t}, {})
      <3>1. again # "done" /\ again # "awake"
        BY DEF Awaits
      <3> QED
        BY <1>0, <2>3, <3>1 DEF Queues
    <2> QED
      BY <1>2, <2>1, <2>2, <2>3, <2>4
  <1>3. CASE ~isLockBusy
    <2>1. /\ isLockBusy' = TRUE /\ pc' = [pc EXCEPT ![t] = after]
          /\ UNCHANGED <<sched, lockQueue>>
      BY <1>3 DEF AcquireLoop, Goto
    <2>2. Moves(t, after, {}, {})
      BY <1>0, <2>1, StillMoves
    <2>3. Queues(t, after, {}, {}, {})
      BY <1>0, <1>1, <2>1 DEF Queues
    <2> QED
      BY <1>0, <1>3, <2>1, <2>2, <2>3
  <1> QED
    BY <1>2, <1>3

\* The clock and its count, when the condition's queue stays as it is.
LEMMA StillAligned ==
    ASSUME TypeOK, Aligned, UNCHANGED <<pending, conQueue, left>>
    PROVE  Aligned'
  BY DEF Aligned

\* The step of Lock::Acquire, in Pause or in Wait, or of a thread in a handler's shadow.
LEMMA AcquireKeeps ==
    ASSUME BaseInv, NEW t \in Thread, Running(t),
           NEW again \in PC, again \in Awaits, NEW after \in PC,
           again = "asleep" \/ after \in {"awake", "asleep"} => pc[t] = "asleep",
           pc[t] \in {"start", "acquire", "asleep"},
           AcquireLoop(t, again, after),
           UNCHANGED <<pending, conQueue, left, randomTimer, inHandler, failed>>,
           inHandler => isLockBusy, ~inHandler => after \in Inside,
           after \in Inside \cup Awaits,
           countAlarm' = IF pc[t] = "start" THEN countAlarm + 1 ELSE countAlarm
    PROVE  BaseInv'
  <1>0. /\ TypeOK /\ ThreadInv /\ QueueInv /\ (~inHandler => Aligned /\ LockInv)
        /\ pending \in Seq(0..MaxSleep) /\ conQueue \in Seq(Thread) /\ left \in [Thread -> 0..MaxSleep]
        /\ isLockBusy \in BOOLEAN /\ failed \in BOOLEAN /\ inHandler \in BOOLEAN
        /\ status[t] = "RUNNING" /\ t \notin Range(lockQueue) \cup Range(conQueue)
    BY RunningThread DEF BaseInv, TypeOK
  <1>1. after # "done" /\ again # "done"
    BY DEF Inside, Awaits
  <1>2. /\ lockQueue' \in Seq(Thread)
        /\ \/ /\ isLockBusy /\ isLockBusy' = isLockBusy
              /\ Moves(t, again, {}, {t}) /\ Queues(t, again, {}, {t}, {})
           \/ /\ ~isLockBusy /\ isLockBusy' = TRUE
              /\ Moves(t, after, {}, {}) /\ Queues(t, after, {}, {}, {})
    BY <1>0, <1>1, AcquireEffect
  <1>3. pc[t] # "done" /\ pc[t] \notin Inside /\ pc[t] # "fork" /\ t # Guard /\ Main \in Thread
    BY <1>0, SchedulerAssumption DEF Inside, ThreadInv
  <1>4. \A q \in {again, after} : Route(t, q) /\ Free(t, q) /\ Counts(t, q)
    <2>1. status[t] # "JUST_CREATED"
      BY <1>0
    <2>2. \A q \in {again, after} : q \in Away /\ q # "fork" /\ q # "loop"
      BY DEF Inside, Awaits, Away
    <2>3. pc[t] \in Away <=> pc[t] # "start"
      BY DEF Away
    <2> QED
      BY <1>0, <1>3, <2>1, <2>2, <2>3 DEF Route, Free, Counts
  <1>5. ~inHandler => Aligned'
    BY <1>0, StillAligned
  <1>6. CASE /\ isLockBusy /\ isLockBusy' = isLockBusy
             /\ Moves(t, again, {}, {t}) /\ Queues(t, again, {}, {t}, {})
    <2>1. Locking(t, again, {}, {t}, {t}, {})
      <3>1. again \notin Inside
        BY DEF Inside, Awaits
      <3> QED
        BY <1>3, <1>6, <3>1 DEF Locking
    <2>2. Effect(t, again, {}, {t}, {t}, {})
      BY <1>0, <1>1, <1>2, <1>3, <1>4, <1>5, <1>6, <2>1 DEF Effect
    <2> QED
      BY <2>2, EffectKeeps
  <1>7. CASE /\ ~isLockBusy /\ isLockBusy' = TRUE
             /\ Moves(t, after, {}, {}) /\ Queues(t, after, {}, {}, {})
    <2>1. Locking(t, after, {}, {}, {}, {})
      BY <1>7 DEF Locking
    <2>2. Effect(t, after, {}, {}, {}, {})
      BY <1>0, <1>1, <1>2, <1>3, <1>4, <1>5, <1>7, <2>1 DEF Effect
    <2> QED
      BY <2>2, EffectKeeps
  <1> QED
    BY <1>2, <1>6, <1>7

\* AlarmThread up to the end of Pause's Acquire, and the rest of a contended Acquire.
LEMMA StartResumeKeep ==
    ASSUME BaseInv, NEW t \in Thread, StartPause(t) \/ Resume(t) \/ InHandlerAcquire(t)
    PROVE  BaseInv'
  <1>0. {"acquire", "asleep", "locked", "awake"} \subseteq PC /\ pc[t] \in PC /\ Running(t)
    BY DEF PC, BaseInv, TypeOK, StartPause, Resume, InHandlerAcquire, Step
  <1>1. CASE StartPause(t)
    <2>1. /\ pc[t] = "start" /\ AcquireLoop(t, "acquire", "locked") /\ ~inHandler
          /\ countAlarm' = countAlarm + 1
          /\ UNCHANGED <<pending, conQueue, left, randomTimer, inHandler, failed>>
      BY <1>1 DEF StartPause, Step
    <2> QED
      BY <1>0, <2>1, AcquireKeeps DEF Awaits, Inside
  <1>2. CASE Step(t, "acquire") /\ AcquireLoop(t, "acquire", "locked") /\ Resume(t)
    <2>1. /\ pc[t] = "acquire" /\ AcquireLoop(t, "acquire", "locked") /\ ~inHandler
          /\ UNCHANGED <<pending, conQueue, left, countAlarm, randomTimer, inHandler, failed>>
      BY <1>2 DEF Resume, Step
    <2> QED
      BY <1>0, <2>1, AcquireKeeps DEF Awaits, Inside
  <1>3. CASE Step(t, "asleep") /\ AcquireLoop(t, "asleep", "awake") /\ Resume(t)
    <2>1. /\ pc[t] = "asleep" /\ AcquireLoop(t, "asleep", "awake") /\ ~inHandler
          /\ UNCHANGED <<pending, conQueue, left, countAlarm, randomTimer, inHandler, failed>>
      BY <1>3 DEF Resume, Step
    <2> QED
      BY <1>0, <2>1, AcquireKeeps DEF Awaits, Inside
  <1>4. CASE InHandlerAcquire(t)
    <2>1. /\ pc[t] \in Awaits /\ AcquireLoop(t, pc[t], pc[t]) /\ inHandler /\ isLockBusy
          /\ UNCHANGED <<pending, conQueue, left, countAlarm, randomTimer, inHandler, failed>>
      BY <1>4 DEF InHandlerAcquire, Awaits
    <2>2. pc[t] \in {"acquire", "asleep"}
      BY <2>1 DEF Awaits
    <2> QED
      BY <1>0, <2>1, <2>2, AcquireKeeps
  <1> QED
    BY <1>1, <1>2, <1>3, <1>4 DEF Resume

\* A step that does not touch the alarm: main, ProhibitExit, the scheduler.
LEMMA OutsideKeeps ==
    ASSUME BaseInv, NEW t \in Thread, NEW p \in PC,
           NEW W \in SUBSET Thread, NEW Z \in SUBSET {t}, Moves(t, p, W, Z),
           \A u \in W : status[u] = "JUST_CREATED",
           \/ p = pc[t] /\ Z = {}
           \/ /\ pc[t] = "fork" /\ p = "start" /\ Z = {} /\ status[t] = "RUNNING"
              /\ \A u \in Thread : status[u] # "JUST_CREATED"
           \/ pc[t] = "loop" /\ p = "done" /\ Z = {t} /\ status[t] = "RUNNING",
           UNCHANGED <<alarm, randomTimer, inHandler>>, failed' \in BOOLEAN
    PROVE  BaseInv'
  <1>0. /\ TypeOK /\ ThreadInv /\ QueueInv /\ (~inHandler => Aligned /\ LockInv)
        /\ pending \in Seq(0..MaxSleep) /\ conQueue \in Seq(Thread) /\ lockQueue \in Seq(Thread)
        /\ left \in [Thread -> 0..MaxSleep]
        /\ isLockBusy \in BOOLEAN /\ inHandler \in BOOLEAN
        /\ pending' = pending /\ lockQueue' = lockQueue /\ isLockBusy' = isLockBusy
        /\ conQueue' = conQueue /\ left' = left /\ countAlarm' = countAlarm
        /\ Guard \in Thread \ {Main} /\ Main \in Thread
    BY AlarmAssumption, SchedulerAssumption DEF BaseInv, TypeOK, alarm
  <1>1. \A u \in Range(lockQueue) \cup Range(conQueue) : status[u] = "BLOCKED"
    BY <1>0 DEF QueueInv
  <1>2. Free(t, p)
    BY <1>1 DEF Free
  <1>3. Queues(t, p, W, {}, {})
    <2>1. W \cap (Range(lockQueue) \cup Range(conQueue)) = {}
      BY <1>1
    <2>2. p = pc[t] \/ p \notin {"awake", "asleep"}
      OBVIOUS
    <2> QED
      BY <1>0, <2>1, <2>2 DEF Queues, QueueInv
  <1>4. Route(t, p)
    <2>1. pc[t] = "fork" => t = Main /\ t # Guard
      BY <1>0 DEF ThreadInv
    <2>2. /\ p = pc[t] => /\ p = "fork" => t = Main
                          /\ p = "loop" => t = Guard
                          /\ t = Guard => p \in {"loop", "done"}
      BY <1>0 DEF ThreadInv
    <2> QED
      BY <2>1, <2>2 DEF Route
  <1>5. Counts(t, p)
    BY <1>0 DEF Counts, Away
  <1>6. Locking(t, p, W, Z, {}, {})
    BY <1>0 DEF Locking, Inside, Awaits
  <1>7. ~inHandler' => Aligned'
    BY <1>0, StillAligned
  <1>8. p = pc[t] \/ pc[t] # "done"
    OBVIOUS
  <1>9. p = "done" => t \in Z \/ pc[t] = "done"
    OBVIOUS
  <1>10. Effect(t, p, W, Z, {}, {})
    BY <1>0, <1>2, <1>3, <1>4, <1>5, <1>6, <1>7, <1>8, <1>9 DEF Effect
  <1> QED
    BY <1>10, EffectKeeps

\* Main forks a thread that has not been forked yet, and then becomes an AlarmThread.
LEMMA MainKeeps ==
    ASSUME BaseInv, MainStep
    PROVE  BaseInv'
  <1>0. /\ TypeOK /\ ThreadInv /\ QueueInv /\ pc \in [Thread -> PC] /\ Main \in Thread
        /\ failed \in BOOLEAN /\ "start" \in PC
    BY SchedulerAssumption DEF BaseInv, TypeOK, PC
  <1>1. ASSUME NEW u \in Thread, ForkNext(u) PROVE BaseInv'
    <2>1. /\ Running(Main) /\ status[u] = "JUST_CREATED" /\ ReadyToRun(<<u>>)
          /\ pc[Main] = "fork"
          /\ UNCHANGED <<alarm, randomTimer, inHandler, failed, pc>>
      BY <1>1 DEF ForkNext, ForkThread, Step
    <2> DEFINE w == <<u>>
    <2>2. w \in Seq(Thread) /\ Range(w) = {u} /\ IsInjective(w) /\ ReadyToRun(w)
      BY <2>1 DEF Range, IsInjective
    <2> HIDE DEF w
    <2>3. u # Main /\ pc[u] # "done"
      BY <1>0, <2>1 DEF ThreadInv
    <2>4. pc' = [pc EXCEPT ![Main] = pc[Main]] /\ pc[Main] \in PC
      BY <1>0, <2>1
    <2>5. Moves(Main, pc[Main], Range(w), {})
      BY <1>0, <2>1, <2>2, <2>3, <2>4, WakeMoves
    <2>6. Moves(Main, pc[Main], {u}, {})
      BY <2>2, <2>5
    <2> QED
      BY <1>0, <2>1, <2>4, <2>6, OutsideKeeps
  <1>2. CASE ForkedAll
    <2>1. /\ Running(Main) /\ pc[Main] = "fork" /\ pc' = [pc EXCEPT ![Main] = "start"]
          /\ \A u \in Thread : status[u] # "JUST_CREATED"
          /\ UNCHANGED <<sched, alarm, randomTimer, inHandler, failed>>
      BY <1>2 DEF ForkedAll, Step, Goto
    <2>2. Moves(Main, "start", {}, {})
      BY <1>0, <2>1, StillMoves
    <2>3. status[Main] = "RUNNING"
      BY <1>0, <2>1, RunningThread
    <2> QED
      BY <1>0, <2>1, <2>2, <2>3, OutsideKeeps
  <1> QED
    BY <1>1, <1>2 DEF MainStep

\* ProhibitExit, the timer's yields and the end of an idle period.
LEMMA YieldKeeps ==
    ASSUME BaseInv, ProhibitYield \/ ProhibitEnd \/ Preempt \/ IdleEnd
    PROVE  BaseInv'
  <1>0. /\ TypeOK /\ ThreadInv /\ QueueInv /\ pc \in [Thread -> PC] /\ Guard \in Thread
        /\ failed \in BOOLEAN /\ "done" \in PC /\ currentThread \in Thread
    BY AlarmAssumption DEF BaseInv, TypeOK, PC, SchedTypeOK
  <1>1. CASE ProhibitYield \/ Preempt \/ IdleEnd
    <2>1. /\ UNCHANGED <<alarm, randomTimer, inHandler, failed, pc>>
          /\ \/ machineStatus = "SystemMode" /\ YieldCPU
             \/ LeaveIdle
      BY <1>1 DEF ProhibitYield, Preempt, IdleEnd, Step, InterruptsOn, Running
    <2>2. Moves(currentThread, pc[currentThread], {}, {})
      BY <1>0, <2>1, YieldMoves
    <2> QED
      BY <1>0, <2>1, <2>2, OutsideKeeps
  <1>2. CASE ProhibitEnd
    <2>1. /\ Running(Guard) /\ pc[Guard] = "loop" /\ pc' = [pc EXCEPT ![Guard] = "done"]
          /\ Sleep(<<>>, Guard)
          /\ UNCHANGED <<alarm, randomTimer, inHandler, failed>>
      BY <1>2 DEF ProhibitEnd, Step, Goto
    <2>2. Moves(Guard, "done", {}, {Guard})
      BY <1>0, <2>1, SleepAlone
    <2>3. status[Guard] = "RUNNING"
      BY <1>0, <2>1, RunningThread
    <2> QED
      BY <1>0, <2>1, <2>2, <2>3, OutsideKeeps
  <1> QED
    BY <1>1, <1>2

\* An assertion fails, or the machine halts: no thread moves.
LEMMA StopKeeps ==
    ASSUME BaseInv, Halt \/ \E t \in Thread : PauseZero(t) \/ InHandlerEnable(t)
    PROVE  BaseInv'
  <1>0. /\ TypeOK /\ ThreadInv /\ QueueInv /\ pc \in [Thread -> PC]
        /\ failed \in BOOLEAN /\ currentThread \in Thread
    BY DEF BaseInv, TypeOK, SchedTypeOK
  <1>1. UNCHANGED <<alarm, randomTimer, inHandler, pc>> /\ failed' \in BOOLEAN
    BY <1>0 DEF Halt, PauseZero, InHandlerEnable
  <1>2. pc' = [pc EXCEPT ![currentThread] = pc[currentThread]] /\ pc[currentThread] \in PC
    BY <1>0, <1>1
  <1>3. Moves(currentThread, pc[currentThread], {}, {})
    <2>1. CASE Halt
      <3>1. /\ machineStatus = "IdleMode" /\ machineStatus' = "Halted"
            /\ UNCHANGED <<status, readyList, currentThread, threadToBeDestroyed, suspended>>
        BY <2>1 DEF Halt, HaltIdle
      <3>2. SchedulerConsistent' /\ SchedTypeOK'
        BY <1>0, <3>1 DEF TypeOK, ThreadInv, SchedTypeOK, SchedulerConsistent, ReadyListExact, OneRunning
      <3>3. threadToBeDestroyed' \in Thread => pc'[threadToBeDestroyed'] = "done"
        BY <1>0, <1>1, <3>1 DEF ThreadInv
      <3> QED
        BY <1>2, <3>1, <3>2, <3>3 DEF Moves
    <2>2. CASE \E t \in Thread : PauseZero(t) \/ InHandlerEnable(t)
      <3>1. UNCHANGED sched
        BY <2>2 DEF PauseZero, InHandlerEnable
      <3> QED
        BY <1>0, <1>2, <3>1, StillMoves
    <2> QED
      BY <2>1, <2>2
  <1> QED
    BY <1>0, <1>1, <1>2, <1>3, OutsideKeeps

\* The first of those that wait, in either queue.
LEMMA FirstWaits ==
    ASSUME TypeOK, QueueInv
    PROVE  \A q \in {lockQueue, conQueue} :
              /\ First(q) \in Seq(Thread) /\ Rest(q) \in Seq(Thread)
              /\ IsInjective(First(q)) /\ IsInjective(Rest(q))
              /\ Range(First(q)) \in SUBSET Range(q)
              /\ Range(Rest(q)) = Range(q) \ Range(First(q))
              /\ q # <<>> => Head(q) \in Range(First(q)) /\ Range(First(q)) = {Head(q)}
              /\ \A u \in Range(First(q)) : u \in Thread /\ status[u] = "BLOCKED" /\ pc[u] # "done"
  <1> SUFFICES ASSUME NEW q \in {lockQueue, conQueue}
               PROVE  /\ First(q) \in Seq(Thread) /\ Rest(q) \in Seq(Thread)
                      /\ IsInjective(First(q)) /\ IsInjective(Rest(q))
                      /\ Range(First(q)) \in SUBSET Range(q)
                      /\ Range(Rest(q)) = Range(q) \ Range(First(q))
                      /\ q # <<>> => Head(q) \in Range(First(q)) /\ Range(First(q)) = {Head(q)}
                      /\ \A u \in Range(First(q)) : u \in Thread /\ status[u] = "BLOCKED" /\ pc[u] # "done"
    OBVIOUS
  <1>1. q \in Seq(Thread) /\ IsInjective(q)
    BY DEF TypeOK, QueueInv
  <1>2. \A u \in Range(q) : u \in Thread /\ status[u] = "BLOCKED" /\ pc[u] # "done"
    <2>1. \A u \in Range(q) : u \in Thread
      BY <1>1, RangeOfSeq
    <2> QED
      BY <2>1 DEF QueueInv
  <1>3. First(q) \in Seq(Thread) /\ Rest(q) \in Seq(Thread)
    BY <1>1, FirstRestType
  <1>4. /\ IsInjective(First(q)) /\ IsInjective(Rest(q))
        /\ Range(First(q)) \subseteq Range(q)
        /\ Range(Rest(q)) = Range(q) \ Range(First(q))
        /\ q # <<>> => Range(First(q)) = {Head(q)}
    BY <1>1, FirstRestRange
  <1> QED
    BY <1>2, <1>3, <1>4

\* Schedule and Wait: the thread gives the lock up, wakes the next and sleeps.
LEMMA PauseWaitKeeps ==
    ASSUME BaseInv, NEW t \in Thread, PauseWait(t)
    PROVE  BaseInv'
  <1>0. PICK h \in 1..MaxSleep :
        /\ Running(t) /\ pc[t] = "locked" /\ ~inHandler
        /\ pending' = SortedInsert(pending, h, h, pending)
        /\ conQueue' = SortedInsert(conQueue, t, h, [i \in DOMAIN conQueue |-> left[conQueue[i]]])
        /\ left' = [left EXCEPT ![t] = h]
        /\ isLockBusy' = FALSE /\ lockQueue' = Rest(lockQueue)
        /\ pc' = [pc EXCEPT ![t] = "asleep"]
        /\ Sleep(First(lockQueue), threadToBeDestroyed)
        /\ UNCHANGED <<countAlarm, randomTimer, inHandler, failed>>
    BY DEF PauseWait, Step, Goto
  <1>1. /\ TypeOK /\ ThreadInv /\ QueueInv /\ Aligned /\ LockInv /\ pc \in [Thread -> PC]
        /\ failed \in BOOLEAN /\ inHandler \in BOOLEAN /\ "asleep" \in PC
        /\ threadToBeDestroyed \in Thread \cup {NoThread} /\ left \in [Thread -> 0..MaxSleep]
    BY <1>0 DEF BaseInv, TypeOK, SchedTypeOK, PC
  <1>2. /\ t = currentThread /\ machineStatus = "SystemMode" /\ status[t] = "RUNNING"
        /\ pc[t] # "done" /\ t \notin Range(lockQueue) \cup Range(conQueue)
    BY <1>0, <1>1, RunningThread
  <1> DEFINE w == First(lockQueue)
             W == Range(w)
  <1>3. /\ w \in Seq(Thread) /\ IsInjective(w) /\ lockQueue' \in Seq(Thread)
        /\ IsInjective(lockQueue') /\ W \in SUBSET Range(lockQueue) /\ W \in SUBSET Thread
        /\ Range(lockQueue') = Range(lockQueue) \ W
        /\ lockQueue # <<>> => Head(lockQueue) \in W
        /\ \A u \in W : status[u] = "BLOCKED" /\ pc[u] # "done"
    BY <1>0, <1>1, FirstWaits
  <1>4. Sleep(w, threadToBeDestroyed)
    BY <1>0
  <1> HIDE DEF w
  <1>5. Moves(t, "asleep", W, {t})
    BY <1>0, <1>1, <1>2, <1>3, <1>4, SleepMoves
  <1>6. IsInjective(conQueue)
    BY <1>1 DEF QueueInv
  <1>7. /\ Aligned' /\ pending' \in Seq(0..MaxSleep) /\ conQueue' \in Seq(Thread)
        /\ left' \in [Thread -> 0..MaxSleep]
        /\ IsInjective(conQueue') /\ Range(conQueue') = Range(conQueue) \cup {t}
    BY <1>0, <1>1, <1>2, <1>6, PauseAligned
  <1> HIDE DEF W
  <1>8. Queues(t, "asleep", W, {}, {t})
    <2>1. \A u \in Thread \ {t} : left'[u] = left[u]
      BY <1>0, <1>1
    <2>2. W \cap Range(conQueue) = {}
      BY <1>1, <1>3 DEF QueueInv
    <2> QED
      BY <1>3, <1>7, <2>1, <2>2 DEF Queues
  <1>9. Route(t, "asleep") /\ Free(t, "asleep") /\ Counts(t, "asleep")
    <2>1. t # Guard
      BY <1>0, <1>1 DEF ThreadInv
    <2> QED
      BY <1>0, <1>2, <2>1 DEF Route, Free, Counts, Away
  <1>10. Locking(t, "asleep", W, {t}, {}, {t})
    BY <1>0, <1>3 DEF Locking, Inside
  <1>11. Effect(t, "asleep", W, {t}, {}, {t})
    BY <1>0, <1>1, <1>2, <1>3, <1>5, <1>7, <1>8, <1>9, <1>10 DEF Effect
  <1> QED
    BY <1>1, <1>3, <1>11, EffectKeeps

\* Pause's Release: the thread gives the lock up, wakes the next and goes on.
LEMMA PauseEndKeeps ==
    ASSUME BaseInv, NEW t \in Thread, PauseEnd(t)
    PROVE  BaseInv'
  <1>0. /\ Running(t) /\ pc[t] = "awake" /\ ~inHandler
        /\ isLockBusy' = FALSE /\ lockQueue' = Rest(lockQueue)
        /\ pc' = [pc EXCEPT ![t] = "released"]
        /\ ReadyToRun(First(lockQueue))
        /\ UNCHANGED <<pending, conQueue, left, countAlarm, randomTimer, inHandler, failed>>
    BY DEF PauseEnd, Step, Goto
  <1>1. /\ TypeOK /\ ThreadInv /\ QueueInv /\ Aligned /\ LockInv /\ pc \in [Thread -> PC]
        /\ failed \in BOOLEAN /\ inHandler \in BOOLEAN /\ "released" \in PC
        /\ left \in [Thread -> 0..MaxSleep] /\ pending \in Seq(0..MaxSleep) /\ conQueue \in Seq(Thread)
    BY <1>0 DEF BaseInv, TypeOK, PC
  <1>2. /\ t = currentThread /\ machineStatus = "SystemMode" /\ status[t] = "RUNNING"
        /\ pc[t] # "done" /\ t \notin Range(lockQueue) \cup Range(conQueue)
    BY <1>0, <1>1, RunningThread
  <1> DEFINE w == First(lockQueue)
             W == Range(w)
  <1>3. /\ w \in Seq(Thread) /\ IsInjective(w) /\ lockQueue' \in Seq(Thread)
        /\ IsInjective(lockQueue') /\ W \in SUBSET Range(lockQueue) /\ W \in SUBSET Thread
        /\ Range(lockQueue') = Range(lockQueue) \ W
        /\ lockQueue # <<>> => Head(lockQueue) \in W
        /\ \A u \in W : status[u] = "BLOCKED" /\ pc[u] # "done"
    BY <1>0, <1>1, FirstWaits
  <1>4. ReadyToRun(w)
    BY <1>0
  <1> HIDE DEF w
  <1>5. Moves(t, "released", W, {})
    <2>1. \A u \in W : u # t
      BY <1>2, <1>3
    <2> QED
      BY <1>0, <1>1, <1>2, <1>3, <1>4, <2>1, WakeMoves
  <1> HIDE DEF W
  <1>6. Aligned'
    BY <1>0, <1>1, StillAligned
  <1>7. Queues(t, "released", W, {}, {})
    <2>1. W \cap Range(conQueue) = {}
      BY <1>1, <1>3 DEF QueueInv
    <2>2. IsInjective(conQueue)
      BY <1>1 DEF QueueInv
    <2> QED
      BY <1>0, <1>3, <2>1, <2>2 DEF Queues
  <1>8. Route(t, "released") /\ Free(t, "released") /\ Counts(t, "released")
    <2>1. t # Guard
      BY <1>0, <1>1 DEF ThreadInv
    <2> QED
      BY <1>0, <1>2, <2>1 DEF Route, Free, Counts, Away
  <1>9. Locking(t, "released", W, {}, {}, {})
    BY <1>0, <1>3 DEF Locking, Inside
  <1>10. Effect(t, "released", W, {}, {}, {})
    BY <1>0, <1>1, <1>2, <1>3, <1>5, <1>6, <1>7, <1>8, <1>9 DEF Effect
  <1> QED
    BY <1>1, <1>3, <1>10, EffectKeeps

\* An AlarmThread ends.
LEMMA EndKeeps ==
    ASSUME BaseInv, NEW t \in Thread, AlarmThreadEnd(t)
    PROVE  BaseInv'
  <1>0. /\ Running(t) /\ pc[t] = "released" /\ ~inHandler /\ countAlarm' = countAlarm - 1
        /\ pc' = [pc EXCEPT ![t] = "done"]
        /\ Sleep(<<>>, t)
        /\ UNCHANGED <<pending, lockQueue, isLockBusy, conQueue, left, randomTimer, inHandler, failed>>
    BY DEF AlarmThreadEnd, Step, Goto
  <1>1. /\ TypeOK /\ ThreadInv /\ QueueInv /\ Aligned /\ LockInv /\ pc \in [Thread -> PC]
        /\ failed \in BOOLEAN /\ inHandler \in BOOLEAN /\ isLockBusy \in BOOLEAN /\ "done" \in PC
        /\ left \in [Thread -> 0..MaxSleep] /\ pending \in Seq(0..MaxSleep)
        /\ conQueue \in Seq(Thread) /\ lockQueue \in Seq(Thread)
    BY <1>0 DEF BaseInv, TypeOK, PC
  <1>2. /\ status[t] = "RUNNING" /\ t \notin Range(lockQueue) \cup Range(conQueue)
    BY <1>0, <1>1, RunningThread
  <1>3. Moves(t, "done", {}, {t})
    BY <1>0, <1>1, SleepAlone
  <1>4. Aligned'
    BY <1>0, <1>1, StillAligned
  <1>5. Queues(t, "done", {}, {}, {})
    BY <1>0, <1>1 DEF Queues, QueueInv
  <1>6. Route(t, "done") /\ Free(t, "done") /\ Counts(t, "done")
    BY <1>0, <1>2 DEF Route, Free, Counts, Away
  <1>7. Locking(t, "done", {}, {t}, {}, {})
    BY <1>0 DEF Locking, Inside, Awaits
  <1>8. Effect(t, "done", {}, {t}, {}, {})
    BY <1>0, <1>1, <1>2, <1>3, <1>4, <1>5, <1>6, <1>7 DEF Effect
  <1>9. /\ {} \in SUBSET Thread /\ {} \in SUBSET {t} /\ {t} \in SUBSET {t}
    OBVIOUS
  <1> QED
    BY <1>1, <1>8, <1>9, EffectKeeps

-----------------------------------------------------------------------------
(* The interrupts' steps.                                                  *)

\* OneTick advances the clock.
LEMMA TickKeeps ==
    ASSUME BaseInv, Tick
    PROVE  BaseInv'
  <1> DEFINE t == currentThread
             p == pc[t]
  <1>0. /\ TypeOK /\ ThreadInv /\ QueueInv /\ Aligned /\ LockInv /\ pc \in [Thread -> PC]
        /\ failed \in BOOLEAN /\ inHandler \in BOOLEAN /\ isLockBusy \in BOOLEAN
        /\ conQueue \in Seq(Thread) /\ lockQueue \in Seq(Thread) /\ t \in Thread /\ ~inHandler
    BY DEF BaseInv, TypeOK, SchedTypeOK, Tick, InterruptsOn
  <1>1. /\ pc' = [pc EXCEPT ![t] = p] /\ p \in PC
        /\ UNCHANGED <<sched, lockQueue, isLockBusy, conQueue, countAlarm, randomTimer, inHandler, failed, pc>>
    BY <1>0 DEF Tick
  <1>2. Moves(t, p, {}, {})
    BY <1>0, <1>1, StillMoves
  <1>3. /\ Aligned' /\ pending' \in Seq(0..MaxSleep) /\ left' \in [Thread -> 0..MaxSleep]
        /\ \A u \in Thread : left[u] = 0 => left'[u] = 0
    BY <1>0, TickAligned DEF Tick
  <1> HIDE DEF t
  <1>4. Queues(t, p, {}, {}, {})
    BY <1>0, <1>1, <1>3 DEF Queues, QueueInv
  <1>5. Route(t, p) /\ Free(t, p) /\ Counts(t, p)
    BY <1>0, <1>1 DEF Route, Free, Counts, ThreadInv
  <1>6. Locking(t, p, {}, {}, {}, {})
    BY <1>1 DEF Locking
  <1>7. p = "done" => pc[t] = "done"
    OBVIOUS
  <1> HIDE DEF p
  <1>8. Effect(t, p, {}, {}, {}, {})
    BY <1>0, <1>1, <1>2, <1>3, <1>4, <1>5, <1>6, <1>7 DEF Effect, p
  <1>9. {} \in SUBSET Thread /\ {} \in SUBSET {t} /\ {} \in SUBSET {}
    OBVIOUS
  <1> QED
    BY <1>0, <1>1, <1>8, <1>9, EffectKeeps

\* Awaken with the lock free wakes the first sleeper, whose time has come, and
\* the first that waits for the lock.
LEMMA AwakenKeeps ==
    ASSUME BaseInv, ~inHandler, Awaken, NEW t \in Thread,
           t \notin Range(lockQueue) \cup Range(conQueue),
           UNCHANGED <<isLockBusy, countAlarm, randomTimer, inHandler, failed, pc>>,
           Aligned', pending' \in Seq(0..MaxSleep), left' \in [Thread -> 0..MaxSleep],
           \A u \in Thread : left[u] = 0 => left'[u] = 0,
           conQueue # <<>>, left'[Head(conQueue)] = 0
    PROVE  BaseInv'
  <1> DEFINE p == pc[t]
             v == First(conQueue)
             w == First(lockQueue)
             W == Range(v \o w)
  <1>0. /\ TypeOK /\ ThreadInv /\ QueueInv /\ LockInv /\ pc \in [Thread -> PC]
        /\ failed \in BOOLEAN /\ inHandler \in BOOLEAN /\ isLockBusy \in BOOLEAN
        /\ conQueue \in Seq(Thread) /\ lockQueue \in Seq(Thread)
    BY DEF BaseInv, TypeOK
  <1>1. /\ ~isLockBusy /\ ReadyToRun(v \o w)
        /\ conQueue' = Rest(conQueue) /\ lockQueue' = Rest(lockQueue)
        /\ pc' = [pc EXCEPT ![t] = p] /\ p \in PC
    BY <1>0 DEF Awaken
  <1>2. /\ v \in Seq(Thread) /\ IsInjective(v) /\ Range(v) \in SUBSET Range(conQueue)
        /\ conQueue' \in Seq(Thread) /\ IsInjective(conQueue')
        /\ Range(conQueue') = Range(conQueue) \ Range(v)
        /\ Range(v) = {Head(conQueue)}
        /\ \A u \in Range(v) : u \in Thread /\ status[u] = "BLOCKED" /\ pc[u] # "done"
    BY <1>0, <1>1, FirstWaits
  <1>3. /\ w \in Seq(Thread) /\ IsInjective(w) /\ Range(w) \in SUBSET Range(lockQueue)
        /\ lockQueue' \in Seq(Thread) /\ IsInjective(lockQueue')
        /\ Range(lockQueue') = Range(lockQueue) \ Range(w)
        /\ \A u \in Range(w) : u \in Thread /\ status[u] = "BLOCKED" /\ pc[u] # "done"
    BY <1>0, <1>1, FirstWaits
  <1> HIDE DEF v, w
  <1>4. Range(v) \cap Range(w) = {} /\ Range(conQueue) \cap Range(lockQueue) = {}
    BY <1>0, <1>2, <1>3 DEF QueueInv
  <1>5. v \o w \in Seq(Thread) /\ IsInjective(v \o w) /\ W = Range(v) \cup Range(w)
    BY <1>2, <1>3, <1>4, ConcatProperties, ConcatRange
  <1>6. \A u \in W : u \in Thread /\ status[u] = "BLOCKED" /\ pc[u] # "done" /\ u # t
    BY <1>2, <1>3, <1>5
  <1> DEFINE z == v \o w
  <1>7. Moves(t, p, W, {})
    <2>1. z \in Seq(Thread) /\ IsInjective(z) /\ ReadyToRun(z) /\ W = Range(z)
      BY <1>1, <1>5
    <2> HIDE DEF z, W
    <2>2. Moves(t, p, Range(z), {})
      BY <1>0, <1>1, <1>6, <2>1, WakeMoves
    <2> QED
      BY <2>1, <2>2
  <1> HIDE DEF W, z
  <1>8. Queues(t, p, W, {}, {})
    <2>1. /\ Range(conQueue') = Range(conQueue) \ W
          /\ Range(lockQueue') = Range(lockQueue) \ W
          /\ W \cap Range(conQueue) = {Head(conQueue)}
      BY <1>2, <1>3, <1>4, <1>5
    <2> QED
      BY <1>2, <1>3, <2>1 DEF Queues
  <1>9. Route(t, p) /\ Free(t, p) /\ Counts(t, p)
    BY <1>0, <1>1 DEF Route, Free, Counts, ThreadInv
  <1>10. Locking(t, p, W, {}, {}, {})
    BY <1>1 DEF Locking
  <1>11. p = "done" => pc[t] = "done"
    OBVIOUS
  <1>12. p = pc[t] /\ W \in SUBSET Thread /\ {} \in SUBSET {t} /\ {} \in SUBSET {}
    BY <1>6
  <1> HIDE DEF p
  <1>13. Effect(t, p, W, {}, {}, {})
    BY <1>0, <1>1, <1>2, <1>3, <1>7, <1>8, <1>9, <1>10, <1>11, <1>12 DEF Effect
  <1> QED
    BY <1>1, <1>12, <1>13, EffectKeeps

\* CheckIfDue and Idle fire an interrupt with the lock free, or with it held.
LEMMA FireKeeps ==
    ASSUME BaseInv, Fire \/ FireBlocked \/ IdleFire
    PROVE  BaseInv'
  <1>0. /\ TypeOK /\ ThreadInv /\ QueueInv /\ Aligned /\ LockInv /\ pc \in [Thread -> PC]
        /\ failed \in BOOLEAN /\ isLockBusy \in BOOLEAN
        /\ conQueue \in Seq(Thread) /\ lockQueue \in Seq(Thread) /\ pending \in Seq(0..MaxSleep)
        /\ left \in [Thread -> 0..MaxSleep]
        /\ threadToBeDestroyed \in Thread \cup {NoThread}
        /\ currentThread \in Thread /\ ~inHandler /\ Guard \in Thread
    BY AlarmAssumption
       DEF BaseInv, TypeOK, SchedTypeOK, Fire, FireBlocked, IdleFire, InterruptsOn
  <1>1. CASE Fire
    <2>1. /\ Running(currentThread) /\ Due /\ pending' = Tail(pending) /\ Awaken
          /\ UNCHANGED <<isLockBusy, left, countAlarm, randomTimer, inHandler, failed, pc>>
      BY <1>1 DEF Fire, InterruptsOn
    <2>2. currentThread \notin Range(lockQueue) \cup Range(conQueue)
      BY <1>0, <2>1, RunningThread
    <2>3. Aligned' /\ conQueue # <<>> /\ left[Head(conQueue)] = 0
      <3>1. conQueue' = Rest(conQueue)
        BY <2>1 DEF Awaken
      <3> QED
        BY <1>0, <2>1, <3>1, FireAligned
    <2>4. pending' \in Seq(0..MaxSleep)
      BY <1>0, <2>1, HeadTailProperties DEF Due
    <2> QED
      BY <1>0, <2>1, <2>2, <2>3, <2>4, AwakenKeeps
  <1>2. CASE IdleFire
    <2>1. /\ pending # <<>> /\ Awaken
          /\ pending' = [i \in 1..(Len(pending) - 1) |-> pending[i + 1] - Head(pending)]
          /\ left' = [t \in Thread |->
                        IF left[t] > Head(pending) THEN left[t] - Head(pending) ELSE 0]
          /\ UNCHANGED <<isLockBusy, countAlarm, randomTimer, inHandler, failed, pc>>
      BY <1>2 DEF IdleFire
    <2>2. Guard \notin Range(lockQueue) \cup Range(conQueue)
      <3>1. pc[Guard] \notin Awaits
        BY <1>0 DEF ThreadInv, Awaits
      <3> QED
        BY <1>0, <3>1 DEF LockInv, QueueInv, Awaits
    <2>3. /\ Aligned' /\ pending' \in Seq(0..MaxSleep) /\ left' \in [Thread -> 0..MaxSleep]
          /\ \A t \in Thread : left[t] = 0 => left'[t] = 0
          /\ conQueue # <<>> /\ left'[Head(conQueue)] = 0
      <3>1. conQueue' = Rest(conQueue)
        BY <2>1 DEF Awaken
      <3> QED
        BY <1>0, <2>1, <3>1, IdleAligned
    <2> QED
      BY <1>0, <2>1, <2>2, <2>3, AwakenKeeps
  <1>3. CASE FireBlocked
    <2> DEFINE t == currentThread
               p == pc[t]
    <2>1. /\ Running(t) /\ Due /\ isLockBusy /\ pending' = Tail(pending) /\ inHandler' = TRUE
          /\ lockQueue' = Append(lockQueue, t) /\ Sleep(<<>>, threadToBeDestroyed)
          /\ p \in {"fork", "loop", "start", "locked", "awake", "released"}
          /\ UNCHANGED <<isLockBusy, conQueue, left, countAlarm, randomTimer, failed, pc>>
      BY <1>3 DEF FireBlocked, InterruptsOn
    <2>2. t \in Thread /\ pc' = [pc EXCEPT ![t] = p] /\ p \in PC /\ pc' = pc
      BY <1>0, <2>1
    <2>3. status[t] = "RUNNING" /\ t \notin Range(lockQueue) \cup Range(conQueue) /\ pc[t] # "done"
      BY <1>0, <2>1, RunningThread
    <2> HIDE DEF t
    <2>4. Moves(t, p, {}, {t})
      BY <1>0, <2>1, <2>2, SleepAlone
    <2>5. pending' \in Seq(0..MaxSleep)
      BY <1>0, <2>1, HeadTailProperties DEF Due
    <2>6. /\ lockQueue' \in Seq(Thread) /\ Range(lockQueue') = Range(lockQueue) \cup {t}
          /\ IsInjective(lockQueue')
      BY <1>0, <2>1, <2>2, <2>3, AppendProperties, AppendRange DEF QueueInv
    <2>7. Queues(t, p, {}, {t}, {})
      BY <1>0, <2>1, <2>3, <2>6 DEF Queues, QueueInv
    <2>8. Route(t, p) /\ Free(t, p) /\ Counts(t, p)
      BY <1>0, <2>1, <2>2 DEF Route, Free, Counts, ThreadInv
    <2>9. p = pc[t] /\ {} \in SUBSET Thread /\ {t} \in SUBSET {t} /\ {} \in SUBSET {t}
      OBVIOUS
    <2> HIDE DEF p
    <2>10. Effect(t, p, {}, {t}, {t}, {})
      BY <1>0, <2>1, <2>2, <2>3, <2>4, <2>5, <2>6, <2>7, <2>8, <2>9 DEF Effect
    <2> QED
      BY <2>2, <2>9, <2>10, EffectKeeps
  <1> QED
    BY <1>1, <1>2, <1>3

-----------------------------------------------------------------------------
(* The invariant holds, and with it what the clock promises.               *)

\* The alarm's first state.
LEMMA BaseInit ==
    ASSUME Init
    PROVE  BaseInv
  <1>1. /\ Main \in Thread /\ Guard \in Thread \ {Main} /\ IsFiniteSet(Thread) /\ MaxSleep \in Nat
        /\ NoThread \notin Thread
    BY SchedulerAssumption, AlarmAssumption
  <1>2. Started = {}
    BY <1>1 DEF Init, Started, Away
  <1>3. Cardinality(Started) = 0 /\ Cardinality(Thread) \in Nat
    BY <1>1, <1>2, FS_EmptySet, FS_CardinalityType
  <1>4. TypeOK
    <2>1. SchedTypeOK
      BY <1>1 DEF Init, SchedInit, SchedTypeOK, ThreadStatus
    <2>2. pc \in [Thread -> PC]
      BY <1>1 DEF Init, PC
    <2>3. left \in [Thread -> 0..MaxSleep]
      BY <1>1 DEF Init
    <2>4. /\ pending \in Seq(0..MaxSleep) /\ lockQueue \in Seq(Thread) /\ conQueue \in Seq(Thread)
          /\ countAlarm \in 0..Cardinality(Thread)
      BY <1>3 DEF Init
    <2> QED
      BY <2>1, <2>2, <2>3, <2>4 DEF Init, TypeOK
  <1>5. Range(<<>>) = {} /\ IsInjective(<<>>) /\ Len(<<>>) = 0
    BY DEF Range, IsInjective
  <1>6. SchedulerConsistent
    BY <1>1, <1>5 DEF Init, SchedInit, SchedulerConsistent, ReadyListExact, OneRunning
  <1>7. ThreadInv
    BY <1>1, <1>6 DEF Init, SchedInit, ThreadInv
  <1>8. QueueInv
    BY <1>1, <1>5 DEF Init, QueueInv
  <1>9. Aligned
    BY <1>5 DEF Init, Aligned
  <1>10. LockInv
    BY <1>1, <1>5 DEF Init, SchedInit, LockInv, Inside
  <1> QED
    BY <1>3, <1>2, <1>4, <1>7, <1>8, <1>9, <1>10 DEF BaseInv, Init

\* Every step keeps the invariant.
LEMMA BaseNext ==
    ASSUME BaseInv, [Next]_vars
    PROVE  BaseInv'
  <1>1. ASSUME NEW t \in Thread, ThreadStep(t) PROVE BaseInv'
    BY <1>1, StartResumeKeep, PauseWaitKeeps, StopKeeps, PauseEndKeeps, EndKeeps DEF ThreadStep
  <1>2. CASE MainStep
    BY <1>2, MainKeeps
  <1>3. CASE ProhibitYield \/ ProhibitEnd \/ Preempt
    BY <1>3, YieldKeeps
  <1>4. CASE Interrupts
    BY <1>4, TickKeeps, FireKeeps, YieldKeeps, StopKeeps DEF Interrupts
  <1>5. CASE UNCHANGED vars
    <2>1. UNCHANGED <<status, readyList, currentThread, threadToBeDestroyed, suspended, machineStatus>>
      BY <1>5 DEF vars, sched
    <2>2. UNCHANGED <<pending, lockQueue, isLockBusy, conQueue, left, countAlarm, randomTimer, inHandler, failed, pc>>
      BY <1>5 DEF vars, alarm
    <2>3. TypeOK'
      BY <2>1, <2>2 DEF BaseInv, TypeOK, SchedTypeOK
    <2>4. ThreadInv'
      BY <2>1, <2>2 DEF BaseInv, ThreadInv, SchedulerConsistent, ReadyListExact, OneRunning
    <2>5. QueueInv'
      BY <2>1, <2>2 DEF BaseInv, QueueInv
    <2>6. Started' = Started
      BY <2>2 DEF Started
    <2>7. ~inHandler' => Aligned' /\ LockInv'
      BY <2>1, <2>2 DEF BaseInv, Aligned, LockInv
    <2> QED
      BY <2>2, <2>3, <2>4, <2>5, <2>6, <2>7 DEF BaseInv
  <1> QED
    BY <1>1, <1>2, <1>3, <1>4, <1>5 DEF Next

(***************************************************************************)
(* The condition's queue and the pending interrupts agree, thread by       *)
(* thread, and no thread is woken before its time (Alarm.cc, Pause and     *)
(* Awaken), for any threads and sleeps, with and without the timer.        *)
(***************************************************************************)
THEOREM AlarmsExact == Spec => []AlarmPerSleeper
  <1>1. Init => BaseInv
    BY BaseInit
  <1>2. BaseInv /\ [Next]_vars => BaseInv'
    BY BaseNext
  <1>3. BaseInv => AlarmPerSleeper
    <2> SUFFICES ASSUME BaseInv PROVE AlarmPerSleeper
      OBVIOUS
    <2>1. TypeOK /\ QueueInv /\ (~inHandler => Aligned)
      BY DEF BaseInv
    <2>2. NotEarly
      BY <2>1 DEF QueueInv, NotEarly
    <2>3. DOMAIN pending = 1..Len(pending)
      BY <2>1, ListTypes
    <2> QED
      BY <2>1, <2>2, <2>3 DEF AlarmPerSleeper, Aligned
  <1> QED
    BY <1>1, <1>2, <1>3, PTL DEF Spec

-----------------------------------------------------------------------------
(* Without the random timer: the order in which the threads are served.    *)

\* The first on the ready list goes; a thread that has not started waits behind none that has.
LEMMA ServedTail ==
    ASSUME NEW q \in Seq(Thread), q # <<>>, Served(q, pc)
    PROVE  /\ Served(Tail(q), pc)
           /\ \A a \in Range(q) : pc[a] = "start" => pc[Head(q)] \in {"start", "loop"}
  <1>0. PICK L \in Nat : L = Len(q)
    BY LenProperties
  <1>1. /\ L # 0 /\ Len(Tail(q)) = L - 1 /\ Head(q) = q[1]
        /\ \A i \in 1..(L - 1) : Tail(q)[i] = q[i + 1] /\ i + 1 \in 1..L
    BY <1>0, HeadTailProperties, EmptySeq
  <1>2. \A i, j \in 1..L : i < j /\ pc[q[j]] = "start" => pc[q[i]] \in {"start", "loop"}
    BY <1>0 DEF Served
  <1>3. Served(Tail(q), pc)
    <2> SUFFICES ASSUME NEW i \in 1..(L - 1), NEW j \in 1..(L - 1), i < j, pc[Tail(q)[j]] = "start"
                 PROVE  pc[Tail(q)[i]] \in {"start", "loop"}
      BY <1>1 DEF Served
    <2>1. i + 1 < j + 1 /\ pc[q[j + 1]] = "start"
      BY <1>1
    <2> QED
      BY <1>1, <1>2, <2>1
  <1>4. ASSUME NEW a \in Range(q), pc[a] = "start" PROVE pc[Head(q)] \in {"start", "loop"}
    <2>1. PICK k \in 1..L : a = q[k]
      BY <1>0, LenProperties DEF Range
    <2>2. CASE k = 1
      BY <1>1, <1>4, <2>1, <2>2
    <2>3. CASE k # 1
      <3>1. 1 < k /\ 1 \in 1..L
        BY <1>1, <2>3
      <3> QED
        BY <1>1, <1>2, <1>4, <2>1, <3>1
    <2> QED
      BY <2>2, <2>3
  <1> QED
    BY <1>3, <1>4

\* One more on the ready list, which has started, or before which nobody has.
LEMMA ServedMore ==
    ASSUME NEW q \in Seq(Thread), NEW x \in Thread, Served(q, pc),
           pc[x] # "start" \/ \A u \in Range(q) : pc[u] \in {"start", "loop"}
    PROVE  Served(Append(q, x), pc)
  <1>0. PICK L \in Nat : L = Len(q)
    BY LenProperties
  <1>1. /\ Len(Append(q, x)) = L + 1 /\ Append(q, x)[L + 1] = x
        /\ \A i \in 1..L : Append(q, x)[i] = q[i] /\ q[i] \in Range(q)
    BY <1>0, AppendProperties, LenProperties DEF Range
  <1>2. \A i, j \in 1..L : i < j /\ pc[q[j]] = "start" => pc[q[i]] \in {"start", "loop"}
    BY <1>0 DEF Served
  <1> SUFFICES ASSUME NEW i \in 1..(L + 1), NEW j \in 1..(L + 1), i < j,
                      pc[Append(q, x)[j]] = "start"
               PROVE  pc[Append(q, x)[i]] \in {"start", "loop"}
    BY <1>1 DEF Served
  <1>3. i \in 1..L /\ Append(q, x)[i] = q[i] /\ q[i] \in Range(q)
    BY <1>1
  <1>4. CASE j \in 1..L
    BY <1>1, <1>2, <1>3, <1>4
  <1>5. CASE j = L + 1
    <2>1. pc[x] = "start"
      BY <1>1, <1>5
    <2> QED
      BY <1>3, <2>1
  <1>6. j \in 1..L \/ j = L + 1
    OBVIOUS
  <1> QED
    BY <1>4, <1>5, <1>6

\* The order is about the places of those on the list, as they are or as they become.
LEMMA ServedAgain ==
    ASSUME NEW q \in Seq(Thread), NEW f, NEW g, Served(q, f),
           \A u \in Range(q) : /\ g[u] = "start" => f[u] = "start"
                               /\ f[u] \in {"start", "loop"} => g[u] \in {"start", "loop"}
    PROVE  Served(q, g)
  <1>1. \A i \in 1..Len(q) : q[i] \in Range(q)
    BY LenProperties DEF Range
  <1> SUFFICES ASSUME NEW i \in 1..Len(q), NEW j \in 1..Len(q), i < j, g[q[j]] = "start"
               PROVE  g[q[i]] \in {"start", "loop"}
    BY DEF Served
  <1>2. f[q[j]] = "start"
    BY <1>1
  <1>3. f[q[i]] \in {"start", "loop"}
    BY <1>2 DEF Served
  <1> QED
    BY <1>1, <1>3

\* The processor is handed on in order: while a thread that has not started is
\* ready, to one that has not started or to ProhibitExit.
Handed ==
    /\ \A u \in Thread : status'[u] = "RUNNING" =>
          \A a \in Thread : pc[a] = "start" /\ status[a] = "READY" => pc[u] \in {"start", "loop"}
    /\ Served(readyList', pc)

\* Run takes the first of the list.
LEMMA HandedRun ==
    ASSUME NEW st, NEW rl \in Seq(Thread), rl # <<>>, NEW dead, Run(st, rl, dead),
           \A u \in Thread : st[u] # "RUNNING",
           \A u \in Thread : status[u] = "READY" => u \in Range(rl),
           Served(rl, pc)
    PROVE  Handed
  <1>1. /\ Served(Tail(rl), pc)
        /\ \A a \in Range(rl) : pc[a] = "start" => pc[Head(rl)] \in {"start", "loop"}
    BY ServedTail
  <1>2. readyList' = Tail(rl) /\ \A u \in Thread : status'[u] = "RUNNING" => u = Head(rl)
    BY DEF Run
  <1> QED
    BY <1>1, <1>2 DEF Handed

\* Sleep, Yield and the end of an idle period hand the processor on in order.
LEMMA HandedOn ==
    ASSUME TypeOK, ThreadInv, Served(readyList, pc),
           \/ \E dead : machineStatus = "SystemMode" /\ Sleep(<<>>, dead)
           \/ machineStatus = "SystemMode" /\ YieldCPU /\ pc[currentThread] # "start"
           \/ LeaveIdle
    PROVE  Handed
  <1>0. /\ readyList \in Seq(Thread) /\ currentThread \in Thread /\ status \in [Thread -> ThreadStatus]
        /\ \A u \in Thread : status[u] = "READY" => u \in Range(readyList)
        /\ \A u \in Thread : status[u] = "RUNNING" => u = currentThread /\ machineStatus = "SystemMode"
    BY DEF TypeOK, SchedTypeOK, ThreadInv, SchedulerConsistent, ReadyListExact, OneRunning
  <1>1. ASSUME NEW dead, machineStatus = "SystemMode", Sleep(<<>>, dead) PROVE Handed
    <2> DEFINE st == [MarkReady(<<>>) EXCEPT ![currentThread] = "BLOCKED"]
               rl == readyList \o <<>>
    <2>1. rl = readyList
      BY <1>0, ConcatEmptySeq
    <2>2. \A u \in Thread : st[u] = IF u = currentThread THEN "BLOCKED" ELSE status[u]
      <3>1. Range(<<>>) = {}
        BY DEF Range
      <3> QED
        BY <1>0, <3>1 DEF MarkReady
    <2>3. \/ rl # <<>> /\ Run(st, rl, dead)
          \/ status' = st /\ readyList' = readyList /\ rl = <<>>
      BY <1>1 DEF Sleep
    <2> HIDE DEF st, rl
    <2>4. \A u \in Thread : st[u] # "RUNNING"
      BY <1>0, <2>2
    <2>5. CASE rl # <<>> /\ Run(st, rl, dead)
      BY <1>0, <2>1, <2>4, <2>5, HandedRun
    <2>6. CASE status' = st /\ readyList' = readyList /\ rl = <<>>
      BY <2>4, <2>6 DEF Handed
    <2> QED
      BY <2>3, <2>5, <2>6
  <1>2. CASE YieldCPU /\ pc[currentThread] # "start"
    <2> DEFINE st == [status EXCEPT ![currentThread] = "READY"]
               rl == Append(readyList, currentThread)
    <2>1. /\ rl \in Seq(Thread) /\ rl # <<>> /\ Range(rl) = Range(readyList) \cup {currentThread}
          /\ Run(st, rl, threadToBeDestroyed)
      BY <1>0, <1>2, AppendProperties, AppendRange DEF YieldCPU
    <2>2. Served(rl, pc)
      BY <1>0, <1>2, ServedMore
    <2>3. \A u \in Thread : st[u] # "RUNNING"
      BY <1>0
    <2>4. \A u \in Thread : status[u] = "READY" => u \in Range(rl)
      BY <1>0, <2>1
    <2> HIDE DEF st, rl
    <2> QED
      BY <2>1, <2>2, <2>3, <2>4, HandedRun
  <1>3. CASE LeaveIdle
    <2>1. /\ readyList # <<>> /\ Run(status, readyList, threadToBeDestroyed)
          /\ \A u \in Thread : status[u] # "RUNNING"
      BY <1>0, <1>3 DEF LeaveIdle
    <2> QED
      BY <1>0, <2>1, HandedRun
  <1> QED
    BY <1>1, <1>2, <1>3

-----------------------------------------------------------------------------
(* Without the random timer: what each kind of step does to the order.     *)

\* One thread runs, and the lock is free unless that thread holds it.
LEMMA CalmFacts ==
    ASSUME BaseInv, ~inHandler, NoPreemption
    PROVE  /\ pc \in [Thread -> PC] /\ Main \in Thread /\ Guard \in Thread \ {Main}
           /\ \A t, u \in Thread : status[t] = "RUNNING" /\ status[u] = "RUNNING" => t = u
           /\ \A t \in Thread : status[t] = "RUNNING" /\ pc[t] \notin Inside => ~isLockBusy
           /\ \A t \in Range(readyList) : t \in Thread /\ status[t] = "READY"
           /\ pc[Main] # "fork" =>
                \A a \in Thread : pc[a] = "start" => status[a] \in {"READY", "RUNNING"}
           /\ \A t \in Thread : pc[t] = "loop" <=> t = Guard /\ pc[Guard] # "done"
  <1>0. /\ TypeOK /\ ThreadInv /\ LockInv /\ QueueInv /\ SchedulerConsistent
        /\ Main \in Thread /\ Guard \in Thread \ {Main}
    BY SchedulerAssumption, AlarmAssumption DEF BaseInv, ThreadInv
  <1>1. \A t, u \in Thread : status[t] = "RUNNING" /\ status[u] = "RUNNING" => t = u
    BY <1>0 DEF SchedulerConsistent, OneRunning
  <1>2. ASSUME NEW t \in Thread, status[t] = "RUNNING", pc[t] \notin Inside, isLockBusy PROVE FALSE
    <2>1. PICK u \in Thread : pc[u] \in Inside
      BY <1>0, <1>2 DEF LockInv
    <2>2. status[u] = "RUNNING"
      BY <2>1 DEF NoPreemption, Inside
    <2> QED
      BY <1>1, <1>2, <2>1, <2>2
  <1>3. \A t \in Range(readyList) : t \in Thread /\ status[t] = "READY"
    <2>1. \A t \in Range(readyList) : t \in Thread
      BY <1>0, RangeOfSeq DEF TypeOK, SchedTypeOK
    <2> QED
      BY <1>0, <2>1 DEF SchedulerConsistent, ReadyListExact
  <1>4. ASSUME NEW a \in Thread, pc[a] = "start", pc[Main] # "fork"
        PROVE  status[a] \in {"READY", "RUNNING"}
    <2>1. status[a] \in ThreadStatus
      BY <1>0 DEF TypeOK, SchedTypeOK
    <2>2. status[a] # "JUST_CREATED" /\ status[a] # "DELETED"
      BY <1>0, <1>4 DEF ThreadInv
    <2>3. status[a] # "BLOCKED"
      <3>1. a \notin Range(conQueue)
        BY <1>0, <1>4 DEF QueueInv
      <3>2. a \notin Range(lockQueue)
        BY <1>0, <1>4 DEF LockInv, Awaits
      <3> QED
        BY <1>0, <1>4, <3>1, <3>2 DEF LockInv
    <2> QED
      BY <2>1, <2>2, <2>3 DEF ThreadStatus
  <1>5. \A t \in Thread : pc[t] = "loop" <=> t = Guard /\ pc[Guard] # "done"
    BY <1>0 DEF ThreadInv
  <1> QED
    BY <1>0, <1>1, <1>2, <1>3, <1>4, <1>5 DEF TypeOK

\* The running thread goes on and keeps the processor, inside Pause.
LEMMA OrderGoesOn ==
    ASSUME BaseInv, ~inHandler, NoPreemption, NEW t \in Thread, status[t] = "RUNNING",
           NEW p \in {"locked", "awake", "released"}, pc' = [pc EXCEPT ![t] = p],
           pc[t] \notin {"fork", "loop", "done"},
           p = "locked" \/ pc[t] \in {"awake", "asleep"},
           \A u \in Thread : status'[u] = status[u], readyList' = readyList, lockQueue' = <<>>
    PROVE  NoPreemption'
  <1>0. /\ pc \in [Thread -> PC] /\ Main \in Thread /\ Guard \in Thread \ {Main}
        /\ \A u \in Thread : status[u] = "RUNNING" => u = t
        /\ t # Guard
        /\ \A u \in Range(readyList) : u \in Thread /\ u # t
    <2>1. \A u \in Range(readyList) : u \in Thread /\ status[u] = "READY"
      BY CalmFacts
    <2> QED
      BY <2>1, CalmFacts
  <1>1. \A u \in Thread : pc'[u] = IF u = t THEN p ELSE pc[u]
    BY <1>0
  <1>2. pc[Guard] # "done" /\ pc'[Guard] # "done"
    BY <1>0, <1>1 DEF NoPreemption
  <1>3. pc'[Main] \notin {"fork", "start"}
    <2>1. CASE Main = t
      BY <1>1, <2>1
    <2>2. CASE Main # t
      BY <1>0, <1>1, <2>2 DEF NoPreemption
    <2> QED
      BY <2>1, <2>2
  <1>4. \A u \in Thread : /\ pc'[u] \in {"locked", "awake", "released"} => status'[u] = "RUNNING"
                          /\ pc'[u] # "acquire"
    BY <1>0, <1>1 DEF NoPreemption
  <1>5. ASSUME NEW a \in Thread, pc'[a] = "start"
        PROVE  \A u \in Thread : /\ pc'[u] \in {"fork", "loop", "start", "locked", "asleep"}
                                 /\ status'[u] = "RUNNING" => pc'[u] # "asleep"
    <2>1. pc[a] = "start" /\ a # t
      BY <1>1, <1>5
    <2>2. \A u \in Thread : /\ pc[u] \in {"fork", "loop", "start", "locked", "asleep"}
                            /\ status[u] = "RUNNING" => pc[u] # "asleep"
      BY <2>1 DEF NoPreemption
    <2>3. p = "locked"
      BY <2>2
    <2> QED
      BY <1>0, <1>1, <2>2, <2>3
  <1>6. Served(readyList', pc')
    <2>1. readyList \in Seq(Thread) /\ Served(readyList, pc)
      BY DEF BaseInv, TypeOK, SchedTypeOK, NoPreemption
    <2>2. \A u \in Range(readyList) : pc'[u] = pc[u]
      BY <1>0, <1>1
    <2> QED
      BY <2>1, <2>2, ServedAgain
  <1> QED
    BY <1>2, <1>3, <1>4, <1>5, <1>6 DEF NoPreemption

\* The running thread, or nobody, gives the processor away.
LEMMA OrderHandedOn ==
    ASSUME BaseInv, ~inHandler, NoPreemption, Handed, readyList' \in Seq(Thread), NEW t \in Thread,
           \A u \in Thread : status[u] = "RUNNING" => u = t,
           NEW p \in {"asleep", "loop", "done"}, pc' = [pc EXCEPT ![t] = p],
           pc[t] \notin {"fork", "start"},
           p = "asleep" => pc[t] = "locked",
           p = "loop" => pc[t] = "loop",
           p = "done" => pc[t] \in {"released", "done"},
           pc[t] = "done" => p = "done",
           lockQueue' = <<>>
    PROVE  NoPreemption'
  <1>0. /\ pc \in [Thread -> PC] /\ Main \in Thread /\ Guard \in Thread \ {Main}
        /\ \A u \in Thread : pc[u] = "loop" <=> u = Guard /\ pc[Guard] # "done"
        /\ pc[Main] # "fork" =>
             \A a \in Thread : pc[a] = "start" => status[a] \in {"READY", "RUNNING"}
    BY CalmFacts
  <1>1. \A u \in Thread : pc'[u] = IF u = t THEN p ELSE pc[u]
    BY <1>0
  <1>2. pc'[Guard] = "done" => \A u \in Thread : pc'[u] = "done"
    <2> SUFFICES ASSUME pc'[Guard] = "done" PROVE \A u \in Thread : pc'[u] = "done"
      OBVIOUS
    <2>1. pc[Guard] = "done"
      <3>1. pc[Guard] \in {"loop", "done"}
        BY DEF BaseInv, ThreadInv
      <3> QED
        BY <1>0, <1>1, <3>1
    <2>2. \A u \in Thread : pc[u] = "done"
      BY <2>1 DEF NoPreemption
    <2> QED
      BY <1>1, <2>2
  <1>3. pc[Main] \notin {"fork", "start"} /\ pc'[Main] \notin {"fork", "start"}
    BY <1>0, <1>1 DEF NoPreemption
  <1>4. \A u \in Thread : pc'[u] \notin {"locked", "awake", "released", "acquire"}
    BY <1>1 DEF NoPreemption
  <1>5. ASSUME NEW a \in Thread, pc'[a] = "start"
        PROVE  \A u \in Thread : /\ pc'[u] \in {"fork", "loop", "start", "locked", "asleep"}
                                 /\ status'[u] = "RUNNING" => pc'[u] # "asleep"
    <2>1. pc[a] = "start" /\ a # t
      BY <1>1, <1>5
    <2>2. status[a] = "READY"
      BY <1>0, <1>3, <2>1
    <2>3. \A u \in Thread : status'[u] = "RUNNING" => pc[u] \in {"start", "loop"}
      BY <2>1, <2>2 DEF Handed
    <2>4. \A u \in Thread : pc[u] \in {"fork", "loop", "start", "locked", "asleep"}
      BY <2>1 DEF NoPreemption
    <2>5. p # "done"
      BY <2>4
    <2> QED
      BY <1>1, <2>3, <2>4, <2>5
  <1>6. Served(readyList', pc')
    <2>1. \A u \in Thread : /\ pc'[u] = "start" => pc[u] = "start"
                            /\ pc[u] \in {"start", "loop"} => pc'[u] \in {"start", "loop"}
      BY <1>1
    <2>2. \A u \in Range(readyList') : u \in Thread
      BY RangeOfSeq
    <2>3. Served(readyList', pc)
      BY DEF Handed
    <2> QED
      BY <2>1, <2>2, <2>3, ServedAgain
  <1> QED
    BY <1>2, <1>3, <1>4, <1>5, <1>6 DEF NoPreemption

\* An interrupt wakes a sleeper, or nothing happens to the threads.
LEMMA OrderWoken ==
    ASSUME BaseInv, ~inHandler, NoPreemption, pc' = pc,
           NEW w \in Seq(Thread), w = <<>> \/ \E u \in Thread : w = <<u>> /\ pc[u] = "asleep",
           readyList' = readyList \o w,
           \A u \in Thread : status'[u] = IF u \in Range(w) THEN "READY" ELSE status[u],
           lockQueue' = <<>>
    PROVE  NoPreemption'
  <1>1. Served(readyList', pc')
    <2>1. readyList \in Seq(Thread) /\ Served(readyList, pc)
      BY DEF BaseInv, TypeOK, SchedTypeOK, NoPreemption
    <2>2. CASE w = <<>>
      BY <2>1, <2>2, ConcatEmptySeq
    <2>3. ASSUME NEW u \in Thread, w = <<u>>, pc[u] = "asleep" PROVE Served(readyList', pc')
      <3>1. readyList' = Append(readyList, u)
        BY <2>1, <2>3, AppendIsConcat
      <3> QED
        BY <2>1, <2>3, <3>1, ServedMore
    <2> QED
      BY <2>2, <2>3
  <1>2. \A u \in Range(w) : pc[u] = "asleep"
    BY DEF Range
  <1>3. \A u \in Thread : pc[u] # "asleep" => status'[u] = status[u]
    BY <1>2
  <1>4. \A u \in Thread : status'[u] = "RUNNING" => status[u] = "RUNNING"
    OBVIOUS
  <1> QED
    BY <1>1, <1>3, <1>4, CalmFacts DEF NoPreemption

\* Nobody has the lock, so that a thread takes it, and nobody is woken by its release.
LEMMA OrderThread ==
    ASSUME BaseInv, BaseInv', ~inHandler, NoPreemption, NEW t \in Thread, ThreadStep(t)
    PROVE  NoPreemption'
  <1>0. /\ TypeOK /\ ThreadInv /\ QueueInv /\ readyList' \in Seq(Thread) /\ readyList \in Seq(Thread)
        /\ lockQueue = <<>> /\ First(lockQueue) = <<>> /\ Rest(lockQueue) = <<>>
        /\ Served(readyList, pc)
    BY DEF BaseInv, TypeOK, SchedTypeOK, NoPreemption, First, Rest
  <1>1. Running(t) /\ status[t] = "RUNNING" /\ machineStatus = "SystemMode" /\ pc[t] # "done"
        /\ \A u \in Thread : status[u] = "RUNNING" => u = t
    <2>1. Running(t)
      BY DEF ThreadStep, StartPause, PauseWait, PauseZero, Resume, PauseEnd, AlarmThreadEnd,
             InHandlerAcquire, InHandlerEnable, Step
    <2> QED
      BY <1>0, <2>1, RunningThread, CalmFacts
  <1>2. CASE StartPause(t) \/ Resume(t)
    <2>1. pc[t] \in {"start", "acquire", "asleep"} /\ pc[t] # "acquire"
      BY <1>2 DEF StartPause, Resume, Step, NoPreemption
    <2>2. ~isLockBusy
      BY <1>1, <2>1, CalmFacts DEF Inside
    <2>3. PICK p \in {"locked", "awake"} :
            /\ pc' = [pc EXCEPT ![t] = p] /\ UNCHANGED <<sched, lockQueue>>
            /\ p = "locked" \/ pc[t] = "asleep"
      BY <1>2, <2>1, <2>2 DEF StartPause, Resume, Step, AcquireLoop, Goto
    <2>4. status' = status /\ readyList' = readyList /\ lockQueue' = <<>>
      BY <1>0, <2>3 DEF sched
    <2> QED
      BY <1>1, <2>1, <2>3, <2>4, OrderGoesOn
  <1>3. CASE PauseWait(t)
    <2>1. /\ pc[t] = "locked" /\ pc' = [pc EXCEPT ![t] = "asleep"] /\ lockQueue' = <<>>
          /\ Sleep(<<>>, threadToBeDestroyed)
      BY <1>0, <1>3 DEF PauseWait, Step, Goto
    <2>2. Handed
      BY <1>0, <1>1, <2>1, HandedOn
    <2> QED
      BY <1>0, <1>1, <2>1, <2>2, OrderHandedOn
  <1>4. CASE PauseEnd(t)
    <2>1. /\ pc[t] = "awake" /\ pc' = [pc EXCEPT ![t] = "released"] /\ lockQueue' = <<>>
          /\ ReadyToRun(<<>>)
      BY <1>0, <1>4 DEF PauseEnd, Step, Goto
    <2>2. Range(<<>>) = {}
      BY DEF Range
    <2>3. readyList' = readyList /\ \A u \in Thread : status'[u] = status[u]
      BY <1>0, <2>1, <2>2, ConcatEmptySeq DEF ReadyToRun, MarkReady
    <2> QED
      BY <1>1, <2>1, <2>3, OrderGoesOn
  <1>5. CASE AlarmThreadEnd(t)
    <2>1. /\ pc[t] = "released" /\ pc' = [pc EXCEPT ![t] = "done"] /\ lockQueue' = <<>>
          /\ Sleep(<<>>, t)
      BY <1>0, <1>5 DEF AlarmThreadEnd, Step, Goto
    <2>2. Handed
      BY <1>0, <1>1, <2>1, HandedOn
    <2> QED
      BY <1>0, <1>1, <2>1, <2>2, OrderHandedOn
  <1>6. CASE PauseZero(t) \/ InHandlerAcquire(t) \/ InHandlerEnable(t)
    <2>1. UNCHANGED <<sched, alarm, pc>>
      BY <1>6 DEF PauseZero, InHandlerAcquire, InHandlerEnable
    <2>2. status' = status /\ readyList' = readyList /\ lockQueue' = lockQueue /\ pc' = pc
      BY <2>1 DEF sched, alarm
    <2> QED
      BY <2>2 DEF NoPreemption, Served
  <1> QED
    BY <1>2, <1>3, <1>4, <1>5, <1>6 DEF ThreadStep

\* Main, while it forks, and when it becomes an AlarmThread.
LEMMA OrderMain ==
    ASSUME BaseInv, BaseInv', ~inHandler, NoPreemption, MainStep
    PROVE  NoPreemption'
  <1>0. /\ readyList \in Seq(Thread) /\ Served(readyList, pc) /\ ThreadInv
        /\ pc \in [Thread -> PC] /\ Main \in Thread /\ Guard \in Thread \ {Main}
        /\ \A u \in Thread : status[u] = "RUNNING" => u = Main
        /\ pc[Main] = "fork" /\ status[Main] = "RUNNING"
        /\ \A u \in Range(readyList) : u \in Thread /\ status[u] = "READY"
    <2>1. Running(Main) /\ pc[Main] = "fork"
      BY DEF MainStep, ForkNext, ForkedAll, Step
    <2>2. status[Main] = "RUNNING"
      BY <2>1, SchedulerAssumption, RunningThread DEF BaseInv
    <2> QED
      BY <2>1, <2>2, CalmFacts DEF BaseInv, TypeOK, SchedTypeOK, NoPreemption
  <1>1. /\ \A u \in Thread \ {Main} : pc[u] \in {"start", "loop"}
        /\ \A u \in Range(readyList) : u # Main
        /\ lockQueue' = <<>>
    BY <1>0 DEF NoPreemption, MainStep, ForkNext, ForkedAll, alarm
  <1>2. ASSUME NEW u \in Thread, ForkNext(u) PROVE NoPreemption'
    <2>1. /\ pc' = pc /\ status[u] = "JUST_CREATED" /\ readyList' = readyList \o <<u>>
          /\ status' = MarkReady(<<u>>)
      BY <1>2 DEF ForkNext, ForkThread, ReadyToRun
    <2>2. u # Main
      BY <1>0, <2>1
    <2>3. Served(readyList', pc')
      <3>1. readyList' = Append(readyList, u)
        BY <1>0, <2>1, AppendIsConcat
      <3>2. \A v \in Range(readyList) : pc[v] \in {"start", "loop"}
        BY <1>0, <1>1
      <3> QED
        BY <1>0, <2>1, <3>1, <3>2, ServedMore
    <2>4. \A v \in Thread : status'[v] = IF v = u THEN "READY" ELSE status[v]
      <3>1. Range(<<u>>) = {u}
        BY DEF Range
      <3> QED
        BY <2>1, <3>1 DEF MarkReady
    <2>5. pc[Guard] # "done" /\ \A v \in Thread : pc[v] \in {"fork", "start", "loop"}
      BY <1>0, <1>1
    <2> QED
      BY <1>0, <1>1, <2>1, <2>2, <2>3, <2>4, <2>5 DEF NoPreemption
  <1>3. CASE ForkedAll
    <2>1. pc' = [pc EXCEPT ![Main] = "start"] /\ status' = status /\ readyList' = readyList
      BY <1>3 DEF ForkedAll, Goto, sched
    <2>2. /\ \A v \in Thread : pc'[v] \in {"start", "loop"}
          /\ pc'[Main] = "start"
      BY <1>0, <1>1, <2>1
    <2>3. Served(readyList', pc')
      <3>1. \A v \in Range(readyList) : pc'[v] = pc[v]
        BY <1>0, <1>1, <2>1
      <3> QED
        BY <1>0, <2>1, <3>1, ServedAgain
    <2> QED
      BY <1>0, <1>1, <2>1, <2>2, <2>3 DEF NoPreemption
  <1> QED
    BY <1>2, <1>3 DEF MainStep

\* ProhibitExit yields while countAlarm says that somebody may sleep, and ends
\* when all have started and ended.
LEMMA OrderGuard ==
    ASSUME BaseInv, BaseInv', ~inHandler, NoPreemption, ProhibitYield \/ ProhibitEnd
    PROVE  NoPreemption'
  <1>0. /\ readyList' \in Seq(Thread) /\ Served(readyList, pc) /\ TypeOK /\ ThreadInv
        /\ pc \in [Thread -> PC] /\ Main \in Thread /\ Guard \in Thread \ {Main}
        /\ countAlarm = Cardinality(Started) /\ lockQueue = <<>>
    BY CalmFacts DEF BaseInv, TypeOK, SchedTypeOK, NoPreemption
  <1>1. /\ Guard = currentThread /\ machineStatus = "SystemMode" /\ status[Guard] = "RUNNING"
        /\ pc[Guard] = "loop" /\ \A u \in Thread : status[u] = "RUNNING" => u = Guard
    <2>1. Running(Guard) /\ pc[Guard] = "loop"
      BY DEF ProhibitYield, ProhibitEnd, Step
    <2>2. Guard = currentThread /\ machineStatus = "SystemMode" /\ status[Guard] = "RUNNING"
      BY <1>0, <2>1, RunningThread DEF BaseInv
    <2> QED
      BY <1>0, <2>1, <2>2, CalmFacts
  <1>2. CASE ProhibitYield
    <2>1. YieldCPU /\ pc' = pc /\ lockQueue' = lockQueue
      BY <1>2 DEF ProhibitYield, alarm
    <2>2. Handed
      BY <1>0, <1>1, <2>1, HandedOn
    <2>3. pc' = [pc EXCEPT ![Guard] = "loop"]
      BY <1>0, <1>1, <2>1
    <2> QED
      BY <1>0, <1>1, <2>1, <2>2, <2>3, OrderHandedOn
  <1>3. CASE ProhibitEnd
    <2>1. countAlarm = 0 /\ pc' = [pc EXCEPT ![Guard] = "done"] /\ lockQueue' = <<>>
      BY <1>0, <1>3 DEF ProhibitEnd, Goto, alarm
    <2>2. Started = {}
      <3>1. IsFiniteSet(Thread) /\ Started \in SUBSET Thread
        BY AlarmAssumption DEF Started
      <3>2. IsFiniteSet(Started)
        BY <3>1, FS_Subset
      <3> QED
        BY <1>0, <2>1, <3>2, FS_EmptySet
    <2>3. \A u \in Thread : pc[u] \in {"fork", "loop", "start", "done"}
      BY <1>0, <2>2 DEF Started, Away, PC
    <2>4. pc[Main] = "done"
      <3>1. pc[Main] \notin {"fork", "start"}
        BY <1>0, <1>1 DEF NoPreemption
      <3>2. pc[Main] # "loop"
        BY <1>0 DEF ThreadInv
      <3> QED
        BY <1>0, <2>3, <3>1, <3>2
    <2>5. \A u \in Thread : pc[u] # "start"
      BY <1>0, <2>4 DEF NoPreemption
    <2>6. \A u \in Thread \ {Guard} : pc[u] = "done"
      BY <1>0, <2>3, <2>4, <2>5 DEF ThreadInv
    <2>7. \A u \in Thread : pc'[u] = "done"
      BY <1>0, <2>1, <2>6
    <2>8. Served(readyList', pc')
      <3>1. \A i \in 1..Len(readyList') : readyList'[i] \in Thread
        BY <1>0, ElementOfSeq
      <3> QED
        BY <2>7, <3>1 DEF Served
    <2> QED
      BY <1>0, <2>1, <2>7, <2>8 DEF NoPreemption
  <1> QED
    BY <1>2, <1>3

\* The interrupts; a handler that sleeps ends the order.
LEMMA OrderInterrupts ==
    ASSUME BaseInv, BaseInv', ~inHandler, ~inHandler', NoPreemption, Interrupts
    PROVE  NoPreemption'
  <1>0. /\ TypeOK /\ ThreadInv /\ QueueInv /\ readyList' \in Seq(Thread) /\ readyList \in Seq(Thread)
        /\ conQueue \in Seq(Thread) /\ Guard \in Thread \ {Main}
        /\ lockQueue = <<>> /\ First(lockQueue) = <<>> /\ Rest(lockQueue) = <<>>
        /\ Served(readyList, pc) /\ pc \in [Thread -> PC] /\ pc[Guard] \in {"loop", "done"}
    BY CalmFacts DEF BaseInv, TypeOK, SchedTypeOK, NoPreemption, First, Rest, ThreadInv
  <1>1. CASE Tick \/ Halt
    <2>1. status' = status /\ readyList' = readyList /\ lockQueue' = lockQueue /\ pc' = pc
      BY <1>1 DEF Tick, Halt, HaltIdle, sched, alarm
    <2> QED
      BY <2>1 DEF NoPreemption, Served
  <1>2. CASE Fire \/ IdleFire
    <2> DEFINE w == First(conQueue)
    <2>1. ReadyToRun(w \o <<>>) /\ lockQueue' = <<>> /\ pc' = pc
      BY <1>0, <1>2 DEF Fire, IdleFire, Awaken
    <2>2. w \in Seq(Thread) /\ \A u \in Range(w) : u \in Range(conQueue)
      BY <1>0, FirstWaits
    <2>3. w \o <<>> = w
      BY <2>2, ConcatEmptySeq
    <2>4. w = <<>> \/ \E u \in Thread : w = <<u>> /\ pc[u] = "asleep"
      <3>1. conQueue = <<>> \/ (w = <<Head(conQueue)>> /\ Head(conQueue) \in Range(conQueue)
                                /\ Head(conQueue) \in Thread)
        BY <1>0, HeadTailRange, HeadTailProperties DEF First
      <3> QED
        BY <1>0, <3>1 DEF QueueInv, First
    <2> HIDE DEF w
    <2>5. /\ readyList' = readyList \o w
          /\ \A u \in Thread : status'[u] = IF u \in Range(w) THEN "READY" ELSE status[u]
      BY <2>1, <2>3 DEF ReadyToRun, MarkReady
    <2> QED
      BY <2>1, <2>2, <2>4, <2>5, OrderWoken
  <1>3. CASE FireBlocked
    BY <1>3 DEF FireBlocked
  <1>4. CASE IdleEnd
    <2>1. LeaveIdle /\ lockQueue' = <<>> /\ pc' = pc /\ machineStatus = "IdleMode"
      BY <1>0, <1>4 DEF IdleEnd, LeaveIdle, alarm
    <2>2. Handed
      BY <1>0, <2>1, HandedOn
    <2>3. \A u \in Thread : status[u] # "RUNNING"
      BY <1>0, <2>1 DEF ThreadInv, SchedulerConsistent, OneRunning
    <2> DEFINE p == pc[Guard]
    <2>4. pc' = [pc EXCEPT ![Guard] = p] /\ p \in {"loop", "done"} /\ p = pc[Guard]
      BY <1>0, <2>1
    <2> HIDE DEF p
    <2> QED
      BY <1>0, <2>1, <2>2, <2>3, <2>4, OrderHandedOn
  <1> QED
    BY <1>1, <1>2, <1>3, <1>4 DEF Interrupts

-----------------------------------------------------------------------------
(* The machine halts only when all are done.                               *)

\* The machine halts from idling, and for good: no other step is made in it or leads to it.
LEMMA OnlyHaltHalts ==
    ASSUME Next, ~Halt
    PROVE  machineStatus # "Halted" /\ machineStatus' # "Halted"
  <1>1. ASSUME NEW st, NEW rl, NEW dead, Run(st, rl, dead) PROVE machineStatus' # "Halted"
    BY <1>1 DEF Run
  <1>2. ASSUME NEW wake, NEW dead, Sleep(wake, dead) PROVE machineStatus' # "Halted"
    BY <1>1, <1>2 DEF Sleep
  <1>3. ASSUME NEW t \in Thread, ThreadStep(t)
        PROVE  machineStatus # "Halted" /\ machineStatus' # "Halted"
    <2>1. machineStatus = "SystemMode"
      BY <1>3 DEF ThreadStep, StartPause, PauseWait, PauseZero, Resume, PauseEnd, AlarmThreadEnd,
                  InHandlerAcquire, InHandlerEnable, Step, Running
    <2>2. CASE StartPause(t) \/ Resume(t) \/ InHandlerAcquire(t)
      <3>1. \E q, r : AcquireLoop(t, q, r)
        BY <2>2 DEF StartPause, Resume, InHandlerAcquire
      <3>2. machineStatus' # "Halted"
        BY <1>2, <2>1, <3>1 DEF AcquireLoop, sched
      <3> QED
        BY <2>1, <3>2
    <2>3. CASE PauseWait(t) \/ AlarmThreadEnd(t)
      <3>1. machineStatus' # "Halted"
        BY <1>2, <2>3 DEF PauseWait, AlarmThreadEnd
      <3> QED
        BY <2>1, <3>1
    <2>4. CASE PauseZero(t) \/ PauseEnd(t) \/ InHandlerEnable(t)
      BY <2>1, <2>4 DEF PauseZero, PauseEnd, InHandlerEnable, sched, ReadyToRun
    <2> QED
      BY <1>3, <2>2, <2>3, <2>4 DEF ThreadStep
  <1>4. CASE MainStep
    BY <1>4 DEF MainStep, ForkNext, ForkedAll, Step, Running, ForkThread, ReadyToRun, sched
  <1>5. CASE ProhibitYield \/ Preempt
    <2>1. machineStatus = "SystemMode" /\ YieldCPU
      BY <1>5 DEF ProhibitYield, Preempt, InterruptsOn, Step, Running
    <2>2. machineStatus' # "Halted"
      BY <1>1, <2>1 DEF YieldCPU
    <2> QED
      BY <2>1, <2>2
  <1>6. CASE ProhibitEnd
    <2>1. machineStatus = "SystemMode" /\ Sleep(<<>>, Guard)
      BY <1>6 DEF ProhibitEnd, Step, Running
    <2>2. machineStatus' # "Halted"
      BY <1>2, <2>1
    <2> QED
      BY <2>1, <2>2
  <1>7. CASE Tick \/ Fire \/ IdleFire
    BY <1>7 DEF Tick, Fire, IdleFire, Awaken, ReadyToRun, InterruptsOn, Running, sched
  <1>8. CASE FireBlocked
    <2>1. machineStatus = "SystemMode" /\ Sleep(<<>>, threadToBeDestroyed)
      BY <1>8 DEF FireBlocked, InterruptsOn, Running
    <2>2. machineStatus' # "Halted"
      BY <1>2, <2>1
    <2> QED
      BY <2>1, <2>2
  <1>9. CASE IdleEnd
    BY <1>1, <1>9 DEF IdleEnd, LeaveIdle
  <1> QED
    BY <1>3, <1>4, <1>5, <1>6, <1>7, <1>8, <1>9 DEF Next, Interrupts

\* When the machine halts outside a handler, nobody sleeps: without the timer
\* ProhibitExit would still run; with it an alarm that is pending would fire.
LEMMA HaltsWhenDone ==
    ASSUME AlarmInv, Halt, ~inHandler
    PROVE  \A t \in Thread : pc[t] = "done"
  <1>0. /\ TypeOK /\ ThreadInv /\ QueueInv /\ Aligned /\ LockInv
        /\ (~randomTimer => NoPreemption)
        /\ Main \in Thread /\ Guard \in Thread
        /\ machineStatus = "IdleMode" /\ readyList = <<>> /\ (pending = <<>> \/ Lone)
    BY SchedulerAssumption, AlarmAssumption DEF AlarmInv, BaseInv, Halt, HaltIdle
  <1>1. \A t \in Thread : status[t] \in {"BLOCKED", "DELETED", "JUST_CREATED"}
    <2>1. Range(readyList) = {}
      BY <1>0 DEF Range
    <2>2. \A t \in Thread : status[t] # "READY" /\ status[t] # "RUNNING"
      BY <1>0, <2>1 DEF ThreadInv, SchedulerConsistent, ReadyListExact, OneRunning
    <2>3. \A t \in Thread : status[t] \in ThreadStatus
      BY <1>0 DEF TypeOK, SchedTypeOK
    <2> QED
      BY <2>2, <2>3 DEF ThreadStatus
  <1>2. ASSUME NEW t \in Thread
        PROVE  pc[t] = "done" \/ (pc[t] \in Awaits /\ status[t] = "BLOCKED"
                                  /\ t \in Range(lockQueue) \cup Range(conQueue))
               \/ status[t] = "JUST_CREATED"
    <2>1. CASE status[t] = "BLOCKED"
      BY <1>0, <2>1 DEF LockInv, QueueInv, Awaits
    <2>2. CASE status[t] = "DELETED"
      BY <1>0, <2>2 DEF ThreadInv
    <2> QED
      BY <1>1, <2>1, <2>2
  <1>3. \A t \in Thread : status[t] # "JUST_CREATED"
    <2>1. pc[Main] # "fork"
      <3>1. status[Main] # "JUST_CREATED"
        BY <1>0 DEF ThreadInv
      <3> QED
        BY <1>0, <1>2, <3>1 DEF Awaits
    <2> QED
      BY <2>1, <1>0 DEF ThreadInv
  <1>4. CASE ~randomTimer
    <2>1. pc[Guard] \in {"loop", "done"}
      BY <1>0 DEF ThreadInv
    <2>2. pc[Guard] = "done"
      BY <1>0, <1>2, <1>3, <2>1 DEF Awaits
    <2> QED
      BY <1>0, <1>4, <2>2 DEF NoPreemption
  <1>5. CASE randomTimer
    <2>1. pending = <<>>
      BY <1>0, <1>5 DEF Lone
    <2>2. Range(conQueue) = {}
      <3>1. conQueue \in Seq(Thread) /\ Len(pending) = 0
        BY <1>0, <2>1 DEF TypeOK
      <3>2. Len(conQueue) = 0
        BY <1>0, <3>1 DEF Aligned
      <3>3. conQueue = <<>>
        BY <3>1, <3>2, EmptySeq
      <3> QED
        BY <3>3 DEF Range
    <2>3. \A t \in Thread : pc[t] \notin Inside
      BY <1>2, <1>3 DEF Awaits, Inside
    <2>4. ~isLockBusy
      BY <1>0, <2>3 DEF LockInv
    <2>5. lockQueue = <<>>
      BY <1>0, <1>1, <2>4 DEF LockInv
    <2>6. Range(lockQueue) = {}
      BY <2>5 DEF Range
    <2> QED
      BY <1>2, <1>3, <2>2, <2>6
  <1> QED
    BY <1>4, <1>5

\* Every step keeps the whole invariant.
LEMMA AlarmNext ==
    ASSUME AlarmInv, [Next]_vars
    PROVE  AlarmInv'
  <1>1. BaseInv /\ BaseInv'
    BY BaseNext DEF AlarmInv
  <1>2. CASE UNCHANGED vars
    <2>1. /\ status' = status /\ readyList' = readyList /\ lockQueue' = lockQueue /\ pc' = pc
          /\ inHandler' = inHandler /\ randomTimer' = randomTimer /\ machineStatus' = machineStatus
      BY <1>2 DEF vars, sched, alarm
    <2> QED
      BY <1>1, <2>1 DEF AlarmInv, NoPreemption, Served, NobodyOversleeps
  <1>3. CASE Next
    <2>1. ASSUME ~inHandler', ~randomTimer' PROVE NoPreemption'
      <3>1. ~inHandler
        BY <1>3, <2>1 DEF Next, ThreadStep, MainStep, Interrupts, StartPause, PauseWait, PauseZero,
              Resume, PauseEnd, AlarmThreadEnd, InHandlerAcquire, InHandlerEnable, ForkNext,
              ForkedAll, ProhibitYield, ProhibitEnd, Tick, Fire, FireBlocked, IdleFire, IdleEnd,
              Halt, Preempt
      <3>2. ~randomTimer
        BY <1>3, <2>1 DEF Next, ThreadStep, MainStep, Interrupts, StartPause, PauseWait, PauseZero,
              Resume, PauseEnd, AlarmThreadEnd, InHandlerAcquire, InHandlerEnable, ForkNext,
              ForkedAll, ProhibitYield, ProhibitEnd, Tick, Fire, FireBlocked, IdleFire, IdleEnd,
              Halt, Preempt
      <3>3. NoPreemption
        BY <3>1, <3>2 DEF AlarmInv
      <3>4. CASE \E t \in Thread : ThreadStep(t)
        BY <1>1, <3>1, <3>3, <3>4, OrderThread
      <3>5. CASE MainStep
        BY <1>1, <3>1, <3>3, <3>5, OrderMain
      <3>6. CASE ProhibitYield \/ ProhibitEnd
        BY <1>1, <3>1, <3>3, <3>6, OrderGuard
      <3>7. CASE Interrupts
        BY <1>1, <2>1, <3>1, <3>3, <3>7, OrderInterrupts
      <3>8. ~Preempt
        BY <3>2 DEF Preempt
      <3> QED
        BY <1>3, <3>4, <3>5, <3>6, <3>7, <3>8 DEF Next
    <2>2. NobodyOversleeps'
      <3>1. CASE ~Halt
        BY <1>3, <3>1, OnlyHaltHalts DEF NobodyOversleeps
      <3>2. CASE Halt
        <4>1. inHandler' = inHandler /\ pc' = pc
          BY <3>2 DEF Halt
        <4> QED
          BY <3>2, <4>1, HaltsWhenDone DEF NobodyOversleeps
      <3> QED
        BY <3>1, <3>2
    <2> QED
      BY <1>1, <2>1, <2>2 DEF AlarmInv
  <1> QED
    BY <1>2, <1>3

\* The first state has the order too.
LEMMA AlarmInit ==
    ASSUME Init
    PROVE  AlarmInv
  <1>1. BaseInv
    BY BaseInit
  <1>2. Main \in Thread /\ Guard \in Thread \ {Main}
    BY SchedulerAssumption, AlarmAssumption
  <1>3. Served(readyList, pc)
    BY DEF Init, SchedInit, Served
  <1>4. NoPreemption
    BY <1>2, <1>3 DEF Init, SchedInit, NoPreemption
  <1>5. NobodyOversleeps
    BY DEF Init, SchedInit, NobodyOversleeps
  <1> QED
    BY <1>1, <1>4, <1>5 DEF AlarmInv

(***************************************************************************)
(* The machine does not halt while a thread sleeps (ProhibitExit of        *)
(* 3/threadtest.cc, Interrupt::Idle), unless a handler has gone to sleep.  *)
(***************************************************************************)
THEOREM HaltsAfterAlarms == Spec => []NobodyOversleeps
  <1>1. Init => AlarmInv
    BY AlarmInit
  <1>2. AlarmInv /\ [Next]_vars => AlarmInv'
    BY AlarmNext
  <1>3. AlarmInv => NobodyOversleeps
    BY DEF AlarmInv
  <1> QED
    BY <1>1, <1>2, <1>3, PTL DEF Spec
==============================================================================
