--------------------------- MODULE SchedulerProofs ---------------------------
(***************************************************************************)
(* Lemmas about the scheduler and the lists of Nachos that the proofs      *)
(* about its users share: what the lists of threads hold after each list   *)
(* operation, and what ReadyToRun, Run, Sleep and Yield do to the types    *)
(* and to SchedulerConsistent, for any set of threads.                     *)
(***************************************************************************)
EXTENDS Scheduler, SequenceTheorems, TLAPS

-----------------------------------------------------------------------------
(* Lists as the sets of what they hold.                                    *)

\* List::Append puts one more item on a list that did not have it.
LEMMA AppendRange ==
    ASSUME NEW S, NEW s \in Seq(S), NEW x \in S
    PROVE  /\ Range(Append(s, x)) = Range(s) \cup {x}
           /\ IsInjective(s) /\ x \notin Range(s) => IsInjective(Append(s, x))
  <1> DEFINE q == Append(s, x)
  <1>1. /\ Len(s) \in Nat /\ DOMAIN s = 1..Len(s) /\ DOMAIN q = 1..(Len(s) + 1)
        /\ \A i \in 1..Len(s) : q[i] = s[i]
        /\ q[Len(s) + 1] = x
    BY AppendProperties, LenProperties
  <1> HIDE DEF q
  <1>2. Range(q) = Range(s) \cup {x}
    BY <1>1 DEF Range
  <1>3. ASSUME IsInjective(s), x \notin Range(s) PROVE IsInjective(q)
    BY <1>1, <1>3 DEF Range, IsInjective
  <1> QED
    BY <1>2, <1>3 DEF q

\* List::Remove takes the first item off, which was on the list once.
LEMMA HeadTailRange ==
    ASSUME NEW S, NEW s \in Seq(S), s # <<>>
    PROVE  /\ Head(s) \in Range(s)
           /\ Range(s) = {Head(s)} \cup Range(Tail(s))
           /\ IsInjective(s) => IsInjective(Tail(s)) /\ Head(s) \notin Range(Tail(s))
  <1> DEFINE q == Tail(s)
             h == Head(s)
  <1>1. /\ Len(s) \in Nat \ {0} /\ DOMAIN s = 1..Len(s) /\ DOMAIN q = 1..(Len(s) - 1)
        /\ \A i \in 1..(Len(s) - 1) : q[i] = s[i + 1]
        /\ h = s[1]
    BY HeadTailProperties, LenProperties, EmptySeq
  <1> HIDE DEF q, h
  <1>2. h \in Range(s)
    BY <1>1 DEF Range
  <1>3. Range(s) = {h} \cup Range(q)
    <2>1. ASSUME NEW y \in Range(s) PROVE y \in {h} \cup Range(q)
      <3>1. PICK i \in 1..Len(s) : y = s[i]
        BY <1>1 DEF Range
      <3>2. CASE i = 1
        BY <3>1, <3>2, <1>1
      <3>3. CASE i # 1
        <4>1. i - 1 \in 1..(Len(s) - 1) /\ q[i - 1] = s[i]
          BY <3>1, <3>3, <1>1
        <4> QED
          BY <4>1, <3>1, <1>1 DEF Range
      <3> QED
        BY <3>2, <3>3
    <2>2. ASSUME NEW y \in Range(q) PROVE y \in Range(s)
      <3>1. PICK i \in 1..(Len(s) - 1) : y = q[i]
        BY <1>1 DEF Range
      <3>2. i + 1 \in 1..Len(s) /\ y = s[i + 1]
        BY <3>1, <1>1
      <3> QED
        BY <3>2, <1>1 DEF Range
    <2> QED
      BY <2>1, <2>2, <1>2
  <1>4. ASSUME IsInjective(s) PROVE IsInjective(q) /\ h \notin Range(q)
    <2>1. \A i, j \in 1..Len(s) : s[i] = s[j] => i = j
      BY <1>1, <1>4 DEF IsInjective
    <2>2. \A i, j \in 1..(Len(s) - 1) : q[i] = q[j] => i = j
      BY <1>1, <2>1
    <2>3. \A i \in 1..(Len(s) - 1) : q[i] # h
      BY <1>1, <2>1
    <2> QED
      BY <1>1, <2>2, <2>3 DEF IsInjective, Range
  <1> QED
    BY <1>2, <1>3, <1>4 DEF q, h

\* First and Rest split a list without repetitions in two.
LEMMA FirstRestRange ==
    ASSUME NEW S, NEW s \in Seq(S), IsInjective(s)
    PROVE  /\ IsInjective(First(s)) /\ Range(First(s)) \subseteq Range(s)
           /\ IsInjective(Rest(s)) /\ Range(Rest(s)) = Range(s) \ Range(First(s))
           /\ s # <<>> => First(s) = <<Head(s)>> /\ Range(First(s)) = {Head(s)}
           /\ s = <<>> => First(s) = <<>> /\ Rest(s) = <<>>
  <1>1. CASE s = <<>>
    <2>1. Range(s) = {}
      BY <1>1 DEF Range
    <2> QED
      BY <1>1, <2>1 DEF First, Rest
  <1>2. CASE s # <<>>
    <2>1. First(s) = <<Head(s)>> /\ Rest(s) = Tail(s)
      BY <1>2 DEF First, Rest
    <2>2. Range(<<Head(s)>>) = {Head(s)} /\ IsInjective(<<Head(s)>>)
      BY DEF Range, IsInjective
    <2> QED
      BY <1>2, <2>1, <2>2, HeadTailRange
  <1> QED
    BY <1>1, <1>2

\* Two lists without repetitions that have nothing in common make one.
LEMMA ConcatRange ==
    ASSUME NEW S, NEW s \in Seq(S), NEW r \in Seq(S)
    PROVE  /\ Range(s \o r) = Range(s) \cup Range(r)
           /\ IsInjective(s) /\ IsInjective(r) /\ Range(s) \cap Range(r) = {}
                => IsInjective(s \o r)
  <1> DEFINE q == s \o r
  <1>1. /\ Len(s) \in Nat /\ DOMAIN s = 1..Len(s)
        /\ Len(r) \in Nat /\ DOMAIN r = 1..Len(r)
        /\ DOMAIN q = 1..(Len(s) + Len(r))
        /\ \A i \in 1..(Len(s) + Len(r)) :
              q[i] = IF i <= Len(s) THEN s[i] ELSE r[i - Len(s)]
    BY ConcatProperties, LenProperties
  <1>2. ASSUME IsInjective(s), IsInjective(r), Range(s) \cap Range(r) = {}
        PROVE  IsInjective(q)
    <2> HIDE DEF q
    <2> SUFFICES ASSUME NEW i \in 1..(Len(s) + Len(r)), NEW j \in 1..(Len(s) + Len(r)),
                        q[i] = q[j]
                 PROVE  i = j
      BY <1>1 DEF IsInjective
    <2>1. CASE i <= Len(s) /\ j <= Len(s)
      BY <2>1, <1>1, <1>2 DEF IsInjective
    <2>2. CASE i > Len(s) /\ j > Len(s)
      <3>1. i - Len(s) \in 1..Len(r) /\ j - Len(s) \in 1..Len(r)
        BY <2>2, <1>1
      <3>2. q[i] = r[i - Len(s)] /\ q[j] = r[j - Len(s)]
        BY <2>2, <1>1
      <3>3. i - Len(s) = j - Len(s)
        BY <1>1, <1>2, <3>1, <3>2 DEF IsInjective
      <3> QED
        BY <3>3, <1>1
    <2>3. ASSUME NEW k \in 1..Len(s), NEW l \in 1..Len(r) PROVE s[k] # r[l]
      BY <1>1, <1>2 DEF Range
    <2>4. CASE i <= Len(s) /\ j > Len(s)
      BY <2>3, <2>4, <1>1
    <2>5. CASE i > Len(s) /\ j <= Len(s)
      BY <2>3, <2>5, <1>1
    <2> QED
      BY <2>1, <2>2, <2>4, <2>5, <1>1
  <1> QED
    BY <1>2, RangeConcatenation

-----------------------------------------------------------------------------
(* The scheduler's operators preserve the types of the scheduler's state.  *)

\* What List::Remove takes and leaves are lists of threads again.
LEMMA FirstRestType ==
    ASSUME NEW q \in Seq(Thread)
    PROVE  First(q) \in Seq(Thread) /\ Rest(q) \in Seq(Thread)
  BY DEF First, Rest

\* Marking threads READY keeps every status a legal one.
LEMMA MarkReadyType ==
    ASSUME SchedTypeOK, NEW ts
    PROVE  MarkReady(ts) \in [Thread -> ThreadStatus]
  BY DEF MarkReady, SchedTypeOK, ThreadStatus

\* ReadyToRun keeps the scheduler's types.
LEMMA ReadyToRunType ==
    ASSUME SchedTypeOK, NEW ts \in Seq(Thread), ReadyToRun(ts)
    PROVE  SchedTypeOK'
  <1>1. readyList \o ts \in Seq(Thread)
    BY ConcatProperties DEF SchedTypeOK
  <1> QED
    BY <1>1, MarkReadyType DEF ReadyToRun, SchedTypeOK

\* A context switch keeps the scheduler's types.
LEMMA RunType ==
    ASSUME SchedTypeOK,
           NEW st \in [Thread -> ThreadStatus],
           NEW rl \in Seq(Thread), rl # <<>>,
           NEW dead \in Thread \cup {NoThread},
           Run(st, rl, dead)
    PROVE  SchedTypeOK'
  <1>1. Head(rl) \in Thread /\ Tail(rl) \in Seq(Thread)
    BY HeadTailProperties
  <1>2. status' \in [Thread -> ThreadStatus]
    BY DEF Run, ThreadStatus
  <1>3. suspended' \subseteq Thread /\ currentThread' \in Thread
    BY <1>1 DEF Run, SchedTypeOK
  <1>4. threadToBeDestroyed' \in Thread \cup {NoThread}
    BY DEF Run
  <1> QED
    BY <1>1, <1>2, <1>3, <1>4 DEF Run, SchedTypeOK

\* Sleep keeps the scheduler's types, whether it switches or idles.
LEMMA SleepType ==
    ASSUME SchedTypeOK,
           NEW wake \in Seq(Thread),
           NEW dead \in Thread \cup {NoThread},
           Sleep(wake, dead)
    PROVE  SchedTypeOK'
  <1> DEFINE st == [MarkReady(wake) EXCEPT ![currentThread] = "BLOCKED"]
             rl == readyList \o wake
  <1>1. st \in [Thread -> ThreadStatus]
    BY MarkReadyType DEF ThreadStatus
  <1>2. rl \in Seq(Thread)
    BY ConcatProperties DEF SchedTypeOK
  <1>3. CASE rl # <<>>
    <2>1. Run(st, rl, dead)
      BY <1>3 DEF Sleep
    <2> QED
      BY <1>1, <1>2, <1>3, <2>1, RunType
  <1>4. CASE rl = <<>>
    BY <1>1, <1>4 DEF Sleep, SchedTypeOK
  <1> QED
    BY <1>3, <1>4

\* The same for a Sleep that readies nobody and keeps threadToBeDestroyed.
LEMMA SleepNothingType ==
    ASSUME SchedTypeOK, Sleep(<<>>, threadToBeDestroyed)
    PROVE  SchedTypeOK'
  <1>1. <<>> \in Seq(Thread) /\ threadToBeDestroyed \in Thread \cup {NoThread}
    BY EmptySeq DEF SchedTypeOK
  <1> QED
    BY <1>1, SleepType

\* Yield keeps the scheduler's types.
LEMMA YieldType ==
    ASSUME SchedTypeOK, YieldCPU
    PROVE  SchedTypeOK'
  <1>1. Append(readyList, currentThread) \in Seq(Thread)
    BY AppendProperties DEF SchedTypeOK
  <1>2. Append(readyList, currentThread) # <<>>
    BY AppendProperties DEF SchedTypeOK
  <1>3. [status EXCEPT ![currentThread] = "READY"] \in [Thread -> ThreadStatus]
    BY DEF SchedTypeOK, ThreadStatus
  <1> QED
    BY <1>1, <1>2, <1>3, RunType DEF YieldCPU, SchedTypeOK

-----------------------------------------------------------------------------
(* The scheduler's operators preserve SchedulerConsistent.                 *)

\* ReadyToRun on threads that are neither ready nor running yet.
LEMMA ReadyToRunConsistent ==
    ASSUME SchedTypeOK, SchedulerConsistent,
           NEW ts \in Seq(Thread), IsInjective(ts),
           \A t \in Range(ts) : status[t] \notin {"READY", "RUNNING"},
           ReadyToRun(ts)
    PROVE  /\ SchedulerConsistent'
           /\ \A t \in Thread :
                 status'[t] = IF t \in Range(ts) THEN "READY" ELSE status[t]
  <1>1. \A t \in Thread : status'[t] = IF t \in Range(ts) THEN "READY" ELSE status[t]
    BY DEF ReadyToRun, MarkReady
  <1>2. readyList \in Seq(Thread) /\ IsInjective(readyList)
    BY DEF SchedTypeOK, SchedulerConsistent, ReadyListExact
  <1>3. Range(ts) \subseteq Thread
    BY RangeOfSeq
  <1>4. Range(readyList) \cap Range(ts) = {}
    BY <1>3 DEF SchedulerConsistent, ReadyListExact
  <1>5. readyList' = readyList \o ts
    BY DEF ReadyToRun
  <1>6. IsInjective(readyList)' /\ Range(readyList)' = Range(readyList) \cup Range(ts)
    BY <1>2, <1>4, <1>5, ConcatRange
  <1>7. ReadyListExact'
    BY <1>1, <1>6 DEF SchedulerConsistent, ReadyListExact
  <1>8. OneRunning'
    BY <1>1, <1>3 DEF SchedulerConsistent, OneRunning, ReadyToRun
  <1> QED
    BY <1>1, <1>7, <1>8 DEF SchedulerConsistent

\* Run takes the first of the ready threads; nobody else may be running.
LEMMA RunConsistent ==
    ASSUME NEW st \in [Thread -> ThreadStatus],
           NEW rl \in Seq(Thread), rl # <<>>, IsInjective(rl),
           NEW dead \in Thread \cup {NoThread},
           \A t \in Thread : st[t] = "READY" <=> t \in Range(rl),
           \A t \in Thread : st[t] # "RUNNING",
           dead \in Thread => st[dead] # "READY",
           Run(st, rl, dead)
    PROVE  /\ SchedulerConsistent'
           /\ \A t \in Thread :
                 \/ t = Head(rl) /\ status'[t] = "RUNNING"
                 \/ t # Head(rl) /\ t = dead /\ status'[t] = "DELETED"
                 \/ t # Head(rl) /\ status'[t] = st[t]
           /\ Head(rl) \in Range(rl)
           /\ threadToBeDestroyed' \in {dead, NoThread}
  <1> DEFINE next == Head(rl)
  <1>1. /\ next \in Thread /\ next \in Range(rl)
        /\ Range(rl) = {next} \cup Range(Tail(rl))
        /\ IsInjective(Tail(rl)) /\ next \notin Range(Tail(rl))
    BY HeadTailRange, HeadTailProperties
  <1>2. /\ readyList' = Tail(rl) /\ currentThread' = next
        /\ machineStatus' = "SystemMode" /\ threadToBeDestroyed' \in {dead, NoThread}
    BY DEF Run
  <1>3. \A t \in Thread :
          \/ t = next /\ status'[t] = "RUNNING"
          \/ t # next /\ t = dead /\ status'[t] = "DELETED"
          \/ t # next /\ status'[t] = st[t]
    BY DEF Run
  <1> HIDE DEF next
  <1>4. ReadyListExact'
    BY <1>1, <1>2, <1>3 DEF ReadyListExact
  <1>5. OneRunning'
    BY <1>2, <1>3 DEF OneRunning
  <1> QED
    BY <1>1, <1>2, <1>3, <1>4, <1>5 DEF SchedulerConsistent, next

\* What Sleep leaves behind: the sleeper BLOCKED (or destroyed, if it is the
\* thread to be destroyed), the woken threads awake, and the others as they were.
LEMMA SleepConsistent ==
    ASSUME SchedTypeOK, SchedulerConsistent, machineStatus = "SystemMode",
           NEW wake \in Seq(Thread), IsInjective(wake),
           \A t \in Range(wake) : status[t] \notin {"READY", "RUNNING"},
           NEW dead \in Thread \cup {NoThread},
           dead \in Thread =>
               dead \notin Range(wake) /\ (dead = currentThread \/ status[dead] # "READY"),
           Sleep(wake, dead)
    PROVE  /\ SchedulerConsistent'
           /\ \A t \in Thread :
                 \/ t = dead /\ status'[t] = "DELETED"
                 \/ t = currentThread /\ status'[t] = "BLOCKED"
                 \/ t # currentThread /\ t \in Range(wake) /\ status'[t] \in {"READY", "RUNNING"}
                 \/ /\ t # currentThread /\ t \notin Range(wake)
                    /\ status'[t] = status[t] \/ (status[t] = "READY" /\ status'[t] = "RUNNING")
           /\ threadToBeDestroyed' \in {dead, NoThread}
  <1> DEFINE st == [MarkReady(wake) EXCEPT ![currentThread] = "BLOCKED"]
             rl == readyList \o wake
  <1>1. /\ st \in [Thread -> ThreadStatus]
        /\ \A t \in Thread : st[t] = IF t = currentThread THEN "BLOCKED"
                                    ELSE IF t \in Range(wake) THEN "READY" ELSE status[t]
    BY MarkReadyType DEF MarkReady, ThreadStatus
  <1>2. rl \in Seq(Thread)
    BY ConcatProperties DEF SchedTypeOK
  <1>3. currentThread \in Thread /\ status[currentThread] = "RUNNING"
    BY DEF SchedTypeOK, SchedulerConsistent, OneRunning
  <1>4. IsInjective(rl) /\ Range(rl) = Range(readyList) \cup Range(wake)
    <2>1. readyList \in Seq(Thread) /\ IsInjective(readyList)
      BY DEF SchedTypeOK, SchedulerConsistent, ReadyListExact
    <2>2. Range(readyList) \cap Range(wake) = {}
      BY RangeOfSeq DEF SchedulerConsistent, ReadyListExact
    <2> QED
      BY <2>1, <2>2, ConcatRange
  <1>5. \A t \in Thread : st[t] = "READY" <=> t \in Range(rl)
    BY <1>1, <1>3, <1>4 DEF SchedulerConsistent, ReadyListExact
  <1>6. \A t \in Thread : st[t] # "RUNNING"
    BY <1>1, <1>3 DEF SchedulerConsistent, OneRunning
  <1>7. dead \in Thread => st[dead] # "READY"
    BY <1>1
  <1>8. \/ rl # <<>> /\ Run(st, rl, dead)
        \/ /\ rl = <<>> /\ status' = st /\ threadToBeDestroyed' = dead
           /\ machineStatus' = "IdleMode" /\ UNCHANGED <<readyList, currentThread>>
    BY DEF Sleep
  <1> HIDE DEF st, rl
  <1>9. CASE rl # <<>> /\ Run(st, rl, dead)
    <2>1. /\ SchedulerConsistent' /\ Head(rl) \in Range(rl)
          /\ threadToBeDestroyed' \in {dead, NoThread}
          /\ \A t \in Thread :
                 \/ t = Head(rl) /\ status'[t] = "RUNNING"
                 \/ t # Head(rl) /\ t = dead /\ status'[t] = "DELETED"
                 \/ t # Head(rl) /\ status'[t] = st[t]
      BY <1>1, <1>2, <1>4, <1>5, <1>6, <1>7, <1>9, RunConsistent
    <2> QED
      BY <2>1, <1>1, <1>5
  <1>10. CASE /\ rl = <<>> /\ status' = st /\ threadToBeDestroyed' = dead
              /\ machineStatus' = "IdleMode" /\ UNCHANGED <<readyList, currentThread>>
    <2>1. Range(rl) = {}
      BY <1>10 DEF Range
    <2>2. ReadyListExact'
      BY <1>10, <1>4, <1>5, <2>1 DEF SchedulerConsistent, ReadyListExact
    <2>3. OneRunning'
      BY <1>10, <1>6 DEF OneRunning
    <2> QED
      BY <2>1, <2>2, <2>3, <1>1, <1>4, <1>10 DEF SchedulerConsistent
  <1> QED
    BY <1>8, <1>9, <1>10

\* Yield puts the running thread behind the ready ones.
LEMMA YieldConsistent ==
    ASSUME SchedTypeOK, SchedulerConsistent, machineStatus = "SystemMode",
           threadToBeDestroyed \in Thread =>
               status[threadToBeDestroyed] \notin {"READY", "RUNNING"},
           YieldCPU
    PROVE  /\ SchedulerConsistent'
           /\ \A t \in Thread :
                 \/ t = threadToBeDestroyed /\ status'[t] = "DELETED"
                 \/ status'[t] = status[t]
                 \/ {status[t], status'[t]} \subseteq {"READY", "RUNNING"}
           /\ threadToBeDestroyed' \in {threadToBeDestroyed, NoThread}
  <1> DEFINE st == [status EXCEPT ![currentThread] = "READY"]
             rl == Append(readyList, currentThread)
  <1>1. currentThread \in Thread /\ status[currentThread] = "RUNNING"
    BY DEF SchedTypeOK, SchedulerConsistent, OneRunning
  <1>2. /\ st \in [Thread -> ThreadStatus]
        /\ \A t \in Thread : st[t] = IF t = currentThread THEN "READY" ELSE status[t]
    BY DEF SchedTypeOK, ThreadStatus
  <1>3. rl \in Seq(Thread) /\ rl # <<>>
    BY AppendProperties DEF SchedTypeOK
  <1>4. IsInjective(rl) /\ Range(rl) = Range(readyList) \cup {currentThread}
    <2>1. readyList \in Seq(Thread) /\ IsInjective(readyList)
      BY DEF SchedTypeOK, SchedulerConsistent, ReadyListExact
    <2>2. currentThread \notin Range(readyList)
      BY <1>1 DEF SchedulerConsistent, ReadyListExact
    <2> QED
      BY <1>1, <2>1, <2>2, AppendRange
  <1>5. \A t \in Thread : st[t] = "READY" <=> t \in Range(rl)
    BY <1>2, <1>4 DEF SchedulerConsistent, ReadyListExact
  <1>6. \A t \in Thread : st[t] # "RUNNING"
    BY <1>1, <1>2 DEF SchedulerConsistent, OneRunning
  <1>7. threadToBeDestroyed \in Thread => st[threadToBeDestroyed] # "READY"
    BY <1>1, <1>2
  <1>8. Run(st, rl, threadToBeDestroyed) /\ threadToBeDestroyed \in Thread \cup {NoThread}
    BY DEF YieldCPU, SchedTypeOK
  <1> HIDE DEF st, rl
  <1>9. /\ SchedulerConsistent' /\ Head(rl) \in Range(rl)
        /\ threadToBeDestroyed' \in {threadToBeDestroyed, NoThread}
        /\ \A t \in Thread :
               \/ t = Head(rl) /\ status'[t] = "RUNNING"
               \/ t # Head(rl) /\ t = threadToBeDestroyed /\ status'[t] = "DELETED"
               \/ t # Head(rl) /\ status'[t] = st[t]
    BY <1>2, <1>3, <1>4, <1>5, <1>6, <1>7, <1>8, RunConsistent
  <1> QED
    BY <1>1, <1>2, <1>5, <1>9

\* The idle loop goes on with the first thread that a handler has readied.
LEMMA LeaveIdleConsistent ==
    ASSUME SchedTypeOK, SchedulerConsistent,
           threadToBeDestroyed \in Thread =>
               status[threadToBeDestroyed] \notin {"READY", "RUNNING"},
           LeaveIdle
    PROVE  /\ SchedulerConsistent'
           /\ \A t \in Thread :
                 \/ t = threadToBeDestroyed /\ status'[t] = "DELETED"
                 \/ status'[t] = status[t]
                 \/ {status[t], status'[t]} \subseteq {"READY", "RUNNING"}
           /\ threadToBeDestroyed' \in {threadToBeDestroyed, NoThread}
  <1>1. /\ status \in [Thread -> ThreadStatus] /\ readyList \in Seq(Thread)
        /\ readyList # <<>> /\ IsInjective(readyList)
        /\ threadToBeDestroyed \in Thread \cup {NoThread}
        /\ Run(status, readyList, threadToBeDestroyed)
    BY DEF SchedTypeOK, SchedulerConsistent, ReadyListExact, LeaveIdle
  <1>2. /\ \A t \in Thread : status[t] = "READY" <=> t \in Range(readyList)
        /\ \A t \in Thread : status[t] # "RUNNING"
    BY DEF SchedulerConsistent, ReadyListExact, OneRunning, LeaveIdle
  <1>3. /\ SchedulerConsistent' /\ Head(readyList) \in Range(readyList)
        /\ threadToBeDestroyed' \in {threadToBeDestroyed, NoThread}
        /\ \A t \in Thread :
               \/ t = Head(readyList) /\ status'[t] = "RUNNING"
               \/ t # Head(readyList) /\ t = threadToBeDestroyed /\ status'[t] = "DELETED"
               \/ t # Head(readyList) /\ status'[t] = status[t]
    BY <1>1, <1>2, RunConsistent
  <1> QED
    BY <1>2, <1>3
=============================================================================
