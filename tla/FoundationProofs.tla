-------------------------- MODULE FoundationProofs --------------------------
(***************************************************************************)
(* Proofs about what the kernel stands on: SynchSem, the lock and the      *)
(* condition that are made of semaphores, for every set of threads;        *)
(* ContextSwitch, on each of its hosts, for every set of threads and every *)
(* size of the stacks; and Lists, for any elements and keys.               *)
(***************************************************************************)
EXTENDS SynchSem, ContextSwitch, Lists, FiniteSetTheorems, SequenceTheorems,
        WellFoundedInduction, TLAPS

-----------------------------------------------------------------------------
(* SynchSem.                                                               *)

(***************************************************************************)
(* WakeUpsExact follows from a count that every step keeps: a waiter that  *)
(* has been counted has its V to come, or posted, or taken by another that *)
(* was counted then, and a Broadcast between its V and its count-- has     *)
(* posted one more than it has counted off.  Such a Broadcast still has a  *)
(* thread to count off, so that count never goes below zero, and the sets  *)
(* are finite, as they start empty and change by one thread at a time.     *)
(***************************************************************************)
CountExact ==
    count + condValue = Cardinality(Waiting) + Cardinality(Broadcasting)

CountFinite == IsFiniteSet(Waiting) /\ IsFiniteSet(Broadcasting)

SemInv ==
    /\ SemTypeOK /\ LockToken
    /\ Broadcasting # {} => count > 0
    /\ CountFinite /\ CountExact

\* The steps of the lock; they leave the condition alone.
LockStep(t)  == AcquireP(t) \/ SetOwner(t) \/ Release(t) \/ WaitRelease(t)

\* The steps of the condition; they leave the lock alone.
CondStep(t) == WaitCount(t) \/ WaitP(t) \/ Signal(t) \/ BroadcastV(t) \/ BroadcastLoop(t)

-----------------------------------------------------------------------------
\* Types, and the count stays positive during a broadcast.
LEMMA NextSemType ==
    ASSUME SemInv, NEW t \in Thread, LockStep(t) \/ CondStep(t)
    PROVE  SemTypeOK' /\ (Broadcasting' # {} => count' > 0)
  <1>0. /\ lockValue \in Nat /\ condValue \in Nat /\ count \in Nat
        /\ at \in [Thread -> Place] /\ lockOwner \in Thread \cup {NoThread}
    BY DEF SemInv, SemTypeOK
  <1>1. \A u, v \in Thread :
          at[u] \in {"acquired", "in", "broadcast"} /\ at[v] \in {"acquired", "in", "broadcast"}
            => u = v
    BY DEF SemInv, LockToken, Holders
  <1>2. \A u \in Thread : at[u] = "broadcast" => count > 0
    BY DEF SemInv, Broadcasting
  <1>3. CASE LockStep(t)
    <2>1. /\ lockValue' \in Nat /\ lockOwner' \in Thread \cup {NoThread}
          /\ UNCHANGED <<condValue, count>>
      BY <1>0, <1>3 DEF LockStep, AcquireP, SetOwner, Release, WaitRelease, FreeLock
    <2>2. at' \in [Thread -> Place]
      BY <1>0, <1>3 DEF LockStep, AcquireP, SetOwner, Release, WaitRelease, Go, Place
    <2>3. Broadcasting' \subseteq Broadcasting
      BY <1>0, <1>3 DEF LockStep, AcquireP, SetOwner, Release, WaitRelease, Go, Broadcasting
    <2> QED
      BY <1>0, <2>1, <2>2, <2>3 DEF SemTypeOK, SemInv
  <1>4. CASE CondStep(t)
    <2>1. UNCHANGED <<lockValue, lockOwner>>
      BY <1>4 DEF CondStep, WaitCount, WaitP, Signal, BroadcastV, BroadcastLoop
    <2>2. at' \in [Thread -> Place]
      BY <1>0, <1>4 DEF CondStep, WaitCount, WaitP, Signal, BroadcastV, BroadcastLoop, Go, Place
    <2>3. condValue' \in Nat
      BY <1>0, <1>4 DEF CondStep, WaitCount, WaitP, Signal, BroadcastV, BroadcastLoop
    <2>4. count' \in Nat
      BY <1>0, <1>2, <1>4 DEF CondStep, WaitCount, WaitP, Signal, BroadcastV, BroadcastLoop, Go
    <2>5. ASSUME NEW u \in Thread, at'[u] = "broadcast" PROVE count' > 0
      <3>1. CASE WaitCount(t) \/ WaitP(t)
        <4>1. at[u] = "broadcast"
          BY <1>0, <2>5, <3>1 DEF WaitCount, WaitP, Go
        <4>2. count' = count + 1 \/ count' = count
          BY <3>1 DEF WaitCount, WaitP
        <4> QED
          BY <1>0, <1>2, <4>1, <4>2
      <3>2. CASE Signal(t)
        <4>1. at[u] = "broadcast" /\ at[t] = "in"
          BY <2>5, <3>2 DEF Signal
        <4> QED
          BY <1>1, <2>5, <4>1
      <3>3. CASE BroadcastV(t)
        BY <1>0, <3>3 DEF BroadcastV
      <3>4. CASE BroadcastLoop(t)
        <4>1. CASE count' > 0
          BY <4>1
        <4>2. CASE Go(t, "broadcast", "in")
          <5>1. at[t] = "broadcast" /\ u # t /\ at[u] = "broadcast"
            BY <1>0, <2>5, <4>2 DEF Go
          <5> QED
            BY <1>1, <5>1
        <4> QED
          BY <3>4, <4>1, <4>2 DEF BroadcastLoop
      <3> QED
        BY <1>4, <3>1, <3>2, <3>3, <3>4 DEF CondStep
    <2> QED
      BY <1>0, <2>1, <2>2, <2>3, <2>4, <2>5 DEF SemTypeOK, Broadcasting
  <1> QED
    BY <1>3, <1>4

\* The lock's token.
LEMMA NextLockToken ==
    ASSUME SemInv, NEW t \in Thread, LockStep(t) \/ CondStep(t)
    PROVE  LockToken'
  <1> DEFINE Held == {"acquired", "in", "broadcast"}
  <1>0. at \in [Thread -> Place] /\ lockValue \in {0, 1}
    BY DEF SemInv, SemTypeOK, LockToken
  <1>1. /\ \A u \in Thread : at[u] \in Held => lockValue = 0
        /\ \A u, v \in Thread : at[u] \in Held /\ at[v] \in Held => u = v
        /\ \A u \in Thread : at[u] \in {"in", "broadcast"} => lockOwner = u
    BY <1>0 DEF SemInv, LockToken, Holders
  <1>2. SUFFICES /\ lockValue' \in {0, 1}
                 /\ \A u \in Thread : at'[u] \in Held => lockValue' = 0
                 /\ \A u, v \in Thread : at'[u] \in Held /\ at'[v] \in Held => u = v
                 /\ \A u \in Thread : at'[u] \in {"in", "broadcast"} => lockOwner' = u
    BY DEF LockToken, Holders
  <1>3. CASE AcquireP(t)
    <2>1. /\ lockValue = 1 /\ lockValue' = 0 /\ lockOwner' = lockOwner
          /\ \A u \in Thread : at'[u] = IF u = t THEN "acquired" ELSE at[u]
      BY <1>0, <1>3 DEF AcquireP, Go
    <2>2. \A u \in Thread : at[u] \notin Held
      BY <1>1, <2>1
    <2> QED
      BY <2>1, <2>2
  <1>4. CASE SetOwner(t)
    BY <1>0, <1>1, <1>4 DEF SetOwner, Go
  <1>5. CASE Release(t) \/ WaitRelease(t)
    <2>1. /\ at[t] = "in" /\ lockValue' = lockValue + 1
          /\ \A u \in Thread : at'[u] = IF u = t THEN at'[t] ELSE at[u]
          /\ at'[t] \in {"out", "released"}
      BY <1>0, <1>5 DEF Release, WaitRelease, FreeLock, Go
    <2>2. lockValue' = 1 /\ \A u \in Thread : u # t => at[u] \notin Held
      BY <1>1, <2>1
    <2> QED
      BY <2>1, <2>2
  <1>6. CASE CondStep(t)
    <2>1. UNCHANGED <<lockValue, lockOwner>>
      BY <1>6 DEF CondStep, WaitCount, WaitP, Signal, BroadcastV, BroadcastLoop
    <2>2. \A u \in Thread : /\ at'[u] \in Held => at[u] \in Held
                            /\ at'[u] \in {"in", "broadcast"} => at[u] \in {"in", "broadcast"}
      BY <1>0, <1>6 DEF CondStep, WaitCount, WaitP, Signal, BroadcastV, BroadcastLoop, Go
    <2> QED
      BY <1>0, <1>1, <2>1, <2>2
  <1> QED
    BY <1>3, <1>4, <1>5, <1>6 DEF LockStep

\* A set of threads that one step leaves alone, or adds t to, or takes t from.
LEMMA OneThreadCount ==
    ASSUME NEW S, IsFiniteSet(S), NEW T, NEW t,
           \/ T = S
           \/ t \notin S /\ T = S \cup {t}
           \/ t \in S /\ T = S \ {t}
    PROVE  /\ IsFiniteSet(T) /\ Cardinality(S) \in Nat /\ Cardinality(T) \in Nat
           /\ T = S => Cardinality(T) = Cardinality(S)
           /\ t \notin S /\ T = S \cup {t} => Cardinality(T) = Cardinality(S) + 1
           /\ t \in S /\ T = S \ {t} => Cardinality(T) = Cardinality(S) - 1
  <1>1. /\ IsFiniteSet(S \cup {t})
        /\ t \notin S => Cardinality(S \cup {t}) = Cardinality(S) + 1
    BY FS_AddElement
  <1>2. /\ IsFiniteSet(S \ {t})
        /\ t \in S => Cardinality(S \ {t}) = Cardinality(S) - 1
    BY FS_RemoveElement
  <1>3. IsFiniteSet(T)
    BY <1>1, <1>2
  <1>4. Cardinality(S) \in Nat /\ Cardinality(T) \in Nat
    BY <1>3, FS_CardinalityType
  <1> QED
    BY <1>1, <1>2, <1>3, <1>4

\* The sleepers and the broadcaster against the Vs that are due or pending.
LEMMA NextCountExact ==
    ASSUME SemInv, NEW t \in Thread, LockStep(t) \/ CondStep(t)
    PROVE  CountFinite' /\ CountExact'
  <1> DEFINE W == Waiting
             B == Broadcasting
  <1>0. /\ condValue \in Nat /\ count \in Nat /\ at \in [Thread -> Place]
        /\ IsFiniteSet(W) /\ IsFiniteSet(B)
        /\ count + condValue = Cardinality(W) + Cardinality(B)
    BY DEF SemInv, SemTypeOK, CountFinite, CountExact
  <1>1. \/ /\ W' = W /\ B' = B /\ count' + condValue' = count + condValue
        \/ /\ t \notin W /\ W' = W \cup {t} /\ B' = B
           /\ count' + condValue' = count + condValue + 1
        \/ /\ t \in W /\ W' = W \ {t} /\ B' = B
           /\ count' + condValue' = count + condValue - 1
        \/ /\ t \notin B /\ B' = B \cup {t} /\ W' = W
           /\ count' + condValue' = count + condValue + 1
        \/ /\ t \in B /\ B' = B \ {t} /\ W' = W
           /\ count' + condValue' = count + condValue - 1
    <2>1. CASE LockStep(t)
      <3>1. /\ UNCHANGED <<count, condValue>>
            /\ \E from \in {"out", "reacquire", "acquired", "in"},
                  to \in {"acquired", "in", "out", "released"} : Go(t, from, to)
        BY <2>1 DEF LockStep, AcquireP, SetOwner, Release, WaitRelease
      <3>2. W' = W /\ B' = B
        BY <1>0, <3>1 DEF Go, Waiting, Broadcasting
      <3> QED
        BY <3>1, <3>2
    <2>2. CASE WaitCount(t)
      <3>1. CASE Go(t, "released", "waiting") /\ count' = count + 1 /\ UNCHANGED condValue
        <4>1. t \notin W /\ W' = W \cup {t} /\ B' = B
          BY <1>0, <3>1 DEF Go, Waiting, Broadcasting
        <4> QED
          BY <1>0, <3>1, <4>1
      <3>2. CASE Go(t, "released", "reacquire") /\ count' = count + 1 /\ condValue' = condValue - 1
        <4>1. W' = W /\ B' = B
          BY <1>0, <3>2 DEF Go, Waiting, Broadcasting
        <4> QED
          BY <1>0, <3>2, <4>1
      <3> QED
        BY <2>2, <3>1, <3>2 DEF WaitCount
    <2>3. CASE WaitP(t)
      <3>1. t \in W /\ W' = W \ {t} /\ B' = B
        BY <1>0, <2>3 DEF WaitP, Go, Waiting, Broadcasting
      <3> QED
        BY <1>0, <2>3, <3>1 DEF WaitP
    <2>4. CASE Signal(t)
      <3>1. W' = W /\ B' = B
        BY <2>4 DEF Signal, Waiting, Broadcasting
      <3> QED
        BY <1>0, <2>4, <3>1 DEF Signal
    <2>5. CASE BroadcastV(t)
      <3>1. t \notin B /\ B' = B \cup {t} /\ W' = W
        BY <1>0, <2>5 DEF BroadcastV, Go, Waiting, Broadcasting
      <3> QED
        BY <1>0, <2>5, <3>1 DEF BroadcastV
    <2>6. CASE BroadcastLoop(t)
      <3>1. CASE Go(t, "broadcast", "in") /\ count' = count - 1 /\ UNCHANGED condValue
        <4>1. t \in B /\ B' = B \ {t} /\ W' = W
          BY <1>0, <3>1 DEF Go, Waiting, Broadcasting
        <4> QED
          BY <1>0, <3>1, <4>1
      <3>2. CASE /\ Go(t, "broadcast", "broadcast")
                 /\ count' = count - 1 /\ condValue' = condValue + 1
        <4>1. W' = W /\ B' = B
          BY <1>0, <3>2 DEF Go, Waiting, Broadcasting
        <4> QED
          BY <1>0, <3>2, <4>1
      <3> QED
        BY <2>6, <3>1, <3>2 DEF BroadcastLoop
    <2> QED
      BY <2>1, <2>2, <2>3, <2>4, <2>5, <2>6 DEF CondStep
  <1>2. PICK Wn, Bn : Wn = W' /\ Bn = B'
    OBVIOUS
  <1> HIDE DEF W, B
  <1>3. /\ IsFiniteSet(Wn) /\ Cardinality(W) \in Nat /\ Cardinality(Wn) \in Nat
        /\ Wn = W => Cardinality(Wn) = Cardinality(W)
        /\ t \notin W /\ Wn = W \cup {t} => Cardinality(Wn) = Cardinality(W) + 1
        /\ t \in W /\ Wn = W \ {t} => Cardinality(Wn) = Cardinality(W) - 1
    BY <1>0, <1>1, <1>2, OneThreadCount
  <1>4. /\ IsFiniteSet(Bn) /\ Cardinality(B) \in Nat /\ Cardinality(Bn) \in Nat
        /\ Bn = B => Cardinality(Bn) = Cardinality(B)
        /\ t \notin B /\ Bn = B \cup {t} => Cardinality(Bn) = Cardinality(B) + 1
        /\ t \in B /\ Bn = B \ {t} => Cardinality(Bn) = Cardinality(B) - 1
    BY <1>0, <1>1, <1>2, OneThreadCount
  <1>5. count' + condValue' = Cardinality(Wn) + Cardinality(Bn)
    BY <1>0, <1>1, <1>2, <1>3, <1>4
  <1> QED
    BY <1>2, <1>3, <1>4, <1>5 DEF CountFinite, CountExact, W, B

\* Every step keeps the whole invariant.
LEMMA NextSem == SemInv /\ [SemNext]_semVars => SemInv'
  <1> SUFFICES ASSUME SemInv, [SemNext]_semVars PROVE SemInv'
    OBVIOUS
  <1>1. CASE UNCHANGED semVars
    BY <1>1 DEF SemInv, SemTypeOK, LockToken, Holders, CountFinite, CountExact,
                Waiting, Broadcasting, semVars
  <1>2. CASE SemNext
    <2>1. PICK t \in Thread : LockStep(t) \/ CondStep(t)
      BY <1>2 DEF SemNext, LockStep, CondStep
    <2> QED
      BY <2>1, NextSemType, NextLockToken, NextCountExact DEF SemInv
  <1> QED
    BY <1>1, <1>2

\* The constructors' state.
LEMMA InitSem == SemInit => SemInv
  <1> SUFFICES ASSUME SemInit PROVE SemInv
    OBVIOUS
  <1>1. Waiting = {} /\ Broadcasting = {} /\ Holders = {}
    BY DEF SemInit, Waiting, Broadcasting, Holders
  <1>2. SemTypeOK
    BY DEF SemInit, SemTypeOK, Place
  <1>3. LockToken
    BY <1>1 DEF SemInit, LockToken
  <1>4. CountFinite /\ CountExact
    BY <1>1, FS_EmptySet DEF SemInit, CountFinite, CountExact
  <1> QED
    BY <1>1, <1>2, <1>3, <1>4 DEF SemInv

\* At most one Broadcast is under way, and none while another thread holds the lock.
LEMMA OneBroadcast ==
    ASSUME SemInv
    PROVE  /\ Cardinality(Broadcasting) \in {0, 1}
           /\ Cardinality(Broadcasting) = 1 => count > 0
           /\ \A t \in Thread : at[t] = "in" => Cardinality(Broadcasting) = 0
  <1>1. \A t, u \in Thread : at[t] \in {"in", "broadcast"} /\ at[u] = "broadcast" => t = u
    BY DEF SemInv, LockToken, Holders
  <1>2. CASE Broadcasting = {}
    BY <1>2, FS_EmptySet
  <1>3. CASE Broadcasting # {}
    <2>1. PICK b \in Thread : at[b] = "broadcast"
      BY <1>3 DEF Broadcasting
    <2>2. Broadcasting = {b}
      BY <1>1, <2>1 DEF Broadcasting
    <2>3. Cardinality(Broadcasting) = 1
      BY <2>2, FS_Singleton
    <2>4. \A t \in Thread : at[t] # "in"
      BY <1>1, <2>1
    <2> QED
      BY <1>3, <2>3, <2>4 DEF SemInv
  <1> QED
    BY <1>2, <1>3

(***************************************************************************)
(* The lock made of a semaphore has one holder, whom lockOwner names       *)
(* whenever it may call Release, Wait, Signal or Broadcast.  Whoever may   *)
(* call Signal and finds count zero knows that every thread asleep in P()  *)
(* has its wake-up posted, and no more wake-ups are posted than threads    *)
(* sleep.  For every set of threads.                                       *)
(***************************************************************************)
THEOREM SemMonitorCorrect == SemSpec => []WakeUpsExact
  <1>1. ASSUME SemInv PROVE WakeUpsExact
    <2> DEFINE w == Cardinality(Waiting)
               b == Cardinality(Broadcasting)
    <2>1. /\ SemTypeOK /\ LockToken
          /\ count \in Nat /\ condValue \in Nat /\ w \in Nat
          /\ count + condValue = w + b
      BY <1>1, FS_CardinalityType DEF SemInv, SemTypeOK, CountFinite, CountExact
    <2>2. /\ b \in {0, 1} /\ (b = 1 => count > 0)
          /\ \A t \in Thread : at[t] = "in" => b = 0
      BY <1>1, OneBroadcast
    <2> HIDE DEF w, b
    <2>3. condValue <= w
      BY <2>1, <2>2
    <2>4. ASSUME NEW t \in Thread, at[t] = "in", count = 0 PROVE condValue = w
      BY <2>1, <2>2, <2>4
    <2> QED
      BY <2>1, <2>3, <2>4 DEF WakeUpsExact, SleepersReached, NoneLeftOver, w
  <1> QED
    BY <1>1, InitSem, NextSem, PTL DEF SemSpec

-----------------------------------------------------------------------------
(***************************************************************************)
(* ContextSwitch.  A thread that is not running is in one of two states:   *)
(* SWITCH has saved it, or StackAllocate has prepared it and it has never  *)
(* run.  SwitchInv says for each what its Thread object and its stack      *)
(* hold, and for the running thread what its registers hold, in C code and *)
(* between two calls of ThreadRoot.                                        *)
(***************************************************************************)

SwitchSpec == SwitchInit /\ [][SwitchNext]_switchVars

MemoryWords ==
    {Object(t, 4 * n) : t \in KThread, n \in 0..18}
        \cup {StackWord(t, n) : t \in KThread, n \in 0..(WordsOfStack - 1)} \cup {eax_save}

Script(t) == << <<InterruptEnable, Junk>>, <<Func, arg(t)>>, <<ThreadFinish, Junk>> >>

\* How many calls ThreadRoot has made, and where it goes on after each.
Steps(t) == Len(calls[t])
RootAt(p) ==
    Code("ThreadRoot", IF arch = "i386" THEN <<0, 4, 5, 6>>[p + 1] ELSE <<0, 1, 3, 4>>[p + 1])

\* A thread in C code, and on the i386 where its stack pointer is then.
InC(t) == t = Main \/ Steps(t) \in {2, 3}
CallDepth(t) == IF t = Main THEN WordsOfStack - 1 ELSE WordsOfStack - 7

SwitchTypeOK ==
    /\ arch \in {"MIPS", "SNAKE", "i386"}
    /\ DOMAIN cpu = Registers /\ DOMAIN memory = MemoryWords
    /\ current \in made /\ Main \in made /\ made \subseteq KThread
    /\ DOMAIN owed = KThread /\ DOMAIN frame = KThread /\ DOMAIN calls = KThread
    /\ DOMAIN userRegisters = KThread /\ DOMAIN owedUser = KThread
    /\ \A t \in KThread : DOMAIN frame[t] = Registers

CallsExact ==
    \A t \in KThread :
        /\ Steps(t) \in 0..3 /\ calls[t] = SubSeq(Script(t), 1, Steps(t))
        /\ t \notin made \/ t = Main => Steps(t) = 0
        /\ t # current => Steps(t) # 1

\* What ThreadRoot relies on after p calls.
RootState(p) ==
    /\ p = 0 => cpu[StartupPC[arch]] = InterruptEnable
    /\ p \in {0, 1} => cpu[InitialPC[arch]] = Func
    /\ p = 0 \/ (p = 1 /\ arch # "i386") => cpu[InitialArg[arch]] = arg(current)
    /\ cpu[WhenDonePC[arch]] = ThreadFinish
    /\ arch = "i386" =>
        /\ cpu["sp"] = StackWord(current, WordsOfStack - (IF p = 0 THEN 4 ELSE 6))
        /\ p = 1 => memory[StackWord(current, WordsOfStack - 6)] = arg(current)

RunningExact ==
    IF pc = InRun
    THEN /\ InC(current)
         /\ \A r \in CalleeSaved : cpu[r] = owed[current][r]
         /\ arch = "i386" => cpu["sp"] = StackWord(current, CallDepth(current))
    ELSE /\ current # Main /\ Steps(current) \in 0..2
         /\ pc = RootAt(Steps(current))
         /\ RootState(Steps(current))

\* A thread that SWITCH has saved.
SavedExact(t) ==
    /\ \A r \in CalleeSaved \ {"sp"} : memory[Object(t, Offset(r))] = owed[t][r]
    /\ IF arch = "i386"
       THEN /\ owed[t]["sp"] = StackWord(t, CallDepth(t))
            /\ memory[Object(t, 0)] = StackWord(t, CallDepth(t) - 3)
            /\ memory[StackWord(t, CallDepth(t) - 3)] = InRun
       ELSE /\ memory[Object(t, 0)] = owed[t]["sp"]
            /\ memory[Object(t, Offset(ReturnTo[arch]))] = InRun

\* A thread that StackAllocate has prepared and that has not run yet.
FreshExact(t) ==
    /\ memory[Object(t, Offset(StartupPC[arch]))] = InterruptEnable
    /\ memory[Object(t, Offset(InitialPC[arch]))] = Func
    /\ memory[Object(t, Offset(InitialArg[arch]))] = arg(t)
    /\ memory[Object(t, Offset(WhenDonePC[arch]))] = ThreadFinish
    /\ IF arch = "i386"
       THEN /\ memory[Object(t, 0)] = StackWord(t, WordsOfStack - 5)
            /\ memory[StackWord(t, WordsOfStack - 5)] = RootAt(0)
       ELSE memory[Object(t, Offset(ReturnTo[arch]))] = RootAt(0)

OthersExact ==
    \A t \in made \ {current} : IF InC(t) THEN SavedExact(t) ELSE FreshExact(t)

\* What the thread's function returns to.
FrameExact(t) ==
    /\ frame[t][WhenDonePC[arch]] = ThreadFinish
    /\ IF arch = "i386"
       THEN frame[t]["sp"] = StackWord(t, WordsOfStack - 7) /\ memory[StackWord(t, WordsOfStack - 7)] = RootAt(2)
       ELSE frame[t][ReturnTo[arch]] = RootAt(2)

FramesExact ==
    \A t \in made : Steps(t) = 2 /\ (t = current => pc = InRun) => FrameExact(t)

FencesIntact == \A t \in made \ {Main} : memory[FenceWord(t)] = Fencepost

UserExact ==
    /\ \A t \in space : t \in made /\ (t = Main \/ Steps(t) = 2)
    /\ \A t \in space \ {current} : userRegisters[t] = owedUser[t]
    /\ current \in space => pc = InRun /\ userCpu = owedUser[current] /\ loadedTable = current

KernelInv ==
    /\ SwitchTypeOK /\ CallsExact /\ RunningExact /\ OthersExact /\ FramesExact /\ FencesIntact
SwitchInv == KernelInv /\ UserExact

-----------------------------------------------------------------------------
(* Instructions.                                                           *)

\* A set of natural numbers has a least element.
LEMMA LeastOf ==
    ASSUME NEW T \in SUBSET Nat, T # {}
    PROVE  \E x \in T : \A y \in T : x <= y
  <1>1. PICK r : r = OpToRel(<, Nat)
    OBVIOUS
  <1>2. IsWellFoundedOn(r, Nat)
    BY <1>1, NatLessThanWellFounded, Zenon
  <1>3. PICK x \in T : \A y \in T : ~(<<y, x>> \in r)
    BY <1>2, WFMin
  <1>4. \A y \in Nat, z \in Nat : y < z => <<y, z>> \in r
    <2>1. r = {ss \in Nat \X Nat : ss[1] < ss[2]}
      BY <1>1, Zenon DEF OpToRel
    <2> QED
      BY <2>1
  <1>5. x \in Nat /\ \A y \in T : y \in Nat /\ ~(y < x)
    BY <1>3, <1>4
  <1> QED
    BY <1>3, <1>5

\* Running a list of instructions is doing one after the other.
LEMMA RunSteps ==
    ASSUME NEW m, NEW code, Len(code) \in Nat
    PROVE  \E run : /\ run[0] = m
                    /\ \A n \in 1..Len(code) : run[n] = Do(run[n - 1], code[n])
                    /\ RunCode(m, code) = run[Len(code)]
  <1> DEFINE Is(g, n) == g = [k \in 0..n |-> IF k = 0 THEN m ELSE Do(g[k - 1], code[k])]
             T == {n \in 0..Len(code) : ~\E g : Is(g, n)}
  <1>1. T = {}
    <2> SUFFICES ASSUME T # {} PROVE FALSE
      OBVIOUS
    <2>1. PICK n \in T : \A k \in T : n <= k
      <3>1. T \in SUBSET Nat
        OBVIOUS
      <3> HIDE DEF T
      <3> QED
        BY <3>1, LeastOf
    <2>2. CASE n = 0
      <3> DEFINE g == [k \in 0..0 |-> m]
      <3>1. Is(g, 0)
        <4>1. [k \in 0..0 |-> IF k = 0 THEN m ELSE Do(g[k - 1], code[k])] = g
          OBVIOUS
        <4> QED
          BY <4>1
      <3> HIDE DEF Is, g
      <3> QED
        BY <2>2, <3>1
    <2>3. CASE n # 0
      <3>1. n \in 1..Len(code) /\ n - 1 \in 0..Len(code) /\ n - 1 \notin T
        <4>1. n \in 0..Len(code)
          OBVIOUS
        <4> HIDE DEF T
        <4> QED
          BY <2>1, <2>3, <4>1
      <3>2. PICK f : Is(f, n - 1)
        <4> HIDE DEF Is
        <4> QED
          BY <3>1
      <3> DEFINE g == [k \in 0..n |-> IF k = n THEN Do(f[n - 1], code[n]) ELSE f[k]]
      <3>3. \A k \in 0..(n - 1) : f[k] = IF k = 0 THEN m ELSE Do(f[k - 1], code[k])
        BY <3>2
      <3>4. \A k \in 0..n : g[k] = IF k = 0 THEN m ELSE Do(g[k - 1], code[k])
        <4> SUFFICES ASSUME NEW k \in 0..n PROVE g[k] = IF k = 0 THEN m ELSE Do(g[k - 1], code[k])
          OBVIOUS
        <4>1. CASE k = n
          BY <2>3, <4>1
        <4>2. CASE k # n
          BY <3>3, <4>2
        <4> QED
          BY <4>1, <4>2
      <3>5. Is(g, n)
        <4> DEFINE h == [k \in 0..n |-> IF k = 0 THEN m ELSE Do(g[k - 1], code[k])]
        <4>1. DOMAIN g = 0..n /\ DOMAIN h = 0..n /\ \A k \in 0..n : g[k] = h[k]
          BY <3>4
        <4>2. g = [k \in 0..n |-> g[k]] /\ h = [k \in 0..n |-> h[k]]
          OBVIOUS
        <4>3. g = h
          <5> HIDE DEF g, h
          <5> QED
            BY <4>1, <4>2
        <4> QED
          BY <4>3
      <3> HIDE DEF Is, g
      <3> QED
        BY <2>1, <3>5
    <2> QED
      BY <2>2, <2>3
  <1> DEFINE after == CHOOSE g : Is(g, Len(code))
  <1>2. Is(after, Len(code))
    <2>1. \E g : Is(g, Len(code))
      BY <1>1
    <2> HIDE DEF Is
    <2> QED
      BY <2>1
  <1>3. RunCode(m, code) = after[Len(code)]
    BY DEF RunCode
  <1> HIDE DEF after
  <1>4. /\ after[0] = m
        /\ \A n \in 1..Len(code) : after[n] = Do(after[n - 1], code[n])
    BY <1>2
  <1> QED
    BY <1>3, <1>4

Where(c, base, offset) == IF base = "eax_save" THEN eax_save ELSE Plus(c[base], offset)

\* What each instruction does to registers c and memory w.
LEMMA DoPut ==
    ASSUME NEW c, NEW w, NEW r, NEW base, NEW offset
    PROVE  Do([cpu |-> c, memory |-> w], Put(r, base, offset))
             = [cpu |-> c, memory |-> [w EXCEPT ![Where(c, base, offset)] = c[r]]]
  BY DEF Do, Put, Where, Address

LEMMA DoPush ==
    ASSUME NEW c, NEW w, NEW r
    PROVE  Do([cpu |-> c, memory |-> w], Push(r))
             = [cpu |-> [c EXCEPT !["sp"] = Minus4(@)],
                memory |-> [w EXCEPT ![Minus4(c["sp"])] = c[r]]]
  BY DEF Do, Push

-----------------------------------------------------------------------------
(* Pointers and slots.                                                     *)

LEMMA Pointers ==
    ASSUME NEW t, NEW u, NEW n \in Int, NEW k \in Int
    PROVE  /\ Minus4(StackWord(t, n)) = StackWord(t, n - 1)
           /\ Plus(StackWord(t, n), 4 * k) = StackWord(t, n + k)
           /\ Plus(Object(t, 0), k) = Object(t, k)
           /\ StackWord(t, n) = StackWord(u, k) <=> t = u /\ n = k
           /\ Object(t, n) = Object(u, k) <=> t = u /\ n = k
           /\ StackWord(t, n) # Object(u, k)
           /\ StackWord(t, n) # eax_save /\ Object(t, n) # eax_save
  BY DEF Minus4, Plus, StackWord, Object, eax_save

LEMMA WordsThere ==
    /\ \A t \in KThread, n \in 0..18 : Object(t, 4 * n) \in MemoryWords
    /\ \A t \in KThread, n \in 0..(WordsOfStack - 1) : StackWord(t, n) \in MemoryWords
    /\ eax_save \in MemoryWords
  <1>1. ASSUME NEW t \in KThread, NEW n \in 0..18 PROVE Object(t, 4 * n) \in MemoryWords
    BY DEF MemoryWords
  <1>2. ASSUME NEW t \in KThread, NEW n \in 0..(WordsOfStack - 1) PROVE StackWord(t, n) \in MemoryWords
    BY DEF MemoryWords
  <1>3. eax_save \in MemoryWords
    BY DEF MemoryWords
  <1> QED
    BY <1>1, <1>2, <1>3

\* The offsets of threads/switch.h.
LEMMA SlotOffsets ==
    ASSUME arch \in {"MIPS", "SNAKE", "i386"}, NEW k \in DOMAIN Slots[arch]
    PROVE  /\ Offset(Slots[arch][k]) = 4 * (k - 1)
           /\ \A j \in DOMAIN Slots[arch] : Slots[arch][j] = Slots[arch][k] => j = k
  <1>1. \A i, j \in DOMAIN Slots[arch] : Slots[arch][i] = Slots[arch][j] => i = j
    <2>1. CASE arch = "MIPS"
      BY <2>1 DEF Slots
    <2>2. CASE arch = "SNAKE"
      BY <2>2 DEF Slots
    <2>3. CASE arch = "i386"
      BY <2>3 DEF Slots
    <2> QED
      BY <2>1, <2>2, <2>3
  <1>2. (CHOOSE j \in DOMAIN Slots[arch] : Slots[arch][j] = Slots[arch][k]) = k
    BY <1>1
  <1>3. DOMAIN Slots[arch] \subseteq Nat
    BY DEF Slots
  <1> QED
    BY <1>1, <1>2, <1>3 DEF Offset

\* The two hosts with a register for the return address.
LEMMA SlotsRisc ==
    ASSUME arch \in {"MIPS", "SNAKE"}
    PROVE  /\ Len(Slots[arch]) \in 11..18 /\ DOMAIN Slots[arch] = 1..Len(Slots[arch])
           /\ Slots[arch][1] = "sp"
           /\ \A k \in DOMAIN Slots[arch] : Slots[arch][k] \in Registers
           /\ \A k \in DOMAIN Slots[arch] : Slots[arch][k] \notin {Argument[arch], Second[arch], "eax_save"}
           /\ {Argument[arch], Second[arch]} \subseteq Registers
           /\ Argument[arch] # Second[arch] /\ Argument[arch] # "eax_save" /\ Second[arch] # "eax_save"
           /\ Slots[arch][Len(Slots[arch])] = ReturnTo[arch]
           /\ \A r \in CalleeSaved : \E k \in 1..(Len(Slots[arch]) - 1) : r = Slots[arch][k]
           /\ \A k \in 1..(Len(Slots[arch]) - 1) : Slots[arch][k] \in CalleeSaved
           /\ ReturnTo[arch] \notin CalleeSaved
  <1>1. CASE arch = "MIPS"
    BY <1>1 DEF Slots, Registers, Argument, Second, ReturnTo, CalleeSaved, ToSet
  <1>2. CASE arch = "SNAKE"
    BY <1>2 DEF Slots, Registers, Argument, Second, ReturnTo, CalleeSaved, ToSet
  <1> QED
    BY <1>1, <1>2

\* SWITCH of MIPS and SNAKE: every slot of t is saved and then loaded from u.
LEMMA SwitchRisc ==
    ASSUME arch \in {"MIPS", "SNAKE"}, NEW c, NEW w, NEW t \in KThread, NEW u \in KThread, t # u,
           DOMAIN c = Registers, DOMAIN w = MemoryWords,
           c[Argument[arch]] = Object(t, 0), c[Second[arch]] = Object(u, 0)
    PROVE  LET S == Slots[arch]
               m == RunCode([cpu |-> c, memory |-> w], SWITCH)
           IN  /\ DOMAIN m.cpu = Registers /\ DOMAIN m.memory = MemoryWords
               /\ \A k \in DOMAIN S : m.memory[Object(t, 4 * (k - 1))] = c[S[k]]
               /\ \A a \in MemoryWords : (\A k \in DOMAIN S : a # Object(t, 4 * (k - 1))) => m.memory[a] = w[a]
               /\ \A k \in DOMAIN S : m.cpu[S[k]] = w[Object(u, 4 * (k - 1))]
  <1> DEFINE S == Slots[arch]
             L == Len(S)
             A == Argument[arch]
             B == Second[arch]
             code == SaveAll(A) \o LoadAll(B)
             slot(x, k) == Object(x, 4 * (k - 1))
  <1>1. /\ L \in 11..18 /\ DOMAIN S = 1..L
        /\ \A k \in 1..L : S[k] \in Registers /\ S[k] \notin {A, B, "eax_save"}
        /\ A # "eax_save" /\ B # "eax_save"
    BY SlotsRisc
  <1>2. \A k \in 1..L, j \in 1..L : S[k] = S[j] => k = j
    BY <1>1, SlotOffsets
  <1>4. /\ SWITCH = code /\ Len(code) = 2 * L
        /\ \A k \in 1..L : code[k] = Put(S[k], A, 4 * (k - 1)) /\ code[L + k] = Get(S[k], B, 4 * (k - 1))
    <2>1. SWITCH = code
      BY DEF SWITCH
    <2>2. \E I : SaveAll(A) \in Seq(I) /\ LoadAll(B) \in Seq(I)
      <3> DEFINE I == {SaveAll(A)[k] : k \in 1..L} \cup {LoadAll(B)[k] : k \in 1..L}
      <3>1. \A k \in 1..L : SaveAll(A)[k] \in I /\ LoadAll(B)[k] \in I
        OBVIOUS
      <3>2. SaveAll(A) = [k \in 1..L |-> SaveAll(A)[k]] /\ LoadAll(B) = [k \in 1..L |-> LoadAll(B)[k]]
        BY <1>1 DEF SaveAll, LoadAll
      <3> HIDE DEF I
      <3>3. L \in Nat
        BY <1>1
      <3>4. [k \in 1..L |-> SaveAll(A)[k]] \in Seq(I) /\ [k \in 1..L |-> LoadAll(B)[k]] \in Seq(I)
        <4> HIDE DEF L, S, A, B
        <4> QED
          BY <3>1, <3>3, IsASeq
      <3> QED
        BY <3>2, <3>4, Zenon
    <2>3. /\ Len(SaveAll(A)) = L /\ Len(LoadAll(B)) = L
      BY <1>1 DEF SaveAll, LoadAll
    <2>4. \A k \in 1..L : SaveAll(A)[k] = Put(S[k], A, 4 * (k - 1)) /\ LoadAll(B)[k] = Get(S[k], B, 4 * (k - 1))
      BY <1>1 DEF SaveAll, LoadAll
    <2>5. /\ Len(code) = 2 * L
          /\ \A k \in 1..L : code[k] = SaveAll(A)[k] /\ code[L + k] = LoadAll(B)[k]
      <3> DEFINE saves == SaveAll(A)
                 loads == LoadAll(B)
      <3>1. L \in Nat /\ Len(saves) = L /\ Len(loads) = L
        BY <1>1, <2>3
      <3>2. PICK I : saves \in Seq(I) /\ loads \in Seq(I)
        BY <2>2
      <3> HIDE DEF saves, loads, L
      <3>3. Len(saves \o loads) = 2 * L
        BY <3>1, <3>2
      <3>4. \A k \in 1..L : (saves \o loads)[k] = saves[k] /\ (saves \o loads)[L + k] = loads[k]
        BY <3>1, <3>2
      <3> QED
        BY <3>3, <3>4 DEF saves, loads
    <2> HIDE DEF S, L, A, B, code
    <2> QED
      BY <2>1, <2>4, <2>5, Zenon
  <1>0. c[A] = Object(t, 0) /\ c[B] = Object(u, 0)
    OBVIOUS
  <1> HIDE DEF S, L, A, B
  <1>3. \A k \in 1..L, j \in 1..L, x \in KThread, y \in KThread :
            /\ slot(x, k) \in MemoryWords
            /\ slot(x, k) = slot(y, j) <=> x = y /\ k = j
    <2> SUFFICES ASSUME NEW k \in 1..L, NEW j \in 1..L, NEW x \in KThread, NEW y \in KThread
                 PROVE  /\ slot(x, k) \in MemoryWords
                        /\ slot(x, k) = slot(y, j) <=> x = y /\ k = j
      OBVIOUS
    <2>1. k - 1 \in 0..18 /\ 4 * (k - 1) \in Int /\ 4 * (j - 1) \in Int
      BY <1>1
    <2>2. slot(x, k) \in MemoryWords
      BY <2>1, WordsThere
    <2>3. slot(x, k) = slot(y, j) <=> x = y /\ 4 * (k - 1) = 4 * (j - 1)
      BY <2>1 DEF Object
    <2> QED
      BY <1>1, <2>2, <2>3
  <1>5. PICK run :
            /\ run[0] = [cpu |-> c, memory |-> w]
            /\ \A n \in 1..(2 * L) : run[n] = Do(run[n - 1], code[n])
            /\ RunCode([cpu |-> c, memory |-> w], SWITCH) = run[2 * L]
    <2>1. Len(code) \in Nat
      BY <1>1, <1>4
    <2> DEFINE m0 == [cpu |-> c, memory |-> w]
    <2> HIDE DEF code, m0
    <2>2. PICK run : /\ run[0] = m0
                     /\ \A n \in 1..Len(code) : run[n] = Do(run[n - 1], code[n])
                     /\ RunCode(m0, code) = run[Len(code)]
      BY <2>1, RunSteps
    <2> QED
      BY <1>4, <2>2 DEF m0
  <1> HIDE DEF code
  <1> DEFINE Saving(n) ==
                /\ run[n] = [cpu |-> c, memory |-> run[n].memory]
                /\ DOMAIN run[n].memory = MemoryWords
                /\ \A k \in 1..n : run[n].memory[slot(t, k)] = c[S[k]]
                /\ \A a \in MemoryWords : (\A k \in 1..n : a # slot(t, k)) => run[n].memory[a] = w[a]
             Loading(n) ==
                /\ run[L + n] = [cpu |-> run[L + n].cpu, memory |-> run[L].memory]
                /\ DOMAIN run[L + n].cpu = Registers
                /\ \A k \in 1..n : run[L + n].cpu[S[k]] = run[L].memory[slot(u, k)]
                /\ run[L + n].cpu[B] = Object(u, 0)
  <1>6. Saving(L)
    <2> DEFINE T == {n \in 0..L : ~Saving(n)}
    <2>1. T = {}
      <3> SUFFICES ASSUME T # {} PROVE FALSE
        OBVIOUS
      <3>1. PICK n \in T : \A k \in T : n <= k
        <4>1. T \in SUBSET Nat
          BY <1>1
        <4> HIDE DEF T
        <4> QED
          BY <4>1, LeastOf
      <3>2. n \in 0..L /\ ~Saving(n)
        OBVIOUS
      <3>3. n # 0
        BY <3>2, <1>5
      <3>4. Saving(n - 1) /\ n - 1 \in 0..L /\ n \in 1..L
        BY <1>1, <3>1, <3>2, <3>3
      <3> DEFINE v == run[n - 1].memory
      <3>5. run[n] = [cpu |-> c, memory |-> [v EXCEPT ![slot(t, n)] = c[S[n]]]]
        <4>1. n \in 1..(2 * L)
          BY <3>4, <1>1
        <4>2. run[n] = Do([cpu |-> c, memory |-> v], Put(S[n], A, 4 * (n - 1)))
          BY <1>4, <1>5, <3>4, <4>1
        <4>3. Where(c, A, 4 * (n - 1)) = slot(t, n)
          <5>1. 4 * (n - 1) \in Int
            BY <3>4, <1>1
          <5>2. Plus(Object(t, 0), 4 * (n - 1)) = slot(t, n)
            BY <5>1 DEF Plus, Object
          <5> QED
            BY <1>1, <5>2 DEF Where, A
        <4>4. Do([cpu |-> c, memory |-> v], Put(S[n], A, 4 * (n - 1)))
                = [cpu |-> c, memory |-> [v EXCEPT ![Where(c, A, 4 * (n - 1))] = c[S[n]]]]
          BY DoPut
        <4> HIDE DEF v, slot
        <4> QED
          BY <4>2, <4>3, <4>4, Zenon
      <3>6. DOMAIN v = MemoryWords /\ slot(t, n) \in MemoryWords
        BY <1>3, <3>4
      <3>7. \A k \in 1..(n - 1) : slot(t, k) # slot(t, n) /\ slot(t, k) \in MemoryWords
        <4>1. \A k \in 1..(n - 1) : k \in 1..L /\ k # n
          BY <1>1, <3>4
        <4> HIDE DEF slot
        <4> QED
          BY <1>3, <3>4, <4>1
      <3> DEFINE v2 == run[n].memory
      <3>8. /\ DOMAIN v2 = MemoryWords /\ v2[slot(t, n)] = c[S[n]]
            /\ \A a \in MemoryWords : a # slot(t, n) => v2[a] = v[a]
            /\ run[n] = [cpu |-> c, memory |-> v2]
        BY <3>5, <3>6
      <3> HIDE DEF slot
      <3>9. /\ \A k \in 1..(n - 1) : v[slot(t, k)] = c[S[k]]
            /\ \A a \in MemoryWords : (\A k \in 1..(n - 1) : a # slot(t, k)) => v[a] = w[a]
        BY <3>4
      <3> HIDE DEF v, v2
      <3>10. \A k \in 1..n : v2[slot(t, k)] = c[S[k]]
        BY <3>4, <3>7, <3>8, <3>9
      <3>11. \A a \in MemoryWords : (\A k \in 1..n : a # slot(t, k)) => v2[a] = w[a]
        BY <3>4, <3>8, <3>9
      <3> QED
        BY <3>2, <3>8, <3>10, <3>11 DEF v2
    <2>2. L \in 0..L
      BY <1>1
    <2> HIDE DEF Saving
    <2> QED
      BY <2>1, <2>2
  <1> DEFINE saved == run[L].memory
  <1>7. Loading(L)
    <2> DEFINE T == {n \in 0..L : ~Loading(n)}
    <2>1. T = {}
      <3> SUFFICES ASSUME T # {} PROVE FALSE
        OBVIOUS
      <3>1. PICK n \in T : \A k \in T : n <= k
        <4>1. T \in SUBSET Nat
          BY <1>1
        <4> HIDE DEF T
        <4> QED
          BY <4>1, LeastOf
      <3>2. n \in 0..L /\ ~Loading(n)
        OBVIOUS
      <3>3. n # 0
        <4>1. L + 0 = L
          BY <1>1
        <4>2. run[L] = [cpu |-> c, memory |-> run[L].memory]
          BY <1>6
        <4>3. run[L].cpu = c
          BY <4>2
        <4>4. Loading(0)
          BY <1>0, <4>1, <4>2, <4>3
        <4> QED
          BY <3>2, <4>4
      <3>4. Loading(n - 1) /\ n - 1 \in 0..L /\ n \in 1..L
        <4>1. n - 1 \in 0..L /\ n \in 1..L /\ ~(n <= n - 1)
          BY <1>1, <3>2, <3>3
        <4> HIDE DEF Loading
        <4> QED
          BY <3>1, <4>1
      <3> DEFINE d == run[L + (n - 1)].cpu
      <3>5. run[L + n] = [cpu |-> [d EXCEPT ![S[n]] = saved[slot(u, n)]], memory |-> saved]
        <4>1. L + n \in 1..(2 * L) /\ (L + n) - 1 = L + (n - 1)
          BY <3>4, <1>1
        <4>2. run[L + n] = Do(run[L + (n - 1)], Get(S[n], B, 4 * (n - 1)))
          BY <1>4, <1>5, <3>4, <4>1
        <4>3. run[L + n] = Do([cpu |-> d, memory |-> saved], Get(S[n], B, 4 * (n - 1)))
          BY <3>4, <4>2
        <4>4. Where(d, B, 4 * (n - 1)) = slot(u, n)
          <5>1. 4 * (n - 1) \in Int
            BY <3>4, <1>1
          <5>2. Plus(Object(u, 0), 4 * (n - 1)) = slot(u, n)
            BY <5>1 DEF Plus, Object
          <5> QED
            BY <1>1, <3>4, <5>2 DEF Where
        <4> HIDE DEF d, saved, slot
        <4>5. Do([cpu |-> d, memory |-> saved], Get(S[n], B, 4 * (n - 1)))
                = [cpu |-> [d EXCEPT ![S[n]] = saved[Where(d, B, 4 * (n - 1))]], memory |-> saved]
          BY DEF Do, Get, Where, Address
        <4> QED
          BY <4>3, <4>4, <4>5, Zenon
      <3> DEFINE d2 == run[L + n].cpu
      <3>6. DOMAIN d = Registers /\ S[n] \in Registers /\ B # S[n]
        BY <1>1, <3>4
      <3>7. /\ DOMAIN d2 = Registers /\ d2[S[n]] = saved[slot(u, n)]
            /\ \A r \in Registers : r # S[n] => d2[r] = d[r]
            /\ run[L + n] = [cpu |-> d2, memory |-> saved]
        BY <3>5, <3>6
      <3>8. \A k \in 1..(n - 1) : S[k] # S[n] /\ S[k] \in Registers
        BY <1>1, <1>2, <3>4
      <3>9. /\ \A k \in 1..(n - 1) : d[S[k]] = saved[slot(u, k)]
            /\ d[B] = Object(u, 0)
        BY <3>4
      <3>10. B \in Registers
        BY SlotsRisc DEF B
      <3> HIDE DEF d, d2, slot, saved
      <3>11. \A k \in 1..n : d2[S[k]] = saved[slot(u, k)]
        BY <3>4, <3>7, <3>8, <3>9
      <3>12. d2[B] = Object(u, 0)
        BY <3>6, <3>7, <3>9, <3>10
      <3> QED
        BY <3>2, <3>7, <3>11, <3>12 DEF d2, saved
    <2>2. L \in 0..L
      BY <1>1
    <2> HIDE DEF Loading
    <2> QED
      BY <2>1, <2>2
  <1>8. L + L = 2 * L
    BY <1>1
  <1>9. \A k \in 1..L : saved[slot(u, k)] = w[slot(u, k)]
    <2> HIDE DEF slot
    <2> QED
      BY <1>3, <1>6
  <1> DEFINE m == run[2 * L]
  <1>10. /\ DOMAIN m.cpu = Registers /\ DOMAIN m.memory = MemoryWords
         /\ \A k \in 1..L : m.memory[slot(t, k)] = c[S[k]]
         /\ \A a \in MemoryWords : (\A k \in 1..L : a # slot(t, k)) => m.memory[a] = w[a]
         /\ \A k \in 1..L : m.cpu[S[k]] = w[slot(u, k)]
    <2>1. m = [cpu |-> m.cpu, memory |-> saved] /\ m.memory = saved
      BY <1>7, <1>8
    <2>2. DOMAIN m.cpu = Registers /\ \A k \in 1..L : m.cpu[S[k]] = saved[slot(u, k)]
      BY <1>7, <1>8
    <2> HIDE DEF m, slot
    <2> QED
      BY <1>6, <1>9, <2>1, <2>2
  <1> HIDE DEF m, slot
  <1> QED
    BY <1>1, <1>5, <1>10 DEF m, slot, S, L

\* The offsets of the i386's slots.
LEMMA Offsets386 ==
    ASSUME arch = "i386"
    PROVE  /\ Offset("sp") = 0 /\ Offset("eax") = 4 /\ Offset("ebx") = 8 /\ Offset("ecx") = 12
           /\ Offset("edx") = 16 /\ Offset("ebp") = 20 /\ Offset("esi") = 24 /\ Offset("edi") = 28
           /\ Offset("pc") = 32
           /\ Registers = {"sp", "eax", "ebx", "ecx", "edx", "ebp", "esi", "edi", "pc", "none"}
           /\ CalleeSaved = {"sp", "ebx", "ebp", "esi", "edi"}
  BY DEF Offset, Slots, Registers, CalleeSaved, Argument, Second, ToSet

\* One step of a list that stores a register, and one that loads it.
LEMMA PutStep ==
    ASSUME NEW m, NEW n, NEW r, NEW base, NEW offset, NEW a,
           m = [cpu |-> m.cpu, memory |-> m.memory],
           a = Where(m.cpu, base, offset), a \in DOMAIN m.memory,
           n = Do(m, Put(r, base, offset))
    PROVE  /\ n = [cpu |-> n.cpu, memory |-> n.memory]
           /\ n.cpu = m.cpu /\ DOMAIN n.memory = DOMAIN m.memory
           /\ n.memory[a] = m.cpu[r]
           /\ \A b \in DOMAIN m.memory : b # a => n.memory[b] = m.memory[b]
  <1>1. n = [cpu |-> m.cpu, memory |-> [m.memory EXCEPT ![a] = m.cpu[r]]]
    BY DEF Do, Put, Where, Address
  <1> QED
    BY <1>1

LEMMA GetStep ==
    ASSUME NEW m, NEW n, NEW r, NEW base, NEW offset, NEW a,
           m = [cpu |-> m.cpu, memory |-> m.memory],
           a = Where(m.cpu, base, offset), r \in DOMAIN m.cpu,
           n = Do(m, Get(r, base, offset))
    PROVE  /\ n = [cpu |-> n.cpu, memory |-> n.memory]
           /\ n.memory = m.memory /\ DOMAIN n.cpu = DOMAIN m.cpu
           /\ n.cpu[r] = m.memory[a]
           /\ \A q \in DOMAIN m.cpu : q # r => n.cpu[q] = m.cpu[q]
  <1>1. n = [cpu |-> [m.cpu EXCEPT ![r] = m.memory[a]], memory |-> m.memory]
    BY DEF Do, Get, Where, Address
  <1> QED
    BY <1>1

(***************************************************************************)
(* SWITCH of the i386, called with t's Thread object and u's on t's stack: *)
(* what it saves of t, what it loads of u, and all that it writes.         *)
(***************************************************************************)
LEMMA Switch386 ==
    ASSUME arch = "i386", NEW c, NEW w, NEW t \in KThread, NEW u \in KThread, t # u,
           DOMAIN c = Registers, DOMAIN w = MemoryWords,
           NEW s \in 0..(WordsOfStack - 3), NEW v \in 0..(WordsOfStack - 2),
           c["sp"] = StackWord(t, s), w[StackWord(t, s)] = InRun,
           w[StackWord(t, s + 1)] = Object(t, 0), w[StackWord(t, s + 2)] = Object(u, 0),
           w[Object(u, 0)] = StackWord(u, v)
    PROVE  LET m == RunCode([cpu |-> c, memory |-> w], SWITCH)
           IN  /\ DOMAIN m.cpu = Registers /\ DOMAIN m.memory = MemoryWords
               /\ \A r \in CalleeSaved : m.memory[Object(t, Offset(r))] = c[r]
               /\ \A a \in MemoryWords :
                    a # eax_save /\ a # StackWord(u, v + 1) /\ (\A k \in 0..8 : a # Object(t, 4 * k))
                      => m.memory[a] = w[a]
               /\ \A r \in CalleeSaved \cup {"ecx", "edx"} : m.cpu[r] = w[Object(u, Offset(r))]
  <1> DEFINE Mine == {eax_save} \cup {Object(t, 4 * k) : k \in 0..8}
  <1>1. /\ WordsOfStack \in Nat /\ SWITCH = SwitchI386 /\ Len(SwitchI386) = 26
        /\ Registers = {"sp", "eax", "ebx", "ecx", "edx", "ebp", "esi", "edi", "pc", "none"}
    BY Offsets386, SwitchAssumption DEF SWITCH, SwitchI386
  <1>2. PICK run :
            /\ run[0] = [cpu |-> c, memory |-> w]
            /\ \A n \in 1..26 : run[n] = Do(run[n - 1], SwitchI386[n])
            /\ RunCode([cpu |-> c, memory |-> w], SWITCH) = run[26]
    <2> DEFINE m == [cpu |-> c, memory |-> w]
    <2>1. Len(SwitchI386) \in Nat
      BY <1>1
    <2> HIDE DEF m
    <2>2. PICK run : /\ run[0] = m
                     /\ \A n \in 1..Len(SwitchI386) : run[n] = Do(run[n - 1], SwitchI386[n])
                     /\ RunCode(m, SwitchI386) = run[Len(SwitchI386)]
      BY <2>1, RunSteps
    <2> QED
      BY <1>1, <2>2 DEF m
  <1>3. /\ \A k \in 0..8, j \in 0..8 :
              /\ Object(t, 4 * k) \in MemoryWords /\ Object(u, 4 * k) \in MemoryWords
              /\ Object(t, 4 * k) \in Mine /\ Object(u, 4 * k) \notin Mine
              /\ Object(t, 4 * k) = Object(t, 4 * j) => k = j
              /\ Object(t, 4 * k) # eax_save /\ Object(t, 4 * k) # StackWord(u, v + 1)
        /\ eax_save \in MemoryWords /\ eax_save \in Mine
        /\ \A k \in {s, s + 1, s + 2} : StackWord(t, k) \in MemoryWords \ Mine
        /\ StackWord(u, v + 1) \in MemoryWords \ Mine /\ StackWord(u, v + 1) # eax_save
    <2>1. \A x \in KThread, k \in 0..8 : Object(x, 4 * k) \in MemoryWords
      BY WordsThere
    <2>2. \A x \in KThread, k \in 0..8 : Object(x, 4 * k) \in Mine <=> x = t
      BY DEF Object, eax_save
    <2>3. \A k \in 0..8, j \in 0..8 : /\ Object(t, 4 * k) = Object(t, 4 * j) => k = j
                                      /\ Object(t, 4 * k) # eax_save
                                      /\ Object(t, 4 * k) # StackWord(u, v + 1)
      BY DEF Object, eax_save, StackWord
    <2>4. eax_save \in MemoryWords
      BY WordsThere
    <2>5. /\ \A k \in {s, s + 1, s + 2} : StackWord(t, k) \in MemoryWords
          /\ StackWord(u, v + 1) \in MemoryWords
      BY <1>1, WordsThere
    <2>6. /\ \A x \in KThread, k \in Int : StackWord(x, k) \notin Mine
          /\ StackWord(u, v + 1) # eax_save
      BY DEF StackWord, Object, eax_save
    <2>7. {s, s + 1, s + 2, v + 1} \subseteq Int
      BY <1>1
    <2> HIDE DEF Mine
    <2>8. ASSUME NEW k \in 0..8, NEW j \in 0..8
          PROVE  /\ Object(t, 4 * k) \in MemoryWords /\ Object(u, 4 * k) \in MemoryWords
                 /\ Object(t, 4 * k) \in Mine /\ Object(u, 4 * k) \notin Mine
                 /\ Object(t, 4 * k) = Object(t, 4 * j) => k = j
                 /\ Object(t, 4 * k) # eax_save /\ Object(t, 4 * k) # StackWord(u, v + 1)
      BY <2>1, <2>2, <2>3, Zenon
    <2>9. eax_save \in Mine
      BY DEF Mine
    <2>10. /\ \A k \in {s, s + 1, s + 2} : StackWord(t, k) \in MemoryWords \ Mine
           /\ StackWord(u, v + 1) \in MemoryWords \ Mine /\ StackWord(u, v + 1) # eax_save
      <3>1. \A k \in {s, s + 1, s + 2} : k \in Int
        BY <2>7
      <3>2. v + 1 \in Int
        BY <2>7
      <3> QED
        BY <2>5, <2>6, <3>1, <3>2, Zenon
    <2> QED
      BY <2>4, <2>8, <2>9, <2>10, Zenon
  <1>4. /\ \A a \in Int : Plus(Object(t, 0), a) = Object(t, a) /\ Plus(Object(u, 0), a) = Object(u, a)
        /\ Plus(StackWord(t, s), 0) = StackWord(t, s)
        /\ Plus(StackWord(t, s), 4) = StackWord(t, s + 1)
        /\ Plus(StackWord(t, s), 8) = StackWord(t, s + 2)
        /\ Plus(StackWord(u, v), 4) = StackWord(u, v + 1)
    <2>1. s \in Int /\ v \in Int /\ s + 0 = s /\ 0 \in Int /\ 1 \in Int /\ 2 \in Int
      BY <1>1
    <2>2. 4 * 0 = 0 /\ 4 * 1 = 4 /\ 4 * 2 = 8
      OBVIOUS
    <2>3. ASSUME NEW x, NEW n \in Int, NEW k \in Int
          PROVE  Plus(StackWord(x, n), 4 * k) = StackWord(x, n + k) /\ Plus(Object(x, 0), k) = Object(x, k)
      BY DEF Plus, StackWord, Object
    <2>4. /\ Plus(StackWord(t, s), 4 * 0) = StackWord(t, s + 0)
          /\ Plus(StackWord(t, s), 4 * 1) = StackWord(t, s + 1)
          /\ Plus(StackWord(t, s), 4 * 2) = StackWord(t, s + 2)
          /\ Plus(StackWord(u, v), 4 * 1) = StackWord(u, v + 1)
      BY <2>1, <2>3, Zenon
    <2>5. \A a \in Int : Plus(Object(t, 0), a) = Object(t, a) /\ Plus(Object(u, 0), a) = Object(u, a)
      BY <2>1, <2>3, Zenon
    <2> QED
      BY <2>1, <2>2, <2>4, <2>5, Zenon
  <1> HIDE DEF Mine
  <1> DEFINE Ok(n) == /\ run[n] = [cpu |-> run[n].cpu, memory |-> run[n].memory]
                      /\ DOMAIN run[n].cpu = Registers /\ DOMAIN run[n].memory = MemoryWords
             Kept(n) == \A a \in MemoryWords \ Mine : run[n].memory[a] = w[a]
  <1>5. Ok(0) /\ Kept(0) /\ run[0].cpu = c
    BY <1>2
  <1>6. /\ Ok(1) /\ Kept(1)
        /\ run[1].cpu["sp"] = c["sp"] /\ run[1].cpu["eax"] = c["eax"]
        /\ run[1].cpu["ebx"] = c["ebx"] /\ run[1].cpu["ecx"] = c["ecx"]
        /\ run[1].cpu["edx"] = c["edx"] /\ run[1].cpu["esi"] = c["esi"]
        /\ run[1].cpu["edi"] = c["edi"] /\ run[1].cpu["ebp"] = c["ebp"]
        /\ run[1].memory[eax_save] = c["eax"]
    <2>1. run[1] = Do(run[0], Put("eax", "eax_save", 0))
      BY <1>2, Offsets386 DEF SwitchI386
    <2>2. eax_save = Where(run[0].cpu, "eax_save", 0) /\ eax_save \in MemoryWords
      BY <1>3 DEF Where
    <2>3. /\ run[1] = [cpu |-> run[1].cpu, memory |-> run[1].memory]
          /\ run[1].cpu = run[0].cpu /\ DOMAIN run[1].memory = DOMAIN run[0].memory
          /\ run[1].memory[eax_save] = run[0].cpu["eax"]
          /\ \A b \in DOMAIN run[0].memory : b # eax_save => run[1].memory[b] = run[0].memory[b]
      BY <1>5, <2>1, <2>2, PutStep
    <2>4. /\ eax_save \in Mine
      <3>1. TRUE
        OBVIOUS
      <3> QED
        BY <1>3, <3>1
    <2> QED
      BY <1>5, <1>1, <2>2, <2>3, <2>4
  <1>7. /\ Ok(2) /\ Kept(2)
        /\ run[2].cpu["sp"] = c["sp"] /\ run[2].cpu["eax"] = Object(t, 0)
        /\ run[2].cpu["ebx"] = c["ebx"] /\ run[2].cpu["ecx"] = c["ecx"]
        /\ run[2].cpu["edx"] = c["edx"] /\ run[2].cpu["esi"] = c["esi"]
        /\ run[2].cpu["edi"] = c["edi"] /\ run[2].cpu["ebp"] = c["ebp"]
        /\ run[2].memory[eax_save] = c["eax"]
    <2>1. run[2] = Do(run[1], Get("eax", "sp", 4))
      BY <1>2, Offsets386 DEF SwitchI386
    <2>2. StackWord(t, s + 1) = Where(run[1].cpu, "sp", 4) /\ StackWord(t, s + 1) \in MemoryWords
      BY <1>3, <1>4, <1>6 DEF Where
    <2>3. /\ run[2] = [cpu |-> run[2].cpu, memory |-> run[2].memory]
          /\ run[2].memory = run[1].memory /\ DOMAIN run[2].cpu = DOMAIN run[1].cpu
          /\ run[2].cpu["eax"] = run[1].memory[StackWord(t, s + 1)]
          /\ \A q \in DOMAIN run[1].cpu : q # "eax" => run[2].cpu[q] = run[1].cpu[q]
      BY <1>1, <1>6, <2>1, <2>2, GetStep
    <2>4. StackWord(t, s + 1) \in MemoryWords \ Mine
      BY <1>3
    <2> QED
      BY <1>6, <1>1, <2>3, <2>4
  <1>8. /\ Ok(3) /\ Kept(3)
        /\ run[3].cpu["sp"] = c["sp"] /\ run[3].cpu["eax"] = Object(t, 0)
        /\ run[3].cpu["ebx"] = c["ebx"] /\ run[3].cpu["ecx"] = c["ecx"]
        /\ run[3].cpu["edx"] = c["edx"] /\ run[3].cpu["esi"] = c["esi"]
        /\ run[3].cpu["edi"] = c["edi"] /\ run[3].cpu["ebp"] = c["ebp"]
        /\ run[3].memory[eax_save] = c["eax"] /\ run[3].memory[Object(t, 8)] = c["ebx"]
    <2>1. run[3] = Do(run[2], Put("ebx", "eax", 8))
      BY <1>2, Offsets386 DEF SwitchI386
    <2>2. Object(t, 8) = Where(run[2].cpu, "eax", 8) /\ Object(t, 8) \in MemoryWords
      <3>1. 8 = 4 * 2 /\ 2 \in 0..8 /\ 8 \in Int
        OBVIOUS
      <3> QED
        BY <1>3, <1>4, <1>7, <3>1 DEF Where
    <2>3. /\ run[3] = [cpu |-> run[3].cpu, memory |-> run[3].memory]
          /\ run[3].cpu = run[2].cpu /\ DOMAIN run[3].memory = DOMAIN run[2].memory
          /\ run[3].memory[Object(t, 8)] = run[2].cpu["ebx"]
          /\ \A b \in DOMAIN run[2].memory : b # Object(t, 8) => run[3].memory[b] = run[2].memory[b]
      BY <1>7, <2>1, <2>2, PutStep
    <2>4. /\ eax_save \in MemoryWords /\ eax_save # Object(t, 8)
          /\ Object(t, 8) \in Mine
      <3>1. 8 = 4 * 2 /\ 2 \in 0..8
        OBVIOUS
      <3> QED
        BY <1>3, <3>1
    <2> QED
      BY <1>7, <1>1, <2>2, <2>3, <2>4
  <1>9. /\ Ok(4) /\ Kept(4)
        /\ run[4].cpu["sp"] = c["sp"] /\ run[4].cpu["eax"] = Object(t, 0)
        /\ run[4].cpu["ebx"] = c["ebx"] /\ run[4].cpu["ecx"] = c["ecx"]
        /\ run[4].cpu["edx"] = c["edx"] /\ run[4].cpu["esi"] = c["esi"]
        /\ run[4].cpu["edi"] = c["edi"] /\ run[4].cpu["ebp"] = c["ebp"]
        /\ run[4].memory[eax_save] = c["eax"] /\ run[4].memory[Object(t, 8)] = c["ebx"]
        /\ run[4].memory[Object(t, 12)] = c["ecx"]
    <2>1. run[4] = Do(run[3], Put("ecx", "eax", 12))
      BY <1>2, Offsets386 DEF SwitchI386
    <2>2. Object(t, 12) = Where(run[3].cpu, "eax", 12) /\ Object(t, 12) \in MemoryWords
      <3>1. 12 = 4 * 3 /\ 3 \in 0..8 /\ 12 \in Int
        OBVIOUS
      <3> QED
        BY <1>3, <1>4, <1>8, <3>1 DEF Where
    <2>3. /\ run[4] = [cpu |-> run[4].cpu, memory |-> run[4].memory]
          /\ run[4].cpu = run[3].cpu /\ DOMAIN run[4].memory = DOMAIN run[3].memory
          /\ run[4].memory[Object(t, 12)] = run[3].cpu["ecx"]
          /\ \A b \in DOMAIN run[3].memory : b # Object(t, 12) => run[4].memory[b] = run[3].memory[b]
      BY <1>8, <2>1, <2>2, PutStep
    <2>4. /\ eax_save \in MemoryWords /\ eax_save # Object(t, 12)
          /\ Object(t, 8) \in MemoryWords /\ Object(t, 8) # Object(t, 12)
          /\ Object(t, 12) \in Mine
      <3>1. 8 = 4 * 2 /\ 2 \in 0..8 /\ 12 = 4 * 3 /\ 3 \in 0..8
        OBVIOUS
      <3> QED
        BY <1>3, <3>1
    <2> QED
      BY <1>8, <1>1, <2>2, <2>3, <2>4
  <1>10. /\ Ok(5) /\ Kept(5)
         /\ run[5].cpu["sp"] = c["sp"] /\ run[5].cpu["eax"] = Object(t, 0)
         /\ run[5].cpu["ebx"] = c["ebx"] /\ run[5].cpu["ecx"] = c["ecx"]
         /\ run[5].cpu["edx"] = c["edx"] /\ run[5].cpu["esi"] = c["esi"]
         /\ run[5].cpu["edi"] = c["edi"] /\ run[5].cpu["ebp"] = c["ebp"]
         /\ run[5].memory[eax_save] = c["eax"] /\ run[5].memory[Object(t, 8)] = c["ebx"]
         /\ run[5].memory[Object(t, 12)] = c["ecx"]
         /\ run[5].memory[Object(t, 16)] = c["edx"]
    <2>1. run[5] = Do(run[4], Put("edx", "eax", 16))
      BY <1>2, Offsets386 DEF SwitchI386
    <2>2. Object(t, 16) = Where(run[4].cpu, "eax", 16) /\ Object(t, 16) \in MemoryWords
      <3>1. 16 = 4 * 4 /\ 4 \in 0..8 /\ 16 \in Int
        OBVIOUS
      <3> QED
        BY <1>3, <1>4, <1>9, <3>1 DEF Where
    <2>3. /\ run[5] = [cpu |-> run[5].cpu, memory |-> run[5].memory]
          /\ run[5].cpu = run[4].cpu /\ DOMAIN run[5].memory = DOMAIN run[4].memory
          /\ run[5].memory[Object(t, 16)] = run[4].cpu["edx"]
          /\ \A b \in DOMAIN run[4].memory : b # Object(t, 16) => run[5].memory[b] = run[4].memory[b]
      BY <1>9, <2>1, <2>2, PutStep
    <2>4. /\ eax_save \in MemoryWords /\ eax_save # Object(t, 16)
          /\ Object(t, 8) \in MemoryWords /\ Object(t, 8) # Object(t, 16)
          /\ Object(t, 12) \in MemoryWords /\ Object(t, 12) # Object(t, 16)
          /\ Object(t, 16) \in Mine
      <3>1. 8 = 4 * 2 /\ 2 \in 0..8 /\ 12 = 4 * 3 /\ 3 \in 0..8 /\ 16 = 4 * 4 /\ 4 \in 0..8
        OBVIOUS
      <3> QED
        BY <1>3, <3>1
    <2> QED
      BY <1>9, <1>1, <2>2, <2>3, <2>4
  <1>11. /\ Ok(6) /\ Kept(6)
         /\ run[6].cpu["sp"] = c["sp"] /\ run[6].cpu["eax"] = Object(t, 0)
         /\ run[6].cpu["ebx"] = c["ebx"] /\ run[6].cpu["ecx"] = c["ecx"]
         /\ run[6].cpu["edx"] = c["edx"] /\ run[6].cpu["esi"] = c["esi"]
         /\ run[6].cpu["edi"] = c["edi"] /\ run[6].cpu["ebp"] = c["ebp"]
         /\ run[6].memory[eax_save] = c["eax"] /\ run[6].memory[Object(t, 8)] = c["ebx"]
         /\ run[6].memory[Object(t, 12)] = c["ecx"]
         /\ run[6].memory[Object(t, 16)] = c["edx"]
         /\ run[6].memory[Object(t, 24)] = c["esi"]
    <2>1. run[6] = Do(run[5], Put("esi", "eax", 24))
      BY <1>2, Offsets386 DEF SwitchI386
    <2>2. Object(t, 24) = Where(run[5].cpu, "eax", 24) /\ Object(t, 24) \in MemoryWords
      <3>1. 24 = 4 * 6 /\ 6 \in 0..8 /\ 24 \in Int
        OBVIOUS
      <3> QED
        BY <1>3, <1>4, <1>10, <3>1 DEF Where
    <2>3. /\ run[6] = [cpu |-> run[6].cpu, memory |-> run[6].memory]
          /\ run[6].cpu = run[5].cpu /\ DOMAIN run[6].memory = DOMAIN run[5].memory
          /\ run[6].memory[Object(t, 24)] = run[5].cpu["esi"]
          /\ \A b \in DOMAIN run[5].memory : b # Object(t, 24) => run[6].memory[b] = run[5].memory[b]
      BY <1>10, <2>1, <2>2, PutStep
    <2>4. /\ eax_save \in MemoryWords /\ eax_save # Object(t, 24)
          /\ Object(t, 8) \in MemoryWords /\ Object(t, 8) # Object(t, 24)
          /\ Object(t, 12) \in MemoryWords /\ Object(t, 12) # Object(t, 24)
          /\ Object(t, 16) \in MemoryWords /\ Object(t, 16) # Object(t, 24)
          /\ Object(t, 24) \in Mine
      <3>1. 8 = 4 * 2 /\ 2 \in 0..8 /\ 12 = 4 * 3 /\ 3 \in 0..8 /\ 16 = 4 * 4 /\ 4 \in 0..8 /\ 24 = 4 * 6 /\ 6 \in 0..8
        OBVIOUS
      <3> QED
        BY <1>3, <3>1
    <2> QED
      BY <1>10, <1>1, <2>2, <2>3, <2>4
  <1>12. /\ Ok(7) /\ Kept(7)
         /\ run[7].cpu["sp"] = c["sp"] /\ run[7].cpu["eax"] = Object(t, 0)
         /\ run[7].cpu["ebx"] = c["ebx"] /\ run[7].cpu["ecx"] = c["ecx"]
         /\ run[7].cpu["edx"] = c["edx"] /\ run[7].cpu["esi"] = c["esi"]
         /\ run[7].cpu["edi"] = c["edi"] /\ run[7].cpu["ebp"] = c["ebp"]
         /\ run[7].memory[eax_save] = c["eax"] /\ run[7].memory[Object(t, 8)] = c["ebx"]
         /\ run[7].memory[Object(t, 12)] = c["ecx"]
         /\ run[7].memory[Object(t, 16)] = c["edx"]
         /\ run[7].memory[Object(t, 24)] = c["esi"]
         /\ run[7].memory[Object(t, 28)] = c["edi"]
    <2>1. run[7] = Do(run[6], Put("edi", "eax", 28))
      BY <1>2, Offsets386 DEF SwitchI386
    <2>2. Object(t, 28) = Where(run[6].cpu, "eax", 28) /\ Object(t, 28) \in MemoryWords
      <3>1. 28 = 4 * 7 /\ 7 \in 0..8 /\ 28 \in Int
        OBVIOUS
      <3> QED
        BY <1>3, <1>4, <1>11, <3>1 DEF Where
    <2>3. /\ run[7] = [cpu |-> run[7].cpu, memory |-> run[7].memory]
          /\ run[7].cpu = run[6].cpu /\ DOMAIN run[7].memory = DOMAIN run[6].memory
          /\ run[7].memory[Object(t, 28)] = run[6].cpu["edi"]
          /\ \A b \in DOMAIN run[6].memory : b # Object(t, 28) => run[7].memory[b] = run[6].memory[b]
      BY <1>11, <2>1, <2>2, PutStep
    <2>4. /\ eax_save \in MemoryWords /\ eax_save # Object(t, 28)
          /\ Object(t, 8) \in MemoryWords /\ Object(t, 8) # Object(t, 28)
          /\ Object(t, 12) \in MemoryWords /\ Object(t, 12) # Object(t, 28)
          /\ Object(t, 16) \in MemoryWords /\ Object(t, 16) # Object(t, 28)
          /\ Object(t, 24) \in MemoryWords /\ Object(t, 24) # Object(t, 28)
          /\ Object(t, 28) \in Mine
      <3>1. 8 = 4 * 2 /\ 2 \in 0..8 /\ 12 = 4 * 3 /\ 3 \in 0..8 /\ 16 = 4 * 4 /\ 4 \in 0..8 /\ 24 = 4 * 6 /\ 6 \in 0..8 /\ 28 = 4 * 7 /\ 7 \in 0..8
        OBVIOUS
      <3> QED
        BY <1>3, <3>1
    <2> QED
      BY <1>11, <1>1, <2>2, <2>3, <2>4
  <1>13. /\ Ok(8) /\ Kept(8)
         /\ run[8].cpu["sp"] = c["sp"] /\ run[8].cpu["eax"] = Object(t, 0)
         /\ run[8].cpu["ebx"] = c["ebx"] /\ run[8].cpu["ecx"] = c["ecx"]
         /\ run[8].cpu["edx"] = c["edx"] /\ run[8].cpu["esi"] = c["esi"]
         /\ run[8].cpu["edi"] = c["edi"] /\ run[8].cpu["ebp"] = c["ebp"]
         /\ run[8].memory[eax_save] = c["eax"] /\ run[8].memory[Object(t, 8)] = c["ebx"]
         /\ run[8].memory[Object(t, 12)] = c["ecx"]
         /\ run[8].memory[Object(t, 16)] = c["edx"]
         /\ run[8].memory[Object(t, 24)] = c["esi"]
         /\ run[8].memory[Object(t, 28)] = c["edi"]
         /\ run[8].memory[Object(t, 20)] = c["ebp"]
    <2>1. run[8] = Do(run[7], Put("ebp", "eax", 20))
      BY <1>2, Offsets386 DEF SwitchI386
    <2>2. Object(t, 20) = Where(run[7].cpu, "eax", 20) /\ Object(t, 20) \in MemoryWords
      <3>1. 20 = 4 * 5 /\ 5 \in 0..8 /\ 20 \in Int
        OBVIOUS
      <3> QED
        BY <1>3, <1>4, <1>12, <3>1 DEF Where
    <2>3. /\ run[8] = [cpu |-> run[8].cpu, memory |-> run[8].memory]
          /\ run[8].cpu = run[7].cpu /\ DOMAIN run[8].memory = DOMAIN run[7].memory
          /\ run[8].memory[Object(t, 20)] = run[7].cpu["ebp"]
          /\ \A b \in DOMAIN run[7].memory : b # Object(t, 20) => run[8].memory[b] = run[7].memory[b]
      BY <1>12, <2>1, <2>2, PutStep
    <2>4. /\ eax_save \in MemoryWords /\ eax_save # Object(t, 20)
          /\ Object(t, 8) \in MemoryWords /\ Object(t, 8) # Object(t, 20)
          /\ Object(t, 12) \in MemoryWords /\ Object(t, 12) # Object(t, 20)
          /\ Object(t, 16) \in MemoryWords /\ Object(t, 16) # Object(t, 20)
          /\ Object(t, 24) \in MemoryWords /\ Object(t, 24) # Object(t, 20)
          /\ Object(t, 28) \in MemoryWords /\ Object(t, 28) # Object(t, 20)
          /\ Object(t, 20) \in Mine
      <3>1. 8 = 4 * 2 /\ 2 \in 0..8 /\ 12 = 4 * 3 /\ 3 \in 0..8 /\ 16 = 4 * 4 /\ 4 \in 0..8 /\ 20 = 4 * 5 /\ 5 \in 0..8 /\ 24 = 4 * 6 /\ 6 \in 0..8 /\ 28 = 4 * 7 /\ 7 \in 0..8
        OBVIOUS
      <3> QED
        BY <1>3, <3>1
    <2> QED
      BY <1>12, <1>1, <2>2, <2>3, <2>4
  <1>14. /\ Ok(9) /\ Kept(9)
         /\ run[9].cpu["sp"] = c["sp"] /\ run[9].cpu["eax"] = Object(t, 0)
         /\ run[9].cpu["ebx"] = c["ebx"] /\ run[9].cpu["ecx"] = c["ecx"]
         /\ run[9].cpu["edx"] = c["edx"] /\ run[9].cpu["esi"] = c["esi"]
         /\ run[9].cpu["edi"] = c["edi"] /\ run[9].cpu["ebp"] = c["ebp"]
         /\ run[9].memory[eax_save] = c["eax"] /\ run[9].memory[Object(t, 8)] = c["ebx"]
         /\ run[9].memory[Object(t, 12)] = c["ecx"]
         /\ run[9].memory[Object(t, 16)] = c["edx"]
         /\ run[9].memory[Object(t, 24)] = c["esi"]
         /\ run[9].memory[Object(t, 28)] = c["edi"]
         /\ run[9].memory[Object(t, 20)] = c["ebp"]
         /\ run[9].memory[Object(t, 0)] = c["sp"]
    <2>1. run[9] = Do(run[8], Put("sp", "eax", 0))
      BY <1>2, Offsets386 DEF SwitchI386
    <2>2. Object(t, 0) = Where(run[8].cpu, "eax", 0) /\ Object(t, 0) \in MemoryWords
      <3>1. 0 = 4 * 0 /\ 0 \in 0..8 /\ 0 \in Int
        OBVIOUS
      <3> QED
        BY <1>3, <1>4, <1>13, <3>1 DEF Where
    <2>3. /\ run[9] = [cpu |-> run[9].cpu, memory |-> run[9].memory]
          /\ run[9].cpu = run[8].cpu /\ DOMAIN run[9].memory = DOMAIN run[8].memory
          /\ run[9].memory[Object(t, 0)] = run[8].cpu["sp"]
          /\ \A b \in DOMAIN run[8].memory : b # Object(t, 0) => run[9].memory[b] = run[8].memory[b]
      BY <1>13, <2>1, <2>2, PutStep
    <2>4. /\ eax_save \in MemoryWords /\ eax_save # Object(t, 0)
          /\ Object(t, 8) \in MemoryWords /\ Object(t, 8) # Object(t, 0)
          /\ Object(t, 12) \in MemoryWords /\ Object(t, 12) # Object(t, 0)
          /\ Object(t, 16) \in MemoryWords /\ Object(t, 16) # Object(t, 0)
          /\ Object(t, 24) \in MemoryWords /\ Object(t, 24) # Object(t, 0)
          /\ Object(t, 28) \in MemoryWords /\ Object(t, 28) # Object(t, 0)
          /\ Object(t, 20) \in MemoryWords /\ Object(t, 20) # Object(t, 0)
          /\ Object(t, 0) \in Mine
      <3>1. 0 = 4 * 0 /\ 0 \in 0..8 /\ 8 = 4 * 2 /\ 2 \in 0..8 /\ 12 = 4 * 3 /\ 3 \in 0..8 /\ 16 = 4 * 4 /\ 4 \in 0..8 /\ 20 = 4 * 5 /\ 5 \in 0..8 /\ 24 = 4 * 6 /\ 6 \in 0..8 /\ 28 = 4 * 7 /\ 7 \in 0..8
        OBVIOUS
      <3> QED
        BY <1>3, <3>1
    <2> QED
      BY <1>13, <1>1, <2>2, <2>3, <2>4
  <1>15. /\ Ok(10) /\ Kept(10)
         /\ run[10].cpu["sp"] = c["sp"] /\ run[10].cpu["eax"] = Object(t, 0)
         /\ run[10].cpu["ebx"] = c["eax"] /\ run[10].cpu["ecx"] = c["ecx"]
         /\ run[10].cpu["edx"] = c["edx"] /\ run[10].cpu["esi"] = c["esi"]
         /\ run[10].cpu["edi"] = c["edi"] /\ run[10].cpu["ebp"] = c["ebp"]
         /\ run[10].memory[eax_save] = c["eax"] /\ run[10].memory[Object(t, 8)] = c["ebx"]
         /\ run[10].memory[Object(t, 12)] = c["ecx"]
         /\ run[10].memory[Object(t, 16)] = c["edx"]
         /\ run[10].memory[Object(t, 24)] = c["esi"]
         /\ run[10].memory[Object(t, 28)] = c["edi"]
         /\ run[10].memory[Object(t, 20)] = c["ebp"]
         /\ run[10].memory[Object(t, 0)] = c["sp"]
    <2>1. run[10] = Do(run[9], Get("ebx", "eax_save", 0))
      BY <1>2, Offsets386 DEF SwitchI386
    <2>2. eax_save = Where(run[9].cpu, "eax_save", 0) /\ eax_save \in MemoryWords
      BY <1>3 DEF Where
    <2>3. /\ run[10] = [cpu |-> run[10].cpu, memory |-> run[10].memory]
          /\ run[10].memory = run[9].memory /\ DOMAIN run[10].cpu = DOMAIN run[9].cpu
          /\ run[10].cpu["ebx"] = run[9].memory[eax_save]
          /\ \A q \in DOMAIN run[9].cpu : q # "ebx" => run[10].cpu[q] = run[9].cpu[q]
      BY <1>1, <1>14, <2>1, <2>2, GetStep
    <2>4. eax_save \in MemoryWords
      BY <1>3
    <2> QED
      BY <1>14, <1>1, <2>3, <2>4
  <1>16. /\ Ok(11) /\ Kept(11)
         /\ run[11].cpu["sp"] = c["sp"] /\ run[11].cpu["eax"] = Object(t, 0)
         /\ run[11].cpu["ebx"] = c["eax"] /\ run[11].cpu["ecx"] = c["ecx"]
         /\ run[11].cpu["edx"] = c["edx"] /\ run[11].cpu["esi"] = c["esi"]
         /\ run[11].cpu["edi"] = c["edi"] /\ run[11].cpu["ebp"] = c["ebp"]
         /\ run[11].memory[eax_save] = c["eax"] /\ run[11].memory[Object(t, 8)] = c["ebx"]
         /\ run[11].memory[Object(t, 12)] = c["ecx"]
         /\ run[11].memory[Object(t, 16)] = c["edx"]
         /\ run[11].memory[Object(t, 24)] = c["esi"]
         /\ run[11].memory[Object(t, 28)] = c["edi"]
         /\ run[11].memory[Object(t, 20)] = c["ebp"]
         /\ run[11].memory[Object(t, 0)] = c["sp"]
         /\ run[11].memory[Object(t, 4)] = c["eax"]
    <2>1. run[11] = Do(run[10], Put("ebx", "eax", 4))
      BY <1>2, Offsets386 DEF SwitchI386
    <2>2. Object(t, 4) = Where(run[10].cpu, "eax", 4) /\ Object(t, 4) \in MemoryWords
      <3>1. 4 = 4 * 1 /\ 1 \in 0..8 /\ 4 \in Int
        OBVIOUS
      <3> QED
        BY <1>3, <1>4, <1>15, <3>1 DEF Where
    <2>3. /\ run[11] = [cpu |-> run[11].cpu, memory |-> run[11].memory]
          /\ run[11].cpu = run[10].cpu /\ DOMAIN run[11].memory = DOMAIN run[10].memory
          /\ run[11].memory[Object(t, 4)] = run[10].cpu["ebx"]
          /\ \A b \in DOMAIN run[10].memory : b # Object(t, 4) => run[11].memory[b] = run[10].memory[b]
      BY <1>15, <2>1, <2>2, PutStep
    <2>4. /\ eax_save \in MemoryWords /\ eax_save # Object(t, 4)
          /\ Object(t, 8) \in MemoryWords /\ Object(t, 8) # Object(t, 4)
          /\ Object(t, 12) \in MemoryWords /\ Object(t, 12) # Object(t, 4)
          /\ Object(t, 16) \in MemoryWords /\ Object(t, 16) # Object(t, 4)
          /\ Object(t, 24) \in MemoryWords /\ Object(t, 24) # Object(t, 4)
          /\ Object(t, 28) \in MemoryWords /\ Object(t, 28) # Object(t, 4)
          /\ Object(t, 20) \in MemoryWords /\ Object(t, 20) # Object(t, 4)
          /\ Object(t, 0) \in MemoryWords /\ Object(t, 0) # Object(t, 4)
          /\ Object(t, 4) \in Mine
      <3>1. 0 = 4 * 0 /\ 0 \in 0..8 /\ 4 = 4 * 1 /\ 1 \in 0..8 /\ 8 = 4 * 2 /\ 2 \in 0..8 /\ 12 = 4 * 3 /\ 3 \in 0..8 /\ 16 = 4 * 4 /\ 4 \in 0..8 /\ 20 = 4 * 5 /\ 5 \in 0..8 /\ 24 = 4 * 6 /\ 6 \in 0..8 /\ 28 = 4 * 7 /\ 7 \in 0..8
        OBVIOUS
      <3> QED
        BY <1>3, <3>1
    <2> QED
      BY <1>15, <1>1, <2>2, <2>3, <2>4
  <1>17. /\ Ok(12) /\ Kept(12)
         /\ run[12].cpu["sp"] = c["sp"] /\ run[12].cpu["eax"] = Object(t, 0)
         /\ run[12].cpu["ebx"] = InRun /\ run[12].cpu["ecx"] = c["ecx"]
         /\ run[12].cpu["edx"] = c["edx"] /\ run[12].cpu["esi"] = c["esi"]
         /\ run[12].cpu["edi"] = c["edi"] /\ run[12].cpu["ebp"] = c["ebp"]
         /\ run[12].memory[eax_save] = c["eax"] /\ run[12].memory[Object(t, 8)] = c["ebx"]
         /\ run[12].memory[Object(t, 12)] = c["ecx"]
         /\ run[12].memory[Object(t, 16)] = c["edx"]
         /\ run[12].memory[Object(t, 24)] = c["esi"]
         /\ run[12].memory[Object(t, 28)] = c["edi"]
         /\ run[12].memory[Object(t, 20)] = c["ebp"]
         /\ run[12].memory[Object(t, 0)] = c["sp"]
         /\ run[12].memory[Object(t, 4)] = c["eax"]
    <2>1. run[12] = Do(run[11], Get("ebx", "sp", 0))
      BY <1>2, Offsets386 DEF SwitchI386
    <2>2. StackWord(t, s) = Where(run[11].cpu, "sp", 0) /\ StackWord(t, s) \in MemoryWords
      BY <1>3, <1>4, <1>16 DEF Where
    <2>3. /\ run[12] = [cpu |-> run[12].cpu, memory |-> run[12].memory]
          /\ run[12].memory = run[11].memory /\ DOMAIN run[12].cpu = DOMAIN run[11].cpu
          /\ run[12].cpu["ebx"] = run[11].memory[StackWord(t, s)]
          /\ \A q \in DOMAIN run[11].cpu : q # "ebx" => run[12].cpu[q] = run[11].cpu[q]
      BY <1>1, <1>16, <2>1, <2>2, GetStep
    <2>4. StackWord(t, s) \in MemoryWords \ Mine
      BY <1>3
    <2> QED
      BY <1>16, <1>1, <2>3, <2>4
  <1>18. /\ Ok(13) /\ Kept(13)
         /\ run[13].cpu["sp"] = c["sp"] /\ run[13].cpu["eax"] = Object(t, 0)
         /\ run[13].cpu["ebx"] = InRun /\ run[13].cpu["ecx"] = c["ecx"]
         /\ run[13].cpu["edx"] = c["edx"] /\ run[13].cpu["esi"] = c["esi"]
         /\ run[13].cpu["edi"] = c["edi"] /\ run[13].cpu["ebp"] = c["ebp"]
         /\ run[13].memory[eax_save] = c["eax"] /\ run[13].memory[Object(t, 8)] = c["ebx"]
         /\ run[13].memory[Object(t, 12)] = c["ecx"]
         /\ run[13].memory[Object(t, 16)] = c["edx"]
         /\ run[13].memory[Object(t, 24)] = c["esi"]
         /\ run[13].memory[Object(t, 28)] = c["edi"]
         /\ run[13].memory[Object(t, 20)] = c["ebp"]
         /\ run[13].memory[Object(t, 0)] = c["sp"]
         /\ run[13].memory[Object(t, 4)] = c["eax"]
         /\ run[13].memory[Object(t, 32)] = InRun
    <2>1. run[13] = Do(run[12], Put("ebx", "eax", 32))
      BY <1>2, Offsets386 DEF SwitchI386
    <2>2. Object(t, 32) = Where(run[12].cpu, "eax", 32) /\ Object(t, 32) \in MemoryWords
      <3>1. 32 = 4 * 8 /\ 8 \in 0..8 /\ 32 \in Int
        OBVIOUS
      <3> QED
        BY <1>3, <1>4, <1>17, <3>1 DEF Where
    <2>3. /\ run[13] = [cpu |-> run[13].cpu, memory |-> run[13].memory]
          /\ run[13].cpu = run[12].cpu /\ DOMAIN run[13].memory = DOMAIN run[12].memory
          /\ run[13].memory[Object(t, 32)] = run[12].cpu["ebx"]
          /\ \A b \in DOMAIN run[12].memory : b # Object(t, 32) => run[13].memory[b] = run[12].memory[b]
      BY <1>17, <2>1, <2>2, PutStep
    <2>4. /\ eax_save \in MemoryWords /\ eax_save # Object(t, 32)
          /\ Object(t, 8) \in MemoryWords /\ Object(t, 8) # Object(t, 32)
          /\ Object(t, 12) \in MemoryWords /\ Object(t, 12) # Object(t, 32)
          /\ Object(t, 16) \in MemoryWords /\ Object(t, 16) # Object(t, 32)
          /\ Object(t, 24) \in MemoryWords /\ Object(t, 24) # Object(t, 32)
          /\ Object(t, 28) \in MemoryWords /\ Object(t, 28) # Object(t, 32)
          /\ Object(t, 20) \in MemoryWords /\ Object(t, 20) # Object(t, 32)
          /\ Object(t, 0) \in MemoryWords /\ Object(t, 0) # Object(t, 32)
          /\ Object(t, 4) \in MemoryWords /\ Object(t, 4) # Object(t, 32)
          /\ Object(t, 32) \in Mine
      <3>1. 0 = 4 * 0 /\ 0 \in 0..8 /\ 4 = 4 * 1 /\ 1 \in 0..8 /\ 8 = 4 * 2 /\ 2 \in 0..8 /\ 12 = 4 * 3 /\ 3 \in 0..8 /\ 16 = 4 * 4 /\ 4 \in 0..8 /\ 20 = 4 * 5 /\ 5 \in 0..8 /\ 24 = 4 * 6 /\ 6 \in 0..8 /\ 28 = 4 * 7 /\ 7 \in 0..8 /\ 32 = 4 * 8 /\ 8 \in 0..8
        OBVIOUS
      <3> QED
        BY <1>3, <3>1
    <2> QED
      BY <1>17, <1>1, <2>2, <2>3, <2>4
  <1>19. /\ Ok(14) /\ Kept(14)
         /\ run[14].cpu["sp"] = c["sp"] /\ run[14].cpu["eax"] = Object(u, 0)
         /\ run[14].cpu["ebx"] = InRun /\ run[14].cpu["ecx"] = c["ecx"]
         /\ run[14].cpu["edx"] = c["edx"] /\ run[14].cpu["esi"] = c["esi"]
         /\ run[14].cpu["edi"] = c["edi"] /\ run[14].cpu["ebp"] = c["ebp"]
         /\ run[14].memory[eax_save] = c["eax"] /\ run[14].memory[Object(t, 8)] = c["ebx"]
         /\ run[14].memory[Object(t, 12)] = c["ecx"]
         /\ run[14].memory[Object(t, 16)] = c["edx"]
         /\ run[14].memory[Object(t, 24)] = c["esi"]
         /\ run[14].memory[Object(t, 28)] = c["edi"]
         /\ run[14].memory[Object(t, 20)] = c["ebp"]
         /\ run[14].memory[Object(t, 0)] = c["sp"]
         /\ run[14].memory[Object(t, 4)] = c["eax"]
         /\ run[14].memory[Object(t, 32)] = InRun
    <2>1. run[14] = Do(run[13], Get("eax", "sp", 8))
      BY <1>2, Offsets386 DEF SwitchI386
    <2>2. StackWord(t, s + 2) = Where(run[13].cpu, "sp", 8) /\ StackWord(t, s + 2) \in MemoryWords
      BY <1>3, <1>4, <1>18 DEF Where
    <2>3. /\ run[14] = [cpu |-> run[14].cpu, memory |-> run[14].memory]
          /\ run[14].memory = run[13].memory /\ DOMAIN run[14].cpu = DOMAIN run[13].cpu
          /\ run[14].cpu["eax"] = run[13].memory[StackWord(t, s + 2)]
          /\ \A q \in DOMAIN run[13].cpu : q # "eax" => run[14].cpu[q] = run[13].cpu[q]
      BY <1>1, <1>18, <2>1, <2>2, GetStep
    <2>4. StackWord(t, s + 2) \in MemoryWords \ Mine
      BY <1>3
    <2> QED
      BY <1>18, <1>1, <2>3, <2>4
  <1>20. /\ Ok(15) /\ Kept(15)
         /\ run[15].cpu["sp"] = c["sp"] /\ run[15].cpu["eax"] = Object(u, 0)
         /\ run[15].cpu["ebx"] = w[Object(u, 4)] /\ run[15].cpu["ecx"] = c["ecx"]
         /\ run[15].cpu["edx"] = c["edx"] /\ run[15].cpu["esi"] = c["esi"]
         /\ run[15].cpu["edi"] = c["edi"] /\ run[15].cpu["ebp"] = c["ebp"]
         /\ run[15].memory[eax_save] = c["eax"] /\ run[15].memory[Object(t, 8)] = c["ebx"]
         /\ run[15].memory[Object(t, 12)] = c["ecx"]
         /\ run[15].memory[Object(t, 16)] = c["edx"]
         /\ run[15].memory[Object(t, 24)] = c["esi"]
         /\ run[15].memory[Object(t, 28)] = c["edi"]
         /\ run[15].memory[Object(t, 20)] = c["ebp"]
         /\ run[15].memory[Object(t, 0)] = c["sp"]
         /\ run[15].memory[Object(t, 4)] = c["eax"]
         /\ run[15].memory[Object(t, 32)] = InRun
    <2>1. run[15] = Do(run[14], Get("ebx", "eax", 4))
      BY <1>2, Offsets386 DEF SwitchI386
    <2>2. Object(u, 4) = Where(run[14].cpu, "eax", 4) /\ Object(u, 4) \in MemoryWords
      <3>1. 4 = 4 * 1 /\ 1 \in 0..8 /\ 4 \in Int
        OBVIOUS
      <3> QED
        BY <1>3, <1>4, <1>19, <3>1 DEF Where
    <2>3. /\ run[15] = [cpu |-> run[15].cpu, memory |-> run[15].memory]
          /\ run[15].memory = run[14].memory /\ DOMAIN run[15].cpu = DOMAIN run[14].cpu
          /\ run[15].cpu["ebx"] = run[14].memory[Object(u, 4)]
          /\ \A q \in DOMAIN run[14].cpu : q # "ebx" => run[15].cpu[q] = run[14].cpu[q]
      BY <1>1, <1>19, <2>1, <2>2, GetStep
    <2>4. Object(u, 4) \in MemoryWords \ Mine
      <3>1. 4 = 4 * 1 /\ 1 \in 0..8
        OBVIOUS
      <3> QED
        BY <1>3, <3>1
    <2> QED
      BY <1>19, <1>1, <2>3, <2>4
  <1>21. /\ Ok(16) /\ Kept(16)
         /\ run[16].cpu["sp"] = c["sp"] /\ run[16].cpu["eax"] = Object(u, 0)
         /\ run[16].cpu["ebx"] = w[Object(u, 4)] /\ run[16].cpu["ecx"] = c["ecx"]
         /\ run[16].cpu["edx"] = c["edx"] /\ run[16].cpu["esi"] = c["esi"]
         /\ run[16].cpu["edi"] = c["edi"] /\ run[16].cpu["ebp"] = c["ebp"]
         /\ run[16].memory[eax_save] = w[Object(u, 4)]
         /\ run[16].memory[Object(t, 8)] = c["ebx"]
         /\ run[16].memory[Object(t, 12)] = c["ecx"]
         /\ run[16].memory[Object(t, 16)] = c["edx"]
         /\ run[16].memory[Object(t, 24)] = c["esi"]
         /\ run[16].memory[Object(t, 28)] = c["edi"]
         /\ run[16].memory[Object(t, 20)] = c["ebp"]
         /\ run[16].memory[Object(t, 0)] = c["sp"]
         /\ run[16].memory[Object(t, 4)] = c["eax"]
         /\ run[16].memory[Object(t, 32)] = InRun
    <2>1. run[16] = Do(run[15], Put("ebx", "eax_save", 0))
      BY <1>2, Offsets386 DEF SwitchI386
    <2>2. eax_save = Where(run[15].cpu, "eax_save", 0) /\ eax_save \in MemoryWords
      BY <1>3 DEF Where
    <2>3. /\ run[16] = [cpu |-> run[16].cpu, memory |-> run[16].memory]
          /\ run[16].cpu = run[15].cpu /\ DOMAIN run[16].memory = DOMAIN run[15].memory
          /\ run[16].memory[eax_save] = run[15].cpu["ebx"]
          /\ \A b \in DOMAIN run[15].memory : b # eax_save => run[16].memory[b] = run[15].memory[b]
      BY <1>20, <2>1, <2>2, PutStep
    <2>4. /\ Object(t, 8) \in MemoryWords /\ Object(t, 8) # eax_save
          /\ Object(t, 12) \in MemoryWords /\ Object(t, 12) # eax_save
          /\ Object(t, 16) \in MemoryWords /\ Object(t, 16) # eax_save
          /\ Object(t, 24) \in MemoryWords /\ Object(t, 24) # eax_save
          /\ Object(t, 28) \in MemoryWords /\ Object(t, 28) # eax_save
          /\ Object(t, 20) \in MemoryWords /\ Object(t, 20) # eax_save
          /\ Object(t, 0) \in MemoryWords /\ Object(t, 0) # eax_save
          /\ Object(t, 4) \in MemoryWords /\ Object(t, 4) # eax_save
          /\ Object(t, 32) \in MemoryWords /\ Object(t, 32) # eax_save
          /\ eax_save \in Mine
      <3>1. 0 = 4 * 0 /\ 0 \in 0..8 /\ 4 = 4 * 1 /\ 1 \in 0..8 /\ 8 = 4 * 2 /\ 2 \in 0..8 /\ 12 = 4 * 3 /\ 3 \in 0..8 /\ 16 = 4 * 4 /\ 4 \in 0..8 /\ 20 = 4 * 5 /\ 5 \in 0..8 /\ 24 = 4 * 6 /\ 6 \in 0..8 /\ 28 = 4 * 7 /\ 7 \in 0..8 /\ 32 = 4 * 8 /\ 8 \in 0..8
        OBVIOUS
      <3> QED
        BY <1>3, <3>1
    <2> QED
      BY <1>20, <1>1, <2>2, <2>3, <2>4
  <1>22. /\ Ok(17) /\ Kept(17)
         /\ run[17].cpu["sp"] = c["sp"] /\ run[17].cpu["eax"] = Object(u, 0)
         /\ run[17].cpu["ebx"] = w[Object(u, 8)] /\ run[17].cpu["ecx"] = c["ecx"]
         /\ run[17].cpu["edx"] = c["edx"] /\ run[17].cpu["esi"] = c["esi"]
         /\ run[17].cpu["edi"] = c["edi"] /\ run[17].cpu["ebp"] = c["ebp"]
         /\ run[17].memory[eax_save] = w[Object(u, 4)]
         /\ run[17].memory[Object(t, 8)] = c["ebx"]
         /\ run[17].memory[Object(t, 12)] = c["ecx"]
         /\ run[17].memory[Object(t, 16)] = c["edx"]
         /\ run[17].memory[Object(t, 24)] = c["esi"]
         /\ run[17].memory[Object(t, 28)] = c["edi"]
         /\ run[17].memory[Object(t, 20)] = c["ebp"]
         /\ run[17].memory[Object(t, 0)] = c["sp"]
         /\ run[17].memory[Object(t, 4)] = c["eax"]
         /\ run[17].memory[Object(t, 32)] = InRun
    <2>1. run[17] = Do(run[16], Get("ebx", "eax", 8))
      BY <1>2, Offsets386 DEF SwitchI386
    <2>2. Object(u, 8) = Where(run[16].cpu, "eax", 8) /\ Object(u, 8) \in MemoryWords
      <3>1. 8 = 4 * 2 /\ 2 \in 0..8 /\ 8 \in Int
        OBVIOUS
      <3> QED
        BY <1>3, <1>4, <1>21, <3>1 DEF Where
    <2>3. /\ run[17] = [cpu |-> run[17].cpu, memory |-> run[17].memory]
          /\ run[17].memory = run[16].memory /\ DOMAIN run[17].cpu = DOMAIN run[16].cpu
          /\ run[17].cpu["ebx"] = run[16].memory[Object(u, 8)]
          /\ \A q \in DOMAIN run[16].cpu : q # "ebx" => run[17].cpu[q] = run[16].cpu[q]
      BY <1>1, <1>21, <2>1, <2>2, GetStep
    <2>4. Object(u, 8) \in MemoryWords \ Mine
      <3>1. 8 = 4 * 2 /\ 2 \in 0..8
        OBVIOUS
      <3> QED
        BY <1>3, <3>1
    <2> QED
      BY <1>21, <1>1, <2>3, <2>4
  <1>23. /\ Ok(18) /\ Kept(18)
         /\ run[18].cpu["sp"] = c["sp"] /\ run[18].cpu["eax"] = Object(u, 0)
         /\ run[18].cpu["ebx"] = w[Object(u, 8)] /\ run[18].cpu["ecx"] = w[Object(u, 12)]
         /\ run[18].cpu["edx"] = c["edx"] /\ run[18].cpu["esi"] = c["esi"]
         /\ run[18].cpu["edi"] = c["edi"] /\ run[18].cpu["ebp"] = c["ebp"]
         /\ run[18].memory[eax_save] = w[Object(u, 4)]
         /\ run[18].memory[Object(t, 8)] = c["ebx"]
         /\ run[18].memory[Object(t, 12)] = c["ecx"]
         /\ run[18].memory[Object(t, 16)] = c["edx"]
         /\ run[18].memory[Object(t, 24)] = c["esi"]
         /\ run[18].memory[Object(t, 28)] = c["edi"]
         /\ run[18].memory[Object(t, 20)] = c["ebp"]
         /\ run[18].memory[Object(t, 0)] = c["sp"]
         /\ run[18].memory[Object(t, 4)] = c["eax"]
         /\ run[18].memory[Object(t, 32)] = InRun
    <2>1. run[18] = Do(run[17], Get("ecx", "eax", 12))
      BY <1>2, Offsets386 DEF SwitchI386
    <2>2. Object(u, 12) = Where(run[17].cpu, "eax", 12) /\ Object(u, 12) \in MemoryWords
      <3>1. 12 = 4 * 3 /\ 3 \in 0..8 /\ 12 \in Int
        OBVIOUS
      <3> QED
        BY <1>3, <1>4, <1>22, <3>1 DEF Where
    <2>3. /\ run[18] = [cpu |-> run[18].cpu, memory |-> run[18].memory]
          /\ run[18].memory = run[17].memory /\ DOMAIN run[18].cpu = DOMAIN run[17].cpu
          /\ run[18].cpu["ecx"] = run[17].memory[Object(u, 12)]
          /\ \A q \in DOMAIN run[17].cpu : q # "ecx" => run[18].cpu[q] = run[17].cpu[q]
      BY <1>1, <1>22, <2>1, <2>2, GetStep
    <2>4. Object(u, 12) \in MemoryWords \ Mine
      <3>1. 12 = 4 * 3 /\ 3 \in 0..8
        OBVIOUS
      <3> QED
        BY <1>3, <3>1
    <2> QED
      BY <1>22, <1>1, <2>3, <2>4
  <1>24. /\ Ok(19) /\ Kept(19)
         /\ run[19].cpu["sp"] = c["sp"] /\ run[19].cpu["eax"] = Object(u, 0)
         /\ run[19].cpu["ebx"] = w[Object(u, 8)] /\ run[19].cpu["ecx"] = w[Object(u, 12)]
         /\ run[19].cpu["edx"] = w[Object(u, 16)] /\ run[19].cpu["esi"] = c["esi"]
         /\ run[19].cpu["edi"] = c["edi"] /\ run[19].cpu["ebp"] = c["ebp"]
         /\ run[19].memory[eax_save] = w[Object(u, 4)]
         /\ run[19].memory[Object(t, 8)] = c["ebx"]
         /\ run[19].memory[Object(t, 12)] = c["ecx"]
         /\ run[19].memory[Object(t, 16)] = c["edx"]
         /\ run[19].memory[Object(t, 24)] = c["esi"]
         /\ run[19].memory[Object(t, 28)] = c["edi"]
         /\ run[19].memory[Object(t, 20)] = c["ebp"]
         /\ run[19].memory[Object(t, 0)] = c["sp"]
         /\ run[19].memory[Object(t, 4)] = c["eax"]
         /\ run[19].memory[Object(t, 32)] = InRun
    <2>1. run[19] = Do(run[18], Get("edx", "eax", 16))
      BY <1>2, Offsets386 DEF SwitchI386
    <2>2. Object(u, 16) = Where(run[18].cpu, "eax", 16) /\ Object(u, 16) \in MemoryWords
      <3>1. 16 = 4 * 4 /\ 4 \in 0..8 /\ 16 \in Int
        OBVIOUS
      <3> QED
        BY <1>3, <1>4, <1>23, <3>1 DEF Where
    <2>3. /\ run[19] = [cpu |-> run[19].cpu, memory |-> run[19].memory]
          /\ run[19].memory = run[18].memory /\ DOMAIN run[19].cpu = DOMAIN run[18].cpu
          /\ run[19].cpu["edx"] = run[18].memory[Object(u, 16)]
          /\ \A q \in DOMAIN run[18].cpu : q # "edx" => run[19].cpu[q] = run[18].cpu[q]
      BY <1>1, <1>23, <2>1, <2>2, GetStep
    <2>4. Object(u, 16) \in MemoryWords \ Mine
      <3>1. 16 = 4 * 4 /\ 4 \in 0..8
        OBVIOUS
      <3> QED
        BY <1>3, <3>1
    <2> QED
      BY <1>23, <1>1, <2>3, <2>4
  <1>25. /\ Ok(20) /\ Kept(20)
         /\ run[20].cpu["sp"] = c["sp"] /\ run[20].cpu["eax"] = Object(u, 0)
         /\ run[20].cpu["ebx"] = w[Object(u, 8)] /\ run[20].cpu["ecx"] = w[Object(u, 12)]
         /\ run[20].cpu["edx"] = w[Object(u, 16)] /\ run[20].cpu["esi"] = w[Object(u, 24)]
         /\ run[20].cpu["edi"] = c["edi"] /\ run[20].cpu["ebp"] = c["ebp"]
         /\ run[20].memory[eax_save] = w[Object(u, 4)]
         /\ run[20].memory[Object(t, 8)] = c["ebx"]
         /\ run[20].memory[Object(t, 12)] = c["ecx"]
         /\ run[20].memory[Object(t, 16)] = c["edx"]
         /\ run[20].memory[Object(t, 24)] = c["esi"]
         /\ run[20].memory[Object(t, 28)] = c["edi"]
         /\ run[20].memory[Object(t, 20)] = c["ebp"]
         /\ run[20].memory[Object(t, 0)] = c["sp"]
         /\ run[20].memory[Object(t, 4)] = c["eax"]
         /\ run[20].memory[Object(t, 32)] = InRun
    <2>1. run[20] = Do(run[19], Get("esi", "eax", 24))
      BY <1>2, Offsets386 DEF SwitchI386
    <2>2. Object(u, 24) = Where(run[19].cpu, "eax", 24) /\ Object(u, 24) \in MemoryWords
      <3>1. 24 = 4 * 6 /\ 6 \in 0..8 /\ 24 \in Int
        OBVIOUS
      <3> QED
        BY <1>3, <1>4, <1>24, <3>1 DEF Where
    <2>3. /\ run[20] = [cpu |-> run[20].cpu, memory |-> run[20].memory]
          /\ run[20].memory = run[19].memory /\ DOMAIN run[20].cpu = DOMAIN run[19].cpu
          /\ run[20].cpu["esi"] = run[19].memory[Object(u, 24)]
          /\ \A q \in DOMAIN run[19].cpu : q # "esi" => run[20].cpu[q] = run[19].cpu[q]
      BY <1>1, <1>24, <2>1, <2>2, GetStep
    <2>4. Object(u, 24) \in MemoryWords \ Mine
      <3>1. 24 = 4 * 6 /\ 6 \in 0..8
        OBVIOUS
      <3> QED
        BY <1>3, <3>1
    <2> QED
      BY <1>24, <1>1, <2>3, <2>4
  <1>26. /\ Ok(21) /\ Kept(21)
         /\ run[21].cpu["sp"] = c["sp"] /\ run[21].cpu["eax"] = Object(u, 0)
         /\ run[21].cpu["ebx"] = w[Object(u, 8)] /\ run[21].cpu["ecx"] = w[Object(u, 12)]
         /\ run[21].cpu["edx"] = w[Object(u, 16)] /\ run[21].cpu["esi"] = w[Object(u, 24)]
         /\ run[21].cpu["edi"] = w[Object(u, 28)] /\ run[21].cpu["ebp"] = c["ebp"]
         /\ run[21].memory[eax_save] = w[Object(u, 4)]
         /\ run[21].memory[Object(t, 8)] = c["ebx"]
         /\ run[21].memory[Object(t, 12)] = c["ecx"]
         /\ run[21].memory[Object(t, 16)] = c["edx"]
         /\ run[21].memory[Object(t, 24)] = c["esi"]
         /\ run[21].memory[Object(t, 28)] = c["edi"]
         /\ run[21].memory[Object(t, 20)] = c["ebp"]
         /\ run[21].memory[Object(t, 0)] = c["sp"]
         /\ run[21].memory[Object(t, 4)] = c["eax"]
         /\ run[21].memory[Object(t, 32)] = InRun
    <2>1. run[21] = Do(run[20], Get("edi", "eax", 28))
      BY <1>2, Offsets386 DEF SwitchI386
    <2>2. Object(u, 28) = Where(run[20].cpu, "eax", 28) /\ Object(u, 28) \in MemoryWords
      <3>1. 28 = 4 * 7 /\ 7 \in 0..8 /\ 28 \in Int
        OBVIOUS
      <3> QED
        BY <1>3, <1>4, <1>25, <3>1 DEF Where
    <2>3. /\ run[21] = [cpu |-> run[21].cpu, memory |-> run[21].memory]
          /\ run[21].memory = run[20].memory /\ DOMAIN run[21].cpu = DOMAIN run[20].cpu
          /\ run[21].cpu["edi"] = run[20].memory[Object(u, 28)]
          /\ \A q \in DOMAIN run[20].cpu : q # "edi" => run[21].cpu[q] = run[20].cpu[q]
      BY <1>1, <1>25, <2>1, <2>2, GetStep
    <2>4. Object(u, 28) \in MemoryWords \ Mine
      <3>1. 28 = 4 * 7 /\ 7 \in 0..8
        OBVIOUS
      <3> QED
        BY <1>3, <3>1
    <2> QED
      BY <1>25, <1>1, <2>3, <2>4
  <1>27. /\ Ok(22) /\ Kept(22)
         /\ run[22].cpu["sp"] = c["sp"] /\ run[22].cpu["eax"] = Object(u, 0)
         /\ run[22].cpu["ebx"] = w[Object(u, 8)] /\ run[22].cpu["ecx"] = w[Object(u, 12)]
         /\ run[22].cpu["edx"] = w[Object(u, 16)] /\ run[22].cpu["esi"] = w[Object(u, 24)]
         /\ run[22].cpu["edi"] = w[Object(u, 28)] /\ run[22].cpu["ebp"] = w[Object(u, 20)]
         /\ run[22].memory[eax_save] = w[Object(u, 4)]
         /\ run[22].memory[Object(t, 8)] = c["ebx"]
         /\ run[22].memory[Object(t, 12)] = c["ecx"]
         /\ run[22].memory[Object(t, 16)] = c["edx"]
         /\ run[22].memory[Object(t, 24)] = c["esi"]
         /\ run[22].memory[Object(t, 28)] = c["edi"]
         /\ run[22].memory[Object(t, 20)] = c["ebp"]
         /\ run[22].memory[Object(t, 0)] = c["sp"]
         /\ run[22].memory[Object(t, 4)] = c["eax"]
         /\ run[22].memory[Object(t, 32)] = InRun
    <2>1. run[22] = Do(run[21], Get("ebp", "eax", 20))
      BY <1>2, Offsets386 DEF SwitchI386
    <2>2. Object(u, 20) = Where(run[21].cpu, "eax", 20) /\ Object(u, 20) \in MemoryWords
      <3>1. 20 = 4 * 5 /\ 5 \in 0..8 /\ 20 \in Int
        OBVIOUS
      <3> QED
        BY <1>3, <1>4, <1>26, <3>1 DEF Where
    <2>3. /\ run[22] = [cpu |-> run[22].cpu, memory |-> run[22].memory]
          /\ run[22].memory = run[21].memory /\ DOMAIN run[22].cpu = DOMAIN run[21].cpu
          /\ run[22].cpu["ebp"] = run[21].memory[Object(u, 20)]
          /\ \A q \in DOMAIN run[21].cpu : q # "ebp" => run[22].cpu[q] = run[21].cpu[q]
      BY <1>1, <1>26, <2>1, <2>2, GetStep
    <2>4. Object(u, 20) \in MemoryWords \ Mine
      <3>1. 20 = 4 * 5 /\ 5 \in 0..8
        OBVIOUS
      <3> QED
        BY <1>3, <3>1
    <2> QED
      BY <1>26, <1>1, <2>3, <2>4
  <1>28. /\ Ok(23) /\ Kept(23)
         /\ run[23].cpu["sp"] = StackWord(u, v) /\ run[23].cpu["eax"] = Object(u, 0)
         /\ run[23].cpu["ebx"] = w[Object(u, 8)] /\ run[23].cpu["ecx"] = w[Object(u, 12)]
         /\ run[23].cpu["edx"] = w[Object(u, 16)] /\ run[23].cpu["esi"] = w[Object(u, 24)]
         /\ run[23].cpu["edi"] = w[Object(u, 28)] /\ run[23].cpu["ebp"] = w[Object(u, 20)]
         /\ run[23].memory[eax_save] = w[Object(u, 4)]
         /\ run[23].memory[Object(t, 8)] = c["ebx"]
         /\ run[23].memory[Object(t, 12)] = c["ecx"]
         /\ run[23].memory[Object(t, 16)] = c["edx"]
         /\ run[23].memory[Object(t, 24)] = c["esi"]
         /\ run[23].memory[Object(t, 28)] = c["edi"]
         /\ run[23].memory[Object(t, 20)] = c["ebp"]
         /\ run[23].memory[Object(t, 0)] = c["sp"]
         /\ run[23].memory[Object(t, 4)] = c["eax"]
         /\ run[23].memory[Object(t, 32)] = InRun
    <2>1. run[23] = Do(run[22], Get("sp", "eax", 0))
      BY <1>2, Offsets386 DEF SwitchI386
    <2>2. Object(u, 0) = Where(run[22].cpu, "eax", 0) /\ Object(u, 0) \in MemoryWords
      <3>1. 0 = 4 * 0 /\ 0 \in 0..8 /\ 0 \in Int
        OBVIOUS
      <3> QED
        BY <1>3, <1>4, <1>27, <3>1 DEF Where
    <2>3. /\ run[23] = [cpu |-> run[23].cpu, memory |-> run[23].memory]
          /\ run[23].memory = run[22].memory /\ DOMAIN run[23].cpu = DOMAIN run[22].cpu
          /\ run[23].cpu["sp"] = run[22].memory[Object(u, 0)]
          /\ \A q \in DOMAIN run[22].cpu : q # "sp" => run[23].cpu[q] = run[22].cpu[q]
      BY <1>1, <1>27, <2>1, <2>2, GetStep
    <2>4. Object(u, 0) \in MemoryWords \ Mine
      <3>1. 0 = 4 * 0 /\ 0 \in 0..8
        OBVIOUS
      <3> QED
        BY <1>3, <3>1
    <2> QED
      BY <1>27, <1>1, <2>3, <2>4
  <1>29. /\ Ok(24) /\ Kept(24)
         /\ run[24].cpu["sp"] = StackWord(u, v) /\ run[24].cpu["eax"] = w[Object(u, 32)]
         /\ run[24].cpu["ebx"] = w[Object(u, 8)] /\ run[24].cpu["ecx"] = w[Object(u, 12)]
         /\ run[24].cpu["edx"] = w[Object(u, 16)] /\ run[24].cpu["esi"] = w[Object(u, 24)]
         /\ run[24].cpu["edi"] = w[Object(u, 28)] /\ run[24].cpu["ebp"] = w[Object(u, 20)]
         /\ run[24].memory[eax_save] = w[Object(u, 4)]
         /\ run[24].memory[Object(t, 8)] = c["ebx"]
         /\ run[24].memory[Object(t, 12)] = c["ecx"]
         /\ run[24].memory[Object(t, 16)] = c["edx"]
         /\ run[24].memory[Object(t, 24)] = c["esi"]
         /\ run[24].memory[Object(t, 28)] = c["edi"]
         /\ run[24].memory[Object(t, 20)] = c["ebp"]
         /\ run[24].memory[Object(t, 0)] = c["sp"]
         /\ run[24].memory[Object(t, 4)] = c["eax"]
         /\ run[24].memory[Object(t, 32)] = InRun
    <2>1. run[24] = Do(run[23], Get("eax", "eax", 32))
      BY <1>2, Offsets386 DEF SwitchI386
    <2>2. Object(u, 32) = Where(run[23].cpu, "eax", 32) /\ Object(u, 32) \in MemoryWords
      <3>1. 32 = 4 * 8 /\ 8 \in 0..8 /\ 32 \in Int
        OBVIOUS
      <3> QED
        BY <1>3, <1>4, <1>28, <3>1 DEF Where
    <2>3. /\ run[24] = [cpu |-> run[24].cpu, memory |-> run[24].memory]
          /\ run[24].memory = run[23].memory /\ DOMAIN run[24].cpu = DOMAIN run[23].cpu
          /\ run[24].cpu["eax"] = run[23].memory[Object(u, 32)]
          /\ \A q \in DOMAIN run[23].cpu : q # "eax" => run[24].cpu[q] = run[23].cpu[q]
      BY <1>1, <1>28, <2>1, <2>2, GetStep
    <2>4. Object(u, 32) \in MemoryWords \ Mine
      <3>1. 32 = 4 * 8 /\ 8 \in 0..8
        OBVIOUS
      <3> QED
        BY <1>3, <3>1
    <2> QED
      BY <1>28, <1>1, <2>3, <2>4
  <1>30. /\ Ok(25)
         /\ \A a \in MemoryWords \ Mine : a # StackWord(u, v + 1) => run[25].memory[a] = w[a]
         /\ run[25].cpu["sp"] = StackWord(u, v) /\ run[25].cpu["eax"] = w[Object(u, 32)]
         /\ run[25].cpu["ebx"] = w[Object(u, 8)] /\ run[25].cpu["ecx"] = w[Object(u, 12)]
         /\ run[25].cpu["edx"] = w[Object(u, 16)] /\ run[25].cpu["esi"] = w[Object(u, 24)]
         /\ run[25].cpu["edi"] = w[Object(u, 28)] /\ run[25].cpu["ebp"] = w[Object(u, 20)]
         /\ run[25].memory[eax_save] = w[Object(u, 4)]
         /\ run[25].memory[Object(t, 8)] = c["ebx"]
         /\ run[25].memory[Object(t, 12)] = c["ecx"]
         /\ run[25].memory[Object(t, 16)] = c["edx"]
         /\ run[25].memory[Object(t, 24)] = c["esi"]
         /\ run[25].memory[Object(t, 28)] = c["edi"]
         /\ run[25].memory[Object(t, 20)] = c["ebp"]
         /\ run[25].memory[Object(t, 0)] = c["sp"]
         /\ run[25].memory[Object(t, 4)] = c["eax"]
         /\ run[25].memory[Object(t, 32)] = InRun
    <2>1. run[25] = Do(run[24], Put("eax", "sp", 4))
      BY <1>2, Offsets386 DEF SwitchI386
    <2>2. StackWord(u, v + 1) = Where(run[24].cpu, "sp", 4) /\ StackWord(u, v + 1) \in MemoryWords
      BY <1>3, <1>4, <1>29 DEF Where
    <2>3. /\ run[25] = [cpu |-> run[25].cpu, memory |-> run[25].memory]
          /\ run[25].cpu = run[24].cpu /\ DOMAIN run[25].memory = DOMAIN run[24].memory
          /\ run[25].memory[StackWord(u, v + 1)] = run[24].cpu["eax"]
          /\ \A b \in DOMAIN run[24].memory : b # StackWord(u, v + 1) => run[25].memory[b] = run[24].memory[b]
      BY <1>29, <2>1, <2>2, PutStep
    <2>4. /\ eax_save \in MemoryWords /\ eax_save # StackWord(u, v + 1)
          /\ Object(t, 8) \in MemoryWords /\ Object(t, 8) # StackWord(u, v + 1)
          /\ Object(t, 12) \in MemoryWords /\ Object(t, 12) # StackWord(u, v + 1)
          /\ Object(t, 16) \in MemoryWords /\ Object(t, 16) # StackWord(u, v + 1)
          /\ Object(t, 24) \in MemoryWords /\ Object(t, 24) # StackWord(u, v + 1)
          /\ Object(t, 28) \in MemoryWords /\ Object(t, 28) # StackWord(u, v + 1)
          /\ Object(t, 20) \in MemoryWords /\ Object(t, 20) # StackWord(u, v + 1)
          /\ Object(t, 0) \in MemoryWords /\ Object(t, 0) # StackWord(u, v + 1)
          /\ Object(t, 4) \in MemoryWords /\ Object(t, 4) # StackWord(u, v + 1)
          /\ Object(t, 32) \in MemoryWords /\ Object(t, 32) # StackWord(u, v + 1)
      <3>1. 0 = 4 * 0 /\ 0 \in 0..8 /\ 4 = 4 * 1 /\ 1 \in 0..8 /\ 8 = 4 * 2 /\ 2 \in 0..8 /\ 12 = 4 * 3 /\ 3 \in 0..8 /\ 16 = 4 * 4 /\ 4 \in 0..8 /\ 20 = 4 * 5 /\ 5 \in 0..8 /\ 24 = 4 * 6 /\ 6 \in 0..8 /\ 28 = 4 * 7 /\ 7 \in 0..8 /\ 32 = 4 * 8 /\ 8 \in 0..8
        OBVIOUS
      <3> QED
        BY <1>3, <3>1
    <2> QED
      BY <1>29, <1>1, <2>2, <2>3, <2>4
  <1>31. /\ Ok(26)
         /\ \A a \in MemoryWords \ Mine : a # StackWord(u, v + 1) => run[26].memory[a] = w[a]
         /\ run[26].cpu["sp"] = StackWord(u, v) /\ run[26].cpu["eax"] = w[Object(u, 4)]
         /\ run[26].cpu["ebx"] = w[Object(u, 8)] /\ run[26].cpu["ecx"] = w[Object(u, 12)]
         /\ run[26].cpu["edx"] = w[Object(u, 16)] /\ run[26].cpu["esi"] = w[Object(u, 24)]
         /\ run[26].cpu["edi"] = w[Object(u, 28)] /\ run[26].cpu["ebp"] = w[Object(u, 20)]
         /\ run[26].memory[eax_save] = w[Object(u, 4)]
         /\ run[26].memory[Object(t, 8)] = c["ebx"]
         /\ run[26].memory[Object(t, 12)] = c["ecx"]
         /\ run[26].memory[Object(t, 16)] = c["edx"]
         /\ run[26].memory[Object(t, 24)] = c["esi"]
         /\ run[26].memory[Object(t, 28)] = c["edi"]
         /\ run[26].memory[Object(t, 20)] = c["ebp"]
         /\ run[26].memory[Object(t, 0)] = c["sp"]
         /\ run[26].memory[Object(t, 4)] = c["eax"]
         /\ run[26].memory[Object(t, 32)] = InRun
    <2>1. run[26] = Do(run[25], Get("eax", "eax_save", 0))
      BY <1>2, Offsets386 DEF SwitchI386
    <2>2. eax_save = Where(run[25].cpu, "eax_save", 0) /\ eax_save \in MemoryWords
      BY <1>3 DEF Where
    <2>3. /\ run[26] = [cpu |-> run[26].cpu, memory |-> run[26].memory]
          /\ run[26].memory = run[25].memory /\ DOMAIN run[26].cpu = DOMAIN run[25].cpu
          /\ run[26].cpu["eax"] = run[25].memory[eax_save]
          /\ \A q \in DOMAIN run[25].cpu : q # "eax" => run[26].cpu[q] = run[25].cpu[q]
      BY <1>1, <1>30, <2>1, <2>2, GetStep
    <2>4. eax_save \in MemoryWords
      BY <1>3
    <2> QED
      BY <1>30, <1>1, <2>3, <2>4
  <1>32. \A a \in MemoryWords : a # eax_save /\ (\A k \in 0..8 : a # Object(t, 4 * k)) => a \notin Mine
    BY DEF Mine
  <1> QED
    BY <1>2, <1>31, <1>32, Offsets386

\* The short lists between two calls of ThreadRoot.
LEMMA RunShort ==
    ASSUME NEW m, NEW code, Len(code) \in 0..3
    PROVE  /\ Len(code) = 0 => RunCode(m, code) = m
           /\ Len(code) = 1 => RunCode(m, code) = Do(m, code[1])
           /\ Len(code) = 3 => RunCode(m, code) = Do(Do(Do(m, code[1]), code[2]), code[3])
  <1>1. PICK run : /\ run[0] = m
                   /\ \A n \in 1..Len(code) : run[n] = Do(run[n - 1], code[n])
                   /\ RunCode(m, code) = run[Len(code)]
    <2>1. Len(code) \in Nat
      OBVIOUS
    <2> QED
      BY <2>1, RunSteps
  <1>2. CASE Len(code) = 1
    BY <1>1, <1>2
  <1>3. CASE Len(code) = 3
    <2>1. run[1] = Do(run[0], code[1]) /\ run[2] = Do(run[1], code[2]) /\ run[3] = Do(run[2], code[3])
      BY <1>1, <1>3
    <2> QED
      BY <1>1, <1>3, <2>1
  <1> QED
    BY <1>1, <1>2, <1>3

-----------------------------------------------------------------------------
(* ThreadRoot.                                                             *)

\* Where a thread that has been called from ThreadRoot p times goes on.
NextRoot(p) == IF arch = "i386" THEN <<4, 5, 6>>[p + 1] ELSE <<1, 3, 4>>[p + 1]
BeforeCall(p) ==
    RunCode([cpu |-> cpu, memory |-> memory],
            SubSeq(ThreadRoot, RootAt(p)[3] + 1, NextRoot(p) - 1))

\* RootStep finds the next call.
LEMMA NextCall ==
    ASSUME arch \in {"MIPS", "SNAKE", "i386"}, NEW p \in 0..2, pc = RootAt(p)
    PROVE  /\ (CHOOSE c \in (pc[3] + 1)..Len(ThreadRoot) :
                    /\ ThreadRoot[c].op = "call"
                    /\ \A k \in (pc[3] + 1)..(c - 1) : ThreadRoot[k].op # "call") = NextRoot(p)
           /\ NextRoot(p) = RootAt(p + 1)[3] /\ RootAt(p + 1) = Code("ThreadRoot", NextRoot(p))
           /\ ThreadRoot[NextRoot(p)] = Call(<<StartupPC[arch], InitialPC[arch], WhenDonePC[arch]>>[p + 1])
           /\ pc[2] = "ThreadRoot" /\ pc # InRun
  <1> DEFINE P(c) == /\ ThreadRoot[c].op = "call"
                     /\ \A k \in (pc[3] + 1)..(c - 1) : ThreadRoot[k].op # "call"
             D == (pc[3] + 1)..Len(ThreadRoot)
  <1>0. p \in {0, 1, 2}
    OBVIOUS
  <1>1. CASE arch = "i386"
    <2>1. /\ Len(ThreadRoot) = 6
          /\ ThreadRoot[1].op = "push" /\ ThreadRoot[2].op = "move" /\ ThreadRoot[3].op = "push"
          /\ ThreadRoot[4] = Call(StartupPC[arch]) /\ ThreadRoot[5] = Call(InitialPC[arch])
          /\ ThreadRoot[6] = Call(WhenDonePC[arch])
      BY <1>1 DEF ThreadRoot, Push, Move
    <2>2. \A r : Call(r).op = "call"
      BY DEF Call
    <2>3. /\ pc[3] = <<0, 4, 5>>[p + 1] /\ NextRoot(p) = <<4, 5, 6>>[p + 1]
          /\ pc[2] = "ThreadRoot" /\ pc # InRun
      BY <1>0, <1>1 DEF RootAt, NextRoot, Code, InRun
    <2>4. NextRoot(p) \in D /\ P(NextRoot(p))
      BY <1>0, <2>1, <2>2, <2>3
    <2>5. \A c \in D : P(c) => c = NextRoot(p)
      BY <1>0, <2>1, <2>2, <2>3
    <2>6. (CHOOSE c \in D : P(c)) = NextRoot(p)
      <3> HIDE DEF P, D
      <3> QED
        BY <2>4, <2>5
    <2>7. NextRoot(p) = RootAt(p + 1)[3] /\ RootAt(p + 1) = Code("ThreadRoot", NextRoot(p))
      BY <1>0, <1>1 DEF RootAt, NextRoot, Code
    <2>8. ThreadRoot[NextRoot(p)] = Call(<<StartupPC[arch], InitialPC[arch], WhenDonePC[arch]>>[p + 1])
      BY <1>0, <2>1, <2>3
    <2> QED
      BY <2>3, <2>6, <2>7, <2>8
  <1>2. CASE arch # "i386"
    <2>1. /\ Len(ThreadRoot) = 4
          /\ ThreadRoot[1] = Call(StartupPC[arch]) /\ ThreadRoot[2].op = "move"
          /\ ThreadRoot[3] = Call(InitialPC[arch]) /\ ThreadRoot[4] = Call(WhenDonePC[arch])
      BY <1>2 DEF ThreadRoot, Push, Move
    <2>2. \A r : Call(r).op = "call"
      BY DEF Call
    <2>3. /\ pc[3] = <<0, 1, 3>>[p + 1] /\ NextRoot(p) = <<1, 3, 4>>[p + 1]
          /\ pc[2] = "ThreadRoot" /\ pc # InRun
      BY <1>0, <1>2 DEF RootAt, NextRoot, Code, InRun
    <2>4. NextRoot(p) \in D /\ P(NextRoot(p))
      BY <1>0, <2>1, <2>2, <2>3
    <2>5. \A c \in D : P(c) => c = NextRoot(p)
      BY <1>0, <2>1, <2>2, <2>3
    <2>6. (CHOOSE c \in D : P(c)) = NextRoot(p)
      <3> HIDE DEF P, D
      <3> QED
        BY <2>4, <2>5
    <2>7. NextRoot(p) = RootAt(p + 1)[3] /\ RootAt(p + 1) = Code("ThreadRoot", NextRoot(p))
      BY <1>0, <1>2 DEF RootAt, NextRoot, Code
    <2>8. ThreadRoot[NextRoot(p)] = Call(<<StartupPC[arch], InitialPC[arch], WhenDonePC[arch]>>[p + 1])
      BY <1>0, <2>1, <2>3
    <2> QED
      BY <2>3, <2>6, <2>7, <2>8
  <1> QED
    BY <1>1, <1>2

\* What ThreadRoot does before that call.
LEMMA RunBeforeCall ==
    ASSUME arch \in {"MIPS", "SNAKE", "i386"}, NEW p \in 0..2
    PROVE  LET m == [cpu |-> cpu, memory |-> memory]
           IN  BeforeCall(p) = IF arch = "i386" /\ p = 0
                         THEN Do(Do(Do(m, Push("ebp")), Move("ebp", "sp")), Push("edx"))
                         ELSE IF arch # "i386" /\ p = 1 THEN Do(m, Move(Argument[arch], InitialArg[arch]))
                         ELSE m
  <1> DEFINE m == [cpu |-> cpu, memory |-> memory]
             code == SubSeq(ThreadRoot, RootAt(p)[3] + 1, NextRoot(p) - 1)
  <1>0. p \in {0, 1, 2}
    OBVIOUS
  <1>1. CASE arch = "i386" /\ p = 0
    <2>1. Len(code) = 3 /\ code[1] = Push("ebp") /\ code[2] = Move("ebp", "sp") /\ code[3] = Push("edx")
      BY <1>1 DEF ThreadRoot, RootAt, NextRoot, Code, InitialArg
    <2> HIDE DEF code, m
    <2>2. RunCode(m, code) = Do(Do(Do(m, code[1]), code[2]), code[3])
      BY <2>1, RunShort
    <2> QED
      BY <1>1, <2>1, <2>2 DEF BeforeCall, code, m
  <1>2. CASE arch # "i386" /\ p = 1
    <2>1. Len(code) = 1 /\ code[1] = Move(Argument[arch], InitialArg[arch])
      BY <1>2 DEF ThreadRoot, RootAt, NextRoot, Code
    <2> HIDE DEF code, m
    <2>2. RunCode(m, code) = Do(m, code[1])
      BY <2>1, RunShort
    <2> QED
      BY <1>2, <2>1, <2>2 DEF BeforeCall, code, m
  <1>3. CASE ~(arch = "i386" /\ p = 0) /\ ~(arch # "i386" /\ p = 1)
    <2>1. Len(code) = 0
      BY <1>0, <1>3 DEF ThreadRoot, RootAt, NextRoot, Code
    <2> HIDE DEF code, m
    <2>2. RunCode(m, code) = m
      BY <2>1, RunShort
    <2> QED
      BY <1>3, <2>2 DEF BeforeCall, code, m
  <1> QED
    BY <1>1, <1>2, <1>3

\* The registers ThreadRoot uses.
RootRegister(p) == <<StartupPC[arch], InitialPC[arch], WhenDonePC[arch]>>[p + 1]

LEMMA RootRegisters ==
    ASSUME arch \in {"MIPS", "SNAKE", "i386"}
    PROVE  LET R == {StartupPC[arch], InitialPC[arch], InitialArg[arch], WhenDonePC[arch]}
           IN  /\ "sp" \in CalleeSaved /\ CalleeSaved \subseteq Registers
               /\ R \subseteq Registers /\ "sp" \notin R
               /\ arch # "i386" => /\ R \subseteq CalleeSaved
                                   /\ {Argument[arch], ReturnTo[arch]} \subseteq Registers \ CalleeSaved
                                   /\ Argument[arch] # ReturnTo[arch] /\ Argument[arch] # "sp"
               /\ arch = "i386" => /\ {InitialPC[arch], WhenDonePC[arch]} \subseteq CalleeSaved
                                   /\ StartupPC[arch] = "ecx" /\ InitialPC[arch] = "esi"
                                   /\ InitialArg[arch] = "edx" /\ WhenDonePC[arch] = "edi"
  <1>1. CASE arch = "MIPS"
    BY <1>1 DEF StartupPC, InitialPC, InitialArg, WhenDonePC, Slots, Registers, Argument, Second,
                ReturnTo, CalleeSaved, ToSet
  <1>2. CASE arch = "SNAKE"
    BY <1>2 DEF StartupPC, InitialPC, InitialArg, WhenDonePC, Slots, Registers, Argument, Second,
                ReturnTo, CalleeSaved, ToSet
  <1>3. CASE arch = "i386"
    <2>1. /\ Registers = {"sp", "eax", "ebx", "ecx", "edx", "ebp", "esi", "edi", "pc", "none"}
          /\ CalleeSaved = {"sp", "ebx", "ebp", "esi", "edi"}
      BY <1>3, Offsets386
    <2> QED
      BY <1>3, <2>1 DEF StartupPC, InitialPC, InitialArg, WhenDonePC
  <1> QED
    BY <1>1, <1>2, <1>3

Called(m, p) ==
    IF arch = "i386"
    THEN [cpu |-> [m.cpu EXCEPT !["sp"] = Minus4(@)],
          memory |-> [m.memory EXCEPT ![Minus4(m.cpu["sp"])] = RootAt(p + 1)]]
    ELSE [m EXCEPT !.cpu[ReturnTo[arch]] = RootAt(p + 1)]

\* RootStep with its next call found.
LEMMA RootStepIs ==
    ASSUME arch \in {"MIPS", "SNAKE", "i386"}, NEW p \in 0..2, pc = RootAt(p), RootStep
    PROVE  LET m == BeforeCall(p)
               target == m.cpu[RootRegister(p)]
               in == Called(m, p)
           IN  /\ calls' = [calls EXCEPT ![current] =
                        Append(@, <<target, IF target = Func THEN ArgumentOf(m) ELSE Junk>>)]
               /\ memory' = in.memory
               /\ target = InterruptEnable =>
                    /\ cpu' = [r \in DOMAIN cpu |-> IF r \in CalleeSaved THEN m.cpu[r] ELSE Junk]
                    /\ pc' = ReturnAddress(in)
               /\ target # InterruptEnable =>
                    /\ cpu' = in.cpu
                    /\ pc' = IF target \in {Func, ThreadFinish} THEN InRun ELSE target
               /\ frame' = [frame EXCEPT ![current] = cpu']
               /\ owed' = [owed EXCEPT ![current] = cpu']
               /\ UNCHANGED <<arch, current, made, userStateVars>>
  <1> DEFINE n == CHOOSE c \in (pc[3] + 1)..Len(ThreadRoot) :
                    /\ ThreadRoot[c].op = "call"
                    /\ \A k \in (pc[3] + 1)..(c - 1) : ThreadRoot[k].op # "call"
             m == RunCode([cpu |-> cpu, memory |-> memory], SubSeq(ThreadRoot, pc[3] + 1, n - 1))
             in == IF arch = "i386"
                   THEN [cpu |-> [m.cpu EXCEPT !["sp"] = Minus4(@)],
                         memory |-> [m.memory EXCEPT ![Minus4(m.cpu["sp"])] = Code("ThreadRoot", n)]]
                   ELSE [m EXCEPT !.cpu[ReturnTo[arch]] = Code("ThreadRoot", n)]
             target == m.cpu[ThreadRoot[n].reg]
  <1>1. /\ calls' = [calls EXCEPT ![current] =
                        Append(@, <<target, IF target = Func THEN ArgumentOf(m) ELSE Junk>>)]
        /\ memory' = in.memory
        /\ target = InterruptEnable =>
             /\ cpu' = [r \in DOMAIN cpu |-> IF r \in CalleeSaved THEN m.cpu[r] ELSE Junk]
             /\ pc' = ReturnAddress(in)
        /\ target # InterruptEnable =>
             /\ cpu' = in.cpu
             /\ pc' = IF target \in {Func, ThreadFinish} THEN InRun ELSE target
        /\ frame' = [frame EXCEPT ![current] = cpu']
        /\ owed' = [owed EXCEPT ![current] = cpu']
        /\ UNCHANGED <<arch, current, made, userStateVars>>
    BY Zenon DEF RootStep
  <1>2. n = NextRoot(p) /\ RootAt(p + 1) = Code("ThreadRoot", NextRoot(p))
        /\ ThreadRoot[NextRoot(p)] = Call(RootRegister(p))
    BY NextCall, Zenon DEF RootRegister
  <1>3. \A r : Call(r).reg = r
    BY DEF Call
  <1>4. m = BeforeCall(p) /\ in = Called(m, p) /\ target = m.cpu[RootRegister(p)]
    <2> HIDE DEF n
    <2>1. m = BeforeCall(p)
      BY <1>2, Zenon DEF BeforeCall
    <2> HIDE DEF m
    <2> QED
      BY <1>2, <1>3, <2>1, Zenon DEF Called
  <1> HIDE DEF n, m, in, target
  <1> QED
    BY <1>1, <1>4, Zenon

StackWordsOf(t) == {StackWord(t, WordsOfStack - n) : n \in {5, 6, 7}}

\* Different instants of a call name different words.
LEMMA Words386 ==
    ASSUME NEW t \in KThread
    PROVE  /\ \A n \in {4, 5, 6} : Minus4(StackWord(t, WordsOfStack - n)) = StackWord(t, WordsOfStack - (n + 1))
           /\ \A n \in 4..7, k \in 4..7 :
                StackWord(t, WordsOfStack - n) = StackWord(t, WordsOfStack - k) => n = k
           /\ \A n \in {5, 6, 7} : StackWord(t, WordsOfStack - n) \in MemoryWords \cap StackWordsOf(t)
  <1>0. WordsOfStack \in Nat /\ WordsOfStack > 16
    BY SwitchAssumption
  <1>1. \A n \in {4, 5, 6} : Minus4(StackWord(t, WordsOfStack - n)) = StackWord(t, WordsOfStack - (n + 1))
    BY <1>0 DEF Minus4, StackWord
  <1>2. \A n \in 4..7, k \in 4..7 :
            StackWord(t, WordsOfStack - n) = StackWord(t, WordsOfStack - k) => n = k
    BY <1>0 DEF StackWord
  <1>3. \A n \in {5, 6, 7} : StackWord(t, WordsOfStack - n) \in MemoryWords
    BY <1>0, WordsThere
  <1>4. \A n \in {5, 6, 7} : StackWord(t, WordsOfStack - n) \in StackWordsOf(t)
    BY DEF StackWordsOf
  <1> QED
    BY <1>1, <1>2, <1>3, <1>4

\* Code addresses and data that the proofs tell apart.
LEMMA Values ==
    /\ InterruptEnable # Func /\ InterruptEnable # ThreadFinish /\ Func # ThreadFinish
    /\ \A n : InRun # Code("ThreadRoot", n) /\ Code("ThreadRoot", n)[2] = "ThreadRoot"
  BY DEF InterruptEnable, Func, ThreadFinish, InRun, Code

\* What one step of ThreadRoot does, for the thread and for the others.
LEMMA RootEffect ==
    ASSUME SwitchTypeOK, CallsExact, RunningExact, pc # InRun, RootStep, NEW p, p = Steps(current)
    PROVE  /\ calls' = [calls EXCEPT ![current] = Append(@, Script(current)[p + 1])]
           /\ DOMAIN cpu' = Registers /\ DOMAIN memory' = MemoryWords
           /\ \A a \in MemoryWords :
                memory'[a] = memory[a] \/ (arch = "i386" /\ a \in StackWordsOf(current))
           /\ pc' = IF p = 0 THEN RootAt(1) ELSE InRun
           /\ frame' = [frame EXCEPT ![current] = cpu'] /\ owed' = [owed EXCEPT ![current] = cpu']
           /\ cpu'[WhenDonePC[arch]] = ThreadFinish
           /\ p = 0 => cpu'[InitialPC[arch]] = Func /\ (arch # "i386" => cpu'[InitialArg[arch]] = arg(current))
           /\ p = 0 /\ arch = "i386" => /\ cpu'["sp"] = StackWord(current, WordsOfStack - 6)
                                        /\ memory'[StackWord(current, WordsOfStack - 6)] = arg(current)
           /\ p > 0 /\ arch = "i386" => /\ cpu'["sp"] = StackWord(current, WordsOfStack - 7)
                                        /\ memory'[StackWord(current, WordsOfStack - 7)] = RootAt(p + 1)
           /\ p > 0 /\ arch # "i386" => cpu'[ReturnTo[arch]] = RootAt(p + 1)
           /\ UNCHANGED <<arch, current, made, userStateVars>>
  <1> DEFINE m == BeforeCall(p)
             in == Called(m, p)
             target == m.cpu[RootRegister(p)]
             m0 == [cpu |-> cpu, memory |-> memory]
             entry == <<target, IF target = Func THEN ArgumentOf(m) ELSE Junk>>
             Effect == /\ DOMAIN cpu' = Registers /\ DOMAIN memory' = MemoryWords
                       /\ \A a \in MemoryWords :
                            memory'[a] = memory[a] \/ (arch = "i386" /\ a \in StackWordsOf(current))
                       /\ pc' = IF p = 0 THEN RootAt(1) ELSE InRun
                       /\ cpu'[WhenDonePC[arch]] = ThreadFinish
                       /\ p = 0 => /\ cpu'[InitialPC[arch]] = Func
                                   /\ arch # "i386" => cpu'[InitialArg[arch]] = arg(current)
                       /\ p = 0 /\ arch = "i386" =>
                            /\ cpu'["sp"] = StackWord(current, WordsOfStack - 6)
                            /\ memory'[StackWord(current, WordsOfStack - 6)] = arg(current)
                       /\ p > 0 /\ arch = "i386" =>
                            /\ cpu'["sp"] = StackWord(current, WordsOfStack - 7)
                            /\ memory'[StackWord(current, WordsOfStack - 7)] = RootAt(p + 1)
                       /\ p > 0 /\ arch # "i386" => cpu'[ReturnTo[arch]] = RootAt(p + 1)
  <1>1. /\ arch \in {"MIPS", "SNAKE", "i386"} /\ p \in 0..2 /\ p \in {0, 1, 2}
        /\ pc = RootAt(p) /\ RootState(p) /\ current \in KThread
        /\ DOMAIN cpu = Registers /\ DOMAIN memory = MemoryWords
    BY DEF SwitchTypeOK, RunningExact
  <1>2. /\ memory' = in.memory
        /\ target = InterruptEnable =>
             /\ cpu' = [r \in DOMAIN cpu |-> IF r \in CalleeSaved THEN m.cpu[r] ELSE Junk]
             /\ pc' = ReturnAddress(in)
        /\ target # InterruptEnable =>
             /\ cpu' = in.cpu
             /\ pc' = IF target \in {Func, ThreadFinish} THEN InRun ELSE target
    <2> HIDE DEF m, in, target
    <2> QED
      BY <1>1, RootStepIs, Zenon DEF m, in, target
  <1>6. /\ calls' = [calls EXCEPT ![current] = Append(@, entry)]
        /\ frame' = [frame EXCEPT ![current] = cpu'] /\ owed' = [owed EXCEPT ![current] = cpu']
        /\ UNCHANGED <<arch, current, made, userStateVars>>
    <2> HIDE DEF m, target
    <2> QED
      BY <1>1, RootStepIs, Zenon DEF m, target
  <1>3. /\ RootRegister(0) = StartupPC[arch] /\ RootRegister(1) = InitialPC[arch]
        /\ RootRegister(2) = WhenDonePC[arch]
        /\ Script(current)[1] = <<InterruptEnable, Junk>> /\ Script(current)[2] = <<Func, arg(current)>>
        /\ Script(current)[3] = <<ThreadFinish, Junk>>
    BY DEF RootRegister, Script
  <1>4. CASE arch # "i386"
    <2> SUFFICES entry = Script(current)[p + 1] /\ Effect
      BY <1>6
    <2> DEFINE S == StartupPC[arch]
               I == InitialPC[arch]
               G == InitialArg[arch]
               W == WhenDonePC[arch]
               A == Argument[arch]
               X == ReturnTo[arch]
    <2>1. /\ {S, I, G, W} \subseteq CalleeSaved /\ CalleeSaved \subseteq Registers
          /\ {A, X} \subseteq Registers \ CalleeSaved /\ A # X
      BY <1>1, <1>4, RootRegisters
    <2>2. /\ p = 0 => cpu[S] = InterruptEnable
          /\ p \in {0, 1} => cpu[I] = Func /\ cpu[G] = arg(current)
          /\ cpu[W] = ThreadFinish
      BY <1>1, <1>4 DEF RootState
    <2>3. m = IF p = 1 THEN [cpu |-> [cpu EXCEPT ![A] = cpu[G]], memory |-> memory] ELSE m0
      <3>1. m = IF p = 1 THEN Do(m0, Move(A, G)) ELSE m0
        BY <1>1, <1>4, RunBeforeCall
      <3>2. Do(m0, Move(A, G)) = [cpu |-> [cpu EXCEPT ![A] = cpu[G]], memory |-> memory]
        BY DEF Do, Move
      <3> HIDE DEF m, A, G, m0
      <3> QED
        BY <3>1, <3>2 DEF m0
    <2>4. /\ in.memory = m.memory /\ in.cpu = [m.cpu EXCEPT ![X] = RootAt(p + 1)]
          /\ ReturnAddress(in) = in.cpu[X] /\ ArgumentOf(m) = m.cpu[A]
      BY <1>4, <2>3 DEF Called, ReturnAddress, ArgumentOf
    <2> HIDE DEF m, in, S, I, G, W, A, X
    <2>5. /\ m.memory = memory /\ DOMAIN m.cpu = Registers
          /\ \A r \in CalleeSaved : m.cpu[r] = cpu[r]
          /\ p = 1 => m.cpu[A] = cpu[G]
      BY <1>1, <2>1, <2>3
    <2>6. /\ DOMAIN in.cpu = Registers /\ in.cpu[X] = RootAt(p + 1)
          /\ \A r \in CalleeSaved : in.cpu[r] = cpu[r]
      BY <2>1, <2>4, <2>5
    <2>7. memory' = memory /\ DOMAIN memory' = MemoryWords
      BY <1>1, <1>2, <2>4, <2>5
    <2>8. CASE p = 0
      <3>1. target = InterruptEnable
        BY <1>3, <2>1, <2>2, <2>5, <2>8 DEF S
      <3>2. /\ cpu' = [r \in Registers |-> IF r \in CalleeSaved THEN m.cpu[r] ELSE Junk]
            /\ pc' = RootAt(1)
        BY <1>1, <1>2, <2>4, <2>6, <2>8, <3>1
      <3>3. DOMAIN cpu' = Registers /\ cpu'[W] = ThreadFinish /\ cpu'[I] = Func /\ cpu'[G] = arg(current)
        BY <2>1, <2>2, <2>5, <2>8, <3>2
      <3>4. entry = Script(current)[p + 1]
        BY <1>3, <2>8, <3>1, Values
      <3> QED
        BY <1>4, <2>7, <2>8, <3>2, <3>3, <3>4 DEF W, I, G
    <2>9. CASE p = 1
      <3>1. target = Func /\ ArgumentOf(m) = arg(current)
        BY <1>3, <2>1, <2>2, <2>4, <2>5, <2>9 DEF I
      <3>2. cpu' = in.cpu /\ pc' = InRun
        BY <1>2, <3>1, Values
      <3>3. DOMAIN cpu' = Registers /\ cpu'[W] = ThreadFinish /\ cpu'[X] = RootAt(p + 1)
        BY <2>1, <2>2, <2>6, <3>2
      <3>4. entry = Script(current)[p + 1]
        BY <1>3, <2>9, <3>1
      <3> QED
        BY <1>4, <2>7, <2>9, <3>2, <3>3, <3>4 DEF W, X
    <2>10. CASE p = 2
      <3>1. target = ThreadFinish
        BY <1>3, <2>1, <2>2, <2>5, <2>10 DEF W
      <3>2. cpu' = in.cpu /\ pc' = InRun
        BY <1>2, <3>1, Values
      <3>3. DOMAIN cpu' = Registers /\ cpu'[W] = ThreadFinish /\ cpu'[X] = RootAt(p + 1)
        BY <2>1, <2>2, <2>6, <3>2
      <3>4. entry = Script(current)[p + 1]
        BY <1>3, <2>10, <3>1, Values
      <3> QED
        BY <1>4, <2>7, <2>10, <3>2, <3>3, <3>4 DEF W, X
    <2> QED
      BY <1>1, <2>8, <2>9, <2>10
  <1>5. CASE arch = "i386"
    <2> SUFFICES entry = Script(current)[p + 1] /\ Effect
      BY <1>6
    <2> DEFINE W(n) == StackWord(current, WordsOfStack - n)
    <2>1. /\ \A n \in {4, 5, 6} : Minus4(W(n)) = W(n + 1)
          /\ \A n \in 4..7, k \in 4..7 : W(n) = W(k) => n = k
          /\ \A n \in {5, 6, 7} : W(n) \in MemoryWords \cap StackWordsOf(current)
      BY <1>1, Words386
    <2>2. Minus4(W(4)) = W(5) /\ Minus4(W(5)) = W(6) /\ Minus4(W(6)) = W(7) /\ W(6) # W(7)
      <3> HIDE DEF W
      <3> QED
        BY <2>1
    <2>3. /\ StartupPC[arch] = "ecx" /\ InitialPC[arch] = "esi" /\ InitialArg[arch] = "edx"
          /\ WhenDonePC[arch] = "edi" /\ {"esi", "edi", "sp"} \subseteq CalleeSaved
          /\ {"ecx", "edx", "esi", "edi", "ebp", "sp"} \subseteq Registers
      BY <1>1, <1>5, RootRegisters, Offsets386
    <2>4. /\ p = 0 => cpu["ecx"] = InterruptEnable /\ cpu["edx"] = arg(current)
          /\ p \in {0, 1} => cpu["esi"] = Func
          /\ p = 1 => memory[W(6)] = arg(current)
          /\ cpu["edi"] = ThreadFinish
          /\ cpu["sp"] = IF p = 0 THEN W(4) ELSE W(6)
      <3>1. cpu["sp"] = StackWord(current, WordsOfStack - (IF p = 0 THEN 4 ELSE 6))
        BY <1>1, <1>5, Zenon DEF RootState
      <3>2. cpu["sp"] = IF p = 0 THEN W(4) ELSE W(6)
        BY <3>1
      <3> QED
        BY <1>1, <1>5, <2>3, <3>2 DEF RootState
    <2> HIDE DEF W
    <2>5. /\ DOMAIN m.cpu = Registers /\ DOMAIN m.memory = MemoryWords
          /\ m.cpu["sp"] = W(6)
          /\ m.cpu["ecx"] = cpu["ecx"] /\ m.cpu["esi"] = cpu["esi"] /\ m.cpu["edi"] = cpu["edi"]
          /\ p = 0 => m.memory[W(6)] = cpu["edx"]
          /\ p # 0 => m.memory[W(6)] = memory[W(6)]
          /\ \A a \in MemoryWords : a \notin StackWordsOf(current) => m.memory[a] = memory[a]
      <3>1. CASE p = 0
        <4> DEFINE c1 == [cpu EXCEPT !["sp"] = Minus4(@)]
                   w1 == [memory EXCEPT ![Minus4(cpu["sp"])] = cpu["ebp"]]
                   c2 == [c1 EXCEPT !["ebp"] = c1["sp"]]
                   c3 == [c2 EXCEPT !["sp"] = Minus4(@)]
                   w3 == [w1 EXCEPT ![Minus4(c2["sp"])] = c2["edx"]]
        <4>1. m = Do(Do(Do(m0, Push("ebp")), Move("ebp", "sp")), Push("edx"))
          BY <1>1, <1>5, <3>1, RunBeforeCall
        <4>2. Do(m0, Push("ebp")) = [cpu |-> c1, memory |-> w1]
          BY DoPush, Zenon
        <4>3. Do([cpu |-> c1, memory |-> w1], Move("ebp", "sp")) = [cpu |-> c2, memory |-> w1]
          <5> HIDE DEF c1, w1
          <5> QED
            BY DEF Do, Move
        <4>4. Do([cpu |-> c2, memory |-> w1], Push("edx")) = [cpu |-> c3, memory |-> w3]
          <5> HIDE DEF c2, w1
          <5> QED
            BY DoPush, Zenon
        <4>5. m.cpu = c3 /\ m.memory = w3
          <5> HIDE DEF m, m0, c1, w1, c2, c3, w3
          <5> QED
            BY <4>1, <4>2, <4>3, <4>4
        <4>6. /\ DOMAIN c1 = Registers /\ c1["sp"] = W(5) /\ DOMAIN w1 = MemoryWords
              /\ \A r \in Registers \ {"sp"} : c1[r] = cpu[r]
              /\ \A a \in MemoryWords : a # W(5) => w1[a] = memory[a]
          BY <1>1, <2>2, <2>3, <2>4, <3>1
        <4> HIDE DEF c1, w1
        <4>7. DOMAIN c2 = Registers /\ c2["sp"] = W(5) /\ \A r \in Registers \ {"sp", "ebp"} : c2[r] = cpu[r]
          BY <2>3, <4>6
        <4> HIDE DEF c2
        <4>8. /\ DOMAIN c3 = Registers /\ c3["sp"] = W(6) /\ DOMAIN w3 = MemoryWords
              /\ \A r \in Registers \ {"sp", "ebp"} : c3[r] = cpu[r]
              /\ w3[W(6)] = cpu["edx"]
              /\ \A a \in MemoryWords : a \notin {W(5), W(6)} => w3[a] = memory[a]
          BY <2>1, <2>2, <2>3, <4>6, <4>7
        <4> HIDE DEF c3, w3
        <4>9. W(5) \in StackWordsOf(current) /\ W(6) \in StackWordsOf(current)
          BY <2>1
        <4> HIDE DEF m
        <4> QED
          BY <2>3, <3>1, <4>5, <4>8, <4>9
      <3>2. CASE p # 0
        <4>1. m = m0
          BY <1>1, <1>5, <3>2, RunBeforeCall
        <4> QED
          BY <1>1, <2>4, <3>2, <4>1
      <3> QED
        BY <3>1, <3>2
    <2>6. /\ in.cpu = [m.cpu EXCEPT !["sp"] = Minus4(@)]
          /\ in.memory = [m.memory EXCEPT ![Minus4(m.cpu["sp"])] = RootAt(p + 1)]
          /\ ReturnAddress(in) = in.memory[in.cpu["sp"]] /\ ArgumentOf(m) = m.memory[m.cpu["sp"]]
      BY <1>5 DEF Called, ReturnAddress, ArgumentOf
    <2> HIDE DEF m, in
    <2>7. W(6) \in MemoryWords /\ W(7) \in MemoryWords /\ W(7) \in StackWordsOf(current)
      BY <2>1
    <2>8. /\ DOMAIN in.cpu = Registers /\ in.cpu["sp"] = W(7)
          /\ \A r \in Registers \ {"sp"} : in.cpu[r] = m.cpu[r]
      BY <2>2, <2>3, <2>5, <2>6
    <2>9. /\ DOMAIN in.memory = MemoryWords /\ in.memory[W(7)] = RootAt(p + 1)
          /\ in.memory[W(6)] = m.memory[W(6)]
          /\ \A a \in MemoryWords : a \notin StackWordsOf(current) => in.memory[a] = memory[a]
      BY <2>2, <2>5, <2>6, <2>7
    <2>10. CASE p = 0
      <3>1. target = InterruptEnable
        BY <1>3, <2>3, <2>4, <2>5, <2>10
      <3>2. /\ cpu' = [r \in Registers |-> IF r \in CalleeSaved THEN m.cpu[r] ELSE Junk]
            /\ pc' = RootAt(1)
        BY <1>1, <1>2, <2>6, <2>8, <2>9, <2>10, <3>1
      <3>3. /\ DOMAIN cpu' = Registers /\ cpu'["edi"] = ThreadFinish /\ cpu'["esi"] = Func
            /\ cpu'["sp"] = W(6) /\ memory'[W(6)] = arg(current)
        BY <1>2, <2>3, <2>4, <2>5, <2>9, <2>10, <3>2
      <3>4. entry = Script(current)[p + 1]
        BY <1>3, <2>10, <3>1, Values
      <3> QED
        BY <1>2, <1>5, <2>3, <2>9, <2>10, <3>2, <3>3, <3>4 DEF W
    <2>11. CASE p = 1
      <3>1. target = Func /\ ArgumentOf(m) = arg(current)
        BY <1>3, <2>3, <2>4, <2>5, <2>6, <2>11
      <3>2. cpu' = in.cpu /\ pc' = InRun
        BY <1>2, <3>1, Values
      <3>3. /\ DOMAIN cpu' = Registers /\ cpu'["edi"] = ThreadFinish
            /\ cpu'["sp"] = W(7) /\ memory'[W(7)] = RootAt(p + 1)
        BY <1>2, <2>3, <2>4, <2>5, <2>8, <2>9, <2>11, <3>2
      <3>4. entry = Script(current)[p + 1]
        BY <1>3, <2>11, <3>1
      <3> QED
        BY <1>2, <1>5, <2>3, <2>9, <2>11, <3>2, <3>3, <3>4 DEF W
    <2>12. CASE p = 2
      <3>1. target = ThreadFinish
        BY <1>3, <2>3, <2>4, <2>5, <2>12
      <3>2. cpu' = in.cpu /\ pc' = InRun
        BY <1>2, <3>1, Values
      <3>3. /\ DOMAIN cpu' = Registers /\ cpu'["edi"] = ThreadFinish
            /\ cpu'["sp"] = W(7) /\ memory'[W(7)] = RootAt(p + 1)
        BY <1>2, <2>3, <2>4, <2>5, <2>8, <2>9, <2>12, <3>2
      <3>4. entry = Script(current)[p + 1]
        BY <1>3, <2>12, <3>1, Values
      <3> QED
        BY <1>2, <1>5, <2>3, <2>9, <2>12, <3>2, <3>3, <3>4 DEF W
    <2> QED
      BY <1>1, <2>10, <2>11, <2>12
  <1> QED
    BY <1>4, <1>5

-----------------------------------------------------------------------------
(* Scheduler::Run.                                                         *)

\* Where a thread that is not running has left its stack pointer (i386), and what
\* the switch from current to u may write.
SavedDepth(u) == IF InC(u) THEN CallDepth(u) - 3 ELSE WordsOfStack - 5
Written(u) ==
    {eax_save} \cup {Object(current, 4 * k) : k \in 0..18}
        \cup (IF arch = "i386"
              THEN {StackWord(current, CallDepth(current) - n) : n \in 1..3}
                       \cup {StackWord(u, SavedDepth(u) + 1)}
              ELSE {})

\* Calling SWITCH and running it: what becomes of the registers of both threads.
LEMMA SwitchEffect ==
    ASSUME SwitchTypeOK, RunningExact, OthersExact, pc = InRun, NEW u \in made \ {current}
    PROVE  LET m == RunCode(CallSWITCH(u), SWITCH)
           IN  /\ DOMAIN m.cpu = Registers /\ DOMAIN m.memory = MemoryWords
               /\ \A a \in MemoryWords \ Written(u) : m.memory[a] = memory[a]
               /\ \A r \in CalleeSaved \ {"sp"} :
                    /\ m.memory[Object(current, Offset(r))] = cpu[r]
                    /\ m.cpu[r] = memory[Object(u, Offset(r))]
               /\ m.cpu["sp"] = memory[Object(u, 0)]
               /\ arch = "i386" =>
                    /\ m.memory[Object(current, 0)] = StackWord(current, CallDepth(current) - 3)
                    /\ m.memory[StackWord(current, CallDepth(current) - 3)] = InRun
                    /\ m.cpu["ecx"] = memory[Object(u, Offset("ecx"))]
                    /\ m.cpu["edx"] = memory[Object(u, Offset("edx"))]
               /\ arch # "i386" =>
                    /\ m.memory[Object(current, 0)] = cpu["sp"]
                    /\ m.memory[Object(current, Offset(ReturnTo[arch]))] = InRun
                    /\ m.cpu[ReturnTo[arch]] = memory[Object(u, Offset(ReturnTo[arch]))]
  <1>1. /\ arch \in {"MIPS", "SNAKE", "i386"} /\ current \in KThread /\ u \in KThread /\ u # current
        /\ DOMAIN cpu = Registers /\ DOMAIN memory = MemoryWords
        /\ WordsOfStack \in Nat /\ WordsOfStack > 16
    BY SwitchAssumption DEF SwitchTypeOK
  <1>2. CASE arch # "i386"
    <2> DEFINE S == Slots[arch]
               L == Len(S)
               A == Argument[arch]
               B == Second[arch]
               X == ReturnTo[arch]
               c == [[[cpu EXCEPT ![A] = Object(current, 0)] EXCEPT ![B] = Object(u, 0)] EXCEPT ![X] = InRun]
               m == RunCode(CallSWITCH(u), SWITCH)
    <2>1. /\ L \in 11..18 /\ DOMAIN S = 1..L /\ S[1] = "sp" /\ S[L] = X
          /\ \A k \in 1..L : S[k] \in Registers /\ S[k] \notin {A, B}
          /\ {A, B} \subseteq Registers /\ A # B
          /\ \A r \in CalleeSaved : \E k \in 1..(L - 1) : r = S[k]
          /\ \A k \in 1..(L - 1) : S[k] \in CalleeSaved
          /\ X \notin CalleeSaved
      BY <1>1, <1>2, SlotsRisc
    <2>2. \A k \in 1..L : Offset(S[k]) = 4 * (k - 1)
      BY <1>1, <2>1, SlotOffsets
    <2>3. CallSWITCH(u) = [cpu |-> c, memory |-> memory]
      BY <1>2 DEF CallSWITCH
    <2> HIDE DEF A, B, X, S, L
    <2>4. X \in Registers /\ X \notin {A, B}
      BY <2>1
    <2>5. /\ DOMAIN c = Registers /\ c[A] = Object(current, 0) /\ c[B] = Object(u, 0) /\ c[X] = InRun
          /\ \A r \in Registers \ {A, B, X} : c[r] = cpu[r]
      BY <1>1, <2>1, <2>4
    <2> HIDE DEF c
    <2>6. /\ DOMAIN m.cpu = Registers /\ DOMAIN m.memory = MemoryWords
          /\ \A k \in DOMAIN S : m.memory[Object(current, 4 * (k - 1))] = c[S[k]]
          /\ \A a \in MemoryWords :
                (\A k \in DOMAIN S : a # Object(current, 4 * (k - 1))) => m.memory[a] = memory[a]
          /\ \A k \in DOMAIN S : m.cpu[S[k]] = memory[Object(u, 4 * (k - 1))]
      <3>1. c[Argument[arch]] = Object(current, 0) /\ c[Second[arch]] = Object(u, 0)
        BY <2>5 DEF A, B
      <3>2. arch \in {"MIPS", "SNAKE"}
        BY <1>1, <1>2
      <3> DEFINE n == RunCode([cpu |-> c, memory |-> memory], SWITCH)
      <3>3. /\ DOMAIN n.cpu = Registers /\ DOMAIN n.memory = MemoryWords
            /\ \A k \in DOMAIN S : n.memory[Object(current, 4 * (k - 1))] = c[S[k]]
            /\ \A a \in MemoryWords :
                (\A k \in DOMAIN S : a # Object(current, 4 * (k - 1))) => n.memory[a] = memory[a]
            /\ \A k \in DOMAIN S : n.cpu[S[k]] = memory[Object(u, 4 * (k - 1))]
        BY <1>1, <2>5, <3>1, <3>2, SwitchRisc DEF S
      <3>4. m = n
        BY <2>3, Zenon
      <3> HIDE DEF m, n
      <3> QED
        BY <3>3, <3>4
    <2> HIDE DEF m
    <2>7. \A a \in MemoryWords \ Written(u) : m.memory[a] = memory[a]
      <3> SUFFICES ASSUME NEW a \in MemoryWords \ Written(u) PROVE m.memory[a] = memory[a]
        OBVIOUS
      <3>1. \A j \in 0..18 : a # Object(current, 4 * j)
        BY DEF Written
      <3>2. \A k \in DOMAIN S : k - 1 \in 0..18
        <4>1. \A k \in 1..L : k - 1 \in 0..18
          BY <2>1
        <4> QED
          BY <2>1, <4>1
      <3> QED
        BY <2>6, <3>1, <3>2
    <2>8. \A r \in CalleeSaved \ {"sp"} :
            /\ m.memory[Object(current, Offset(r))] = cpu[r]
            /\ m.cpu[r] = memory[Object(u, Offset(r))]
      <3> SUFFICES ASSUME NEW r \in CalleeSaved \ {"sp"}
                   PROVE  /\ m.memory[Object(current, Offset(r))] = cpu[r]
                          /\ m.cpu[r] = memory[Object(u, Offset(r))]
        OBVIOUS
      <3>1. PICK k \in 1..(L - 1) : r = S[k]
        BY <2>1
      <3>2. k \in 1..L
        BY <2>1
      <3>3. c[S[k]] = cpu[S[k]]
        BY <2>1, <2>5, <3>1, <3>2
      <3> QED
        BY <2>1, <2>2, <2>6, <3>1, <3>2, <3>3
    <2>9. /\ m.memory[Object(current, 0)] = cpu["sp"] /\ m.cpu["sp"] = memory[Object(u, 0)]
      <3>1. 1 \in 1..L /\ 1 \in 1..(L - 1) /\ 4 * (1 - 1) = 0
        BY <2>1
      <3>2. c["sp"] = cpu["sp"]
        BY <2>1, <2>5, <3>1
      <3>3. m.memory[Object(current, 4 * (1 - 1))] = c["sp"] /\ m.cpu["sp"] = memory[Object(u, 4 * (1 - 1))]
        BY <2>1, <2>6, <3>1, Zenon
      <3> QED
        BY <3>1, <3>2, <3>3
    <2>10. /\ m.memory[Object(current, Offset(X))] = InRun
           /\ m.cpu[X] = memory[Object(u, Offset(X))]
      <3>1. L \in 1..L
        BY <2>1
      <3> QED
        BY <2>1, <2>2, <2>5, <2>6, <3>1
    <2> QED
      BY <1>2, <2>6, <2>7, <2>8, <2>9, <2>10 DEF m, X
  <1>3. CASE arch = "i386"
    <2> DEFINE D == CallDepth(current)
               v == SavedDepth(u)
               c1 == [cpu EXCEPT !["sp"] = Minus4(@)]
               w1 == [memory EXCEPT ![Minus4(cpu["sp"])] = Object(u, 0)]
               c2 == [c1 EXCEPT !["sp"] = Minus4(@)]
               w2 == [w1 EXCEPT ![Minus4(c1["sp"])] = Object(current, 0)]
               c == [c2 EXCEPT !["sp"] = Minus4(@)]
               w == [w2 EXCEPT ![Minus4(c2["sp"])] = InRun]
               m == RunCode(CallSWITCH(u), SWITCH)
    <2>1. /\ D \in 4..(WordsOfStack - 1) /\ v \in 0..(WordsOfStack - 2)
          /\ cpu["sp"] = StackWord(current, D) /\ memory[Object(u, 0)] = StackWord(u, v)
      <3>1. D \in {WordsOfStack - 1, WordsOfStack - 7} /\ cpu["sp"] = StackWord(current, D)
        BY <1>3 DEF RunningExact, CallDepth
      <3>2. CASE InC(u)
        <4>1. v = CallDepth(u) - 3 /\ CallDepth(u) \in {WordsOfStack - 1, WordsOfStack - 7}
          BY <3>2 DEF SavedDepth, CallDepth
        <4>2. memory[Object(u, 0)] = StackWord(u, v)
          BY <1>3, <3>2 DEF OthersExact, SavedExact, SavedDepth
        <4> HIDE DEF D, v
        <4> QED
          BY <1>1, <3>1, <4>1, <4>2
      <3>3. CASE ~InC(u)
        <4>1. v = WordsOfStack - 5
          BY <3>3 DEF SavedDepth
        <4>2. memory[Object(u, 0)] = StackWord(u, v)
          BY <1>3, <3>3 DEF OthersExact, FreshExact, SavedDepth
        <4> HIDE DEF D, v
        <4> QED
          BY <1>1, <3>1, <4>1, <4>2
      <3> QED
        BY <3>2, <3>3
    <2>2. CallSWITCH(u) = [cpu |-> c, memory |-> w]
      BY <1>3 DEF CallSWITCH
    <2> HIDE DEF D, v
    <2> DEFINE W(n) == StackWord(current, n)
    <2>3. /\ \A n \in Int, k \in Int : W(n) = W(k) => n = k
          /\ \A n \in Int : Minus4(W(n)) = W(n - 1)
          /\ \A n \in Int : \A x, k : W(n) # Object(x, k)
          /\ \A n \in Int : W(n) # eax_save /\ \A k : W(n) # StackWord(u, k)
      BY <1>1 DEF Minus4, StackWord, Object, eax_save
    <2>4. W(D - 1) \in MemoryWords /\ W(D - 2) \in MemoryWords /\ W(D - 3) \in MemoryWords
      <3>1. D - 1 \in 0..(WordsOfStack - 1) /\ D - 2 \in 0..(WordsOfStack - 1) /\ D - 3 \in 0..(WordsOfStack - 1)
        BY <1>1, <2>1
      <3> QED
        BY <1>1, <3>1, WordsThere
    <2>5. /\ D \in Int /\ D - 1 \in Int /\ D - 2 \in Int /\ D - 3 \in Int
          /\ (D - 1) - 1 = D - 2 /\ (D - 2) - 1 = D - 3
          /\ D - 1 # D - 2 /\ D - 1 # D - 3 /\ D - 2 # D - 3
      BY <2>1
    <2>6. /\ Minus4(W(D)) = W(D - 1) /\ Minus4(W(D - 1)) = W(D - 2) /\ Minus4(W(D - 2)) = W(D - 3)
          /\ W(D - 1) # W(D - 2) /\ W(D - 1) # W(D - 3) /\ W(D - 2) # W(D - 3)
      <3> HIDE DEF W
      <3> QED
        BY <2>3, <2>5
    <2>7. /\ {"sp", "ebx", "ebp", "esi", "edi", "ecx", "edx"} \subseteq Registers
          /\ CalleeSaved = {"sp", "ebx", "ebp", "esi", "edi"} /\ Offset("sp") = 0
      BY <1>3, Offsets386
    <2>0. cpu["sp"] = W(D)
      BY <2>1
    <2> HIDE DEF W
    <2>8. /\ DOMAIN c1 = Registers /\ c1["sp"] = W(D - 1) /\ DOMAIN w1 = MemoryWords
          /\ w1[W(D - 1)] = Object(u, 0)
          /\ \A r \in Registers \ {"sp"} : c1[r] = cpu[r]
          /\ \A a \in MemoryWords : a # W(D - 1) => w1[a] = memory[a]
      BY <1>1, <2>0, <2>4, <2>6, <2>7
    <2> HIDE DEF c1, w1
    <2>9. /\ DOMAIN c2 = Registers /\ c2["sp"] = W(D - 2) /\ DOMAIN w2 = MemoryWords
          /\ w2[W(D - 1)] = Object(u, 0) /\ w2[W(D - 2)] = Object(current, 0)
          /\ \A r \in Registers \ {"sp"} : c2[r] = cpu[r]
          /\ \A a \in MemoryWords : a \notin {W(D - 1), W(D - 2)} => w2[a] = memory[a]
      BY <2>4, <2>6, <2>7, <2>8
    <2> HIDE DEF c2, w2
    <2>10. /\ DOMAIN c = Registers /\ c["sp"] = W(D - 3) /\ DOMAIN w = MemoryWords
           /\ w[W(D - 1)] = Object(u, 0) /\ w[W(D - 2)] = Object(current, 0) /\ w[W(D - 3)] = InRun
           /\ \A r \in Registers \ {"sp"} : c[r] = cpu[r]
           /\ \A a \in MemoryWords : a \notin {W(D - 1), W(D - 2), W(D - 3)} => w[a] = memory[a]
      BY <2>4, <2>6, <2>7, <2>9
    <2> HIDE DEF c, w
    <2> DEFINE s == D - 3
    <2>11. /\ s \in 0..(WordsOfStack - 3) /\ s + 1 = D - 2 /\ s + 2 = D - 1
           /\ c["sp"] = StackWord(current, s) /\ w[StackWord(current, s)] = InRun
           /\ w[StackWord(current, s + 1)] = Object(current, 0)
           /\ w[StackWord(current, s + 2)] = Object(u, 0)
      <3>1. s \in 0..(WordsOfStack - 3) /\ s + 1 = D - 2 /\ s + 2 = D - 1
        BY <1>1, <2>1
      <3> QED
        BY <2>10, <3>1 DEF W
    <2>12. /\ \A a \in MemoryWords \ Written(u) : w[a] = memory[a]
           /\ \A k : Object(u, k) \in MemoryWords => w[Object(u, k)] = memory[Object(u, k)]
      <3>1. W(D - 1) \in Written(u) /\ W(D - 2) \in Written(u) /\ W(D - 3) \in Written(u)
        <4>1. \A n \in 1..3 : StackWord(current, D - n) \in Written(u)
          BY <1>3 DEF Written, D
        <4> QED
          BY <4>1 DEF W
      <3>2. \A k : Object(u, k) # W(D - 1) /\ Object(u, k) # W(D - 2) /\ Object(u, k) # W(D - 3)
        BY <2>3, <2>5
      <3> QED
        BY <2>10, <3>1, <3>2
    <2>13. \A k \in 0..8 : Object(u, 4 * k) \in MemoryWords
      BY <1>1, WordsThere
    <2>14. w[Object(u, 0)] = StackWord(u, v)
      <3>1. Object(u, 4 * 0) \in MemoryWords /\ 4 * 0 = 0
        BY <2>13
      <3> QED
        BY <2>1, <2>12, <3>1
    <2>15. /\ DOMAIN m.cpu = Registers /\ DOMAIN m.memory = MemoryWords
           /\ \A r \in CalleeSaved : m.memory[Object(current, Offset(r))] = c[r]
           /\ \A a \in MemoryWords :
                a # eax_save /\ a # StackWord(u, v + 1) /\ (\A k \in 0..8 : a # Object(current, 4 * k))
                  => m.memory[a] = w[a]
           /\ \A r \in CalleeSaved \cup {"ecx", "edx"} : m.cpu[r] = w[Object(u, Offset(r))]
      <3> DEFINE n == RunCode([cpu |-> c, memory |-> w], SWITCH)
      <3>1. m = n
        BY <2>2, Zenon
      <3>2. /\ DOMAIN n.cpu = Registers /\ DOMAIN n.memory = MemoryWords
            /\ \A r \in CalleeSaved : n.memory[Object(current, Offset(r))] = c[r]
            /\ \A a \in MemoryWords :
                a # eax_save /\ a # StackWord(u, v + 1) /\ (\A k \in 0..8 : a # Object(current, 4 * k))
                  => n.memory[a] = w[a]
            /\ \A r \in CalleeSaved \cup {"ecx", "edx"} : n.cpu[r] = w[Object(u, Offset(r))]
        <4>1. /\ arch = "i386" /\ current \in KThread /\ u \in KThread /\ current # u
              /\ DOMAIN c = Registers /\ DOMAIN w = MemoryWords
              /\ s \in 0..(WordsOfStack - 3) /\ v \in 0..(WordsOfStack - 2)
              /\ c["sp"] = StackWord(current, s) /\ w[StackWord(current, s)] = InRun
              /\ w[StackWord(current, s + 1)] = Object(current, 0)
              /\ w[StackWord(current, s + 2)] = Object(u, 0)
              /\ w[Object(u, 0)] = StackWord(u, v)
          BY <1>1, <1>3, <2>1, <2>10, <2>11, <2>14
        <4> HIDE DEF s
        <4> QED
          BY <4>1, Switch386
      <3> HIDE DEF m, n
      <3> QED
        BY <3>1, <3>2
    <2> HIDE DEF m
    <2>16. \A a \in MemoryWords \ Written(u) : m.memory[a] = memory[a]
      <3> SUFFICES ASSUME NEW a \in MemoryWords \ Written(u) PROVE m.memory[a] = memory[a]
        OBVIOUS
      <3>1. a # eax_save /\ a # StackWord(u, v + 1) /\ \A k \in 0..18 : a # Object(current, 4 * k)
        BY <1>3 DEF Written, v
      <3>2. \A k \in 0..8 : k \in 0..18
        OBVIOUS
      <3> QED
        BY <2>12, <2>15, <3>1, <3>2
    <2>17. \A r \in CalleeSaved \cup {"ecx", "edx"} :
                /\ Object(u, Offset(r)) \in MemoryWords
                /\ m.cpu[r] = memory[Object(u, Offset(r))]
      <3>1. \A r \in CalleeSaved \cup {"ecx", "edx"} : \E k \in 0..8 : Offset(r) = 4 * k
        <4>1. /\ Offset("sp") = 4 * 0 /\ Offset("ebx") = 4 * 2 /\ Offset("ecx") = 4 * 3 /\ Offset("edx") = 4 * 4
              /\ Offset("ebp") = 4 * 5 /\ Offset("esi") = 4 * 6 /\ Offset("edi") = 4 * 7
          BY <1>3, Offsets386
        <4> QED
          BY <2>7, <4>1
      <3> QED
        BY <2>12, <2>13, <2>15, <3>1
    <2>18. \A r \in CalleeSaved \ {"sp"} : m.memory[Object(current, Offset(r))] = cpu[r]
      BY <2>7, <2>10, <2>15
    <2>19. m.memory[Object(current, 0)] = StackWord(current, D - 3)
      BY <2>7, <2>11, <2>15
    <2>20. m.memory[StackWord(current, D - 3)] = InRun
      <3>1. /\ W(D - 3) # eax_save /\ W(D - 3) # StackWord(u, v + 1)
            /\ \A k \in 0..8 : W(D - 3) # Object(current, 4 * k)
        BY <2>3, <2>5
      <3>2. m.memory[W(D - 3)] = InRun
        BY <2>4, <2>10, <2>15, <3>1
      <3> QED
        BY <3>2 DEF W
    <2>21. m.cpu["sp"] = memory[Object(u, 0)] /\ m.cpu["ecx"] = memory[Object(u, Offset("ecx"))]
           /\ m.cpu["edx"] = memory[Object(u, Offset("edx"))]
      BY <2>7, <2>17
    <2> QED
      BY <1>3, <2>15, <2>16, <2>17, <2>18, <2>19, <2>20, <2>21 DEF m, D
  <1> QED
    BY <1>2, <1>3

-----------------------------------------------------------------------------
(* StackAllocate.                                                          *)

ReturnSlot == IF arch = "i386" THEN "pc" ELSE ReturnTo[arch]

\* The slots that StackAllocate fills are different ones.
LEMMA RootOffsets ==
    ASSUME arch \in {"MIPS", "SNAKE", "i386"}
    PROVE  LET F == <<ReturnSlot, StartupPC[arch], InitialPC[arch], InitialArg[arch], WhenDonePC[arch]>>
           IN  /\ \A i \in 1..5 : \E k \in 1..18 : Offset(F[i]) = 4 * k
               /\ \A i \in 1..5, j \in 1..5 : Offset(F[i]) = Offset(F[j]) => i = j
  <1> DEFINE F == <<ReturnSlot, StartupPC[arch], InitialPC[arch], InitialArg[arch], WhenDonePC[arch]>>
             at5(i) == IF arch = "MIPS" THEN <<11, 5, 2, 3, 4>>[i]
                       ELSE IF arch = "SNAKE" THEN <<18, 5, 2, 3, 4>>[i] ELSE <<9, 4, 7, 5, 8>>[i]
  <1>1. \A i \in 1..5 : at5(i) \in 2..18 /\ \A j \in 1..5 : at5(i) = at5(j) => i = j
    OBVIOUS
  <1>2. \A i \in 1..5 : at5(i) \in DOMAIN Slots[arch] /\ Slots[arch][at5(i)] = F[i]
    <2>1. \A i \in 1..5 : i \in {1, 2, 3, 4, 5}
      OBVIOUS
    <2>2. CASE arch = "MIPS"
      BY <2>1, <2>2 DEF Slots, ReturnSlot, ReturnTo, StartupPC, InitialPC, InitialArg, WhenDonePC
    <2>3. CASE arch = "SNAKE"
      BY <2>1, <2>3 DEF Slots, ReturnSlot, ReturnTo, StartupPC, InitialPC, InitialArg, WhenDonePC
    <2>4. CASE arch = "i386"
      BY <2>1, <2>4 DEF Slots, ReturnSlot, ReturnTo, StartupPC, InitialPC, InitialArg, WhenDonePC
    <2> QED
      BY <2>2, <2>3, <2>4
  <1> HIDE DEF F, at5
  <1>3. \A i \in 1..5 : Offset(F[i]) = 4 * (at5(i) - 1)
    BY <1>2, SlotOffsets
  <1>4. \A i \in 1..5 : \E k \in 1..18 : Offset(F[i]) = 4 * k
    <2>1. \A i \in 1..5 : at5(i) - 1 \in 1..18
      BY <1>1
    <2> QED
      BY <1>3, <2>1
  <1>5. \A i \in 1..5, j \in 1..5 : Offset(F[i]) = Offset(F[j]) => i = j
    <2>1. \A i \in 1..5, j \in 1..5 : 4 * (at5(i) - 1) = 4 * (at5(j) - 1) => at5(i) = at5(j)
      BY <1>1
    <2> QED
      BY <1>1, <1>3, <2>1
  <1> QED
    BY <1>4, <1>5 DEF F

\* What StackAllocate leaves in the memory.
LEMMA PreparedEffect ==
    ASSUME SwitchTypeOK, NEW t \in KThread
    PROVE  LET w == Prepared(t)
           IN  /\ DOMAIN w = MemoryWords
               /\ \A a \in MemoryWords :
                    (\A k \in 0..18 : a # Object(t, 4 * k)) /\ (\A n \in 0..(WordsOfStack - 1) : a # StackWord(t, n))
                      => w[a] = memory[a]
               /\ w[FenceWord(t)] = Fencepost
               /\ w[Object(t, Offset(StartupPC[arch]))] = InterruptEnable
               /\ w[Object(t, Offset(InitialPC[arch]))] = Func
               /\ w[Object(t, Offset(InitialArg[arch]))] = arg(t)
               /\ w[Object(t, Offset(WhenDonePC[arch]))] = ThreadFinish
               /\ w[Object(t, Offset(ReturnSlot))] = RootAt(0)
               /\ arch = "i386" => /\ w[Object(t, 0)] = StackWord(t, WordsOfStack - 5)
                                   /\ w[StackWord(t, WordsOfStack - 5)] = RootAt(0)
  <1> DEFINE F == <<ReturnSlot, StartupPC[arch], InitialPC[arch], InitialArg[arch], WhenDonePC[arch]>>
             field(i) == Object(t, Offset(F[i]))
             entry == IF arch = "i386" THEN Minus4(StackTop(t)) ELSE StackTop(t)
             fence == FenceWord(t)
             obj == Object(t, 0)
             w == Prepared(t)
  <1>1. /\ arch \in {"MIPS", "SNAKE", "i386"} /\ DOMAIN memory = MemoryWords
        /\ WordsOfStack \in Nat /\ WordsOfStack > 16
    BY SwitchAssumption DEF SwitchTypeOK
  <1>2. w = [a \in MemoryWords |->
                IF arch = "i386" /\ a = entry THEN Code("ThreadRoot", 0)
                ELSE IF a = fence THEN Fencepost
                ELSE IF a = obj THEN entry
                ELSE IF a = field(1) THEN Code("ThreadRoot", 0)
                ELSE IF a = field(2) THEN InterruptEnable
                ELSE IF a = field(3) THEN Func
                ELSE IF a = field(4) THEN arg(t)
                ELSE IF a = field(5) THEN ThreadFinish
                ELSE memory[a]]
    BY <1>1 DEF Prepared, ReturnSlot
  <1>3. /\ \A i \in 1..5 : \E k \in 1..18 : field(i) = Object(t, 4 * k)
        /\ \A i \in 1..5, j \in 1..5 : field(i) = field(j) => i = j
    <2>1. /\ \A i \in 1..5 : \E k \in 1..18 : Offset(F[i]) = 4 * k
          /\ \A i \in 1..5, j \in 1..5 : Offset(F[i]) = Offset(F[j]) => i = j
      BY <1>1, RootOffsets
    <2>2. \A x, y : Object(t, x) = Object(t, y) => x = y
      BY DEF Object
    <2> HIDE DEF F
    <2> QED
      BY <2>1, <2>2
  <1>4. /\ \A k \in 1..18 : Object(t, 4 * k) # obj /\ Object(t, 4 * k) \in MemoryWords
        /\ obj \in MemoryWords /\ obj = Object(t, 4 * 0)
    <2>1. obj = Object(t, 4 * 0)
      OBVIOUS
    <2>2. \A k \in 0..18 : Object(t, 4 * k) \in MemoryWords
      BY WordsThere
    <2>3. \A k \in 1..18 : Object(t, 4 * k) # obj
      BY DEF Object
    <2> QED
      BY <2>1, <2>2, <2>3
  <1>5. /\ \E n \in 0..(WordsOfStack - 1) : fence = StackWord(t, n)
        /\ \E n \in 0..(WordsOfStack - 1) : entry = StackWord(t, n)
        /\ arch = "i386" => entry = StackWord(t, WordsOfStack - 5) /\ entry # fence
    <2>1. CASE arch = "i386"
      <3>1. entry = StackWord(t, WordsOfStack - 5)
        BY <1>1, <2>1 DEF StackTop, Minus4, StackWord
      <3>2. fence = StackWord(t, 0)
        BY <2>1 DEF FenceWord
      <3>3. StackWord(t, WordsOfStack - 5) # StackWord(t, 0)
        BY <1>1 DEF StackWord
      <3>4. 0 \in 0..(WordsOfStack - 1) /\ WordsOfStack - 5 \in 0..(WordsOfStack - 1)
        BY <1>1
      <3> QED
        BY <3>1, <3>2, <3>3, <3>4
    <2>2. CASE arch # "i386"
      <3>1. 0 \in 0..(WordsOfStack - 1) /\ WordsOfStack - 1 \in 0..(WordsOfStack - 1)
            /\ 16 \in 0..(WordsOfStack - 1) /\ WordsOfStack - 4 \in 0..(WordsOfStack - 1)
        BY <1>1
      <3> QED
        BY <2>2, <3>1 DEF FenceWord, StackTop
    <2> QED
      BY <2>1, <2>2
  <1>6. \A n, k : StackWord(t, n) # Object(t, k)
    BY DEF StackWord, Object
  <1>7. \A n \in 0..(WordsOfStack - 1) : StackWord(t, n) \in MemoryWords
    BY WordsThere
  <1>8. RootAt(0) = Code("ThreadRoot", 0)
    BY DEF RootAt
  <1> HIDE DEF w, fence, entry, obj, F
  <1>9. DOMAIN w = MemoryWords
    BY <1>2
  <1>10. ASSUME NEW a \in MemoryWords, \A k \in 0..18 : a # Object(t, 4 * k),
                \A n \in 0..(WordsOfStack - 1) : a # StackWord(t, n)
         PROVE  w[a] = memory[a]
    <2>1. \A i \in 1..5 : a # field(i)
      <3>1. \A k \in 1..18 : k \in 0..18
        OBVIOUS
      <3> HIDE DEF field
      <3> QED
        BY <1>3, <1>10, <3>1
    <2>2. a # obj /\ a # fence /\ a # entry
      BY <1>4, <1>5, <1>10
    <2>3. a # field(1) /\ a # field(2) /\ a # field(3) /\ a # field(4) /\ a # field(5)
      <3> HIDE DEF field
      <3> QED
        BY <2>1
    <2> HIDE DEF field
    <2> QED
      BY <1>2, <2>2, <2>3
  <1>11. w[fence] = Fencepost
    BY <1>2, <1>5, <1>7
  <1>12. /\ \A i \in 1..5 : field(i) # obj /\ field(i) # fence /\ field(i) # entry /\ field(i) \in MemoryWords
         /\ obj # fence /\ obj # entry
    <2> HIDE DEF field
    <2>1. \A i \in 1..5 : field(i) # obj /\ field(i) \in MemoryWords
      BY <1>3, <1>4
    <2>2. \A i \in 1..5 : field(i) # fence /\ field(i) # entry
      BY <1>3, <1>5, <1>6
    <2>3. obj # fence /\ obj # entry
      BY <1>4, <1>5, <1>6
    <2> QED
      BY <2>1, <2>2, <2>3
  <1>13. /\ field(1) # field(2) /\ field(1) # field(3) /\ field(1) # field(4) /\ field(1) # field(5)
         /\ field(2) # field(3) /\ field(2) # field(4) /\ field(2) # field(5)
         /\ field(3) # field(4) /\ field(3) # field(5) /\ field(4) # field(5)
    <2> HIDE DEF field
    <2> QED
      BY <1>3
  <1>14. /\ w[field(1)] = RootAt(0) /\ w[field(2)] = InterruptEnable /\ w[field(3)] = Func
         /\ w[field(4)] = arg(t) /\ w[field(5)] = ThreadFinish
    <2>1. \A i \in {1, 2, 3, 4, 5} : field(i) # obj /\ field(i) # fence /\ field(i) # entry /\ field(i) \in MemoryWords
      <3>1. \A i \in {1, 2, 3, 4, 5} : i \in 1..5
        OBVIOUS
      <3> HIDE DEF field
      <3> QED
        BY <1>12, <3>1
    <2> HIDE DEF field
    <2> QED
      BY <1>2, <1>8, <1>13, <2>1
  <1>15. ASSUME arch = "i386" PROVE w[obj] = entry /\ w[entry] = RootAt(0)
    <2>1. entry \in MemoryWords
      BY <1>5, <1>7
    <2> HIDE DEF field
    <2> QED
      BY <1>2, <1>4, <1>8, <1>12, <1>15, <2>1
  <1>16. /\ F[1] = ReturnSlot /\ F[2] = StartupPC[arch] /\ F[3] = InitialPC[arch]
         /\ F[4] = InitialArg[arch] /\ F[5] = WhenDonePC[arch]
    BY DEF F
  <1>17. /\ w[Object(t, Offset(StartupPC[arch]))] = InterruptEnable
         /\ w[Object(t, Offset(InitialPC[arch]))] = Func
         /\ w[Object(t, Offset(InitialArg[arch]))] = arg(t)
         /\ w[Object(t, Offset(WhenDonePC[arch]))] = ThreadFinish
         /\ w[Object(t, Offset(ReturnSlot))] = RootAt(0)
    BY <1>14, <1>16, Zenon
  <1>18. arch = "i386" => /\ w[Object(t, 0)] = StackWord(t, WordsOfStack - 5)
                          /\ w[StackWord(t, WordsOfStack - 5)] = RootAt(0)
    BY <1>5, <1>15, Zenon DEF obj
  <1>19. \A a \in MemoryWords :
            (\A k \in 0..18 : a # Object(t, 4 * k)) /\ (\A n \in 0..(WordsOfStack - 1) : a # StackWord(t, n))
                => w[a] = memory[a]
    BY <1>10, Zenon
  <1> QED
    BY <1>9, <1>11, <1>17, <1>18, <1>19, Zenon DEF w, fence

-----------------------------------------------------------------------------
(* What a step leaves alone.                                               *)

\* Every register the proofs look up in a Thread object has a slot there.
LEMMA SlotWords ==
    ASSUME arch \in {"MIPS", "SNAKE", "i386"},
           NEW r \in CalleeSaved \cup {ReturnSlot, StartupPC[arch], InitialPC[arch], InitialArg[arch],
                                       WhenDonePC[arch]}
    PROVE  \E k \in 0..18 : Offset(r) = 4 * k
  <1>1. CASE r \in CalleeSaved
    <2>1. \E k \in DOMAIN Slots[arch] : r = Slots[arch][k] /\ k - 1 \in 0..18
      <3>1. CASE arch # "i386"
        <4>1. PICK k \in 1..(Len(Slots[arch]) - 1) : r = Slots[arch][k]
          BY <1>1, <3>1, SlotsRisc
        <4>2. Len(Slots[arch]) \in 11..18 /\ DOMAIN Slots[arch] = 1..Len(Slots[arch])
          BY <3>1, SlotsRisc
        <4>3. k \in 1..Len(Slots[arch]) /\ k - 1 \in 0..18
          BY <4>1, <4>2
        <4> QED
          BY <4>1, <4>2, <4>3
      <3>2. CASE arch = "i386"
        <4>1. /\ DOMAIN Slots[arch] = 1..9 /\ Slots[arch][1] = "sp" /\ Slots[arch][3] = "ebx"
              /\ Slots[arch][6] = "ebp" /\ Slots[arch][7] = "esi" /\ Slots[arch][8] = "edi"
          BY <3>2 DEF Slots
        <4>2. r \in {"sp", "ebx", "ebp", "esi", "edi"}
          BY <1>1, <3>2, Offsets386
        <4> QED
          BY <4>1, <4>2
      <3> QED
        BY <3>1, <3>2
    <2>2. PICK k \in DOMAIN Slots[arch] : r = Slots[arch][k] /\ k - 1 \in 0..18
      BY <2>1
    <2>3. Offset(r) = 4 * (k - 1)
      BY <2>2, SlotOffsets
    <2> QED
      BY <2>2, <2>3
  <1>2. CASE r \notin CalleeSaved
    <2> DEFINE F == <<ReturnSlot, StartupPC[arch], InitialPC[arch], InitialArg[arch], WhenDonePC[arch]>>
    <2>1. \A i \in 1..5 : \E k \in 1..18 : Offset(F[i]) = 4 * k
      BY RootOffsets
    <2>2. \E i \in 1..5 : r = F[i]
      BY <1>2
    <2>3. \A k \in 1..18 : k \in 0..18
      OBVIOUS
    <2> HIDE DEF F
    <2> QED
      BY <2>1, <2>2, <2>3
  <1> QED
    BY <1>1, <1>2

\* The host does not change.
LEMMA ArchKept ==
    ASSUME arch' = arch
    PROVE  /\ CalleeSaved' = CalleeSaved /\ Registers' = Registers
           /\ \A r : Offset(r)' = Offset(r)
           /\ \A p : RootAt(p)' = RootAt(p)
           /\ \A t : FenceWord(t)' = FenceWord(t)
           /\ ReturnSlot' = ReturnSlot
  BY DEF CalleeSaved, Registers, Offset, RootAt, FenceWord, ReturnSlot

(***************************************************************************)
(* A thread whose history and whose words of the memory a step leaves      *)
(* alone is as exact after it as before.                                   *)
(***************************************************************************)
LEMMA ThreadKept ==
    ASSUME arch \in {"MIPS", "SNAKE", "i386"}, arch' = arch, NEW t \in KThread,
           owed'[t] = owed[t], calls'[t] = calls[t], frame'[t] = frame[t],
           \A k \in 0..18 : memory'[Object(t, 4 * k)] = memory[Object(t, 4 * k)],
           arch = "i386" => \A n \in {WordsOfStack - 7, WordsOfStack - 5, CallDepth(t) - 3} :
                                memory'[StackWord(t, n)] = memory[StackWord(t, n)]
    PROVE  /\ Steps(t)' = Steps(t) /\ InC(t)' = InC(t)
           /\ SavedExact(t) => SavedExact(t)'
           /\ FreshExact(t) => FreshExact(t)'
           /\ FrameExact(t) => FrameExact(t)'
  <1>1. Steps(t)' = Steps(t) /\ InC(t)' = InC(t)
    BY DEF Steps, InC
  <1>2. /\ CalleeSaved' = CalleeSaved /\ ReturnSlot' = ReturnSlot
        /\ \A r : Offset(r)' = Offset(r)
        /\ RootAt(0)' = RootAt(0) /\ RootAt(2)' = RootAt(2)
    BY ArchKept
  <1>3. \A r \in CalleeSaved \cup {ReturnSlot, StartupPC[arch], InitialPC[arch], InitialArg[arch],
                                   WhenDonePC[arch]} :
            memory'[Object(t, Offset(r))] = memory[Object(t, Offset(r))]
    BY SlotWords
  <1>4. memory'[Object(t, 0)] = memory[Object(t, 0)]
    <2>1. 4 * 0 = 0 /\ 0 \in 0..18
      OBVIOUS
    <2> QED
      BY <2>1
  <1>5. arch # "i386" => ReturnSlot = ReturnTo[arch]
    BY DEF ReturnSlot
  <1>6. arch = "i386" => /\ memory'[StackWord(t, WordsOfStack - 7)] = memory[StackWord(t, WordsOfStack - 7)]
                         /\ memory'[StackWord(t, WordsOfStack - 5)] = memory[StackWord(t, WordsOfStack - 5)]
                         /\ memory'[StackWord(t, CallDepth(t) - 3)] = memory[StackWord(t, CallDepth(t) - 3)]
    OBVIOUS
  <1>7. ASSUME SavedExact(t) PROVE SavedExact(t)'
    <2>1. \A r \in CalleeSaved' \ {"sp"} : memory'[Object(t, Offset(r)')] = owed'[t][r]
      BY <1>2, <1>3, <1>7 DEF SavedExact
    <2>2. ASSUME arch = "i386"
          PROVE  /\ owed'[t]["sp"] = StackWord(t, CallDepth(t))
                 /\ memory'[Object(t, 0)] = StackWord(t, CallDepth(t) - 3)
                 /\ memory'[StackWord(t, CallDepth(t) - 3)] = InRun
      BY <1>4, <1>6, <1>7, <2>2, Zenon DEF SavedExact
    <2>3. ASSUME arch # "i386"
          PROVE  /\ memory'[Object(t, 0)] = owed'[t]["sp"]
                 /\ memory'[Object(t, Offset(ReturnTo[arch])')] = InRun
      BY <1>2, <1>3, <1>4, <1>5, <1>7, <2>3 DEF SavedExact
    <2> QED
      BY <2>1, <2>2, <2>3 DEF SavedExact
  <1>8. ASSUME FreshExact(t) PROVE FreshExact(t)'
    <2>1. /\ memory'[Object(t, Offset(StartupPC[arch])')] = InterruptEnable
          /\ memory'[Object(t, Offset(InitialPC[arch])')] = Func
          /\ memory'[Object(t, Offset(InitialArg[arch])')] = arg(t)
          /\ memory'[Object(t, Offset(WhenDonePC[arch])')] = ThreadFinish
      BY <1>2, <1>3, <1>8 DEF FreshExact
    <2>2. ASSUME arch = "i386"
          PROVE  /\ memory'[Object(t, 0)] = StackWord(t, WordsOfStack - 5)
                 /\ memory'[StackWord(t, WordsOfStack - 5)] = RootAt(0)
      BY <1>4, <1>6, <1>8, <2>2, Zenon DEF FreshExact
    <2>3. ASSUME arch # "i386" PROVE memory'[Object(t, Offset(ReturnTo[arch])')] = RootAt(0)
      BY <1>2, <1>3, <1>5, <1>8, <2>3 DEF FreshExact
    <2> QED
      BY <1>2, <2>1, <2>2, <2>3 DEF FreshExact
  <1>9. ASSUME FrameExact(t) PROVE FrameExact(t)'
    BY <1>2, <1>6, <1>9, Zenon DEF FrameExact
  <1> QED
    BY <1>1, <1>7, <1>8, <1>9

\* Words of different threads, and words of the fences.
LEMMA Apart ==
    /\ WordsOfStack \in Nat /\ WordsOfStack > 16
    /\ \A t, u : t # u => \A n, k : Object(t, n) # Object(u, k) /\ StackWord(t, n) # StackWord(u, k)
    /\ \A t, u, n, k : Object(t, n) # StackWord(u, k)
    /\ \A t, n : Object(t, n) # eax_save /\ StackWord(t, n) # eax_save
    /\ \A t : \A n \in Int, k \in Int : StackWord(t, n) = StackWord(t, k) => n = k
  BY SwitchAssumption DEF Object, StackWord, eax_save

LEMMA Kept386Words ==
    ASSUME NEW t \in KThread
    PROVE  /\ \A n \in {WordsOfStack - 7, WordsOfStack - 5, CallDepth(t) - 3} :
                n \in 1..(WordsOfStack - 1) /\ StackWord(t, n) \in MemoryWords
           /\ CallDepth(t) \in {WordsOfStack - 1, WordsOfStack - 7}
           /\ FenceWord(t) \in MemoryWords
           /\ FenceWord(t) = StackWord(t, IF arch = "SNAKE" THEN WordsOfStack - 1 ELSE 0)
  <1>1. WordsOfStack \in Nat /\ WordsOfStack > 16
    BY SwitchAssumption
  <1>2. CallDepth(t) \in {WordsOfStack - 1, WordsOfStack - 7}
    BY DEF CallDepth
  <1>3. \A n \in {WordsOfStack - 7, WordsOfStack - 5, CallDepth(t) - 3} :
            n \in 1..(WordsOfStack - 1) /\ n \in 0..(WordsOfStack - 1)
    BY <1>1, <1>2
  <1>4. \A n \in 0..(WordsOfStack - 1) : StackWord(t, n) \in MemoryWords
    BY WordsThere
  <1>5. 0 \in 0..(WordsOfStack - 1) /\ WordsOfStack - 1 \in 0..(WordsOfStack - 1)
    BY <1>1
  <1>6. FenceWord(t) = StackWord(t, IF arch = "SNAKE" THEN WordsOfStack - 1 ELSE 0)
    BY DEF FenceWord
  <1>7. FenceWord(t) \in MemoryWords
    BY <1>4, <1>5, <1>6
  <1> QED
    BY <1>2, <1>3, <1>4, <1>6, <1>7

-----------------------------------------------------------------------------
(* The invariant: initially, and after each action.                        *)

LEMMA InvInit == SwitchInit => SwitchInv
  <1> SUFFICES ASSUME SwitchInit PROVE SwitchInv
    OBVIOUS
  <1>1. /\ arch \in {"MIPS", "SNAKE", "i386"} /\ Main \in KThread
        /\ current = Main /\ made = {Main} /\ pc = InRun /\ space = {}
        /\ owed = [t \in KThread |-> cpu] /\ frame = owed /\ calls = [t \in KThread |-> <<>>]
    BY SwitchAssumption DEF SwitchInit
  <1>2. /\ cpu = [r \in Registers |-> IF r = "sp" THEN StackWord(Main, WordsOfStack - 1) ELSE Junk]
        /\ memory = [a \in MemoryWords |-> Junk]
    BY DEF SwitchInit, MemoryWords
  <1>3. /\ DOMAIN userRegisters = KThread /\ DOMAIN owedUser = KThread
    BY DEF SwitchInit
  <1>4. SwitchTypeOK
    BY <1>1, <1>2, <1>3 DEF SwitchTypeOK
  <1>5. \A t \in KThread : Steps(t) = 0 /\ calls[t] = <<>>
    BY <1>1 DEF Steps
  <1>6. CallsExact
    <2>1. \A t \in KThread : SubSeq(Script(t), 1, 0) = <<>>
      BY DEF Script
    <2>2. \A t \in KThread : /\ Steps(t) \in 0..3 /\ calls[t] = SubSeq(Script(t), 1, Steps(t))
                              /\ Steps(t) = 0 /\ Steps(t) # 1
      <3> SUFFICES ASSUME NEW t \in KThread
                   PROVE  /\ Steps(t) \in 0..3 /\ calls[t] = SubSeq(Script(t), 1, Steps(t))
                          /\ Steps(t) = 0 /\ Steps(t) # 1
        OBVIOUS
      <3>1. Steps(t) = 0 /\ 0 \in 0..3 /\ 0 # 1
        BY <1>5
      <3> QED
        BY <1>5, <2>1, <3>1, Zenon
    <2> QED
      BY <2>2, Zenon DEF CallsExact
  <1>7. RunningExact
    <2>1. InC(current)
      BY <1>1 DEF InC
    <2>2. \A r \in CalleeSaved : cpu[r] = owed[current][r]
      BY <1>1
    <2>3. cpu["sp"] = StackWord(current, CallDepth(current))
      <3>1. "sp" \in Registers
        BY <1>1, RootRegisters
      <3> QED
        BY <1>1, <1>2, <3>1 DEF CallDepth
    <2> QED
      BY <1>1, <2>1, <2>2, <2>3 DEF RunningExact
  <1>8. OthersExact /\ FencesIntact
    BY <1>1 DEF OthersExact, FencesIntact
  <1>9. FramesExact
    BY <1>1, <1>5 DEF FramesExact
  <1>10. UserExact
    BY <1>1 DEF UserExact
  <1> QED
    BY <1>4, <1>6, <1>7, <1>8, <1>9, <1>10 DEF SwitchInv, KernelInv

\* A new thread is prepared without a word of the others'.
LEMMA StackAllocateKeeps ==
    ASSUME KernelInv, NEW t \in KThread, StackAllocate(t)
    PROVE  KernelInv'
  <1>1. /\ SwitchTypeOK /\ CallsExact /\ RunningExact /\ OthersExact /\ FramesExact /\ FencesIntact
    BY DEF KernelInv
  <1>2. /\ pc = InRun /\ t \notin made
        /\ memory' = Prepared(t) /\ made' = made \cup {t}
        /\ arch' = arch /\ cpu' = cpu /\ pc' = pc /\ current' = current
        /\ frame' = frame /\ owed' = owed /\ calls' = calls
        /\ userRegisters' = userRegisters /\ owedUser' = owedUser
    BY DEF StackAllocate, InBody, userStateVars
  <1>3. /\ arch \in {"MIPS", "SNAKE", "i386"} /\ made \subseteq KThread /\ Main \in made /\ current \in made
    BY <1>1 DEF SwitchTypeOK
  <1>4. /\ DOMAIN memory' = MemoryWords
        /\ \A a \in MemoryWords :
             (\A k \in 0..18 : a # Object(t, 4 * k)) /\ (\A n \in 0..(WordsOfStack - 1) : a # StackWord(t, n))
               => memory'[a] = memory[a]
        /\ memory'[FenceWord(t)] = Fencepost
        /\ memory'[Object(t, Offset(StartupPC[arch]))] = InterruptEnable
        /\ memory'[Object(t, Offset(InitialPC[arch]))] = Func
        /\ memory'[Object(t, Offset(InitialArg[arch]))] = arg(t)
        /\ memory'[Object(t, Offset(WhenDonePC[arch]))] = ThreadFinish
        /\ memory'[Object(t, Offset(ReturnSlot))] = RootAt(0)
        /\ arch = "i386" => /\ memory'[Object(t, 0)] = StackWord(t, WordsOfStack - 5)
                            /\ memory'[StackWord(t, WordsOfStack - 5)] = RootAt(0)
    BY <1>1, <1>2, PreparedEffect
  <1>5. \A x \in made :
            /\ \A k \in 0..18 : memory'[Object(x, 4 * k)] = memory[Object(x, 4 * k)]
            /\ \A n \in 0..(WordsOfStack - 1) : memory'[StackWord(x, n)] = memory[StackWord(x, n)]
    <2>1. ASSUME NEW x \in made, NEW k \in 0..18 PROVE memory'[Object(x, 4 * k)] = memory[Object(x, 4 * k)]
      <3>1. x # t /\ x \in KThread
        BY <1>2, <1>3
      <3>2. Object(x, 4 * k) \in MemoryWords
        BY <3>1, WordsThere
      <3>3. \A n, j : Object(x, 4 * k) # Object(t, j) /\ Object(x, 4 * k) # StackWord(t, n)
        BY <3>1, Apart
      <3> QED
        BY <1>4, <3>2, <3>3
    <2>2. ASSUME NEW x \in made, NEW n \in 0..(WordsOfStack - 1)
          PROVE  memory'[StackWord(x, n)] = memory[StackWord(x, n)]
      <3>1. x # t /\ x \in KThread
        BY <1>2, <1>3
      <3>2. StackWord(x, n) \in MemoryWords
        BY <3>1, WordsThere
      <3>3. \A k, j : StackWord(x, n) # Object(t, j) /\ StackWord(x, n) # StackWord(t, k)
        BY <3>1, Apart
      <3> QED
        BY <1>4, <3>2, <3>3
    <2> QED
      BY <2>1, <2>2
  <1>6. \A x \in made : /\ Steps(x)' = Steps(x) /\ InC(x)' = InC(x)
                        /\ SavedExact(x) => SavedExact(x)'
                        /\ FreshExact(x) => FreshExact(x)'
                        /\ FrameExact(x) => FrameExact(x)'
    <2> SUFFICES ASSUME NEW x \in made
                 PROVE  /\ Steps(x)' = Steps(x) /\ InC(x)' = InC(x)
                        /\ SavedExact(x) => SavedExact(x)'
                        /\ FreshExact(x) => FreshExact(x)'
                        /\ FrameExact(x) => FrameExact(x)'
      OBVIOUS
    <2>1. x \in KThread
      BY <1>3
    <2>2. \A n \in {WordsOfStack - 7, WordsOfStack - 5, CallDepth(x) - 3} : n \in 0..(WordsOfStack - 1)
      <3>1. \A n \in {WordsOfStack - 7, WordsOfStack - 5, CallDepth(x) - 3} : n \in 1..(WordsOfStack - 1)
        BY <2>1, Kept386Words
      <3>2. \A n \in 1..(WordsOfStack - 1) : n \in 0..(WordsOfStack - 1)
        OBVIOUS
      <3> QED
        BY <3>1, <3>2, Zenon
    <2>3. \A k \in 0..18 : memory'[Object(x, 4 * k)] = memory[Object(x, 4 * k)]
      BY <1>5
    <2>4. \A n \in {WordsOfStack - 7, WordsOfStack - 5, CallDepth(x) - 3} :
                memory'[StackWord(x, n)] = memory[StackWord(x, n)]
      BY <1>5, <2>2, Zenon
    <2>5. owed'[x] = owed[x] /\ calls'[x] = calls[x] /\ frame'[x] = frame[x]
      BY <1>2
    <2> QED
      BY <1>2, <1>3, <2>1, <2>3, <2>4, <2>5, ThreadKept
  <1>7. Steps(t) = 0 /\ Steps(t)' = 0 /\ t # Main /\ t # current
    BY <1>1, <1>2, <1>3 DEF CallsExact, Steps
  <1>8. SwitchTypeOK'
    <2>1. Registers' = Registers
      BY <1>2, ArchKept
    <2>2. MemoryWords' = MemoryWords
      BY DEF MemoryWords
    <2> QED
      BY <1>1, <1>2, <1>4, <2>1, <2>2 DEF SwitchTypeOK
  <1>9. CallsExact'
    BY <1>1, <1>2 DEF CallsExact, Steps
  <1>10. RunningExact'
    <2>1. CalleeSaved' = CalleeSaved
      BY <1>2, ArchKept
    <2> QED
      BY <1>1, <1>2, <1>3, <1>6, <2>1, Zenon DEF RunningExact
  <1>11. OthersExact'
    <2>1. \A x \in made \ {current} : (IF InC(x) THEN SavedExact(x) ELSE FreshExact(x))'
      BY <1>1, <1>6 DEF OthersExact
    <2>2. FreshExact(t)'
      <3>1. /\ \A r : Offset(r)' = Offset(r)
            /\ RootAt(0)' = RootAt(0)
        BY <1>2, ArchKept
      <3>2. arch # "i386" => ReturnSlot = ReturnTo[arch]
        BY DEF ReturnSlot
      <3> QED
        BY <1>2, <1>4, <3>1, <3>2, Zenon DEF FreshExact
    <2>3. ~InC(t)'
      BY <1>7 DEF InC
    <2> QED
      BY <1>2, <2>1, <2>2, <2>3, Zenon DEF OthersExact
  <1>12. FramesExact'
    BY <1>1, <1>2, <1>6, <1>7 DEF FramesExact
  <1>13. FencesIntact'
    <2>1. FenceWord(t)' = FenceWord(t) /\ \A x : FenceWord(x)' = FenceWord(x)
      BY <1>2, ArchKept
    <2>2. \A x \in made : memory'[FenceWord(x)] = memory[FenceWord(x)]
      <3>1. \A x : \E n \in 0..(WordsOfStack - 1) : FenceWord(x) = StackWord(x, n)
        <4>1. WordsOfStack - 1 \in 0..(WordsOfStack - 1) /\ 0 \in 0..(WordsOfStack - 1)
          BY Apart
        <4> QED
          BY <4>1 DEF FenceWord
      <3> QED
        BY <1>5, <3>1
    <2> QED
      BY <1>1, <1>2, <1>4, <2>1, <2>2 DEF FencesIntact
  <1> QED
    BY <1>8, <1>9, <1>10, <1>11, <1>12, <1>13 DEF KernelInv

\* C code works.
LEMMA UseRegistersKeeps ==
    ASSUME KernelInv, UseRegisters
    PROVE  KernelInv'
  <1>1. /\ SwitchTypeOK /\ CallsExact /\ RunningExact /\ OthersExact /\ FramesExact /\ FencesIntact
    BY DEF KernelInv
  <1>2. /\ pc = InRun
        /\ DOMAIN cpu' = DOMAIN cpu /\ ("sp" \in DOMAIN cpu => cpu'["sp"] = cpu["sp"])
        /\ owed' = [owed EXCEPT ![current] = cpu']
        /\ arch' = arch /\ memory' = memory /\ pc' = pc /\ current' = current
        /\ made' = made /\ frame' = frame /\ calls' = calls
        /\ userRegisters' = userRegisters /\ owedUser' = owedUser
    BY DEF UseRegisters, userStateVars
  <1>3. /\ arch \in {"MIPS", "SNAKE", "i386"} /\ made \subseteq KThread /\ current \in made
        /\ DOMAIN owed = KThread /\ DOMAIN cpu = Registers
    BY <1>1 DEF SwitchTypeOK
  <1>4. /\ CalleeSaved' = CalleeSaved /\ Registers' = Registers /\ MemoryWords' = MemoryWords
        /\ \A x : FenceWord(x)' = FenceWord(x)
        /\ RootAt(0)' = RootAt(0) /\ RootAt(2)' = RootAt(2) /\ \A r : Offset(r)' = Offset(r)
    BY <1>2, ArchKept DEF MemoryWords
  <1>5. /\ "sp" \in Registers /\ owed'[current] = cpu'
        /\ \A x \in KThread \ {current} : owed'[x] = owed[x]
    BY <1>2, <1>3, RootRegisters
  <1>6. \A x \in KThread : /\ Steps(x)' = Steps(x) /\ InC(x)' = InC(x)
                           /\ FrameExact(x)' = FrameExact(x)
    BY <1>2, <1>4 DEF Steps, InC, FrameExact
  <1>7. \A x \in KThread \ {current} : SavedExact(x)' = SavedExact(x) /\ FreshExact(x)' = FreshExact(x)
    BY <1>2, <1>4, <1>5 DEF SavedExact, FreshExact
  <1>8. SwitchTypeOK' /\ CallsExact' /\ FencesIntact'
    BY <1>1, <1>2, <1>4 DEF SwitchTypeOK, CallsExact, FencesIntact, Steps
  <1>9. RunningExact'
    <2>1. InC(current)' /\ \A r \in CalleeSaved : cpu'[r] = owed'[current][r]
      BY <1>1, <1>2, <1>3, <1>5, <1>6 DEF RunningExact
    <2>2. arch = "i386" => cpu'["sp"] = StackWord(current, CallDepth(current))
      BY <1>1, <1>2, <1>3, <1>5 DEF RunningExact
    <2> QED
      BY <1>2, <1>4, <2>1, <2>2, Zenon DEF RunningExact
  <1>10. OthersExact'
    BY <1>1, <1>2, <1>3, <1>6, <1>7 DEF OthersExact
  <1>11. FramesExact'
    BY <1>1, <1>2, <1>3, <1>6 DEF FramesExact
  <1> QED
    BY <1>8, <1>9, <1>10, <1>11 DEF KernelInv

\* ThreadRoot goes on to its next call.
LEMMA RootStepKeeps ==
    ASSUME KernelInv, RootStep
    PROVE  KernelInv'
  <1> DEFINE p == Steps(current)
  <1>1. /\ SwitchTypeOK /\ CallsExact /\ RunningExact /\ OthersExact /\ FramesExact /\ FencesIntact
    BY DEF KernelInv
  <1>2. pc # InRun
    <2>1. pc[2] = "ThreadRoot"
      BY Zenon DEF RootStep
    <2> QED
      BY <2>1 DEF InRun, Code
  <1>3. /\ calls' = [calls EXCEPT ![current] = Append(@, Script(current)[p + 1])]
        /\ DOMAIN cpu' = Registers /\ DOMAIN memory' = MemoryWords
        /\ \A a \in MemoryWords :
             memory'[a] = memory[a] \/ (arch = "i386" /\ a \in StackWordsOf(current))
        /\ pc' = IF p = 0 THEN RootAt(1) ELSE InRun
        /\ frame' = [frame EXCEPT ![current] = cpu'] /\ owed' = [owed EXCEPT ![current] = cpu']
        /\ cpu'[WhenDonePC[arch]] = ThreadFinish
        /\ p = 0 => cpu'[InitialPC[arch]] = Func /\ (arch # "i386" => cpu'[InitialArg[arch]] = arg(current))
        /\ p = 0 /\ arch = "i386" => /\ cpu'["sp"] = StackWord(current, WordsOfStack - 6)
                                     /\ memory'[StackWord(current, WordsOfStack - 6)] = arg(current)
        /\ p > 0 /\ arch = "i386" => /\ cpu'["sp"] = StackWord(current, WordsOfStack - 7)
                                     /\ memory'[StackWord(current, WordsOfStack - 7)] = RootAt(p + 1)
        /\ p > 0 /\ arch # "i386" => cpu'[ReturnTo[arch]] = RootAt(p + 1)
        /\ UNCHANGED <<arch, current, made, userStateVars>>
    BY <1>1, <1>2, RootEffect
  <1>4. arch' = arch /\ current' = current /\ made' = made
        /\ userRegisters' = userRegisters /\ owedUser' = owedUser
    BY <1>3 DEF userStateVars
  <1>5. /\ arch \in {"MIPS", "SNAKE", "i386"} /\ made \subseteq KThread /\ current \in made
        /\ current \in KThread /\ current # Main /\ p \in 0..2
        /\ DOMAIN calls = KThread /\ DOMAIN owed = KThread /\ DOMAIN frame = KThread
    BY <1>1, <1>2 DEF SwitchTypeOK, RunningExact
  <1>6. /\ CalleeSaved' = CalleeSaved /\ Registers' = Registers /\ MemoryWords' = MemoryWords
        /\ \A x : FenceWord(x)' = FenceWord(x) /\ \A n : RootAt(n)' = RootAt(n)
    BY <1>4, ArchKept DEF MemoryWords
  <1>7. /\ owed'[current] = cpu' /\ frame'[current] = cpu'
        /\ \A x \in KThread \ {current} : calls'[x] = calls[x] /\ owed'[x] = owed[x] /\ frame'[x] = frame[x]
    BY <1>3, <1>5
  <1>8. Steps(current)' = p + 1 /\ calls'[current] = SubSeq(Script(current), 1, p + 1)
    <2>1. calls'[current] = Append(calls[current], Script(current)[p + 1])
      BY <1>3, <1>5
    <2>2. calls[current] = SubSeq(Script(current), 1, p) /\ p \in {0, 1, 2}
      BY <1>1, <1>5 DEF CallsExact
    <2> HIDE DEF p
    <2>3. /\ Append(SubSeq(Script(current), 1, p), Script(current)[p + 1]) = SubSeq(Script(current), 1, p + 1)
          /\ Len(SubSeq(Script(current), 1, p + 1)) = p + 1
      BY <2>2 DEF Script
    <2>4. calls'[current] = SubSeq(Script(current), 1, p + 1)
      BY <2>1, <2>2, <2>3
    <2> QED
      BY <1>4, <2>3, <2>4 DEF Steps
  <1>9. \A x \in made \ {current} :
            /\ Steps(x)' = Steps(x) /\ InC(x)' = InC(x)
            /\ SavedExact(x) => SavedExact(x)'
            /\ FreshExact(x) => FreshExact(x)'
            /\ FrameExact(x) => FrameExact(x)'
    <2> SUFFICES ASSUME NEW x \in made \ {current}
                 PROVE  /\ Steps(x)' = Steps(x) /\ InC(x)' = InC(x)
                        /\ SavedExact(x) => SavedExact(x)'
                        /\ FreshExact(x) => FreshExact(x)'
                        /\ FrameExact(x) => FrameExact(x)'
      OBVIOUS
    <2>1. x \in KThread /\ x # current
      BY <1>5
    <2>2. ASSUME NEW k \in 0..18 PROVE memory'[Object(x, 4 * k)] = memory[Object(x, 4 * k)]
      <3>1. Object(x, 4 * k) \in MemoryWords
        BY <2>1, WordsThere
      <3>2. Object(x, 4 * k) \notin StackWordsOf(current)
        BY Apart DEF StackWordsOf
      <3> QED
        BY <1>3, <3>1, <3>2, Zenon
    <2>3. \A n \in {WordsOfStack - 7, WordsOfStack - 5, CallDepth(x) - 3} :
                memory'[StackWord(x, n)] = memory[StackWord(x, n)]
      <3>1. \A n \in {WordsOfStack - 7, WordsOfStack - 5, CallDepth(x) - 3} : StackWord(x, n) \in MemoryWords
        BY <2>1, Kept386Words
      <3>2. \A n : StackWord(x, n) \notin StackWordsOf(current)
        BY <2>1, Apart DEF StackWordsOf
      <3> QED
        BY <1>3, <3>1, <3>2, Zenon
    <2>4. owed'[x] = owed[x] /\ calls'[x] = calls[x] /\ frame'[x] = frame[x]
      BY <1>7, <2>1
    <2> QED
      BY <1>4, <1>5, <2>1, <2>2, <2>3, <2>4, ThreadKept
  <1>10. SwitchTypeOK'
    <2>1. \A x \in KThread : DOMAIN frame'[x] = Registers
      BY <1>1, <1>3, <1>7 DEF SwitchTypeOK
    <2>2. DOMAIN owed' = KThread /\ DOMAIN frame' = KThread /\ DOMAIN calls' = KThread
      BY <1>3, <1>5
    <2> QED
      BY <1>1, <1>3, <1>4, <1>6, <2>1, <2>2 DEF SwitchTypeOK
  <1>11. CallsExact'
    <2> SUFFICES ASSUME NEW x \in KThread
                 PROVE  (/\ Steps(x) \in 0..3 /\ calls[x] = SubSeq(Script(x), 1, Steps(x))
                         /\ x \notin made \/ x = Main => Steps(x) = 0
                         /\ x # current => Steps(x) # 1)'
      BY DEF CallsExact
    <2>1. CASE x = current
      <3>1. Steps(x)' \in 0..3 /\ calls'[x] = SubSeq(Script(x), 1, Steps(x)')
        <4>1. p + 1 \in 0..3
          BY <1>5
        <4> HIDE DEF p
        <4>2. Steps(x)' = p + 1 /\ calls'[x] = SubSeq(Script(x), 1, p + 1)
          BY <1>4, <1>8, <2>1 DEF Steps
        <4> QED
          BY <4>1, <4>2
      <3> QED
        BY <1>4, <1>5, <2>1, <3>1
    <2>2. CASE x # current
      <3>1. Steps(x)' = Steps(x) /\ calls'[x] = calls[x]
        BY <1>7, <2>2 DEF Steps
      <3> QED
        BY <1>1, <1>4, <2>2, <3>1 DEF CallsExact
    <2> QED
      BY <2>1, <2>2
  <1>12. RunningExact'
    <2>1. CASE p = 0
      <3>1. pc' = RootAt(1) /\ Steps(current)' = 1 /\ pc' # InRun
        BY <1>3, <1>8, <2>1, Values DEF RootAt
      <3>2. RootState(1)'
        <4>1. arch' = "i386" =>
                /\ cpu'["sp"] = StackWord(current, WordsOfStack - (IF 1 = 0 THEN 4 ELSE 6))
                /\ memory'[StackWord(current, WordsOfStack - 6)] = arg(current)
          BY <1>3, <1>4, <2>1
        <4> QED
          BY <1>3, <1>4, <2>1, <4>1 DEF RootState
      <3> QED
        BY <1>4, <1>5, <1>6, <3>1, <3>2 DEF RunningExact
    <2>2. CASE p # 0
      <3>1. pc' = InRun /\ Steps(current)' \in {2, 3}
        BY <1>3, <1>5, <1>8, <2>2
      <3>2. InC(current)'
        BY <3>1 DEF InC
      <3>3. arch = "i386" => cpu'["sp"] = StackWord(current, CallDepth(current))
        <4>1. p > 0 /\ CallDepth(current) = WordsOfStack - 7
          BY <1>5, <2>2 DEF CallDepth
        <4> QED
          BY <1>3, <4>1
      <3> QED
        BY <1>4, <1>7, <3>1, <3>2, <3>3, Zenon DEF RunningExact
    <2> QED
      BY <2>1, <2>2
  <1>13. OthersExact'
    BY <1>1, <1>4, <1>9 DEF OthersExact
  <1>14. FramesExact'
    <2>1. ASSUME p = 1 PROVE FrameExact(current)'
      <3>1. 1 + 1 = 2 /\ p > 0
        BY <2>1
      <3>2. /\ frame'[current][WhenDonePC[arch]] = ThreadFinish
            /\ arch = "i386" => /\ frame'[current]["sp"] = StackWord(current, WordsOfStack - 7)
                                /\ memory'[StackWord(current, WordsOfStack - 7)] = RootAt(2)
            /\ arch # "i386" => frame'[current][ReturnTo[arch]] = RootAt(2)
        BY <1>3, <1>7, <2>1, <3>1
      <3> QED
        BY <1>4, <1>6, <3>2, Zenon DEF FrameExact
    <2>2. Steps(current)' = 2 => p = 1
      BY <1>5, <1>8
    <2>3. \A x \in made \ {current} : Steps(x)' = 2 => FrameExact(x)'
      BY <1>1, <1>9 DEF FramesExact
    <2> QED
      BY <1>4, <2>1, <2>2, <2>3 DEF FramesExact
  <1>15. FencesIntact'
    <2>1. ASSUME NEW x \in made PROVE memory'[FenceWord(x)] = memory[FenceWord(x)]
      <3>1. x \in KThread /\ FenceWord(x) \in MemoryWords
        BY <1>5, Kept386Words
      <3>2. arch = "i386" => FenceWord(x) \notin StackWordsOf(current)
        <4>1. arch = "i386" => FenceWord(x) = StackWord(x, 0)
          BY DEF FenceWord
        <4>2. StackWord(x, 0) \notin StackWordsOf(current)
          <5>1. CASE x = current
            <6>1. \A n \in {5, 6, 7} : WordsOfStack - n \in Int /\ WordsOfStack - n # 0
              BY Apart
            <6> QED
              BY <5>1, <6>1, Apart DEF StackWordsOf
          <5>2. CASE x # current
            BY <5>2, Apart DEF StackWordsOf
          <5> QED
            BY <5>1, <5>2
        <4> QED
          BY <4>1, <4>2
      <3> QED
        BY <1>3, <3>1, <3>2, Zenon
    <2> QED
      BY <1>1, <1>4, <1>6, <2>1 DEF FencesIntact
  <1> QED
    BY <1>10, <1>11, <1>12, <1>13, <1>14, <1>15 DEF KernelInv

\* The thread's function returns to ThreadRoot.
LEMMA ReturnFromFuncKeeps ==
    ASSUME KernelInv, ReturnFromFunc
    PROVE  KernelInv'
  <1> DEFINE m == [cpu |-> frame[current], memory |-> memory]
  <1>1. /\ SwitchTypeOK /\ CallsExact /\ RunningExact /\ OthersExact /\ FramesExact /\ FencesIntact
    BY DEF KernelInv
  <1>2. /\ pc = InRun /\ ~Finishing(current) /\ current # Main
        /\ pc' = ReturnAddress(m)
        /\ cpu' = [r \in DOMAIN cpu |-> IF r \in CalleeSaved THEN Popped(m, 1)[r] ELSE Junk]
        /\ arch' = arch /\ memory' = memory /\ current' = current
        /\ made' = made /\ frame' = frame /\ owed' = owed /\ calls' = calls
        /\ userRegisters' = userRegisters /\ owedUser' = owedUser
    BY DEF ReturnFromFunc, InBody, userStateVars
  <1>3. /\ arch \in {"MIPS", "SNAKE", "i386"} /\ current \in made /\ current \in KThread
        /\ DOMAIN cpu = Registers /\ DOMAIN frame[current] = Registers
    BY <1>1 DEF SwitchTypeOK
  <1>4. Steps(current) = 2 /\ FrameExact(current)
    <2>1. Steps(current) = 2
      BY <1>1, <1>2 DEF RunningExact, InC, Finishing, Steps
    <2> QED
      BY <1>1, <1>2, <1>3, <2>1 DEF FramesExact
  <1>5. pc' = RootAt(2) /\ pc' # InRun
    <2>1. pc' = RootAt(2)
      BY <1>2, <1>4 DEF ReturnAddress, FrameExact
    <2> QED
      BY <2>1, Values DEF RootAt
  <1>6. WhenDonePC[arch] \in CalleeSaved /\ WhenDonePC[arch] # "sp" /\ "sp" \in CalleeSaved
        /\ CalleeSaved \subseteq Registers
    <2> DEFINE R == {StartupPC[arch], InitialPC[arch], InitialArg[arch], WhenDonePC[arch]}
    <2>1. "sp" \in CalleeSaved /\ CalleeSaved \subseteq Registers /\ "sp" \notin R
      BY <1>3, RootRegisters
    <2>2. WhenDonePC[arch] \in CalleeSaved
      BY <1>3, RootRegisters
    <2> QED
      BY <2>1, <2>2
  <1>7. cpu'[WhenDonePC[arch]] = ThreadFinish
    <2>1. Popped(m, 1)[WhenDonePC[arch]] = frame[current][WhenDonePC[arch]]
      BY <1>3, <1>6 DEF Popped
    <2> QED
      BY <1>2, <1>3, <1>4, <1>6, <2>1 DEF FrameExact
  <1>8. arch = "i386" => cpu'["sp"] = StackWord(current, WordsOfStack - 6)
    <2> SUFFICES ASSUME arch = "i386" PROVE cpu'["sp"] = StackWord(current, WordsOfStack - 6)
      OBVIOUS
    <2>1. Popped(m, 1)["sp"] = Plus(StackWord(current, WordsOfStack - 7), 4)
      BY <1>3, <1>4, <1>6 DEF Popped, FrameExact
    <2>2. Plus(StackWord(current, WordsOfStack - 7), 4) = StackWord(current, WordsOfStack - 6)
      BY Apart DEF Plus, StackWord
    <2> QED
      BY <1>2, <1>3, <1>6, <2>1, <2>2
  <1>9. /\ CalleeSaved' = CalleeSaved /\ Registers' = Registers /\ MemoryWords' = MemoryWords
        /\ \A x : FenceWord(x)' = FenceWord(x)
        /\ RootAt(0)' = RootAt(0) /\ RootAt(2)' = RootAt(2) /\ \A r : Offset(r)' = Offset(r)
    BY <1>2, ArchKept DEF MemoryWords
  <1>10. \A x : /\ Steps(x)' = Steps(x) /\ InC(x)' = InC(x)
                /\ FrameExact(x)' = FrameExact(x) /\ SavedExact(x)' = SavedExact(x)
                /\ FreshExact(x)' = FreshExact(x)
    BY <1>2, <1>9 DEF Steps, InC, FrameExact, SavedExact, FreshExact
  <1>11. SwitchTypeOK' /\ CallsExact' /\ FencesIntact'
    <2>1. DOMAIN cpu' = Registers
      BY <1>2, <1>3
    <2> QED
      BY <1>1, <1>2, <1>9, <2>1 DEF SwitchTypeOK, CallsExact, FencesIntact, Steps
  <1>12. RunningExact'
    <2>1. RootState(2)'
      <3>1. arch' = "i386" => cpu'["sp"] = StackWord(current, WordsOfStack - (IF 2 = 0 THEN 4 ELSE 6))
        BY <1>2, <1>8
      <3> QED
        BY <1>2, <1>7, <3>1 DEF RootState
    <2> QED
      BY <1>2, <1>4, <1>5, <1>9, <1>10, <2>1 DEF RunningExact
  <1>13. OthersExact' /\ FramesExact'
    BY <1>1, <1>2, <1>5, <1>10 DEF OthersExact, FramesExact
  <1> QED
    BY <1>11, <1>12, <1>13 DEF KernelInv

\* Scheduler::Run: what the thread that is left has saved, and what the other finds.
LEMMA RunKeeps ==
    ASSUME KernelInv, NEW u \in KThread, Run(u)
    PROVE  /\ KernelInv'
           /\ InC(u) <=> pc' = InRun
  <1> DEFINE m == RunCode(CallSWITCH(u), SWITCH)
             D(x) == CallDepth(x)
  <1>0. PICK t : t = current
    OBVIOUS
  <1>1. /\ SwitchTypeOK /\ CallsExact /\ RunningExact /\ OthersExact /\ FramesExact /\ FencesIntact
    BY DEF KernelInv
  <1>2. /\ pc = InRun /\ u \in made \ {t} /\ ~Finishing(u)
        /\ memory' = m.memory /\ pc' = ReturnAddress(m)
        /\ cpu' = Popped(m, IF pc' = InRun THEN 3 ELSE 1)
        /\ current' = u /\ arch' = arch /\ made' = made /\ frame' = frame
        /\ owed' = owed /\ calls' = calls /\ owedUser' = owedUser
        /\ DOMAIN userRegisters' = DOMAIN userRegisters
    <2> HIDE DEF m
    <2>1. /\ pc = InRun /\ u \in made \ {t} /\ ~Finishing(u)
          /\ userRegisters' = (IF current \in space THEN [userRegisters EXCEPT ![current] = userCpu]
                               ELSE userRegisters)
          /\ memory' = m.memory /\ pc' = ReturnAddress(m)
          /\ cpu' = Popped(m, IF pc' = InRun THEN 3 ELSE 1)
          /\ current' = u
          /\ UNCHANGED <<arch, made, frame, owed, calls, space, owedUser>>
      BY <1>0, Zenon DEF Run, m
    <2> QED
      BY <2>1
  <1>3. /\ arch \in {"MIPS", "SNAKE", "i386"} /\ made \subseteq KThread /\ t \in made /\ t \in KThread
        /\ u # t /\ u \in made
    BY <1>0, <1>1, <1>2 DEF SwitchTypeOK
  <1>4. /\ DOMAIN m.cpu = Registers /\ DOMAIN m.memory = MemoryWords
        /\ \A a \in MemoryWords \ Written(u) : m.memory[a] = memory[a]
        /\ \A r \in CalleeSaved \ {"sp"} :
             /\ m.memory[Object(t, Offset(r))] = cpu[r]
             /\ m.cpu[r] = memory[Object(u, Offset(r))]
        /\ m.cpu["sp"] = memory[Object(u, 0)]
        /\ arch = "i386" =>
             /\ m.memory[Object(t, 0)] = StackWord(t, D(t) - 3)
             /\ m.memory[StackWord(t, D(t) - 3)] = InRun
             /\ m.cpu["ecx"] = memory[Object(u, Offset("ecx"))]
             /\ m.cpu["edx"] = memory[Object(u, Offset("edx"))]
        /\ arch # "i386" =>
             /\ m.memory[Object(t, 0)] = cpu["sp"]
             /\ m.memory[Object(t, Offset(ReturnTo[arch]))] = InRun
             /\ m.cpu[ReturnTo[arch]] = memory[Object(u, Offset(ReturnTo[arch]))]
    BY <1>0, <1>1, <1>2, SwitchEffect
  <1> HIDE DEF m
  <1>5. /\ CalleeSaved' = CalleeSaved /\ Registers' = Registers /\ MemoryWords' = MemoryWords
        /\ \A x : FenceWord(x)' = FenceWord(x) /\ \A n : RootAt(n)' = RootAt(n)
        /\ \A r : Offset(r)' = Offset(r)
    BY <1>2, ArchKept DEF MemoryWords
  <1>6. \A x : Steps(x)' = Steps(x) /\ InC(x)' = InC(x)
    BY <1>2 DEF Steps, InC
  <1>7. Steps(u) \in {0, 2} /\ (u = Main \/ Steps(u) = 2 <=> InC(u)) /\ (~InC(u) => u # Main /\ Steps(u) = 0)
    BY <1>0, <1>1, <1>2, <1>3 DEF CallsExact, Finishing, Steps, InC
  <1>8. InC(t) /\ \A r \in CalleeSaved : cpu[r] = owed[t][r]
    BY <1>0, <1>1, <1>2 DEF RunningExact
  <1>9. IF InC(u) THEN SavedExact(u) ELSE FreshExact(u)
    BY <1>0, <1>1, <1>2 DEF OthersExact
  <1>10. /\ SavedDepth(u) = IF InC(u) THEN D(u) - 3 ELSE WordsOfStack - 5
         /\ D(t) \in {WordsOfStack - 1, WordsOfStack - 7} /\ D(u) \in {WordsOfStack - 1, WordsOfStack - 7}
         /\ WordsOfStack \in Nat /\ WordsOfStack > 16
    BY Apart DEF SavedDepth, CallDepth
  \* What is not written.
  <1>11. ASSUME NEW x \in KThread \ {t}, NEW k \in 0..18
         PROVE  Object(x, 4 * k) \in MemoryWords \ Written(u)
    <2>1. Object(x, 4 * k) \in MemoryWords
      BY WordsThere
    <2>2. \A j : Object(x, 4 * k) # Object(t, j)
      BY Apart
    <2>3. Object(x, 4 * k) \notin Written(u)
      BY <1>0, <2>2, Apart DEF Written
    <2> QED
      BY <2>1, <2>3
  <1>12. ASSUME NEW x \in KThread, NEW n \in 0..(WordsOfStack - 1),
                arch = "i386" => /\ x = t => n \notin {D(t) - 1, D(t) - 2, D(t) - 3}
                                 /\ x = u => n # SavedDepth(u) + 1
         PROVE  StackWord(x, n) \in MemoryWords \ Written(u)
    <2>1. StackWord(x, n) \in MemoryWords
      BY WordsThere
    <2>2. StackWord(x, n) # eax_save /\ \A k : StackWord(x, n) # Object(t, 4 * k)
      BY Apart
    <2>3. ASSUME arch = "i386"
          PROVE  StackWord(x, n) # StackWord(u, SavedDepth(u) + 1) /\ \A k \in 1..3 : StackWord(x, n) # StackWord(t, D(t) - k)
      <3>1. n \in Int /\ SavedDepth(u) + 1 \in Int /\ \A k \in 1..3 : D(t) - k \in Int
        BY <1>10
      <3>2. x = t => \A k \in 1..3 : n # D(t) - k
        <4>1. \A k \in 1..3 : D(t) - k \in {D(t) - 1, D(t) - 2, D(t) - 3}
          OBVIOUS
        <4> HIDE DEF D
        <4> QED
          BY <1>12, <2>3, <4>1
      <3>3. x = u => n # SavedDepth(u) + 1
        BY <1>12, <2>3
      <3> HIDE DEF D
      <3> QED
        BY <3>1, <3>2, <3>3, Apart
    <2> QED
      BY <1>0, <2>1, <2>2, <2>3 DEF Written
  \* The threads that take no part are as exact as before; so is every frame.
  <1>13. /\ \A x \in made \ {t, u} : /\ SavedExact(x) => SavedExact(x)'
                                     /\ FreshExact(x) => FreshExact(x)'
         /\ \A x \in made : FrameExact(x) /\ Steps(x) = 2 => FrameExact(x)'
    <2>1. \A x \in made \ {t, u} :
            /\ SavedExact(x) => SavedExact(x)'
            /\ FreshExact(x) => FreshExact(x)'
            /\ FrameExact(x) => FrameExact(x)'
      <3> SUFFICES ASSUME NEW x \in made \ {t, u}
                   PROVE  /\ SavedExact(x) => SavedExact(x)'
                          /\ FreshExact(x) => FreshExact(x)'
                          /\ FrameExact(x) => FrameExact(x)'
        OBVIOUS
      <3>1. x \in KThread /\ x # t /\ x # u
        BY <1>3
      <3>2. \A k \in 0..18 : memory'[Object(x, 4 * k)] = memory[Object(x, 4 * k)]
        BY <1>2, <1>4, <1>11, <3>1
      <3>3. ASSUME NEW n \in {WordsOfStack - 7, WordsOfStack - 5, CallDepth(x) - 3}
            PROVE  memory'[StackWord(x, n)] = memory[StackWord(x, n)]
        <4>1. n \in 1..(WordsOfStack - 1)
          BY <3>1, Kept386Words
        <4>2. n \in 0..(WordsOfStack - 1)
          BY <4>1
        <4>3. StackWord(x, n) \in MemoryWords \ Written(u)
          BY <1>12, <3>1, <4>2
        <4> QED
          BY <1>2, <1>4, <4>3
      <3>4. owed'[x] = owed[x] /\ calls'[x] = calls[x] /\ frame'[x] = frame[x]
        BY <1>2
      <3> QED
        BY <1>2, <1>3, <3>1, <3>2, <3>3, <3>4, ThreadKept
    <2>2. ASSUME NEW x \in {t, u}, FrameExact(x), Steps(x) = 2 PROVE FrameExact(x)'
      <3>0. x \in KThread /\ x # Main
        BY <1>1, <1>3, <2>2 DEF CallsExact
      <3>1. ASSUME arch = "i386"
            PROVE  memory'[StackWord(x, WordsOfStack - 7)] = memory[StackWord(x, WordsOfStack - 7)]
        <4>1. D(x) = WordsOfStack - 7
          BY <3>0 DEF CallDepth
        <4>2. InC(x)
          BY <2>2 DEF InC
        <4>3. /\ WordsOfStack - 7 \in 0..(WordsOfStack - 1)
              /\ x = t => WordsOfStack - 7 \notin {D(t) - 1, D(t) - 2, D(t) - 3}
              /\ x = u => WordsOfStack - 7 # SavedDepth(u) + 1
          BY <1>10, <4>1, <4>2
        <4>4. StackWord(x, WordsOfStack - 7) \in MemoryWords \ Written(u)
          <5> HIDE DEF D
          <5> QED
            BY <1>12, <3>0, <4>3
        <4> QED
          BY <1>2, <1>4, <4>4
      <3> QED
        BY <1>2, <1>5, <2>2, <3>1, Zenon DEF FrameExact
    <2> QED
      BY <2>1, <2>2
  \* The thread that is left.
  <1>14. SavedExact(t)'
    <2>1. \A r \in CalleeSaved \ {"sp"} : memory'[Object(t, Offset(r))] = owed'[t][r]
      BY <1>2, <1>4, <1>8
    <2>2. arch = "i386" => /\ owed'[t]["sp"] = StackWord(t, CallDepth(t))
                           /\ memory'[Object(t, 0)] = StackWord(t, CallDepth(t) - 3)
                           /\ memory'[StackWord(t, CallDepth(t) - 3)] = InRun
      <3>1. "sp" \in CalleeSaved /\ (arch = "i386" => cpu["sp"] = StackWord(t, CallDepth(t)))
        BY <1>0, <1>1, <1>2, <1>3, RootRegisters DEF RunningExact
      <3> QED
        BY <1>2, <1>4, <1>8, <3>1, Zenon
    <2>3. arch # "i386" => /\ memory'[Object(t, 0)] = owed'[t]["sp"]
                           /\ memory'[Object(t, Offset(ReturnTo[arch]))] = InRun
      <3>1. "sp" \in CalleeSaved
        BY <1>3, RootRegisters
      <3> QED
        BY <1>2, <1>4, <1>8, <3>1, Zenon
    <2> QED
      BY <1>2, <1>5, <2>1, <2>2, <2>3 DEF SavedExact
  \* The other, in C code or not yet started.
  <1>15. "sp" \in CalleeSaved /\ CalleeSaved \subseteq Registers
    BY <1>3, RootRegisters
  <1>16. \A k \in Int : Plus(StackWord(u, k), 4 * 3) = StackWord(u, k + 3)
                        /\ Plus(StackWord(u, k), 4 * 1) = StackWord(u, k + 1)
    BY DEF Plus, StackWord
  <1>17. ASSUME InC(u) PROVE pc' = InRun /\ RunningExact'
    <2>1. SavedExact(u)
      BY <1>9, <1>17
    <2>2. pc' = InRun
      <3>1. CASE arch = "i386"
        <4>1. m.cpu["sp"] = StackWord(u, D(u) - 3) /\ memory[StackWord(u, D(u) - 3)] = InRun
          BY <1>4, <2>1, <3>1, Zenon DEF SavedExact
        <4>2. D(u) - 3 \in 0..(WordsOfStack - 1) /\ D(u) - 3 # SavedDepth(u) + 1
          BY <1>10, <1>17
        <4>3. StackWord(u, D(u) - 3) \in MemoryWords \ Written(u)
          <5> HIDE DEF D
          <5> QED
            BY <1>3, <1>12, <4>2
        <4> HIDE DEF D
        <4> QED
          BY <1>2, <1>4, <3>1, <4>1, <4>3 DEF ReturnAddress
      <3>2. CASE arch # "i386"
        BY <1>2, <1>4, <2>1, <3>2 DEF ReturnAddress, SavedExact
      <3> QED
        BY <3>1, <3>2
    <2>3. cpu' = Popped(m, 3)
      BY <1>2, <2>2
    <2>4. cpu'["sp"] = owed[u]["sp"] /\ (arch = "i386" => cpu'["sp"] = StackWord(u, D(u)))
      <3>1. CASE arch = "i386"
        <4>1. m.cpu["sp"] = StackWord(u, D(u) - 3) /\ owed[u]["sp"] = StackWord(u, D(u))
          BY <1>4, <2>1, <3>1, Zenon DEF SavedExact
        <4>2. D(u) - 3 \in Int /\ (D(u) - 3) + 3 = D(u)
          BY <1>10
        <4>3. Plus(StackWord(u, D(u) - 3), 4 * 3) = StackWord(u, (D(u) - 3) + 3)
          BY <1>16, <4>2, Zenon
        <4>4. cpu'["sp"] = Plus(m.cpu["sp"], 4 * 3)
          BY <1>4, <1>15, <2>3, <3>1 DEF Popped
        <4> QED
          BY <4>1, <4>2, <4>3, <4>4
      <3>2. CASE arch # "i386"
        BY <1>4, <2>1, <2>3, <3>2 DEF Popped, SavedExact
      <3> QED
        BY <3>1, <3>2
    <2>5. \A r \in CalleeSaved : cpu'[r] = owed[u][r]
      <3> SUFFICES ASSUME NEW r \in CalleeSaved, r # "sp" PROVE cpu'[r] = owed[u][r]
        BY <2>4
      <3>1. cpu'[r] = m.cpu[r]
        BY <1>4, <1>15, <2>3 DEF Popped
      <3> QED
        BY <1>4, <2>1, <3>1 DEF SavedExact
    <2>6. InC(u)'
      BY <1>6, <1>17
    <2> QED
      BY <1>2, <1>5, <2>2, <2>4, <2>5, <2>6, Zenon DEF RunningExact
  <1>18. ASSUME ~InC(u) PROVE pc' # InRun /\ RunningExact'
    <2>1. FreshExact(u) /\ Steps(u) = 0 /\ u # Main
      BY <1>7, <1>9, <1>18
    <2>2. pc' = RootAt(0)
      <3>1. CASE arch = "i386"
        <4>1. m.cpu["sp"] = StackWord(u, WordsOfStack - 5) /\ memory[StackWord(u, WordsOfStack - 5)] = RootAt(0)
          BY <1>4, <2>1, <3>1, Zenon DEF FreshExact
        <4>2. WordsOfStack - 5 \in 0..(WordsOfStack - 1) /\ WordsOfStack - 5 # SavedDepth(u) + 1
          BY <1>10, <1>18
        <4>3. StackWord(u, WordsOfStack - 5) \in MemoryWords \ Written(u)
          <5> HIDE DEF D
          <5> QED
            BY <1>3, <1>12, <4>2
        <4> QED
          BY <1>2, <1>4, <3>1, <4>1, <4>3 DEF ReturnAddress
      <3>2. CASE arch # "i386"
        BY <1>2, <1>4, <2>1, <3>2 DEF ReturnAddress, FreshExact
      <3> QED
        BY <3>1, <3>2
    <2>3. pc' # InRun /\ cpu' = Popped(m, 1)
      <3>1. pc' # InRun
        BY <2>2, Values DEF RootAt
      <3> QED
        BY <1>2, <3>1
    <2> DEFINE R == {StartupPC[arch], InitialPC[arch], InitialArg[arch], WhenDonePC[arch]}
    <2>4. \A r \in R : m.cpu[r] = memory[Object(u, Offset(r))] /\ r # "sp"
      <3>1. "sp" \notin R
        BY <1>3, RootRegisters
      <3>2. CASE arch = "i386"
        <4>1. R = {"ecx", "edx", "esi", "edi"} /\ {"esi", "edi"} \subseteq CalleeSaved
          BY <1>3, <3>2, RootRegisters
        <4> QED
          BY <1>4, <3>1, <3>2, <4>1
      <3>3. CASE arch # "i386"
        <4>1. R \subseteq CalleeSaved
          BY <1>3, <3>3, RootRegisters
        <4> QED
          BY <1>4, <3>1, <4>1
      <3> QED
        BY <3>2, <3>3
    <2>5. \A r \in R : cpu'[r] = memory[Object(u, Offset(r))]
      BY <1>4, <2>3, <2>4 DEF Popped
    <2>6. /\ cpu'[StartupPC[arch]] = InterruptEnable /\ cpu'[InitialPC[arch]] = Func
          /\ cpu'[InitialArg[arch]] = arg(u) /\ cpu'[WhenDonePC[arch]] = ThreadFinish
      BY <2>1, <2>5 DEF FreshExact
    <2>7. arch = "i386" => cpu'["sp"] = StackWord(u, WordsOfStack - (IF 0 = 0 THEN 4 ELSE 6))
      <3> SUFFICES ASSUME arch = "i386" PROVE cpu'["sp"] = StackWord(u, WordsOfStack - 4)
        OBVIOUS
      <3>1. m.cpu["sp"] = StackWord(u, WordsOfStack - 5)
        BY <1>4, <2>1, Zenon DEF FreshExact
      <3>2. WordsOfStack - 5 \in Int /\ (WordsOfStack - 5) + 1 = WordsOfStack - 4
        BY <1>10
      <3>3. Plus(StackWord(u, WordsOfStack - 5), 4 * 1) = StackWord(u, (WordsOfStack - 5) + 1)
        BY <1>16, <3>2, Zenon
      <3>4. cpu'["sp"] = Plus(m.cpu["sp"], 4 * 1)
        BY <1>4, <1>15, <2>3 DEF Popped
      <3> QED
        BY <3>1, <3>2, <3>3, <3>4
    <2>8. RootState(0)'
      BY <1>2, <2>6, <2>7 DEF RootState
    <2>9. Steps(current)' = 0 /\ current' # Main
      BY <1>2, <2>1 DEF Steps
    <2> QED
      BY <1>5, <2>2, <2>3, <2>8, <2>9 DEF RunningExact
  <1>19. RunningExact' /\ (InC(u) <=> pc' = InRun)
    BY <1>17, <1>18
  <1>20. SwitchTypeOK'
    <2>1. DOMAIN cpu' = Registers
      BY <1>2, <1>4 DEF Popped
    <2> QED
      BY <1>1, <1>2, <1>4, <1>5, <2>1 DEF SwitchTypeOK
  <1>21. CallsExact'
    <2>1. \A x \in KThread : Steps(x) # 1
      <3>1. Steps(t) # 1
        BY <1>1, <1>3, <1>8 DEF CallsExact, InC
      <3> QED
        BY <1>0, <1>1, <3>1 DEF CallsExact
    <2> QED
      BY <1>1, <1>2, <1>6, <2>1 DEF CallsExact
  <1>22. OthersExact'
    <2>1. \A x \in made \ {t, u} : (IF InC(x) THEN SavedExact(x) ELSE FreshExact(x))'
      BY <1>0, <1>1, <1>6, <1>13 DEF OthersExact
    <2>2. (IF InC(t) THEN SavedExact(t) ELSE FreshExact(t))'
      BY <1>6, <1>8, <1>14
    <2> QED
      BY <1>2, <2>1, <2>2 DEF OthersExact
  <1>23. FramesExact'
    BY <1>1, <1>2, <1>6, <1>13 DEF FramesExact
  <1>24. FencesIntact'
    <2>1. ASSUME NEW x \in made PROVE memory'[FenceWord(x)] = memory[FenceWord(x)]
      <3>1. x \in KThread /\ FenceWord(x) = StackWord(x, IF arch = "SNAKE" THEN WordsOfStack - 1 ELSE 0)
        BY <1>3, Kept386Words
      <3>2. CASE arch = "i386"
        <4>1. 0 \in 0..(WordsOfStack - 1) /\ 0 \notin {D(t) - 1, D(t) - 2, D(t) - 3} /\ 0 # SavedDepth(u) + 1
          BY <1>10
        <4> HIDE DEF D
        <4>2. StackWord(x, 0) \in MemoryWords \ Written(u)
          BY <1>12, <3>1, <4>1
        <4> QED
          BY <1>2, <1>4, <3>1, <3>2, <4>2
      <3>3. CASE arch # "i386"
        <4>1. 0 \in 0..(WordsOfStack - 1) /\ WordsOfStack - 1 \in 0..(WordsOfStack - 1)
          BY <1>10
        <4>2. FenceWord(x) \in MemoryWords \ Written(u)
          <5> HIDE DEF D
          <5> QED
            BY <1>12, <3>1, <3>3, <4>1
        <4> QED
          BY <1>2, <1>4, <4>2
      <3> QED
        BY <3>2, <3>3
    <2> QED
      BY <1>1, <1>2, <1>5, <2>1 DEF FencesIntact
  <1> QED
    BY <1>19, <1>20, <1>21, <1>22, <1>23, <1>24 DEF KernelInv

\* The user programs' registers and page tables.
LEMMA UserKeeps ==
    ASSUME SwitchInv, SwitchNext, KernelInv',
           \A u \in KThread : Run(u) => (InC(u) <=> pc' = InRun)
    PROVE  UserExact'
  <1>1. /\ SwitchTypeOK /\ CallsExact /\ RunningExact /\ UserExact
        /\ made \subseteq KThread /\ current \in made /\ DOMAIN userRegisters = KThread
        /\ DOMAIN owedUser = KThread
    BY DEF SwitchInv, KernelInv, SwitchTypeOK
  <1>2. ASSUME UNCHANGED <<calls, current, pc, userStateVars>>, made \subseteq made' PROVE UserExact'
    <2>1. \A x : Steps(x)' = Steps(x)
      BY <1>2 DEF Steps
    <2> QED
      BY <1>1, <1>2, <2>1 DEF UserExact, userStateVars
  <1>3. ASSUME NEW t \in KThread, StackAllocate(t) PROVE UserExact'
    <2>1. UNCHANGED <<calls, current, pc, userStateVars>> /\ made' = made \cup {t}
      BY <1>3 DEF StackAllocate
    <2> QED
      BY <1>2, <2>1
  <1>4. ASSUME UseRegisters PROVE UserExact'
    <2>1. UNCHANGED <<calls, current, pc, userStateVars>> /\ made' = made
      BY <1>4 DEF UseRegisters
    <2> QED
      BY <1>2, <2>1
  <1>5. ASSUME RootStep PROVE UserExact'
    <2>1. pc[2] = "ThreadRoot" /\ current' = current /\ made' = made
          /\ userStateVars' = userStateVars
          /\ \E e : calls' = [calls EXCEPT ![current] = Append(@, e)]
      BY <1>5, Zenon DEF RootStep
    <2>2. pc # InRun /\ current \notin space
      BY <1>1, <2>1 DEF UserExact, InRun, Code
    <2>3. \A x \in space : calls'[x] = calls[x] /\ x # current
      BY <1>1, <2>1, <2>2 DEF UserExact, SwitchTypeOK
    <2>4. \A x \in space : Steps(x)' = Steps(x)
      BY <2>3 DEF Steps
    <2> QED
      BY <1>1, <2>1, <2>2, <2>4 DEF UserExact, userStateVars
  <1>6. ASSUME ReturnFromFunc PROVE UserExact'
    <2>1. current \notin space /\ UNCHANGED <<calls, current, made, userStateVars>>
      BY <1>6 DEF ReturnFromFunc
    <2>2. \A x : Steps(x)' = Steps(x)
      BY <2>1 DEF Steps
    <2> QED
      BY <1>1, <2>1, <2>2 DEF UserExact, userStateVars
  <1>7. ASSUME NEW u \in KThread, Run(u) PROVE UserExact'
    <2>1. /\ pc = InRun /\ u \in made \ {current}
          /\ userRegisters' = (IF current \in space THEN [userRegisters EXCEPT ![current] = userCpu]
                               ELSE userRegisters)
          /\ current' = u
          /\ pc' = InRun => RestoreUser(u)
          /\ UNCHANGED <<arch, made, frame, owed, calls, space, owedUser>>
      BY <1>7, Zenon DEF Run
    <2>2. \A x : Steps(x)' = Steps(x)
      BY <2>1 DEF Steps
    <2>3. \A x \in space : userRegisters'[x] = owedUser[x]
      BY <1>1, <2>1 DEF UserExact
    <2>4. ASSUME u \in space PROVE pc' = InRun /\ userCpu' = owedUser[u] /\ loadedTable' = u
      <3>1. InC(u)
        BY <1>1, <2>4 DEF UserExact, InC
      <3>2. pc' = InRun
        BY <1>7, <3>1
      <3>3. userRegisters[u] = owedUser[u]
        BY <1>1, <2>1, <2>4 DEF UserExact
      <3> QED
        BY <2>1, <2>4, <3>2, <3>3 DEF RestoreUser
    <2> QED
      BY <1>1, <2>1, <2>2, <2>3, <2>4 DEF UserExact
  <1>8. ASSUME UserRuns PROVE UserExact'
    <2>1. /\ InBody
          /\ space' = space \cup {current} /\ loadedTable' = (IF current \in space THEN loadedTable ELSE current)
          /\ userCpu' = UserDatum(current) /\ owedUser' = [owedUser EXCEPT ![current] = userCpu']
          /\ pc' = pc /\ current' = current /\ made' = made /\ calls' = calls
          /\ userRegisters' = userRegisters
      <3>1. /\ InBody
            /\ IF current \in space THEN UNCHANGED <<space, loadedTable>>
               ELSE space' = space \cup {current} /\ loadedTable' = current
            /\ userCpu' = UserDatum(current) /\ owedUser' = [owedUser EXCEPT ![current] = userCpu']
            /\ UNCHANGED <<kernelVars, userRegisters>>
        BY <1>8, Zenon DEF UserRuns
      <3>2. space' = space \cup {current} /\ loadedTable' = (IF current \in space THEN loadedTable ELSE current)
        BY <3>1
      <3> QED
        BY <3>1, <3>2 DEF kernelVars
    <2>2. \A x : Steps(x)' = Steps(x)
      BY <2>1 DEF Steps
    <2>3. pc = InRun /\ (current = Main \/ Steps(current) = 2)
      BY <1>1, <2>1 DEF InBody, Finishing, Steps, RunningExact, InC
    <2>4. owedUser'[current] = userCpu' /\ \A x \in KThread \ {current} : owedUser'[x] = owedUser[x]
      BY <1>1, <2>1
    <2>5. \A x \in space \ {current} : userRegisters'[x] = owedUser'[x]
      BY <1>1, <2>1, <2>4 DEF UserExact
    <2>6. loadedTable' = current
      BY <1>1, <2>1 DEF UserExact
    <2>7. \A x \in space' : x \in made' /\ (x = Main \/ Steps(x)' = 2)
      BY <1>1, <2>1, <2>2, <2>3 DEF UserExact
    <2> QED
      BY <2>1, <2>3, <2>4, <2>5, <2>6, <2>7 DEF UserExact
  <1> QED
    BY <1>3, <1>4, <1>5, <1>6, <1>7, <1>8 DEF SwitchNext

\* A step of no interest to the kernel.
LEMMA KernelKept ==
    ASSUME KernelInv, UNCHANGED kernelVars, DOMAIN userRegisters' = DOMAIN userRegisters,
           DOMAIN owedUser' = DOMAIN owedUser
    PROVE  KernelInv'
  <1>1. /\ SwitchTypeOK /\ CallsExact /\ RunningExact /\ OthersExact /\ FramesExact /\ FencesIntact
    BY DEF KernelInv
  <1>2. /\ arch' = arch /\ cpu' = cpu /\ memory' = memory /\ pc' = pc /\ current' = current
        /\ made' = made /\ frame' = frame /\ owed' = owed /\ calls' = calls
    BY DEF kernelVars
  <1>3. /\ CalleeSaved' = CalleeSaved /\ Registers' = Registers /\ MemoryWords' = MemoryWords
        /\ \A x : FenceWord(x)' = FenceWord(x)
        /\ \A n : RootAt(n)' = RootAt(n) /\ \A r : Offset(r)' = Offset(r)
    BY <1>2, ArchKept DEF MemoryWords
  <1>4. \A x : /\ Steps(x)' = Steps(x) /\ InC(x)' = InC(x)
               /\ FrameExact(x)' = FrameExact(x) /\ SavedExact(x)' = SavedExact(x)
               /\ FreshExact(x)' = FreshExact(x)
    BY <1>2, <1>3 DEF Steps, InC, FrameExact, SavedExact, FreshExact
  <1>5. SwitchTypeOK' /\ CallsExact' /\ FencesIntact'
    BY <1>1, <1>2, <1>3 DEF SwitchTypeOK, CallsExact, FencesIntact, Steps
  <1>6. RunningExact'
    <2>2. Steps(current)' = Steps(current) /\ InC(current)' = InC(current)
      BY <1>2 DEF Steps, InC
    <2>3. RootState(Steps(current))' = RootState(Steps(current))
      BY <1>2, <2>2 DEF RootState
    <2>4. RootAt(Steps(current))' = RootAt(Steps(current))
      BY <1>2, <2>2 DEF RootAt
    <2> QED
      BY <1>1, <1>2, <1>3, <2>2, <2>3, <2>4, Zenon DEF RunningExact
  <1>7. OthersExact' /\ FramesExact'
    BY <1>1, <1>2, <1>4 DEF OthersExact, FramesExact
  <1> QED
    BY <1>5, <1>6, <1>7 DEF KernelInv

LEMMA InvStep == SwitchInv /\ [SwitchNext]_switchVars => SwitchInv'
  <1> SUFFICES ASSUME SwitchInv, [SwitchNext]_switchVars PROVE SwitchInv'
    OBVIOUS
  <1>1. KernelInv
    BY DEF SwitchInv
  <1>2. ASSUME SwitchNext PROVE KernelInv'
    <2>1. ASSUME NEW t \in KThread, StackAllocate(t) PROVE KernelInv'
      BY <1>1, <2>1, StackAllocateKeeps
    <2>2. ASSUME NEW u \in KThread, Run(u) PROVE KernelInv'
      BY <1>1, <2>2, RunKeeps
    <2>3. ASSUME UseRegisters PROVE KernelInv'
      BY <1>1, <2>3, UseRegistersKeeps
    <2>4. ASSUME RootStep PROVE KernelInv'
      BY <1>1, <2>4, RootStepKeeps
    <2>5. ASSUME ReturnFromFunc PROVE KernelInv'
      BY <1>1, <2>5, ReturnFromFuncKeeps
    <2>6. ASSUME UserRuns PROVE KernelInv'
      <3>1. kernelVars' = kernelVars /\ DOMAIN userRegisters' = DOMAIN userRegisters
            /\ DOMAIN owedUser' = DOMAIN owedUser
        BY <2>6 DEF UserRuns
      <3> QED
        BY <1>1, <3>1, KernelKept
    <2> QED
      BY <1>2, <2>1, <2>2, <2>3, <2>4, <2>5, <2>6 DEF SwitchNext
  <1>3. ASSUME SwitchNext PROVE UserExact'
    <2>1. \A u \in KThread : Run(u) => (InC(u) <=> pc' = InRun)
      BY <1>1, RunKeeps
    <2> QED
      BY <1>2, <1>3, <2>1, UserKeeps
  <1>4. ASSUME UNCHANGED switchVars PROVE SwitchInv'
    <2>1. UNCHANGED kernelVars /\ UNCHANGED userStateVars
      BY <1>4 DEF switchVars
    <2>2. KernelInv'
      BY <1>1, <2>1, KernelKept DEF userStateVars
    <2>3. UserExact'
      <3>1. \A x : Steps(x)' = Steps(x)
        BY <2>1 DEF Steps, kernelVars
      <3> QED
        BY <2>1, <3>1 DEF SwitchInv, UserExact, kernelVars, userStateVars
    <2> QED
      BY <2>2, <2>3 DEF SwitchInv
  <1> QED
    BY <1>2, <1>3, <1>4 DEF SwitchInv

THEOREM SwitchInvariant == SwitchSpec => []SwitchInv
  <1> QED
    BY InvInit, InvStep, PTL DEF SwitchSpec

(***************************************************************************)
(* On each of the three hosts, for any number of threads and any order of  *)
(* their starts and switches, a thread that goes on after SWITCH finds its *)
(* stack pointer and every register that SWITCH must keep, the fenceposts  *)
(* are intact, and a user program finds its registers and page table.      *)
(***************************************************************************)
THEOREM RegistersAreKept == SwitchSpec => []RegistersKept
  <1>1. SwitchInv => RegistersKept
    <2> SUFFICES ASSUME SwitchInv PROVE RegistersKept
      OBVIOUS
    <2>1. RunningExact /\ FencesIntact /\ UserExact
      BY DEF SwitchInv, KernelInv
    <2> QED
      BY <2>1 DEF RegistersKept, RunningExact, FencesIntact, UserExact, UserStateKept
  <1> QED
    BY <1>1, SwitchInvariant, PTL

(***************************************************************************)
(* And each new thread goes through ThreadRoot in order: interrupts on,    *)
(* its function with its argument, ThreadFinish.                           *)
(***************************************************************************)
THEOREM RootStaysInOrder == SwitchSpec => []RootInOrder
  <1>1. SwitchInv => RootInOrder
    <2> SUFFICES ASSUME SwitchInv PROVE RootInOrder
      OBVIOUS
    <2>1. RunningExact /\ CallsExact
      BY DEF SwitchInv, KernelInv
    <2>2. pc = InRun \/ pc[2] = "ThreadRoot"
      BY <2>1, Values DEF RunningExact, RootAt
    <2>3. ASSUME NEW t \in KThread
          PROVE  IsPrefix(calls[t], << <<InterruptEnable, Junk>>, <<Func, arg(t)>>, <<ThreadFinish, Junk>> >>)
      <3>1. Len(calls[t]) \in 0..3 /\ calls[t] = SubSeq(Script(t), 1, Len(calls[t]))
        BY <2>1 DEF CallsExact, Steps
      <3>2. Len(Script(t)) = 3
        BY DEF Script
      <3>3. SubSeq(calls[t], 1, Len(calls[t])) = calls[t]
        <4> DEFINE k == Len(calls[t])
        <4>1. \A n \in {0, 1, 2, 3} : SubSeq(SubSeq(Script(t), 1, n), 1, n) = SubSeq(Script(t), 1, n)
          BY DEF Script
        <4>2. k \in {0, 1, 2, 3} /\ calls[t] = SubSeq(Script(t), 1, k)
          BY <3>1
        <4> HIDE DEF k
        <4>3. SubSeq(calls[t], 1, k) = calls[t]
          BY <4>1, <4>2, Zenon
        <4> QED
          BY <4>3 DEF k
      <3>4. IsPrefix(calls[t], Script(t))
        BY <3>1, <3>2, <3>3 DEF IsPrefix
      <3> QED
        BY <3>4 DEF Script
    <2> QED
      BY <2>2, <2>3 DEF RootInOrder
  <1> QED
    BY <1>1, SwitchInvariant, PTL

-----------------------------------------------------------------------------
(***************************************************************************)
(* Lists.  ChainIntact speaks of what a walk meets; the invariant names    *)
(* the sequence c of elements that is there, without a walk.  Each call    *)
(* puts one element into c at a place, or takes one out, which is shown    *)
(* once for all calls (JoinKeeps, LeaveKeeps).                             *)
(***************************************************************************)

ListsSpec == ListsInit /\ [][ListsNext]_listsVars

ListType ==
    /\ list \in {"List", "DLList"}
    /\ next \in [Element -> Element \cup {NULL}] /\ prev \in [Element -> Element \cup {NULL}]
    /\ key \in [Element -> Int]
    /\ live \subseteq Element

\* The elements that exist are c[1] to c[n], linked in this order.
Linked(c, n) ==
    /\ \A i, j \in 1..n : c[i] = c[j] => i = j
    /\ live = {c[i] : i \in 1..n}
    /\ first = IF n = 0 THEN NULL ELSE c[1]
    /\ last = IF n = 0 THEN NULL ELSE c[n]
    /\ \A i \in 1..n : next[c[i]] = IF i = n THEN NULL ELSE c[i + 1]
    /\ \A e \in Element \ live : next[e] = NULL

\* Lab 1's list is also linked backwards, and sorted.
Backwards(c, n) ==
    /\ \A i \in 1..n :
          /\ prev[c[i]] = IF i = 1 THEN NULL ELSE c[i - 1]
          /\ i > 1 => key[c[i - 1]] <= key[c[i]]
    /\ \A e \in Element \ live : prev[e] = NULL

ListOf(c, n) == ListType /\ Linked(c, n) /\ (list = "DLList" => Backwards(c, n))

ListsInv == \E n \in Nat : \E c \in [1..n -> Element] : ListOf(c, n)

\* e becomes the i-th element, with key k ...
Joins(c, n, i, e, k) ==
    /\ live' = live \cup {e} /\ list' = list
    /\ key' = [key EXCEPT ![e] = k]
    /\ first' = IF i = 1 THEN e ELSE first
    /\ last' = IF i = n + 1 THEN e ELSE last
    /\ next' \in [Element -> Element \cup {NULL}]
    /\ \A x \in Element :
          next'[x] = IF x = e THEN IF i = n + 1 THEN NULL ELSE c[i]
                     ELSE IF i > 1 /\ x = c[i - 1] THEN e ELSE next[x]
    /\ prev' \in [Element -> Element \cup {NULL}]
    /\ list = "DLList" =>
          /\ \A x \in Element :
                prev'[x] = IF x = e THEN IF i = 1 THEN NULL ELSE c[i - 1]
                           ELSE IF i <= n /\ x = c[i] THEN e ELSE prev[x]
          /\ (i > 1 => key[c[i - 1]] <= k) /\ (i <= n => k <= key[c[i]])

Longer(c, n, i, e) ==
    [j \in 1..(n + 1) |-> IF j < i THEN c[j] ELSE IF j = i THEN e ELSE c[j - 1]]

\* ... and the i-th element is taken out.
Leaves(c, n, i) ==
    /\ live' = live \ {c[i]} /\ list' = list
    /\ key' = [key EXCEPT ![c[i]] = 0]
    /\ first' = IF i # 1 THEN first ELSE IF n = 1 THEN NULL ELSE c[2]
    /\ last' = IF i # n THEN last ELSE IF n = 1 THEN NULL ELSE c[n - 1]
    /\ next' \in [Element -> Element \cup {NULL}]
    /\ \A x \in Element :
          next'[x] = IF x = c[i] THEN NULL
                     ELSE IF i > 1 /\ x = c[i - 1] THEN IF i = n THEN NULL ELSE c[i + 1] ELSE next[x]
    /\ prev' \in [Element -> Element \cup {NULL}]
    /\ list = "DLList" =>
          \A x \in Element :
                prev'[x] = IF x = c[i] THEN NULL
                           ELSE IF i < n /\ x = c[i + 1] THEN IF i = 1 THEN NULL ELSE c[i - 1] ELSE prev[x]

Shorter(c, n, i) == [j \in 1..(n - 1) |-> IF j < i THEN c[j] ELSE c[j + 1]]

\* Where an element with key k belongs: before the first one that is later.
Later(x, k) == IF list = "List" THEN k < key[x] ELSE k <= key[x]
Belongs(c, n, i, k) == (\A j \in 1..(i - 1) : ~Later(c[j], k)) /\ (i <= n => Later(c[i], k))

\* The walk meets the elements in their order, and its bound cuts nothing off.
LEMMA ChainIs ==
    ASSUME NEW n \in Nat, NEW c \in [1..n -> Element], ListOf(c, n)
    PROVE  Chain = c /\ Chain \in Seq(Element) /\ Len(Chain) = n
  <1> DEFINE K == Cardinality(Element)
             Walked(met) == LET e == IF met = <<>> THEN first ELSE next[Last(met)]
                            IN  IF e = NULL THEN met ELSE Append(met, e)
             Is(g) == g = [k \in 0..K |-> IF k = 0 THEN <<>> ELSE Walked(g[k - 1])]
             g == [k \in 0..K |-> IF k <= n THEN SubSeq(c, 1, k) ELSE c]
  <1>1. c \in Seq(Element) /\ Len(c) = n /\ NULL \notin Element
    BY ListsAssumption
  <1>2. K \in Nat /\ n <= K
    <2>1. IsFiniteSet(1..n) /\ Cardinality(1..n) = n
      BY FS_Interval
    <2>2. c \in Injection(1..n, Element)
      BY DEF ListOf, Linked, Injection, IsInjective
    <2>3. Cardinality(1..n) <= Cardinality(Element)
      BY <2>2, ListsAssumption, FS_Injection
    <2>4. Cardinality(Element) \in Nat
      BY ListsAssumption, FS_CardinalityType
    <2> QED
      BY <2>1, <2>3, <2>4
  <1>3. \A k \in 0..n : /\ SubSeq(c, 1, k) \in Seq(Element) /\ Len(SubSeq(c, 1, k)) = k
                        /\ \A i \in 1..k : SubSeq(c, 1, k)[i] = c[i]
    BY <1>1
  <1>4. \A k \in 1..n : Walked(SubSeq(c, 1, k - 1)) = SubSeq(c, 1, k)
    <2> SUFFICES ASSUME NEW k \in 1..n PROVE Walked(SubSeq(c, 1, k - 1)) = SubSeq(c, 1, k)
      OBVIOUS
    <2> DEFINE met == SubSeq(c, 1, k - 1)
               e == IF met = <<>> THEN first ELSE next[Last(met)]
    <2>1. met \in Seq(Element) /\ Len(met) = k - 1 /\ (k > 1 => met[k - 1] = c[k - 1])
      BY <1>3
    <2>2. e = c[k]
      <3>1. CASE k = 1
        BY <2>1, <3>1 DEF ListOf, Linked
      <3>2. CASE k > 1
        <4>1. met # <<>> /\ Last(met) = c[k - 1]
          BY <2>1, <3>2 DEF Last
        <4>2. next[c[k - 1]] = c[k]
          BY <3>2 DEF ListOf, Linked
        <4> QED
          BY <4>1, <4>2
      <3> QED
        BY <3>1, <3>2
    <2>3. c[k] # NULL
      BY <1>1
    <2>4. Append(met, c[k]) = SubSeq(c, 1, k)
      <3>1. Append(met, c[k]) \in Seq(Element) /\ Len(Append(met, c[k])) = k
        BY <2>1
      <3>2. \A i \in 1..k : Append(met, c[k])[i] = c[i]
        BY <2>1, <1>3
      <3> HIDE DEF met
      <3>3. SubSeq(c, 1, k) \in Seq(Element) /\ Len(SubSeq(c, 1, k)) = k
            /\ \A i \in 1..k : SubSeq(c, 1, k)[i] = c[i]
        BY <1>3
      <3> QED
        BY <3>1, <3>2, <3>3, SeqEqual
    <2> HIDE DEF e, met
    <2>5. Walked(met) = IF e = NULL THEN met ELSE Append(met, e)
      BY DEF e
    <2> QED
      BY <2>2, <2>3, <2>4, <2>5 DEF met
  <1>5. Walked(c) = c
    <2>1. CASE n = 0
      BY <1>1, <2>1 DEF ListOf, Linked
    <2>2. CASE n # 0
      <3>1. c # <<>> /\ Last(c) = c[n] /\ next[c[n]] = NULL
        BY <1>1, <2>2 DEF Last, ListOf, Linked
      <3> QED
        BY <3>1
    <2> QED
      BY <2>1, <2>2
  <1>6. SubSeq(c, 1, n) = c /\ SubSeq(c, 1, 0) = <<>>
    BY <1>1
  <1>7. \A k \in 0..K : g[k] = IF k = 0 THEN <<>> ELSE Walked(g[k - 1])
    <2> SUFFICES ASSUME NEW k \in 0..K PROVE g[k] = IF k = 0 THEN <<>> ELSE Walked(g[k - 1])
      OBVIOUS
    <2> HIDE DEF Walked
    <2>1. CASE k = 0
      BY <1>6, <2>1
    <2>2. CASE k \in 1..n
      <3>1. g[k] = SubSeq(c, 1, k) /\ g[k - 1] = SubSeq(c, 1, k - 1) /\ k # 0
        BY <1>2, <2>2
      <3>2. Walked(SubSeq(c, 1, k - 1)) = SubSeq(c, 1, k)
        BY <1>4, <2>2
      <3> HIDE DEF g
      <3> QED
        BY <3>1, <3>2, Zenon
    <2>3. CASE k = n + 1
      <3>1. g[k] = c /\ g[k - 1] = c /\ k # 0
        BY <1>2, <1>6, <2>3
      <3> HIDE DEF g
      <3> QED
        BY <3>1, <1>5, Zenon
    <2>4. CASE k > n + 1
      BY <1>2, <1>5, <2>4
    <2> QED
      BY <1>2, <2>1, <2>2, <2>3, <2>4
  <1> HIDE DEF Walked
  <1>8. Is(g)
    <2> DEFINE h == [k \in 0..K |-> IF k = 0 THEN <<>> ELSE Walked(g[k - 1])]
    <2>1. DOMAIN g = 0..K /\ DOMAIN h = 0..K /\ \A k \in 0..K : g[k] = h[k]
      BY <1>7
    <2>2. g = [k \in 0..K |-> g[k]] /\ h = [k \in 0..K |-> h[k]]
      OBVIOUS
    <2>3. g = h
      <3> HIDE DEF g, h
      <3> QED
        BY <2>1, <2>2
    <2> QED
      BY <2>3
  <1> DEFINE walk == CHOOSE f : Is(f)
  <1>9. Is(walk)
    <2> HIDE DEF Is, g
    <2> QED
      BY <1>8
  <1>10. Chain = walk[K]
    BY DEF Chain, Walked
  <1> HIDE DEF walk, g
  <1>11. \A k \in 0..K : walk[k] = IF k = 0 THEN <<>> ELSE Walked(walk[k - 1])
    BY <1>9
  <1> DEFINE T == {k \in 0..K : walk[k] # g[k]}
  <1>12. T = {}
    <2> SUFFICES ASSUME T # {} PROVE FALSE
      OBVIOUS
    <2>1. T \in SUBSET Nat
      OBVIOUS
    <2>2. PICK k \in T : \A j \in T : k <= j
      <3> HIDE DEF T
      <3> QED
        BY <2>1, LeastOf
    <2>3. k \in 0..K /\ walk[k] # g[k]
      OBVIOUS
    <2>4. k # 0
      BY <1>7, <1>11, <2>3
    <2>5. k - 1 \in 0..K /\ walk[k - 1] = g[k - 1]
      BY <1>2, <2>2, <2>3, <2>4
    <2> QED
      BY <1>7, <1>11, <2>3, <2>4, <2>5
  <1>13. walk[K] = g[K]
    BY <1>2, <1>12
  <1>14. g[K] = c
    BY <1>2, <1>6 DEF g
  <1> QED
    BY <1>1, <1>10, <1>13, <1>14

\* A chain with one more element is a chain ...
LEMMA JoinKeeps ==
    ASSUME NEW n \in Nat, NEW c \in [1..n -> Element], ListOf(c, n),
           NEW i \in 1..(n + 1), NEW e \in Element \ live, NEW k \in Int, Joins(c, n, i, e, k)
    PROVE  /\ Longer(c, n, i, e) \in [1..(n + 1) -> Element]
           /\ ListOf(Longer(c, n, i, e), n + 1)'
  <1> DEFINE d == Longer(c, n, i, e)
  <1>1. /\ d \in [1..(n + 1) -> Element]
        /\ \A j \in 1..(n + 1) : d[j] = IF j < i THEN c[j] ELSE IF j = i THEN e ELSE c[j - 1]
    BY DEF Longer
  <1>2. /\ \A j \in 1..n : c[j] \in live /\ c[j] # e
        /\ \A j, m \in 1..n : c[j] = c[m] => j = m
    BY DEF ListOf, Linked
  <1> HIDE DEF d
  <1>3. \A j, m \in 1..(n + 1) : d[j] = d[m] => j = m
    <2> SUFFICES ASSUME NEW j \in 1..(n + 1), NEW m \in 1..(n + 1), d[j] = d[m] PROVE j = m
      OBVIOUS
    <2> QED
      BY <1>1, <1>2
  <1>4. {d[j] : j \in 1..(n + 1)} = live \cup {e}
    <2>1. ASSUME NEW j \in 1..(n + 1) PROVE d[j] \in live \cup {e}
      BY <1>1, <1>2
    <2>2. e = d[i]
      BY <1>1
    <2>3. ASSUME NEW x \in live PROVE \E j \in 1..(n + 1) : x = d[j]
      <3>1. PICK j \in 1..n : x = c[j]
        BY DEF ListOf, Linked
      <3>2. CASE j < i
        BY <1>1, <3>1, <3>2
      <3>3. CASE j >= i
        <4>1. j + 1 \in 1..(n + 1) /\ d[j + 1] = c[j]
          BY <1>1, <3>3
        <4> QED
          BY <3>1, <4>1
      <3> QED
        BY <3>2, <3>3
    <2> QED
      BY <2>1, <2>2, <2>3
  <1>5. ListType'
    <2>1. list' = list /\ live' = live \cup {e} /\ key' = [key EXCEPT ![e] = k]
      BY DEF Joins
    <2>2. /\ next' \in [Element -> Element \cup {NULL}]
          /\ prev' \in [Element -> Element \cup {NULL}]
      BY DEF Joins
    <2> QED
      BY <2>1, <2>2 DEF ListOf, ListType
  <1>6. Linked(d, n + 1)'
    <2>1. live' = {d[j] : j \in 1..(n + 1)}
      BY <1>4 DEF Joins
    <2>2. first' = IF n + 1 = 0 THEN NULL ELSE d[1]
      <3>1. first' = IF i = 1 THEN e ELSE first
        BY DEF Joins
      <3>2. i # 1 => n # 0 /\ first = c[1] /\ d[1] = c[1]
        BY <1>1 DEF ListOf, Linked
      <3>3. i = 1 => d[1] = e
        BY <1>1
      <3> QED
        BY <3>1, <3>2, <3>3
    <2>3. last' = IF n + 1 = 0 THEN NULL ELSE d[n + 1]
      <3>1. last' = IF i = n + 1 THEN e ELSE last
        BY DEF Joins
      <3>2. i # n + 1 => n # 0 /\ last = c[n] /\ d[n + 1] = c[n]
        BY <1>1 DEF ListOf, Linked
      <3>3. i = n + 1 => d[n + 1] = e
        BY <1>1
      <3> QED
        BY <3>1, <3>2, <3>3
    <2>4. ASSUME NEW j \in 1..(n + 1)
          PROVE  next'[d[j]] = IF j = n + 1 THEN NULL ELSE d[j + 1]
      <3>1. next'[d[j]] = IF d[j] = e THEN IF i = n + 1 THEN NULL ELSE c[i]
                          ELSE IF i > 1 /\ d[j] = c[i - 1] THEN e ELSE next[d[j]]
        BY <1>1 DEF Joins
      <3>2. \A m \in 1..n : next[c[m]] = IF m = n THEN NULL ELSE c[m + 1]
        BY DEF ListOf, Linked
      <3>3. CASE j = i
        BY <1>1, <3>1, <3>3
      <3>4. CASE j = i - 1
        <4>1. d[j] = c[i - 1] /\ d[j] # e /\ d[j + 1] = e /\ i > 1 /\ j # n + 1
          BY <1>1, <1>2, <3>4
        <4> QED
          BY <3>1, <4>1
      <3>5. CASE j < i - 1
        <4>1. d[j] = c[j] /\ d[j] # e /\ d[j] # c[i - 1] /\ d[j + 1] = c[j + 1] /\ j # n
          BY <1>1, <1>2, <3>5
        <4> QED
          BY <3>1, <3>2, <3>5, <4>1
      <3>6. CASE j > i
        <4>1. d[j] = c[j - 1] /\ d[j] # e /\ (i > 1 => d[j] # c[i - 1]) /\ (j # n + 1 => d[j + 1] = c[j])
          BY <1>1, <1>2, <3>6
        <4>2. next'[d[j]] = next[c[j - 1]]
          BY <3>1, <4>1
        <4>3. next[c[j - 1]] = IF j - 1 = n THEN NULL ELSE c[j]
          BY <3>2, <3>6
        <4> QED
          BY <4>1, <4>2, <4>3
      <3> QED
        BY <3>3, <3>4, <3>5, <3>6
    <2>5. ASSUME NEW x \in Element \ live' PROVE next'[x] = NULL
      <3>1. x \in Element /\ x # e /\ x \notin live
        BY DEF Joins
      <3>2. next'[x] = next[x]
        BY <1>2, <3>1 DEF Joins
      <3> QED
        BY <3>1, <3>2 DEF ListOf, Linked
    <2> QED
      BY <1>3, <2>1, <2>2, <2>3, <2>4, <2>5 DEF Linked
  <1>7. ASSUME list' = "DLList" PROVE Backwards(d, n + 1)'
    <2>0. list = "DLList" /\ live' = live \cup {e}
      BY <1>7 DEF Joins
    <2>1. /\ \A m \in 1..n : prev[c[m]] = IF m = 1 THEN NULL ELSE c[m - 1]
          /\ \A m \in 1..n : m > 1 => key[c[m - 1]] <= key[c[m]]
          /\ \A x \in Element \ live : prev[x] = NULL
      BY <2>0 DEF ListOf, Backwards
    <2>2. /\ \A x \in Element : prev'[x] = IF x = e THEN IF i = 1 THEN NULL ELSE c[i - 1]
                                           ELSE IF i <= n /\ x = c[i] THEN e ELSE prev[x]
          /\ i > 1 => key[c[i - 1]] <= k
          /\ i <= n => k <= key[c[i]]
      BY <2>0 DEF Joins
    <2>3. key'[e] = k /\ \A m \in 1..n : key'[c[m]] = key[c[m]]
      <3>1. key' = [key EXCEPT ![e] = k] /\ DOMAIN key = Element
        BY DEF Joins, ListOf, ListType
      <3> QED
        BY <1>2, <3>1
    <2>4. ASSUME NEW j \in 1..(n + 1) PROVE prev'[d[j]] = IF j = 1 THEN NULL ELSE d[j - 1]
      <3>1. prev'[d[j]] = IF d[j] = e THEN IF i = 1 THEN NULL ELSE c[i - 1]
                          ELSE IF i <= n /\ d[j] = c[i] THEN e ELSE prev[d[j]]
        BY <1>1, <2>2
      <3>2. CASE j = i
        BY <1>1, <3>1, <3>2
      <3>3. CASE j = i + 1
        <4>1. d[j] = c[i] /\ d[j] # e /\ d[j - 1] = e /\ i <= n /\ j # 1
          BY <1>1, <1>2, <3>3
        <4> QED
          BY <3>1, <4>1
      <3>4. CASE j < i
        <4>1. d[j] = c[j] /\ d[j] # e /\ (i <= n => d[j] # c[i]) /\ (j # 1 => d[j - 1] = c[j - 1])
          BY <1>1, <1>2, <3>4
        <4>2. prev'[d[j]] = prev[c[j]]
          BY <3>1, <4>1
        <4>3. prev[c[j]] = IF j = 1 THEN NULL ELSE c[j - 1]
          BY <2>1, <3>4
        <4> QED
          BY <4>1, <4>2, <4>3
      <3>5. CASE j > i + 1
        <4>1. d[j] = c[j - 1] /\ d[j] # e /\ d[j] # c[i] /\ d[j - 1] = c[j - 2]
          BY <1>1, <1>2, <3>5
        <4>2. prev'[d[j]] = prev[c[j - 1]]
          BY <3>1, <4>1
        <4>3. prev[c[j - 1]] = IF j - 1 = 1 THEN NULL ELSE c[(j - 1) - 1]
          BY <2>1, <3>5
        <4> QED
          BY <3>5, <4>1, <4>2, <4>3
      <3> QED
        BY <3>2, <3>3, <3>4, <3>5
    <2>5. ASSUME NEW j \in 1..(n + 1), j > 1 PROVE key'[d[j - 1]] <= key'[d[j]]
      <3>1. CASE j = i
        <4>1. d[j] = e /\ d[j - 1] = c[i - 1] /\ i - 1 \in 1..n
          BY <1>1, <2>5, <3>1
        <4> QED
          BY <2>2, <2>3, <2>5, <3>1, <4>1
      <3>2. CASE j = i + 1
        <4>1. d[j] = c[i] /\ d[j - 1] = e /\ i \in 1..n
          BY <1>1, <3>2
        <4> QED
          BY <2>2, <2>3, <4>1
      <3>3. CASE j < i
        <4>1. d[j] = c[j] /\ d[j - 1] = c[j - 1] /\ j \in 1..n /\ j - 1 \in 1..n
          BY <1>1, <2>5, <3>3
        <4> QED
          BY <2>1, <2>3, <2>5, <4>1
      <3>4. CASE j > i + 1
        <4>1. d[j] = c[j - 1] /\ d[j - 1] = c[(j - 1) - 1] /\ j - 1 \in 1..n /\ (j - 1) - 1 \in 1..n /\ j - 1 > 1
          BY <1>1, <3>4
        <4> HIDE DEF d
        <4> QED
          BY <2>1, <2>3, <4>1
      <3> QED
        BY <3>1, <3>2, <3>3, <3>4
    <2>6. ASSUME NEW x \in Element \ live' PROVE prev'[x] = NULL
      <3>1. x \in Element /\ x # e /\ x \notin live
        BY <2>0
      <3>2. prev'[x] = prev[x]
        BY <1>2, <2>2, <3>1
      <3> QED
        BY <2>1, <3>1, <3>2
    <2> QED
      BY <2>4, <2>5, <2>6 DEF Backwards
  <1> QED
    BY <1>1, <1>5, <1>6, <1>7 DEF ListOf, d

\* ... and so is one with an element less.
LEMMA LeaveKeeps ==
    ASSUME NEW n \in Nat, NEW c \in [1..n -> Element], ListOf(c, n),
           NEW i \in 1..n, Leaves(c, n, i)
    PROVE  /\ n - 1 \in Nat /\ Shorter(c, n, i) \in [1..(n - 1) -> Element]
           /\ ListOf(Shorter(c, n, i), n - 1)'
  <1> DEFINE d == Shorter(c, n, i)
  <1>1. /\ n - 1 \in Nat /\ d \in [1..(n - 1) -> Element]
        /\ \A j \in 1..(n - 1) : d[j] = IF j < i THEN c[j] ELSE c[j + 1]
    BY DEF Shorter
  <1>2. /\ \A j \in 1..n : c[j] \in live
        /\ \A j, m \in 1..n : c[j] = c[m] => j = m
    BY DEF ListOf, Linked
  <1> HIDE DEF d
  <1>3. \A j, m \in 1..(n - 1) : d[j] = d[m] => j = m
    <2> SUFFICES ASSUME NEW j \in 1..(n - 1), NEW m \in 1..(n - 1), d[j] = d[m] PROVE j = m
      OBVIOUS
    <2> QED
      BY <1>1, <1>2
  <1>4. {d[j] : j \in 1..(n - 1)} = live \ {c[i]}
    <2>1. ASSUME NEW j \in 1..(n - 1) PROVE d[j] \in live \ {c[i]}
      BY <1>1, <1>2
    <2>2. ASSUME NEW x \in live, x # c[i] PROVE \E j \in 1..(n - 1) : x = d[j]
      <3>1. PICK j \in 1..n : x = c[j]
        BY DEF ListOf, Linked
      <3>2. CASE j < i
        BY <1>1, <3>1, <3>2
      <3>3. CASE j > i
        <4>1. j - 1 \in 1..(n - 1) /\ d[j - 1] = c[j]
          BY <1>1, <3>3
        <4> QED
          BY <3>1, <4>1
      <3> QED
        BY <2>2, <3>1, <3>2, <3>3
    <2> QED
      BY <2>1, <2>2
  <1>5. ListType'
    <2>1. list' = list /\ live' = live \ {c[i]} /\ key' = [key EXCEPT ![c[i]] = 0]
      BY DEF Leaves
    <2>2. /\ next' \in [Element -> Element \cup {NULL}]
          /\ prev' \in [Element -> Element \cup {NULL}]
      BY DEF Leaves
    <2>3. list \in {"List", "DLList"} /\ key \in [Element -> Int] /\ live \subseteq Element
      BY DEF ListOf, ListType
    <2>4. key' \in [Element -> Int]
      BY <2>1, <2>3
    <2> QED
      BY <2>1, <2>2, <2>3, <2>4 DEF ListType
  <1>6. Linked(d, n - 1)'
    <2>1. live' = {d[j] : j \in 1..(n - 1)}
      BY <1>4 DEF Leaves
    <2>2. first' = IF n - 1 = 0 THEN NULL ELSE d[1]
      <3>1. first' = IF i # 1 THEN first ELSE IF n = 1 THEN NULL ELSE c[2]
        BY DEF Leaves
      <3>2. i # 1 => n # 1 /\ first = c[1] /\ d[1] = c[1]
        BY <1>1 DEF ListOf, Linked
      <3>3. i = 1 /\ n # 1 => d[1] = c[2]
        BY <1>1
      <3> QED
        BY <3>1, <3>2, <3>3
    <2>3. last' = IF n - 1 = 0 THEN NULL ELSE d[n - 1]
      <3>1. last' = IF i # n THEN last ELSE IF n = 1 THEN NULL ELSE c[n - 1]
        BY DEF Leaves
      <3>2. i # n => n # 1 /\ last = c[n] /\ d[n - 1] = c[n]
        BY <1>1 DEF ListOf, Linked
      <3>3. i = n /\ n # 1 => d[n - 1] = c[n - 1]
        BY <1>1
      <3> QED
        BY <3>1, <3>2, <3>3
    <2>4. ASSUME NEW j \in 1..(n - 1)
          PROVE  next'[d[j]] = IF j = n - 1 THEN NULL ELSE d[j + 1]
      <3>1. next'[d[j]] = IF d[j] = c[i] THEN NULL
                          ELSE IF i > 1 /\ d[j] = c[i - 1] THEN IF i = n THEN NULL ELSE c[i + 1]
                          ELSE next[d[j]]
        BY <1>1 DEF Leaves
      <3>2. \A m \in 1..n : next[c[m]] = IF m = n THEN NULL ELSE c[m + 1]
        BY DEF ListOf, Linked
      <3>3. CASE j = i - 1
        <4>1. d[j] = c[i - 1] /\ d[j] # c[i] /\ i > 1
          BY <1>1, <1>2, <3>3
        <4>2. j # n - 1 => d[j + 1] = c[i + 1]
          BY <1>1, <3>3
        <4> QED
          BY <3>1, <3>3, <4>1, <4>2
      <3>4. CASE j < i - 1
        <4>1. d[j] = c[j] /\ d[j] # c[i] /\ d[j] # c[i - 1] /\ d[j + 1] = c[j + 1] /\ j # n - 1 /\ j \in 1..n /\ j # n
          BY <1>1, <1>2, <3>4
        <4> QED
          BY <3>1, <3>2, <4>1
      <3>5. CASE j >= i
        <4>1. d[j] = c[j + 1] /\ d[j] # c[i] /\ (i > 1 => d[j] # c[i - 1])
              /\ (j # n - 1 => d[j + 1] = c[(j + 1) + 1])
          BY <1>1, <1>2, <3>5
        <4>2. next'[d[j]] = next[c[j + 1]]
          BY <3>1, <4>1
        <4>3. next[c[j + 1]] = IF j + 1 = n THEN NULL ELSE c[(j + 1) + 1]
          <5>1. j + 1 \in 1..n
            OBVIOUS
          <5> QED
            BY <3>2, <5>1
        <4> QED
          BY <4>1, <4>2, <4>3
      <3> QED
        BY <3>3, <3>4, <3>5
    <2>5. ASSUME NEW x \in Element \ live' PROVE next'[x] = NULL
      <3>1. x = c[i] \/ x \notin live
        BY DEF Leaves
      <3>2. next'[x] = IF x = c[i] THEN NULL
                       ELSE IF i > 1 /\ x = c[i - 1] THEN IF i = n THEN NULL ELSE c[i + 1] ELSE next[x]
        BY DEF Leaves
      <3>3. x \notin live => next[x] = NULL
        BY DEF ListOf, Linked
      <3> QED
        BY <1>2, <3>1, <3>2, <3>3
    <2> QED
      BY <1>3, <2>1, <2>2, <2>3, <2>4, <2>5 DEF Linked
  <1>7. ASSUME list' = "DLList" PROVE Backwards(d, n - 1)'
    <2>0. list = "DLList" /\ live' = live \ {c[i]}
      BY <1>7 DEF Leaves
    <2>1. /\ \A m \in 1..n : prev[c[m]] = IF m = 1 THEN NULL ELSE c[m - 1]
          /\ \A m \in 1..n : m > 1 => key[c[m - 1]] <= key[c[m]]
          /\ \A x \in Element \ live : prev[x] = NULL
      BY <2>0 DEF ListOf, Backwards
    <2>2. \A x \in Element :
            prev'[x] = IF x = c[i] THEN NULL
                       ELSE IF i < n /\ x = c[i + 1] THEN IF i = 1 THEN NULL ELSE c[i - 1] ELSE prev[x]
      BY <2>0 DEF Leaves
    <2>3. \A m \in 1..n : c[m] # c[i] => key'[c[m]] = key[c[m]]
      <3>1. key' = [key EXCEPT ![c[i]] = 0] /\ DOMAIN key = Element
        BY DEF Leaves, ListOf, ListType
      <3> QED
        BY <1>2, <3>1
    <2>k. \A m \in 1..n : key[c[m]] \in Int
      BY DEF ListOf, ListType
    <2>4. ASSUME NEW j \in 1..(n - 1) PROVE prev'[d[j]] = IF j = 1 THEN NULL ELSE d[j - 1]
      <3>1. prev'[d[j]] = IF d[j] = c[i] THEN NULL
                          ELSE IF i < n /\ d[j] = c[i + 1] THEN IF i = 1 THEN NULL ELSE c[i - 1]
                          ELSE prev[d[j]]
        BY <1>1, <2>2
      <3>2. CASE j = i
        <4>1. d[j] = c[i + 1] /\ d[j] # c[i] /\ i < n /\ (j # 1 => d[j - 1] = c[i - 1])
          BY <1>1, <1>2, <3>2
        <4> QED
          BY <3>1, <3>2, <4>1
      <3>3. CASE j < i
        <4>1. d[j] = c[j] /\ d[j] # c[i] /\ (i < n => d[j] # c[i + 1]) /\ (j # 1 => d[j - 1] = c[j - 1])
          BY <1>1, <1>2, <3>3
        <4>2. prev'[d[j]] = prev[c[j]]
          BY <3>1, <4>1
        <4>3. prev[c[j]] = IF j = 1 THEN NULL ELSE c[j - 1]
          BY <2>1, <3>3
        <4> QED
          BY <4>1, <4>2, <4>3
      <3>4. CASE j > i
        <4>1. d[j] = c[j + 1] /\ d[j] # c[i] /\ d[j] # c[i + 1] /\ d[j - 1] = c[j] /\ j # 1
          BY <1>1, <1>2, <3>4
        <4>2. prev'[d[j]] = prev[c[j + 1]]
          BY <3>1, <4>1
        <4>3. prev[c[j + 1]] = c[j]
          BY <2>1, <3>4
        <4> QED
          BY <4>1, <4>2, <4>3
      <3> QED
        BY <3>2, <3>3, <3>4
    <2>5. ASSUME NEW j \in 1..(n - 1), j > 1 PROVE key'[d[j - 1]] <= key'[d[j]]
      <3>1. CASE j = i
        <4>1. d[j] = c[i + 1] /\ d[j - 1] = c[i - 1] /\ c[i + 1] # c[i] /\ c[i - 1] # c[i]
              /\ i - 1 \in 1..n /\ i + 1 \in 1..n /\ i > 1
          BY <1>1, <1>2, <2>5, <3>1
        <4>2. key[c[i - 1]] <= key[c[i]]
          BY <2>1, <4>1
        <4>3. key[c[i]] <= key[c[i + 1]]
          BY <2>1, <4>1
        <4>4. key[c[i - 1]] <= key[c[i + 1]]
          BY <2>k, <4>1, <4>2, <4>3
        <4> QED
          BY <2>3, <4>1, <4>4
      <3>2. CASE j < i
        <4>1. d[j] = c[j] /\ d[j - 1] = c[j - 1] /\ j \in 1..n /\ j - 1 \in 1..n /\ c[j] # c[i] /\ c[j - 1] # c[i]
          BY <1>1, <1>2, <2>5, <3>2
        <4> QED
          BY <2>1, <2>3, <2>5, <4>1
      <3>3. CASE j > i
        <4>1. d[j] = c[j + 1] /\ d[j - 1] = c[j] /\ j + 1 \in 1..n /\ j \in 1..n /\ c[j] # c[i] /\ c[j + 1] # c[i]
          BY <1>1, <1>2, <3>3
        <4>2. key[c[j]] <= key[c[j + 1]]
          <5>1. j + 1 > 1 /\ (j + 1) - 1 = j
            OBVIOUS
          <5> QED
            BY <2>1, <4>1, <5>1
        <4> QED
          BY <2>3, <4>1, <4>2
      <3> QED
        BY <3>1, <3>2, <3>3
    <2>6. ASSUME NEW x \in Element \ live' PROVE prev'[x] = NULL
      <3>1. x = c[i] \/ x \notin live
        BY <2>0
      <3> QED
        BY <1>2, <2>1, <2>2, <3>1
    <2> QED
      BY <2>4, <2>5, <2>6 DEF Backwards
  <1> QED
    BY <1>1, <1>5, <1>6, <1>7 DEF ListOf, d

\* Every way to link an element into the chain.
LEMMA LinksJoin ==
    ASSUME NEW n \in Nat, NEW c \in [1..n -> Element], ListOf(c, n),
           NEW e \in Element, NEW k \in Int, New(e, k)
    PROVE  /\ LinkOnly(e) => n = 0 /\ Joins(c, n, 1, e, k)
           /\ n # 0 /\ list = "List" =>
                /\ LinkFirst(e) => Joins(c, n, 1, e, k)
                /\ LinkLast(e) => Joins(c, n, n + 1, e, k)
                /\ \A j \in 1..(n - 1) :
                      /\ next' = [next EXCEPT ![e] = next[c[j]], ![c[j]] = e]
                      /\ UNCHANGED <<first, last, prev>>
                      => Joins(c, n, j + 1, e, k)
           /\ n # 0 /\ list = "DLList" =>
                /\ LinkFront(e) /\ k <= key[c[1]] => Joins(c, n, 1, e, k)
                /\ LinkEnd(e) /\ key[c[n]] <= k => Joins(c, n, n + 1, e, k)
                /\ \A j \in 1..(n - 1) :
                      LinkBehind(e, c[j]) /\ key[c[j]] <= k /\ k <= key[c[j + 1]]
                      => Joins(c, n, j + 1, e, k)
  <1>1. /\ live' = live \cup {e} /\ list' = list /\ key' = [key EXCEPT ![e] = k]
        /\ e \notin live
    BY DEF New
  <1>2. /\ next \in [Element -> Element \cup {NULL}] /\ prev \in [Element -> Element \cup {NULL}]
        /\ \A i \in 1..n : c[i] \in Element /\ c[i] # e /\ c[i] # NULL
        /\ \A i, j \in 1..n : c[i] = c[j] => i = j
        /\ next[e] = NULL
        /\ list = "DLList" => prev[e] = NULL
        /\ first = IF n = 0 THEN NULL ELSE c[1]
        /\ last = IF n = 0 THEN NULL ELSE c[n]
        /\ \A i \in 1..n : next[c[i]] = IF i = n THEN NULL ELSE c[i + 1]
    BY <1>1, ListsAssumption DEF ListOf, ListType, Linked, Backwards
  <1>3. ASSUME LinkOnly(e) PROVE n = 0 /\ Joins(c, n, 1, e, k)
    <2>1. n = 0
      BY <1>2, <1>3 DEF LinkOnly, IsEmpty
    <2>2. first' = e /\ last' = e /\ next' = next /\ prev' = prev
      BY <1>3 DEF LinkOnly
    <2>3. \A x \in Element : next'[x] = IF x = e THEN NULL ELSE next[x]
      BY <1>2, <2>2
    <2>4. list = "DLList" => \A x \in Element : prev'[x] = IF x = e THEN NULL ELSE prev[x]
      BY <1>2, <2>2
    <2> QED
      BY <1>1, <1>2, <2>1, <2>2, <2>3, <2>4 DEF Joins
  <1>4. ASSUME n # 0, list = "List", LinkFirst(e) PROVE Joins(c, n, 1, e, k)
    <2>1. first' = e /\ last' = last /\ prev' = prev /\ next' = [next EXCEPT ![e] = c[1]]
      BY <1>2, <1>4 DEF LinkFirst
    <2>2. /\ next' \in [Element -> Element \cup {NULL}]
          /\ \A x \in Element : next'[x] = IF x = e THEN c[1] ELSE next[x]
      BY <1>2, <1>4, <2>1
    <2> QED
      BY <1>1, <1>2, <1>4, <2>1, <2>2 DEF Joins
  <1>5. ASSUME n # 0, list = "List", LinkLast(e) PROVE Joins(c, n, n + 1, e, k)
    <2>1. first' = first /\ last' = e /\ prev' = prev /\ next' = [next EXCEPT ![c[n]] = e]
      BY <1>2, <1>5 DEF LinkLast
    <2>2. /\ next' \in [Element -> Element \cup {NULL}]
          /\ \A x \in Element : next'[x] = IF x = e THEN NULL ELSE IF x = c[n] THEN e ELSE next[x]
      BY <1>2, <1>5, <2>1
    <2> QED
      BY <1>1, <1>2, <1>5, <2>1, <2>2 DEF Joins
  <1>6. ASSUME n # 0, list = "List", NEW j \in 1..(n - 1),
               next' = [next EXCEPT ![e] = next[c[j]], ![c[j]] = e], UNCHANGED <<first, last, prev>>
        PROVE  Joins(c, n, j + 1, e, k)
    <2>1. next[c[j]] = c[j + 1] /\ c[j + 1] \in Element /\ c[j] \in Element /\ c[j] # e /\ j + 1 # 1 /\ j + 1 # n + 1
      BY <1>2
    <2>2. /\ next' \in [Element -> Element \cup {NULL}]
          /\ \A x \in Element : next'[x] = IF x = e THEN c[j + 1] ELSE IF x = c[j] THEN e ELSE next[x]
      BY <1>2, <1>6, <2>1
    <2> QED
      BY <1>1, <1>2, <1>6, <2>1, <2>2 DEF Joins
  <1>7. ASSUME n # 0, list = "DLList", LinkFront(e), k <= key[c[1]] PROVE Joins(c, n, 1, e, k)
    <2>1. /\ first' = e /\ last' = last /\ prev' = [prev EXCEPT ![c[1]] = e]
          /\ next' = [next EXCEPT ![e] = c[1]]
      BY <1>2, <1>7 DEF LinkFront
    <2>2. /\ next' \in [Element -> Element \cup {NULL}]
          /\ \A x \in Element : next'[x] = IF x = e THEN c[1] ELSE next[x]
      BY <1>2, <1>7, <2>1
    <2>3. /\ prev' \in [Element -> Element \cup {NULL}]
          /\ \A x \in Element : prev'[x] = IF x = e THEN NULL ELSE IF x = c[1] THEN e ELSE prev[x]
      BY <1>2, <1>7, <2>1
    <2> QED
      BY <1>1, <1>2, <1>7, <2>1, <2>2, <2>3 DEF Joins
  <1>8. ASSUME n # 0, list = "DLList", LinkEnd(e), key[c[n]] <= k PROVE Joins(c, n, n + 1, e, k)
    <2>1. /\ first' = first /\ last' = e /\ prev' = [prev EXCEPT ![e] = c[n]]
          /\ next' = [next EXCEPT ![c[n]] = e]
      BY <1>2, <1>8 DEF LinkEnd
    <2>2. /\ next' \in [Element -> Element \cup {NULL}]
          /\ \A x \in Element : next'[x] = IF x = e THEN NULL ELSE IF x = c[n] THEN e ELSE next[x]
      BY <1>2, <1>8, <2>1
    <2>3. /\ prev' \in [Element -> Element \cup {NULL}]
          /\ \A x \in Element : prev'[x] = IF x = e THEN c[n] ELSE prev[x]
      BY <1>2, <1>8, <2>1
    <2> QED
      BY <1>1, <1>2, <1>8, <2>1, <2>2, <2>3 DEF Joins
  <1>9. ASSUME n # 0, list = "DLList", NEW j \in 1..(n - 1), LinkBehind(e, c[j]),
               key[c[j]] <= k, k <= key[c[j + 1]]
        PROVE  Joins(c, n, j + 1, e, k)
    <2>1. next[c[j]] = c[j + 1] /\ c[j + 1] \in Element /\ c[j] \in Element /\ c[j] # e /\ c[j + 1] # e /\ j + 1 # 1 /\ j + 1 # n + 1
      BY <1>2
    <2>2. /\ first' = first /\ last' = last /\ prev' = [prev EXCEPT ![e] = c[j], ![c[j + 1]] = e]
          /\ next' = [next EXCEPT ![e] = c[j + 1], ![c[j]] = e]
      BY <2>1, <1>9 DEF LinkBehind
    <2>3. /\ next' \in [Element -> Element \cup {NULL}]
          /\ \A x \in Element : next'[x] = IF x = e THEN c[j + 1] ELSE IF x = c[j] THEN e ELSE next[x]
      BY <1>2, <2>1, <2>2
    <2>4. /\ prev' \in [Element -> Element \cup {NULL}]
          /\ \A x \in Element : prev'[x] = IF x = e THEN c[j] ELSE IF x = c[j + 1] THEN e ELSE prev[x]
      BY <1>2, <2>1, <2>2
    <2> QED
      BY <1>1, <1>2, <1>9, <2>1, <2>2, <2>3, <2>4 DEF Joins
  <1> QED
    BY <1>3, <1>4, <1>5, <1>6, <1>7, <1>8, <1>9

\* Every way to unlink one.
LEMMA UnlinksLeave ==
    ASSUME NEW n \in Nat, NEW c \in [1..n -> Element], ListOf(c, n)
    PROVE  /\ ListSortedRemove => n # 0 /\ Leaves(c, n, 1) /\ returned' = c[1]
           /\ \A i \in 1..n : list = "DLList" /\ Unlink(c[i]) /\ Delete(c[i]) => Leaves(c, n, i)
  <1>1. /\ next \in [Element -> Element \cup {NULL}] /\ prev \in [Element -> Element \cup {NULL}]
        /\ \A i \in 1..n : c[i] \in Element /\ c[i] # NULL
        /\ \A i, j \in 1..n : c[i] = c[j] => i = j
        /\ first = IF n = 0 THEN NULL ELSE c[1]
        /\ last = IF n = 0 THEN NULL ELSE c[n]
        /\ \A i \in 1..n : next[c[i]] = IF i = n THEN NULL ELSE c[i + 1]
    BY ListsAssumption DEF ListOf, ListType, Linked
  <1>2. ASSUME ListSortedRemove PROVE n # 0 /\ Leaves(c, n, 1) /\ returned' = c[1]
    <2>1. n # 0 /\ list = "List" /\ first = c[1] /\ last = c[n] /\ 1 \in 1..n /\ n \in 1..n
      BY <1>1, <1>2 DEF ListSortedRemove, IsEmpty
    <2>2. /\ live' = live \ {c[1]} /\ list' = list /\ key' = [key EXCEPT ![c[1]] = 0]
          /\ returned' = c[1]
          /\ next' = [next EXCEPT ![c[1]] = NULL] /\ prev' = prev
      BY <1>2, <2>1 DEF ListSortedRemove, Delete
    <2>3. /\ first' = IF n = 1 THEN NULL ELSE c[2]
          /\ last' = IF n = 1 THEN NULL ELSE last
      <3>1. first = last <=> n = 1
        BY <1>1, <2>1
      <3>2. n # 1 => next[first] = c[2]
        BY <1>1, <2>1
      <3> QED
        BY <1>2, <3>1, <3>2 DEF ListSortedRemove
    <2>4. /\ next' \in [Element -> Element \cup {NULL}]
          /\ \A x \in Element : next'[x] = IF x = c[1] THEN NULL ELSE next[x]
      BY <1>1, <2>1, <2>2
    <2> QED
      BY <1>1, <2>1, <2>2, <2>3, <2>4 DEF Leaves
  <1>3. ASSUME NEW i \in 1..n, list = "DLList", Unlink(c[i]), Delete(c[i]) PROVE Leaves(c, n, i)
    <2>1. /\ first = c[1] /\ last = c[n] /\ 1 \in 1..n /\ n \in 1..n
          /\ \A m \in 1..n : prev[c[m]] = IF m = 1 THEN NULL ELSE c[m - 1]
      BY <1>1, <1>3 DEF ListOf, Backwards
    <2>2. /\ live' = live \ {c[i]} /\ list' = list /\ key' = [key EXCEPT ![c[i]] = 0]
      BY <1>3 DEF Delete
    <2>3. \A m \in 1..n : /\ c[i] = c[m] => i = m
                          /\ first = last => n = 1
      BY <1>1, <2>1
    <2>4. CASE first = last
      <3>1. n = 1 /\ i = 1
        BY <2>1, <2>3, <2>4
      <3>2. first' = NULL /\ last' = NULL /\ next' = next /\ prev' = prev
        BY <1>3, <2>1, <2>4, <3>1 DEF Unlink
      <3>3. next[c[1]] = NULL /\ prev[c[1]] = NULL
        BY <1>1, <2>1, <3>1
      <3> QED
        BY <1>1, <2>2, <3>1, <3>2, <3>3 DEF Leaves
    <2>5. CASE first # last /\ i = 1
      <3>0. n > 1 /\ 2 \in 1..n /\ c[1] # c[n] /\ c[2] # c[1]
        BY <1>1, <2>1, <2>5
      <3>1. /\ first' = c[2] /\ last' = last /\ prev' = [prev EXCEPT ![c[2]] = NULL]
            /\ next' = [next EXCEPT ![c[1]] = NULL]
        <4>1. next[c[1]] = c[2]
          BY <1>1, <2>1, <3>0
        <4> QED
          BY <1>3, <2>1, <2>5, <3>0, <4>1 DEF Unlink
      <3>2. /\ next' \in [Element -> Element \cup {NULL}]
            /\ \A x \in Element : next'[x] = IF x = c[1] THEN NULL ELSE next[x]
        BY <1>1, <2>1, <3>1
      <3>3. /\ prev' \in [Element -> Element \cup {NULL}]
            /\ \A x \in Element : prev'[x] = IF x = c[1] THEN NULL ELSE IF x = c[2] THEN NULL ELSE prev[x]
        BY <1>1, <2>1, <3>0, <3>1
      <3> QED
        BY <1>1, <2>1, <2>2, <2>5, <3>0, <3>1, <3>2, <3>3 DEF Leaves
    <2>6. CASE first # last /\ i # 1 /\ i = n
      <3>0. n > 1 /\ n - 1 \in 1..n /\ c[1] # c[n] /\ c[n - 1] # c[n]
        BY <1>1, <2>1, <2>6
      <3>1. /\ last' = c[n - 1] /\ first' = first /\ prev' = [prev EXCEPT ![c[n]] = NULL]
            /\ next' = [next EXCEPT ![c[n - 1]] = NULL]
        <4>1. prev[c[n]] = c[n - 1]
          BY <2>1, <3>0
        <4> QED
          BY <1>3, <2>1, <2>6, <3>0, <4>1 DEF Unlink
      <3>2. /\ next' \in [Element -> Element \cup {NULL}]
            /\ \A x \in Element : next'[x] = IF x = c[n] THEN NULL ELSE IF x = c[n - 1] THEN NULL ELSE next[x]
        BY <1>1, <2>1, <3>0, <3>1
      <3>3. /\ prev' \in [Element -> Element \cup {NULL}]
            /\ \A x \in Element : prev'[x] = IF x = c[n] THEN NULL ELSE prev[x]
        BY <1>1, <2>1, <3>1
      <3> QED
        BY <1>1, <2>1, <2>2, <2>6, <3>0, <3>1, <3>2, <3>3 DEF Leaves
    <2>7. CASE first # last /\ i # 1 /\ i # n
      <3>0. i > 1 /\ i < n /\ i - 1 \in 1..n /\ i + 1 \in 1..n /\ c[i] # c[1] /\ c[i] # c[n]
            /\ c[i - 1] # c[i] /\ c[i + 1] # c[i]
        BY <1>1, <2>1, <2>7
      <3>1. prev[c[i]] = c[i - 1] /\ next[c[i]] = c[i + 1]
        BY <1>1, <2>1, <3>0
      <3>2. /\ first' = first /\ last' = last
            /\ next' = [next EXCEPT ![c[i - 1]] = c[i + 1], ![c[i]] = NULL]
            /\ prev' = [prev EXCEPT ![c[i + 1]] = c[i - 1], ![c[i]] = NULL]
        BY <1>3, <2>1, <2>7, <3>0, <3>1 DEF Unlink
      <3>3. /\ next' \in [Element -> Element \cup {NULL}]
            /\ \A x \in Element : next'[x] = IF x = c[i] THEN NULL ELSE IF x = c[i - 1] THEN c[i + 1] ELSE next[x]
        BY <1>1, <3>0, <3>2
      <3>4. /\ prev' \in [Element -> Element \cup {NULL}]
            /\ \A x \in Element : prev'[x] = IF x = c[i] THEN NULL ELSE IF x = c[i + 1] THEN c[i - 1] ELSE prev[x]
        BY <1>1, <3>0, <3>2
      <3> QED
        BY <1>1, <2>1, <2>2, <2>7, <3>0, <3>2, <3>3, <3>4 DEF Leaves
    <2> QED
      BY <2>4, <2>5, <2>6, <2>7
  <1> QED
    BY <1>2, <1>3

\* Where SortedInsert's loop stops.
LEMMA StopsThere ==
    ASSUME NEW n \in Nat, n # 0, NEW c, Len(c) = n, DOMAIN c = 1..n, Chain = c,
           NEW T \in SUBSET (1..n)
    PROVE  /\ Min(T \cup {n}) \in T \cup {n}
           /\ \A j \in T \cup {n} : Min(T \cup {n}) <= j
  <1> DEFINE U == T \cup {n}
  <1>1. U \in SUBSET Nat /\ U # {}
    OBVIOUS
  <1> HIDE DEF U
  <1>2. \E x \in U : \A y \in U : x <= y
    BY <1>1, LeastOf
  <1>3. Min(U) \in U /\ \A y \in U : Min(U) <= y
    BY <1>2 DEF Min
  <1> QED
    BY <1>3 DEF U

\* A sorted insertion puts the element where its key belongs.
LEMMA SortedJoins ==
    ASSUME NEW n \in Nat, NEW c \in [1..n -> Element], ListOf(c, n),
           NEW e \in Element, NEW k \in Keys, ListSortedInsert(e, k) \/ DLSortedInsert(e, k)
    PROVE  \E i \in 1..(n + 1) : Joins(c, n, i, e, k) /\ Belongs(c, n, i, k)
  <1>1. k \in Int /\ New(e, k)
    <2>1. k \in Int
      BY ListsAssumption DEF Keys
    <2>2. New(e, k)
      BY Zenon DEF ListSortedInsert, DLSortedInsert
    <2> QED
      BY <2>1, <2>2
  <1>2. /\ \A i \in 1..n : c[i] \in Element /\ c[i] # NULL
        /\ first = IF n = 0 THEN NULL ELSE c[1]
        /\ last = IF n = 0 THEN NULL ELSE c[n]
        /\ \A i \in 1..n : next[c[i]] = IF i = n THEN NULL ELSE c[i + 1]
        /\ \A i \in 1..n : key[c[i]] \in Int
        /\ DOMAIN c = 1..n
    BY ListsAssumption DEF ListOf, ListType, Linked
  <1>3. Chain = c /\ Len(c) = n
    BY ChainIs
  <1>4. CASE n = 0
    <2>1. LinkOnly(e)
      BY <1>2, <1>4 DEF IsEmpty, ListSortedInsert, DLSortedInsert
    <2>2. Joins(c, n, 1, e, k)
      BY <1>1, <2>1, LinksJoin
    <2>3. Belongs(c, n, 1, k)
      BY <1>4 DEF Belongs
    <2> QED
      BY <1>4, <2>2, <2>3
  <1>5. CASE n # 0
    <2>0. ~IsEmpty /\ first = c[1] /\ 1 \in 1..n /\ n \in 1..n /\ ~LinkOnly(e)
      BY <1>2, <1>5 DEF IsEmpty, LinkOnly
    <2>1. ASSUME ListSortedInsert(e, k) PROVE \E i \in 1..(n + 1) : Joins(c, n, i, e, k) /\ Belongs(c, n, i, k)
      <3> DEFINE T == {j \in 1..(n - 1) : k < key[c[j + 1]]}
                 U == {j \in DOMAIN c : j = Len(c) \/ k < key[c[j + 1]]}
                 q == Min(T \cup {n})
      <3>1. U = T \cup {n}
        BY <1>2, <1>3, <1>5
      <3>2. q \in T \cup {n} /\ \A j \in T \cup {n} : q <= j
        <4>1. T \in SUBSET (1..n)
          OBVIOUS
        <4> HIDE DEF T
        <4> QED
          BY <1>2, <1>3, <1>5, <4>1, StopsThere
      <3>3. /\ list = "List"
            /\ \/ k < key[first] /\ LinkFirst(e)
               \/ k >= key[first] /\ next[c[Min(U)]] = NULL /\ LinkLast(e)
               \/ /\ k >= key[first] /\ next[c[Min(U)]] # NULL
                  /\ next' = [next EXCEPT ![e] = next[c[Min(U)]], ![c[Min(U)]] = e]
                  /\ UNCHANGED <<first, last, prev>>
        BY <1>3, <2>0, <2>1 DEF ListSortedInsert, StopsBefore
      <3>4. c[Min(U)] = c[q] /\ q \in 1..n
        BY <3>1, <3>2, <1>5
      <3>5. CASE k < key[first]
        <4>1. Joins(c, n, 1, e, k)
          BY <1>1, <1>2, <1>5, <2>0, <3>3, <3>5, LinksJoin
        <4>2. Belongs(c, n, 1, k)
          BY <2>0, <3>3, <3>5 DEF Belongs, Later
        <4> QED
          BY <4>1, <4>2
      <3>6. CASE ~(k < key[first])
        <4>1. k >= key[c[1]]
          BY <1>1, <1>2, <2>0, <3>6
        <4>2. \A j \in 1..(q - 1) : ~(k < key[c[j + 1]])
          BY <3>2, <3>4
        <4>3. \A j \in 1..q : ~(k < key[c[j]])
          <5> SUFFICES ASSUME NEW j \in 1..q PROVE ~(k < key[c[j]])
            OBVIOUS
          <5> HIDE DEF q
          <5>1. CASE j = 1
            BY <2>0, <3>6, <5>1
          <5>2. CASE j # 1
            <6>1. j - 1 \in 1..(q - 1) /\ (j - 1) + 1 = j
              BY <3>4, <5>2
            <6> QED
              BY <4>2, <6>1
          <5> QED
            BY <5>1, <5>2
        <4>4. CASE q = n
          <5>1. LinkLast(e)
            BY <1>2, <2>0, <3>3, <3>4, <3>6, <4>4
          <5>2. Joins(c, n, n + 1, e, k)
            BY <1>1, <1>5, <3>3, <5>1, LinksJoin
          <5>3. Belongs(c, n, n + 1, k)
            BY <3>3, <4>3, <4>4 DEF Belongs, Later
          <5> QED
            BY <5>2, <5>3
        <4>5. CASE q # n
          <5>1. q \in 1..(n - 1) /\ k < key[c[q + 1]]
            BY <3>2, <4>5
          <5>2. next[c[q]] # NULL
            BY <1>2, <5>1
          <5>3. next' = [next EXCEPT ![e] = next[c[q]], ![c[q]] = e] /\ UNCHANGED <<first, last, prev>>
            BY <3>3, <3>4, <3>6, <5>2
          <5> HIDE DEF q
          <5>4. Joins(c, n, q + 1, e, k)
            BY <1>1, <1>5, <3>3, <5>1, <5>3, LinksJoin
          <5>5. Belongs(c, n, q + 1, k)
            BY <3>3, <4>3, <5>1 DEF Belongs, Later
          <5>6. q + 1 \in 1..(n + 1)
            BY <5>1
          <5> QED
            BY <5>4, <5>5, <5>6
        <4> QED
          BY <4>4, <4>5
      <3> QED
        BY <3>5, <3>6
    <2>2. ASSUME DLSortedInsert(e, k) PROVE \E i \in 1..(n + 1) : Joins(c, n, i, e, k) /\ Belongs(c, n, i, k)
      <3> DEFINE T == {j \in 1..(n - 1) : key[c[j + 1]] >= k}
                 U == {j \in DOMAIN c : j = Len(c) \/ key[c[j + 1]] >= k}
                 q == Min(T \cup {n})
      <3>1. U = T \cup {n}
        BY <1>2, <1>3, <1>5
      <3>2. q \in T \cup {n} /\ \A j \in T \cup {n} : q <= j
        <4>1. T \in SUBSET (1..n)
          OBVIOUS
        <4> HIDE DEF T
        <4> QED
          BY <1>2, <1>3, <1>5, <4>1, StopsThere
      <3>3. /\ list = "DLList"
            /\ \/ k <= key[first] /\ LinkFront(e)
               \/ k > key[first] /\ next[c[Min(U)]] # NULL /\ LinkBehind(e, c[Min(U)])
               \/ k > key[first] /\ next[c[Min(U)]] = NULL /\ LinkEnd(e)
        BY <1>3, <2>0, <2>2 DEF DLSortedInsert, StopsBefore
      <3>4. c[Min(U)] = c[q] /\ q \in 1..n
        BY <3>1, <3>2, <1>5
      <3>5. CASE k <= key[first]
        <4>1. Joins(c, n, 1, e, k)
          BY <1>1, <1>2, <1>5, <2>0, <3>3, <3>5, LinksJoin
        <4>2. Belongs(c, n, 1, k)
          BY <2>0, <3>3, <3>5 DEF Belongs, Later
        <4> QED
          BY <4>1, <4>2
      <3>6. CASE ~(k <= key[first])
        <4>1. k > key[c[1]]
          BY <1>1, <1>2, <2>0, <3>6
        <4>2. \A j \in 1..(q - 1) : ~(key[c[j + 1]] >= k)
          BY <3>2, <3>4
        <4>3. \A j \in 1..q : key[c[j]] < k
          <5> SUFFICES ASSUME NEW j \in 1..q PROVE key[c[j]] < k
            OBVIOUS
          <5> HIDE DEF q
          <5>1. CASE j = 1
            BY <4>1, <5>1
          <5>2. CASE j # 1
            <6>1. j - 1 \in 1..(q - 1) /\ (j - 1) + 1 = j /\ j \in 1..n
              BY <3>4, <5>2
            <6> QED
              BY <1>1, <1>2, <4>2, <6>1
          <5> QED
            BY <5>1, <5>2
        <4>6. \A j \in 1..q : ~(k <= key[c[j]])
          <5> HIDE DEF q
          <5>1. \A j \in 1..q : j \in 1..n
            BY <3>4
          <5> QED
            BY <1>1, <1>2, <4>3, <5>1
        <4>4. CASE q = n
          <5>1. LinkEnd(e)
            BY <1>2, <2>0, <3>3, <3>4, <3>6, <4>4
          <5>2. Joins(c, n, n + 1, e, k)
            <6>1. key[c[n]] <= k
              BY <1>1, <1>2, <2>0, <4>3, <4>4
            <6> QED
              BY <1>1, <1>5, <3>3, <5>1, <6>1, LinksJoin
          <5>3. Belongs(c, n, n + 1, k)
            BY <3>3, <4>6, <4>4 DEF Belongs, Later
          <5> QED
            BY <5>2, <5>3
        <4>5. CASE q # n
          <5>1. q \in 1..(n - 1) /\ q + 1 \in 1..n /\ k <= key[c[q + 1]]
            <6>1. q \in 1..(n - 1) /\ key[c[q + 1]] >= k
              BY <3>2, <4>5
            <6> HIDE DEF q
            <6> QED
              BY <1>1, <1>2, <6>1
          <5>2. next[c[q]] # NULL
            BY <1>2, <5>1
          <5>3. LinkBehind(e, c[q])
            BY <3>3, <3>4, <3>6, <5>2
          <5> HIDE DEF q
          <5>4. Joins(c, n, q + 1, e, k)
            <6>1. key[c[q]] <= k
              BY <1>1, <1>2, <4>3, <5>1
            <6> QED
              BY <1>1, <1>5, <3>3, <5>1, <5>3, <6>1, LinksJoin
          <5>5. Belongs(c, n, q + 1, k)
            BY <3>3, <4>6, <5>1 DEF Belongs, Later
          <5>6. q + 1 \in 1..(n + 1)
            BY <5>1
          <5> QED
            BY <5>4, <5>5, <5>6
        <4> QED
          BY <4>4, <4>5
      <3> QED
        BY <3>5, <3>6
    <2> QED
      BY <2>1, <2>2
  <1> QED
    BY <1>4, <1>5

\* Prepend and Append, with the key they give.
LEMMA EndsJoin ==
    ASSUME NEW n \in Nat, NEW c \in [1..n -> Element], ListOf(c, n), NEW e \in Element,
           ListAppend(e) \/ ListPrepend(e) \/ DLPrepend(e) \/ DLAppend(e)
    PROVE  \E k \in Keys : New(e, k) /\ (Joins(c, n, 1, e, k) \/ Joins(c, n, n + 1, e, k))
  <1>2. /\ \A i \in 1..n : c[i] \in Element /\ c[i] # NULL /\ key[c[i]] \in Int
        /\ key \in [Element -> Int]
        /\ first = IF n = 0 THEN NULL ELSE c[1]
        /\ last = IF n = 0 THEN NULL ELSE c[n]
        /\ 0 \in Keys
        /\ \A k \in Keys : k \in Int
    BY ListsAssumption DEF ListOf, ListType, Linked, Keys
  <1>3. n # 0 => ~IsEmpty /\ first = c[1] /\ last = c[n] /\ 1 \in 1..n /\ n \in 1..n
    BY <1>2 DEF IsEmpty
  <1>4. CASE ListAppend(e) \/ ListPrepend(e)
    <2>1. New(e, 0) /\ list = "List" /\ (LinkOnly(e) \/ (~IsEmpty /\ LinkLast(e)) \/ (~IsEmpty /\ LinkFirst(e)))
      BY <1>4 DEF ListAppend, ListPrepend
    <2>2. ~IsEmpty => n # 0
      BY <1>2 DEF IsEmpty
    <2>3. Joins(c, n, 1, e, 0) \/ Joins(c, n, n + 1, e, 0)
      BY <2>1, <2>2, LinksJoin
    <2> QED
      BY <1>2, <2>1, <2>3
  <1>5. CASE DLPrepend(e)
    <2> DEFINE k == IF IsEmpty THEN 0 ELSE key[first] - 1
    <2>1. New(e, k) /\ list = "DLList" /\ (LinkOnly(e) \/ (~IsEmpty /\ LinkFront(e))) /\ key'[e] \in Keys
      BY <1>5 DEF DLPrepend
    <2>2. ~IsEmpty => n # 0
      BY <1>2 DEF IsEmpty
    <2>3. k \in Int /\ (n # 0 => k <= key[c[1]])
      BY <1>2, <1>3, <2>2
    <2> HIDE DEF k
    <2>4. key' = [key EXCEPT ![e] = k]
      BY <2>1 DEF New
    <2>5. k \in Keys
      BY <1>2, <2>1, <2>4
    <2>6. Joins(c, n, 1, e, k)
      BY <2>1, <2>2, <2>3, LinksJoin
    <2> QED
      BY <2>1, <2>5, <2>6
  <1>6. CASE DLAppend(e)
    <2> DEFINE k == IF IsEmpty THEN 0 ELSE key[last] + 1
    <2>1. New(e, k) /\ list = "DLList" /\ (LinkOnly(e) \/ (~IsEmpty /\ LinkEnd(e))) /\ key'[e] \in Keys
      BY <1>6 DEF DLAppend
    <2>2. ~IsEmpty => n # 0
      BY <1>2 DEF IsEmpty
    <2>3. k \in Int /\ (n # 0 => key[c[n]] <= k)
      BY <1>2, <1>3, <2>2
    <2> HIDE DEF k
    <2>4. key' = [key EXCEPT ![e] = k]
      BY <2>1 DEF New
    <2>5. k \in Keys
      BY <1>2, <2>1, <2>4
    <2>6. Joins(c, n, 1, e, k) \/ Joins(c, n, n + 1, e, k)
      BY <2>1, <2>2, <2>3, LinksJoin
    <2> QED
      BY <2>1, <2>5, <2>6
  <1> QED
    BY <1>4, <1>5, <1>6

\* What a step does to the chain.
Added(c, n) ==
    \E i \in 1..(n + 1), e \in Element \ live, k \in Keys :
        /\ Joins(c, n, i, e, k) /\ returned' = NULL
        /\ i = 1 \/ i = n + 1 \/ Belongs(c, n, i, k)
Taken(c, n) ==
    \E i \in 1..n :
        /\ Leaves(c, n, i) /\ returned' = c[i]
        /\ i = 1 \/ \A j \in 1..(i - 1) : key[c[j]] # key[c[i]]
Emptied ==
    /\ list' = list /\ first' = NULL /\ last' = NULL /\ live' = {} /\ returned' = NULL
    /\ next' = [e \in Element |-> NULL] /\ prev' = next' /\ key' = [e \in Element |-> 0]
Untouched == UNCHANGED <<list, first, last, next, prev, key, live>> /\ returned' \in {returned, NULL}

\* Every call is one of these.
LEMMA StepShape ==
    ASSUME NEW n \in Nat, NEW c \in [1..n -> Element], ListOf(c, n), [ListsNext]_listsVars
    PROVE  Added(c, n) \/ Taken(c, n) \/ Emptied \/ Untouched
  <1>1. Chain = c /\ Len(c) = n /\ DOMAIN c = 1..n
    BY ChainIs
  <1>2. CASE \E e \in Element : ListAppend(e) \/ ListPrepend(e) \/ DLPrepend(e) \/ DLAppend(e)
    <2>1. PICK e \in Element : ListAppend(e) \/ ListPrepend(e) \/ DLPrepend(e) \/ DLAppend(e)
      BY <1>2
    <2>2. PICK k \in Keys : New(e, k) /\ (Joins(c, n, 1, e, k) \/ Joins(c, n, n + 1, e, k))
      BY <2>1, EndsJoin
    <2>3. e \in Element \ live /\ returned' = NULL /\ 1 \in 1..(n + 1) /\ n + 1 \in 1..(n + 1)
      BY <2>2 DEF New
    <2> QED
      BY <2>2, <2>3 DEF Added
  <1>3. CASE \E e \in Element, k \in Keys : ListSortedInsert(e, k) \/ DLSortedInsert(e, k)
    <2>1. PICK e \in Element, k \in Keys : ListSortedInsert(e, k) \/ DLSortedInsert(e, k)
      BY <1>3
    <2>2. \E i \in 1..(n + 1) : Joins(c, n, i, e, k) /\ Belongs(c, n, i, k)
      BY <2>1, SortedJoins
    <2>3. New(e, k)
      BY <2>1, Zenon DEF ListSortedInsert, DLSortedInsert
    <2>4. e \in Element \ live /\ returned' = NULL
      BY <2>3 DEF New
    <2> QED
      BY <2>2, <2>4 DEF Added
  <1>4. CASE ListSortedRemove
    <2>1. n # 0 /\ Leaves(c, n, 1) /\ returned' = c[1]
      BY <1>4, UnlinksLeave
    <2> QED
      BY <2>1 DEF Taken
  <1>5. CASE DLRemove
    <2>1. list = "DLList" /\ first # NULL /\ Unlink(first) /\ Delete(first)
      BY <1>5 DEF DLRemove, IsEmpty
    <2>2. n # 0 /\ first = c[1] /\ 1 \in 1..n
      BY <2>1 DEF ListOf, Linked
    <2>3. Leaves(c, n, 1)
      BY <2>1, <2>2, UnlinksLeave
    <2>4. returned' = c[1]
      BY <2>1, <2>2 DEF Delete
    <2> QED
      BY <2>2, <2>3, <2>4 DEF Taken
  <1>6. CASE \E k \in Keys : DLSortedRemove(k)
    <2>1. PICK k \in Keys : DLSortedRemove(k)
      BY <1>6
    <2>2. PICK i \in 1..n : /\ list = "DLList" /\ key[c[i]] = k
                            /\ \A m \in 1..(i - 1) : key[c[m]] # k
                            /\ Unlink(c[i]) /\ Delete(c[i])
      BY <1>1, <2>1, Zenon DEF DLSortedRemove
    <2>3. Leaves(c, n, i)
      BY <2>2, UnlinksLeave
    <2>4. returned' = c[i]
      BY <2>2 DEF Delete
    <2> QED
      BY <2>2, <2>3, <2>4 DEF Taken
  <1>7. CASE Nothing
    BY <1>7 DEF Nothing, Untouched
  <1>8. CASE Destroy
    <2>1. live \ ToSet(Chain) = {}
      BY <1>1 DEF ToSet, ListOf, Linked
    <2> QED
      BY <1>8, <2>1 DEF Destroy, Emptied
  <1>9. CASE UNCHANGED listsVars
    BY <1>9 DEF listsVars, Untouched
  <1> QED
    BY <1>2, <1>3, <1>4, <1>5, <1>6, <1>7, <1>8, <1>9, Zenon DEF ListsNext

\* The list that a destructor leaves behind.
LEMMA EmptyList ==
    ASSUME list' \in {"List", "DLList"}, first' = NULL, last' = NULL, live' = {},
           next' = [e \in Element |-> NULL], prev' = next', key' = [e \in Element |-> 0]
    PROVE  <<>> \in [1..0 -> Element] /\ ListOf(<<>>, 0)'
  <1>1. <<>> \in [1..0 -> Element] /\ 1..0 = {}
    OBVIOUS
  <1>2. ListType'
    <2>1. /\ next' \in [Element -> Element \cup {NULL}] /\ prev' \in [Element -> Element \cup {NULL}]
          /\ key' \in [Element -> Int]
      OBVIOUS
    <2> QED
      BY <2>1 DEF ListType
  <1>3. Linked(<<>>, 0)'
    <2>1. \A e \in Element \ live' : next'[e] = NULL
      OBVIOUS
    <2>2. \A i, j \in 1..0 : <<>>[i] = <<>>[j] => i = j
      BY <1>1
    <2>3. live' = {<<>>[i] : i \in 1..0}
      BY <1>1
    <2>4. \A i \in 1..0 : next'[<<>>[i]] = IF i = 0 THEN NULL ELSE <<>>[i + 1]
      BY <1>1
    <2> QED
      BY <2>1, <2>2, <2>3, <2>4 DEF Linked
  <1>4. Backwards(<<>>, 0)'
    <2>1. \A e \in Element \ live' : prev'[e] = NULL
      OBVIOUS
    <2> QED
      BY <1>1, <2>1 DEF Backwards
  <1> QED
    BY <1>1, <1>2, <1>3, <1>4 DEF ListOf

\* Every step keeps the elements in a sequence.
LEMMA ListsStep == ListsInv /\ [ListsNext]_listsVars => ListsInv'
  <1> SUFFICES ASSUME ListsInv, [ListsNext]_listsVars PROVE ListsInv'
    OBVIOUS
  <1>1. PICK n \in Nat : \E c \in [1..n -> Element] : ListOf(c, n)
    BY DEF ListsInv
  <1>2. PICK c \in [1..n -> Element] : ListOf(c, n)
    BY <1>1
  <1>3. CASE Added(c, n)
    <2>1. PICK i \in 1..(n + 1), e \in Element \ live, k \in Keys : Joins(c, n, i, e, k)
      BY <1>3 DEF Added
    <2>2. k \in Int
      BY ListsAssumption DEF Keys
    <2>3. /\ Longer(c, n, i, e) \in [1..(n + 1) -> Element]
          /\ ListOf(Longer(c, n, i, e), n + 1)'
      BY <1>2, <2>1, <2>2, JoinKeeps
    <2> DEFINE d == Longer(c, n, i, e)
               m == n + 1
    <2>4. m \in Nat
      OBVIOUS
    <2> HIDE DEF d, m
    <2>5. d \in [1..m -> Element] /\ ListOf(d, m)'
      BY <2>3 DEF d, m
    <2> QED
      BY <2>4, <2>5 DEF ListsInv
  <1>4. CASE Taken(c, n)
    <2>1. PICK i \in 1..n : Leaves(c, n, i)
      BY <1>4 DEF Taken
    <2>3. /\ n - 1 \in Nat /\ Shorter(c, n, i) \in [1..(n - 1) -> Element]
          /\ ListOf(Shorter(c, n, i), n - 1)'
      BY <1>2, <2>1, LeaveKeeps
    <2> DEFINE d == Shorter(c, n, i)
               m == n - 1
    <2> HIDE DEF d, m
    <2>5. m \in Nat /\ d \in [1..m -> Element] /\ ListOf(d, m)'
      BY <2>3 DEF d, m
    <2> QED
      BY <2>5 DEF ListsInv
  <1>5. CASE Emptied
    <2>1. <<>> \in [1..0 -> Element] /\ ListOf(<<>>, 0)'
      BY <1>2, <1>5, EmptyList DEF Emptied, ListOf, ListType
    <2> QED
      BY <2>1 DEF ListsInv
  <1>6. CASE Untouched
    <2>1. ListOf(c, n)'
      BY <1>2, <1>6 DEF Untouched, ListOf, ListType, Linked, Backwards
    <2> QED
      BY <2>1 DEF ListsInv
  <1> QED
    BY <1>2, <1>3, <1>4, <1>5, <1>6, StepShape

\* At first the sequence is empty.
LEMMA ListsStart == ListsInit => ListsInv /\ ItemsWithKeys = <<>>
  <1> SUFFICES ASSUME ListsInit PROVE ListsInv /\ ItemsWithKeys = <<>>
    OBVIOUS
  <1>1. <<>> \in [1..0 -> Element] /\ 1..0 = {}
    OBVIOUS
  <1>2. ListType /\ Linked(<<>>, 0) /\ Backwards(<<>>, 0)
    BY <1>1 DEF ListsInit, ListType, Linked, Backwards
  <1>3. ListOf(<<>>, 0)
    BY <1>2 DEF ListOf
  <1>4. Chain = <<>>
    BY <1>1, <1>3, ChainIs
  <1> QED
    BY <1>1, <1>3, <1>4 DEF ListsInv, ItemsWithKeys

\* The walk and the count of elements, from the sequence.
LEMMA ChainOfInv == ListsInv => ChainIntact
  <1> SUFFICES ASSUME ListsInv PROVE ChainIntact
    OBVIOUS
  <1>1. PICK n \in Nat : \E c \in [1..n -> Element] : ListOf(c, n)
    BY DEF ListsInv
  <1>2. PICK c \in [1..n -> Element] : ListOf(c, n)
    BY <1>1
  <1>3. Chain = c /\ Len(c) = n /\ DOMAIN c = 1..n
    BY <1>2, ChainIs
  <1>4. live = ToSet(c) /\ Cardinality(live) = n
    <2>1. live = ToSet(c) /\ live = {c[i] : i \in 1..n}
      BY <1>2, <1>3 DEF ToSet, ListOf, Linked
    <2>2. c \in Bijection(1..n, live)
      <3>1. c \in [1..n -> live]
        BY <2>1
      <3>2. IsInjective(c)
        BY <1>2 DEF ListOf, Linked, IsInjective
      <3>3. \A x \in live : \E i \in 1..n : c[i] = x
        BY <2>1
      <3> QED
        BY <3>1, <3>2, <3>3 DEF Bijection, Injection, Surjection
    <2>3. Cardinality(live) = n
      BY <2>2, FS_CountingElements DEF ExistsBijection
    <2> QED
      BY <2>1, <2>3
  <1>5. last = IF c = <<>> THEN NULL ELSE Last(c)
    <2>1. c = <<>> <=> n = 0
      BY <1>3
    <2> QED
      BY <1>2, <1>3, <2>1 DEF Last, ListOf, Linked
  <1>6. list = "DLList" => \A i \in 1..n :
            /\ prev[c[i]] = IF i = 1 THEN NULL ELSE c[i - 1]
            /\ i > 1 => key[c[i - 1]] <= key[c[i]]
    BY <1>2 DEF ListOf, Backwards
  <1> QED
    BY <1>3, <1>4, <1>5, <1>6 DEF ChainIntact

(***************************************************************************)
(* After any calls the elements that exist are those of the chain, each    *)
(* once, with the right last element; lab 1's list is linked backwards and *)
(* sorted by key.                                                          *)
(***************************************************************************)
THEOREM ChainStaysIntact == ListsSpec => []ChainIntact
  <1>1. ListsSpec => []ListsInv
    BY ListsStart, ListsStep, PTL DEF ListsSpec
  <1> QED
    BY <1>1, ChainOfInv, PTL

-----------------------------------------------------------------------------
(* The refinement of Queue.                                                *)

Items(c, n) == [j \in 1..n |-> [item |-> c[j], key |-> key[c[j]]]]

ItemsExact ==
    \A n \in Nat : \A c \in [1..n -> Element] : ListOf(c, n) => ItemsWithKeys = Items(c, n)

\* The abstract sequence is the chain, whatever its walk.
LEMMA ItemsAre == ItemsExact
  <1> SUFFICES ASSUME NEW n \in Nat, NEW c \in [1..n -> Element], ListOf(c, n)
               PROVE  ItemsWithKeys = Items(c, n)
    BY DEF ItemsExact
  <1>1. Chain = c /\ DOMAIN c = 1..n
    BY ChainIs
  <1> QED
    BY <1>1 DEF ItemsWithKeys, Items

\* The same after a step.
LEMMA ItemsAreNext == ItemsExact'
  BY ItemsAre, PTL

\* r is s with x as its i-th element, or without the i-th element.
WithAt(r, s, i, x) ==
    /\ r = InsertAt(s, i, x)
    /\ i = 1 => r = <<x>> \o s
    /\ i = Len(s) + 1 => r = Append(s, x)
WithoutAt(r, s, i) == r = RemoveAt(s, i)

\* An insertion and a removal, element by element.
LEMMA InsertedAt ==
    ASSUME NEW S, NEW n \in Nat, NEW s \in [1..n -> S], NEW x \in S, NEW i \in 1..(n + 1),
           NEW r \in [1..(n + 1) -> S],
           \A j \in 1..(n + 1) : r[j] = IF j < i THEN s[j] ELSE IF j = i THEN x ELSE s[j - 1]
    PROVE  WithAt(r, s, i, x)
  <1>1. /\ s \in Seq(S) /\ Len(s) = n /\ <<x>> \in Seq(S) /\ Len(<<x>>) = 1 /\ <<x>>[1] = x
        /\ r \in Seq(S) /\ Len(r) = n + 1
    OBVIOUS
  <1> DEFINE a == SubSeq(s, 1, i - 1)
             b == SubSeq(s, i, Len(s))
  <1>2. /\ a \in Seq(S) /\ Len(a) = i - 1 /\ \A j \in 1..(i - 1) : a[j] = s[j]
        /\ b \in Seq(S) /\ Len(b) = n + 1 - i /\ \A j \in 1..(n + 1 - i) : b[j] = s[i + j - 1]
    BY <1>1
  <1> HIDE DEF a, b
  <1>3. /\ a \o <<x>> \in Seq(S) /\ Len(a \o <<x>>) = i /\ \A j \in 1..(i - 1) : (a \o <<x>>)[j] = s[j]
        /\ (a \o <<x>>)[i] = x
    <2>1. /\ a \o <<x>> \in Seq(S) /\ Len(a \o <<x>>) = Len(a) + Len(<<x>>)
          /\ \A j \in 1..(Len(a) + Len(<<x>>)) :
                (a \o <<x>>)[j] = IF j <= Len(a) THEN a[j] ELSE <<x>>[j - Len(a)]
      BY <1>1, <1>2, ConcatProperties
    <2>2. Len(a) + Len(<<x>>) = i /\ i - Len(a) = 1 /\ i \in 1..i /\ Len(a) = i - 1
      BY <1>1, <1>2
    <2>3. (a \o <<x>>)[i] = x
      BY <1>1, <2>1, <2>2
    <2>4. ASSUME NEW j \in 1..(i - 1) PROVE (a \o <<x>>)[j] = s[j]
      <3>1. j \in 1..(Len(a) + Len(<<x>>)) /\ j <= Len(a)
        BY <2>2
      <3>2. (a \o <<x>>)[j] = a[j]
        BY <2>1, <3>1, Zenon
      <3> QED
        BY <1>2, <3>2
    <2> QED
      BY <2>1, <2>2, <2>3, <2>4
  <1> DEFINE ax == a \o <<x>>
  <1> HIDE DEF ax
  <1>4. /\ ax \in Seq(S) /\ Len(ax) = i /\ ax[i] = x /\ \A j \in 1..(i - 1) : ax[j] = s[j]
    BY <1>3 DEF ax
  <1>5. /\ ax \o b \in Seq(S) /\ Len(ax \o b) = n + 1
        /\ \A j \in 1..(n + 1) : (ax \o b)[j] = IF j <= i THEN ax[j] ELSE b[j - i]
    <2>1. /\ ax \o b \in Seq(S) /\ Len(ax \o b) = Len(ax) + Len(b)
          /\ \A j \in 1..(Len(ax) + Len(b)) :
                (ax \o b)[j] = IF j <= Len(ax) THEN ax[j] ELSE b[j - Len(ax)]
      BY <1>2, <1>4, ConcatProperties
    <2>2. Len(ax) + Len(b) = n + 1 /\ Len(ax) = i
      BY <1>2, <1>4
    <2> QED
      BY <2>1, <2>2, Zenon
  <1>6. \A j \in 1..(n + 1) : (ax \o b)[j] = r[j]
    <2> SUFFICES ASSUME NEW j \in 1..(n + 1) PROVE (ax \o b)[j] = r[j]
      OBVIOUS
    <2>1. CASE j <= i
      <3>1. (ax \o b)[j] = ax[j]
        BY <1>5, <2>1
      <3> QED
        BY <1>4, <2>1, <3>1
    <2>2. CASE j > i
      <3>1. (ax \o b)[j] = b[j - i]
        BY <1>5, <2>2
      <3>2. j - i \in 1..(n + 1 - i) /\ i + (j - i) - 1 = j - 1
        BY <2>2
      <3>3. b[j - i] = s[j - 1]
        BY <1>2, <3>2
      <3> QED
        BY <2>2, <3>1, <3>3
    <2>3. j <= i \/ j > i
      OBVIOUS
    <2> QED
      BY <2>1, <2>2, <2>3, Zenon
  <1>7. r = ax \o b
    BY <1>1, <1>5, <1>6, SeqEqual
  <1>8. i = 1 => r = <<x>> \o s
    <2> SUFFICES ASSUME i = 1 PROVE r = <<x>> \o s
      OBVIOUS
    <2>1. <<x>> \o s \in Seq(S) /\ Len(<<x>> \o s) = n + 1
      BY <1>1
    <2>2. \A j \in 1..(n + 1) : (<<x>> \o s)[j] = r[j]
      BY <1>1
    <2> QED
      BY <1>1, <2>1, <2>2, SeqEqual
  <1>9. i = n + 1 => r = Append(s, x)
    <2> SUFFICES ASSUME i = n + 1 PROVE r = Append(s, x)
      OBVIOUS
    <2>1. Append(s, x) \in Seq(S) /\ Len(Append(s, x)) = n + 1
      BY <1>1
    <2>2. \A j \in 1..(n + 1) : Append(s, x)[j] = r[j]
      BY <1>1
    <2> QED
      BY <1>1, <2>1, <2>2, SeqEqual
  <1> QED
    BY <1>1, <1>7, <1>8, <1>9 DEF ax, a, b, WithAt, InsertAt

LEMMA TakenAt ==
    ASSUME NEW S, NEW n \in Nat, NEW s \in [1..n -> S], NEW i \in 1..n,
           NEW r \in [1..(n - 1) -> S],
           \A j \in 1..(n - 1) : r[j] = IF j < i THEN s[j] ELSE s[j + 1]
    PROVE  WithoutAt(r, s, i)
  <1>1. /\ s \in Seq(S) /\ Len(s) = n
        /\ r \in Seq(S) /\ Len(r) = n - 1
    OBVIOUS
  <1> DEFINE a == SubSeq(s, 1, i - 1)
             b == SubSeq(s, i + 1, Len(s))
  <1>2. /\ a \in Seq(S) /\ Len(a) = i - 1 /\ \A j \in 1..(i - 1) : a[j] = s[j]
        /\ b \in Seq(S) /\ Len(b) = n - i /\ \A j \in 1..(n - i) : b[j] = s[i + j]
    BY <1>1
  <1> HIDE DEF a, b
  <1>5. /\ a \o b \in Seq(S) /\ Len(a \o b) = n - 1
        /\ \A j \in 1..(n - 1) : (a \o b)[j] = IF j <= i - 1 THEN a[j] ELSE b[j - (i - 1)]
    <2>1. /\ a \o b \in Seq(S) /\ Len(a \o b) = Len(a) + Len(b)
          /\ \A j \in 1..(Len(a) + Len(b)) :
                (a \o b)[j] = IF j <= Len(a) THEN a[j] ELSE b[j - Len(a)]
      BY <1>2, ConcatProperties
    <2>2. Len(a) + Len(b) = n - 1 /\ Len(a) = i - 1
      BY <1>2
    <2> QED
      BY <2>1, <2>2, Zenon
  <1>6. \A j \in 1..(n - 1) : (a \o b)[j] = r[j]
    <2> SUFFICES ASSUME NEW j \in 1..(n - 1) PROVE (a \o b)[j] = r[j]
      OBVIOUS
    <2>1. CASE j < i
      <3>1. (a \o b)[j] = a[j]
        BY <1>5, <2>1
      <3> QED
        BY <1>2, <2>1, <3>1
    <2>2. CASE j >= i
      <3>1. (a \o b)[j] = b[j - (i - 1)]
        BY <1>5, <2>2
      <3>2. j - (i - 1) \in 1..(n - i) /\ i + (j - (i - 1)) = j + 1
        BY <2>2
      <3>3. b[j - (i - 1)] = s[j + 1]
        BY <1>2, <3>2
      <3> QED
        BY <2>2, <3>1, <3>3
    <2>3. j < i \/ j >= i
      OBVIOUS
    <2> QED
      BY <2>1, <2>2, <2>3, Zenon
  <1>7. r = a \o b
    BY <1>1, <1>5, <1>6, SeqEqual
  <1> QED
    BY <1>7 DEF a, b, WithoutAt, RemoveAt

\* Every call that links an element is Queue's Add, every one that unlinks one its TakeOne.
LEMMA AddedIsAdd ==
    ASSUME NEW n \in Nat, NEW c \in [1..n -> Element], ListOf(c, n), Added(c, n)
    PROVE  Sequence!Next
  <1>1. PICK i \in 1..(n + 1), e \in Element \ live, k \in Keys :
            /\ Joins(c, n, i, e, k) /\ returned' = NULL
            /\ i = 1 \/ i = n + 1 \/ Belongs(c, n, i, k)
    BY DEF Added
  <1>2. k \in Int
    BY ListsAssumption DEF Keys
  <1> DEFINE d == Longer(c, n, i, e)
             s == Items(c, n)
             x == [item |-> e, key |-> k]
             r == [j \in 1..(n + 1) |-> [item |-> d[j], key |-> key'[d[j]]]]
             S == [item : Element, key : Int]
             U == {m \in DOMAIN s : s[m].key > x.key \/ (~(list = "List") /\ s[m].key = x.key)}
                    \cup {Len(s) + 1}
  <1>3. d \in [1..(n + 1) -> Element] /\ ListOf(d, n + 1)'
    BY <1>1, <1>2, JoinKeeps
  <1>4. ItemsWithKeys = s
    BY ItemsAre DEF ItemsExact
  <1>5. ItemsWithKeys' = r
    <2>1. ItemsWithKeys' = Items(d, n + 1)'
      <3> DEFINE m == n + 1
      <3>1. m \in Nat
        OBVIOUS
      <3> HIDE DEF m, d
      <3>2. d \in [1..m -> Element] /\ ListOf(d, m)'
        BY <1>3 DEF m
      <3>3. ItemsWithKeys' = Items(d, m)'
        BY <3>1, <3>2, ItemsAreNext DEF ItemsExact
      <3> QED
        BY <3>3 DEF m
    <2> QED
      BY <2>1 DEF Items
  <1>6. /\ \A j \in 1..n : c[j] \in Element /\ c[j] # e /\ key[c[j]] \in Int
        /\ key' = [key EXCEPT ![e] = k] /\ key \in [Element -> Int] /\ list' = list
    BY <1>1 DEF ListOf, ListType, Linked, Joins
  <1>7. /\ s \in [1..n -> S] /\ x \in S /\ \A j \in 1..n : s[j].item = c[j] /\ s[j].key = key[c[j]]
    BY <1>2, <1>6 DEF Items
  <1>8. /\ r \in [1..(n + 1) -> S]
        /\ \A j \in 1..(n + 1) : r[j] = IF j < i THEN s[j] ELSE IF j = i THEN x ELSE s[j - 1]
    <2>1. \A j \in 1..(n + 1) : d[j] = IF j < i THEN c[j] ELSE IF j = i THEN e ELSE c[j - 1]
      BY DEF Longer
    <2>2. key' \in [Element -> Int]
      BY <1>2, <1>6
    <2>3. r \in [1..(n + 1) -> S]
      <3> HIDE DEF d
      <3> QED
        BY <1>3, <2>2
    <2>4. ASSUME NEW j \in 1..(n + 1)
          PROVE  r[j] = IF j < i THEN s[j] ELSE IF j = i THEN x ELSE s[j - 1]
      <3> HIDE DEF d
      <3>0. r[j] = [item |-> d[j], key |-> key'[d[j]]]
        OBVIOUS
      <3> HIDE DEF r
      <3>1. CASE j < i
        <4>1. d[j] = c[j] /\ j \in 1..n
          BY <2>1, <3>1
        <4>2. s[j] = [item |-> c[j], key |-> key[c[j]]]
          BY <4>1 DEF Items
        <4> QED
          BY <1>6, <3>0, <3>1, <4>1, <4>2
      <3>2. CASE j = i
        <4>1. d[j] = e /\ key'[e] = k
          BY <1>6, <2>1, <3>2
        <4> QED
          BY <3>0, <3>2, <4>1
      <3>3. CASE j > i
        <4>1. d[j] = c[j - 1] /\ j - 1 \in 1..n
          BY <2>1, <3>3
        <4>2. s[j - 1] = [item |-> c[j - 1], key |-> key[c[j - 1]]]
          BY <4>1 DEF Items
        <4>3. key'[c[j - 1]] = key[c[j - 1]]
          BY <1>6, <4>1
        <4> QED
          BY <3>0, <3>3, <4>1, <4>2, <4>3
      <3> QED
        BY <3>1, <3>2, <3>3
    <2> QED
      BY <2>3, <2>4
  <1> HIDE DEF r, s, d, S
  <1>9. /\ r = InsertAt(s, i, x)
        /\ i = 1 => r = <<x>> \o s
        /\ i = n + 1 => r = Append(s, x)
    <2> HIDE DEF x
    <2>1. PICK ss, rr, xx, SS : ss = s /\ rr = r /\ xx = x /\ SS = S
      BY Zenon
    <2>2. ss \in [1..n -> SS] /\ xx \in SS
      BY <1>7, <2>1
    <2>5. rr \in [1..(n + 1) -> SS]
      BY <1>8, <2>1
    <2>3. \A j \in 1..(n + 1) : rr[j] = IF j < i THEN ss[j] ELSE IF j = i THEN xx ELSE ss[j - 1]
      BY <1>8, <2>1, Zenon
    <2>4. WithAt(rr, ss, i, xx)
      <3> HIDE DEF U
      <3> QED
        BY <2>2, <2>3, <2>5, InsertedAt, Zenon
    <2>6. Len(ss) = n
      BY <2>2
    <2> QED
      BY <2>1, <2>4, <2>6, Zenon DEF WithAt
  <1>10. DOMAIN s = 1..n /\ Len(s) = n
    BY <1>7
  <1>11. Belongs(c, n, i, k) => Sequence!Min(U) = i
    <2> SUFFICES ASSUME Belongs(c, n, i, k) PROVE Sequence!Min(U) = i
      OBVIOUS
    <2>1. U = {m \in 1..n : key[c[m]] > k \/ (list # "List" /\ key[c[m]] = k)} \cup {n + 1}
      BY <1>7, <1>10
    <2>2. \A m \in 1..n : Later(c[m], k) <=> key[c[m]] > k \/ (list # "List" /\ key[c[m]] = k)
      BY <1>2, <1>6 DEF Later
    <2>3. U = {m \in 1..n : Later(c[m], k)} \cup {n + 1}
      BY <2>1, <2>2
    <2> HIDE DEF U
    <2>4. i \in U /\ \A y \in U : i <= y
      BY <2>3 DEF Belongs
    <2>5. \A z \in U : (\A y \in U : z <= y) => z = i
      BY <2>3, <2>4
    <2> QED
      BY <2>4, <2>5 DEF Sequence!Min
  <1>12. r \in {<<x>> \o s, Append(s, x), Sequence!InsertAt(s, Sequence!Min(U), x)}
    <2>1. Sequence!InsertAt(s, i, x) = InsertAt(s, i, x)
      BY Zenon DEF Sequence!InsertAt, InsertAt
    <2> QED
      BY <1>1, <1>9, <1>11, <2>1
  <1>13. x \in [item : Element \ {s[j].item : j \in DOMAIN s}, key : -MaxKey..MaxKey]
    <2>1. \A j \in DOMAIN s : s[j].item # e
      BY <1>6, <1>7, <1>10
    <2> QED
      BY <2>1 DEF Keys
  <1>14. ItemsWithKeys' \in Sequence!Added(ItemsWithKeys)
    <2>1. r \in Sequence!Added(s)
      <3> DEFINE new == [item : Element \ {s[j].item : j \in DOMAIN s}, key : -MaxKey..MaxKey]
                 later(y) == {m \in DOMAIN s : s[m].key > y.key \/ (~(list = "List") /\ s[m].key = y.key)}
                 sets == {{<<y>> \o s, Append(s, y), Sequence!InsertAt(s, Sequence!Min(later(y) \cup {Len(s) + 1}), y)} : y \in new}
      <3>1. Sequence!Added(s) = UNION sets
        BY Zenon DEF Sequence!Added
      <3>2. U = later(x) \cup {Len(s) + 1}
        OBVIOUS
      <3>3. {<<x>> \o s, Append(s, x), Sequence!InsertAt(s, Sequence!Min(later(x) \cup {Len(s) + 1}), x)} \in sets
        <4> HIDE DEF later, x
        <4> QED
          BY <1>13 DEF x
      <3> HIDE DEF sets, later, U, x
      <3> QED
        BY <1>12, <3>1, <3>2, <3>3
    <2> QED
      BY <1>4, <1>5, <2>1, Zenon
  <1> QED
    BY <1>1, <1>6, <1>14 DEF Sequence!Next, Sequence!Add

LEMMA TakenIsTake ==
    ASSUME NEW n \in Nat, NEW c \in [1..n -> Element], ListOf(c, n), Taken(c, n)
    PROVE  Sequence!Next
  <1>1. PICK i \in 1..n :
            /\ Leaves(c, n, i) /\ returned' = c[i]
            /\ i = 1 \/ \A j \in 1..(i - 1) : key[c[j]] # key[c[i]]
    BY DEF Taken
  <1> DEFINE d == Shorter(c, n, i)
             s == Items(c, n)
             r == [j \in 1..(n - 1) |-> [item |-> d[j], key |-> key'[d[j]]]]
             S == [item : Element, key : Int]
  <1>3. n - 1 \in Nat /\ d \in [1..(n - 1) -> Element] /\ ListOf(d, n - 1)'
    BY <1>1, LeaveKeeps
  <1>4. ItemsWithKeys = s
    BY ItemsAre DEF ItemsExact
  <1>5. ItemsWithKeys' = r
    <2>1. ItemsWithKeys' = Items(d, n - 1)'
      <3> DEFINE m == n - 1
      <3> HIDE DEF m, d
      <3>2. m \in Nat /\ d \in [1..m -> Element] /\ ListOf(d, m)'
        BY <1>3 DEF m
      <3>3. ItemsWithKeys' = Items(d, m)'
        BY <3>2, ItemsAreNext DEF ItemsExact
      <3> QED
        BY <3>3 DEF m
    <2> QED
      BY <2>1 DEF Items
  <1>6. /\ \A j \in 1..n : c[j] \in Element /\ key[c[j]] \in Int /\ (c[j] = c[i] => j = i)
        /\ key' = [key EXCEPT ![c[i]] = 0] /\ key \in [Element -> Int] /\ list' = list
    BY <1>1 DEF ListOf, ListType, Linked, Leaves
  <1>7. /\ s \in [1..n -> S] /\ \A j \in 1..n : s[j] = [item |-> c[j], key |-> key[c[j]]]
    BY <1>6 DEF Items
  <1>8. /\ r \in [1..(n - 1) -> S]
        /\ \A j \in 1..(n - 1) : r[j] = IF j < i THEN s[j] ELSE s[j + 1]
    <2>1. \A j \in 1..(n - 1) : d[j] = IF j < i THEN c[j] ELSE c[j + 1]
      BY DEF Shorter
    <2>2. key' \in [Element -> Int]
      BY <1>6
    <2>3. r \in [1..(n - 1) -> S]
      <3> HIDE DEF d
      <3> QED
        BY <1>3, <2>2
    <2>4. ASSUME NEW j \in 1..(n - 1)
          PROVE  r[j] = IF j < i THEN s[j] ELSE s[j + 1]
      <3> HIDE DEF d
      <3>0. r[j] = [item |-> d[j], key |-> key'[d[j]]]
        OBVIOUS
      <3> HIDE DEF r
      <3>1. CASE j < i
        <4>1. d[j] = c[j] /\ j \in 1..n
          BY <2>1, <3>1
        <4>2. s[j] = [item |-> c[j], key |-> key[c[j]]]
          BY <1>7, <4>1
        <4>3. key'[c[j]] = key[c[j]]
          BY <1>6, <3>1, <4>1
        <4> QED
          BY <3>0, <3>1, <4>1, <4>2, <4>3
      <3>3. CASE j >= i
        <4>1. d[j] = c[j + 1] /\ j + 1 \in 1..n /\ j + 1 # i
          BY <2>1, <3>3
        <4>2. s[j + 1] = [item |-> c[j + 1], key |-> key[c[j + 1]]]
          BY <1>7, <4>1
        <4>3. key'[c[j + 1]] = key[c[j + 1]]
          BY <1>6, <4>1
        <4> QED
          BY <3>0, <3>3, <4>1, <4>2, <4>3
      <3> QED
        BY <3>1, <3>3
    <2> QED
      BY <2>3, <2>4
  <1>9. DOMAIN s = 1..n /\ s # <<>> /\ s[i].item = c[i]
        /\ (\A j \in 1..n : s[j].key = key[c[j]])
    <2> HIDE DEF s, S
    <2>1. DOMAIN s = 1..n
      BY <1>7
    <2>2. 1 \in DOMAIN s /\ s # <<>>
      BY <2>1
    <2> QED
      BY <1>7, <2>1, <2>2
  <1> HIDE DEF r, s, d, S
  <1>10. r = Sequence!RemoveAt(s, i)
    <2>1. PICK ss, rr, SS : ss = s /\ rr = r /\ SS = S
      BY Zenon
    <2>2. ss \in [1..n -> SS]
      BY <1>7, <2>1
    <2>5. rr \in [1..(n - 1) -> SS]
      BY <1>8, <2>1
    <2>3. \A j \in 1..(n - 1) : rr[j] = IF j < i THEN ss[j] ELSE ss[j + 1]
      BY <1>8, <2>1, Zenon
    <2>4. WithoutAt(rr, ss, i)
      BY <2>2, <2>3, <2>5, TakenAt, Zenon
    <2> QED
      BY <2>1, <2>4, Zenon DEF Sequence!RemoveAt, RemoveAt, WithoutAt
  <1>11. Sequence!Take(i)
    BY <1>1, <1>4, <1>5, <1>9, <1>10 DEF Sequence!Take
  <1>12. Sequence!TakeOne
    <2>1. CASE i = 1
      BY <1>4, <1>9, <1>11, <2>1 DEF Sequence!TakeOne
    <2>2. CASE \A j \in 1..(i - 1) : key[c[j]] # key[c[i]]
      <3>1. i \in DOMAIN ItemsWithKeys /\ \A j \in 1..(i - 1) : ItemsWithKeys[j].key # ItemsWithKeys[i].key
        BY <1>4, <1>9, <2>2
      <3> QED
        BY <1>11, <3>1 DEF Sequence!TakeOne
    <2> QED
      BY <1>1, <2>1, <2>2
  <1> QED
    BY <1>6, <1>12 DEF Sequence!Next

\* Every step is a step of Queue, or leaves it alone.
LEMMA QueueStep == ListsInv /\ [ListsNext]_listsVars => [Sequence!Next]_(Sequence!queueVars)
  <1> SUFFICES ASSUME ListsInv, [ListsNext]_listsVars
               PROVE  [Sequence!Next]_(Sequence!queueVars)
    OBVIOUS
  <1>1. PICK n \in Nat : \E c \in [1..n -> Element] : ListOf(c, n)
    BY DEF ListsInv
  <1>2. PICK c \in [1..n -> Element] : ListOf(c, n)
    BY <1>1
  <1>3. CASE Added(c, n)
    BY <1>2, <1>3, AddedIsAdd
  <1>4. CASE Taken(c, n)
    BY <1>2, <1>4, TakenIsTake
  <1>5. CASE Emptied
    <2>1. <<>> \in [1..0 -> Element] /\ ListOf(<<>>, 0)'
      BY <1>2, <1>5, EmptyList DEF Emptied, ListOf, ListType
    <2>2. ItemsWithKeys' = Items(<<>>, 0)'
      BY <2>1, ItemsAreNext DEF ItemsExact
    <2>3. ItemsWithKeys' = <<>>
      BY <2>2 DEF Items
    <2> QED
      BY <1>5, <2>3 DEF Emptied, Sequence!Next, Sequence!Destroy
  <1>6. CASE Untouched
    <2>0. ListOf(c, n)' /\ key' = key
      BY <1>2, <1>6 DEF Untouched, ListOf, ListType, Linked, Backwards
    <2>1. ItemsWithKeys' = ItemsWithKeys
      <3>1. ItemsWithKeys = Items(c, n)
        BY <1>2, ItemsAre DEF ItemsExact
      <3>2. ItemsWithKeys' = Items(c, n)'
        BY <2>0, ItemsAreNext DEF ItemsExact
      <3> QED
        BY <2>0, <3>1, <3>2 DEF Items
    <2>2. list' = list /\ (returned' = returned \/ returned' = NULL)
      BY <1>6 DEF Untouched
    <2> QED
      BY <2>1, <2>2 DEF Sequence!Next, Sequence!Fail, Sequence!queueVars
  <1> QED
    BY <1>2, <1>3, <1>4, <1>5, <1>6, StepShape

(***************************************************************************)
(* Both lists implement the sequence of module Queue, with the items in    *)
(* the order of their keys' insertion that each of them promises.          *)
(***************************************************************************)
THEOREM ListsAreQueues == ListsSpec => ImplementsQueue
  <1>1. ListsInit => Sequence!Init
    <2> SUFFICES ASSUME ListsInit PROVE Sequence!Init
      OBVIOUS
    <2>1. ItemsWithKeys = <<>> /\ returned = NULL
      BY ListsStart DEF ListsInit
    <2> QED
      BY <2>1 DEF Sequence!Init
  <1>2. ListsSpec => []ListsInv
    BY ListsStart, ListsStep, PTL DEF ListsSpec
  <1> QED
    BY <1>1, <1>2, QueueStep, PTL DEF ListsSpec, ImplementsQueue, Sequence!Spec
=============================================================================
