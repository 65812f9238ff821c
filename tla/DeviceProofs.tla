----------------------------- MODULE DeviceProofs -----------------------------
(***************************************************************************)
(* Proofs about the simulated machine.  The devices and their drivers: the *)
(* synchronous disk makes one request at a time, and its answer comes when *)
(* the sector has passed, for every geometry of the disk and any number of *)
(* threads; the console's echo is in order, for every input; and the post  *)
(* offices have one packet under way per machine, for any number of        *)
(* machines, boxes and threads.  The processor: a page that is not dirty   *)
(* is as the program found it, for every program, page table and size of   *)
(* the memory.  And what it runs: programs are loaded as they were linked, *)
(* for every object file.                                                  *)
(***************************************************************************)
EXTENDS SynchDisk, PostOffice, Console, UserMachine, AddrSpace, FiniteSetTheorems, SequenceTheorems,
        WellFoundedInduction, TLAPS

-----------------------------------------------------------------------------
(* Arithmetic of the platter.                                              *)

\* A remainder is below its divisor.
LEMMA ModRange ==
    ASSUME NEW x \in Int, NEW n \in Nat \ {0}
    PROVE  x % n \in 0..(n - 1)
  OBVIOUS

\* A quotient by a positive number is a natural number.
LEMMA DivRange ==
    ASSUME NEW p \in Nat \ {0}, NEW n \in Nat \ {0}, NEW x \in 0..(p * n - 1)
    PROVE  x \div p \in 0..(n - 1)
  OBVIOUS

\* A quotient of an integer is an integer.
LEMMA DivInt ==
    ASSUME NEW p \in Nat \ {0}, NEW x \in Int
    PROVE  x \div p \in Int
  OBVIOUS

\* A product of natural numbers is one.
LEMMA Times ==
    ASSUME NEW a \in Nat, NEW b \in Nat, NEW c \in Nat, a <= b
    PROVE  a * c \in Nat /\ c * a \in Nat /\ a * c <= b * c /\ c * a <= c * b
  OBVIOUS

\* A product of positive numbers is positive.
LEMMA TimesPositive ==
    ASSUME NEW a \in Nat \ {0}, NEW b \in Nat \ {0}
    PROVE  a * b \in Nat \ {0} /\ b <= a * b /\ (a - 1) * b = a * b - b
  OBVIOUS

\* Division with remainder.
LEMMA DivMod ==
    ASSUME NEW x \in Int, NEW n \in Nat \ {0}
    PROVE  x = (x \div n) * n + (x % n)
  OBVIOUS

\* A quotient grows with its dividend.
LEMMA DivMono ==
    ASSUME NEW a \in Int, NEW b \in Int, NEW n \in Nat \ {0}, a <= b
    PROVE  a \div n <= b \div n
  OBVIOUS

\* Only one multiple of n is nearer to 0 than n.
LEMMA OnlyZero ==
    ASSUME NEW o \in Int, NEW n \in Nat \ {0}, o * n < n, o * n > -n
    PROVE  o = 0
  OBVIOUS

\* Products of integers.
LEMMA Distributes ==
    ASSUME NEW a \in Int, NEW b \in Int, NEW c \in Int
    PROVE  /\ a * c \in Int
           /\ (a + b) * c = a * c + b * c /\ (a - b) * c = a * c - b * c
           /\ a * (b * c) = (a * b) * c
  OBVIOUS

\* Full turns leave no trace.
LEMMA FullTurns ==
    ASSUME NEW a \in Int, NEW n \in Nat \ {0}, NEW k \in Int
    PROVE  (a + (k * n)) % n = a % n
  <1> DEFINE b  == a + k * n
             o  == a \div n
             p  == b \div n
             r  == a % n
             c  == b % n
             kn == k * n
             d  == p - o - k
  <1>1. kn \in Int
    BY Distributes
  <1>2. b \in Int /\ o \in Int /\ r \in 0..(n - 1) /\ a = o * n + r
    BY <1>1, DivMod, ModRange, DivInt
  <1> HIDE DEF o, r
  <1>3. b = a + kn
    OBVIOUS
  <1> HIDE DEF b
  <1>4. p \in Int /\ c \in 0..(n - 1) /\ b = p * n + c
    BY <1>2, DivMod, ModRange, DivInt
  <1> HIDE DEF p, c
  <1>5. d * n = p * n - o * n - k * n /\ p * n \in Int /\ o * n \in Int
    <2>1. p - o \in Int
      BY <1>2, <1>4
    <2>2. (p - o - k) * n = (p - o) * n - k * n
      BY <2>1, Distributes
    <2>3. (p - o) * n = p * n - o * n
      BY <1>2, <1>4, Distributes
    <2> QED
      BY <2>2, <2>3, Distributes, <1>2, <1>4
  <1>6. d \in Int
    BY <1>2, <1>4
  <1>7. d * n = p * n - o * n - kn
    BY <1>5
  <1> HIDE DEF d, kn
  <1>8. d * n = r - c
    BY <1>1, <1>2, <1>3, <1>4, <1>5, <1>7
  <1>9. d = 0
    BY <1>2, <1>4, <1>6, <1>8, OnlyZero
  <1>10. r = c
    BY <1>2, <1>4, <1>8, <1>9
  <1> QED
    BY <1>10 DEF r, c, b

\* From wherever the head is, it is a whole number of sectors after a rotation.
LEMMA AtStart ==
    ASSUME NEW x \in Int, NEW n \in Nat \ {0}
    PROVE  x + ((-x) % n) = ((x + ((-x) % n)) \div n) * n
  <1> DEFINE f == -x
             g == f \div n
             r == f % n
             h == x + r
             k == 0 - g
  <1>1. f \in Int /\ g \in Int /\ r \in Int /\ g * n \in Int /\ f = g * n + r
    BY DivMod, ModRange, DivInt, Distributes
  <1>2. f = -x
    OBVIOUS
  <1> HIDE DEF f, g, r
  <1>3. k \in Int /\ k * n = 0 - g * n
    <2>1. k * n = 0 * n - g * n
      BY <1>1, Distributes
    <2> QED
      BY <1>1, <2>1
  <1>4. h \in Int /\ h = 0 + (k * n)
    BY <1>1, <1>2, <1>3
  <1> HIDE DEF h, k
  <1>5. h % n = 0
    BY <1>3, <1>4, FullTurns
  <1>6. h = (h \div n) * n
    <2>1. (h \div n) * n \in Int
      BY <1>4, DivInt, Distributes
    <2> QED
      BY <1>4, <1>5, <2>1, DivMod
  <1> QED
    BY <1>6 DEF h, r, f

\* Sector u is under the head; s is there as many sectors later as the two differ.
LEMMA Passes ==
    ASSUME NEW s \in Int, NEW u \in Int, NEW n \in Nat \ {0}
    PROVE  /\ (s - u) % n \in 0..(n - 1)
           /\ \E k \in Int : u + ((s - u) % n) = (s % n) + (k * n)
           /\ (u + ((s - u) % n)) % n = s % n
  <1> DEFINE e == s - u
             i == e \div n
             m == e % n
             j == s \div n
             y == s % n
             k == j - i
  <1>1. /\ e \in Int /\ i \in Int /\ m \in 0..(n - 1) /\ e = i * n + m /\ i * n \in Int
        /\ j \in Int /\ y \in 0..(n - 1) /\ s = j * n + y /\ j * n \in Int
    <2>1. e \in Int
      OBVIOUS
    <2> HIDE DEF e
    <2>2. i \in Int /\ m \in 0..(n - 1) /\ e = i * n + m
      BY <2>1, DivMod, ModRange, DivInt
    <2>3. j \in Int /\ y \in 0..(n - 1) /\ s = j * n + y
      BY DivMod, ModRange, DivInt
    <2> HIDE DEF i, m, j, y
    <2> QED
      BY <2>1, <2>2, <2>3, Distributes
  <1>2. e = s - u
    OBVIOUS
  <1> HIDE DEF e, i, m, j, y
  <1>3. k \in Int /\ k * n = j * n - i * n
    BY <1>1, Distributes
  <1> HIDE DEF k
  <1>4. u + m = y + (k * n)
    BY <1>1, <1>2, <1>3
  <1>5. u + m = s + ((0 - i) * n)
    <2>1. (0 - i) * n = 0 * n - i * n
      BY <1>1, Distributes
    <2>2. 0 * n = 0
      OBVIOUS
    <2> DEFINE a == (0 - i) * n
               b == i * n
    <2>3. a = 0 - b /\ b \in Int /\ e = b + m
      BY <1>1, <2>1, <2>2
    <2> HIDE DEF a, b
    <2>4. u + m = s + a
      BY <1>1, <1>2, <2>3
    <2> QED
      BY <2>4 DEF a
  <1> DEFINE z == 0 - i
  <1>6. z \in Int
    BY <1>1
  <1> HIDE DEF z
  <1>7. u + m = s + (z * n)
    BY <1>5 DEF z
  <1>8. (u + m) % n = s % n
    <2>1. (s + (z * n)) % n = s % n
      BY <1>6, FullTurns
    <2> QED
      BY <1>7, <2>1, Zenon
  <1> QED
    BY <1>1, <1>3, <1>4, <1>8 DEF m, e, y

\* The end of the sector that the head waits for, in a turn of n sectors of length p.
LEMMA SectorEnd ==
    ASSUME NEW s \in Int, NEW u \in Int, NEW n \in Nat \ {0}, NEW p \in Nat \ {0}
    PROVE  (u * p + ((s - u) % n) * p + p) % (n * p) = (((s % n) + 1) * p) % (n * p)
  <1> DEFINE m == (s - u) % n
             y == s % n
             t == n * p
  <1>1. PICK k \in Int : u + m = y + (k * n)
    BY Passes
  <1>2. m \in Int /\ y \in Int /\ t \in Nat \ {0}
    BY Passes, ModRange, TimesPositive
  <1> HIDE DEF m, y
  <1> DEFINE a == (y + 1) * p
             b == u * p + m * p + p
  <1>3. b = a + (k * t)
    <2> DEFINE c == y + 1
               d == k * n
    <2>1. c \in Int /\ d \in Int
      BY <1>2, Distributes
    <2>2. (u + m) * p = u * p + m * p
      BY <1>2, Distributes
    <2>3. u + m + 1 = c + d /\ u + m \in Int
      BY <1>1, <1>2, <2>1
    <2> HIDE DEF c, d
    <2>4. (u + m + 1) * p = (u + m) * p + 1 * p
      BY <2>3, Distributes
    <2>5. (c + d) * p = c * p + d * p
      BY <2>1, Distributes
    <2>6. d * p = k * t
      BY Distributes DEF d
    <2> QED
      BY <2>2, <2>3, <2>4, <2>5, <2>6 DEF c
  <1>4. a \in Int
    BY <1>2, Distributes
  <1> HIDE DEF a, b, t
  <1>5. b % t = a % t
    BY <1>2, <1>3, <1>4, FullTurns
  <1> QED
    BY <1>5 DEF a, b, t, m, y

\* One turn of the platter takes some time, and one sector's no more than that.
LEMMA TurnPositive ==
    /\ Turn \in Nat \ {0} /\ RotationTime \in Nat \ {0} /\ RotationTime <= Turn
    /\ SectorsPerTrack \in Nat \ {0} /\ (SectorsPerTrack - 1) * RotationTime = Turn - RotationTime
    /\ FullBuffer = Turn + RotationTime
    /\ SeekTime * NumTracks \in Nat
  <1>1. /\ SectorsPerTrack \in Nat \ {0} /\ RotationTime \in Nat \ {0} /\ NumTracks \in Nat
        /\ SeekTime \in Nat
    BY DiskAssumption
  <1>2. SeekTime * NumTracks \in Nat
    BY <1>1, Times
  <1> QED
    BY <1>1, <1>2, TimesPositive DEF Turn, FullBuffer

\* How long the arm and the platter take at most.
LEMMA SeekRange ==
    ASSUME DiskTypeOK, NEW s \in Sector
    PROVE  /\ Seek(s) \in 0..(SeekTime * NumTracks)
           /\ Rotation(s) \in 0..(RotationTime - 1)
  <1> DEFINE a == s \div SectorsPerTrack
             b == lastSector \div SectorsPerTrack
             d == Distance(a, b)
  <1>1. /\ SectorsPerTrack \in Nat \ {0} /\ NumTracks \in Nat \ {0} /\ SeekTime \in Nat
        /\ RotationTime \in Nat \ {0}
    BY DiskAssumption
  <1>2. s \in 0..(SectorsPerTrack * NumTracks - 1) /\ lastSector \in 0..(SectorsPerTrack * NumTracks - 1)
    BY DEF DiskTypeOK, Sector
  <1>3. a \in 0..(NumTracks - 1) /\ b \in 0..(NumTracks - 1)
    BY <1>1, <1>2, DivRange
  <1> HIDE DEF a, b
  <1>4. d \in Nat /\ d <= NumTracks
    BY <1>1, <1>3 DEF Distance
  <1>5. Seek(s) = SeekTime * d
    BY DEF Seek, a, b
  <1> HIDE DEF d
  <1>6. Seek(s) \in 0..(SeekTime * NumTracks)
    <2>1. SeekTime * d \in Nat /\ SeekTime * NumTracks \in Nat /\ SeekTime * d <= SeekTime * NumTracks
      BY <1>1, <1>4, Times
    <2> QED
      BY <1>5, <2>1
  <1>7. Rotation(s) \in 0..(RotationTime - 1)
    <2> DEFINE x == -(angle + Seek(s))
    <2>1. angle \in Int
      BY TurnPositive DEF DiskTypeOK
    <2>2. x \in Int
      BY <1>6, <2>1
    <2>3. Rotation(s) = x % RotationTime
      BY DEF Rotation
    <2> HIDE DEF x
    <2> QED
      BY <1>1, <2>2, <2>3, ModRange
  <1> QED
    BY <1>6, <1>7

\* A request never takes longer than two turns and the seek.
LEMMA LatencyRange ==
    ASSUME DiskTypeOK, NEW s \in Sector, NEW writing \in BOOLEAN
    PROVE  ComputeLatency(s, writing) \in 0..(SeekTime * NumTracks + 2 * Turn)
  <1> DEFINE after == Seek(s) + Rotation(s)
             u == UnderHead(after)
             m == ModuloDiff(s, u)
             k == SeekTime * NumTracks
  <1>1. Seek(s) \in 0..k /\ Rotation(s) \in 0..(RotationTime - 1)
    BY SeekRange
  <1>2. /\ Turn \in Nat \ {0} /\ RotationTime \in Nat \ {0} /\ RotationTime <= Turn
        /\ SectorsPerTrack \in Nat \ {0} /\ k \in Nat
        /\ (SectorsPerTrack - 1) * RotationTime = Turn - RotationTime
    BY TurnPositive
  <1> HIDE DEF k
  <1>3. after \in 0..(k + RotationTime)
    BY <1>1, <1>2
  <1>4. u \in Int
    <2> DEFINE x == angle + after
    <2>1. x \in Int
      BY <1>2, <1>3 DEF DiskTypeOK
    <2>2. u = x \div RotationTime
      BY DEF UnderHead
    <2> HIDE DEF x, u
    <2> QED
      BY <1>2, <2>1, <2>2, DivInt
  <1>5. m \in 0..(SectorsPerTrack - 1)
    <2> DEFINE x == s - u
    <2> HIDE DEF u
    <2>1. s \in Int
      <3>1. SectorsPerTrack * NumTracks \in Int
        BY DiskAssumption
      <3> QED
        BY <3>1 DEF Sector
    <2>2. x \in Int
      BY <1>4, <2>1
    <2>3. m = x % SectorsPerTrack
      BY DEF ModuloDiff
    <2> HIDE DEF x, m
    <2> QED
      BY <1>2, <2>2, <2>3, ModRange
  <1>6. ComputeLatency(s, writing) \in {RotationTime, after + m * RotationTime + RotationTime}
    BY DEF ComputeLatency
  <1> HIDE DEF after, u, m
  <1>7. m * RotationTime \in 0..(Turn - RotationTime)
    <2> DEFINE n == SectorsPerTrack - 1
    <2>1. m \in Nat /\ n \in Nat /\ m <= n
      BY <1>2, <1>5
    <2>2. n * RotationTime = Turn - RotationTime
      BY <1>2
    <2> HIDE DEF n
    <2>3. m * RotationTime \in Nat /\ m * RotationTime <= n * RotationTime
      BY <1>2, <2>1, Times
    <2> QED
      BY <1>2, <2>2, <2>3
  <1> DEFINE mr == m * RotationTime
  <1> HIDE DEF mr
  <1>8. mr \in 0..(Turn - RotationTime)
        /\ ComputeLatency(s, writing) \in {RotationTime, after + mr + RotationTime}
    BY <1>6, <1>7 DEF mr
  <1> QED
    BY <1>2, <1>3, <1>8 DEF k

-----------------------------------------------------------------------------
(* The synchronous disk.                                                   *)

diskUserVars == <<userVars, synchDiskVars>>

DiskSpec == (UserInit /\ SynchDiskInit) /\ [][DiskNext]_diskUserVars

\* A request keeps the disk's types, ...
LEMMA RequestType ==
    ASSUME DiskTypeOK, NEW s \in Sector, NEW writing \in BOOLEAN, DiskRequest(s, writing)
    PROVE  DiskTypeOK'
  <1> DEFINE k == SeekTime * NumTracks
  <1>1. Seek(s) \in 0..k /\ Rotation(s) \in 0..(RotationTime - 1)
    BY SeekRange
  <1>2. toGo' \in 0..(k + 2 * Turn)
    BY LatencyRange DEF DiskRequest
  <1>3. /\ Turn \in Nat \ {0} /\ RotationTime \in Nat \ {0} /\ k \in Nat
        /\ FullBuffer = Turn + RotationTime /\ SystemTick \in Nat \ {0}
    BY TurnPositive, DiskAssumption
  <1> HIDE DEF k
  <1>4. loaded \in (-(k + RotationTime))..FullBuffer
    BY DEF DiskTypeOK, k
  <1>5. loaded' = loaded \/ loaded' = -(Seek(s) + Rotation(s))
    BY DEF DiskRequest, UpdateLast
  <1>6. loaded' \in (-(k + RotationTime))..FullBuffer
    BY <1>1, <1>3, <1>4, <1>5
  <1>7. toGo' \in (-SystemTick)..(k + 2 * Turn)
    BY <1>2, <1>3
  <1> QED
    BY <1>6, <1>7 DEF DiskTypeOK, DiskRequest, UpdateLast, k

\* ... and so does time that passes, up to a tick after the interrupt is due.
LEMMA ElapseType ==
    ASSUME DiskTypeOK, NEW ticks \in Nat, Elapse(ticks),
           active => toGo - ticks >= -SystemTick
    PROVE  DiskTypeOK'
  <1> DEFINE k == SeekTime * NumTracks
  <1>1. /\ Turn \in Nat \ {0} /\ RotationTime \in Nat \ {0} /\ k \in Nat
        /\ FullBuffer = Turn + RotationTime /\ SystemTick \in Nat \ {0}
    BY TurnPositive, DiskAssumption
  <1> HIDE DEF k
  <1>2. /\ loaded \in (-(k + RotationTime))..FullBuffer
        /\ toGo \in (-SystemTick)..(k + 2 * Turn)
        /\ angle \in 0..(Turn - 1)
    BY DEF DiskTypeOK, k
  <1>3. loaded' \in (-(k + RotationTime))..FullBuffer
    BY <1>1, <1>2 DEF Elapse
  <1>4. toGo' \in (-SystemTick)..(k + 2 * Turn)
    BY <1>1, <1>2 DEF Elapse
  <1>5. angle' \in 0..(Turn - 1)
    <2> DEFINE x == angle + ticks
    <2>1. x \in Int /\ angle' = x % Turn
      BY <1>1, <1>2 DEF Elapse
    <2> HIDE DEF x
    <2> QED
      BY <1>1, <2>1, ModRange
  <1> QED
    BY <1>3, <1>4, <1>5 DEF DiskTypeOK, Elapse, k

(***************************************************************************)
(* What OneRequest rests on: whoever is inside holds the lock, so there is *)
(* at most one thread for whom an answer may be.                           *)
(***************************************************************************)
DiskLockExact ==
    /\ pc \in [Thread -> SynchDiskPC]
    /\ \A t \in Thread : pc[t] # "out" => holder = t

Asleep == {t \in Thread : pc[t] = "asleep"}

DiskInv == OneRequest /\ DiskLockExact

\* The answers due, under way or given.
Answers == value + (IF active THEN 1 ELSE 0)

\* The invariant without Cardinality: only the lock's holder can be asleep.
LEMMA AnswersExact ==
    ASSUME DiskLockExact, value \in Nat, active \in BOOLEAN
    PROVE  Answers = Cardinality(Asleep)
             <=> Answers = IF \E t \in Thread : pc[t] = "asleep" THEN 1 ELSE 0
  <1>1. CASE \E t \in Thread : pc[t] = "asleep"
    <2>1. PICK t \in Thread : pc[t] = "asleep"
      BY <1>1
    <2>2. \A u \in Thread : pc[u] = "asleep" => u = t
      BY <2>1 DEF DiskLockExact
    <2>3. Asleep = {t}
      BY <2>1, <2>2 DEF Asleep
    <2>4. Cardinality(Asleep) = 1
      BY <2>3, FS_Singleton
    <2> QED
      BY <1>1, <2>4
  <1>2. CASE ~\E t \in Thread : pc[t] = "asleep"
    <2>1. Asleep = {}
      BY <1>2 DEF Asleep
    <2> QED
      BY <1>2, <2>1, FS_EmptySet
  <1> QED
    BY <1>1, <1>2

\* One request of one thread at a time, in the form in which steps keep it.
DiskTurn ==
    /\ SynchDiskTypeOK /\ DiskLockExact
    /\ \A t \in Thread : pc[t] \in {"locked", "done"} => ~active /\ value = 0
    /\ Answers = IF \E t \in Thread : pc[t] = "asleep" THEN 1 ELSE 0

\* The invariant in terms of the turn: who is in the driver and who is next.
LEMMA DiskForms == DiskInv <=> DiskTurn
  <1>1. ASSUME SynchDiskTypeOK, DiskLockExact PROVE DiskInv <=> DiskTurn
    <2>1. value \in Nat /\ active \in BOOLEAN
      BY <1>1 DEF SynchDiskTypeOK, DiskTypeOK
    <2>2. Answers = Cardinality(Asleep)
             <=> Answers = IF \E t \in Thread : pc[t] = "asleep" THEN 1 ELSE 0
      BY <1>1, <2>1, AnswersExact
    <2>3. OneRequest <=> /\ \A t \in Thread : pc[t] \in {"locked", "done"} => ~active /\ value = 0
                         /\ Answers = Cardinality(Asleep)
      BY <1>1 DEF OneRequest, Answers, Asleep
    <2> QED
      BY <1>1, <2>2, <2>3 DEF DiskInv, DiskTurn
  <1>2. DiskInv \/ DiskTurn => SynchDiskTypeOK /\ DiskLockExact
    BY DEF DiskInv, DiskTurn, OneRequest
  <1> QED
    BY <1>1, <1>2

\* A step of a thread.
LEMMA DiskThreadInv ==
    ASSUME DiskTurn, NEW t \in Thread, DiskThread(t)
    PROVE  DiskTurn'
  <1>0. /\ DiskTypeOK /\ value \in Nat /\ active \in BOOLEAN
        /\ pc \in [Thread -> SynchDiskPC]
        /\ \A u \in Thread : pc[u] # "out" => holder = u
        /\ \A u \in Thread : pc[u] \in {"locked", "done"} => ~active /\ value = 0
        /\ Answers = IF \E u \in Thread : pc[u] = "asleep" THEN 1 ELSE 0
        /\ NoThread \notin Thread
    BY UserAssumption DEF DiskTurn, SynchDiskTypeOK, DiskTypeOK, DiskLockExact
  <1>1. CASE DiskCall(t)
    <2>1. /\ pc' = [pc EXCEPT ![t] = "locked"] /\ holder = NoThread /\ holder' = t
          /\ UNCHANGED <<active, toGo, lastSector, angle, loaded, value>>
      BY <1>1 DEF DiskCall, Go, Acquire, synchDiskVars, diskVars
    <2>2. \A u \in Thread : pc[u] = "out" /\ pc'[u] = IF u = t THEN "locked" ELSE "out"
      BY <1>0, <2>1
    <2>3. value = 0 /\ ~active
      BY <1>0, <2>2 DEF Answers
    <2>4. DiskLockExact'
      BY <1>0, <2>1, <2>2 DEF DiskLockExact, SynchDiskPC
    <2>5. SynchDiskTypeOK'
      BY <1>0, <2>1 DEF SynchDiskTypeOK, DiskTypeOK
    <2> QED
      BY <2>1, <2>2, <2>3, <2>4, <2>5 DEF DiskTurn, Answers
  <1>2. CASE Request(t)
    <2>1. PICK s \in Sector, writing \in BOOLEAN : DiskRequest(s, writing)
      BY <1>2 DEF Request
    <2>2. DiskTypeOK' /\ active' = TRUE
      BY <1>0, <2>1, RequestType DEF DiskRequest
    <2>3. pc[t] = "locked"
      BY <1>2 DEF Request, Go
    <2>4. value = 0
      BY <1>0, <2>3
    <2>5. pc' = [pc EXCEPT ![t] = "asleep"] /\ UNCHANGED <<value, holder>>
      BY <1>2, <2>4 DEF Request, Go
    <2>6. \A u \in Thread : /\ pc'[u] = IF u = t THEN "asleep" ELSE pc[u]
                            /\ u # t => pc[u] = "out"
      BY <1>0, <2>3, <2>5
    <2>7. DiskLockExact'
      BY <1>0, <2>3, <2>5, <2>6 DEF DiskLockExact, SynchDiskPC
    <2> QED
      BY <1>0, <2>2, <2>4, <2>5, <2>6, <2>7 DEF DiskTurn, SynchDiskTypeOK, Answers
  <1>3. CASE Resume(t)
    <2>1. /\ pc[t] = "asleep" /\ pc' = [pc EXCEPT ![t] = "done"] /\ value > 0 /\ value' = value - 1
          /\ UNCHANGED <<holder, active, toGo, lastSector, angle, loaded>>
      BY <1>3 DEF Resume, Go, diskVars
    <2>2. value = 1 /\ ~active
      BY <1>0, <2>1 DEF Answers
    <2>3. \A u \in Thread : /\ pc'[u] = IF u = t THEN "done" ELSE pc[u]
                            /\ u # t => pc[u] = "out"
      BY <1>0, <2>1
    <2>4. DiskLockExact'
      BY <1>0, <2>1, <2>3 DEF DiskLockExact, SynchDiskPC
    <2>5. SynchDiskTypeOK'
      BY <1>0, <2>1, <2>2 DEF SynchDiskTypeOK, DiskTypeOK
    <2> QED
      BY <2>1, <2>2, <2>3, <2>4, <2>5 DEF DiskTurn, Answers
  <1>4. CASE Return(t)
    <2>1. /\ pc[t] = "done" /\ pc' = [pc EXCEPT ![t] = "out"]
          /\ UNCHANGED <<active, toGo, lastSector, angle, loaded, value>>
      BY <1>4 DEF Return, Go, synchDiskVars, diskVars
    <2>2. \A u \in Thread : pc'[u] = "out"
      BY <1>0, <2>1
    <2>3. value = 0 /\ ~active
      BY <1>0, <2>1
    <2>4. DiskLockExact'
      BY <1>0, <2>1, <2>2 DEF DiskLockExact, SynchDiskPC
    <2>5. SynchDiskTypeOK'
      BY <1>0, <2>1 DEF SynchDiskTypeOK, DiskTypeOK
    <2> QED
      BY <2>1, <2>2, <2>3, <2>4, <2>5 DEF DiskTurn, Answers
  <1> QED
    BY <1>1, <1>2, <1>3, <1>4 DEF DiskThread

\* The interrupt, and time that passes.
LEMMA DiskTimeInv ==
    ASSUME DiskTurn, RequestDone \/ Tick \/ Idle
    PROVE  DiskTurn'
  <1>0. /\ DiskTypeOK /\ value \in Nat /\ active \in BOOLEAN
        /\ UNCHANGED <<pc, holder>>
    BY DEF DiskTurn, SynchDiskTypeOK, DiskTypeOK, RequestDone, Tick, Idle, userVars
  <1>1. DiskLockExact'
    BY <1>0 DEF DiskTurn, DiskLockExact
  <1>2. CASE RequestDone
    <2>1. /\ active /\ active' = FALSE /\ toGo' = 0 /\ value' = value + 1
          /\ UNCHANGED <<lastSector, angle, loaded>>
      BY <1>2 DEF RequestDone, HandleInterrupt, InterruptDue
    <2>2. DiskTypeOK'
      <3>1. 0 \in (-SystemTick)..(SeekTime * NumTracks + 2 * Turn)
        BY TurnPositive, DiskAssumption
      <3> QED
        BY <1>0, <2>1, <3>1 DEF DiskTypeOK
    <2>3. Answers' = Answers
      BY <1>0, <2>1 DEF Answers
    <2>4. \A t \in Thread : pc[t] \notin {"locked", "done"}
      BY <2>1 DEF DiskTurn
    <2> QED
      BY <1>0, <1>1, <2>1, <2>2, <2>3, <2>4 DEF DiskTurn, SynchDiskTypeOK
  <1>3. CASE Tick \/ Idle
    <2>1. PICK ticks \in Nat : Elapse(ticks) /\ (active => toGo - ticks >= -SystemTick)
      <3>1. toGo \in Int /\ SystemTick \in Nat
        BY <1>0, TurnPositive, DiskAssumption DEF DiskTypeOK
      <3>2. CASE Tick
        BY <3>1, <3>2 DEF Tick, InterruptDue
      <3>3. CASE Idle
        BY <3>1, <3>3 DEF Idle, InterruptDue
      <3> QED
        BY <1>3, <3>2, <3>3
    <2>2. DiskTypeOK'
      BY <1>0, <2>1, ElapseType
    <2>3. UNCHANGED <<active, value>>
      BY <1>3, <2>1 DEF Tick, Idle, Elapse
    <2> QED
      BY <1>0, <1>1, <2>2, <2>3 DEF DiskTurn, SynchDiskTypeOK, Answers
  <1> QED
    BY <1>2, <1>3

\* Every step keeps the invariant.
LEMMA NextDisk == DiskTurn /\ [DiskNext]_diskUserVars => DiskTurn'
  <1> SUFFICES ASSUME DiskTurn, [DiskNext]_diskUserVars PROVE DiskTurn'
    OBVIOUS
  <1>1. CASE UNCHANGED diskUserVars
    BY <1>1 DEF diskUserVars, userVars, synchDiskVars, diskVars, DiskTurn, SynchDiskTypeOK,
                DiskTypeOK, DiskLockExact, Answers
  <1> QED
    BY <1>1, DiskThreadInv, DiskTimeInv DEF DiskNext

\* The disk starts inactive.
LEMMA InitDisk == UserInit /\ SynchDiskInit => DiskTurn
  <1> SUFFICES ASSUME UserInit, SynchDiskInit PROVE DiskTurn
    OBVIOUS
  <1>1. DiskTypeOK
    <2>1. /\ Turn \in Nat \ {0} /\ RotationTime \in Nat \ {0} /\ SystemTick \in Nat \ {0}
          /\ FullBuffer = Turn + RotationTime
          /\ SeekTime * NumTracks \in Nat
      BY TurnPositive, DiskAssumption
    <2>2. 0 \in Sector
      <3>1. SectorsPerTrack * NumTracks \in Nat \ {0}
        BY DiskAssumption, TimesPositive
      <3> QED
        BY <3>1 DEF Sector
    <2> DEFINE k == SeekTime * NumTracks
    <2>3. k \in Nat
      BY <2>1
    <2> HIDE DEF k
    <2>4. /\ 0 \in (-SystemTick)..(k + 2 * Turn) /\ 0 \in 0..(Turn - 1)
          /\ 0 \in (-(k + RotationTime))..FullBuffer
      BY <2>1, <2>3
    <2> QED
      BY <2>2, <2>4 DEF SynchDiskInit, DiskInit, DiskTypeOK, k
  <1>2. DiskLockExact
    BY DEF UserInit, DiskLockExact, SynchDiskPC
  <1> QED
    BY <1>1, <1>2 DEF UserInit, SynchDiskInit, DiskInit, DiskTurn, SynchDiskTypeOK, Answers

(***************************************************************************)
(* The disk has one request at a time, whatever its geometry and the       *)
(* number of threads, and its answer is for the one that sleeps in P.      *)
(***************************************************************************)
THEOREM OneRequestAtATime == DiskSpec => []OneRequest
  <1>1. DiskTurn => OneRequest
    BY DiskForms DEF DiskInv
  <1> QED
    BY <1>1, InitDisk, NextDisk, PTL DEF DiskSpec

\* What the arm and the platter leave, as integers.
LEMMA PlatterInts ==
    ASSUME DiskTypeOK, NEW s \in Sector
    PROVE  /\ s \in Int /\ angle \in Int /\ loaded \in Int
           /\ Seek(s) \in Nat /\ Rotation(s) \in 0..(RotationTime - 1)
  <1> DEFINE most == SeekTime * NumTracks
  <1>1. most \in Nat /\ Turn \in Nat /\ RotationTime \in Nat /\ FullBuffer \in Nat
    BY TurnPositive
  <1>2. Seek(s) \in 0..most /\ Rotation(s) \in 0..(RotationTime - 1)
    BY SeekRange
  <1>3. angle \in 0..(Turn - 1) /\ loaded \in (-(most + RotationTime))..FullBuffer
    BY DEF DiskTypeOK
  <1>4. s \in Int
    <2>1. SectorsPerTrack * NumTracks \in Int
      BY DiskAssumption
    <2> QED
      BY <2>1 DEF Sector
  <1> HIDE DEF most
  <1> QED
    BY <1>1, <1>2, <1>3, <1>4

\* A request that waits for the platter ends when its sector has passed the head.
LEMMA PlatterExact ==
    ASSUME DiskTypeOK, NEW s \in Sector
    PROVE  LET after == Seek(s) + Rotation(s)
           IN  (angle + (after + ModuloDiff(s, UnderHead(after)) * RotationTime + RotationTime)) % Turn
                 = (((s % SectorsPerTrack) + 1) * RotationTime) % Turn
  <1> DEFINE k == Seek(s)
             after == k + Rotation(s)
             x == angle + k
             u == UnderHead(after)
             m == ModuloDiff(s, u)
             h == angle + after
  <1>1. RotationTime \in Nat \ {0} /\ SectorsPerTrack \in Nat \ {0}
    BY TurnPositive
  <1>2. s \in Int /\ angle \in Int /\ k \in Int /\ Rotation(s) \in Int
    BY <1>1, PlatterInts
  <1>3. x \in Int /\ h \in Int
    BY <1>2
  <1>4. h = x + ((-x) % RotationTime)
    <2>1. Rotation(s) = (-x) % RotationTime
      BY DEF Rotation
    <2> HIDE DEF k
    <2> QED
      BY <1>2, <2>1
  <1>5. u = h \div RotationTime
    BY DEF UnderHead
  <1> HIDE DEF h, x
  <1>6. h = u * RotationTime /\ u \in Int
    BY <1>1, <1>3, <1>4, <1>5, AtStart, DivInt
  <1>7. m = (s - u) % SectorsPerTrack
    BY DEF ModuloDiff
  <1> HIDE DEF u, m
  <1>8. (u * RotationTime + m * RotationTime + RotationTime) % Turn
           = (((s % SectorsPerTrack) + 1) * RotationTime) % Turn
    <2>1. (u * RotationTime + ((s - u) % SectorsPerTrack) * RotationTime + RotationTime)
            % (SectorsPerTrack * RotationTime)
           = (((s % SectorsPerTrack) + 1) * RotationTime) % (SectorsPerTrack * RotationTime)
      BY <1>1, <1>2, <1>6, SectorEnd
    <2>2. Turn = SectorsPerTrack * RotationTime
      BY DEF Turn
    <2> QED
      BY <1>7, <2>1, <2>2, Zenon
  <1> DEFINE mr == m * RotationTime
  <1>9. mr \in Int
    <2>1. m \in Int
      BY <1>1, <1>2, <1>6, <1>7, Passes
    <2> QED
      BY <1>1, <2>1, Distributes
  <1> HIDE DEF mr
  <1>10. angle + (after + mr + RotationTime) = h + mr + RotationTime
    BY <1>1, <1>2, <1>9 DEF h
  <1> QED
    BY <1>6, <1>8, <1>10 DEF mr, m, u

\* A read from the track buffer finds that the whole sector has passed the head.
LEMMA BufferExact ==
    ASSUME DiskTypeOK, NEW s \in Sector, TrackBufferHas(s)
    PROVE  /\ loaded >= 0
           /\ \E i \in 0..((loaded + RotationTime) \div RotationTime - 1) :
                 (UnderHead(-loaded) + i) % SectorsPerTrack = s % SectorsPerTrack
  <1> DEFINE u == UnderHead(-loaded)
             m == ModuloDiff(s, u)
             rot == Rotation(s)
             a == loaded + rot
             b == loaded + RotationTime
             v == angle + (-loaded)
  <1>1. RotationTime \in Nat \ {0} /\ SectorsPerTrack \in Nat \ {0}
    BY TurnPositive
  <1>2. s \in Int /\ angle \in Int /\ loaded \in Int /\ rot \in 0..(RotationTime - 1)
    BY PlatterInts
  <1>3. a \in Int /\ b \in Int /\ a <= b /\ v \in Int
    BY <1>1, <1>2
  <1>4. u = v \div RotationTime /\ m = (s - u) % SectorsPerTrack
    BY DEF UnderHead, ModuloDiff
  <1>5. a \div RotationTime > m
    BY DEF TrackBufferHas
  <1>6. a = loaded + rot /\ b = loaded + RotationTime
    OBVIOUS
  <1> HIDE DEF u, m, v, a, b, rot
  <1>7. u \in Int
    BY <1>1, <1>3, <1>4, DivInt
  <1>8. m \in 0..(SectorsPerTrack - 1) /\ (u + m) % SectorsPerTrack = s % SectorsPerTrack
    BY <1>1, <1>2, <1>4, <1>7, Passes
  <1> DEFINE qa == a \div RotationTime
             qb == b \div RotationTime
  <1>9. qa \in Int /\ qb \in Int /\ qa <= qb /\ qa > m
    BY <1>1, <1>3, <1>5, DivInt, DivMono
  <1>10. loaded >= 0
    <2>1. a = qa * RotationTime + (a % RotationTime) /\ a % RotationTime \in Nat
      BY <1>1, <1>3, DivMod, ModRange
    <2> HIDE DEF qa
    <2>2. qa \in Nat \ {0}
      BY <1>8, <1>9
    <2>3. qa * RotationTime \in Nat /\ RotationTime <= qa * RotationTime
      BY <1>1, <2>2, TimesPositive
    <2> QED
      BY <1>1, <1>2, <1>6, <2>1, <2>3
  <1> HIDE DEF qa, qb
  <1>11. m \in 0..(qb - 1)
    BY <1>8, <1>9
  <1> QED
    BY <1>8, <1>10, <1>11 DEF u, b, qb

(***************************************************************************)
(* Whatever the geometry of the disk, a request's interrupt comes at the   *)
(* end of its sector's passage under the head, or, when the track buffer   *)
(* answers, after the whole sector has passed.                             *)
(***************************************************************************)
THEOREM TransfersInTime == DiskSpec => TransferExact
  <1> DEFINE A == ~active /\ active'
                    => AtSectorEnd(lastSector)' \/ (toGo' = RotationTime /\ Buffered')
  <1>1. ASSUME DiskTurn, DiskNext PROVE [A]_diskVars
    <2>1. ASSUME ~active, active' PROVE A
      <3>1. PICK s \in Sector, writing \in BOOLEAN : DiskRequest(s, writing)
        BY <2>1, <1>1 DEF DiskNext, RequestDone, HandleInterrupt, InterruptDue, Tick, Idle, Elapse,
                          DiskThread, DiskCall, Request, Resume, Return, synchDiskVars, diskVars
      <3>2. DiskTypeOK
        BY <1>1 DEF DiskTurn, SynchDiskTypeOK
      <3>3. toGo' = ComputeLatency(s, writing) /\ lastSector' = s /\ angle' = angle
        BY <3>1 DEF DiskRequest, UpdateLast
      <3> DEFINE after == Seek(s) + Rotation(s)
                 wait  == after + ModuloDiff(s, UnderHead(after)) * RotationTime + RotationTime
      <3>4. CASE toGo' = wait
        BY <3>2, <3>3, <3>4, PlatterExact DEF AtSectorEnd
      <3>5. CASE toGo' = RotationTime /\ Seek(s) = 0 /\ TrackBufferHas(s)
        <4>1. loaded' = loaded
          BY <3>1, <3>5 DEF DiskRequest, UpdateLast
        <4>2. UnderHead(-loaded)' = UnderHead(-loaded)
          BY <3>3, <4>1 DEF UnderHead
        <4>3. Buffered'
          BY <3>2, <3>3, <3>5, <4>1, <4>2, BufferExact DEF Buffered, HasPassed
        <4> QED
          BY <3>5, <4>3
      <3> QED
        BY <3>3, <3>4, <3>5 DEF ComputeLatency
    <2> QED
      BY <2>1
  <1>2. ASSUME DiskTurn, UNCHANGED diskUserVars PROVE [A]_diskVars
    BY <1>2 DEF diskUserVars, synchDiskVars, diskVars
  <1>3. DiskTurn /\ [DiskNext]_diskUserVars => [A]_diskVars
    BY <1>1, <1>2
  <1> QED
    BY <1>3, InitDisk, NextDisk, PTL DEF DiskSpec, TransferExact

-----------------------------------------------------------------------------
(* The console.                                                            *)

ConsoleSpec == ConsoleInit /\ [][ConsoleNext]_consoleVars

ConsoleTypeOK ==
    /\ typed \in Seq(Char) /\ unread \in Seq(Char) /\ echoed \in Seq(Char \cup {EOF})
    /\ incoming \in Char \cup {EOF} /\ putBusy \in BOOLEAN
    /\ readAvail \in Nat /\ writeDone \in Nat /\ point \in Point

\* Characters that the console has read and ConsoleTest has not echoed.
Read == readAvail + (IF point = "got" THEN 1 ELSE 0)

\* The display is busy, or has told so, exactly while ConsoleTest awaits it.
DisplayExact ==
    IF point = "writing" THEN writeDone = (IF putBusy THEN 0 ELSE 1)
    ELSE ~putBusy /\ writeDone = 0

\* What has been typed is echoed, in the console, or not read yet: in order,
\* unless somebody types the character that looks like EOF.
InConsole ==
    /\ Len(typed) = Len(echoed) + Read + Len(unread)
    /\ \A k \in 1..Len(unread) : unread[k] = typed[Len(echoed) + Read + k]
    /\ (\A k \in 1..Len(typed) : typed[k] # EOF) =>
        /\ Read = IF incoming = EOF THEN 0 ELSE 1
        /\ incoming # EOF => incoming = typed[Len(echoed) + 1]
        /\ \A k \in 1..Len(echoed) : echoed[k] = typed[k]

(***************************************************************************)
(* What EchoInOrder rests on: every character typed has one place, and     *)
(* each wake-up of the two semaphores is counted.                          *)
(***************************************************************************)
ConsoleInv == ConsoleTypeOK /\ DisplayExact /\ InConsole

\* The invariant gives what the run checks.
LEMMA ConsoleInvSuffices ==
    ASSUME ConsoleInv
    PROVE  EchoInOrder
  <1>0. /\ typed \in Seq(Char) /\ unread \in Seq(Char) /\ echoed \in Seq(Char \cup {EOF})
        /\ Len(typed) \in Nat /\ Len(unread) \in Nat /\ Len(echoed) \in Nat
        /\ Read \in Nat
    BY LenProperties DEF ConsoleInv, ConsoleTypeOK, Read
  <1>1. point = "got" => ~putBusy
    BY DEF ConsoleInv, DisplayExact
  <1>2. Len(echoed) + Len(unread) <= Len(typed) /\ Len(echoed) <= Len(typed)
    BY <1>0 DEF ConsoleInv, InConsole
  <1>3. ASSUME ~Occurs(EOF, Len(typed)) PROVE echoed = SubSeq(typed, 1, Len(echoed))
    <2> DEFINE n == Len(echoed)
               e == SubSeq(typed, 1, n)
    <2>1. \A k \in 1..n : echoed[k] = typed[k]
      BY <1>3 DEF Occurs, ConsoleInv, InConsole
    <2>2. \A k \in 1..n : k \in 1..Len(typed)
      BY <1>0, <1>2
    <2>3. 1 \in 1..(Len(typed) + 1) /\ n \in 0..Len(typed)
      BY <1>0, <1>2
    <2>4. e \in Seq(Char) /\ Len(e) = n /\ \A k \in 1..n : e[k] = typed[k]
      BY <1>0, <2>2, <2>3, SubSeqProperties
    <2> HIDE DEF e
    <2>5. Len(e) = Len(echoed) /\ \A k \in 1..Len(echoed) : e[k] = echoed[k]
      BY <2>1, <2>4
    <2>6. e \in Seq(Char \cup {EOF})
      BY <2>4
    <2> QED
      BY <1>0, <2>5, <2>6, SeqEqual DEF e
  <1> QED
    BY <1>1, <1>2, <1>3 DEF EchoInOrder

\* Somebody types a character.
LEMMA TypeInv ==
    ASSUME ConsoleInv, Type
    PROVE  ConsoleInv'
  <1>0. /\ typed \in Seq(Char) /\ unread \in Seq(Char) /\ echoed \in Seq(Char \cup {EOF})
        /\ Len(typed) \in Nat /\ Len(unread) \in Nat /\ Len(echoed) \in Nat
        /\ Read \in Nat /\ ConsoleTypeOK
        /\ UNCHANGED <<incoming, putBusy, readAvail, writeDone, ch, point, echoed>>
    BY LenProperties DEF ConsoleInv, ConsoleTypeOK, Read, Type
  <1>1. PICK c \in Char : typed' = Append(typed, c) /\ unread' = Append(unread, c)
    BY DEF Type
  <1> DEFINE n == Len(typed)
             w == Len(unread)
             m == Len(echoed) + Read
  <1>2. /\ typed' \in Seq(Char) /\ Len(typed') = n + 1 /\ typed'[n + 1] = c
        /\ \A k \in 1..n : typed'[k] = typed[k]
    BY <1>0, <1>1, AppendProperties
  <1>3. /\ unread' \in Seq(Char) /\ Len(unread') = w + 1 /\ unread'[w + 1] = c
        /\ \A k \in 1..w : unread'[k] = unread[k]
    BY <1>0, <1>1, AppendProperties
  <1>4. Read' = Read /\ Len(echoed)' = Len(echoed)
    BY <1>0 DEF Read
  <1>5. /\ n = m + w /\ \A k \in 1..w : unread[k] = typed[m + k]
        /\ m \in Nat /\ n \in Nat /\ w \in Nat
    <2>1. m \in Nat /\ n \in Nat /\ w \in Nat
      BY <1>0
    <2>2. n = m + w /\ \A k \in 1..w : unread[k] = typed[m + k]
      BY DEF ConsoleInv, InConsole
    <2> QED
      BY <2>1, <2>2
  <1>6. ConsoleTypeOK' /\ DisplayExact'
    BY <1>0, <1>2, <1>3 DEF ConsoleInv, ConsoleTypeOK, DisplayExact
  <1>7. \A k \in 1..(w + 1) : unread'[k] = typed'[m + k]
    <2> HIDE DEF n, w, m
    <2> TAKE k \in 1..(w + 1)
    <2>1. CASE k \in 1..w
      <3>1. m + k \in 1..n
        BY <1>5, <2>1
      <3> QED
        BY <1>2, <1>3, <1>5, <2>1, <3>1
    <2>2. CASE k = w + 1
      BY <1>2, <1>3, <1>5, <2>2
    <2> QED
      BY <1>5, <2>1, <2>2
  <1>8. ASSUME \A k \in 1..(n + 1) : typed'[k] # EOF
        PROVE  /\ Read = IF incoming = EOF THEN 0 ELSE 1
               /\ incoming # EOF => incoming = typed'[Len(echoed) + 1]
               /\ \A k \in 1..Len(echoed) : echoed[k] = typed'[k]
    <2>1. \A k \in 1..n : typed[k] # EOF
      BY <1>0, <1>2, <1>8
    <2>2. /\ Read = IF incoming = EOF THEN 0 ELSE 1
          /\ incoming # EOF => incoming = typed[Len(echoed) + 1]
          /\ \A k \in 1..Len(echoed) : echoed[k] = typed[k]
      BY <2>1 DEF ConsoleInv, InConsole
    <2>3. /\ incoming # EOF => Len(echoed) + 1 \in 1..n
          /\ \A k \in 1..Len(echoed) : k \in 1..n
      BY <1>0, <1>5, <2>2
    <2> QED
      BY <1>2, <2>2, <2>3
  <1>9. InConsole'
    BY <1>0, <1>2, <1>3, <1>4, <1>5, <1>7, <1>8 DEF InConsole
  <1> QED
    BY <1>6, <1>9 DEF ConsoleInv

\* The console reads a character.
LEMMA CheckCharInv ==
    ASSUME ConsoleInv, CheckCharAvail
    PROVE  ConsoleInv'
  <1>0. /\ typed \in Seq(Char) /\ unread \in Seq(Char) /\ echoed \in Seq(Char \cup {EOF})
        /\ Len(typed) \in Nat /\ Len(unread) \in Nat /\ Len(echoed) \in Nat
        /\ Read \in Nat /\ ConsoleTypeOK
        /\ UNCHANGED <<typed, putBusy, writeDone, ch, point, echoed>>
        /\ readAvail' = readAvail + 1 /\ unread # <<>>
        /\ incoming = EOF /\ incoming' = Head(unread) /\ unread' = Tail(unread)
    BY LenProperties DEF ConsoleInv, ConsoleTypeOK, Read, CheckCharAvail
  <1> DEFINE n == Len(typed)
             w == Len(unread)
             e == Len(echoed)
             m == e + Read
  <1>1. /\ unread' \in Seq(Char) /\ Len(unread') = w - 1 /\ w \in Nat \ {0}
        /\ \A k \in 1..(w - 1) : unread'[k] = unread[k + 1]
        /\ incoming' \in Char /\ incoming' = unread[1]
    BY <1>0, HeadTailProperties, EmptySeq
  <1>2. Read' = Read + 1 /\ Len(echoed)' = e /\ Len(typed)' = n
    BY <1>0 DEF Read, ConsoleTypeOK
  <1>3. /\ n = m + w /\ \A k \in 1..w : unread[k] = typed[m + k]
        /\ m \in Nat /\ n \in Nat /\ w \in Nat /\ e \in Nat
    BY <1>0 DEF ConsoleInv, InConsole
  <1>4. ConsoleTypeOK' /\ DisplayExact'
    BY <1>0, <1>1 DEF ConsoleInv, ConsoleTypeOK, DisplayExact
  <1>5. \A k \in 1..(w - 1) : unread'[k] = typed[m + 1 + k]
    <2> HIDE DEF w, m
    <2> TAKE k \in 1..(w - 1)
    <2> DEFINE j == k + 1
    <2>1. j \in 1..w /\ m + j = m + 1 + k
      BY <1>1, <1>3
    <2>2. unread[j] = typed[m + j]
      BY <1>3, <2>1
    <2>3. unread'[k] = unread[j]
      BY <1>1
    <2> QED
      BY <2>1, <2>2, <2>3
  <1>6. ASSUME \A k \in 1..n : typed[k] # EOF
        PROVE  /\ Read' = IF incoming' = EOF THEN 0 ELSE 1
               /\ incoming' # EOF => incoming' = typed[e + 1]
               /\ \A k \in 1..e : echoed[k] = typed[k]
    <2>1. /\ Read = 0
          /\ \A k \in 1..e : echoed[k] = typed[k]
      BY <1>0, <1>6 DEF ConsoleInv, InConsole
    <2>2. incoming' = typed[m + 1] /\ m + 1 \in 1..n
      BY <1>1, <1>3
    <2>3. m = e
      BY <1>3, <2>1
    <2> QED
      BY <1>2, <1>6, <2>1, <2>2, <2>3
  <1>7. InConsole'
    <2>1. n = e + Read' + Len(unread')
      BY <1>0, <1>1, <1>2, <1>3
    <2>2. \A k \in 1..Len(unread') : unread'[k] = typed[e + Read' + k]
      <3>1. \A k \in 1..(w - 1) : e + Read' + k = m + 1 + k
        BY <1>0, <1>2
      <3> QED
        BY <1>1, <1>5, <3>1
    <2> QED
      BY <1>0, <1>2, <1>6, <2>1, <2>2 DEF InConsole
  <1> QED
    BY <1>4, <1>7 DEF ConsoleInv

\* ConsoleTest echoes a character.
LEMMA EchoInv ==
    ASSUME ConsoleInv, Echo
    PROVE  ConsoleInv'
  <1>0. /\ typed \in Seq(Char) /\ unread \in Seq(Char) /\ echoed \in Seq(Char \cup {EOF})
        /\ Len(typed) \in Nat /\ Len(unread) \in Nat /\ Len(echoed) \in Nat
        /\ Read \in Nat /\ ConsoleTypeOK
        /\ UNCHANGED <<typed, unread, readAvail, writeDone>>
        /\ point = "got" /\ point' = "writing" /\ putBusy' = TRUE
        /\ incoming' = EOF /\ echoed' = Append(echoed, incoming)
        /\ incoming \in Char \cup {EOF}
    BY LenProperties DEF ConsoleInv, ConsoleTypeOK, Read, Echo
  <1> DEFINE n == Len(typed)
             w == Len(unread)
             e == Len(echoed)
  <1>1. /\ echoed' \in Seq(Char \cup {EOF}) /\ Len(echoed') = e + 1
        /\ \A k \in 1..e : echoed'[k] = echoed[k]
        /\ echoed'[e + 1] = incoming
    BY <1>0, AppendProperties
  <1>2. Read' = Read - 1 /\ Read \in Nat \ {0} /\ Len(unread)' = w /\ Len(typed)' = n
    BY <1>0 DEF Read, ConsoleTypeOK
  <1>3. /\ n = e + Read + w /\ \A k \in 1..w : unread[k] = typed[e + Read + k]
        /\ n \in Nat /\ w \in Nat /\ e \in Nat
    BY <1>0 DEF ConsoleInv, InConsole
  <1>4. ConsoleTypeOK' /\ DisplayExact'
    BY <1>0, <1>1 DEF ConsoleInv, ConsoleTypeOK, DisplayExact, Point
  <1>5. e + Read = e + 1 + Read'
    BY <1>0, <1>2
  <1>6. ASSUME \A k \in 1..n : typed[k] # EOF
        PROVE  /\ Read' = 0
               /\ \A k \in 1..(e + 1) : echoed'[k] = typed[k]
    <2>1. /\ Read = 1 /\ incoming = typed[e + 1]
          /\ \A k \in 1..e : echoed[k] = typed[k]
      BY <1>2, <1>6 DEF ConsoleInv, InConsole
    <2>2. \A k \in 1..(e + 1) : k \in 1..e \/ k = e + 1
      BY <1>3
    <2> QED
      BY <1>1, <1>2, <2>1, <2>2
  <1>7. InConsole'
    <2>1. n = Len(echoed') + Read' + w
      BY <1>0, <1>1, <1>2, <1>3
    <2>2. \A k \in 1..w : unread[k] = typed[Len(echoed') + Read' + k]
      BY <1>1, <1>3, <1>5
    <2> QED
      BY <1>0, <1>1, <1>2, <1>6, <2>1, <2>2 DEF InConsole
  <1> QED
    BY <1>4, <1>7 DEF ConsoleInv

\* The semaphores' waits and the display's interrupt.
LEMMA AwaitInv ==
    ASSUME ConsoleInv, AwaitChar \/ AwaitWritten \/ WriteDone
    PROVE  ConsoleInv'
  <1>0. /\ ConsoleTypeOK /\ DisplayExact /\ InConsole
        /\ UNCHANGED <<typed, unread, incoming, ch, echoed>>
        /\ readAvail \in Nat /\ writeDone \in Nat
    BY DEF ConsoleInv, ConsoleTypeOK, AwaitChar, AwaitWritten, WriteDone
  <1>1. Read' = Read
    BY <1>0 DEF AwaitChar, AwaitWritten, WriteDone, Read
  <1>2. InConsole'
    BY <1>0, <1>1 DEF InConsole
  <1>3. ConsoleTypeOK'
    <2>1. readAvail' \in Nat /\ writeDone' \in Nat
      BY <1>0 DEF AwaitChar, AwaitWritten, WriteDone
    <2>2. putBusy' \in BOOLEAN
      BY <1>0 DEF ConsoleTypeOK, AwaitChar, AwaitWritten, WriteDone
    <2>3. point' \in Point
      BY <1>0 DEF ConsoleTypeOK, AwaitChar, AwaitWritten, WriteDone, Point
    <2> QED
      BY <1>0, <2>1, <2>2, <2>3 DEF ConsoleTypeOK
  <1>4. DisplayExact'
    BY <1>0 DEF DisplayExact, AwaitChar, AwaitWritten, WriteDone
  <1> QED
    BY <1>2, <1>3, <1>4 DEF ConsoleInv

\* Every step keeps the invariant.
LEMMA NextConsole == ConsoleInv /\ [ConsoleNext]_consoleVars => ConsoleInv'
  <1> SUFFICES ASSUME ConsoleInv, [ConsoleNext]_consoleVars PROVE ConsoleInv'
    OBVIOUS
  <1>1. CASE UNCHANGED consoleVars
    BY <1>1 DEF consoleVars, ConsoleInv, ConsoleTypeOK, DisplayExact, InConsole, Read
  <1> QED
    BY <1>1, TypeInv, CheckCharInv, EchoInv, AwaitInv DEF ConsoleNext, ConsoleTest

\* At the start nothing is typed.
LEMMA InitConsole == ConsoleInit => ConsoleInv
  <1> SUFFICES ASSUME ConsoleInit PROVE ConsoleInv
    OBVIOUS
  <1> DEFINE none == <<>>
  <1>1. none \in Seq(Char) /\ none \in Seq(Char \cup {EOF}) /\ Len(none) = 0
    BY EmptySeq
  <1>2. typed = none /\ unread = none /\ echoed = none
    BY DEF ConsoleInit
  <1> HIDE DEF none
  <1>3. ConsoleTypeOK
    BY <1>1, <1>2 DEF ConsoleInit, ConsoleTypeOK, Point
  <1>4. DisplayExact
    BY DEF ConsoleInit, DisplayExact
  <1>5. InConsole
    BY <1>1, <1>2 DEF ConsoleInit, InConsole, Read
  <1> QED
    BY <1>3, <1>4, <1>5 DEF ConsoleInv

(***************************************************************************)
(* The echo is in order, nothing lost or doubled, for every input that     *)
(* does not contain the character that looks like EOF; and PutChar's       *)
(* assertion that the display is free never fails.                         *)
(***************************************************************************)
THEOREM EchoCorrect == ConsoleSpec => []EchoInOrder
  <1>1. ConsoleInv => EchoInOrder
    BY ConsoleInvSuffices
  <1> QED
    BY <1>1, InitConsole, NextConsole, PTL DEF ConsoleSpec

-----------------------------------------------------------------------------
(***************************************************************************)
(* The post offices.  A client that is between Send and its interrupt      *)
(* holds its machine's sendLock, so that one interrupt is due at most; a   *)
(* packet that is buffered is known to messageAvailable until the worker   *)
(* has come for it; and the threads that wait in a mailbox are the ones in *)
(* its queue, each once, so that a signal wakes none that sends.           *)
(***************************************************************************)
PostSpec == PostOfficeInit /\ [][PostOfficeNext]_postOfficeVars

SendPoint == {"sending", "asleep", "sent"}
BoxPoint == {"removing", "waiting", "woken", "received"}

PostTypeOK ==
    /\ posted \in 0..MaxMail
    /\ sock \in [Machine -> Seq(Mail)]
    /\ inHdr \in [Machine -> Mail \cup {None}] /\ held \in [Machine -> Mail \cup {None}]
    /\ sendDue \in [Machine -> Nat] /\ sent \in [Machine -> Nat] /\ available \in [Machine -> Nat]
    /\ sendLock \in [Machine -> Client \cup {Free}]
    /\ worker \in [Machine -> {"P", "awake", "put", "putting"}]
    /\ at \in [Client -> {"out"} \cup SendPoint \cup BoxPoint]
    /\ mail \in [Client -> Mail \cup {None}]

\* The thread that sends, and the interrupt it waits for.
Sends(m) ==
    /\ \A c \in Client : At[c] = m /\ at[c] \in SendPoint => sendLock[m] = c
    /\ \A c \in Client : At[c] = m /\ at[c] \in {"sending", "sent"} => sent[m] + sendDue[m] = 0
    /\ sent[m] + sendDue[m] = IF \E c \in Client : At[c] = m /\ at[c] = "asleep" THEN 1 ELSE 0

\* The packet that is buffered, and the one that is in the worker's hands.
Holds(m) ==
    /\ available[m] + (IF worker[m] = "awake" THEN 1 ELSE 0) = IF inHdr[m] = None THEN 0 ELSE 1
    /\ held[m] # None <=> worker[m] \in {"put", "putting"}

\* The threads that wait in a box.
Waits(m, b, queue) ==
    /\ queue \in Seq(Client)
    /\ \A i, j \in 1..Len(queue) : queue[i] = queue[j] => i = j
    /\ \A i \in 1..Len(queue) : at[queue[i]] = "waiting" /\ At[queue[i]] = m /\ boxOf[queue[i]] = b

BoxesExact ==
    /\ messages \in [Machine -> [Box -> Seq(Mail)]]
    /\ listEmpty \in [Machine -> [Box -> Seq(Client)]]
    /\ boxOf \in [Client -> Box \cup {None}]
    /\ \A c \in Client : at[c] \in BoxPoint => boxOf[c] \in Box
    /\ \A m \in Machine, b \in Box : Waits(m, b, listEmpty[m][b])

PostInv ==
    /\ PostTypeOK
    /\ \A m \in Machine : Sends(m) /\ Holds(m)
    /\ BoxesExact

\* One value of a function changes.
LEMMA Excepted ==
    ASSUME NEW S, NEW T, NEW f \in [S -> T], NEW x \in S, NEW v \in T
    PROVE  /\ [f EXCEPT ![x] = v] \in [S -> T]
           /\ \A y \in S : [f EXCEPT ![x] = v][y] = IF y = x THEN v ELSE f[y]
  OBVIOUS

\* One value of one of a function's functions changes.
LEMMA ExceptedTwice ==
    ASSUME NEW S, NEW B, NEW T, NEW f \in [S -> [B -> T]], NEW x \in S, NEW b \in B, NEW v \in T
    PROVE  /\ [f EXCEPT ![x][b] = v] \in [S -> [B -> T]]
           /\ \A y \in S, d \in B :
                 [f EXCEPT ![x][b] = v][y][d] = IF y = x /\ d = b THEN v ELSE f[y][d]
  OBVIOUS

\* Sends does not see a step of a thread that is not sending.
LEMMA SendsFrame ==
    ASSUME NEW m \in Machine, Sends(m),
           sent'[m] = sent[m], sendDue'[m] = sendDue[m], sendLock'[m] = sendLock[m],
           \A c \in Client : At[c] = m /\ (at[c] \in SendPoint \/ at'[c] \in SendPoint) => at'[c] = at[c]
    PROVE  Sends(m)'
  BY DEF Sends, SendPoint

\* BoxesExact does not see a step of a thread that is in no box.
LEMMA BoxesFrame ==
    ASSUME BoxesExact, UNCHANGED <<messages, listEmpty, boxOf>>,
           \A c \in Client : /\ at[c] = "waiting" => at'[c] = "waiting"
                             /\ at'[c] \in BoxPoint => at[c] \in BoxPoint
    PROVE  BoxesExact'
  <1>1. ASSUME NEW m \in Machine, NEW b \in Box
        PROVE  Waits(m, b, listEmpty[m][b])'
    <2>1. Waits(m, b, listEmpty[m][b])
      BY DEF BoxesExact
    <2>2. \A i \in 1..Len(listEmpty[m][b]) : listEmpty[m][b][i] \in Client
      BY <2>1, ElementOfSeq DEF Waits
    <2> QED
      BY <2>1, <2>2 DEF Waits
  <1> QED
    BY <1>1 DEF BoxesExact

\* PostOffice::Send, from its call to its return.
LEMMA SendInv ==
    ASSUME PostInv, NEW c \in Client,
           SendCall(c) \/ Send(c) \/ SendResume(c) \/ SendReturn(c)
    PROVE  PostInv'
  <1>0. /\ PostTypeOK /\ BoxesExact /\ \A m \in Machine : Sends(m) /\ Holds(m)
        /\ Free \notin Client /\ At[c] \in Machine /\ MaxMail \in Nat
    BY PostAssumption DEF PostInv
  <1> DEFINE n == At[c]
  <1>1. /\ UNCHANGED <<messages, listEmpty, boxOf, available, worker, held, inHdr, mail>>
        /\ \E p \in {"sending", "asleep", "sent", "out"} : at' = [at EXCEPT ![c] = p]
        /\ at[c] \in {"out", "sending", "asleep", "sent"}
    BY DEF SendCall, Send, SendResume, SendReturn, PSent, Step, networkVars, boxVars, workerVars
  <1>2. BoxesExact'
    BY <1>0, <1>1, BoxesFrame DEF PostTypeOK, BoxPoint
  <1>3. \A m \in Machine : Holds(m)'
    BY <1>0, <1>1 DEF Holds
  <1>4. \A d \in Client : d # c => at'[d] = at[d]
    BY <1>0, <1>1 DEF PostTypeOK
  <1>5. posted' \in 0..MaxMail /\ sock' \in [Machine -> Seq(Mail)]
    <2>1. CASE Send(c)
      <3>1. posted' \in 1..MaxMail
        BY <1>0, <2>1 DEF Send, PostTypeOK
      <3>2. PICK m \in Machine, b \in Box :
               \/ sock' = [sock EXCEPT ![m] = Append(@, [to |-> m, box |-> b, id |-> posted'])]
               \/ UNCHANGED sock
        BY <2>1 DEF Send
      <3>3. [to |-> m, box |-> b, id |-> posted'] \in Mail
        BY <3>1 DEF Mail
      <3>4. sock[m] \in Seq(Mail)
        BY <1>0 DEF PostTypeOK
      <3>5. Append(sock[m], [to |-> m, box |-> b, id |-> posted']) \in Seq(Mail)
        BY <3>3, <3>4, AppendProperties
      <3>6. sock' \in [Machine -> Seq(Mail)]
        BY <1>0, <3>2, <3>5 DEF PostTypeOK
      <3> QED
        BY <1>0, <3>1, <3>6
    <2>2. CASE SendCall(c) \/ SendResume(c) \/ SendReturn(c)
      BY <1>0, <2>2 DEF SendCall, SendResume, SendReturn, PostTypeOK, networkVars, sendVars
    <2> QED
      BY <2>1, <2>2
  <1>6. ASSUME /\ \A m \in Machine : m # n => /\ sent'[m] = sent[m] /\ sendDue'[m] = sendDue[m]
                                              /\ sendLock'[m] = sendLock[m]
               /\ sent' \in [Machine -> Nat] /\ sendDue' \in [Machine -> Nat]
               /\ sendLock' \in [Machine -> Client \cup {Free}]
               /\ Sends(n)'
        PROVE  PostInv'
    <2>1. \A m \in Machine : m # n => Sends(m)'
      BY <1>0, <1>4, <1>6, SendsFrame
    <2>2. PostTypeOK'
      BY <1>0, <1>1, <1>5, <1>6 DEF PostTypeOK, SendPoint
    <2> QED
      BY <1>2, <1>3, <1>6, <2>1, <2>2 DEF PostInv
  <1>7. /\ Sends(n) /\ sent[n] \in Nat /\ sendDue[n] \in Nat
        /\ sent \in [Machine -> Nat] /\ sendDue \in [Machine -> Nat]
        /\ sendLock \in [Machine -> Client \cup {Free}]
        /\ at \in [Client -> {"out"} \cup SendPoint \cup BoxPoint]
    BY <1>0 DEF PostTypeOK
  <1>8. CASE SendCall(c)
    <2>1. /\ sendLock[n] = Free /\ sendLock' = [sendLock EXCEPT ![n] = c]
          /\ at[c] = "out" /\ at' = [at EXCEPT ![c] = "sending"] /\ UNCHANGED <<sent, sendDue>>
      BY <1>8 DEF SendCall, Step, networkVars
    <2>2. \A d \in Client : At[d] = n => at[d] \notin SendPoint
      BY <1>0, <1>7, <2>1 DEF Sends
    <2>3. sent[n] + sendDue[n] = 0
      BY <1>7, <2>2 DEF Sends, SendPoint
    <2>4. \A d \in Client : at'[d] = IF d = c THEN "sending" ELSE at[d]
      BY <1>7, <2>1
    <2>5. Sends(n)'
      BY <1>0, <1>7, <2>1, <2>2, <2>3, <2>4 DEF Sends, SendPoint
    <2> QED
      BY <1>0, <1>6, <1>7, <2>1, <2>5
  <1>9. CASE Send(c)
    <2>1. /\ at[c] = "sending" /\ sendDue' = [sendDue EXCEPT ![n] = @ + 1] /\ UNCHANGED sendLock
      BY <1>9 DEF Send, PSent, Step
    <2>2. sent[n] = 0 /\ sendDue[n] = 0 /\ sendLock[n] = c
      BY <1>7, <2>1 DEF Sends, SendPoint
    <2>3. at' = [at EXCEPT ![c] = "asleep"] /\ UNCHANGED sent
      BY <1>9, <2>2 DEF Send, PSent, Step
    <2>4. \A d \in Client : At[d] = n /\ at[d] \in SendPoint => d = c
      BY <1>7, <2>2 DEF Sends
    <2>5. \A d \in Client : at'[d] = IF d = c THEN "asleep" ELSE at[d]
      BY <1>7, <2>3
    <2>6. sent'[n] + sendDue'[n] = 1
      BY <1>0, <1>7, <2>1, <2>2, <2>3
    <2>7. Sends(n)'
      BY <2>1, <2>2, <2>3, <2>4, <2>5, <2>6 DEF Sends, SendPoint
    <2>8. sendDue' \in [Machine -> Nat] /\ \A m \in Machine : m # n => sendDue'[m] = sendDue[m]
      <3>1. sendDue[n] + 1 \in Nat /\ n \in Machine
        BY <1>0, <1>7
      <3> QED
        BY <1>7, <2>1, <3>1, Excepted
    <2> QED
      BY <1>6, <1>7, <2>1, <2>3, <2>7, <2>8
  <1>10. CASE SendResume(c)
    <2>1. /\ at[c] = "asleep" /\ sent[n] > 0 /\ UNCHANGED <<sendLock, sendDue>>
      BY <1>10 DEF SendResume, PSent, Step, networkVars
    <2>2. at' = [at EXCEPT ![c] = "sent"] /\ sent' = [sent EXCEPT ![n] = @ - 1]
      BY <1>7, <1>10, <2>1 DEF SendResume, PSent, Step
    <2>3. sendLock[n] = c /\ sent[n] = 1 /\ sendDue[n] = 0
      BY <1>7, <2>1 DEF Sends, SendPoint
    <2>4. \A d \in Client : At[d] = n /\ at[d] \in SendPoint => d = c
      BY <1>7, <2>3 DEF Sends
    <2>5. \A d \in Client : at'[d] = IF d = c THEN "sent" ELSE at[d]
      BY <1>7, <2>2
    <2>6. sent'[n] + sendDue'[n] = 0
      BY <1>0, <1>7, <2>1, <2>2, <2>3
    <2>7. Sends(n)'
      BY <2>1, <2>3, <2>4, <2>5, <2>6 DEF Sends, SendPoint
    <2>8. sent' \in [Machine -> Nat] /\ \A m \in Machine : m # n => sent'[m] = sent[m]
      <3>1. sent[n] - 1 \in Nat /\ n \in Machine
        BY <1>0, <1>7, <2>3
      <3> QED
        BY <1>7, <2>2, <3>1, Excepted
    <2> QED
      BY <1>6, <1>7, <2>1, <2>7, <2>8
  <1>11. CASE SendReturn(c)
    <2>1. /\ at[c] = "sent" /\ at' = [at EXCEPT ![c] = "out"] /\ UNCHANGED <<sent, sendDue>>
          /\ sendLock' = [sendLock EXCEPT ![n] = Free]
      BY <1>11 DEF SendReturn, Step, networkVars
    <2>2. sendLock[n] = c /\ sent[n] + sendDue[n] = 0
      BY <1>7, <2>1 DEF Sends, SendPoint
    <2>3. \A d \in Client : At[d] = n /\ at[d] \in SendPoint => d = c
      BY <1>7, <2>2 DEF Sends
    <2>4. \A d \in Client : at'[d] = IF d = c THEN "out" ELSE at[d]
      BY <1>7, <2>1
    <2>5. Sends(n)'
      BY <2>1, <2>2, <2>3, <2>4 DEF Sends, SendPoint
    <2> QED
      BY <1>0, <1>6, <1>7, <2>1, <2>5
  <1> QED
    BY <1>8, <1>9, <1>10, <1>11

\* The interrupts of a machine's network.
LEMMA NetworkInv ==
    ASSUME PostInv, NEW n \in Machine, SendDone(n) \/ CheckPktAvail(n)
    PROVE  PostInv'
  <1>0. /\ PostTypeOK /\ BoxesExact /\ \A m \in Machine : Sends(m) /\ Holds(m)
        /\ sent[n] \in Nat /\ sendDue[n] \in Nat /\ available[n] \in Nat
    BY DEF PostInv, PostTypeOK
  <1>1. UNCHANGED <<messages, listEmpty, boxOf, at, mail, worker, held, sendLock, posted>>
    BY DEF SendDone, CheckPktAvail, sendVars, boxVars, workerVars, clientVars
  <1>2. BoxesExact'
    BY <1>0, <1>1, BoxesFrame
  <1>3. CASE SendDone(n)
    <2>1. /\ sendDue[n] > 0 /\ sendDue' = [sendDue EXCEPT ![n] = @ - 1]
          /\ sent' = [sent EXCEPT ![n] = @ + 1] /\ UNCHANGED <<sock, inHdr, available>>
      BY <1>3 DEF SendDone, workerVars
    <2>2. sendDue[n] - 1 \in Nat /\ sent[n] + 1 \in Nat
      BY <1>0, <2>1
    <2>3. /\ sendDue' \in [Machine -> Nat] /\ sent' \in [Machine -> Nat]
          /\ \A m \in Machine : /\ sendDue'[m] = IF m = n THEN sendDue[n] - 1 ELSE sendDue[m]
                                /\ sent'[m] = IF m = n THEN sent[n] + 1 ELSE sent[m]
      BY <1>0, <2>1, <2>2, Excepted DEF PostTypeOK
    <2>4. \A m \in Machine : sent'[m] + sendDue'[m] = sent[m] + sendDue[m]
      <3>1. sent'[n] + sendDue'[n] = sent[n] + sendDue[n]
        BY <1>0, <2>3
      <3> QED
        BY <2>3, <3>1
    <2>5. \A m \in Machine : Sends(m)' /\ Holds(m)'
      BY <1>0, <1>1, <2>1, <2>4 DEF Sends, Holds
    <2> QED
      BY <1>0, <1>1, <1>2, <2>1, <2>3, <2>5 DEF PostInv, PostTypeOK
  <1>4. CASE CheckPktAvail(n)
    <2>1. /\ inHdr[n] = None /\ sock[n] # <<>> /\ sock' = [sock EXCEPT ![n] = Tail(@)]
          /\ inHdr' = [inHdr EXCEPT ![n] = Head(sock[n])]
          /\ available' = [available EXCEPT ![n] = @ + 1] /\ UNCHANGED <<sent, sendDue>>
      BY <1>4 DEF CheckPktAvail, sendVars
    <2>2. sock[n] \in Seq(Mail)
      BY <1>0 DEF PostTypeOK
    <2>3. Head(sock[n]) \in Mail /\ Tail(sock[n]) \in Seq(Mail)
      BY <2>1, <2>2, HeadTailProperties
    <2>4. sock' \in [Machine -> Seq(Mail)]
      BY <1>0, <2>1, <2>3 DEF PostTypeOK
    <2>5. /\ inHdr' \in [Machine -> Mail \cup {None}]
          /\ \A m \in Machine : inHdr'[m] = IF m = n THEN Head(sock[n]) ELSE inHdr[m]
      BY <1>0, <2>1, <2>3, Excepted DEF PostTypeOK
    <2>6. available[n] + 1 \in Nat
      BY <1>0
    <2>7. /\ available' \in [Machine -> Nat]
          /\ \A m \in Machine : available'[m] = IF m = n THEN available[n] + 1 ELSE available[m]
      BY <1>0, <2>1, <2>6, Excepted DEF PostTypeOK
    <2>8. /\ available[n] + (IF worker[n] = "awake" THEN 1 ELSE 0) = 0
          /\ inHdr'[n] # None
      BY <1>0, <2>1, <2>3, <2>5, NoneAssumption DEF Holds
    <2>9. Holds(n)'
      BY <1>0, <1>1, <2>7, <2>8 DEF Holds
    <2>10. \A m \in Machine : Holds(m)'
      BY <1>0, <1>1, <2>5, <2>7, <2>9 DEF Holds
    <2>11. \A m \in Machine : Sends(m)'
      BY <1>0, <1>1, <2>1 DEF Sends
    <2> QED
      BY <1>0, <1>1, <1>2, <2>1, <2>4, <2>5, <2>7, <2>10, <2>11 DEF PostInv, PostTypeOK
  <1> QED
    BY <1>3, <1>4

\* The worker's steps before the message is in its box.
LEMMA WorkerInv ==
    ASSUME PostInv, NEW n \in Machine, WorkerP(n) \/ WorkerReceive(n) \/ PutAcquire(n)
    PROVE  PostInv'
  <1>0. /\ PostTypeOK /\ BoxesExact /\ \A m \in Machine : Sends(m) /\ Holds(m)
        /\ available[n] \in Nat
        /\ worker \in [Machine -> {"P", "awake", "put", "putting"}]
    BY DEF PostInv, PostTypeOK
  <1>1. UNCHANGED <<messages, listEmpty, boxOf, at, mail, sendLock, posted, sent, sendDue, sock>>
    BY DEF WorkerP, WorkerReceive, PutAcquire, networkVars, sendVars, boxVars, clientVars
  <1>2. BoxesExact' /\ \A m \in Machine : Sends(m)'
    BY <1>0, <1>1, BoxesFrame DEF Sends
  <1>3. CASE WorkerP(n)
    <2>1. /\ available[n] > 0 /\ available' = [available EXCEPT ![n] = @ - 1]
          /\ worker[n] = "P" /\ worker' = [worker EXCEPT ![n] = "awake"]
          /\ UNCHANGED <<inHdr, held>>
      BY <1>3 DEF WorkerP, Works, networkVars
    <2>2. available[n] - 1 \in Nat
      BY <1>0, <2>1
    <2>3. /\ available' \in [Machine -> Nat]
          /\ \A m \in Machine : available'[m] = IF m = n THEN available[n] - 1 ELSE available[m]
      BY <1>0, <2>1, <2>2, Excepted DEF PostTypeOK
    <2>4. \A m \in Machine : worker'[m] = IF m = n THEN "awake" ELSE worker[m]
      BY <1>0, <2>1
    <2>5. Holds(n)'
      BY <1>0, <2>1, <2>3, <2>4 DEF Holds
    <2>6. \A m \in Machine : Holds(m)'
      BY <1>0, <2>1, <2>3, <2>4, <2>5 DEF Holds
    <2> QED
      BY <1>0, <1>1, <1>2, <2>1, <2>3, <2>6 DEF PostInv, PostTypeOK
  <1>4. CASE WorkerReceive(n)
    <2>1. /\ worker[n] = "awake" /\ worker' = [worker EXCEPT ![n] = "put"]
          /\ held' = [held EXCEPT ![n] = inHdr[n]] /\ inHdr' = [inHdr EXCEPT ![n] = None]
          /\ UNCHANGED available
      BY <1>4 DEF WorkerReceive, Works
    <2>2. available[n] = 0 /\ inHdr[n] # None
      BY <1>0, <2>1 DEF Holds
    <2>3. \A m \in Machine : /\ worker'[m] = IF m = n THEN "put" ELSE worker[m]
                             /\ held'[m] = IF m = n THEN inHdr[n] ELSE held[m]
                             /\ inHdr'[m] = IF m = n THEN None ELSE inHdr[m]
      BY <1>0, <2>1 DEF PostTypeOK
    <2>4. Holds(n)'
      BY <2>1, <2>2, <2>3 DEF Holds
    <2>5. \A m \in Machine : Holds(m)'
      BY <1>0, <2>1, <2>3, <2>4 DEF Holds
    <2>6. PostTypeOK'
      BY <1>0, <1>1, <2>1 DEF PostTypeOK
    <2> QED
      BY <1>2, <2>5, <2>6 DEF PostInv
  <1>5. CASE PutAcquire(n)
    <2>1. /\ worker[n] = "put" /\ worker' = [worker EXCEPT ![n] = "putting"]
          /\ UNCHANGED <<inHdr, held, available>>
      BY <1>5 DEF PutAcquire, Works, networkVars
    <2>2. \A m \in Machine : worker'[m] = IF m = n THEN "putting" ELSE worker[m]
      BY <1>0, <2>1
    <2>3. \A m \in Machine : Holds(m)'
      BY <1>0, <2>1, <2>2 DEF Holds
    <2>4. PostTypeOK'
      BY <1>0, <1>1, <2>1 DEF PostTypeOK
    <2> QED
      BY <1>2, <2>3, <2>4 DEF PostInv
  <1> QED
    BY <1>3, <1>4, <1>5

\* A step that changes the queue of one box, and the places of those who were in it.
LEMMA BoxesChange ==
    ASSUME BoxesExact, NEW n \in Machine, NEW b \in Box,
           (messages \in [Machine -> [Box -> Seq(Mail)]])',
           (listEmpty \in [Machine -> [Box -> Seq(Client)]])',
           (boxOf \in [Client -> Box \cup {None}])',
           \A c \in Client : at'[c] \in BoxPoint => boxOf'[c] \in Box,
           \A m \in Machine, d \in Box : m # n \/ d # b => listEmpty'[m][d] = listEmpty[m][d],
           \A c \in Client : at[c] = "waiting" /\ (At[c] # n \/ boxOf[c] # b)
                                => at'[c] = "waiting" /\ boxOf'[c] = boxOf[c],
           Waits(n, b, listEmpty[n][b])'
    PROVE  BoxesExact'
  <1>1. ASSUME NEW m \in Machine, NEW d \in Box, m # n \/ d # b
        PROVE  Waits(m, d, listEmpty[m][d])'
    <2>1. Waits(m, d, listEmpty[m][d]) /\ listEmpty'[m][d] = listEmpty[m][d]
      BY <1>1 DEF BoxesExact
    <2>2. \A i \in 1..Len(listEmpty[m][d]) : listEmpty[m][d][i] \in Client
      BY <2>1, ElementOfSeq DEF Waits
    <2>3. \A i \in 1..Len(listEmpty[m][d]) :
              LET c == listEmpty[m][d][i]
              IN  c \in Client /\ at[c] = "waiting" /\ At[c] = m /\ boxOf[c] = d
      BY <2>1, <2>2 DEF Waits
    <2>4. \A i \in 1..Len(listEmpty[m][d]) :
              LET c == listEmpty[m][d][i]
              IN  at'[c] = "waiting" /\ At[c] = m /\ boxOf'[c] = d
      BY <1>1, <2>3
    <2> QED
      BY <2>1, <2>4 DEF Waits
  <1>2. ASSUME NEW m \in Machine, NEW d \in Box
        PROVE  Waits(m, d, listEmpty[m][d])'
    <2>1. CASE m = n /\ d = b
      BY <2>1
    <2>2. CASE m # n \/ d # b
      BY <1>1, <2>2
    <2> QED
      BY <2>1, <2>2
  <1> QED
    BY <1>2 DEF BoxesExact

\* MailBox::Put with its signal.
LEMMA PutInv ==
    ASSUME PostInv, NEW n \in Machine, Put(n)
    PROVE  PostInv'
  <1>a. held[n] \in Mail /\ held[n].box \in Box
    <2>1. held[n] # None
      BY DEF PostInv, Holds, Put, Works
    <2>2. held[n] \in Mail
      BY <2>1 DEF PostInv, PostTypeOK
    <2> QED
      BY <2>2 DEF Mail
  <1>b. PICK b \in Box : b = held[n].box
    BY <1>a
  <1> DEFINE queue == listEmpty[n][b]
  <1>0. /\ PostTypeOK /\ BoxesExact /\ \A m \in Machine : Sends(m) /\ Holds(m)
        /\ worker[n] = "putting" /\ worker' = [worker EXCEPT ![n] = "P"]
        /\ messages' = [messages EXCEPT ![n][b] = Append(@, held[n])]
        /\ held' = [held EXCEPT ![n] = None]
        /\ UNCHANGED <<available, sent, sendDue, sendLock, posted, sock, inHdr, boxOf, mail>>
    BY <1>b DEF PostInv, Put, Works, networkVars, sendVars
  <1>1. held[n] \in Mail /\ b \in Box
    BY <1>a
  <1>2. /\ messages \in [Machine -> [Box -> Seq(Mail)]]
        /\ listEmpty \in [Machine -> [Box -> Seq(Client)]]
        /\ boxOf \in [Client -> Box \cup {None}]
        /\ at \in [Client -> {"out"} \cup SendPoint \cup BoxPoint]
        /\ Waits(n, b, queue) /\ queue \in Seq(Client)
    BY <1>0, <1>1 DEF BoxesExact, PostTypeOK
  <1>3. messages' \in [Machine -> [Box -> Seq(Mail)]]
    <2>1. messages[n][b] \in Seq(Mail)
      BY <1>1, <1>2
    <2>2. Append(messages[n][b], held[n]) \in Seq(Mail)
      BY <1>1, <2>1, AppendProperties
    <2> QED
      BY <1>0, <1>1, <1>2, <2>2, ExceptedTwice
  <1>4. \A m \in Machine : Holds(m)'
    <2>1. \A m \in Machine : /\ worker'[m] = IF m = n THEN "P" ELSE worker[m]
                             /\ held'[m] = IF m = n THEN None ELSE held[m]
      BY <1>0 DEF PostTypeOK
    <2> QED
      BY <1>0, <2>1 DEF Holds
  <1>5. ASSUME /\ BoxesExact'
               /\ \A c \in Client : at'[c] = at[c] \/ (at[c] = "waiting" /\ at'[c] = "woken")
               /\ at' \in [Client -> {"out"} \cup SendPoint \cup BoxPoint]
        PROVE  PostInv'
    <2>1. \A m \in Machine : Sends(m)'
      BY <1>0, <1>5, SendsFrame DEF SendPoint
    <2>2. PostTypeOK'
      BY <1>0, <1>5 DEF PostTypeOK
    <2> QED
      BY <1>4, <1>5, <2>1, <2>2 DEF PostInv
  <1>6. CASE queue = <<>>
    <2>1. UNCHANGED <<listEmpty, at>>
      BY <1>6, <1>b DEF Put
    <2>2. BoxesExact'
      <3>1. Waits(n, b, listEmpty[n][b])'
        BY <1>0, <1>2, <2>1 DEF Waits
      <3>2. /\ (messages \in [Machine -> [Box -> Seq(Mail)]])'
            /\ (listEmpty \in [Machine -> [Box -> Seq(Client)]])'
            /\ (boxOf \in [Client -> Box \cup {None}])'
        BY <1>0, <1>2, <1>3, <2>1
      <3>3. \A c \in Client : at'[c] \in BoxPoint => boxOf'[c] \in Box
        BY <1>0, <2>1 DEF BoxesExact
      <3> QED
        BY <1>0, <2>1, <3>1, <3>2, <3>3, BoxesChange
    <2> QED
      BY <1>2, <1>5, <2>1, <2>2
  <1>7. CASE queue # <<>>
    <2>1. listEmpty' = [listEmpty EXCEPT ![n][b] = Tail(@)] /\ at' = [at EXCEPT ![Head(queue)] = "woken"]
      BY <1>7, <1>b DEF Put
    <2>2. /\ Tail(queue) \in Seq(Client) /\ Len(queue) \in Nat \ {0} /\ Len(Tail(queue)) = Len(queue) - 1
          /\ \A i \in 1..Len(Tail(queue)) : Tail(queue)[i] = queue[i + 1]
          /\ Head(queue) = queue[1] /\ queue[1] \in Client
          /\ \A i \in 1..Len(queue) : queue[i] \in Client
      BY <1>2, <1>7, HeadTailProperties, EmptySeq, ElementOfSeq
    <2>3. /\ \A i, j \in 1..Len(queue) : queue[i] = queue[j] => i = j
          /\ \A i \in 1..Len(queue) : at[queue[i]] = "waiting" /\ At[queue[i]] = n /\ boxOf[queue[i]] = b
      BY <1>2 DEF Waits
    <2>4. /\ listEmpty' \in [Machine -> [Box -> Seq(Client)]]
          /\ \A m \in Machine, d \in Box :
                listEmpty'[m][d] = IF m = n /\ d = b THEN Tail(queue) ELSE listEmpty[m][d]
      <3> DEFINE rest == Tail(queue)
                 queues == [listEmpty EXCEPT ![n][b] = rest]
      <3>1. listEmpty \in [Machine -> [Box -> Seq(Client)]] /\ rest \in Seq(Client) /\ n \in Machine /\ b \in Box
        BY <1>1, <1>2, <2>2
      <3>2. listEmpty' = queues
        BY <1>2, <2>1
      <3> HIDE DEF rest
      <3>3. /\ queues \in [Machine -> [Box -> Seq(Client)]]
            /\ \A m \in Machine, d \in Box : queues[m][d] = IF m = n /\ d = b THEN rest ELSE listEmpty[m][d]
        BY <3>1, ExceptedTwice
      <3> HIDE DEF queues
      <3> QED
        BY <3>2, <3>3 DEF rest
    <2>5. /\ \A c \in Client : at'[c] = IF c = queue[1] THEN "woken" ELSE at[c]
          /\ at' \in [Client -> {"out"} \cup SendPoint \cup BoxPoint]
      BY <1>2, <2>1, <2>2 DEF BoxPoint
    <2>6. at[queue[1]] = "waiting" /\ At[queue[1]] = n /\ boxOf[queue[1]] = b
      BY <2>2, <2>3
    <2>7. Waits(n, b, listEmpty[n][b])'
      <3>1. listEmpty'[n][b] = Tail(queue)
        BY <1>1, <2>4
      <3>2. \A i \in 1..Len(Tail(queue)) : i + 1 \in 1..Len(queue) /\ 1 \in 1..Len(queue) /\ i + 1 # 1
        BY <2>2
      <3>3. \A i, j \in 1..Len(Tail(queue)) : Tail(queue)[i] = Tail(queue)[j] => i = j
        BY <2>2, <2>3, <3>2
      <3>4. \A i \in 1..Len(Tail(queue)) : queue[i + 1] # queue[1] /\ queue[i + 1] \in Client
        BY <2>2, <2>3, <3>2
      <3>5. ASSUME NEW i \in 1..Len(Tail(queue))
            PROVE  /\ at'[Tail(queue)[i]] = "waiting" /\ At[Tail(queue)[i]] = n
                   /\ boxOf'[Tail(queue)[i]] = b
        <4>1. /\ Tail(queue)[i] = queue[i + 1] /\ queue[i + 1] # queue[1] /\ queue[i + 1] \in Client
              /\ i + 1 \in 1..Len(queue)
          BY <2>2, <3>2, <3>4
        <4>2. at[queue[i + 1]] = "waiting" /\ At[queue[i + 1]] = n /\ boxOf[queue[i + 1]] = b
          BY <2>3, <4>1
        <4> QED
          BY <1>0, <2>5, <4>1, <4>2
      <3> QED
        BY <2>2, <3>1, <3>3, <3>5 DEF Waits
    <2>8. BoxesExact'
      <3>1. \A c \in Client : at'[c] \in BoxPoint => boxOf'[c] \in Box
        BY <1>0, <1>1, <2>5, <2>6 DEF BoxesExact
      <3>2. \A c \in Client : at[c] = "waiting" /\ (At[c] # n \/ boxOf[c] # b)
                                 => at'[c] = "waiting" /\ boxOf'[c] = boxOf[c]
        BY <1>0, <2>5, <2>6
      <3>3. /\ (messages \in [Machine -> [Box -> Seq(Mail)]])'
            /\ (listEmpty \in [Machine -> [Box -> Seq(Client)]])'
            /\ (boxOf \in [Client -> Box \cup {None}])'
        BY <1>0, <1>2, <1>3, <2>4
      <3>4. \A m \in Machine, d \in Box : m # n \/ d # b => listEmpty'[m][d] = listEmpty[m][d]
        BY <2>4
      <3> QED
        BY <1>0, <2>7, <3>1, <3>2, <3>3, <3>4, BoxesChange
    <2> QED
      BY <1>5, <2>5, <2>6, <2>8
  <1> QED
    BY <1>6, <1>7

\* PostOffice::Receive, from its call to its return.
LEMMA ReceiveInv ==
    ASSUME PostInv, NEW c \in Client,
           ReceiveCall(c) \/ RemoveWait(c) \/ RemoveResume(c) \/ Remove(c) \/ ReceiveReturn(c)
    PROVE  PostInv'
  <1>0. /\ PostTypeOK /\ BoxesExact /\ \A m \in Machine : Sends(m) /\ Holds(m)
        /\ At[c] \in Machine
        /\ messages \in [Machine -> [Box -> Seq(Mail)]]
        /\ listEmpty \in [Machine -> [Box -> Seq(Client)]]
        /\ boxOf \in [Client -> Box \cup {None}]
        /\ at \in [Client -> {"out"} \cup SendPoint \cup BoxPoint]
        /\ mail \in [Client -> Mail \cup {None}]
    BY PostAssumption DEF PostInv, PostTypeOK, BoxesExact
  <1>1. UNCHANGED <<available, worker, held, sent, sendDue, sendLock, posted, sock, inHdr>>
    BY DEF ReceiveCall, RemoveWait, RemoveResume, Remove, ReceiveReturn, networkVars, sendVars, workerVars
  <1>2. PICK p \in {"out", "removing", "waiting", "received"} : at' = [at EXCEPT ![c] = p]
    BY DEF ReceiveCall, RemoveWait, RemoveResume, Remove, ReceiveReturn, Step
  <1>3. /\ at' \in [Client -> {"out"} \cup SendPoint \cup BoxPoint]
        /\ \A d \in Client : at'[d] = IF d = c THEN p ELSE at[d]
    BY <1>0, <1>2 DEF BoxPoint
  <1>4. at[c] \in {"out", "removing", "woken", "received"}
    BY DEF ReceiveCall, RemoveWait, RemoveResume, Remove, ReceiveReturn, Step
  <1>5. \A m \in Machine : Sends(m)' /\ Holds(m)'
    <2>1. \A m \in Machine : Holds(m)'
      BY <1>0, <1>1 DEF Holds
    <2>2. \A d \in Client : at[d] \in SendPoint \/ at'[d] \in SendPoint => at'[d] = at[d]
      BY <1>3, <1>4 DEF SendPoint
    <2>3. \A m \in Machine : Sends(m)'
      BY <1>0, <1>1, <2>2, SendsFrame
    <2> QED
      BY <2>1, <2>3
  <1>6. ASSUME BoxesExact', mail' \in [Client -> Mail \cup {None}]
        PROVE  PostInv'
    <2>1. PostTypeOK'
      BY <1>0, <1>1, <1>3, <1>6 DEF PostTypeOK
    <2> QED
      BY <1>5, <1>6, <2>1 DEF PostInv
  \* A step at one box that leaves its queue alone.
  <1>7. ASSUME UNCHANGED listEmpty, p # "waiting", boxOf' \in [Client -> Box \cup {None}],
               messages' \in [Machine -> [Box -> Seq(Mail)]],
               p \in BoxPoint => boxOf'[c] \in Box,
               \A d \in Client : d # c => boxOf'[d] = boxOf[d]
        PROVE  BoxesExact'
    <2>1. \A d \in Client : at'[d] \in BoxPoint => boxOf'[d] \in Box
      BY <1>0, <1>3, <1>7 DEF BoxesExact
    <2>2. \A d \in Client : at[d] = "waiting" => at'[d] = "waiting" /\ boxOf'[d] = boxOf[d]
      BY <1>3, <1>4, <1>7
    <2>3. ASSUME NEW m \in Machine, NEW b \in Box
          PROVE  Waits(m, b, listEmpty[m][b])'
      <3>1. Waits(m, b, listEmpty[m][b])
        BY <1>0 DEF BoxesExact
      <3>2. \A i \in 1..Len(listEmpty[m][b]) : listEmpty[m][b][i] \in Client
        BY <3>1, ElementOfSeq DEF Waits
      <3> QED
        BY <1>7, <2>2, <3>1, <3>2 DEF Waits
    <2> QED
      BY <1>0, <1>7, <2>1, <2>3 DEF BoxesExact
  <1>8. CASE ReceiveCall(c)
    <2>1. PICK b \in Box : boxOf' = [boxOf EXCEPT ![c] = b] /\ at' = [at EXCEPT ![c] = "removing"]
                           /\ UNCHANGED <<messages, listEmpty, mail>>
      BY <1>8 DEF ReceiveCall, Step
    <2>2. p = "removing"
      BY <1>0, <1>3, <2>1
    <2>3. BoxesExact'
      BY <1>0, <1>7, <2>1, <2>2
    <2> QED
      BY <1>0, <1>6, <2>1, <2>3
  <1>9. CASE RemoveWait(c)
    <2>1. PICK n \in Machine, b \in Box : n = At[c] /\ b = boxOf[c]
      BY <1>0, <1>9 DEF RemoveWait, Step, BoxesExact, BoxPoint
    <2> DEFINE queue == listEmpty[n][b]
    <2>2. /\ at[c] = "removing" /\ at' = [at EXCEPT ![c] = "waiting"]
          /\ listEmpty' = [listEmpty EXCEPT ![n][b] = Append(@, c)]
          /\ UNCHANGED <<messages, boxOf, mail>>
      BY <1>9, <2>1 DEF RemoveWait, Step
    <2>3. p = "waiting"
      BY <1>0, <1>3, <2>2
    <2>4. queue \in Seq(Client) /\ Waits(n, b, queue) /\ Len(queue) \in Nat
      BY <1>0, LenProperties DEF BoxesExact
    <2>5. /\ Append(queue, c) \in Seq(Client) /\ Len(Append(queue, c)) = Len(queue) + 1
          /\ \A i \in 1..Len(queue) : Append(queue, c)[i] = queue[i]
          /\ Append(queue, c)[Len(queue) + 1] = c
      BY <2>4, AppendProperties
    <2>6. /\ listEmpty' \in [Machine -> [Box -> Seq(Client)]]
          /\ \A m \in Machine, d \in Box :
                listEmpty'[m][d] = IF m = n /\ d = b THEN Append(queue, c) ELSE listEmpty[m][d]
      <3>1. listEmpty' = [listEmpty EXCEPT ![n][b] = Append(queue, c)]
        BY <2>2
      <3>2. listEmpty \in [Machine -> [Box -> Seq(Client)]] /\ Append(queue, c) \in Seq(Client)
        BY <1>0, <2>5
      <3> HIDE DEF queue
      <3> QED
        BY <3>1, <3>2, ExceptedTwice
    <2>7. Waits(n, b, listEmpty[n][b])'
      <3>1. \A i \in 1..Len(Append(queue, c)) : i \in 1..Len(queue) \/ i = Len(queue) + 1
        BY <2>4, <2>5
      <3>2. \A i \in 1..Len(queue) : /\ queue[i] \in Client /\ queue[i] # c /\ at[queue[i]] = "waiting"
                                 /\ At[queue[i]] = n /\ boxOf[queue[i]] = b
        BY <2>2, <2>4, ElementOfSeq DEF Waits
      <3>3. \A i, j \in 1..Len(queue) : queue[i] = queue[j] => i = j
        BY <2>4 DEF Waits
      <3>4. \A i, j \in 1..Len(Append(queue, c)) : Append(queue, c)[i] = Append(queue, c)[j] => i = j
        BY <2>5, <3>1, <3>2, <3>3
      <3>5. ASSUME NEW i \in 1..Len(Append(queue, c))
            PROVE  /\ at'[Append(queue, c)[i]] = "waiting" /\ At[Append(queue, c)[i]] = n
                   /\ boxOf'[Append(queue, c)[i]] = b
        <4>1. CASE i \in 1..Len(queue)
          BY <1>3, <2>2, <2>5, <3>2, <4>1
        <4>2. CASE i = Len(queue) + 1
          BY <1>3, <2>1, <2>2, <2>3, <2>5, <4>2
        <4> QED
          BY <3>1, <4>1, <4>2
      <3>6. listEmpty'[n][b] = Append(queue, c)
        BY <2>6
      <3> QED
        BY <2>5, <3>4, <3>5, <3>6 DEF Waits
    <2>8. BoxesExact'
      <3>1. \A d \in Client : at'[d] \in BoxPoint => boxOf'[d] \in Box
        BY <1>0, <1>3, <2>1, <2>2 DEF BoxesExact
      <3>2. \A d \in Client : at[d] = "waiting" => at'[d] = "waiting" /\ boxOf'[d] = boxOf[d]
        BY <1>3, <2>2
      <3>3. /\ (messages \in [Machine -> [Box -> Seq(Mail)]])'
            /\ (listEmpty \in [Machine -> [Box -> Seq(Client)]])'
            /\ (boxOf \in [Client -> Box \cup {None}])'
        BY <1>0, <2>2, <2>6
      <3>4. \A m \in Machine, d \in Box : m # n \/ d # b => listEmpty'[m][d] = listEmpty[m][d]
        BY <2>6
      <3> QED
        BY <1>0, <2>7, <3>1, <3>2, <3>3, <3>4, BoxesChange
    <2> QED
      BY <1>0, <1>6, <2>2, <2>8
  <1>10. CASE RemoveResume(c)
    <2>1. /\ at[c] = "woken" /\ at' = [at EXCEPT ![c] = "removing"]
          /\ UNCHANGED <<messages, listEmpty, boxOf, mail>>
      BY <1>10 DEF RemoveResume, Step
    <2>2. p = "removing"
      BY <1>0, <1>3, <2>1
    <2>3. boxOf[c] \in Box
      BY <1>0, <2>1 DEF BoxesExact, BoxPoint
    <2>4. BoxesExact'
      BY <1>0, <1>7, <2>1, <2>2, <2>3
    <2> QED
      BY <1>0, <1>6, <2>1, <2>4
  <1>11. CASE Remove(c)
    <2>1. PICK n \in Machine, b \in Box : n = At[c] /\ b = boxOf[c]
      BY <1>0, <1>11 DEF Remove, Step, BoxesExact, BoxPoint
    <2>2. /\ at[c] = "removing" /\ at' = [at EXCEPT ![c] = "received"]
          /\ messages[n][b] # <<>> /\ messages' = [messages EXCEPT ![n][b] = Tail(@)]
          /\ mail' = [mail EXCEPT ![c] = Head(messages[n][b])]
          /\ UNCHANGED <<listEmpty, boxOf>>
      BY <1>11, <2>1 DEF Remove, Step
    <2>3. p = "received"
      BY <1>0, <1>3, <2>2
    <2>4. messages[n][b] \in Seq(Mail)
      BY <1>0
    <2>5. Tail(messages[n][b]) \in Seq(Mail) /\ Head(messages[n][b]) \in Mail
      BY <2>2, <2>4, HeadTailProperties
    <2>6. messages' \in [Machine -> [Box -> Seq(Mail)]]
      BY <1>0, <2>2, <2>5, ExceptedTwice
    <2>7. BoxesExact'
      BY <1>0, <1>7, <2>1, <2>2, <2>3, <2>6
    <2> QED
      BY <1>0, <1>6, <2>2, <2>5, <2>7
  <1>12. CASE ReceiveReturn(c)
    <2>1. /\ at' = [at EXCEPT ![c] = "out"] /\ boxOf' = [boxOf EXCEPT ![c] = None]
          /\ mail' = [mail EXCEPT ![c] = None] /\ UNCHANGED <<messages, listEmpty>>
      BY <1>12 DEF ReceiveReturn, Step, boxVars
    <2>2. p = "out"
      BY <1>0, <1>3, <2>1
    <2>3. BoxesExact'
      BY <1>0, <1>7, <2>1, <2>2 DEF BoxPoint
    <2> QED
      BY <1>0, <1>6, <2>1, <2>3
  <1> QED
    BY <1>8, <1>9, <1>10, <1>11, <1>12

\* Every step keeps the invariant.
LEMMA NextPost == PostInv /\ [PostOfficeNext]_postOfficeVars => PostInv'
  <1> SUFFICES ASSUME PostInv, [PostOfficeNext]_postOfficeVars PROVE PostInv'
    OBVIOUS
  <1>1. CASE UNCHANGED postOfficeVars
    <2>1. /\ UNCHANGED <<messages, listEmpty, boxOf, at, mail>>
          /\ UNCHANGED <<available, worker, held, sent, sendDue, sendLock, posted, sock, inHdr>>
      BY <1>1 DEF postOfficeVars, networkVars, sendVars, boxVars, workerVars, clientVars
    <2>2. BoxesExact'
      BY <2>1, BoxesFrame DEF PostInv
    <2>3. PostTypeOK' /\ \A m \in Machine : Sends(m)' /\ Holds(m)'
      BY <2>1 DEF PostInv, PostTypeOK, Sends, Holds
    <2> QED
      BY <2>2, <2>3 DEF PostInv
  <1>2. CASE \E m \in Machine : SendDone(m) \/ CheckPktAvail(m) \/ PostalDelivery(m)
    BY <1>2, NetworkInv, WorkerInv, PutInv DEF PostalDelivery
  <1>3. CASE \E c \in Client : SendCall(c) \/ ReceiveCall(c) \/ Continue(c)
    BY <1>3, SendInv, ReceiveInv DEF Continue
  <1> QED
    BY <1>1, <1>2, <1>3 DEF PostOfficeNext

\* At the start nothing is sent and nobody waits.
LEMMA InitPost == PostOfficeInit => PostInv
  <1> SUFFICES ASSUME PostOfficeInit PROVE PostInv
    OBVIOUS
  <1> DEFINE none == <<>>
  <1>1. none \in Seq(Mail) /\ none \in Seq(Client) /\ Len(none) = 0
    BY EmptySeq
  <1>2. /\ sock = [m \in Machine |-> none]
        /\ messages = [m \in Machine |-> [b \in Box |-> none]]
        /\ listEmpty = [m \in Machine |-> [b \in Box |-> none]]
    BY DEF PostOfficeInit
  <1> HIDE DEF none
  <1>3. PostTypeOK
    <2>1. 0 \in 0..MaxMail
      BY PostAssumption
    <2> QED
      BY <1>1, <1>2, <2>1 DEF PostOfficeInit, PostTypeOK
  <1>4. \A m \in Machine : Sends(m) /\ Holds(m)
    BY DEF PostOfficeInit, Sends, Holds, SendPoint
  <1>5. BoxesExact
    BY <1>1, <1>2 DEF PostOfficeInit, BoxesExact, Waits, BoxPoint
  <1> QED
    BY <1>3, <1>4, <1>5 DEF PostInv

(***************************************************************************)
(* On every machine, for any number of machines, boxes and threads, one    *)
(* message is under way to the network at a time and its sender is the one *)
(* thread that waits for its interrupt; and messageAvailable counts the    *)
(* buffered packet exactly, so that Receive never finds none.              *)
(***************************************************************************)
THEOREM OnePacketAtATime == PostSpec => []OnePacket
  <1>1. PostInv => OnePacket
    <2> SUFFICES ASSUME PostInv, NEW m \in Machine
                 PROVE  /\ sent[m] + sendDue[m]
                             = Cardinality({c \in Client : At[c] = m /\ at[c] = "asleep"})
                        /\ sendDue[m] <= 1
                        /\ available[m] + (IF worker[m] = "awake" THEN 1 ELSE 0)
                             = IF inHdr[m] = None THEN 0 ELSE 1
      BY DEF OnePacket
    <2>1. Sends(m) /\ Holds(m) /\ sent[m] \in Nat /\ sendDue[m] \in Nat
      BY DEF PostInv, PostTypeOK
    <2> DEFINE S == {c \in Client : At[c] = m /\ at[c] = "asleep"}
    <2>2. CASE S = {}
      <3>1. Cardinality(S) = 0
        BY <2>2, FS_EmptySet
      <3>2. sent[m] + sendDue[m] = 0
        BY <2>1, <2>2 DEF Sends
      <3> QED
        BY <2>1, <3>1, <3>2 DEF Holds
    <2>3. CASE S # {}
      <3>1. PICK c \in S : TRUE
        BY <2>3
      <3>2. \A d \in S : d = c
        BY <2>1, <3>1 DEF Sends, SendPoint
      <3>3. S = {c}
        BY <3>1, <3>2
      <3>4. Cardinality(S) = 1
        BY <3>3, FS_Singleton
      <3>5. sent[m] + sendDue[m] = 1
        BY <2>1, <3>1 DEF Sends
      <3> QED
        BY <2>1, <3>4, <3>5 DEF Holds
    <2> QED
      BY <2>2, <2>3
  <1> QED
    BY <1>1, InitPost, NextPost, PTL DEF PostSpec

-----------------------------------------------------------------------------
(***************************************************************************)
(* The mail on its way to a machine is what the worker holds, what the     *)
(* network has buffered and what is in the socket, in this order.          *)
(***************************************************************************)
Transit(h, i, s) == Maybe(h) \o Maybe(i) \o s

\* A packet or none, as a sequence.
LEMMA MaybeSeq ==
    ASSUME NEW h \in Mail \cup {None}
    PROVE  Maybe(h) \in Seq(Mail) /\ Maybe(None) = <<>>
  <1>1. h \in Mail => <<h>> \in Seq(Mail)
    OBVIOUS
  <1> QED
    BY <1>1, EmptySeq DEF Maybe

\* Mail that is sent comes last.
LEMMA TransitAppend ==
    ASSUME NEW h \in Mail \cup {None}, NEW i \in Mail \cup {None}, NEW s \in Seq(Mail), NEW x \in Mail
    PROVE  Transit(h, i, Append(s, x)) = Append(Transit(h, i, s), x)
  <1> DEFINE k == Maybe(h) \o Maybe(i)
             e == <<x>>
  <1>1. k \in Seq(Mail) /\ e \in Seq(Mail)
    BY MaybeSeq, ConcatProperties
  <1>2. Append(s, x) = s \o e /\ k \o s \in Seq(Mail)
    BY <1>1, AppendIsConcat, ConcatProperties
  <1>3. Append(k \o s, x) = (k \o s) \o e
    BY <1>2, AppendIsConcat
  <1>4. (k \o s) \o e = k \o (s \o e)
    BY <1>1, ConcatAssociative
  <1> QED
    BY <1>2, <1>3, <1>4 DEF Transit

\* The network reads a packet from its socket.
LEMMA TransitShift ==
    ASSUME NEW h \in Mail \cup {None}, NEW s \in Seq(Mail), s # <<>>
    PROVE  Transit(h, Head(s), Tail(s)) = Transit(h, None, s)
  <1> DEFINE k == Maybe(h)
             e == <<Head(s)>>
  <1>1. Head(s) \in Mail /\ Tail(s) \in Seq(Mail) /\ k \in Seq(Mail) /\ e \in Seq(Mail)
    BY MaybeSeq, HeadTailProperties
  <1>2. s = e \o Tail(s)
    OBVIOUS
  <1>3. Maybe(Head(s)) = e /\ k \o Maybe(None) = k
    BY <1>1, MaybeSeq, NoneAssumption, ConcatEmptySeq DEF Maybe
  <1>4. (k \o e) \o Tail(s) = k \o (e \o Tail(s))
    BY <1>1, ConcatAssociative
  <1> QED
    BY <1>2, <1>3, <1>4 DEF Transit

\* The worker takes the buffered packet.
LEMMA TransitHold ==
    ASSUME NEW i \in Mail \cup {None}, NEW s \in Seq(Mail)
    PROVE  Transit(i, None, s) = Transit(None, i, s)
  <1>1. Maybe(i) \in Seq(Mail) /\ Maybe(None) = <<>>
    BY MaybeSeq
  <1>2. Maybe(i) \o <<>> = Maybe(i) /\ <<>> \o Maybe(i) = Maybe(i)
    BY <1>1, ConcatEmptySeq
  <1> QED
    BY <1>1, <1>2 DEF Transit

\* The packet that the worker holds is the first.
LEMMA TransitOut ==
    ASSUME NEW h \in Mail, NEW i \in Mail \cup {None}, NEW s \in Seq(Mail)
    PROVE  /\ Transit(h, i, s) # <<>> /\ Head(Transit(h, i, s)) = h
           /\ Tail(Transit(h, i, s)) = Transit(None, i, s)
  <1> DEFINE r == Maybe(i) \o s
             e == <<h>>
  <1>1. /\ Maybe(h) = e /\ e \in Seq(Mail) /\ Maybe(i) \in Seq(Mail) /\ Maybe(None) = <<>>
    BY MaybeSeq, NoneAssumption DEF Maybe
  <1>2. r \in Seq(Mail)
    BY <1>1, ConcatProperties
  <1>3. Transit(h, i, s) = e \o r
    BY <1>1, ConcatAssociative DEF Transit
  <1>4. Transit(None, i, s) = r
    BY <1>1, ConcatEmptySeq DEF Transit
  <1>5. e \o r # <<>> /\ Head(e \o r) = h /\ Tail(e \o r) = r
    <2> HIDE DEF r
    <2> QED
      BY <1>2
  <1> QED
    BY <1>3, <1>4, <1>5

Way == [m \in Machine |-> Transit(held[m], inHdr[m], sock[m])]

\* A step at one machine changes what is on its way there.
LEMMA WayStep ==
    ASSUME NEW n \in Machine,
           \A m \in Machine : m # n => /\ held'[m] = held[m] /\ inHdr'[m] = inHdr[m]
                                       /\ sock'[m] = sock[m]
    PROVE  /\ Way' = [Way EXCEPT ![n] = Transit(held'[n], inHdr'[n], sock'[n])]
           /\ Transit(held'[n], inHdr'[n], sock'[n]) = Transit(held[n], inHdr[n], sock[n])
                 => Way' = Way
  BY DEF Way

\* Send is Post, or the mail is lost.
LEMMA SendMaps ==
    ASSUME PostInv, NEW c \in Client, Send(c)
    PROVE  [PO!Next]_(PO!postVars)
  <1>0. /\ PostTypeOK /\ MaxMail \in Nat
        /\ UNCHANGED <<held, inHdr, messages, mail>>
    BY PostAssumption DEF PostInv, Send, boxVars, workerVars
  <1>1. posted' \in 1..MaxMail
    BY <1>0 DEF Send, PostTypeOK
  <1>2. PICK n \in Machine, b \in Box :
           \/ sock' = [sock EXCEPT ![n] = Append(@, [to |-> n, box |-> b, id |-> posted'])]
           \/ UNCHANGED sock
    BY DEF Send
  <1>3. PICK x \in Mail : x = [to |-> n, box |-> b, id |-> posted']
    BY <1>1 DEF Mail
  <1>4. CASE UNCHANGED sock
    BY <1>0, <1>4 DEF PO!postVars
  <1>5. CASE sock' = [sock EXCEPT ![n] = Append(@, x)]
    <2>1. /\ \A m \in Machine : sock'[m] = IF m = n THEN Append(sock[n], x) ELSE sock[m]
          /\ sock[n] \in Seq(Mail) /\ held[n] \in Mail \cup {None} /\ inHdr[n] \in Mail \cup {None}
      BY <1>0, <1>5 DEF PostTypeOK
    <2>2. Transit(held'[n], inHdr'[n], sock'[n]) = Append(Transit(held[n], inHdr[n], sock[n]), x)
      <3>1. sock'[n] = Append(sock[n], x) /\ held'[n] = held[n] /\ inHdr'[n] = inHdr[n]
        BY <1>0, <2>1
      <3>2. Transit(held[n], inHdr[n], Append(sock[n], x)) = Append(Transit(held[n], inHdr[n], sock[n]), x)
        BY <2>1, TransitAppend
      <3> QED
        BY <3>1, <3>2
    <2>3. Way' = [Way EXCEPT ![n] = Append(@, x)]
      BY <1>0, <2>1, <2>2, WayStep DEF Way
    <2>4. x.to = n
      BY <1>3
    <2>5. PO!Post(x)
      BY <1>0, <2>3, <2>4 DEF PO!Post, Way, Transit
    <2> QED
      BY <2>5 DEF PO!Next
  <1> QED
    BY <1>2, <1>3, <1>4, <1>5

\* The network and the worker move mail along; Put delivers it.
LEMMA DeliveryMaps ==
    ASSUME PostInv, PostInv', NEW n \in Machine,
           CheckPktAvail(n) \/ PostalDelivery(n)
    PROVE  [PO!Next]_(PO!postVars)
  <1>0. /\ PostTypeOK /\ Holds(n) /\ UNCHANGED mail
        /\ sock[n] \in Seq(Mail) /\ held[n] \in Mail \cup {None} /\ inHdr[n] \in Mail \cup {None}
        /\ sock \in [Machine -> Seq(Mail)] /\ held \in [Machine -> Mail \cup {None}]
        /\ inHdr \in [Machine -> Mail \cup {None}]
    BY DEF PostInv, PostTypeOK, CheckPktAvail, PostalDelivery, WorkerP, WorkerReceive, PutAcquire, Put,
           clientVars
  <1>1. CASE CheckPktAvail(n)
    <2>1. /\ inHdr[n] = None /\ sock[n] # <<>> /\ sock' = [sock EXCEPT ![n] = Tail(@)]
          /\ inHdr' = [inHdr EXCEPT ![n] = Head(sock[n])] /\ UNCHANGED <<held, messages>>
      BY <1>1 DEF CheckPktAvail, boxVars
    <2>2. /\ sock'[n] = Tail(sock[n]) /\ inHdr'[n] = Head(sock[n])
          /\ \A m \in Machine : m # n => sock'[m] = sock[m] /\ inHdr'[m] = inHdr[m]
      BY <1>0, <2>1
    <2>3. Transit(held'[n], inHdr'[n], sock'[n]) = Transit(held[n], inHdr[n], sock[n])
      BY <1>0, <2>1, <2>2, TransitShift
    <2>4. Way' = Way
      BY <2>1, <2>2, <2>3, WayStep
    <2> QED
      BY <1>0, <2>1, <2>4 DEF PO!postVars, Way, Transit
  <1>2. CASE WorkerReceive(n)
    <2>1. /\ worker[n] = "awake" /\ held' = [held EXCEPT ![n] = inHdr[n]]
          /\ inHdr' = [inHdr EXCEPT ![n] = None] /\ UNCHANGED <<sock, messages>>
      BY <1>2 DEF WorkerReceive, Works, boxVars
    <2>2. /\ held'[n] = inHdr[n] /\ inHdr'[n] = None
          /\ \A m \in Machine : m # n => held'[m] = held[m] /\ inHdr'[m] = inHdr[m]
      BY <1>0, <2>1
    <2>3. held[n] = None
      BY <1>0, <2>1 DEF Holds
    <2>4. Transit(held'[n], inHdr'[n], sock'[n]) = Transit(held[n], inHdr[n], sock[n])
      BY <1>0, <2>1, <2>2, <2>3, TransitHold
    <2>5. Way' = Way
      BY <2>1, <2>2, <2>4, WayStep
    <2> QED
      BY <1>0, <2>1, <2>5 DEF PO!postVars, Way, Transit
  <1>3. CASE WorkerP(n) \/ PutAcquire(n)
    <2>1. UNCHANGED <<sock, held, inHdr, messages>>
      BY <1>3 DEF WorkerP, PutAcquire, networkVars, boxVars
    <2> QED
      BY <1>0, <2>1 DEF PO!postVars
  <1>4. CASE Put(n)
    <2>1. /\ worker[n] = "putting" /\ held' = [held EXCEPT ![n] = None]
          /\ messages' = [messages EXCEPT ![n][held[n].box] = Append(@, held[n])]
          /\ UNCHANGED <<sock, inHdr>>
      BY <1>4 DEF Put, Works, networkVars
    <2>2. held[n] \in Mail
      BY <1>0, <2>1 DEF Holds
    <2>3. held'[n] = None /\ \A m \in Machine : m # n => held'[m] = held[m]
      BY <1>0, <2>1
    <2>4. /\ Transit(held[n], inHdr[n], sock[n]) # <<>>
          /\ Head(Transit(held[n], inHdr[n], sock[n])) = held[n]
          /\ Transit(held'[n], inHdr'[n], sock'[n]) = Tail(Transit(held[n], inHdr[n], sock[n]))
      BY <1>0, <2>1, <2>2, <2>3, TransitOut
    <2>5. Way' = [Way EXCEPT ![n] = Tail(@)]
      BY <2>1, <2>3, <2>4, WayStep DEF Way
    <2>6. Way[n] = Transit(held[n], inHdr[n], sock[n])
      BY DEF Way
    <2>7. PO!Deliver(n)
      <3>1. Way[n] # <<>> /\ Head(Way[n]) = held[n]
        BY <2>4, <2>6
      <3>2. messages' = [messages EXCEPT ![n][Head(Way[n]).box] = Append(@, Head(Way[n]))]
        BY <2>1, <3>1
      <3> QED
        BY <1>0, <2>5, <3>1, <3>2 DEF PO!Deliver, Way, Transit
    <2> QED
      BY <2>7 DEF PO!Next
  <1> QED
    BY <1>1, <1>2, <1>3, <1>4 DEF PostalDelivery

\* Remove takes the first message of the box, and Receive returns it.
LEMMA ReceiveMaps ==
    ASSUME PostInv, NEW c \in Client, Remove(c) \/ ReceiveReturn(c)
    PROVE  [PO!Next]_(PO!postVars)
  <1>0. UNCHANGED <<sock, held, inHdr>>
    BY DEF Remove, ReceiveReturn, networkVars, workerVars
  <1>1. CASE Remove(c)
    <2>1. boxOf[c] \in Box
      BY <1>1 DEF PostInv, BoxesExact, Remove, Step, BoxPoint
    <2>2. PO!Take(c, boxOf[c])
      BY <1>0, <1>1 DEF Remove, PO!Take
    <2> QED
      BY <2>1, <2>2 DEF PO!Next
  <1>2. CASE ReceiveReturn(c)
    <2>1. PO!Return(c)
      BY <1>0, <1>2 DEF ReceiveReturn, boxVars, PO!Return
    <2> QED
      BY <2>1 DEF PO!Next
  <1> QED
    BY <1>1, <1>2

\* Every step of the post offices is one of Post, or none.
LEMMA NextPostMaps ==
    PostInv /\ PostInv' /\ [PostOfficeNext]_postOfficeVars => [PO!Next]_(PO!postVars)
  <1> SUFFICES ASSUME PostInv, PostInv', [PostOfficeNext]_postOfficeVars
               PROVE  [PO!Next]_(PO!postVars)
    OBVIOUS
  <1>1. CASE UNCHANGED <<sock, held, inHdr, messages, mail>>
    BY <1>1 DEF PO!postVars
  <1>2. CASE UNCHANGED postOfficeVars
    BY <1>1, <1>2 DEF postOfficeVars, networkVars, boxVars, workerVars, clientVars
  <1>3. ASSUME NEW m \in Machine, SendDone(m) PROVE [PO!Next]_(PO!postVars)
    BY <1>1, <1>3 DEF SendDone, boxVars, workerVars, clientVars
  <1>4. ASSUME NEW m \in Machine, CheckPktAvail(m) \/ PostalDelivery(m) PROVE [PO!Next]_(PO!postVars)
    BY <1>4, DeliveryMaps
  <1>5. ASSUME NEW c \in Client,
               \/ SendCall(c) \/ SendResume(c) \/ SendReturn(c)
               \/ ReceiveCall(c) \/ RemoveWait(c) \/ RemoveResume(c)
        PROVE  [PO!Next]_(PO!postVars)
    BY <1>1, <1>5 DEF SendCall, SendResume, SendReturn, ReceiveCall, RemoveWait, RemoveResume,
                      networkVars, boxVars, workerVars
  <1>6. ASSUME NEW c \in Client, Send(c) PROVE [PO!Next]_(PO!postVars)
    BY <1>6, SendMaps
  <1>7. ASSUME NEW c \in Client, Remove(c) \/ ReceiveReturn(c) PROVE [PO!Next]_(PO!postVars)
    BY <1>7, ReceiveMaps
  <1> QED
    BY <1>2, <1>3, <1>4, <1>5, <1>6, <1>7 DEF PostOfficeNext, Continue

\* At the start no mail is anywhere.
LEMMA InitPostMaps == PostOfficeInit => PO!Init
  <1> SUFFICES ASSUME PostOfficeInit PROVE PO!Init
    OBVIOUS
  <1> DEFINE none == <<>>
  <1>1. none \o none = none /\ none \in Seq(Mail)
    BY EmptySeq, ConcatEmptySeq
  <1>2. Maybe(None) = none /\ sock = [m \in Machine |-> none]
    BY DEF Maybe, PostOfficeInit
  <1>3. [m \in Machine |-> Maybe(held[m]) \o Maybe(inHdr[m]) \o sock[m]] = [m \in Machine |-> none]
    <2> HIDE DEF none
    <2> QED
      BY <1>1, <1>2 DEF PostOfficeInit
  <1> QED
    BY <1>3 DEF PostOfficeInit, PO!Init

(***************************************************************************)
(* The post offices and the network keep the promise of post.h: mail may   *)
(* be lost on its way, but what comes, comes whole and in the order in     *)
(* which it was sent, and to the box it was for, once.                     *)
(***************************************************************************)
THEOREM PostImplemented == PostSpec => ImplementsPost
  <1>1. PostSpec => []PostInv
    BY InitPost, NextPost, PTL DEF PostSpec
  <1> QED
    BY <1>1, InitPostMaps, NextPostMaps, PTL DEF PostSpec, ImplementsPost, PO!Spec

-----------------------------------------------------------------------------
(* Words.                                                                  *)

\* A set of natural numbers has a least element.
LEMMA LeastOf ==
    ASSUME NEW T \in SUBSET Nat, T # {}
    PROVE  \E x \in T : \A y \in T : x <= y
  <1>1. PICK r : r = OpToRel(<, Nat)
    OBVIOUS
  <1>2. IsWellFoundedOn(r, Nat)
    BY <1>1, NatLessThanWellFounded, Zenon
  <1>3. PICK x \in T : \A y \in T : ~(<<y, x>> \in r)
    BY <1>2, WFMin
  <1>4. \A y \in Nat, z \in Nat : y < z => <<y, z>> \in r
    <2>1. r = {ss \in Nat \X Nat : ss[1] < ss[2]}
      BY <1>1, Zenon DEF OpToRel
    <2> QED
      BY <2>1
  <1>5. x \in Nat /\ \A y \in T : y \in Nat /\ ~(y < x)
    BY <1>3, <1>4
  <1> QED
    BY <1>3, <1>5

\* What holds of 0 and goes from each number to the next holds up to N.
LEMMA UpTo ==
    ASSUME NEW N \in Nat, NEW S, 0 \in S, \A n \in 1..N : n - 1 \in S => n \in S
    PROVE  0..N \subseteq S
  <1> DEFINE T == 0..N \ S
  <1>1. CASE T = {}
    BY <1>1
  <1>2. CASE T # {}
    <2>1. PICK x \in T : \A y \in T : x <= y
      <3>1. T \in SUBSET Nat
        OBVIOUS
      <3> HIDE DEF T
      <3> QED
        BY <1>2, <3>1, LeastOf
    <2>2. x \in 1..N /\ x - 1 \in 0..N /\ ~(x <= x - 1)
      BY <2>1
    <2>3. x - 1 \in S
      BY <2>1, <2>2
    <2> QED
      BY <2>1, <2>2, <2>3
  <1> QED
    BY <1>1, <1>2

\* f starts with "first" and Onto[n] leads from each value to the n-th.
Recurs(f, N, first, Onto) == f = [n \in 0..N |-> IF n = 0 THEN first ELSE Onto[n][f[n - 1]]]

\* A function that says how each value comes from the one before it exists.
LEMMA Recursion ==
    ASSUME NEW N \in Nat, NEW V, NEW first \in V, NEW Onto \in [1..N -> [V -> V]]
    PROVE  \E f \in [0..N -> V] : Recurs(f, N, first, Onto)
  <1> DEFINE Is(f, k) == f \in [0..k -> V] /\ f[0] = first /\ \A n \in 1..k : f[n] = Onto[n][f[n - 1]]
             S == {k \in 0..N : \E f : Is(f, k)}
  <1>1. 0 \in S
    <2>1. Is([n \in 0..0 |-> first], 0)
      OBVIOUS
    <2>2. \E f : Is(f, 0)
      BY <2>1
    <2>3. 0 \in 0..N
      OBVIOUS
    <2> HIDE DEF Is
    <2> QED
      BY <2>2, <2>3
  <1>2. \A k \in 1..N : k - 1 \in S => k \in S
    <2>1. TAKE k \in 1..N
    <2>2. HAVE k - 1 \in S
    <2>3. PICK f : Is(f, k - 1)
      BY <2>2
    <2> DEFINE g == [n \in 0..k |-> IF n = k THEN Onto[k][f[k - 1]] ELSE f[n]]
    <2>4. Onto[k] \in [V -> V] /\ k - 1 \in 0..(k - 1)
      BY <2>1
    <2>5. \A n \in 0..k : n # k => n \in 0..(k - 1)
      BY <2>1
    <2>6. Onto[k][f[k - 1]] \in V /\ \A n \in 0..(k - 1) : f[n] \in V
      BY <2>3, <2>4
    <2>7. g \in [0..k -> V]
      BY <2>5, <2>6
    <2>8. \A n \in 1..(k - 1) : n \in 0..k /\ n # k /\ n - 1 \in 0..k /\ n - 1 # k
      BY <2>1
    <2>9. \A n \in 1..(k - 1) : g[n] = f[n] /\ g[n - 1] = f[n - 1]
      BY <2>8
    <2>10. g[k] = Onto[k][f[k - 1]] /\ g[k - 1] = f[k - 1] /\ g[0] = f[0]
      BY <2>1
    <2>11. \A n \in 1..k : g[n] = Onto[n][g[n - 1]]
      <3>1. TAKE n \in 1..k
      <3>2. CASE n = k
        BY <3>2, <2>10
      <3>3. CASE n # k
        <4>1. n \in 1..(k - 1)
          BY <3>3, <2>1
        <4> QED
          BY <4>1, <2>9, <2>3
      <3> QED
        BY <3>2, <3>3
    <2>12. Is(g, k)
      BY <2>7, <2>10, <2>11, <2>3
    <2> HIDE DEF Is, g
    <2>13. \E h : Is(h, k)
      BY <2>12
    <2> QED
      BY <2>13, <2>1
  <1> HIDE DEF S
  <1>3. N \in S
    <2>1. 0..N \subseteq S
      BY <1>1, <1>2, UpTo, Zenon
    <2> QED
      BY <2>1
  <1>4. PICK f : Is(f, N)
    BY <1>3 DEF S
  <1>5. \A n \in 0..N : n # 0 => n \in 1..N
    OBVIOUS
  <1>6. f = [n \in 0..N |-> IF n = 0 THEN first ELSE Onto[n][f[n - 1]]]
    <2>1. f = [n \in 0..N |-> f[n]]
      BY <1>4
    <2>2. \A n \in 0..N : f[n] = IF n = 0 THEN first ELSE Onto[n][f[n - 1]]
      BY <1>4, <1>5
    <2> QED
      BY <2>1, <2>2
  <1> QED
    BY <1>4, <1>6 DEF Recurs

\* The powers of two.
LEMMA TwoToIs ==
    /\ TwoTo[0] = 1
    /\ \A n \in 0..WordBits : TwoTo[n] \in Nat /\ TwoTo[n] > 0
    /\ \A n \in 1..WordBits : TwoTo[n] = 2 * TwoTo[n - 1]
  <1> DEFINE V == Nat \ {0}
             one == 1
             Onto == [n \in 1..WordBits |-> [v \in V |-> 2 * v]]
  <1>0. WordBits \in Nat
    BY ByteBitsAssumption DEF WordBits
  <1>1. Onto \in [1..WordBits -> [V -> V]] /\ one \in V
    OBVIOUS
  <1> HIDE DEF V
  <1>2. PICK f \in [0..WordBits -> V] : Recurs(f, WordBits, one, Onto)
    <2> HIDE DEF Onto, one
    <2> QED
      BY <1>0, <1>1, Recursion, Zenon
  <1>3. \A n \in 0..WordBits : n # 0 => n \in 1..WordBits /\ n - 1 \in 0..WordBits
    BY <1>0
  <1>4. f = [n \in 0..WordBits |-> IF n = 0 THEN 1 ELSE 2 * f[n - 1]]
    <2>1. \A n \in 0..WordBits : n # 0 => Onto[n][f[n - 1]] = 2 * f[n - 1]
      BY <1>2, <1>3
    <2> HIDE DEF Onto
    <2> QED
      BY <1>2, <2>1 DEF Recurs
  <1>5. TwoTo = [n \in 0..WordBits |-> IF n = 0 THEN 1 ELSE 2 * TwoTo[n - 1]]
    BY <1>4 DEF TwoTo
  <1>6. TwoTo[0] = 1 /\ \A n \in 1..WordBits : TwoTo[n] = 2 * TwoTo[n - 1]
    BY <1>0, <1>5
  <1>7. \A n \in 0..WordBits : TwoTo[n] \in Nat /\ TwoTo[n] > 0
    <2> DEFINE S == {n \in 0..WordBits : TwoTo[n] \in Nat /\ TwoTo[n] > 0}
    <2>1. 0 \in S /\ \A n \in 1..WordBits : n - 1 \in S => n \in S
      BY <1>0, <1>3, <1>6
    <2> HIDE DEF S
    <2>2. 0..WordBits \subseteq S
      BY <1>0, <2>1, UpTo
    <2> QED
      BY <2>2 DEF S
  <1> QED
    BY <1>6, <1>7

\* Exponents add up.
LEMMA TwoToPlus ==
    ASSUME NEW m \in 0..WordBits, NEW n \in 0..WordBits, m + n <= WordBits
    PROVE  TwoTo[m + n] = TwoTo[m] * TwoTo[n]
  <1>0. WordBits \in Nat
    BY ByteBitsAssumption DEF WordBits
  <1> DEFINE S == {k \in 0..n : TwoTo[m + k] = TwoTo[m] * TwoTo[k]}
  <1>1. 0 \in S
    BY <1>0, TwoToIs
  <1>2. \A k \in 1..n : k - 1 \in S => k \in S
    <2>1. TAKE k \in 1..n
    <2>2. HAVE k - 1 \in S
    <2>3. TwoTo[m + (k - 1)] = TwoTo[m] * TwoTo[k - 1]
      BY <2>2
    <2>4. /\ m + k \in 1..WordBits /\ (m + k) - 1 = m + (k - 1)
          /\ k \in 1..WordBits /\ k - 1 \in 0..WordBits
      BY <1>0
    <2>5. TwoTo[m + k] = 2 * TwoTo[m + (k - 1)] /\ TwoTo[k] = 2 * TwoTo[k - 1]
      BY <2>4, TwoToIs
    <2>6. \A x, y \in Nat : 2 * (x * y) = x * (2 * y)
      OBVIOUS
    <2>7. TwoTo[m] \in Nat /\ TwoTo[k - 1] \in Nat
      BY <2>4, TwoToIs
    <2> QED
      BY <2>3, <2>5, <2>6, <2>7
  <1> HIDE DEF S
  <1>3. 0..n \subseteq S
    BY <1>0, <1>1, <1>2, UpTo
  <1> QED
    BY <1>3 DEF S

\* What is known of the word and its parts.
LEMMA WordIs ==
    /\ WordBits \in Nat /\ WordBits >= 8 /\ HalfBits \in 0..WordBits /\ ByteBits \in 0..WordBits
    /\ TwoTo[WordBits] \in Nat /\ TwoTo[WordBits] >= 256
    /\ Word \subseteq Nat /\ 0..255 \subseteq Word
  <1>1. WordBits \in Nat /\ WordBits >= 8 /\ HalfBits \in 0..WordBits /\ ByteBits \in 0..WordBits
    BY ByteBitsAssumption DEF WordBits, HalfBits
  <1>2. TwoTo[8] = 256
    <2>1. \A n \in 1..8 : n \in 1..WordBits
      BY <1>1
    <2>2. \A n \in 1..8 : TwoTo[n] = 2 * TwoTo[n - 1]
      BY <2>1, TwoToIs
    <2>3. /\ TwoTo[1] = 2 * TwoTo[0] /\ TwoTo[2] = 2 * TwoTo[1] /\ TwoTo[3] = 2 * TwoTo[2]
          /\ TwoTo[4] = 2 * TwoTo[3] /\ TwoTo[5] = 2 * TwoTo[4] /\ TwoTo[6] = 2 * TwoTo[5]
          /\ TwoTo[7] = 2 * TwoTo[6] /\ TwoTo[8] = 2 * TwoTo[7]
      BY <2>2
    <2> QED
      BY <2>3, TwoToIs
  <1>3. TwoTo[WordBits] = 256 * TwoTo[WordBits - 8]
    <2>1. 8 \in 0..WordBits /\ WordBits - 8 \in 0..WordBits /\ 8 + (WordBits - 8) = WordBits
      BY <1>1
    <2> QED
      BY <2>1, <1>2, TwoToPlus
  <1>4. TwoTo[WordBits - 8] \in Nat /\ TwoTo[WordBits - 8] > 0
    BY <1>1, TwoToIs
  <1>5. TwoTo[WordBits] \in Nat /\ TwoTo[WordBits] >= 256
    BY <1>3, <1>4
  <1> QED
    BY <1>1, <1>5 DEF Word

\* Wrap gives a word.
LEMMA WrapWord ==
    ASSUME NEW x \in Int
    PROVE  Wrap(x) \in Word
  BY WordIs DEF Wrap, Word

\* Low gives what fits its bits.
LEMMA LowIs ==
    ASSUME NEW x \in Int, NEW n \in 0..WordBits
    PROVE  Low(x, n) \in 0..(TwoTo[n] - 1)
  BY WordIs, TwoToIs DEF Low

\* A smaller power of two is no greater.
LEMMA TwoToGrows ==
    ASSUME NEW m \in 0..WordBits, NEW n \in 0..WordBits, m <= n
    PROVE  TwoTo[m] <= TwoTo[n]
  <1>1. n - m \in 0..WordBits /\ m + (n - m) = n
    BY WordIs
  <1>2. TwoTo[n] = TwoTo[m] * TwoTo[n - m]
    BY <1>1, TwoToPlus, WordIs
  <1>3. TwoTo[m] \in Nat /\ TwoTo[n - m] \in Nat /\ TwoTo[n - m] >= 1
    BY <1>1, TwoToIs
  <1>4. \A x, y \in Nat : y >= 1 => x <= x * y
    OBVIOUS
  <1> QED
    BY <1>2, <1>3, <1>4

\* SignExtend gives a word.
LEMMA SignExtendWord ==
    ASSUME NEW x \in Int, NEW n \in 1..WordBits
    PROVE  SignExtend(x, n) \in Word
  <1>1. n \in 0..WordBits /\ n - 1 \in 0..WordBits /\ WordBits \in 0..WordBits /\ n <= WordBits
    BY WordIs
  <1>2. Low(x, n) \in 0..(TwoTo[n] - 1) /\ TwoTo[n] \in Nat /\ TwoTo[n] <= TwoTo[WordBits]
    BY <1>1, LowIs, TwoToIs, TwoToGrows
  <1>3. Low(x, n) \in Word
    BY <1>2, WordIs DEF Word
  <1>4. Wrap(Low(x, n) - TwoTo[n]) \in Word
    BY <1>2, WrapWord
  <1> QED
    BY <1>3, <1>4 DEF SignExtend

\* The complement of a word is a word.
LEMMA ComplementWord ==
    ASSUME NEW x \in Word
    PROVE  Complement(x) \in Word
  BY WordIs DEF Complement, Word

\* The signed reading of a word is an integer.
LEMMA SignedInt ==
    ASSUME NEW x \in Word
    PROVE  Signed(x) \in Int
  BY WordIs DEF Signed, Word

\* Shifts give words.
LEMMA ShiftWord ==
    ASSUME NEW x \in Word, NEW n \in 0..WordBits
    PROVE  ShiftLeft(x, n) \in Word /\ ShiftRight(x, n) \in Word /\ ShiftRightSigned(x, n) \in Word
  <1>1. TwoTo[n] \in Nat /\ TwoTo[n] > 0 /\ x \in Nat
    BY TwoToIs, WordIs
  <1>2. x * TwoTo[n] \in Int /\ Signed(x) \div TwoTo[n] \in Int /\ x \div TwoTo[n] \in 0..x
    BY <1>1, SignedInt
  <1>3. ShiftLeft(x, n) \in Word /\ ShiftRightSigned(x, n) \in Word
    BY <1>2, WrapWord DEF ShiftLeft, ShiftRightSigned
  <1>4. ShiftRight(x, n) \in Word
    BY <1>2, WordIs DEF ShiftRight, Word
  <1> QED
    BY <1>3, <1>4

\* A bit is 0 or 1.
LEMMA BitWord == \A b : Bit(b) \in Word
  BY WordIs DEF Bit

\* The word that a set of bits spells.
LEMMA SpelledWord ==
    ASSUME NEW bits
    PROVE  Spelled(bits) \in Word
  <1> DEFINE digit(n) == Bit(n - 1 \in bits) * TwoTo[n - 1]
             zero == 0
             Onto == [n \in 1..WordBits |-> [v \in Int |-> v + digit(n)]]
             low[n \in 0..WordBits] == IF n = 0 THEN 0 ELSE low[n - 1] + Bit(n - 1 \in bits) * TwoTo[n - 1]
  <1>0. WordBits \in Nat
    BY WordIs
  <1>1. \A n \in 1..WordBits : n - 1 \in 0..WordBits /\ digit(n) \in 0..TwoTo[n - 1]
    <2>1. TAKE n \in 1..WordBits
    <2>2. n - 1 \in 0..WordBits
      BY <1>0
    <2>3. TwoTo[n - 1] \in Nat
      BY <2>2, TwoToIs
    <2>4. Bit(n - 1 \in bits) = 0 \/ Bit(n - 1 \in bits) = 1
      BY DEF Bit
    <2> QED
      BY <2>2, <2>3, <2>4
  <1>2. Onto \in [1..WordBits -> [Int -> Int]] /\ zero \in Int
    <2>1. \A n \in 1..WordBits : digit(n) \in Int
      <3>1. \A n \in 1..WordBits : TwoTo[n - 1] \in Nat
        BY <1>1, TwoToIs
      <3> HIDE DEF digit
      <3> QED
        BY <1>1, <3>1
    <2> HIDE DEF digit
    <2> QED
      BY <2>1
  <1>3. PICK f \in [0..WordBits -> Int] : Recurs(f, WordBits, zero, Onto)
    <2> HIDE DEF Onto, zero
    <2> QED
      BY <1>0, <1>2, Recursion, Zenon
  <1>4. f = [n \in 0..WordBits |-> IF n = 0 THEN 0 ELSE f[n - 1] + Bit(n - 1 \in bits) * TwoTo[n - 1]]
    <2>1. \A n \in 0..WordBits : n # 0 => n \in 1..WordBits /\ n - 1 \in 0..WordBits
      BY <1>0
    <2>2. \A n \in 0..WordBits : n # 0 => Onto[n][f[n - 1]] = f[n - 1] + Bit(n - 1 \in bits) * TwoTo[n - 1]
      BY <1>3, <2>1
    <2> HIDE DEF Onto
    <2> QED
      BY <1>3, <2>2 DEF Recurs
  <1>5. low = [n \in 0..WordBits |-> IF n = 0 THEN 0 ELSE low[n - 1] + Bit(n - 1 \in bits) * TwoTo[n - 1]]
    BY <1>4
  <1>6. low[0] = 0 /\ \A n \in 1..WordBits : low[n] = low[n - 1] + digit(n)
    <2>1. \A n \in 1..WordBits : n \in 0..WordBits /\ n # 0
      BY <1>0
    <2> HIDE DEF low
    <2> QED
      BY <1>0, <1>5, <2>1
  <1>7. \A n \in 0..WordBits : low[n] \in 0..(TwoTo[n] - 1)
    <2> DEFINE S == {n \in 0..WordBits : low[n] \in 0..(TwoTo[n] - 1)}
    <2> HIDE DEF low, digit
    <2>1. 0 \in S
      BY <1>0, <1>6, TwoToIs
    <2>2. \A n \in 1..WordBits : n - 1 \in S => n \in S
      <3>1. TAKE n \in 1..WordBits
      <3>2. HAVE n - 1 \in S
      <3>3. /\ low[n] = low[n - 1] + digit(n) /\ TwoTo[n] = 2 * TwoTo[n - 1]
            /\ digit(n) \in 0..TwoTo[n - 1] /\ TwoTo[n - 1] \in Nat
            /\ low[n - 1] \in 0..(TwoTo[n - 1] - 1) /\ n \in 0..WordBits
        BY <3>2, <1>0, <1>1, <1>6, TwoToIs
      <3> QED
        BY <3>3
    <2> HIDE DEF S
    <2>3. 0..WordBits \subseteq S
      BY <1>0, <2>1, <2>2, UpTo, Zenon
    <2> QED
      BY <2>3 DEF S
  <1>8. low[WordBits] \in Word
    <2> HIDE DEF low
    <2> QED
      BY <1>0, <1>7 DEF Word
  <1> QED
    BY <1>8 DEF Spelled

\* The bitwise operators give words.
LEMMA BitwiseWord == \A x, y : BitAnd(x, y) \in Word /\ BitOr(x, y) \in Word /\ BitXor(x, y) \in Word
  BY SpelledWord DEF BitAnd, BitOr, BitXor

-----------------------------------------------------------------------------
(* Decoding.                                                               *)

MainNames == {"SPECIAL", "BCOND", "J", "JAL", "BEQ", "BNE", "BLEZ", "BGTZ",
              "ADDI", "ADDIU", "SLTI", "SLTIU", "ANDI", "ORI", "XORI", "LUI"}
MemoryNames == {"LB", "LH", "LWL", "LW", "LBU", "LHU", "LWR", "SB", "SH", "SWL", "SW", "SWR"}
SpecialNames == {"SLL", "SRL", "SRA", "SLLV", "SRLV", "SRAV", "JR", "JALR", "SYSCALL",
                 "MFHI", "MTHI", "MFLO", "MTLO", "MULT", "MULTU", "DIV", "DIVU", "ADD", "ADDU",
                 "SUB", "SUBU", "AND", "OR", "XOR", "NOR", "SLT", "SLTU"}

\* What the three tables of operations can name.
LEMMA OpTables ==
    ASSUME NEW op \in Nat
    PROVE  /\ opTable(op) \in MainNames \cup MemoryNames \cup {"RES", "UNIMP"}
           /\ specialTable(op) \in SpecialNames \cup {"RES", "UNIMP"}
           /\ bcondTable(op) \in {"BLTZ", "BGEZ", "BLTZAL", "BGEZAL", "UNIMP"}
  <1>1. \A k \in 1..16 : MainOps[k] \in MainNames
    BY DEF MainOps, MainNames
  <1>2. \A k \in DOMAIN MemoryOps : MemoryOps[k] \in MemoryNames \cup {"RES"}
    BY DEF MemoryOps, MemoryNames
  <1>3. \A k \in DOMAIN ShiftOps : ShiftOps[k] \in SpecialNames \cup {"RES", "UNIMP"}
    BY DEF ShiftOps, SpecialNames
  <1>4. \A k \in DOMAIN AddOps : AddOps[k] \in SpecialNames \cup {"RES"}
    BY DEF AddOps, SpecialNames
  <1>5. opTable(op) \in MainNames \cup MemoryNames \cup {"RES", "UNIMP"}
    <2>1. op < 16 => op + 1 \in 1..16
      OBVIOUS
    <2> QED
      BY <2>1, <1>1, <1>2 DEF opTable, Reserved
  <1>6. specialTable(op) \in SpecialNames \cup {"RES", "UNIMP"}
    BY <1>3, <1>4 DEF specialTable, Reserved
  <1>7. bcondTable(op) \in {"BLTZ", "BGEZ", "BLTZAL", "BGEZAL", "UNIMP"}
    BY DEF bcondTable
  <1> QED
    BY <1>5, <1>6, <1>7

\* What every instruction of a program decodes to.
Decoded(i) ==
    /\ i.rs \in GPRegs /\ i.rd \in GPRegs /\ i.extra \in Word
    /\ i.opCode \notin {"BLTZ", "BGEZ", "BLTZAL", "BGEZAL", "UNIMP"} => i.rt \in GPRegs
    /\ i.opCode \in {"SLL", "SRL", "SRA"} => i.extra \in 0..WordBits
    /\ i.opCode \in {"J", "JAL"} => i.extra \in 0..(TwoTo[WordBits - 6] - 1)

\* A number is less than the power of two it is the exponent of.
LEMMA TwoToExceeds ==
    ASSUME NEW n \in 0..WordBits
    PROVE  n < TwoTo[n]
  <1> DEFINE S == {k \in 0..WordBits : k < TwoTo[k]}
  <1>1. 0 \in S
    BY TwoToIs, WordIs
  <1>2. \A k \in 1..WordBits : k - 1 \in S => k \in S
    <2>1. TAKE k \in 1..WordBits
    <2>2. HAVE k - 1 \in S
    <2>3. k - 1 < TwoTo[k - 1] /\ TwoTo[k] = 2 * TwoTo[k - 1] /\ k \in 0..WordBits /\ TwoTo[k - 1] \in Nat
      BY <2>2, TwoToIs, WordIs
    <2> QED
      BY <2>3
  <1> HIDE DEF S
  <1>3. 0..WordBits \subseteq S
    BY <1>1, <1>2, UpTo, WordIs
  <1> QED
    BY <1>3 DEF S

\* Decode gives an instruction of the types mipssim.cc assumes.
LEMMA DecodeIs ==
    ASSUME NEW w \in InstructionWord
    PROVE  Decoded(Decode(w))
  <1> DEFINE main == opTable(w.op)
             i == Decode(w)
  <1>1. /\ w.op \in Nat /\ w.funct \in Nat /\ w.rt \in Nat /\ w.rs \in GPRegs /\ w.rd \in GPRegs
        /\ w.shamt \in 0..(WordBits - 1) /\ w.imm \in Int /\ w.target \in 0..(TwoTo[WordBits - 6] - 1)
        /\ main = "BCOND" \/ w.rt \in GPRegs
    <2>1. w.imm \in 0 .. TwoTo[HalfBits] - 1 /\ TwoTo[HalfBits] \in Nat
      BY WordIs, TwoToIs DEF InstructionWord
    <2> QED
      BY <2>1 DEF InstructionWord
  <1>2. /\ main \in MainNames \cup MemoryNames \cup {"RES", "UNIMP"}
        /\ specialTable(w.funct) \in SpecialNames \cup {"RES", "UNIMP"}
        /\ bcondTable(w.rt) \in {"BLTZ", "BGEZ", "BLTZAL", "BGEZAL", "UNIMP"}
    BY <1>1, OpTables
  <1>3. i.rs = w.rs /\ i.rt = w.rt /\ i.rd = w.rd
    BY DEF Decode
  <1>4. /\ i.opCode = IF main = "SPECIAL" THEN specialTable(w.funct)
                      ELSE IF main = "BCOND" THEN bcondTable(w.rt) ELSE main
        /\ i.extra = IF main = "SPECIAL" THEN w.shamt
                     ELSE IF main \in {"J", "JAL"} THEN w.target ELSE SignExtend(w.imm, HalfBits)
    BY DEF Decode
  <1>5. SignExtend(w.imm, HalfBits) \in Word
    <2>1. HalfBits \in 1..WordBits
      BY ByteBitsAssumption DEF HalfBits, WordBits
    <2> QED
      BY <1>1, <2>1, SignExtendWord
  <1>6. w.shamt \in Word /\ w.shamt \in 0..WordBits
    <2>1. WordBits < TwoTo[WordBits]
      BY WordIs, TwoToExceeds
    <2> QED
      BY <1>1, <2>1, WordIs DEF Word
  <1>7. w.target \in Word
    <2>1. WordBits - 6 \in 0..WordBits /\ WordBits \in 0..WordBits /\ WordBits - 6 <= WordBits
      BY WordIs
    <2>2. TwoTo[WordBits - 6] <= TwoTo[WordBits] /\ TwoTo[WordBits - 6] \in Nat
      BY <2>1, TwoToGrows, TwoToIs
    <2> QED
      BY <1>1, <2>2, WordIs DEF Word
  <1> HIDE DEF main, i
  <1>8. i.opCode \notin {"BLTZ", "BGEZ", "BLTZAL", "BGEZAL", "UNIMP"} => i.rt \in GPRegs
    BY <1>1, <1>2, <1>3, <1>4
  <1>9. i.opCode \in {"SLL", "SRL", "SRA"} => i.extra \in 0..WordBits
    BY <1>2, <1>4, <1>6 DEF MainNames, MemoryNames
  <1>10. i.opCode \in {"J", "JAL"} => i.extra \in 0..(TwoTo[WordBits - 6] - 1)
    BY <1>1, <1>2, <1>4 DEF SpecialNames
  <1> QED
    BY <1>1, <1>3, <1>4, <1>5, <1>6, <1>7, <1>8, <1>9, <1>10 DEF Decoded, i

-----------------------------------------------------------------------------
(* Translation.                                                            *)

IsTable(tb) == \E k \in Nat : tb \in [1..k -> TranslationEntry]

\* An access that raises nothing has a valid entry, for its page and with a frame in memory.
LEMMA TranslatedIs ==
    ASSUME NEW tb, IsTable(tb), NEW a, NEW size, NEW writing,
           Exception(tb, a, size, writing) = "NoException"
    PROVE  LET n == Lookup(tb, vpn(a))
           IN  /\ n \in DOMAIN tb /\ tb[n].valid
               /\ IF useTLB THEN tb[n].virtualPage = vpn(a) ELSE n = vpn(a) + 1
               /\ tb[n].physicalPage \in Nat /\ tb[n].physicalPage < NumPhysPages
               /\ a % size = 0
  <1> DEFINE found == {n \in DOMAIN tb : tb[n].valid /\ (IF useTLB THEN tb[n].virtualPage = vpn(a) ELSE n = vpn(a) + 1)}
             n == Lookup(tb, vpn(a))
  <1>1. PICK k \in Nat : tb \in [1..k -> TranslationEntry]
    BY DEF IsTable
  <1>2. n # 0 /\ a % size = 0 /\ ~(tb[n].physicalPage >= NumPhysPages)
    <2> HIDE DEF n
    <2> QED
      BY DEF Exception, n
  <1>3. n = IF found = {} THEN 0 ELSE CHOOSE m \in found : \A l \in found : m <= l
    BY DEF Lookup
  <1>4. found # {}
    BY <1>2, <1>3
  <1>5. found \in SUBSET Nat
    BY <1>1
  <1>6. \E m \in found : \A l \in found : m <= l
    <2> HIDE DEF found
    <2> QED
      BY <1>4, <1>5, LeastOf
  <1>7. n \in found
    <2> HIDE DEF found, n
    <2> QED
      BY <1>3, <1>4, <1>6
  <1>8. n \in DOMAIN tb /\ tb[n].valid /\ IF useTLB THEN tb[n].virtualPage = vpn(a) ELSE n = vpn(a) + 1
    <2> HIDE DEF n
    <2> QED
      BY <1>7
  <1>9. tb[n].physicalPage \in Nat
    <2> HIDE DEF n
    <2>1. tb[n] \in TranslationEntry
      BY <1>1, <1>8
    <2> QED
      BY <2>1 DEF TranslationEntry
  <1>10. tb[n].physicalPage < NumPhysPages
    <2> HIDE DEF n
    <2> QED
      BY <1>2, <1>9, PageAssumption
  <1> QED
    BY <1>2, <1>8, <1>9, <1>10

\* The entries of a table say the same of the pages as before, and none is less dirty.
Alike(tb, old) ==
    /\ tb \in [DOMAIN old -> TranslationEntry]
    /\ \A n \in DOMAIN old : /\ tb[n].virtualPage = old[n].virtualPage
                             /\ tb[n].physicalPage = old[n].physicalPage
                             /\ tb[n].valid = old[n].valid
                             /\ old[n].dirty => tb[n].dirty

\* Alike is an order: every table is like itself,
LEMMA AlikeSelf ==
    ASSUME NEW tb, IsTable(tb)
    PROVE  Alike(tb, tb)
  BY DEF IsTable, Alike

\* what is like a table is one,
LEMMA AlikeTable ==
    ASSUME NEW tb, IsTable(tb), NEW tb2, Alike(tb2, tb)
    PROVE  IsTable(tb2) /\ DOMAIN tb2 = DOMAIN tb
  BY DEF IsTable, Alike

\* and what is like a table that is like a third is like the third.
LEMMA AlikeTwice ==
    ASSUME NEW tb, NEW tb2, NEW tb3, Alike(tb2, tb), Alike(tb3, tb2)
    PROVE  Alike(tb3, tb)
  BY DEF Alike

\* A translation changes nothing but the bits of its entry; a write leaves that entry dirty.
LEMMA TouchAlike ==
    ASSUME NEW tb, IsTable(tb), NEW a, NEW writing \in BOOLEAN,
           Lookup(tb, vpn(a)) \in DOMAIN tb
    PROVE  Alike(Touch(tb, a, writing), tb) /\ (writing => Touch(tb, a, writing)[Lookup(tb, vpn(a))].dirty)
  <1> DEFINE n == Lookup(tb, vpn(a))
             t == Touch(tb, a, writing)
  <1>1. PICK k \in Nat : tb \in [1..k -> TranslationEntry]
    BY DEF IsTable
  <1>2. t = [tb EXCEPT ![n].use = TRUE, ![n].dirty = @ \/ writing]
    BY DEF Touch
  <1> HIDE DEF n, t
  <1>3. n \in DOMAIN tb
    BY DEF n
  <1>4. tb[n] \in TranslationEntry
    BY <1>1, <1>3
  <1>5. /\ DOMAIN t = DOMAIN tb
        /\ \A m \in DOMAIN tb : m # n => t[m] = tb[m]
        /\ t[n] = [[tb[n] EXCEPT !.use = TRUE] EXCEPT !.dirty = tb[n].dirty \/ writing]
    BY <1>1, <1>2, <1>3, <1>4 DEF TranslationEntry
  <1>6. (tb[n].dirty \/ writing) \in BOOLEAN
    OBVIOUS
  <1>7. /\ t[n] \in TranslationEntry
        /\ t[n].virtualPage = tb[n].virtualPage /\ t[n].physicalPage = tb[n].physicalPage
        /\ t[n].valid = tb[n].valid
    BY <1>4, <1>5, <1>6 DEF TranslationEntry
  <1>8. t[n].dirty = (tb[n].dirty \/ writing)
    BY <1>4, <1>5 DEF TranslationEntry
  <1>9. t \in [DOMAIN tb -> TranslationEntry]
    <2>1. \A m \in DOMAIN tb : t[m] \in TranslationEntry
      BY <1>1, <1>5, <1>7
    <2>2. t = [m \in DOMAIN tb |-> t[m]]
      BY <1>1, <1>2, <1>5
    <2> QED
      BY <2>1, <2>2
  <1>10. Alike(t, tb)
    <2>1. \A m \in DOMAIN tb : /\ t[m].virtualPage = tb[m].virtualPage
                               /\ t[m].physicalPage = tb[m].physicalPage
                               /\ t[m].valid = tb[m].valid
      BY <1>5, <1>7
    <2>2. \A m \in DOMAIN tb : tb[m].dirty => t[m].dirty
      BY <1>5, <1>8
    <2> QED
      BY <1>9, <2>1, <2>2 DEF Alike
  <1> QED
    BY <1>8, <1>10 DEF n, t

\* An aligned access of a word or a part of it stays in its page.
LEMMA WithinPage ==
    ASSUME NEW a \in Nat, NEW size \in {1, 2, 4}, a % size = 0
    PROVE  (a % PageSize) \in Nat /\ (a % PageSize) + size <= PageSize
  <1>1. PageSize \in Nat /\ PageSize > 0 /\ PageSize % 4 = 0
    BY PageAssumption
  <1>2. PICK m \in Nat : PageSize = 4 * m
    BY <1>1
  <1> DEFINE r == a % PageSize
             quot == a \div PageSize
  <1>3. r \in 0..(PageSize - 1) /\ quot \in Nat /\ a = PageSize * quot + r
    BY <1>1
  <1> HIDE DEF r, quot
  <1>4. \A x, y, z \in Nat : (4 * x) * y = 4 * (x * y)
    OBVIOUS
  <1>5. a = 4 * (m * quot) + r /\ m * quot \in Nat
    BY <1>2, <1>3, <1>4
  <1>6. CASE size = 1
    <2>1. r + size <= PageSize
      BY <1>1, <1>3, <1>6
    <2> QED
      BY <2>1, <1>3 DEF r
  <1>7. CASE size = 2
    <2>1. r % 2 = 0
      BY <1>3, <1>5, <1>7
    <2> QED
      BY <2>1, <1>2, <1>3, <1>7 DEF r
  <1>8. CASE size = 4
    <2>1. r % 4 = 0
      BY <1>3, <1>5, <1>8
    <2> QED
      BY <2>1, <1>2, <1>3, <1>8 DEF r
  <1> QED
    BY <1>6, <1>7, <1>8

\* The addresses of a frame, which are addresses of memory, and of no other frame.
Frame(f) == f * PageSize .. (f + 1) * PageSize - 1

\* The bytes of a frame are in memory, and no byte is in two frames.
LEMMA FrameIs ==
    ASSUME NEW f \in Nat
    PROVE  /\ \A r \in 0..(PageSize - 1) : f * PageSize + r \in Frame(f)
           /\ f < NumPhysPages => Frame(f) \subseteq 0..(MemorySize - 1)
           /\ \A g \in Nat : f # g => Frame(f) \cap Frame(g) = {}
  <1>1. PageSize \in Nat /\ PageSize > 0 /\ NumPhysPages \in Nat
    BY PageAssumption
  <1>2. \A g \in Nat : g * PageSize \in Nat /\ (g + 1) * PageSize = g * PageSize + PageSize
    BY <1>1
  <1>3. \A g, h \in Nat : g <= h => g * PageSize <= h * PageSize
    BY <1>1
  <1>4. \A r \in 0..(PageSize - 1) : f * PageSize + r \in Frame(f)
    BY <1>1, <1>2 DEF Frame
  <1>5. f < NumPhysPages => Frame(f) \subseteq 0..(MemorySize - 1)
    <2>1. f < NumPhysPages => (f + 1) * PageSize <= NumPhysPages * PageSize
      BY <1>1, <1>3
    <2>2. f * PageSize \in Nat /\ (f + 1) * PageSize \in Nat /\ NumPhysPages * PageSize \in Nat
      BY <1>1, <1>2
    <2> QED
      BY <2>1, <2>2 DEF Frame, MemorySize
  <1>6. \A g \in Nat : f # g => Frame(f) \cap Frame(g) = {}
    <2>1. TAKE g \in Nat
    <2>2. f < g => (f + 1) * PageSize <= g * PageSize
      BY <1>3
    <2>3. g < f => (g + 1) * PageSize <= f * PageSize
      BY <1>3
    <2>4. /\ f * PageSize \in Nat /\ (f + 1) * PageSize \in Nat
          /\ g * PageSize \in Nat /\ (g + 1) * PageSize \in Nat
      BY <1>2, <1>1
    <2> QED
      BY <2>2, <2>3, <2>4 DEF Frame
  <1> QED
    BY <1>4, <1>5, <1>6

\* Where an access finds its bytes.
LEMMA AccessIs ==
    ASSUME NEW tb, IsTable(tb), NEW a \in Nat, NEW size \in {1, 2, 4}, NEW writing,
           Exception(tb, a, size, writing) = "NoException"
    PROVE  LET f == tb[Lookup(tb, vpn(a))].physicalPage
           IN  /\ f \in Nat /\ f < NumPhysPages /\ physAddr(tb, a) \in Nat
               /\ \A k \in 0..(size - 1) : physAddr(tb, a) + k \in Frame(f)
  <1> DEFINE f == tb[Lookup(tb, vpn(a))].physicalPage
             r == a % PageSize
  <1>1. f \in Nat /\ f < NumPhysPages /\ a % size = 0
    BY TranslatedIs
  <1>2. physAddr(tb, a) = f * PageSize + r
    BY DEF physAddr
  <1>3. r \in Nat /\ r + size <= PageSize
    BY <1>1, WithinPage
  <1> HIDE DEF f, r
  <1>4. \A k \in 0..(size - 1) : r + k \in 0..(PageSize - 1) /\ (f * PageSize + r) + k = f * PageSize + (r + k)
    BY <1>1, <1>3, PageAssumption
  <1>5. \A k \in 0..(size - 1) : physAddr(tb, a) + k \in Frame(f)
    BY <1>1, <1>2, <1>4, FrameIs
  <1>6. physAddr(tb, a) \in Nat
    BY <1>1, <1>2, <1>3, PageAssumption
  <1> QED
    BY <1>1, <1>5, <1>6 DEF f

-----------------------------------------------------------------------------
(* Main memory and the pages.                                              *)

\* Main memory as it is typed.
IsMemory(mem) == mem \in [0..(MemorySize - 1) -> Byte]

\* ReadMem gives a word.
LEMMA ReadWord ==
    ASSUME NEW tb, IsTable(tb), NEW a \in Nat, NEW size \in {1, 2, 4}, NEW writing,
           Exception(tb, a, size, writing) = "NoException", IsMemory(mainMemory)
    PROVE  ReadMem(tb, a, size) \in Word
  <1> DEFINE byte(k) == IF k < size THEN mainMemory[physAddr(tb, a) + k] * TwoTo[ByteBits * k] ELSE 0
             P == TwoTo[ByteBits]
  <1>1. ByteBits \in Nat /\ ByteBits >= 2
    BY ByteBitsAssumption
  <1>2. \A k \in 0..3 : k < size => mainMemory[physAddr(tb, a) + k] \in 0..(P - 1)
    <2>1. TAKE k \in 0..3
    <2>2. HAVE k < size
    <2>3. k \in 0..(size - 1)
      BY <2>2
    <2>4. physAddr(tb, a) + k \in 0..(MemorySize - 1)
      BY <2>3, AccessIs, FrameIs
    <2> QED
      BY <2>4 DEF IsMemory, Byte
  <1>3. /\ ByteBits * 0 = 0 /\ ByteBits * 1 = ByteBits /\ ByteBits * 2 = ByteBits + ByteBits
        /\ ByteBits * 3 = (ByteBits + ByteBits) + ByteBits
        /\ WordBits = (ByteBits + ByteBits) + (ByteBits + ByteBits)
    BY <1>1 DEF WordBits
  <1>4. /\ ByteBits \in 0..WordBits /\ ByteBits + ByteBits \in 0..WordBits
        /\ (ByteBits + ByteBits) + ByteBits <= WordBits
        /\ (ByteBits + ByteBits) + (ByteBits + ByteBits) <= WordBits
    BY <1>1, <1>3
  <1>5. /\ P \in Nat /\ P > 0
        /\ TwoTo[ByteBits + ByteBits] = P * P
        /\ TwoTo[(ByteBits + ByteBits) + ByteBits] = (P * P) * P
        /\ TwoTo[WordBits] = (P * P) * (P * P)
    <2>1. TwoTo[ByteBits + ByteBits] = P * P
      BY <1>4, TwoToPlus
    <2>2. TwoTo[(ByteBits + ByteBits) + ByteBits] = (P * P) * P
      BY <1>4, <2>1, TwoToPlus
    <2>3. TwoTo[(ByteBits + ByteBits) + (ByteBits + ByteBits)] = (P * P) * (P * P)
      BY <1>4, <2>1, TwoToPlus
    <2> QED
      BY <1>3, <1>4, <2>1, <2>2, <2>3, TwoToIs
  <1> HIDE DEF P
  <1>6. \A c \in Nat : \A b \in 0..(P - 1) : b * c \in 0..(P * c - c)
    <2>1. TAKE c \in Nat
    <2>2. TAKE b \in 0..(P - 1)
    <2>3. \A x, y \in Nat : x <= y => x * c <= y * c
      OBVIOUS
    <2>4. b \in Nat /\ P - 1 \in Nat /\ b <= P - 1 /\ (P - 1) * c = P * c - c
      BY <1>5
    <2>5. b * c \in Nat
      BY <2>4
    <2> QED
      BY <2>3, <2>4, <2>5
  <1>7. P * P \in Nat /\ (P * P) * P \in Nat /\ P * (P * P) = (P * P) * P /\ P * ((P * P) * P) = (P * P) * (P * P)
    BY <1>5
  <1>8. /\ byte(0) \in 0..(P - 1) /\ byte(1) \in 0..(P * P - P)
        /\ byte(2) \in 0..((P * P) * P - P * P) /\ byte(3) \in 0..((P * P) * (P * P) - (P * P) * P)
    <2>1. P <= P * P /\ P * P <= (P * P) * P /\ (P * P) * P <= (P * P) * (P * P)
      <3>1. \A x \in Nat : x <= P * x
        BY <1>5
      <3> QED
        BY <3>1, <1>5, <1>7
    <2>2. byte(0) \in 0..(P - 1)
      <3>1. \A x \in 0..(P - 1) : x * 1 = x
        BY <1>5
      <3> QED
        BY <3>1, <1>2, <1>3, <1>5, TwoToIs
    <2>3. byte(1) \in 0..(P * P - P)
      <3>1. TwoTo[ByteBits * 1] = P
        BY <1>3 DEF P
      <3>2. \A b \in 0..(P - 1) : b * P \in 0..(P * P - P)
        BY <1>5, <1>6
      <3> QED
        BY <1>2, <2>1, <3>1, <3>2, <1>5
    <2>4. byte(2) \in 0..((P * P) * P - P * P)
      BY <1>2, <1>3, <1>5, <1>6, <1>7, <2>1
    <2>5. byte(3) \in 0..((P * P) * (P * P) - (P * P) * P)
      BY <1>2, <1>3, <1>5, <1>6, <1>7, <2>1
    <2> QED
      BY <2>2, <2>3, <2>4, <2>5
  <1> HIDE DEF byte
  <1>9. byte(0) + byte(1) + byte(2) + byte(3) \in 0..((P * P) * (P * P) - 1)
    BY <1>5, <1>7, <1>8
  <1> QED
    BY <1>9, <1>5 DEF ReadMem, Word, byte

\* What a store changes: bytes of its frame only.
ChangesOnly(f, mem) == IsMemory(mem) /\ \A b \in 0..(MemorySize - 1) \ Frame(f) : mem[b] = mainMemory[b]

\* WriteMem keeps the type of memory and every byte outside the frame it translates to.
LEMMA WriteIs ==
    ASSUME NEW tb, IsTable(tb), NEW a \in Nat, NEW size \in {1, 2, 4}, NEW writing,
           Exception(tb, a, size, writing) = "NoException", IsMemory(mainMemory), NEW val \in Int
    PROVE  ChangesOnly(tb[Lookup(tb, vpn(a))].physicalPage, WriteMem(tb, a, size, val))
  <1> DEFINE first == physAddr(tb, a)
             f == tb[Lookup(tb, vpn(a))].physicalPage
  <1>1. WriteMem(tb, a, size, val) =
          [b \in DOMAIN mainMemory |->
             IF b \in first .. first + size - 1 THEN Low(ShiftRight(val, ByteBits * (b - first)), ByteBits)
             ELSE mainMemory[b]]
    BY DEF WriteMem
  <1>2. first \in Nat /\ \A k \in 0..(size - 1) : first + k \in Frame(f)
    BY AccessIs
  <1> HIDE DEF first, f
  <1>3. \A b \in first .. first + size - 1 : b - first \in 0..(size - 1) /\ first + (b - first) = b
    BY <1>2
  <1>4. \A b \in first .. first + size - 1 : Low(ShiftRight(val, ByteBits * (b - first)), ByteBits) \in Byte
    <2>1. TAKE b \in first .. first + size - 1
    <2>2. ByteBits * (b - first) \in 0..WordBits
      <3>1. b - first \in 0..3
        BY <1>3
      <3> QED
        BY <3>1, ByteBitsAssumption DEF WordBits
    <2>3. ShiftRight(val, ByteBits * (b - first)) \in Int
      BY <2>2, TwoToIs DEF ShiftRight
    <2>4. ByteBits \in 0..WordBits
      BY WordIs
    <2> HIDE DEF first
    <2> QED
      BY <2>3, <2>4, LowIs DEF Byte
  <1>5. IsMemory(WriteMem(tb, a, size, val))
    BY <1>1, <1>4 DEF IsMemory
  <1>6. \A b \in 0..(MemorySize - 1) \ Frame(f) : b \notin first .. first + size - 1
    BY <1>2, <1>3
  <1> QED
    BY <1>1, <1>5, <1>6 DEF IsMemory, ChangesOnly, f

(***************************************************************************)
(* The kernel's page table changes in its bits only; a valid entry of the  *)
(* table or of the TLB is the translation of a page the kernel's table     *)
(* holds; and CleanUnchanged is what CleanPages says of them.              *)
(***************************************************************************)
PagesAgree(pg) ==
    /\ pg \in [DOMAIN PageTable -> TranslationEntry]
    /\ \A p \in DOMAIN PageTable : /\ pg[p].virtualPage = p
                                   /\ pg[p].physicalPage = PageTable[p].physicalPage
                                   /\ pg[p].valid = PageTable[p].valid

PageOf(tb, n) == IF useTLB THEN tb[n].virtualPage ELSE n - 1

TableAgrees(tb) ==
    /\ IsTable(tb)
    /\ \A n \in DOMAIN tb : tb[n].valid =>
         /\ PageOf(tb, n) \in DOMAIN PageTable
         /\ PageTable[PageOf(tb, n)].valid
         /\ PageTable[PageOf(tb, n)].physicalPage = tb[n].physicalPage

NotDirty(tb, pg, p) ==
    /\ pg[p].valid /\ pg[p].physicalPage < NumPhysPages /\ ~pg[p].dirty
    /\ \A n \in DOMAIN tb : (IF useTLB THEN tb[n].virtualPage = p ELSE n = p + 1) /\ tb[n].valid => ~tb[n].dirty

Unchanged(pg, p, mem) == \A a \in Frame(pg[p].physicalPage) : mem[a] = InitialMemory[a]

CleanPages(tb, pg, mem) == \A p \in DOMAIN PageTable : NotDirty(tb, pg, p) => Unchanged(pg, p, mem)

\* A translation keeps what CleanPages says, whatever bits it sets.
LEMMA AlikeKeeps ==
    ASSUME NEW tb, NEW pg, NEW mem, NEW tb2,
           TableAgrees(tb), CleanPages(tb, pg, mem), Alike(tb2, tb)
    PROVE  TableAgrees(tb2) /\ CleanPages(tb2, pg, mem)
  <1>1. IsTable(tb) /\ IsTable(tb2) /\ DOMAIN tb2 = DOMAIN tb
    BY AlikeTable DEF TableAgrees
  <1>2. \A n \in DOMAIN tb : /\ tb2[n].virtualPage = tb[n].virtualPage
                             /\ tb2[n].physicalPage = tb[n].physicalPage
                             /\ tb2[n].valid = tb[n].valid
                             /\ tb[n].dirty => tb2[n].dirty
    BY DEF Alike
  <1>3. \A n \in DOMAIN tb : PageOf(tb2, n) = PageOf(tb, n)
    BY <1>2 DEF PageOf
  <1>4. TableAgrees(tb2)
    BY <1>1, <1>2, <1>3 DEF TableAgrees
  <1>5. \A p : NotDirty(tb2, pg, p) => NotDirty(tb, pg, p)
    BY <1>1, <1>2 DEF NotDirty
  <1> QED
    BY <1>4, <1>5 DEF CleanPages

\* A store keeps it, as its translation has set the dirty bit.
LEMMA WriteKeeps ==
    ASSUME NEW tb, NEW pg, NEW mem, NEW tb2, NEW mem2, NEW n \in DOMAIN tb,
           TableAgrees(tb), PagesAgree(pg), CleanPages(tb, pg, mem), Alike(tb2, tb),
           tb[n].valid, tb2[n].dirty,
           \A b \in 0..(MemorySize - 1) \ Frame(tb[n].physicalPage) : mem2[b] = mem[b]
    PROVE  CleanPages(tb2, pg, mem2)
  <1> SUFFICES ASSUME NEW p \in DOMAIN PageTable, NotDirty(tb2, pg, p)
               PROVE  Unchanged(pg, p, mem2)
    BY DEF CleanPages
  <1>1. CleanPages(tb2, pg, mem)
    BY AlikeKeeps
  <1>2. Unchanged(pg, p, mem)
    BY <1>1 DEF CleanPages
  <1> DEFINE quot == PageOf(tb, n)
  <1>3. /\ quot \in DOMAIN PageTable /\ PageTable[quot].valid /\ PageTable[quot].physicalPage = tb[n].physicalPage
    BY DEF TableAgrees
  <1>4. /\ pg[p].physicalPage = PageTable[p].physicalPage /\ PageTable[p].valid
        /\ pg[p].physicalPage < NumPhysPages
    BY DEF PagesAgree, NotDirty
  <1>5. n \in DOMAIN tb2 /\ tb2[n].valid /\ tb2[n].virtualPage = tb[n].virtualPage
    BY DEF Alike
  <1>6. p # quot
    <2> SUFFICES ASSUME p = quot PROVE FALSE
      OBVIOUS
    <2>1. n \in Nat
      BY DEF TableAgrees, IsTable
    <2>2. IF useTLB THEN tb2[n].virtualPage = p ELSE n = p + 1
      BY <1>5, <2>1 DEF PageOf
    <2> QED
      BY <1>5, <2>2 DEF NotDirty
  <1>7. PageTable[p].physicalPage # PageTable[quot].physicalPage
    BY <1>3, <1>4, <1>6, MemoryAssumption
  <1>8. PageTable[p].physicalPage \in Nat /\ PageTable[quot].physicalPage \in Nat
    <2>1. PageTable[p] \in TranslationEntry /\ PageTable[quot] \in TranslationEntry
      BY <1>3, MemoryAssumption
    <2> QED
      BY <2>1 DEF TranslationEntry
  <1>9. Frame(pg[p].physicalPage) \cap Frame(tb[n].physicalPage) = {} /\ Frame(pg[p].physicalPage) \subseteq 0..(MemorySize - 1)
    BY <1>3, <1>4, <1>7, <1>8, FrameIs
  <1> QED
    BY <1>2, <1>9 DEF Unchanged

\* So does the kernel that loads a translation into the TLB and first saves the bits of the old one.
LEMMA RefillKeeps ==
    ASSUME NEW tb, NEW mem, NEW p \in DOMAIN PageTable, useTLB, pages[p].valid,
           TableAgrees(tb), PagesAgree(pages), CleanPages(tb, pages, mem), Refill(tb, p)
    PROVE  TableAgrees(table') /\ PagesAgree(pages') /\ CleanPages(table', pages', mem)
  <1> DEFINE fresh == [[pages[p] EXCEPT !.use = FALSE] EXCEPT !.dirty = FALSE]
  <1>1. PICK slot \in DOMAIN tb :
          /\ table' = [tb EXCEPT ![slot] = [pages[p] EXCEPT !.use = FALSE, !.dirty = FALSE]]
          /\ pages' = IF tb[slot].valid
                      THEN [pages EXCEPT ![tb[slot].virtualPage].dirty = @ \/ tb[slot].dirty]
                      ELSE pages
    BY DEF Refill
  <1>2. PICK k \in Nat : tb \in [1..k -> TranslationEntry]
    BY DEF TableAgrees, IsTable
  <1>3. pages[p] \in TranslationEntry
    BY DEF PagesAgree
  <1>4. /\ fresh \in TranslationEntry
        /\ fresh.virtualPage = p /\ fresh.physicalPage = PageTable[p].physicalPage
        /\ fresh.valid = PageTable[p].valid
    BY <1>3 DEF TranslationEntry, PagesAgree
  <1>5. [pages[p] EXCEPT !.use = FALSE, !.dirty = FALSE] = fresh
    BY <1>3 DEF TranslationEntry
  <1> HIDE DEF fresh
  <1>6. /\ table' \in [1..k -> TranslationEntry] /\ DOMAIN table' = DOMAIN tb
        /\ \A n \in DOMAIN tb : table'[n] = IF n = slot THEN fresh ELSE tb[n]
    BY <1>1, <1>2, <1>4, <1>5
  <1>7. TableAgrees(table')
    <2>1. IsTable(table')
      BY <1>6 DEF IsTable
    <2>2. ASSUME NEW n \in DOMAIN table', table'[n].valid
          PROVE  /\ PageOf(table', n) \in DOMAIN PageTable
                 /\ PageTable[PageOf(table', n)].valid
                 /\ PageTable[PageOf(table', n)].physicalPage = table'[n].physicalPage
      <3>1. CASE n = slot
        <4>1. table'[n] = fresh
          BY <1>6, <3>1
        <4>2. PageOf(table', n) = p
          BY <4>1, <1>4 DEF PageOf
        <4>3. pages[p].valid = PageTable[p].valid
          BY DEF PagesAgree
        <4> QED
          BY <4>1, <4>2, <4>3, <1>4
      <3>2. CASE n # slot
        <4>1. table'[n] = tb[n] /\ n \in DOMAIN tb
          BY <1>6, <3>2
        <4>2. PageOf(table', n) = PageOf(tb, n)
          BY <4>1 DEF PageOf
        <4> QED
          BY <4>1, <4>2, <2>2 DEF TableAgrees
      <3> QED
        BY <3>1, <3>2
    <2> QED
      BY <2>1, <2>2 DEF TableAgrees
  <1> DEFINE old == tb[slot].virtualPage
  <1>8. tb[slot].valid => old \in DOMAIN PageTable
    BY DEF TableAgrees, PageOf
  <1>9. \A quot \in DOMAIN PageTable :
          /\ DOMAIN pages' = DOMAIN PageTable
          /\ pages'[quot] \in TranslationEntry
          /\ pages'[quot].virtualPage = pages[quot].virtualPage
          /\ pages'[quot].physicalPage = pages[quot].physicalPage
          /\ pages'[quot].valid = pages[quot].valid
          /\ pages[quot].dirty => pages'[quot].dirty
          /\ tb[slot].valid /\ quot = old /\ tb[slot].dirty => pages'[quot].dirty
    <2>1. TAKE quot \in DOMAIN PageTable
    <2>2. pages \in [DOMAIN PageTable -> TranslationEntry] /\ pages[quot] \in TranslationEntry
      BY DEF PagesAgree
    <2>3. tb[slot] \in TranslationEntry
      BY <1>2
    <2>4. CASE ~tb[slot].valid
      BY <2>2, <2>4, <1>1
    <2>5. CASE tb[slot].valid /\ quot # old
      <3>1. pages' = [pages EXCEPT ![old].dirty = @ \/ tb[slot].dirty]
        BY <1>1, <2>5
      <3> HIDE DEF old
      <3>2. pages'[quot] = pages[quot] /\ DOMAIN pages' = DOMAIN PageTable
        BY <3>1, <2>2, <2>5
      <3> QED
        BY <2>2, <2>5, <3>2
    <2>6. CASE tb[slot].valid /\ quot = old
      <3>1. pages' = [pages EXCEPT ![old].dirty = @ \/ tb[slot].dirty]
        BY <1>1, <2>6
      <3> DEFINE d == pages[quot].dirty \/ tb[slot].dirty
      <3> HIDE DEF old
      <3>2. pages'[quot] = [pages[quot] EXCEPT !.dirty = d] /\ DOMAIN pages' = DOMAIN PageTable
        BY <3>1, <2>2, <2>6
      <3>3. d \in BOOLEAN
        OBVIOUS
      <3>4. pages[quot].dirty => d
        OBVIOUS
      <3>5. tb[slot].dirty => d
        OBVIOUS
      <3> HIDE DEF d
      <3>6. /\ pages'[quot] \in TranslationEntry
            /\ pages'[quot].virtualPage = pages[quot].virtualPage
            /\ pages'[quot].physicalPage = pages[quot].physicalPage
            /\ pages'[quot].valid = pages[quot].valid
            /\ pages'[quot].dirty = d
        BY <2>2, <3>2, <3>3 DEF TranslationEntry
      <3> QED
        BY <3>2, <3>4, <3>5, <3>6
    <2> QED
      BY <2>4, <2>5, <2>6
  <1>10. PagesAgree(pages')
    <2>1. pages' \in [DOMAIN PageTable -> TranslationEntry]
      <3>1. DOMAIN pages' = DOMAIN PageTable
        BY <1>9
      <3>2. pages' = [quot \in DOMAIN PageTable |-> pages'[quot]]
        <4>1. pages = [quot \in DOMAIN PageTable |-> pages[quot]]
          BY DEF PagesAgree
        <4> QED
          BY <4>1, <1>1
      <3> QED
        BY <1>9, <3>2
    <2> QED
      BY <2>1, <1>9 DEF PagesAgree
  <1>11. CleanPages(table', pages', mem)
    <2> SUFFICES ASSUME NEW quot \in DOMAIN PageTable, NotDirty(table', pages', quot)
                 PROVE  Unchanged(pages', quot, mem)
      BY DEF CleanPages
    <2>1. pages'[quot].physicalPage = pages[quot].physicalPage
      BY <1>9
    <2>2. NotDirty(tb, pages, quot)
      <3>1. pages[quot].valid /\ pages[quot].physicalPage < NumPhysPages /\ ~pages[quot].dirty
        BY <1>9 DEF NotDirty
      <3>2. ASSUME NEW n \in DOMAIN tb, tb[n].virtualPage = quot, tb[n].valid
            PROVE  ~tb[n].dirty
        <4>1. CASE n = slot
          BY <1>9, <3>2, <4>1 DEF NotDirty
        <4>2. CASE n # slot
          <5>1. table'[n] = tb[n] /\ n \in DOMAIN table'
            BY <1>6, <4>2
          <5> QED
            BY <5>1, <3>2 DEF NotDirty
        <4> QED
          BY <4>1, <4>2
      <3> QED
        BY <3>1, <3>2 DEF NotDirty
    <2> QED
      BY <2>1, <2>2 DEF CleanPages, Unchanged
  <1> QED
    BY <1>7, <1>10, <1>11

-----------------------------------------------------------------------------
(* The registers.                                                          *)

IsRegisters(regs) == regs \in [AllRegs -> Word] /\ regs[LoadReg] \in GPRegs

MachineInv ==
    /\ IsRegisters(registers) /\ registers[0] = 0
    /\ IsMemory(mainMemory)
    /\ useTLB \in BOOLEAN /\ program \in Programs
    /\ status \in {"kernel", "user", "halted", "aborted"}
    /\ TableAgrees(table) /\ PagesAgree(pages) /\ CleanPages(table, pages, mainMemory)

\* Every register is there and holds a word.
LEMMA RegsAre ==
    /\ GPRegs \subseteq AllRegs /\ 0 \in GPRegs /\ R31 \in GPRegs /\ GPRegs \subseteq Word
    /\ {HiReg, LoReg, PCReg, NextPCReg, PrevPCReg, LoadReg, LoadValueReg, BadVAddrReg} \subseteq AllRegs
    /\ GPRegs \cap {HiReg, LoReg, PCReg, NextPCReg, PrevPCReg, LoadReg, LoadValueReg, BadVAddrReg} = {}
  BY RegisterAssumption, WordIs
  DEF AllRegs, R31, HiReg, LoReg, PCReg, NextPCReg, PrevPCReg, LoadReg, LoadValueReg, BadVAddrReg

\* After the delayed load, register 0 is zero and the next load is under way.
LEMMA DelayedLoadIs ==
    ASSUME NEW regs, IsRegisters(regs), NEW nextReg \in GPRegs, NEW nextValue \in Word
    PROVE  /\ IsRegisters(DelayedLoad(regs, nextReg, nextValue))
           /\ DelayedLoad(regs, nextReg, nextValue)[0] = 0
  <1> DEFINE r1 == [regs EXCEPT ![regs[LoadReg]] = regs[LoadValueReg]]
             r2 == [r1 EXCEPT ![LoadReg] = nextReg, ![LoadValueReg] = nextValue, ![0] = 0]
  <1>1. r1 \in [AllRegs -> Word]
    BY RegsAre DEF IsRegisters
  <1>2. nextReg \in Word /\ 0 \in Word /\ 0 \in AllRegs /\ LoadReg \in AllRegs /\ LoadReg # LoadValueReg /\ LoadReg # 0
    BY RegsAre, WordIs DEF LoadReg, LoadValueReg
  <1> HIDE DEF r1
  <1>3. r2 \in [AllRegs -> Word] /\ r2[0] = 0 /\ r2[LoadReg] = nextReg
    BY <1>1, <1>2
  <1> QED
    BY <1>3 DEF DelayedLoad, IsRegisters, r1

\* Advance writes words into registers.
LEMMA AdvanceIs ==
    ASSUME NEW regs, IsRegisters(regs), NEW pcAfter \in Word
    PROVE  IsRegisters(Advance(regs, pcAfter)) /\ Advance(regs, pcAfter)[0] = regs[0]
  <1>1. /\ regs \in [AllRegs -> Word] /\ regs[PCReg] \in Word /\ regs[NextPCReg] \in Word
        /\ 0 \in AllRegs /\ LoadReg \in AllRegs
    BY RegsAre DEF IsRegisters
  <1>2. /\ PrevPCReg # LoadReg /\ PCReg # LoadReg /\ NextPCReg # LoadReg
        /\ PrevPCReg # 0 /\ PCReg # 0 /\ NextPCReg # 0
    BY DEF PrevPCReg, PCReg, NextPCReg, LoadReg
  <1>3. Advance(regs, pcAfter) \in [AllRegs -> Word]
    BY <1>1 DEF Advance
  <1>4. Advance(regs, pcAfter)[LoadReg] = regs[LoadReg] /\ Advance(regs, pcAfter)[0] = regs[0]
    BY <1>1, <1>2 DEF Advance
  <1> QED
    BY <1>3, <1>4 DEF IsRegisters

\* Writing a word to a register that is no part of a load.
LEMMA SetRegister ==
    ASSUME NEW regs, IsRegisters(regs), NEW r, r # LoadReg, NEW val \in Word
    PROVE  IsRegisters([regs EXCEPT ![r] = val])
  BY RegsAre DEF IsRegisters

\* A register that is read holds a word.
LEMMA RegisterWord ==
    ASSUME MachineInv, NEW r \in AllRegs
    PROVE  registers[r] \in Word
  BY DEF MachineInv, IsRegisters

\* The three program counters are words.
LEMMA PCWords ==
    ASSUME MachineInv
    PROVE  PC \in Word /\ PC \in Nat /\ registers[NextPCReg] \in Word /\ NextAfter \in Word
  <1>1. PC \in Word /\ registers[NextPCReg] \in Word
    BY RegisterWord, RegsAre DEF PC
  <1>2. NextAfter \in Word
    <2>1. registers[NextPCReg] \in Nat
      BY <1>1, WordIs
    <2>2. registers[NextPCReg] + 4 \in Int
      BY <2>1
    <2> QED
      BY <2>2, WrapWord DEF NextAfter
  <1> QED
    BY <1>1, <1>2, WordIs

\* The fields of the instruction under way.
LEMMA InstrIs ==
    ASSUME MachineInv, InProgram
    PROVE  Decoded(instr)
  <1>1. program \in Seq(InstructionWord)
    BY ProgramAssumption DEF MachineInv
  <1>2. program[PC \div 4 + 1] \in InstructionWord
    BY <1>1 DEF InProgram
  <1> QED
    BY <1>2, DecodeIs DEF instr

\* Operands are words.
LEMMA Operands ==
    ASSUME MachineInv, InProgram
    PROVE  /\ rs \in Word
           /\ instr.rt \in GPRegs => rt \in Word
           /\ instr.extra \in Word /\ tmp \in Word /\ tmp \in Nat
  <1>1. Decoded(instr)
    BY InstrIs
  <1>2. rs \in Word /\ (instr.rt \in GPRegs => rt \in Word) /\ instr.extra \in Word
    BY <1>1, RegisterWord, RegsAre DEF Decoded, rs, rt
  <1>3. tmp \in Word
    <2>1. rs \in Nat /\ instr.extra \in Nat
      BY <1>2, WordIs
    <2>2. rs + instr.extra \in Int
      BY <2>1
    <2> QED
      BY <2>2, WrapWord DEF tmp
  <1> QED
    BY <1>2, <1>3, WordIs

\* The result of an operation on two registers is a word.
LEMMA RegisterResultWord ==
    ASSUME MachineInv, InProgram, instr.opCode \in ThreeRegister
    PROVE  RegisterResult \in Word /\ instr.rd \in GPRegs
  <1> DEFINE op == instr.opCode
             by == rs % WordBits
  <1>1. Decoded(instr)
    BY InstrIs
  <1>2. instr.rt \in GPRegs /\ instr.rd \in GPRegs
    BY <1>1 DEF Decoded, ThreeRegister
  <1>3. rs \in Word /\ rt \in Word /\ rs \in Nat /\ rt \in Nat
    BY <1>2, Operands, WordIs
  <1>4. by \in 0..WordBits
    BY <1>3, WordIs
  <1>5. Wrap(rs + rt) \in Word /\ Wrap(rs - rt) \in Word
    BY <1>3, WrapWord
  <1>6. /\ BitAnd(rs, rt) \in Word /\ BitOr(rs, rs) \in Word /\ BitXor(rs, rt) \in Word
        /\ Complement(BitOr(rs, rt)) \in Word
    BY BitwiseWord, ComplementWord
  <1>7. Bit(Signed(rs) < Signed(rt)) \in Word /\ Bit(rs < rt) \in Word
    BY BitWord
  <1>8. ShiftLeft(rt, by) \in Word /\ ShiftRightSigned(rt, by) \in Word
    BY <1>3, <1>4, ShiftWord
  <1>9. op \in {"SLL", "SRL", "SRA"} => ShiftLeft(rt, instr.extra) \in Word /\ ShiftRightSigned(rt, instr.extra) \in Word
    BY <1>1, <1>3, ShiftWord DEF Decoded
  <1>10. registers[HiReg] \in Word /\ registers[LoReg] \in Word
    BY RegisterWord, RegsAre
  <1>11. RegisterResult \in Word
    BY <1>5, <1>6, <1>7, <1>8, <1>9, <1>10 DEF RegisterResult, ThreeRegister
  <1> QED
    BY <1>2, <1>11

\* The result of an operation on a register and a constant is a word.
LEMMA ImmediateResultWord ==
    ASSUME MachineInv, InProgram, instr.opCode \in Immediate
    PROVE  ImmediateResult \in Word /\ instr.rt \in GPRegs
  <1>1. Decoded(instr)
    BY InstrIs
  <1>2. instr.rt \in GPRegs
    BY <1>1 DEF Decoded, Immediate
  <1>3. rs \in Word /\ rs \in Nat /\ instr.extra \in Word /\ instr.extra \in Nat
    BY Operands, WordIs
  <1>4. Wrap(rs + instr.extra) \in Word
    BY <1>3, WrapWord
  <1>5. \A low : BitAnd(rs, low) \in Word /\ BitOr(rs, low) \in Word /\ BitXor(rs, low) \in Word
    BY BitwiseWord
  <1>6. Bit(Signed(rs) < Signed(instr.extra)) \in Word /\ Bit(rs < instr.extra) \in Word
    BY BitWord
  <1>7. ShiftLeft(instr.extra, HalfBits) \in Word
    BY <1>3, WordIs, ShiftWord
  <1>8. ImmediateResult \in Word
    BY <1>4, <1>5, <1>6, <1>7 DEF ImmediateResult, Immediate
  <1> QED
    BY <1>2, <1>8

\* What Mult's loop changes, and how one turn follows another.
Factors == [a : Word, bLo : Word, bHi : Word, lo : Word, hi : Word]
Positive(w, signedArith) == IF signedArith /\ Negative(w) THEN Wrap(-w) ELSE w
MultLoop(turn, a, b, signedArith) ==
    /\ turn[0] = [a |-> Positive(a, signedArith), bLo |-> Positive(b, signedArith), bHi |-> 0, lo |-> 0, hi |-> 0]
    /\ \A n \in 1..WordBits : turn[n] = IF turn[n - 1].a = 0 THEN turn[n - 1] ELSE MultTurn(turn[n - 1])
    /\ \A n \in 0..WordBits : turn[n] \in Factors

\* The factors are words,
LEMMA PositiveWord ==
    ASSUME NEW w \in Word, NEW signedArith
    PROVE  Positive(w, signedArith) \in Word
  <1>1. -w \in Int
    BY WordIs
  <1>2. Wrap(-w) \in Word
    BY <1>1, WrapWord
  <1> QED
    BY <1>2 DEF Positive

\* and a turn of the loop gives words.
LEMMA MultTurnWords ==
    ASSUME NEW m \in Factors
    PROVE  MultTurn(m) \in Factors
  <1>1. 0 \in Word /\ 1 \in 0..WordBits
    BY WordIs
  <1>2. m.a \in Word /\ m.bLo \in Word /\ m.bHi \in Word /\ m.lo \in Word /\ m.hi \in Word
    BY DEF Factors
  <1>3. m.a \in Nat /\ m.bLo \in Nat /\ m.bHi \in Nat /\ m.lo \in Nat /\ m.hi \in Nat
    BY WordIs, <1>2
  <1> DEFINE lo == Wrap(m.lo + m.bLo)
             hi == Wrap(m.hi + Bit(lo < m.bLo) + m.bHi)
             added == IF m.a % 2 = 1 THEN [m EXCEPT !.lo = lo, !.hi = hi] ELSE m
             bHi == Wrap(2 * m.bHi + Bit(Negative(m.bLo)))
             bLo == Wrap(2 * m.bLo)
             half == ShiftRightSigned(m.a, 1)
  <1>4. lo \in Word
    BY <1>3, WrapWord
  <1>5. hi \in Word
    <2>1. Bit(lo < m.bLo) \in Nat
      BY DEF Bit
    <2>2. m.hi + Bit(lo < m.bLo) + m.bHi \in Int
      BY <1>3, <2>1
    <2> QED
      BY <2>2, WrapWord
  <1>6. bHi \in Word
    <2>1. Bit(Negative(m.bLo)) \in Nat
      BY DEF Bit
    <2>2. 2 * m.bHi + Bit(Negative(m.bLo)) \in Int
      BY <1>3, <2>1
    <2> QED
      BY <2>2, WrapWord
  <1>7. bLo \in Word /\ half \in Word
    BY <1>1, <1>2, <1>3, WrapWord, ShiftWord
  <1>8. MultTurn(m) = IF m.a = 1 THEN [added EXCEPT !.a = 0]
                      ELSE [added EXCEPT !.bHi = bHi, !.bLo = bLo, !.a = half]
    BY DEF MultTurn
  <1> HIDE DEF lo, hi, bHi, bLo, half
  <1>9. added \in Factors
    BY <1>4, <1>5 DEF Factors
  <1> HIDE DEF added
  <1> QED
    BY <1>1, <1>6, <1>7, <1>8, <1>9 DEF Factors

\* Mult is the end of its loop, with the sign that the factors give it.
LEMMA MultIs ==
    ASSUME NEW a \in Word, NEW b \in Word, NEW signedArith \in BOOLEAN
    PROVE  \E turn : /\ MultLoop(turn, a, b, signedArith)
                     /\ Mult(a, b, signedArith) =
                          IF a = 0 \/ b = 0 THEN <<0, 0>>
                          ELSE IF ~(signedArith /\ Negative(a) # Negative(b))
                               THEN <<turn[WordBits].hi, turn[WordBits].lo>>
                          ELSE <<Wrap(Complement(turn[WordBits].hi) + Bit(turn[WordBits].lo = 0)),
                                 Wrap(-turn[WordBits].lo)>>
  <1> DEFINE positive(w) == IF signedArith /\ Negative(w) THEN Wrap(-w) ELSE w
             negative == signedArith /\ Negative(a) # Negative(b)
             first == [a |-> positive(a), bLo |-> positive(b), bHi |-> 0, lo |-> 0, hi |-> 0]
             go == [m \in Factors |-> IF m.a = 0 THEN m ELSE MultTurn(m)]
             Onto == [n \in 1..WordBits |-> go]
             turn[n \in 0 .. WordBits] ==
               IF n = 0 THEN [a |-> positive(a), bLo |-> positive(b), bHi |-> 0, lo |-> 0, hi |-> 0]
               ELSE LET m == turn[n - 1] IN IF m.a = 0 THEN m ELSE MultTurn(m)
             product == turn[WordBits]
  <1>1. WordBits \in Nat /\ 0 \in Word
    BY WordIs
  <1>2. positive(a) = Positive(a, signedArith) /\ positive(b) = Positive(b, signedArith)
    BY DEF Positive
  <1>3. first \in Factors
    <2> HIDE DEF positive
    <2> QED
      BY <1>1, <1>2, PositiveWord DEF Factors
  <1>4. Onto \in [1..WordBits -> [Factors -> Factors]]
    BY MultTurnWords
  <1>5. PICK f \in [0..WordBits -> Factors] : Recurs(f, WordBits, first, Onto)
    <2> HIDE DEF Onto, first
    <2> QED
      BY <1>1, <1>3, <1>4, Recursion, Zenon
  <1>6. \A n \in 0..WordBits : n # 0 => n \in 1..WordBits /\ n - 1 \in 0..WordBits
    BY <1>1
  <1>7. f = [n \in 0..WordBits |->
               IF n = 0 THEN [a |-> positive(a), bLo |-> positive(b), bHi |-> 0, lo |-> 0, hi |-> 0]
               ELSE LET m == f[n - 1] IN IF m.a = 0 THEN m ELSE MultTurn(m)]
    <2>1. \A n \in 0..WordBits : n # 0 => Onto[n][f[n - 1]] = LET m == f[n - 1] IN IF m.a = 0 THEN m ELSE MultTurn(m)
      BY <1>5, <1>6
    <2> HIDE DEF Onto, positive
    <2> QED
      BY <1>5, <2>1 DEF Recurs
  <1>8. turn = [n \in 0..WordBits |->
               IF n = 0 THEN [a |-> positive(a), bLo |-> positive(b), bHi |-> 0, lo |-> 0, hi |-> 0]
               ELSE LET m == turn[n - 1] IN IF m.a = 0 THEN m ELSE MultTurn(m)]
    <2> HIDE DEF positive
    <2> QED
      BY <1>7
  <1>9. /\ turn[0] = first
        /\ \A n \in 1..WordBits : turn[n] = IF turn[n - 1].a = 0 THEN turn[n - 1] ELSE MultTurn(turn[n - 1])
    <2>1. \A n \in 1..WordBits : n \in 0..WordBits /\ n # 0
      BY <1>1
    <2> HIDE DEF turn, positive
    <2> QED
      BY <1>1, <1>8, <2>1
  <1>10. \A n \in 0..WordBits : turn[n] \in Factors
    <2> DEFINE S == {n \in 0..WordBits : turn[n] \in Factors}
    <2> HIDE DEF turn, first
    <2>1. 0 \in S
      BY <1>1, <1>3, <1>9
    <2>2. \A n \in 1..WordBits : n - 1 \in S => n \in S
      BY <1>1, <1>9, MultTurnWords
    <2> HIDE DEF S
    <2>3. 0..WordBits \subseteq S
      BY <1>1, <2>1, <2>2, UpTo, Zenon
    <2> QED
      BY <2>3 DEF S
  <1>11. Mult(a, b, signedArith) =
           IF a = 0 \/ b = 0 THEN <<0, 0>>
           ELSE IF ~negative THEN <<product.hi, product.lo>>
           ELSE <<Wrap(Complement(product.hi) + Bit(product.lo = 0)), Wrap(-product.lo)>>
    BY DEF Mult
  <1>12. MultLoop(turn, a, b, signedArith)
    <2> HIDE DEF turn, positive
    <2> QED
      BY <1>2, <1>9, <1>10 DEF MultLoop
  <1> HIDE DEF turn
  <1> QED
    BY <1>11, <1>12

\* Both words of a product are words.
LEMMA MultWords ==
    ASSUME NEW a \in Word, NEW b \in Word, NEW signedArith \in BOOLEAN
    PROVE  Mult(a, b, signedArith)[1] \in Word /\ Mult(a, b, signedArith)[2] \in Word
  <1>1. PICK turn : /\ MultLoop(turn, a, b, signedArith)
                    /\ Mult(a, b, signedArith) =
                         IF a = 0 \/ b = 0 THEN <<0, 0>>
                         ELSE IF ~(signedArith /\ Negative(a) # Negative(b))
                              THEN <<turn[WordBits].hi, turn[WordBits].lo>>
                         ELSE <<Wrap(Complement(turn[WordBits].hi) + Bit(turn[WordBits].lo = 0)),
                                Wrap(-turn[WordBits].lo)>>
    BY MultIs
  <1> DEFINE product == turn[WordBits]
  <1>2. product.hi \in Word /\ product.lo \in Word
    <2>1. product \in Factors
      BY <1>1, WordIs DEF MultLoop
    <2> QED
      BY <2>1 DEF Factors
  <1>3. 0 \in Word
    BY WordIs
  <1> HIDE DEF product
  <1>4. Wrap(-product.lo) \in Word
    <2>1. product.lo \in Nat
      BY <1>2, WordIs
    <2>2. -product.lo \in Int
      BY <2>1
    <2> QED
      BY <2>2, WrapWord
  <1>5. Wrap(Complement(product.hi) + Bit(product.lo = 0)) \in Word
    <2>1. Complement(product.hi) \in Nat /\ Bit(product.lo = 0) \in Nat
      BY <1>2, ComplementWord, BitWord, WordIs
    <2> QED
      BY <2>1, WrapWord
  <1> QED
    BY <1>1, <1>2, <1>3, <1>4, <1>5 DEF product

-----------------------------------------------------------------------------
(* What a step leaves.                                                     *)

\* A step that keeps every part of the invariant keeps the invariant.
LEMMA NextMachineInv ==
    ASSUME MachineInv, UNCHANGED <<useTLB, program>>,
           IsRegisters(registers'), registers'[0] = 0, IsMemory(mainMemory'),
           status' \in {"kernel", "user", "halted", "aborted"},
           TableAgrees(table'), PagesAgree(pages'), CleanPages(table', pages', mainMemory')
    PROVE  MachineInv'
  <1>1. TableAgrees(table)'
    BY DEF TableAgrees, PageOf
  <1>2. CleanPages(table, pages, mainMemory)'
    BY DEF CleanPages, NotDirty, Unchanged
  <1>3. PagesAgree(pages)'
    BY DEF PagesAgree
  <1> QED
    BY <1>1, <1>2, <1>3 DEF MachineInv

\* A step that leaves the machine alone leaves the invariant.
LEMMA SameMachine ==
    ASSUME MachineInv, UNCHANGED <<mainMemory, table, useTLB, registers, program, pages>>,
           status' \in {"kernel", "user", "halted", "aborted"}
    PROVE  MachineInv'
  <1>1. TableAgrees(table') /\ PagesAgree(pages') /\ CleanPages(table', pages', mainMemory')
    BY DEF MachineInv
  <1>2. IsRegisters(registers') /\ registers'[0] = 0 /\ IsMemory(mainMemory')
    BY DEF MachineInv
  <1> QED
    BY <1>1, <1>2, NextMachineInv

\* Fetching an instruction finds it in the table, which it leaves as dirty as it was.
LEMMA FetchIs ==
    ASSUME MachineInv, FetchException = "NoException"
    PROVE  Alike(fetched, table) /\ IsTable(table) /\ IsTable(fetched)
  <1>1. IsTable(table)
    BY DEF MachineInv, TableAgrees
  <1>2. Lookup(table, vpn(PC)) \in DOMAIN table
    BY <1>1, TranslatedIs DEF FetchException
  <1>3. Alike(fetched, table)
    BY <1>1, <1>2, TouchAlike DEF fetched
  <1> QED
    BY <1>1, <1>3, AlikeTable

\* An instruction that only computes leaves memory, and its fetch marks a page used.
LEMMA CompleteKeeps ==
    ASSUME MachineInv, FetchException = "NoException",
           NEW regs, IsRegisters(regs), NEW pcAfter \in Word, Complete(regs, pcAfter)
    PROVE  MachineInv'
  <1>1. /\ registers' = Advance(DelayedLoad(regs, 0, 0), pcAfter)
        /\ table' = fetched
        /\ UNCHANGED <<mainMemory, useTLB, status, program, pages>>
    BY DEF Complete
  <1>2. IsRegisters(DelayedLoad(regs, 0, 0)) /\ DelayedLoad(regs, 0, 0)[0] = 0
    BY DelayedLoadIs, RegsAre, WordIs
  <1>3. IsRegisters(registers') /\ registers'[0] = 0
    BY <1>1, <1>2, AdvanceIs
  <1>4. TableAgrees(table') /\ CleanPages(table', pages', mainMemory')
    <2>1. TableAgrees(fetched) /\ CleanPages(fetched, pages, mainMemory)
      BY FetchIs, AlikeKeeps DEF MachineInv
    <2> QED
      BY <1>1, <2>1
  <1>5. PagesAgree(pages') /\ IsMemory(mainMemory') /\ status' \in {"kernel", "user", "halted", "aborted"}
    BY <1>1 DEF MachineInv
  <1> QED
    BY <1>1, <1>3, <1>4, <1>5, NextMachineInv

\* RaiseException, the kernel that loads a translation included, keeps the invariant.
LEMMA RaiseKeeps ==
    ASSUME MachineInv, NEW which, NEW bad \in Word, NEW tb, Alike(tb, table), RaiseException(which, bad, tb)
    PROVE  MachineInv'
  <1> DEFINE r1 == [registers EXCEPT ![BadVAddrReg] = bad]
             regs == DelayedLoad(r1, 0, 0)
             p == vpn(regs[BadVAddrReg])
  <1>1. registers' = regs /\ ExceptionHandler(which, regs, tb) /\ UNCHANGED <<mainMemory, useTLB, program>>
    BY DEF RaiseException
  <1>2. IsRegisters(r1)
    BY SetRegister DEF MachineInv, BadVAddrReg, LoadReg
  <1> HIDE DEF r1
  <1>3. IsRegisters(regs) /\ regs[0] = 0
    BY <1>2, DelayedLoadIs, RegsAre, WordIs
  <1>4. TableAgrees(tb) /\ CleanPages(tb, pages, mainMemory) /\ PagesAgree(pages)
    BY AlikeKeeps DEF MachineInv
  <1> HIDE DEF regs
  <1>5. \/ /\ useTLB /\ p \in DOMAIN pages /\ pages[p].valid /\ Refill(tb, p)
        \/ /\ status' \in {"halted", "aborted"} /\ table' = tb /\ UNCHANGED pages
    BY <1>1 DEF ExceptionHandler
  <1> HIDE DEF p
  <1>6. IsMemory(mainMemory') /\ mainMemory' = mainMemory
    BY <1>1 DEF MachineInv
  <1>7. CASE useTLB /\ p \in DOMAIN pages /\ pages[p].valid /\ Refill(tb, p)
    <2>1. p \in DOMAIN PageTable
      BY <1>4, <1>7 DEF PagesAgree
    <2>2. TableAgrees(table') /\ PagesAgree(pages') /\ CleanPages(table', pages', mainMemory)
      BY <1>4, <1>7, <2>1, RefillKeeps
    <2>3. status' \in {"kernel", "user", "halted", "aborted"}
      BY <1>7 DEF Refill, MachineInv
    <2> QED
      BY <1>1, <1>3, <1>6, <2>2, <2>3, NextMachineInv
  <1>8. CASE status' \in {"halted", "aborted"} /\ table' = tb /\ UNCHANGED pages
    <2>1. TableAgrees(table') /\ PagesAgree(pages') /\ CleanPages(table', pages', mainMemory')
      BY <1>4, <1>6, <1>8
    <2> QED
      BY <1>1, <1>3, <1>6, <1>8, <2>1, NextMachineInv
  <1> QED
    BY <1>5, <1>7, <1>8

(***************************************************************************)
(* The instructions, one lemma for each group.                             *)
(***************************************************************************)
LEMMA FetchFaultStep ==
    ASSUME MachineInv, FetchFault
    PROVE  MachineInv'
  <1>1. Alike(table, table)
    BY AlikeSelf DEF MachineInv, TableAgrees
  <1>2. PC \in Word
    BY PCWords
  <1> QED
    BY <1>1, <1>2, RaiseKeeps DEF FetchFault

\* One step per action of the machine: what the arithmetic does,
LEMMA ComputeStep ==
    ASSUME MachineInv, Compute
    PROVE  MachineInv'
  <1>1. FetchException = "NoException" /\ InProgram /\ NextAfter \in Word /\ IsRegisters(registers)
    BY PCWords DEF Compute, Executes, MachineInv
  <1>2. CASE /\ instr.opCode \in ThreeRegister
             /\ Complete([registers EXCEPT ![instr.rd] = RegisterResult], NextAfter)
    <2>1. RegisterResult \in Word /\ instr.rd \in GPRegs
      BY <1>1, <1>2, RegisterResultWord
    <2>2. IsRegisters([registers EXCEPT ![instr.rd] = RegisterResult])
      <3>1. instr.rd # LoadReg
        BY <2>1, RegsAre
      <3> QED
        BY <1>1, <2>1, <3>1, SetRegister
    <2> QED
      BY <1>1, <1>2, <2>2, CompleteKeeps
  <1>3. CASE /\ instr.opCode \in Immediate
             /\ Complete([registers EXCEPT ![instr.rt] = ImmediateResult], NextAfter)
    <2>1. ImmediateResult \in Word /\ instr.rt \in GPRegs
      BY <1>1, <1>3, ImmediateResultWord
    <2>2. IsRegisters([registers EXCEPT ![instr.rt] = ImmediateResult])
      <3>1. instr.rt # LoadReg
        BY <2>1, RegsAre
      <3> QED
        BY <1>1, <2>1, <3>1, SetRegister
    <2> QED
      BY <1>1, <1>3, <2>2, CompleteKeeps
  <1> QED
    BY <1>2, <1>3 DEF Compute, Executes

\* HI and LO are registers.
LEMMA HiLoIs ==
    ASSUME MachineInv, NEW hi \in Word, NEW lo \in Word
    PROVE  IsRegisters(HiLo(hi, lo))
  BY RegsAre DEF MachineInv, IsRegisters, HiLo, HiReg, LoReg, LoadReg

\* a multiplication,
LEMMA MultiplyStep ==
    ASSUME MachineInv, Multiply
    PROVE  MachineInv'
  <1> DEFINE product == Mult(rs, rt, instr.opCode = "MULT")
  <1>1. /\ FetchException = "NoException" /\ InProgram /\ instr.opCode \in {"MULT", "MULTU"}
        /\ Complete(HiLo(product[1], product[2]), NextAfter)
    BY DEF Multiply, Executes
  <1>2. NextAfter \in Word
    BY PCWords
  <1>3. rs \in Word /\ rt \in Word
    <2>1. instr.rt \in GPRegs
      BY <1>1, InstrIs DEF Decoded
    <2> QED
      BY <1>1, <2>1, Operands
  <1>4. product[1] \in Word /\ product[2] \in Word
    <2>1. (instr.opCode = "MULT") \in BOOLEAN
      OBVIOUS
    <2> QED
      BY <1>3, <2>1, MultWords
  <1> HIDE DEF product
  <1>5. IsRegisters(HiLo(product[1], product[2]))
    BY <1>4, HiLoIs
  <1> QED
    BY <1>1, <1>2, <1>5, CompleteKeeps

\* a move to HI or LO,
LEMMA MoveToHiLoStep ==
    ASSUME MachineInv, MoveToHiLo
    PROVE  MachineInv'
  <1>1. FetchException = "NoException" /\ InProgram
    BY DEF MoveToHiLo, Executes
  <1>2. NextAfter \in Word /\ rs \in Word /\ registers[HiReg] \in Word /\ registers[LoReg] \in Word
    BY <1>1, PCWords, Operands, RegisterWord, RegsAre
  <1>3. IsRegisters(HiLo(rs, registers[LoReg])) /\ IsRegisters(HiLo(registers[HiReg], rs))
    BY <1>2, HiLoIs
  <1>4. Complete(HiLo(rs, registers[LoReg]), NextAfter) \/ Complete(HiLo(registers[HiReg], rs), NextAfter)
    BY DEF MoveToHiLo
  <1> QED
    BY <1>1, <1>2, <1>3, <1>4, CompleteKeeps

\* a division,
LEMMA DivideStep ==
    ASSUME MachineInv, Divide
    PROVE  MachineInv'
  <1> DEFINE x == IF instr.opCode = "DIV" THEN Signed(rs) ELSE rs
             y == IF instr.opCode = "DIV" THEN Signed(rt) ELSE rt
  <1>1. /\ FetchException = "NoException" /\ InProgram /\ instr.opCode \in {"DIV", "DIVU"}
        /\ Complete(IF rt = 0 THEN HiLo(0, 0) ELSE HiLo(Wrap(Remainder(x, y)), Wrap(Quotient(x, y))), NextAfter)
    BY DEF Divide, Executes
  <1>2. NextAfter \in Word
    BY PCWords
  <1>3. rs \in Word /\ rt \in Word
    <2>1. instr.rt \in GPRegs
      BY <1>1, InstrIs DEF Decoded
    <2> QED
      BY <1>1, <2>1, Operands
  <1>4. x \in Int /\ y \in Int /\ (rt # 0 => y # 0)
    <2>1. rs \in Nat /\ rt \in Nat /\ rt < TwoTo[WordBits] /\ TwoTo[WordBits] \in Nat
      BY <1>3, WordIs DEF Word
    <2>2. Signed(rs) \in Int /\ Signed(rt) \in Int
      BY <1>3, SignedInt
    <2>3. rt # 0 => Signed(rt) # 0
      BY <2>1 DEF Signed
    <2> QED
      BY <2>1, <2>2, <2>3
  <1> HIDE DEF x, y
  <1>5. rt # 0 => Quotient(x, y) \in Int /\ Remainder(x, y) \in Int
    <2>1. \A m \in Nat, n \in Nat : n > 0 => m \div n \in Nat
      OBVIOUS
    <2>2. Magnitude(x) \in Nat /\ (rt # 0 => Magnitude(y) \in Nat /\ Magnitude(y) > 0)
      BY <1>4 DEF Magnitude
    <2>3. rt # 0 => Magnitude(x) \div Magnitude(y) \in Nat
      BY <2>1, <2>2
    <2>4. rt # 0 => Quotient(x, y) \in Int
      BY <2>3 DEF Quotient
    <2>5. rt # 0 => Remainder(x, y) \in Int
      BY <1>4, <2>4 DEF Remainder
    <2> QED
      BY <2>4, <2>5
  <1>6. rt # 0 => IsRegisters(HiLo(Wrap(Remainder(x, y)), Wrap(Quotient(x, y))))
    BY <1>5, WrapWord, HiLoIs
  <1>7. IsRegisters(HiLo(0, 0))
    BY WordIs, HiLoIs
  <1> QED
    BY <1>1, <1>2, <1>6, <1>7, CompleteKeeps

\* an instruction that is not implemented,
LEMMA AbortStep ==
    ASSUME MachineInv, Abort
    PROVE  MachineInv'
  BY SameMachine DEF Abort

\* The return address is a word.
LEMMA LinkIs ==
    ASSUME MachineInv, NEW r \in GPRegs
    PROVE  IsRegisters(Link(r))
  <1>1. r # LoadReg /\ NextAfter \in Word /\ IsRegisters(registers)
    BY RegsAre, PCWords DEF MachineInv
  <1> QED
    BY <1>1, SetRegister DEF Link

\* a branch,
LEMMA BranchStep ==
    ASSUME MachineInv, Branch
    PROVE  MachineInv'
  <1> DEFINE regs == IF instr.opCode \in {"BGEZAL", "BLTZAL"} THEN Link(R31) ELSE registers
             pcAfter == IF Taken(regs) THEN Wrap(registers[NextPCReg] + ShiftLeft(instr.extra, 2)) ELSE NextAfter
  <1>1. FetchException = "NoException" /\ InProgram /\ Complete(regs, pcAfter)
    BY DEF Branch, Executes
  <1>2. IsRegisters(regs)
    BY LinkIs, RegsAre DEF MachineInv
  <1>3. pcAfter \in Word
    <2>1. 2 \in 0..WordBits
      BY WordIs
    <2>2. ShiftLeft(instr.extra, 2) \in Nat /\ registers[NextPCReg] \in Nat
      BY <1>1, <2>1, Operands, ShiftWord, PCWords, WordIs
    <2>3. registers[NextPCReg] + ShiftLeft(instr.extra, 2) \in Int
      BY <2>2
    <2>4. Wrap(registers[NextPCReg] + ShiftLeft(instr.extra, 2)) \in Word
      BY <2>3, WrapWord
    <2> QED
      BY <2>4, PCWords
  <1> HIDE DEF regs, pcAfter
  <1> QED
    BY <1>1, <1>2, <1>3, CompleteKeeps

\* The target of a jump is an address.
LEMMA TargetWord ==
    ASSUME NEW a \in Word, NEW target \in 0..(TwoTo[WordBits - 6] - 1)
    PROVE  a - Low(a, WordBits - 4) + ShiftLeft(target, 2) \in Word
  <1> DEFINE P == TwoTo[WordBits - 4]
             Q == TwoTo[WordBits - 6]
             T == TwoTo[WordBits]
  <1>1. /\ WordBits - 4 \in 0..WordBits /\ WordBits - 6 \in 0..WordBits
        /\ 2 \in 0..WordBits /\ 4 \in 0..WordBits
        /\ (WordBits - 6) + 2 = WordBits - 4 /\ (WordBits - 4) + 4 = WordBits
    BY WordIs
  <1>2. P \in Nat /\ P > 0 /\ Q \in Nat /\ Q > 0 /\ T \in Nat
    BY <1>1, WordIs, TwoToIs
  <1>3. TwoTo[2] = 4 /\ TwoTo[4] = 16
    <2>1. \A n \in 1..4 : n \in 1..WordBits
      BY WordIs
    <2>2. \A n \in 1..4 : TwoTo[n] = 2 * TwoTo[n - 1]
      BY <2>1, TwoToIs
    <2>3. TwoTo[1] = 2 * TwoTo[0] /\ TwoTo[2] = 2 * TwoTo[1] /\ TwoTo[3] = 2 * TwoTo[2] /\ TwoTo[4] = 2 * TwoTo[3]
      BY <2>2
    <2> QED
      BY <2>3, TwoToIs
  <1>4. P = Q * 4
    <2>1. TwoTo[(WordBits - 6) + 2] = TwoTo[WordBits - 6] * TwoTo[2]
      BY <1>1, WordIs, TwoToPlus
    <2> QED
      BY <1>1, <1>3, <2>1
  <1>5. T = P * 16
    <2>1. TwoTo[(WordBits - 4) + 4] = TwoTo[WordBits - 4] * TwoTo[4]
      BY <1>1, WordIs, TwoToPlus
    <2> QED
      BY <1>1, <1>3, <2>1
  <1>6. ShiftLeft(target, 2) = target * 4 /\ target * 4 \in 0..(P - 1)
    <2>1. ShiftLeft(target, 2) = (target * TwoTo[2]) % T
      BY DEF ShiftLeft, Wrap
    <2>2. target * 4 \in 0..(P - 1) /\ target * 4 < T
      BY <1>2, <1>4, <1>5
    <2> HIDE DEF T, P, Q
    <2>3. (target * 4) % T = target * 4
      BY <1>2, <2>2
    <2> QED
      BY <1>3, <2>1, <2>2, <2>3
  <1>7. a \in Nat /\ a < T
    BY WordIs DEF Word
  <1>8. Low(a, WordBits - 4) = a % P
    BY DEF Low
  <1> HIDE DEF P, Q, T
  <1> DEFINE quot == a \div P
  <1>9. a = P * quot + (a % P) /\ quot \in Nat /\ a % P \in 0..(P - 1)
    BY <1>2, <1>7
  <1> HIDE DEF quot
  <1>10. quot < 16
    <2> SUFFICES ASSUME quot >= 16 PROVE FALSE
      BY <1>9
    <2>1. \A x, y \in Nat : x <= y => P * x <= P * y
      BY <1>2
    <2>2. P * 16 <= P * quot
      BY <2>1, <1>9
    <2>3. P * quot \in Nat
      BY <1>2, <1>9
    <2> QED
      BY <2>2, <2>3, <1>5, <1>7, <1>9, <1>2
  <1>11. P * quot \in Nat /\ P * quot <= P * 15
    <2>1. \A x, y \in Nat : x <= y => P * x <= P * y
      BY <1>2
    <2>2. P * quot \in Nat
      BY <1>2, <1>9
    <2>3. quot <= 15
      BY <1>9, <1>10
    <2> QED
      BY <2>1, <2>2, <2>3, <1>9
  <1>12. a - Low(a, WordBits - 4) = P * quot
    BY <1>7, <1>8, <1>9, <1>11
  <1>13. P * quot + ShiftLeft(target, 2) \in 0..(T - 1)
    BY <1>2, <1>5, <1>6, <1>11
  <1> QED
    BY <1>12, <1>13 DEF Word, T

\* a jump,
LEMMA JumpStep ==
    ASSUME MachineInv, Jump
    PROVE  MachineInv'
  <1>1. FetchException = "NoException" /\ InProgram
    BY DEF Jump, Executes
  <1>2. Decoded(instr)
    BY <1>1, InstrIs
  <1>3. IsRegisters(registers) /\ IsRegisters(Link(R31)) /\ NextAfter \in Word
    BY LinkIs, RegsAre, PCWords DEF MachineInv
  <1>4. CASE /\ Executes({"J", "JAL"})
             /\ Complete(IF instr.opCode = "JAL" THEN Link(R31) ELSE registers,
                         NextAfter - Low(NextAfter, WordBits - 4) + ShiftLeft(instr.extra, 2))
    <2>1. instr.extra \in 0..(TwoTo[WordBits - 6] - 1)
      BY <1>2, <1>4 DEF Decoded, Executes
    <2>2. NextAfter - Low(NextAfter, WordBits - 4) + ShiftLeft(instr.extra, 2) \in Word
      BY <1>3, <2>1, TargetWord
    <2>3. IsRegisters(IF instr.opCode = "JAL" THEN Link(R31) ELSE registers)
      BY <1>3
    <2> QED
      BY <1>1, <1>4, <2>2, <2>3, CompleteKeeps
  <1>5. CASE Complete(registers, rs)
    <2>1. rs \in Word
      BY <1>1, Operands
    <2> QED
      BY <1>1, <1>3, <1>5, <2>1, CompleteKeeps
  <1>6. CASE Complete(Link(instr.rd), Link(instr.rd)[instr.rs])
    <2>1. IsRegisters(Link(instr.rd))
      BY <1>2, LinkIs DEF Decoded
    <2>2. instr.rs \in AllRegs
      BY <1>2, RegsAre DEF Decoded
    <2>3. Link(instr.rd)[instr.rs] \in Word
      BY <2>1, <2>2 DEF IsRegisters
    <2> QED
      BY <1>1, <1>6, <2>1, <2>3, CompleteKeeps
  <1> QED
    BY <1>4, <1>5, <1>6 DEF Jump

\* An access is of 1, 2 or 4 bytes.
LEMMA SizeIs ==
    ASSUME instr.opCode \in DOMAIN LoadSize \cup DOMAIN StoreSize
    PROVE  Size \in {1, 2, 4} /\ (instr.opCode \in Unaligned => Size = 4)
  BY DEF LoadSize, StoreSize, Size, Unaligned

\* an access that raises an exception,
LEMMA DataFaultStep ==
    ASSUME MachineInv, DataFault
    PROVE  MachineInv'
  <1> DEFINE tb == IF instr.opCode \in {"SWL", "SWR"} /\ Exception(fetched, tmp, 4, FALSE) = "NoException"
                   THEN Touch(fetched, tmp, FALSE) ELSE fetched
  <1>1. FetchException = "NoException" /\ InProgram /\ RaiseException(DataException, tmp, tb)
    BY DEF DataFault, Executes
  <1>2. Alike(fetched, table) /\ IsTable(fetched)
    BY <1>1, FetchIs
  <1>3. Exception(fetched, tmp, 4, FALSE) = "NoException" => Alike(Touch(fetched, tmp, FALSE), table)
    <2>1. SUFFICES ASSUME Exception(fetched, tmp, 4, FALSE) = "NoException"
                   PROVE  Alike(Touch(fetched, tmp, FALSE), table)
      OBVIOUS
    <2>2. Lookup(fetched, vpn(tmp)) \in DOMAIN fetched
      BY <1>2, <2>1, TranslatedIs
    <2>3. Alike(Touch(fetched, tmp, FALSE), fetched)
      BY <1>2, <2>2, TouchAlike
    <2> QED
      BY <1>2, <2>3, AlikeTwice
  <1>4. Alike(tb, table)
    BY <1>2, <1>3
  <1> HIDE DEF tb
  <1> QED
    BY <1>1, <1>4, Operands, RaiseKeeps

\* What a load puts together from memory and the register is a word.
LEMMA LoadedWord ==
    ASSUME MachineInv, InProgram, instr.opCode \in DOMAIN LoadSize, AlignedOrNot, NEW val \in Word
    PROVE  Loaded(val) \in Word
  <1> DEFINE k == ByteBits * (tmp % 4)
             old == IF registers[LoadReg] = instr.rt THEN registers[LoadValueReg] ELSE rt
             kept == WordBits - ByteBits - k
             op == instr.opCode
  <1>1. instr.rt \in GPRegs
    BY InstrIs DEF Decoded, LoadSize
  <1>2. old \in Word /\ old \in Nat /\ old < TwoTo[WordBits] /\ val \in Nat /\ val < TwoTo[WordBits]
    <2>1. old \in Word
      BY <1>1, Operands, RegisterWord, RegsAre
    <2> HIDE DEF old
    <2> QED
      BY <2>1, WordIs DEF Word
  <1>3. op \in {"LWL", "LWR"} => k = 0 /\ kept = WordBits - ByteBits
    <2>1. op \in {"LWL", "LWR"} => tmp % 4 = 0
      BY DEF AlignedOrNot, Unaligned
    <2> QED
      BY <2>1, ByteBitsAssumption, WordIs
  <1>4. ByteBits \in 1..WordBits /\ HalfBits \in 1..WordBits /\ ByteBits \in 0..WordBits /\ ByteBits + 0 = ByteBits
    BY ByteBitsAssumption DEF WordBits, HalfBits
  <1>5. SignExtend(val, ByteBits) \in Word /\ SignExtend(val, HalfBits) \in Word
    BY <1>2, <1>4, SignExtendWord
  <1> HIDE DEF old
  <1>6. Low(old, 0) + ShiftLeft(val, 0) \in Word
    <2>1. Low(old, 0) = 0
      BY <1>2, TwoToIs DEF Low
    <2>2. ShiftLeft(val, 0) \in Word /\ ShiftLeft(val, 0) \in Nat
      <3>1. 0 \in 0..WordBits
        BY WordIs
      <3> QED
        BY <3>1, ShiftWord, WordIs
    <2>3. 0 + ShiftLeft(val, 0) = ShiftLeft(val, 0)
      BY <2>2
    <2> QED
      BY <2>1, <2>2, <2>3
  <1>7. old - Low(old, ByteBits) + ShiftRight(val, WordBits - ByteBits) \in Word
    <2> DEFINE P == TwoTo[ByteBits]
               R == TwoTo[WordBits - ByteBits]
               T == TwoTo[WordBits]
               x == val \div R
               quot == old \div P
    <2>1. WordBits - ByteBits \in 0..WordBits /\ ByteBits + (WordBits - ByteBits) = WordBits
      BY <1>4, WordIs
    <2>2. P \in Nat /\ P > 0 /\ R \in Nat /\ R > 0 /\ T = P * R /\ T = R * P
      <3>1. T = P * R
        BY <1>4, <2>1, WordIs, TwoToPlus
      <3>2. P \in Nat /\ P > 0 /\ R \in Nat /\ R > 0
        BY <1>4, <2>1, TwoToIs
      <3> HIDE DEF P, R, T
      <3> QED
        BY <3>1, <3>2
    <2>3. Low(old, ByteBits) = old % P /\ ShiftRight(val, WordBits - ByteBits) = x
      BY DEF Low, ShiftRight
    <2>4. old < T /\ val < T
      BY <1>2
    <2> HIDE DEF P, R, T
    <2>5. x \in 0..(P - 1)
      <3>1. \A m, n, c \in Nat : c > 0 /\ m < c * n => m \div c \in Nat /\ m \div c < n
        OBVIOUS
      <3>2. x \in Nat /\ x < P
        BY <1>2, <2>2, <2>4, <3>1
      <3> QED
        BY <2>2, <3>2
    <2>6. old = P * quot + (old % P) /\ old % P \in 0..(P - 1) /\ quot \in Nat /\ quot < R
      <3>1. \A m, n, c \in Nat : c > 0 /\ m < c * n => m \div c \in Nat /\ m \div c < n
        OBVIOUS
      <3>2. quot \in Nat /\ quot < R
        BY <1>2, <2>2, <2>4, <3>1
      <3>3. old = P * quot + (old % P) /\ old % P \in 0..(P - 1)
        BY <1>2, <2>2
      <3> QED
        BY <3>2, <3>3
    <2> HIDE DEF x, quot
    <2>7. P * quot + P <= P * R /\ P * quot \in Nat /\ P * R \in Nat
      <3>1. \A m, n \in Nat : m <= n => P * m <= P * n
        BY <2>2
      <3>2. quot + 1 <= R /\ quot + 1 \in Nat /\ P * (quot + 1) = P * quot + P
        BY <2>2, <2>6
      <3>3. P * quot \in Nat /\ P * R \in Nat
        BY <2>2, <2>6
      <3> QED
        BY <2>2, <3>1, <3>2, <3>3
    <2>8. old - (old % P) = P * quot
      BY <1>2, <2>6, <2>7
    <2>9. P * quot + x \in 0..(T - 1)
      BY <2>2, <2>5, <2>7
    <2> QED
      BY <2>3, <2>8, <2>9 DEF Word, T
  <1>8. /\ op = "LWL" => Loaded(val) = Low(old, 0) + ShiftLeft(val, 0)
        /\ op = "LWR" => Loaded(val) = old - Low(old, ByteBits) + ShiftRight(val, WordBits - ByteBits)
    <2> HIDE DEF k, kept
    <2>1. op = "LWL" => Loaded(val) = Low(old, k) + ShiftLeft(val, k)
      BY DEF Loaded, k, old
    <2>2. op = "LWR" => Loaded(val) = old - Low(old, ByteBits + k) + ShiftRight(val, kept)
      BY DEF Loaded, k, old, kept
    <2> QED
      BY <1>3, <1>4, <2>1, <2>2
  <1>9. CASE op \in {"LWL", "LWR"}
    BY <1>6, <1>7, <1>8, <1>9
  <1>10. CASE op \in {"LB", "LH", "LBU", "LHU", "LW"}
    <2>1. op = "LB" => Loaded(val) = SignExtend(val, ByteBits)
      BY DEF Loaded
    <2>2. op = "LH" => Loaded(val) = SignExtend(val, HalfBits)
      BY DEF Loaded
    <2>3. op \in {"LBU", "LHU", "LW"} => Loaded(val) = val
      BY DEF Loaded
    <2> QED
      BY <1>5, <1>10, <2>1, <2>2, <2>3
  <1> QED
    BY <1>9, <1>10 DEF LoadSize

\* a load,
LEMMA LoadStep ==
    ASSUME MachineInv, Load
    PROVE  MachineInv'
  <1> DEFINE val == ReadMem(fetched, tmp, Size)
             regs == DelayedLoad(registers, instr.rt, Loaded(val))
  <1>1. /\ FetchException = "NoException" /\ InProgram /\ instr.opCode \in DOMAIN LoadSize
        /\ AlignedOrNot /\ DataException = "NoException"
        /\ registers' = Advance(regs, NextAfter)
        /\ table' = Touch(fetched, tmp, FALSE)
        /\ UNCHANGED <<mainMemory, useTLB, status, program, pages>>
    BY DEF Load, Executes
  <1>2. Alike(fetched, table) /\ IsTable(fetched)
    BY <1>1, FetchIs
  <1>3. Exception(fetched, tmp, Size, FALSE) = "NoException"
    BY <1>1 DEF DataException, Reads
  <1>4. Size \in {1, 2, 4} /\ tmp \in Nat
    BY <1>1, SizeIs, Operands
  <1>5. val \in Word
    BY <1>2, <1>3, <1>4, ReadWord DEF MachineInv
  <1> HIDE DEF val
  <1>6. Loaded(val) \in Word
    BY <1>1, <1>5, LoadedWord
  <1>7. instr.rt \in GPRegs
    BY <1>1, InstrIs DEF Decoded, LoadSize
  <1>8. IsRegisters(regs) /\ regs[0] = 0
    BY <1>6, <1>7, DelayedLoadIs DEF MachineInv
  <1> HIDE DEF regs
  <1>9. IsRegisters(registers') /\ registers'[0] = 0
    BY <1>1, <1>8, PCWords, AdvanceIs
  <1>10. Alike(table', table)
    <2>1. Lookup(fetched, vpn(tmp)) \in DOMAIN fetched
      BY <1>2, <1>3, TranslatedIs
    <2>2. Alike(Touch(fetched, tmp, FALSE), fetched)
      BY <1>2, <2>1, TouchAlike
    <2> QED
      BY <1>1, <1>2, <2>2, AlikeTwice
  <1>11. TableAgrees(table') /\ CleanPages(table', pages', mainMemory')
    <2>1. TableAgrees(table') /\ CleanPages(table', pages, mainMemory)
      BY <1>10, AlikeKeeps DEF MachineInv
    <2> QED
      BY <1>1, <2>1
  <1>12. PagesAgree(pages') /\ IsMemory(mainMemory') /\ status' \in {"kernel", "user", "halted", "aborted"}
    BY <1>1 DEF MachineInv
  <1> QED
    BY <1>1, <1>9, <1>11, <1>12, NextMachineInv

\* What a store puts together is an integer.
LEMMA StoredInt ==
    ASSUME MachineInv, InProgram, instr.opCode \in DOMAIN StoreSize, IsTable(fetched),
           instr.opCode \in Unaligned =>
             /\ tmp % 4 = 0
             /\ \E writing : Exception(fetched, tmp, 4, writing) = "NoException"
    PROVE  Stored \in Int
  <1> DEFINE k == ByteBits * (tmp % 4)
             old == ReadMem(fetched, tmp - (tmp % 4), 4)
             kept == WordBits - ByteBits - k
             op == instr.opCode
  <1>1. rt \in Word /\ rt \in Nat /\ tmp \in Nat
    <2>1. instr.rt \in GPRegs
      BY InstrIs DEF Decoded, StoreSize
    <2> QED
      BY <2>1, Operands, WordIs
  <1>2. CASE op \in {"SB", "SH", "SW"}
    <2>1. Stored = rt
      BY <1>2 DEF Stored
    <2> QED
      BY <1>1, <2>1
  <1>3. CASE op \in {"SWL", "SWR"}
    <2>1. tmp % 4 = 0 /\ tmp - (tmp % 4) = tmp
      BY <1>1, <1>3 DEF Unaligned
    <2>2. old \in Nat
      <3>1. ReadMem(fetched, tmp, 4) \in Word
        BY <1>1, <1>3, ReadWord DEF Unaligned, MachineInv
      <3> QED
        BY <2>1, <3>1, WordIs
    <2>3. k = 0 /\ kept = WordBits - ByteBits
      BY <2>1, ByteBitsAssumption, WordIs
    <2>4. WordBits \in 0..WordBits /\ WordBits - 0 = WordBits /\ WordBits - ByteBits \in 0..WordBits /\ 0 \in 0..WordBits
      BY WordIs
    <2> HIDE DEF k, kept, old
    <2>5. Low(old, WordBits) \in Nat /\ Low(old, WordBits - ByteBits) \in Nat
      <3>i. old \in Int /\ WordBits \in 0..WordBits
        BY <2>2, <2>4
      <3>1. Low(old, WordBits) \in 0..(TwoTo[WordBits] - 1)
        BY <3>i, LowIs, Zenon
      <3>2. Low(old, WordBits - ByteBits) \in 0..(TwoTo[WordBits - ByteBits] - 1)
        <4>1. old \in Int
          BY <2>2
        <4> DEFINE m == WordBits - ByteBits
        <4>2. m \in 0..WordBits
          BY <2>4
        <4> HIDE DEF m
        <4>3. Low(old, m) \in 0..(TwoTo[m] - 1)
          BY <4>1, <4>2, LowIs
        <4> QED
          BY <4>3 DEF m
      <3> QED
        BY <3>1, <3>2, <2>4, TwoToIs
    <2>6. ShiftRight(rt, 0) \in Nat /\ ShiftLeft(rt, WordBits - ByteBits) \in Nat
      BY <1>1, <2>4, ShiftWord, WordIs
    <2>7. op = "SWL" => Stored = old - Low(old, WordBits) + ShiftRight(rt, 0)
      <3>1. op = "SWL" => Stored = old - Low(old, WordBits - k) + ShiftRight(rt, k)
        BY DEF Stored, old, k
      <3> QED
        BY <2>3, <2>4, <3>1
    <2>8. op = "SWR" => Stored = Low(old, WordBits - ByteBits) + ShiftLeft(rt, WordBits - ByteBits)
      <3>1. op = "SWR" => Stored = Low(old, kept) + ShiftLeft(rt, kept)
        BY DEF Stored, old, k, kept
      <3> QED
        BY <2>3, <3>1
    <2>9. /\ old - Low(old, WordBits) + ShiftRight(rt, 0) \in Int
          /\ Low(old, WordBits - ByteBits) + ShiftLeft(rt, WordBits - ByteBits) \in Int
      BY <2>2, <2>5, <2>6
    <2> QED
      BY <1>3, <2>7, <2>8, <2>9
  <1> QED
    BY <1>2, <1>3 DEF StoreSize

\* a store,
LEMMA StoreStep ==
    ASSUME MachineInv, Store
    PROVE  MachineInv'
  <1>1. /\ FetchException = "NoException" /\ InProgram /\ instr.opCode \in DOMAIN StoreSize
        /\ AlignedOrNot /\ DataException = "NoException"
        /\ mainMemory' = WriteMem(fetched, tmp, Size, Stored)
        /\ table' = Touch(fetched, tmp, TRUE)
        /\ registers' = Advance(DelayedLoad(registers, 0, 0), NextAfter)
        /\ UNCHANGED <<useTLB, status, program, pages>>
    BY DEF Store, Executes
  <1>2. Alike(fetched, table) /\ IsTable(fetched)
    BY <1>1, FetchIs
  <1>3. Exception(fetched, tmp, Size, TRUE) = "NoException"
    BY <1>1 DEF DataException
  <1>4. Size \in {1, 2, 4} /\ (instr.opCode \in Unaligned => Size = 4) /\ tmp \in Nat
    BY <1>1, SizeIs, Operands
  <1>5. Stored \in Int
    <2>1. instr.opCode \in Unaligned => tmp % 4 = 0 /\ \E writing : Exception(fetched, tmp, 4, writing) = "NoException"
      BY <1>1, <1>3, <1>4 DEF AlignedOrNot
    <2> QED
      BY <1>1, <1>2, <2>1, StoredInt
  <1> DEFINE n == Lookup(fetched, vpn(tmp))
  <1>6. /\ IsMemory(mainMemory')
        /\ \A b \in 0..(MemorySize - 1) \ Frame(fetched[n].physicalPage) : mainMemory'[b] = mainMemory[b]
    <2>1. IsMemory(mainMemory)
      BY DEF MachineInv
    <2>2. /\ IsMemory(WriteMem(fetched, tmp, Size, Stored))
          /\ \A b \in 0..(MemorySize - 1) \ Frame(fetched[n].physicalPage) :
               WriteMem(fetched, tmp, Size, Stored)[b] = mainMemory[b]
      <3>1. tmp \in Nat /\ Size \in {1, 2, 4}
        BY <1>4
      <3>2. ChangesOnly(fetched[n].physicalPage, WriteMem(fetched, tmp, Size, Stored))
        BY <1>2, <1>3, <1>5, <2>1, <3>1, WriteIs, Zenon
      <3> QED
        BY <3>2 DEF ChangesOnly
    <2> HIDE DEF n
    <2> QED
      BY <1>1, <2>2
  <1>7. n \in DOMAIN fetched /\ fetched[n].valid
    BY <1>2, <1>3, TranslatedIs
  <1>8. Alike(table', fetched) /\ table'[n].dirty
    BY <1>1, <1>2, <1>7, TouchAlike
  <1> HIDE DEF n
  <1>9. TableAgrees(fetched) /\ CleanPages(fetched, pages, mainMemory) /\ PagesAgree(pages)
    BY <1>2, AlikeKeeps DEF MachineInv
  <1>10. CleanPages(table', pages, mainMemory')
    BY <1>6, <1>7, <1>8, <1>9, WriteKeeps
  <1>11. TableAgrees(table')
    BY <1>8, <1>9, AlikeKeeps
  <1>12. CleanPages(table', pages', mainMemory') /\ PagesAgree(pages')
    BY <1>1, <1>9, <1>10
  <1>13. IsRegisters(registers') /\ registers'[0] = 0
    <2>1. IsRegisters(DelayedLoad(registers, 0, 0)) /\ DelayedLoad(registers, 0, 0)[0] = 0
      BY DelayedLoadIs, RegsAre, WordIs DEF MachineInv
    <2> QED
      BY <1>1, <2>1, PCWords, AdvanceIs
  <1>14. status' \in {"kernel", "user", "halted", "aborted"}
    BY <1>1 DEF MachineInv
  <1> QED
    BY <1>1, <1>6, <1>11, <1>12, <1>13, <1>14, NextMachineInv

\* Overflow and Trap raise an exception behind a fetched instruction.
LEMMA TrapStep ==
    ASSUME MachineInv, Overflow \/ Trap
    PROVE  MachineInv'
  <1>1. /\ FetchException = "NoException"
        /\ \E which : RaiseException(which, 0, fetched)
    BY DEF Overflow, Trap, Executes
  <1>2. Alike(fetched, table) /\ 0 \in Word
    BY <1>1, FetchIs, WordIs
  <1> QED
    BY <1>1, <1>2, RaiseKeeps

\* The invariant is kept by every step
LEMMA NextMachine ==
    ASSUME MachineInv, [OneInstruction]_machine
    PROVE  MachineInv'
  <1>1. CASE DivideCrash \/ UnalignedAssert
    BY <1>1, AbortStep DEF DivideCrash, UnalignedAssert
  <1>2. CASE UNCHANGED machine
    BY <1>2, SameMachine DEF machine, MachineInv
  <1> QED
    BY <1>1, <1>2, FetchFaultStep, ComputeStep, TrapStep, MultiplyStep, MoveToHiLoStep, DivideStep,
       BranchStep, JumpStep, DataFaultStep, LoadStep, StoreStep DEF OneInstruction

\* and holds when the program starts.
LEMMA InitMachine ==
    ASSUME MachineInit
    PROVE  MachineInv
  <1>1. IsRegisters(registers) /\ registers[0] = 0
    <2>1. PICK first \in Samples(program), second \in Samples(program) :
            registers = [r \in AllRegs |-> IF r = 1 THEN first ELSE IF r = 2 THEN second
                                           ELSE IF r = NextPCReg THEN 4 ELSE 0]
      BY DEF MachineInit
    <2>2. first \in Word /\ second \in Word /\ 4 \in Word /\ 0 \in Word
      <3>1. Samples(program) \subseteq Word
        BY ProgramAssumption DEF MachineInit
      <3>2. first \in Word /\ second \in Word
        BY <2>1, <3>1
      <3> QED
        BY <3>2, WordIs
    <2>3. registers \in [AllRegs -> Word]
      BY <2>1, <2>2
    <2>4. registers[0] = 0 /\ registers[LoadReg] = 0
      BY <2>1, RegsAre DEF NextPCReg, LoadReg
    <2> QED
      BY <2>3, <2>4, RegsAre DEF IsRegisters
  <1>2. IsMemory(mainMemory)
    BY MemoryAssumption DEF MachineInit, IsMemory
  <1>3. useTLB \in BOOLEAN /\ program \in Programs /\ status \in {"kernel", "user", "halted", "aborted"}
    BY DEF MachineInit
  <1>4. PagesAgree(pages)
    BY MemoryAssumption DEF MachineInit, PagesAgree
  <1>5. TableAgrees(table)
    <2>1. CASE useTLB
      <3>1. table = [n \in 1 .. TLBSize |-> Unmapped]
        BY <2>1 DEF MachineInit
      <3>2. Unmapped \in TranslationEntry /\ ~Unmapped.valid
        BY DEF Unmapped, TranslationEntry
      <3>3. table \in [1..TLBSize -> TranslationEntry] /\ \A n \in DOMAIN table : ~table[n].valid
        BY <3>1, <3>2
      <3> QED
        BY <3>3, PageAssumption DEF TableAgrees, IsTable
    <2>2. CASE ~useTLB
      <3> DEFINE k == Cardinality(DOMAIN PageTable)
      <3>1. table = [n \in 1..k |-> PageTable[n - 1]]
        BY <2>2 DEF MachineInit
      <3>2. k \in Nat /\ DOMAIN PageTable = 0..(k - 1)
        BY MemoryAssumption, FS_CardinalityType
      <3> HIDE DEF k
      <3>3. \A n \in 1..k : n - 1 \in DOMAIN PageTable
        BY <3>2
      <3>4. \A p \in DOMAIN PageTable : PageTable[p] \in TranslationEntry
        BY MemoryAssumption
      <3>5. table \in [1..k -> TranslationEntry]
        BY <3>1, <3>3, <3>4
      <3>6. \A n \in 1..k : PageOf(table, n) = n - 1
        BY <2>2 DEF PageOf
      <3> QED
        BY <3>1, <3>2, <3>3, <3>5, <3>6 DEF TableAgrees, IsTable
    <2> QED
      BY <2>1, <2>2
  <1>6. CleanPages(table, pages, mainMemory)
    BY DEF CleanPages, Unchanged, MachineInit
  <1> QED
    BY <1>1, <1>2, <1>3, <1>4, <1>5, <1>6 DEF MachineInv

\* The invariant says what CleanUnchanged does.
LEMMA MachineInvClean ==
    ASSUME MachineInv
    PROVE  CleanUnchanged
  <1>1. MachineTypeOK
    <2>1. \A n \in DOMAIN table : table[n] \in TranslationEntry
      BY DEF MachineInv, TableAgrees, IsTable
    <2> QED
      BY <2>1 DEF MachineInv, MachineTypeOK, IsRegisters, IsMemory
  <1>2. ASSUME NEW p \in DOMAIN pages, pages[p].valid, pages[p].physicalPage < NumPhysPages, ~pages[p].dirty,
               \A e \in {table[n] : n \in {m \in DOMAIN table : IF useTLB THEN table[m].virtualPage = p ELSE m = p + 1}} :
                 e.valid => ~e.dirty
        PROVE  \A a \in pages[p].physicalPage * PageSize .. (pages[p].physicalPage + 1) * PageSize - 1 :
                 mainMemory[a] = InitialMemory[a]
    <2>1. p \in DOMAIN PageTable
      BY DEF MachineInv, PagesAgree
    <2>2. NotDirty(table, pages, p)
      BY <1>2 DEF NotDirty
    <2> QED
      BY <2>1, <2>2 DEF MachineInv, CleanPages, Unchanged, Frame
  <1> QED
    BY <1>1, <1>2 DEF CleanUnchanged

MachineSpec == MachineInit /\ [][OneInstruction]_machine

(***************************************************************************)
(* For every program of words, whatever faults and refills of the TLB come *)
(* between its instructions, and for every page table that gives no two    *)
(* pages one frame: a page whose entry, in the kernel's table and in the   *)
(* TLB, says that it is not dirty has the contents it started with, so     *)
(* that a pager may drop it.  Translate sets the bits before the access    *)
(* they are about, and a refill saves those of the entry it replaces.      *)
(***************************************************************************)
THEOREM CleanPagesStay == MachineSpec => []CleanUnchanged
  <1>1. MachineInit => MachineInv
    BY InitMachine
  <1>2. MachineInv /\ [OneInstruction]_machine => MachineInv'
    BY NextMachine
  <1>3. MachineInv => CleanUnchanged
    BY MachineInvClean
  <1> QED
    BY <1>1, <1>2, <1>3, PTL DEF MachineSpec

(***************************************************************************)
(* Arithmetic on words.                                                    *)
(***************************************************************************)

\* A quotient and a remainder below the divisor are the only ones.
LEMMA DivisionIs ==
    ASSUME NEW w \in Nat, w > 0, NEW x \in Int, NEW n \in Int, NEW r \in 0..(w - 1), x = w * n + r
    PROVE  x \div w = n /\ x % w = r
  OBVIOUS

\* Half of the words are negative.
LEMMA HalfIs ==
    /\ TwoTo[WordBits - 1] \in Nat /\ TwoTo[WordBits - 1] >= 128
    /\ TwoTo[WordBits] = 2 * TwoTo[WordBits - 1]
  <1>1. WordBits \in 1..WordBits /\ WordBits - 1 \in 0..WordBits
    BY WordIs
  <1>2. TwoTo[WordBits - 1] \in Nat /\ TwoTo[WordBits] = 2 * TwoTo[WordBits - 1]
    BY <1>1, TwoToIs
  <1> QED
    BY <1>2, WordIs

\* What Wrap does to a number a word or less away from a word.
LEMMA WrapIs ==
    ASSUME NEW x \in Int
    PROVE  /\ x \in 0..(TwoTo[WordBits] - 1) => Wrap(x) = x
           /\ x \in -TwoTo[WordBits] .. -1 => Wrap(x) = x + TwoTo[WordBits]
           /\ x \in TwoTo[WordBits] .. (2 * TwoTo[WordBits] - 1) => Wrap(x) = x - TwoTo[WordBits]
  <1> DEFINE W == TwoTo[WordBits]
  <1>1. W \in Nat /\ W > 0
    BY WordIs
  <1> HIDE DEF W
  <1>2. x \in 0..(W - 1) => x % W = x
    BY <1>1
  <1>3. x \in -W .. -1 => x % W = x + W
    <2>1. x \in -W .. -1 => x + W \in 0..(W - 1) /\ x = W * (-1) + (x + W)
      BY <1>1
    <2> QED
      BY <1>1, <2>1, DivisionIs
  <1>4. x \in W .. (2 * W - 1) => x % W = x - W
    <2>1. x \in W .. (2 * W - 1) => x - W \in 0..(W - 1) /\ x = W * 1 + (x - W)
      BY <1>1
    <2> QED
      BY <1>1, <2>1, DivisionIs
  <1> QED
    BY <1>2, <1>3, <1>4 DEF Wrap, W

\* The two readings of a word.
LEMMA SignedIs ==
    ASSUME NEW x \in Word
    PROVE  /\ x \in Nat /\ x < TwoTo[WordBits]
           /\ Signed(x) \in -(TwoTo[WordBits - 1]) .. TwoTo[WordBits - 1] - 1
           /\ x < TwoTo[WordBits - 1] => ~Negative(x) /\ Signed(x) = x
           /\ x >= TwoTo[WordBits - 1] => Negative(x) /\ Signed(x) = x - TwoTo[WordBits]
  BY HalfIs DEF Word, Signed, Negative

\* A number that fits a signed word is what the word reads.
LEMMA SignedWrap ==
    ASSUME NEW x \in Int, Fits(x)
    PROVE  Wrap(x) \in Word /\ Signed(Wrap(x)) = x
  <1>1. x \in -(TwoTo[WordBits - 1]) .. TwoTo[WordBits - 1] - 1
    BY DEF Fits
  <1>2. CASE x >= 0
    <2>1. Wrap(x) = x
      BY <1>1, <1>2, HalfIs, WrapIs
    <2> QED
      BY <1>1, <2>1, HalfIs, SignedIs, WrapWord
  <1>3. CASE x < 0
    <2>1. Wrap(x) = x + TwoTo[WordBits]
      BY <1>1, <1>3, HalfIs, WrapIs
    <2> QED
      BY <1>1, <1>3, <2>1, HalfIs, SignedIs, WrapWord
  <1> QED
    BY <1>2, <1>3

\* The tests on sign bits find the sums that do not fit,
LEMMA AddFits ==
    ASSUME NEW x \in Word, NEW y \in Word
    PROVE  /\ Fits(Signed(x) + Signed(y)) <=>
                ~(Negative(x) = Negative(y) /\ Negative(Wrap(x + y)) # Negative(x))
           /\ Fits(Signed(x) + Signed(y)) => Signed(Wrap(x + y)) = Signed(x) + Signed(y)
  <1> DEFINE H == TwoTo[WordBits - 1]
             W == TwoTo[WordBits]
             z == Wrap(x + y)
  <1>1. H \in Nat /\ H > 0 /\ W = 2 * H /\ W \in Nat
    BY HalfIs
  <1>2. x \in 0..(W - 1) /\ y \in 0..(W - 1)
    BY <1>1 DEF Word
  <1>3. (x + y < W => z = x + y) /\ (x + y >= W => z = x + y - W)
    BY <1>1, <1>2, WrapIs
  <1>4. /\ Signed(x) = IF x >= H THEN x - W ELSE x
        /\ Signed(y) = IF y >= H THEN y - W ELSE y
        /\ Signed(z) = IF z >= H THEN z - W ELSE z
    BY DEF Signed, Negative
  <1>5. (Negative(x) <=> x >= H) /\ (Negative(y) <=> y >= H) /\ (Negative(z) <=> z >= H)
    BY DEF Negative
  <1> HIDE DEF z, H, W
  <1>6. Fits(Signed(x) + Signed(y)) <=> Signed(x) + Signed(y) \in -H .. H - 1
    BY DEF Fits, H
  <1> QED
    <2>1. /\ Signed(x) + Signed(y) \in -H .. H - 1 <=> ~((x >= H <=> y >= H) /\ ~(z >= H <=> x >= H))
          /\ Signed(x) + Signed(y) \in -H .. H - 1 => Signed(z) = Signed(x) + Signed(y)
      BY <1>1, <1>2, <1>3, <1>4
    <2>2. (Negative(x) = Negative(y)) <=> (Negative(x) <=> Negative(y))
      BY DEF Negative
    <2>3. (Negative(z) # Negative(x)) <=> ~(Negative(z) <=> Negative(x))
      BY DEF Negative
    <2> QED
      BY <1>5, <1>6, <2>1, <2>2, <2>3 DEF z

\* and the differences.
LEMMA SubtractFits ==
    ASSUME NEW x \in Word, NEW y \in Word
    PROVE  /\ Fits(Signed(x) - Signed(y)) <=>
                ~(Negative(x) # Negative(y) /\ Negative(Wrap(x - y)) # Negative(x))
           /\ Fits(Signed(x) - Signed(y)) => Signed(Wrap(x - y)) = Signed(x) - Signed(y)
  <1> DEFINE H == TwoTo[WordBits - 1]
             W == TwoTo[WordBits]
             z == Wrap(x - y)
  <1>1. H \in Nat /\ H > 0 /\ W = 2 * H /\ W \in Nat
    BY HalfIs
  <1>2. x \in 0..(W - 1) /\ y \in 0..(W - 1)
    BY <1>1 DEF Word
  <1>3. (x >= y => z = x - y) /\ (x < y => z = x - y + W)
    BY <1>1, <1>2, WrapIs
  <1>4. /\ Signed(x) = IF x >= H THEN x - W ELSE x
        /\ Signed(y) = IF y >= H THEN y - W ELSE y
        /\ Signed(z) = IF z >= H THEN z - W ELSE z
    BY DEF Signed, Negative
  <1>5. (Negative(x) <=> x >= H) /\ (Negative(y) <=> y >= H) /\ (Negative(z) <=> z >= H)
    BY DEF Negative
  <1> HIDE DEF z, H, W
  <1>6. Fits(Signed(x) - Signed(y)) <=> Signed(x) - Signed(y) \in -H .. H - 1
    BY DEF Fits, H
  <1> QED
    <2>1. /\ Signed(x) - Signed(y) \in -H .. H - 1 <=> ~(~(x >= H <=> y >= H) /\ ~(z >= H <=> x >= H))
          /\ Signed(x) - Signed(y) \in -H .. H - 1 => Signed(z) = Signed(x) - Signed(y)
      BY <1>1, <1>2, <1>3, <1>4
    <2>2. (Negative(x) # Negative(y)) <=> ~(Negative(x) <=> Negative(y))
      BY DEF Negative
    <2>3. (Negative(z) # Negative(x)) <=> ~(Negative(z) <=> Negative(x))
      BY DEF Negative
    <2> QED
      BY <1>5, <1>6, <2>1, <2>2, <2>3 DEF z

\* C's quotient and remainder make up the dividend, and the remainder has its sign.
LEMMA QuotientIs ==
    ASSUME NEW x \in Int, NEW y \in Int, y # 0
    PROVE  /\ Quotient(x, y) \in Int /\ Remainder(x, y) \in Int
           /\ Quotient(x, y) * y + Remainder(x, y) = x
           /\ Magnitude(Remainder(x, y)) < Magnitude(y)
           /\ Magnitude(Remainder(x, y)) <= Magnitude(x)
           /\ Remainder(x, y) # 0 => (Remainder(x, y) < 0) = (x < 0)
           /\ Magnitude(Quotient(x, y)) = Magnitude(x) \div Magnitude(y)
           /\ (x < 0) # (y < 0) => Quotient(x, y) <= 0
  <1> DEFINE m == Magnitude(x)
             k == Magnitude(y)
             d == m \div k
             r == m % k
             n == Quotient(x, y)
  <1>1. m \in Nat /\ k \in Nat /\ k > 0 /\ (m = IF x < 0 THEN -x ELSE x) /\ (k = IF y < 0 THEN -y ELSE y)
    BY DEF Magnitude
  <1>2. d \in Nat /\ r \in 0..(k - 1) /\ m = k * d + r /\ r <= m
    <2>1. \A a, b \in Nat : b > 0 => /\ a \div b \in Nat /\ a % b \in 0..(b - 1)
                                     /\ a = b * (a \div b) + (a % b)
      OBVIOUS
    <2>2. d \in Nat /\ r \in 0..(k - 1) /\ m = k * d + r
      BY <1>1, <2>1
    <2>3. \A a, b \in Nat : a * b \in Nat
      OBVIOUS
    <2> HIDE DEF d, r, m, k
    <2>4. k * d \in Nat
      BY <1>1, <2>2, <2>3
    <2> QED
      BY <1>1, <2>2, <2>4
  <1>3. n = IF (x < 0) = (y < 0) THEN d ELSE -d
    <2>1. n = (IF (x < 0) = (y < 0) THEN 1 ELSE -1) * d
      BY DEF Quotient
    <2> HIDE DEF d, n
    <2> QED
      BY <1>2, <2>1
  <1>4. y * n = IF x < 0 THEN -(k * d) ELSE k * d
    <2> HIDE DEF d, n, k, m, r
    <2>1. \A a, b \in Int : /\ (-a) * b = -(a * b) /\ a * (-b) = -(a * b) /\ (-a) * (-b) = a * b
      OBVIOUS
    <2>2. d \in Int
      BY <1>2
    <2>3. CASE x < 0 /\ y < 0
      <3>1. n = d /\ y = -k
        BY <1>1, <1>3, <2>3
      <3> QED
        BY <1>1, <2>1, <2>2, <2>3, <3>1
    <2>4. CASE x < 0 /\ ~(y < 0)
      <3>1. n = -d /\ y = k
        BY <1>1, <1>3, <2>4
      <3> QED
        BY <1>1, <2>1, <2>2, <2>4, <3>1
    <2>5. CASE ~(x < 0) /\ y < 0
      <3>1. n = -d /\ y = -k
        BY <1>1, <1>3, <2>5
      <3> QED
        BY <1>1, <2>1, <2>2, <2>5, <3>1
    <2>6. CASE ~(x < 0) /\ ~(y < 0)
      <3>1. n = d /\ y = k
        BY <1>1, <1>3, <2>6
      <3> QED
        BY <2>6, <3>1
    <2> QED
      BY <2>3, <2>4, <2>5, <2>6
  <1>5. Remainder(x, y) = x - y * n
    BY DEF Remainder
  <1>6. y * n \in Int /\ n \in Int /\ y * n = n * y
    <2> HIDE DEF n, d
    <2>1. \A a, b \in Int : a * b \in Int /\ a * b = b * a
      OBVIOUS
    <2>2. n \in Int
      BY <1>2, <1>3
    <2> QED
      BY <2>1, <2>2
  <1>7. Remainder(x, y) = IF x < 0 THEN -r ELSE r
    <2> DEFINE e == k * d
    <2>1. e \in Int
      <3>1. \A a, b \in Int : a * b \in Int
        OBVIOUS
      <3> HIDE DEF k, d
      <3> QED
        BY <1>1, <1>2, <3>1
    <2>2. m = e + r /\ y * n = IF x < 0 THEN -e ELSE e
      BY <1>2, <1>4
    <2> DEFINE f == y * n
    <2> HIDE DEF e, f, k, d, n, m, r
    <2>3. Remainder(x, y) = x - f /\ f = (IF x < 0 THEN -e ELSE e)
      BY <1>5, <2>2 DEF f
    <2> QED
      BY <1>1, <1>2, <2>1, <2>2, <2>3
  <1> HIDE DEF m, k, d, r, n
  <1>8. /\ Magnitude(Remainder(x, y)) = r
        /\ Remainder(x, y) # 0 => (Remainder(x, y) < 0) = (x < 0)
        /\ Magnitude(n) = d /\ Remainder(x, y) \in Int
    BY <1>1, <1>2, <1>3, <1>7 DEF Magnitude
  <1>9. n * y + Remainder(x, y) = x
    <2> DEFINE f == y * n
    <2>1. n * y = f /\ Remainder(x, y) = x - f /\ f \in Int
      BY <1>5, <1>6
    <2> HIDE DEF f
    <2> QED
      BY <2>1
  <1>10. (x < 0) # (y < 0) => n <= 0
    BY <1>2, <1>3
  <1>11. r < k /\ r <= m
    BY <1>1, <1>2
  <1> QED
    BY <1>6, <1>8, <1>9, <1>10, <1>11 DEF n, d, m, k

\* Dividing by 2 or more halves at least.
LEMMA Halves ==
    ASSUME NEW m \in Nat, NEW k \in Nat, k > 0
    PROVE  /\ m \div k \in Nat /\ m \div k <= m
           /\ k >= 2 => 2 * (m \div k) <= m
  <1> DEFINE d == m \div k
  <1>1. d \in Nat /\ k * d <= m
    OBVIOUS
  <1> HIDE DEF d
  <1>2. \A a, b, c \in Nat : a <= b => a * c <= b * c
    OBVIOUS
  <1>3. 1 * d <= k * d
    BY <1>1, <1>2
  <1>4. k >= 2 => 2 * d <= k * d
    BY <1>1, <1>2
  <1>5. k * d \in Nat
    BY <1>1
  <1> QED
    BY <1>1, <1>3, <1>4, <1>5 DEF d

\* Of two signed words, one quotient alone does not fit.
LEMMA SignedQuotient ==
    ASSUME NEW a \in Word, NEW b \in Word, b # 0,
           ~(Signed(a) = -(TwoTo[WordBits - 1]) /\ Signed(b) = -1)
    PROVE  /\ Signed(b) # 0 /\ Signed(a) \in Int /\ Signed(b) \in Int
           /\ Fits(Quotient(Signed(a), Signed(b))) /\ Fits(Remainder(Signed(a), Signed(b)))
  <1> DEFINE H == TwoTo[WordBits - 1]
             x == Signed(a)
             y == Signed(b)
             n == Quotient(x, y)
             r == Remainder(x, y)
             d == Magnitude(x) \div Magnitude(y)
  <1>1. H \in Nat /\ H >= 128 /\ x \in -H .. H - 1 /\ y \in -H .. H - 1 /\ y # 0
    BY HalfIs, SignedIs
  <1>2. /\ Magnitude(x) \in Nat /\ Magnitude(y) \in Nat /\ Magnitude(y) > 0
        /\ Magnitude(x) <= H /\ Magnitude(y) <= H
        /\ (Magnitude(y) = 1 => y = 1 \/ y = -1) /\ (Magnitude(x) = H => x = -H)
    BY <1>1 DEF Magnitude
  <1>3. d \in Nat /\ d <= Magnitude(x) /\ (Magnitude(y) >= 2 => 2 * d <= Magnitude(x))
    BY <1>2, Halves
  <1>4. /\ n \in Int /\ r \in Int /\ Magnitude(r) < Magnitude(y) /\ Magnitude(n) = d
        /\ (x < 0) # (y < 0) => n <= 0
    <2>1. x \in Int /\ y \in Int
      BY <1>1
    <2> HIDE DEF x, y
    <2> QED
      BY <1>1, <2>1, QuotientIs
  <1>5. ~(x = -H /\ y = -1)
    OBVIOUS
  <1> HIDE DEF x, y, n, r, d, H
  <1>6. r \in -H .. H - 1
    BY <1>1, <1>2, <1>4 DEF Magnitude
  <1>7. n \in -H .. H - 1
    <2>1. (IF n < 0 THEN -n ELSE n) = d
      BY <1>4 DEF Magnitude
    <2>2. -H <= n /\ n <= H
      BY <1>1, <1>2, <1>3, <1>4, <2>1
    <2>3. ASSUME n = H PROVE FALSE
      <3>1. d = H /\ Magnitude(x) = H
        BY <1>1, <1>2, <1>3, <2>1, <2>3
      <3>2. x = -H
        BY <1>2, <3>1
      <3>3. Magnitude(y) = 1
        BY <1>1, <1>2, <1>3, <3>1
      <3>4. y = 1
        BY <1>2, <1>5, <3>2, <3>3
      <3> QED
        BY <1>1, <1>4, <2>3, <3>2, <3>4
    <2> QED
      BY <1>1, <1>4, <2>2, <2>3
  <1> QED
    BY <1>1, <1>6, <1>7 DEF Fits, H, x, y, n, r

\* Unsigned, all of them do.
LEMMA UnsignedQuotient ==
    ASSUME NEW x \in Word, NEW y \in Word, y # 0
    PROVE  Wrap(Quotient(x, y)) = Quotient(x, y) /\ Wrap(Remainder(x, y)) = Remainder(x, y)
  <1> DEFINE W == TwoTo[WordBits]
             n == Quotient(x, y)
             r == Remainder(x, y)
             d == x \div y
  <1>1. x \in Nat /\ y \in Nat /\ x < W /\ y < W /\ y > 0 /\ W \in Nat
    BY SignedIs, HalfIs
  <1>2. Magnitude(x) = x /\ Magnitude(y) = y /\ ((x < 0) = (y < 0))
    BY <1>1 DEF Magnitude
  <1>3. d \in Nat /\ d <= x
    BY <1>1, Halves
  <1>4. n = d
    <2>1. n = (IF (x < 0) = (y < 0) THEN 1 ELSE -1) * d
      BY <1>2 DEF Quotient
    <2> HIDE DEF n, d
    <2> QED
      BY <1>2, <1>3, <2>1
  <1>5. /\ r \in Int /\ Magnitude(r) < Magnitude(y) /\ (r # 0 => (r < 0) = (x < 0))
    BY <1>1, QuotientIs
  <1> HIDE DEF n, r, d, W
  <1>6. r \in Nat /\ r < y
    BY <1>1, <1>2, <1>5 DEF Magnitude
  <1>7. n \in 0..(W - 1) /\ r \in 0..(W - 1)
    BY <1>1, <1>3, <1>4, <1>6
  <1> QED
    BY <1>5, <1>7, WrapIs DEF W, n, r

\* A number's remainder by a power of two loses its last bit when the number does.
LEMMA HalfOf ==
    ASSUME NEW x \in Nat, NEW p \in Nat, p > 0
    PROVE  /\ (x \div 2) % p = (x % (2 * p)) \div 2
           /\ x % 2 = (x % (2 * p)) % 2
           /\ x % (2 * p) \in Nat /\ x % (2 * p) < 2 * p
  <1> DEFINE w == 2 * p
             n == x \div w
             r == x % w
             s == r \div 2
             b == r % 2
  <1>0. \A c \in Nat, e \in Nat : e > 0 => /\ c \div e \in Nat /\ c % e \in 0..(e - 1)
                                         /\ c = e * (c \div e) + (c % e)
    OBVIOUS
  <1>1. w \in Nat /\ w > 0 /\ n \in Nat /\ r \in 0..(w - 1) /\ x = w * n + r
    BY <1>0
  <1>2. s \in Nat /\ b \in 0..1 /\ r = 2 * s + b /\ s < p
    <2>1. r \in Nat /\ r < 2 * p
      BY <1>1
    <2> HIDE DEF r
    <2> QED
      BY <2>1
  <1>3. w * n = 2 * (p * n)
    <2> HIDE DEF n
    <2>1. \A c, e \in Nat : (2 * c) * e = 2 * (c * e)
      OBVIOUS
    <2> QED
      BY <1>1, <2>1
  <1> DEFINE e == p * n
  <1>4. e \in Nat
    <2> HIDE DEF n
    <2>1. \A c, f \in Nat : c * f \in Nat
      OBVIOUS
    <2> QED
      BY <1>1, <2>1
  <1>5. x = 2 * (e + s) + b
    <2>1. x = 2 * e + r
      BY <1>1, <1>3
    <2> HIDE DEF e, r, s, b, n
    <2> QED
      BY <1>2, <1>4, <2>1
  <1> HIDE DEF s, b, r, n, w
  <1>6. x \div 2 = e + s /\ x % 2 = b
    BY <1>2, <1>4, <1>5, DivisionIs
  <1>7. (e + s) % p = s
    <2>1. s \in 0..(p - 1) /\ e + s \in Int
      BY <1>2, <1>4
    <2> QED
      BY <1>1, <2>1, DivisionIs
  <1> QED
    BY <1>1, <1>6, <1>7 DEF s, b, r, w

\* Adding a multiple of p does not change the remainder by p.
LEMMA AddMultiple ==
    ASSUME NEW x \in Nat, NEW p \in Nat, p > 0, NEW k \in Nat
    PROVE  (x + p * k) % p = x % p
  <1> DEFINE n == x \div p
             r == x % p
  <1>1. n \in Nat /\ r \in 0..(p - 1) /\ x = p * n + r
    OBVIOUS
  <1> HIDE DEF n, r
  <1>2. \A a, b, c \in Nat : a * (b + c) = a * b + a * c /\ a * b \in Nat
    OBVIOUS
  <1>3. p * (n + k) = p * n + p * k /\ p * n \in Nat /\ p * k \in Nat
    BY <1>1, <1>2
  <1>4. x + p * k \in Int /\ n + k \in Int /\ x + p * k = p * (n + k) + r
    BY <1>1, <1>3
  <1> QED
    BY <1>1, <1>4, DivisionIs DEF r

\* The signed shift by one halves what counts of a word, whatever comes in at the top.
LEMMA ShiftOne ==
    ASSUME NEW a \in Word, NEW k \in 1..WordBits
    PROVE  /\ ShiftRightSigned(a, 1) \in Word
           /\ ShiftRightSigned(a, 1) % TwoTo[k - 1] = (a % TwoTo[k]) \div 2
           /\ a % 2 = (a % TwoTo[k]) % 2
           /\ a % TwoTo[k] \in Nat
  <1> DEFINE H == TwoTo[WordBits - 1]
             W == TwoTo[WordBits]
             p == TwoTo[k - 1]
             h == a \div 2
  <1>1. k \in 0..WordBits /\ k - 1 \in 0..WordBits /\ WordBits - k \in 0..WordBits /\ 1 \in 1..WordBits
    BY WordIs
  <1>2. p \in Nat /\ p > 0 /\ TwoTo[k] = 2 * p /\ TwoTo[1] = 2
    BY <1>1, TwoToIs
  <1>3. PICK c \in Nat : H = p * c
    <2>1. (k - 1) + (WordBits - k) = WordBits - 1 /\ (k - 1) + (WordBits - k) <= WordBits
      BY <1>1, WordIs
    <2>2. H = p * TwoTo[WordBits - k]
      BY <1>1, <2>1, TwoToPlus
    <2> QED
      BY <1>1, <2>2, TwoToIs
  <1>4. H \in Nat /\ H > 0 /\ W = 2 * H /\ W \in Nat /\ a \in Nat /\ a < W
    BY HalfIs, SignedIs
  <1>5. h \in Nat /\ (a = 2 * h \/ a = 2 * h + 1)
    BY <1>4
  <1>6. ShiftRightSigned(a, 1) = IF a >= H THEN h + H ELSE h
    <2>1. ShiftRightSigned(a, 1) = Wrap(Signed(a) \div 2)
      BY <1>2 DEF ShiftRightSigned
    <2>2. CASE a < H
      <3>1. Signed(a) = a
        BY <2>2, SignedIs
      <3>2. h \in 0..(W - 1)
        BY <1>4, <1>5
      <3>3. Wrap(h) = h
        BY <3>2, WrapIs, <1>4
      <3> QED
        BY <1>4, <2>1, <2>2, <3>1, <3>3
    <2>3. CASE a >= H
      <3>1. Signed(a) = a - W
        BY <2>3, SignedIs
      <3>2. (a - W) \div 2 = h - H
        <4>1. a - W = 2 * (h - H) + 0 \/ a - W = 2 * (h - H) + 1
          BY <1>4, <1>5
        <4>2. a - W \in Int /\ h - H \in Int /\ 0 \in 0..1 /\ 1 \in 0..1
          BY <1>4, <1>5
        <4> HIDE DEF h, H, W
        <4> QED
          BY <4>1, <4>2
      <3>3. h - H \in -W .. -1
        BY <1>4, <1>5
      <3>4. Wrap(h - H) = h - H + W
        BY <3>3, WrapIs, <1>4
      <3> QED
        BY <1>4, <1>5, <2>1, <2>3, <3>1, <3>2, <3>4
    <2> QED
      BY <1>4, <2>2, <2>3
  <1>7. ShiftRightSigned(a, 1) \in Word
    BY <1>1, ShiftWord
  <1>8. (h + H) % p = h % p
    <2> HIDE DEF h, H, p
    <2> QED
      BY <1>2, <1>3, <1>5, AddMultiple
  <1>9. /\ h % p = (a % (2 * p)) \div 2 /\ a % 2 = (a % (2 * p)) % 2 /\ a % (2 * p) \in Nat
    <2> HIDE DEF p
    <2> QED
      BY <1>2, <1>4, HalfOf
  <1> HIDE DEF h, H, p
  <1> QED
    BY <1>2, <1>6, <1>7, <1>8, <1>9 DEF p

(***************************************************************************)
(* Mult's loop keeps hi and lo, with what a still has to add, at the       *)
(* product; nothing is carried out of the high word, because the product   *)
(* fits in two.                                                            *)
(***************************************************************************)
Pair(high, low) == high * TwoTo[WordBits] + low

\* The factors of a product that fits leave room for what is yet to be added.
LEMMA PairRoom ==
    ASSUME NEW high \in Nat, NEW low \in Nat, Pair(high, low) < TwoTo[WordBits] * TwoTo[WordBits]
    PROVE  high < TwoTo[WordBits]
  <1> DEFINE W == TwoTo[WordBits]
  <1>1. W \in Nat /\ high * W + low < W * W
    BY WordIs DEF Pair
  <1> HIDE DEF W
  <1>2. \A a, b, c \in Nat : a >= b => a * c >= b * c
    OBVIOUS
  <1>3. high >= W => high * W >= W * W
    BY <1>1, <1>2
  <1>4. high * W \in Nat /\ W * W \in Nat
    BY <1>1
  <1> QED
    BY <1>1, <1>3, <1>4 DEF W

\* Two pairs of words are added word by word, with the carry of the low words.
LEMMA AddPairs ==
    ASSUME NEW h1 \in Word, NEW l1 \in Word, NEW h2 \in Word, NEW l2 \in Word,
           Pair(h1, l1) + Pair(h2, l2) < TwoTo[WordBits] * TwoTo[WordBits]
    PROVE  Pair(Wrap(h1 + Bit(Wrap(l1 + l2) < l2) + h2), Wrap(l1 + l2)) = Pair(h1, l1) + Pair(h2, l2)
  <1> DEFINE W == TwoTo[WordBits]
             lo == Wrap(l1 + l2)
             c == Bit(lo < l2)
             hi == h1 + c + h2
  <1>1. W \in Nat /\ W > 0 /\ h1 \in 0..(W - 1) /\ l1 \in 0..(W - 1) /\ h2 \in 0..(W - 1) /\ l2 \in 0..(W - 1)
    BY WordIs DEF Word
  <1>2. lo \in 0..(W - 1) /\ c \in 0..1 /\ l1 + l2 = lo + c * W
    <2>1. (l1 + l2 < W => lo = l1 + l2) /\ (l1 + l2 >= W => lo = l1 + l2 - W)
      BY <1>1, WrapIs
    <2>2. c = IF lo < l2 THEN 1 ELSE 0
      BY DEF Bit
    <2> HIDE DEF lo, c, W
    <2>3. CASE l1 + l2 < W
      BY <1>1, <2>1, <2>2, <2>3
    <2>4. CASE l1 + l2 >= W
      BY <1>1, <2>1, <2>2, <2>4
    <2> QED
      BY <1>1, <2>3, <2>4
  <1> HIDE DEF lo, c, W
  <1>3. hi \in Nat /\ lo \in Nat
    BY <1>1, <1>2
  <1>4. Pair(hi, lo) = Pair(h1, l1) + Pair(h2, l2)
    <2>1. Pair(hi, lo) = (h1 + c + h2) * W + lo /\ Pair(h1, l1) = h1 * W + l1 /\ Pair(h2, l2) = h2 * W + l2
      BY DEF Pair, W
    <2>2. \A x, y, z, v \in Int : (x + y + z) * v = x * v + y * v + z * v
      OBVIOUS
    <2>3. (h1 + c + h2) * W = h1 * W + c * W + h2 * W
      BY <1>1, <1>2, <2>2
    <2>4. h1 * W \in Int /\ c * W \in Int /\ h2 * W \in Int
      BY <1>1, <1>2
    <2> QED
      BY <1>1, <1>2, <2>1, <2>3, <2>4
  <1>5. hi < W
    <2>1. Pair(hi, lo) < TwoTo[WordBits] * TwoTo[WordBits]
      BY <1>4
    <2> HIDE DEF hi
    <2> QED
      BY <1>3, <2>1, PairRoom DEF W
  <1>6. Wrap(hi) = hi
    BY <1>1, <1>3, <1>5, WrapIs DEF W
  <1> QED
    BY <1>4, <1>6 DEF lo, c

\* A pair is doubled with the top bit of the low word.
LEMMA DoublePair ==
    ASSUME NEW high \in Word, NEW low \in Word,
           2 * Pair(high, low) < TwoTo[WordBits] * TwoTo[WordBits]
    PROVE  Pair(Wrap(2 * high + Bit(Negative(low))), Wrap(2 * low)) = 2 * Pair(high, low)
  <1> DEFINE W == TwoTo[WordBits]
             lo == Wrap(2 * low)
             c == Bit(Negative(low))
             hi == 2 * high + c
  <1>1. W \in Nat /\ W > 0 /\ high \in 0..(W - 1) /\ low \in 0..(W - 1)
    BY WordIs DEF Word
  <1>2. lo \in 0..(W - 1) /\ c \in 0..1 /\ 2 * low = lo + c * W
    <2>1. (2 * low < W => lo = 2 * low) /\ (2 * low >= W => lo = 2 * low - W)
      BY <1>1, WrapIs
    <2>2. c = IF 2 * low >= W THEN 1 ELSE 0
      BY <1>1, HalfIs DEF Bit, Negative
    <2> HIDE DEF lo, c, W
    <2> QED
      BY <1>1, <2>1, <2>2
  <1> HIDE DEF lo, c, W
  <1>3. hi \in Nat /\ lo \in Nat
    BY <1>1, <1>2
  <1>4. Pair(hi, lo) = 2 * Pair(high, low)
    <2>1. Pair(hi, lo) = (2 * high + c) * W + lo /\ Pair(high, low) = high * W + low
      BY DEF Pair, W
    <2>2. \A x, y, v \in Int : (2 * x + y) * v = 2 * (x * v) + y * v
      OBVIOUS
    <2>3. (2 * high + c) * W = 2 * (high * W) + c * W
      BY <1>1, <1>2, <2>2
    <2>4. high * W \in Int /\ c * W \in Int
      BY <1>1, <1>2
    <2> QED
      BY <1>1, <1>2, <2>1, <2>3, <2>4
  <1>5. hi < W
    <2>1. Pair(hi, lo) < TwoTo[WordBits] * TwoTo[WordBits]
      BY <1>4
    <2> HIDE DEF hi
    <2> QED
      BY <1>3, <2>1, PairRoom DEF W
  <1>6. Wrap(hi) = hi
    BY <1>1, <1>3, <1>5, WrapIs DEF W
  <1> QED
    BY <1>4, <1>6 DEF lo, c

\* What hi and lo hold, and what the k low bits of a still have to add to it, make up the product.
Owes(m, k, total) == Pair(m.hi, m.lo) + (m.a % TwoTo[k]) * Pair(m.bHi, m.bLo) = total

\* A pair of words is a natural number.
LEMMA PairNat ==
    ASSUME NEW high \in Word, NEW low \in Word
    PROVE  Pair(high, low) \in Nat
  <1>1. high \in Nat /\ low \in Nat /\ TwoTo[WordBits] \in Nat
    BY WordIs
  <1> QED
    BY <1>1 DEF Pair

\* A turn of the loop pays for one bit of a and owes the rest to a shifted b.
LEMMA MultTurnOwes ==
    ASSUME NEW m \in Factors, NEW k \in 1..WordBits, NEW total \in Nat,
           total < TwoTo[WordBits] * TwoTo[WordBits], m.a # 0, Owes(m, k, total)
    PROVE  Owes(MultTurn(m), k - 1, total)
  <1> DEFINE r == m.a % TwoTo[k]
             s == r \div 2
             acc == Pair(m.hi, m.lo)
             shifted == Pair(m.bHi, m.bLo)
             lo == Wrap(m.lo + m.bLo)
             hi == Wrap(m.hi + Bit(lo < m.bLo) + m.bHi)
             added == IF m.a % 2 = 1 THEN [m EXCEPT !.lo = lo, !.hi = hi] ELSE m
             bHi == Wrap(2 * m.bHi + Bit(Negative(m.bLo)))
             bLo == Wrap(2 * m.bLo)
             half == ShiftRightSigned(m.a, 1)
             next == MultTurn(m)
  <1>1. m.a \in Word /\ m.bLo \in Word /\ m.bHi \in Word /\ m.lo \in Word /\ m.hi \in Word
    BY DEF Factors
  <1>2. acc \in Nat /\ shifted \in Nat /\ acc + r * shifted = total
    BY <1>1, PairNat DEF Owes
  <1>3. /\ half \in Word /\ half % TwoTo[k - 1] = s /\ r \in Nat /\ m.a % 2 = r % 2
        /\ s \in Nat /\ (r = 2 * s \/ r = 2 * s + 1)
    <2>1. half \in Word /\ half % TwoTo[k - 1] = s /\ r \in Nat /\ m.a % 2 = r % 2
      BY <1>1, ShiftOne
    <2> HIDE DEF r
    <2> QED
      BY <2>1
  <1>4. next = IF m.a = 1 THEN [added EXCEPT !.a = 0]
               ELSE [added EXCEPT !.bHi = bHi, !.bLo = bLo, !.a = half]
    BY DEF MultTurn
  <1> HIDE DEF r, s, acc, shifted
  <1>5. /\ s * shifted \in Nat
        /\ r = 2 * s => r * shifted = 2 * (s * shifted)
        /\ r = 2 * s + 1 => r * shifted = 2 * (s * shifted) + shifted
        /\ s >= 1 => s * shifted >= shifted
        /\ s = 0 => s * shifted = 0
        /\ s * (2 * shifted) = 2 * (s * shifted)
    <2>1. \A c, e \in Nat : /\ c * e \in Nat /\ (2 * c) * e = 2 * (c * e)
                            /\ (2 * c + 1) * e = 2 * (c * e) + e
                            /\ (c >= 1 => c * e >= e) /\ (c = 0 => c * e = 0)
                            /\ c * (2 * e) = 2 * (c * e)
      OBVIOUS
    <2> QED
      BY <1>2, <1>3, <2>1
  <1>6. /\ Pair(added.hi, added.lo) = acc + (r - 2 * s) * shifted
        /\ Pair(added.hi, added.lo) + 2 * (s * shifted) = total
        /\ added.hi \in Word /\ added.lo \in Word
        /\ added.bHi = m.bHi /\ added.bLo = m.bLo /\ added \in Factors
    <2>1. CASE r = 2 * s + 1
      <3>1. m.a % 2 = 1
        BY <1>3, <2>1
      <3>2. added = [m EXCEPT !.lo = lo, !.hi = hi]
        BY <3>1
      <3>3. acc + shifted < TwoTo[WordBits] * TwoTo[WordBits]
        <4>1. acc + shifted <= total
          BY <1>2, <1>5, <2>1
        <4>2. TwoTo[WordBits] * TwoTo[WordBits] \in Nat
          BY WordIs
        <4> QED
          BY <1>2, <4>1, <4>2
      <3>4. Pair(hi, lo) = acc + shifted
        BY <1>1, <3>3, AddPairs DEF acc, shifted
      <3>5. hi \in Word /\ lo \in Word
        <4>1. m.lo + m.bLo \in Int /\ m.hi + Bit(lo < m.bLo) + m.bHi \in Int
          <5>1. m.lo \in Nat /\ m.bLo \in Nat /\ m.hi \in Nat /\ m.bHi \in Nat /\ Bit(lo < m.bLo) \in Nat
            BY <1>1, WordIs, BitWord
          <5> QED
            BY <5>1
        <4> QED
          BY <4>1, WrapWord
      <3> HIDE DEF hi, lo
      <3>6. added.hi = hi /\ added.lo = lo /\ added.bHi = m.bHi /\ added.bLo = m.bLo /\ added \in Factors
        BY <3>2, <3>5 DEF Factors
      <3> QED
        BY <1>2, <1>3, <1>5, <2>1, <3>4, <3>5, <3>6
    <2>2. CASE r = 2 * s
      <3>1. m.a % 2 # 1
        BY <1>3, <2>2
      <3>2. added = m
        BY <3>1
      <3> HIDE DEF added
      <3> QED
        BY <1>1, <1>2, <1>3, <1>5, <2>2, <3>2 DEF acc
    <2> QED
      BY <1>3, <2>1, <2>2
  <1> HIDE DEF hi, lo, added
  <1>7. CASE m.a = 1
    <2>1. s = 0
      <3>1. TwoTo[k] \in Nat /\ TwoTo[k] >= 2
        <4>1. k - 1 \in 0..WordBits /\ TwoTo[k] = 2 * TwoTo[k - 1]
          BY TwoToIs, WordIs
        <4> QED
          BY <4>1, TwoToIs
      <3>2. r = 1
        BY <1>7, <3>1 DEF r
      <3> QED
        BY <1>3, <3>2
    <2>2. next = [added EXCEPT !.a = 0]
      BY <1>4, <1>7
    <2> HIDE DEF next
    <2>3. next.hi = added.hi /\ next.lo = added.lo /\ next.a = 0 /\ next.bHi = m.bHi /\ next.bLo = m.bLo
      BY <1>6, <2>2 DEF Factors
    <2>4. 0 % TwoTo[k - 1] = 0
      BY TwoToIs, WordIs
    <2>5. Pair(next.hi, next.lo) = total /\ Pair(next.bHi, next.bLo) \in Nat
      <3>1. Pair(added.hi, added.lo) \in Nat
        BY <1>6, PairNat
      <3> QED
        BY <1>2, <1>5, <1>6, <2>1, <2>3, <3>1 DEF shifted
    <2> QED
      BY <2>3, <2>4, <2>5 DEF Owes, next
  <1>8. CASE m.a # 1
    <2>1. next = [added EXCEPT !.bHi = bHi, !.bLo = bLo, !.a = half]
      BY <1>4, <1>8
    <2>2. bHi \in Word /\ bLo \in Word
      <3>1. 2 * m.bLo \in Int /\ 2 * m.bHi + Bit(Negative(m.bLo)) \in Int
        <4>1. m.bLo \in Nat /\ m.bHi \in Nat /\ Bit(Negative(m.bLo)) \in Nat
          BY <1>1, WordIs, BitWord
        <4> QED
          BY <4>1
      <3> QED
        BY <3>1, WrapWord
    <2>3. s >= 1 => Pair(bHi, bLo) = 2 * shifted
      <3>1. HAVE s >= 1
      <3>2. 2 * shifted < TwoTo[WordBits] * TwoTo[WordBits]
        <4>1. Pair(added.hi, added.lo) \in Nat
          BY <1>6, PairNat
        <4>2. 2 * shifted <= total
          BY <1>2, <1>5, <1>6, <3>1, <4>1
        <4>3. TwoTo[WordBits] * TwoTo[WordBits] \in Nat
          BY WordIs
        <4> QED
          BY <1>2, <4>2, <4>3
      <3> QED
        BY <1>1, <3>2, DoublePair DEF shifted
    <2> HIDE DEF next, bHi, bLo, half
    <2>4. next.hi = added.hi /\ next.lo = added.lo /\ next.a = half /\ next.bHi = bHi /\ next.bLo = bLo
      BY <1>6, <2>1 DEF Factors
    <2>5. s * Pair(bHi, bLo) = 2 * (s * shifted)
      <3>1. CASE s >= 1
        BY <1>5, <2>3, <3>1
      <3>2. CASE s = 0
        <4>1. Pair(bHi, bLo) \in Nat
          BY <2>2, PairNat
        <4> QED
          BY <1>5, <3>2, <4>1
      <3> QED
        BY <1>3, <3>1, <3>2
    <2>6. half % TwoTo[k - 1] = s
      BY <1>3
    <2> QED
      BY <1>6, <2>4, <2>5, <2>6 DEF Owes, next
  <1> QED
    BY <1>7, <1>8

\* At the end nothing is owed: hi and lo are the product of the factors.
LEMMA MultLoopExact ==
    ASSUME NEW a \in Word, NEW b \in Word, NEW signedArith \in BOOLEAN, NEW turn,
           MultLoop(turn, a, b, signedArith)
    PROVE  /\ turn[WordBits] \in Factors
           /\ Pair(turn[WordBits].hi, turn[WordBits].lo) = Positive(a, signedArith) * Positive(b, signedArith)
  <1> DEFINE A == Positive(a, signedArith)
             B == Positive(b, signedArith)
             W == TwoTo[WordBits]
             total == A * B
  <1>1. A \in Word /\ B \in Word /\ A \in Nat /\ B \in Nat /\ A < W /\ B < W /\ W \in Nat
    BY PositiveWord, WordIs, SignedIs
  <1>2. /\ turn[0] = [a |-> A, bLo |-> B, bHi |-> 0, lo |-> 0, hi |-> 0]
        /\ \A n \in 1..WordBits : turn[n] = IF turn[n - 1].a = 0 THEN turn[n - 1] ELSE MultTurn(turn[n - 1])
        /\ \A n \in 0..WordBits : turn[n] \in Factors
    BY DEF MultLoop
  <1> HIDE DEF A, B, W
  <1>3. total \in Nat /\ total < W * W
    <2>1. \A x, y, z \in Nat : x < z /\ y < z => x * y \in Nat /\ x * y < z * z
      <3>1. TAKE x, y, z \in Nat
      <3>2. HAVE x < z /\ y < z
      <3>3. \A c, d, e \in Nat : c <= d => c * e <= d * e /\ e * c <= e * d /\ c * e \in Nat
        OBVIOUS
      <3>4. x * y <= x * z /\ (x + 1) * z <= z * z
        BY <3>2, <3>3
      <3>5. (x + 1) * z = x * z + z
        OBVIOUS
      <3>6. x * y \in Nat /\ x * z \in Nat /\ z * z \in Nat
        BY <3>2, <3>3
      <3> QED
        BY <3>2, <3>4, <3>5, <3>6
    <2> QED
      BY <1>1, <2>1
  <1> DEFINE S == {n \in 0..WordBits : Owes(turn[n], WordBits - n, total)}
  <1>4. 0 \in S
    <2>1. A % TwoTo[WordBits] = A
      BY <1>1 DEF W
    <2>2. Pair(0, 0) = 0 /\ Pair(0, B) = B
      BY <1>1, WordIs DEF Pair
    <2>3. 0 + A * B = A * B
      BY <1>3
    <2>4. Owes(turn[0], WordBits, total)
      BY <1>2, <2>1, <2>2, <2>3 DEF Owes
    <2>5. WordBits - 0 = WordBits /\ 0 \in 0..WordBits
      BY WordIs
    <2> QED
      BY <2>4, <2>5
  <1>5. \A n \in 1..WordBits : n - 1 \in S => n \in S
    <2>1. TAKE n \in 1..WordBits
    <2>2. HAVE n - 1 \in S
    <2> DEFINE m == turn[n - 1]
               k == WordBits - (n - 1)
    <2>3. k \in 1..WordBits /\ k - 1 = WordBits - n /\ n \in 0..WordBits /\ n - 1 \in 0..WordBits
      BY WordIs
    <2>4. Owes(m, k, total) /\ m \in Factors
      BY <1>2, <2>2, <2>3
    <2>5. turn[n] = IF m.a = 0 THEN m ELSE MultTurn(m)
      BY <1>2
    <2> HIDE DEF m, k, total
    <2>6. CASE m.a = 0
      <3>1. 0 % TwoTo[k] = 0 /\ 0 % TwoTo[k - 1] = 0
        BY <2>3, TwoToIs, WordIs
      <3>2. Owes(m, k - 1, total)
        BY <2>4, <2>6, <3>1 DEF Owes
      <3> QED
        BY <2>3, <2>5, <2>6, <3>2
    <2>7. CASE m.a # 0
      <3>1. Owes(MultTurn(m), k - 1, total)
        BY <1>3, <2>3, <2>4, <2>7, MultTurnOwes DEF W
      <3> QED
        BY <2>3, <2>5, <2>7, <3>1
    <2> QED
      BY <2>6, <2>7
  <1> HIDE DEF S
  <1>6. WordBits \in S
    <2>1. 0..WordBits \subseteq S
      BY <1>4, <1>5, UpTo, WordIs
    <2> QED
      BY <2>1, WordIs
  <1>7. Owes(turn[WordBits], 0, total)
    <2>1. WordBits - WordBits = 0
      BY WordIs
    <2> QED
      BY <1>6, <2>1 DEF S
  <1>8. turn[WordBits] \in Factors
    BY <1>2, WordIs
  <1> DEFINE last == turn[WordBits]
  <1>9. last.a % TwoTo[0] = 0
    <2>1. last.a \in Nat
      BY <1>8, WordIs DEF Factors
    <2> QED
      BY <2>1, TwoToIs
  <1>10. Pair(last.hi, last.lo) \in Nat /\ Pair(last.bHi, last.bLo) \in Nat
    BY <1>8, PairNat DEF Factors
  <1> HIDE DEF last, total
  <1>11. Pair(last.hi, last.lo) = total
    BY <1>7, <1>9, <1>10 DEF Owes, last
  <1> QED
    BY <1>8, <1>11 DEF last, total, A, B

\* The words that Mult makes of the product of two signed words, and of its negation, read as their product.
SignedPair(a, b, high, low) ==
    /\ Negative(a) = Negative(b) =>
         Signed(high) * TwoTo[WordBits] + low = Signed(a) * Signed(b)
    /\ Negative(a) # Negative(b) =>
         Signed(Wrap(Complement(high) + Bit(low = 0))) * TwoTo[WordBits] + Wrap(-low) = Signed(a) * Signed(b)

\* A signed product takes no more than half of what an unsigned one may.
LEMMA SignedProduct ==
    ASSUME NEW a \in Word, NEW b \in Word, NEW high \in Word, NEW low \in Word,
           a # 0, b # 0, Pair(high, low) = Positive(a, TRUE) * Positive(b, TRUE)
    PROVE  SignedPair(a, b, high, low)
  <1> DEFINE H == TwoTo[WordBits - 1]
             W == TwoTo[WordBits]
             A == Positive(a, TRUE)
             B == Positive(b, TRUE)
             x == Signed(a)
             y == Signed(b)
             e == A * B
  <1>1. H \in Nat /\ H >= 128 /\ W = 2 * H /\ W \in Nat
    BY HalfIs
  <1>2. /\ a \in 1..(W - 1) /\ b \in 1..(W - 1) /\ high \in 0..(W - 1) /\ low \in 0..(W - 1)
    BY <1>1 DEF Word
  <1>3. /\ A = (IF a >= H THEN W - a ELSE a) /\ A \in 1..H
        /\ x = (IF a >= H THEN -A ELSE A)
        /\ (Negative(a) <=> a >= H)
    <2>1. a >= H => Wrap(-a) = -a + W
      BY <1>1, <1>2, WrapIs
    <2>2. A = IF a >= H THEN Wrap(-a) ELSE a
      BY DEF Positive, Negative
    <2>3. x = IF a >= H THEN a - W ELSE a
      BY DEF Signed, Negative
    <2> HIDE DEF A, x, H, W
    <2> QED
      BY <1>1, <1>2, <2>1, <2>2, <2>3 DEF Negative, H
  <1>4. /\ B = (IF b >= H THEN W - b ELSE b) /\ B \in 1..H
        /\ y = (IF b >= H THEN -B ELSE B)
        /\ (Negative(b) <=> b >= H)
    <2>1. b >= H => Wrap(-b) = -b + W
      BY <1>1, <1>2, WrapIs
    <2>2. B = IF b >= H THEN Wrap(-b) ELSE b
      BY DEF Positive, Negative
    <2>3. y = IF b >= H THEN b - W ELSE b
      BY DEF Signed, Negative
    <2> HIDE DEF B, y, H, W
    <2> QED
      BY <1>1, <1>2, <2>1, <2>2, <2>3 DEF Negative, H
  <1>5. Signed(high) = (IF high >= H THEN high - W ELSE high) /\ high * W + low = e
    BY DEF Signed, Negative, Pair
  <1> HIDE DEF A, B, H, W, x, y
  <1>6. e \in Nat /\ e >= 1 /\ e <= H * H
    <2>1. \A c, d, f \in Nat : c <= d => c * f <= d * f /\ f * c <= f * d /\ c * f \in Nat
      OBVIOUS
    <2>2. 1 * B <= A * B /\ A * B <= A * H /\ A * H <= H * H /\ A * B \in Nat
      BY <1>1, <1>3, <1>4, <2>1
    <2> HIDE DEF e
    <2>3. 1 * B = B
      BY <1>4
    <2>4. A * H \in Nat /\ H * H \in Nat
      BY <1>1, <1>3
    <2> QED
      BY <1>4, <2>2, <2>3, <2>4 DEF e
  <1>7. x * y = IF (a >= H <=> b >= H) THEN e ELSE -e
    <2>1. \A c, d \in Int : (-c) * d = -(c * d) /\ c * (-d) = -(c * d) /\ (-c) * (-d) = c * d
      OBVIOUS
    <2>2. A \in Int /\ B \in Int
      BY <1>1, <1>3, <1>4
    <2>3. CASE a >= H /\ b >= H
      <3>1. x = -A /\ y = -B
        BY <1>3, <1>4, <2>3
      <3> QED
        BY <2>1, <2>2, <2>3, <3>1
    <2>4. CASE a >= H /\ ~(b >= H)
      <3>1. x = -A /\ y = B
        BY <1>3, <1>4, <2>4
      <3> QED
        BY <2>1, <2>2, <2>4, <3>1
    <2>5. CASE ~(a >= H) /\ b >= H
      <3>1. x = A /\ y = -B
        BY <1>3, <1>4, <2>5
      <3> QED
        BY <2>1, <2>2, <2>5, <3>1
    <2>6. CASE ~(a >= H) /\ ~(b >= H)
      <3>1. x = A /\ y = B
        BY <1>3, <1>4, <2>6
      <3> QED
        BY <2>6, <3>1
    <2> QED
      BY <2>3, <2>4, <2>5, <2>6
  <1> HIDE DEF e
  <1>8. high < H
    <2>1. high * W <= H * H /\ high * W = 2 * (high * H)
      <3>1. high * W = 2 * (high * H) /\ high * H \in Nat
        <4>1. \A c, d \in Nat : c * (2 * d) = 2 * (c * d) /\ c * d \in Nat
          OBVIOUS
        <4> QED
          BY <1>1, <1>2, <4>1
      <3>2. H * H \in Nat
        BY <1>1
      <3> QED
        BY <1>2, <1>5, <1>6, <3>1, <3>2
    <2>2. \A c, d \in Nat : c >= d => c * d >= d * d
      OBVIOUS
    <2>3. high >= H => high * H >= H * H
      BY <1>1, <1>2, <2>2
    <2>4. H * H >= 1 /\ H * H \in Nat /\ high * H \in Nat
      BY <1>1, <1>2
    <2> QED
      BY <1>1, <1>2, <2>1, <2>3, <2>4
  <1>11. (Negative(a) = Negative(b)) <=> (a >= H <=> b >= H)
    BY DEF Negative, H
  <1>9. CASE a >= H <=> b >= H
    <2>1. ~(Negative(a) # Negative(b))
      BY <1>11, <1>9
    <2>2. Signed(high) = high
      BY <1>1, <1>2, <1>5, <1>8
    <2>3. Signed(high) * W + low = x * y
      BY <1>5, <1>7, <1>9, <2>2
    <2> QED
      BY <2>1, <2>3 DEF W, x, y, SignedPair
  <1>10. CASE ~(a >= H <=> b >= H)
    <2>1. ~(Negative(a) = Negative(b))
      BY <1>11, <1>10
    <2> DEFINE c == Complement(high) + Bit(low = 0)
               h2 == Wrap(c)
               l2 == Wrap(-low)
    <2>2. c = W - 1 - high + (IF low = 0 THEN 1 ELSE 0)
      BY DEF Complement, Bit, W
    <2>3. \A n \in Int : n * W \in Int /\ (-1 - n) * W = -(n * W) - W /\ (-n) * W = -(n * W)
      BY <1>1
    <2>4. Signed(h2) * W + l2 = -e
      <3>1. CASE low = 0
        <4>1. high # 0
          <5>1. 0 * W = 0
            BY <1>1
          <5> QED
            BY <1>5, <1>6, <3>1, <5>1
        <4>2. c = W - high /\ c \in 0..(W - 1)
          BY <1>1, <1>2, <2>2, <3>1, <4>1
        <4>3. h2 = c
          BY <1>1, <4>2, WrapIs DEF W
        <4>4. l2 = 0
          <5>1. -low \in Int /\ -low >= 0 /\ -low <= 0
            BY <1>1, <1>2, <3>1
          <5>2. -low \in 0..(W - 1)
            BY <1>1, <5>1
          <5>3. l2 = -low
            BY <5>1, <5>2, WrapIs DEF W
          <5> QED
            BY <5>1, <5>3
        <4>5. Signed(h2) = -high
          <5>1. h2 >= H
            BY <1>1, <1>2, <1>8, <4>2, <4>3
          <5>2. Signed(h2) = h2 - W
            BY <5>1 DEF Signed, Negative, H, W
          <5> QED
            BY <1>1, <1>2, <4>2, <4>3, <5>2
        <4> HIDE DEF h2, l2, c
        <4>6. (-high) * W = -(high * W) /\ high * W \in Int
          BY <1>2, <2>3
        <4> QED
          BY <1>5, <3>1, <4>4, <4>5, <4>6
      <3>2. CASE low # 0
        <4>1. c = W - 1 - high /\ c \in 0..(W - 1)
          BY <1>1, <1>2, <2>2, <3>2
        <4>2. h2 = c
          BY <1>1, <4>1, WrapIs DEF W
        <4>3. l2 = W - low
          <5>1. -low \in -W .. -1 /\ -low \in Int
            BY <1>1, <1>2, <3>2
          <5>2. l2 = -low + W
            BY <5>1, WrapIs DEF W
          <5> QED
            BY <1>1, <1>2, <5>2
        <4>4. Signed(h2) = -1 - high
          <5>1. h2 >= H
            BY <1>1, <1>2, <1>8, <4>1, <4>2
          <5>2. Signed(h2) = h2 - W
            BY <5>1 DEF Signed, Negative, H, W
          <5> QED
            BY <1>1, <1>2, <4>1, <4>2, <5>2
        <4> HIDE DEF h2, l2, c
        <4>5. (-1 - high) * W = -(high * W) - W /\ high * W \in Int
          BY <1>2, <2>3
        <4> QED
          BY <1>1, <1>2, <1>5, <4>3, <4>4, <4>5
      <3> QED
        BY <3>1, <3>2
    <2>5. Signed(h2) * W + l2 = x * y
      BY <1>7, <1>10, <2>4
    <2> QED
      BY <2>1, <2>5 DEF W, x, y, SignedPair
  <1> QED
    BY <1>9, <1>10

\* Mult gives the product of its operands, unsigned
LEMMA MultUnsigned ==
    ASSUME NEW a \in Word, NEW b \in Word
    PROVE  Mult(a, b, FALSE)[1] * TwoTo[WordBits] + Mult(a, b, FALSE)[2] = a * b
  <1> DEFINE product == Mult(a, b, FALSE)
  <1>1. PICK turn : /\ MultLoop(turn, a, b, FALSE)
                    /\ product =
                         IF a = 0 \/ b = 0 THEN <<0, 0>>
                         ELSE IF ~(FALSE /\ Negative(a) # Negative(b))
                              THEN <<turn[WordBits].hi, turn[WordBits].lo>>
                         ELSE <<Wrap(Complement(turn[WordBits].hi) + Bit(turn[WordBits].lo = 0)),
                                Wrap(-turn[WordBits].lo)>>
    <2>1. FALSE \in BOOLEAN
      OBVIOUS
    <2> QED
      BY <2>1, MultIs, Zenon
  <1> HIDE DEF product
  <1>2. Positive(a, FALSE) = a /\ Positive(b, FALSE) = b
    BY DEF Positive
  <1>3. Pair(turn[WordBits].hi, turn[WordBits].lo) = a * b
    <2>1. FALSE \in BOOLEAN
      OBVIOUS
    <2>2. Pair(turn[WordBits].hi, turn[WordBits].lo) = Positive(a, FALSE) * Positive(b, FALSE)
      BY <1>1, <2>1, MultLoopExact, Zenon
    <2> QED
      BY <1>2, <2>2
  <1>4. CASE a = 0 \/ b = 0
    <2>1. product[1] = 0 /\ product[2] = 0
      BY <1>1, <1>4
    <2>2. a \in Nat /\ b \in Nat /\ TwoTo[WordBits] \in Nat
      BY WordIs
    <2>3. a * b = 0 /\ 0 * TwoTo[WordBits] + 0 = 0
      BY <1>4, <2>2
    <2> QED
      BY <2>1, <2>3 DEF product
  <1>5. CASE ~(a = 0 \/ b = 0)
    <2>1. product = <<turn[WordBits].hi, turn[WordBits].lo>>
      BY <1>1, <1>5
    <2>2. product[1] = turn[WordBits].hi /\ product[2] = turn[WordBits].lo
      BY <2>1
    <2> QED
      BY <1>3, <2>2 DEF Pair, product
  <1> QED
    BY <1>4, <1>5

\* and signed.
LEMMA MultSigned ==
    ASSUME NEW a \in Word, NEW b \in Word
    PROVE  Signed(Mult(a, b, TRUE)[1]) * TwoTo[WordBits] + Mult(a, b, TRUE)[2] = Signed(a) * Signed(b)
  <1> DEFINE product == Mult(a, b, TRUE)
  <1>1. PICK turn : /\ MultLoop(turn, a, b, TRUE)
                    /\ product =
                         IF a = 0 \/ b = 0 THEN <<0, 0>>
                         ELSE IF ~(TRUE /\ Negative(a) # Negative(b))
                              THEN <<turn[WordBits].hi, turn[WordBits].lo>>
                         ELSE <<Wrap(Complement(turn[WordBits].hi) + Bit(turn[WordBits].lo = 0)),
                                Wrap(-turn[WordBits].lo)>>
    <2>1. TRUE \in BOOLEAN
      OBVIOUS
    <2> QED
      BY <2>1, MultIs, Zenon
  <1> HIDE DEF product
  <1> DEFINE high == turn[WordBits].hi
             low == turn[WordBits].lo
  <1>2. /\ high \in Word /\ low \in Word
        /\ Pair(high, low) = Positive(a, TRUE) * Positive(b, TRUE)
    <2>1. TRUE \in BOOLEAN
      OBVIOUS
    <2>2. turn[WordBits] \in Factors /\ Pair(high, low) = Positive(a, TRUE) * Positive(b, TRUE)
      BY <1>1, <2>1, MultLoopExact, Zenon
    <2> QED
      BY <2>2 DEF Factors
  <1>3. CASE a = 0 \/ b = 0
    <2>1. product[1] = 0 /\ product[2] = 0
      BY <1>1, <1>3
    <2>2. Signed(a) \in Int /\ Signed(b) \in Int /\ TwoTo[WordBits] \in Nat
      BY SignedInt, WordIs
    <2>3. Signed(0) = 0
      <3>1. 0 \in Word /\ 0 < TwoTo[WordBits - 1]
        BY HalfIs, WordIs
      <3> QED
        BY <3>1, SignedIs
    <2>4. Signed(a) * Signed(b) = 0 /\ 0 * TwoTo[WordBits] + 0 = 0
      BY <1>3, <2>2, <2>3
    <2> QED
      BY <2>1, <2>3, <2>4 DEF product
  <1>4. CASE ~(a = 0 \/ b = 0)
    <2>1. product = IF ~(Negative(a) # Negative(b)) THEN <<high, low>>
                    ELSE <<Wrap(Complement(high) + Bit(low = 0)), Wrap(-low)>>
      BY <1>1, <1>4
    <2>0. a # 0 /\ b # 0
      BY <1>4
    <2> HIDE DEF high, low
    <2>4. SignedPair(a, b, high, low)
      BY <1>2, <2>0, SignedProduct
    <2>2. CASE Negative(a) = Negative(b)
      <3>1. product[1] = high /\ product[2] = low
        BY <2>1, <2>2
      <3>2. Signed(high) * TwoTo[WordBits] + low = Signed(a) * Signed(b)
        BY <2>4, <2>2 DEF SignedPair
      <3> QED
        BY <3>1, <3>2 DEF product
    <2>3. CASE Negative(a) # Negative(b)
      <3>1. product[1] = Wrap(Complement(high) + Bit(low = 0)) /\ product[2] = Wrap(-low)
        BY <2>1, <2>3
      <3>2. Signed(Wrap(Complement(high) + Bit(low = 0))) * TwoTo[WordBits] + Wrap(-low) = Signed(a) * Signed(b)
        BY <2>4, <2>3 DEF SignedPair
      <3> QED
        BY <3>1, <3>2 DEF product
    <2> QED
      BY <2>2, <2>3
  <1> QED
    BY <1>3, <1>4

(***************************************************************************)
(* What the instructions leave in the registers they write.                *)
(***************************************************************************)

\* An instruction's own result stands, unless a load lands on it or it is register 0.
LEMMA CompleteLeaves ==
    ASSUME NEW regs, IsRegisters(regs), NEW pcAfter, Complete(regs, pcAfter),
           NEW r \in GPRegs \cup {HiReg, LoReg}, r # 0, r # regs[LoadReg]
    PROVE  registers'[r] = regs[r]
  <1> DEFINE landed == [regs EXCEPT ![regs[LoadReg]] = regs[LoadValueReg]]
             delayed == [landed EXCEPT ![LoadReg] = 0, ![LoadValueReg] = 0, ![0] = 0]
  <1>1. registers' = Advance(DelayedLoad(regs, 0, 0), pcAfter)
    BY DEF Complete
  <1>2. DelayedLoad(regs, 0, 0) = delayed
    BY DEF DelayedLoad
  <1>3. regs \in [AllRegs -> Word] /\ r \in AllRegs
    BY RegsAre DEF IsRegisters
  <1>4. r \notin {PCReg, NextPCReg, PrevPCReg, LoadReg, LoadValueReg}
    BY RegsAre DEF HiReg, LoReg, PCReg, NextPCReg, PrevPCReg, LoadReg, LoadValueReg
  <1>5. landed[r] = regs[r] /\ DOMAIN landed = AllRegs
    BY <1>3
  <1> HIDE DEF landed
  <1>6. delayed[r] = regs[r] /\ DOMAIN delayed = AllRegs
    BY <1>3, <1>4, <1>5
  <1> HIDE DEF delayed
  <1>7. Advance(delayed, pcAfter)[r] = delayed[r]
    BY <1>3, <1>4, <1>6 DEF Advance
  <1> QED
    BY <1>1, <1>2, <1>6, <1>7

\* One of the three sums is a step of Compute, or one of Overflow.
LEMMA SumSteps ==
    ASSUME OneInstruction, Executes({"ADD", "ADDI", "SUB"})
    PROVE  \/ Overflow
           \/ /\ ~Overflows /\ instr.opCode \in {"ADD", "SUB"}
              /\ Complete([registers EXCEPT ![instr.rd] = RegisterResult], NextAfter)
           \/ /\ ~Overflows /\ instr.opCode = "ADDI"
              /\ Complete([registers EXCEPT ![instr.rt] = ImmediateResult], NextAfter)
  <1>1. /\ FetchException = "NoException" /\ instr.opCode \in {"ADD", "ADDI", "SUB"}
    BY DEF Executes
  <1>2. /\ ~FetchFault /\ ~Multiply /\ ~MoveToHiLo /\ ~Divide /\ ~DivideCrash /\ ~Branch /\ ~Jump
        /\ ~UnalignedAssert /\ ~Trap
    BY <1>1 DEF FetchFault, Multiply, MoveToHiLo, Divide, DivideCrash, Branch, Jump, UnalignedAssert, Trap,
                Executes, Branches, Unaligned
  <1>3. ~DataFault /\ ~Load /\ ~Store
    BY <1>1 DEF DataFault, Load, Store, Executes, LoadSize, StoreSize
  <1>4. Compute \/ Overflow
    BY <1>2, <1>3 DEF OneInstruction
  <1> QED
    BY <1>1, <1>4 DEF Compute, Executes, ThreeRegister, Immediate

\* The sums.
LEMMA SumStep ==
    ASSUME MachineInv, OneInstruction
    PROVE  SumExact
  <1> DEFINE second == IF instr.opCode = "ADDI" THEN instr.extra ELSE rt
             sum == IF instr.opCode = "ADDI" THEN Signed(rs) + Signed(instr.extra)
                    ELSE IF instr.opCode = "ADD" THEN Signed(rs) + Signed(rt) ELSE Signed(rs) - Signed(rt)
             wrapped == IF instr.opCode = "SUB" THEN Wrap(rs - rt) ELSE Wrap(rs + second)
             target == IF instr.opCode = "ADDI" THEN instr.rt ELSE instr.rd
  <1>1. SUFFICES ASSUME Executes({"ADD", "ADDI", "SUB"})
                 PROVE  IF Fits(sum) THEN target \in {0, registers[LoadReg]} \/ Signed(registers'[target]) = sum
                        ELSE status' = "aborted"
    BY DEF SumExact
  <1>2. InProgram /\ instr.opCode \in {"ADD", "ADDI", "SUB"}
    BY <1>1 DEF Executes
  <1>3. /\ rs \in Word /\ rt \in Word /\ second \in Word
        /\ instr.rt \in GPRegs /\ instr.rd \in GPRegs /\ target \in GPRegs
    <2>1. Decoded(instr)
      BY <1>2, InstrIs
    <2>2. instr.rt \in GPRegs /\ instr.rd \in GPRegs /\ instr.extra \in Word
      BY <1>2, <2>1 DEF Decoded
    <2> QED
      BY <1>2, <2>2, Operands
  <1>4. (Fits(sum) <=> ~Overflows) /\ (Fits(sum) => Signed(wrapped) = sum)
    <2>1. CASE instr.opCode = "SUB"
      <3>1. sum = Signed(rs) - Signed(rt) /\ wrapped = Wrap(rs - rt)
        BY <2>1
      <3>2. Overflows <=> (Negative(rs) # Negative(rt) /\ Negative(Wrap(rs - rt)) # Negative(rs))
        BY <2>1 DEF Overflows
      <3> HIDE DEF sum, wrapped
      <3> QED
        BY <1>3, <3>1, <3>2, SubtractFits
    <2>2. CASE instr.opCode \in {"ADD", "ADDI"}
      <3>1. sum = Signed(rs) + Signed(second) /\ wrapped = Wrap(rs + second)
        BY <2>2
      <3>2. Overflows <=> (Negative(rs) = Negative(second) /\ Negative(Wrap(rs + second)) # Negative(rs))
        BY <2>2 DEF Overflows
      <3> HIDE DEF sum, wrapped, second
      <3> QED
        BY <1>3, <3>1, <3>2, AddFits
    <2> QED
      BY <1>2, <2>1, <2>2
  <1>5. CASE Overflow
    <2>1. Overflows
      BY <1>5 DEF Overflow
    <2>2. status' = "aborted"
      BY <1>5 DEF Overflow, RaiseException, ExceptionHandler
    <2> QED
      BY <1>4, <2>1, <2>2
  <1> DEFINE regs == [registers EXCEPT ![target] = wrapped]
  <1>6. CASE ~Overflows /\ Complete(regs, NextAfter)
    <2>1. wrapped \in Word
      <3>1. rs \in Nat /\ rt \in Nat /\ second \in Nat
        BY <1>3, WordIs
      <3>2. rs - rt \in Int /\ rs + second \in Int
        BY <3>1
      <3> QED
        BY <3>2, WrapWord
    <2> HIDE DEF wrapped, target, sum
    <2>2. IsRegisters(registers) /\ target # LoadReg /\ target \in AllRegs
      BY <1>3, RegsAre DEF MachineInv
    <2>3. IsRegisters(regs) /\ regs[LoadReg] = registers[LoadReg] /\ regs[target] = wrapped
      BY <2>1, <2>2, SetRegister DEF IsRegisters
    <2> HIDE DEF regs
    <2>4. target \notin {0, registers[LoadReg]} => registers'[target] = wrapped
      BY <1>3, <1>6, <2>3, CompleteLeaves
    <2> QED
      BY <1>4, <1>6, <2>4
  <1>7. Overflow \/ (~Overflows /\ Complete(regs, NextAfter))
    <2>1. CASE /\ ~Overflows /\ instr.opCode \in {"ADD", "SUB"}
               /\ Complete([registers EXCEPT ![instr.rd] = RegisterResult], NextAfter)
      <3>1. RegisterResult = wrapped /\ target = instr.rd
        BY <2>1 DEF RegisterResult
      <3> QED
        BY <2>1, <3>1
    <2>2. CASE /\ ~Overflows /\ instr.opCode = "ADDI"
               /\ Complete([registers EXCEPT ![instr.rt] = ImmediateResult], NextAfter)
      <3>1. ImmediateResult = wrapped /\ target = instr.rt
        BY <2>2 DEF ImmediateResult
      <3> QED
        BY <2>2, <3>1
    <2> QED
      BY <1>1, <2>1, <2>2, SumSteps
  <1> QED
    BY <1>5, <1>6, <1>7

\* What an instruction that writes HI and LO leaves in them.
LEMMA HiLoLeaves ==
    ASSUME MachineInv, NEW hi \in Word, NEW lo \in Word, Complete(HiLo(hi, lo), NextAfter)
    PROVE  registers'[HiReg] = hi /\ registers'[LoReg] = lo
  <1> DEFINE regs == HiLo(hi, lo)
  <1>1. IsRegisters(regs)
    BY HiLoIs
  <1>2. regs[HiReg] = hi /\ regs[LoReg] = lo /\ regs[LoadReg] = registers[LoadReg]
    BY RegsAre DEF MachineInv, IsRegisters, HiLo, HiReg, LoReg, LoadReg
  <1>3. registers[LoadReg] \in GPRegs
    BY DEF MachineInv, IsRegisters
  <1>4. HiReg # 0 /\ LoReg # 0 /\ HiReg # registers[LoadReg] /\ LoReg # registers[LoadReg]
    BY <1>3, RegsAre DEF HiReg, LoReg
  <1> HIDE DEF regs
  <1>5. registers'[HiReg] = regs[HiReg] /\ registers'[LoReg] = regs[LoReg]
    BY <1>1, <1>2, <1>4, CompleteLeaves DEF regs
  <1> QED
    BY <1>2, <1>5

\* The products.
LEMMA ProductStep ==
    ASSUME MachineInv, OneInstruction
    PROVE  ProductExact
  <1> DEFINE signedArith == instr.opCode = "MULT"
             product == Mult(rs, rt, signedArith)
  <1>1. SUFFICES ASSUME Executes({"MULT", "MULTU"})
                 PROVE  Reading(registers'[HiReg]) * TwoTo[WordBits] + registers'[LoReg] = Reading(rs) * Reading(rt)
    BY DEF ProductExact
  <1>2. FetchException = "NoException" /\ InProgram /\ instr.opCode \in {"MULT", "MULTU"}
    BY <1>1 DEF Executes
  <1>3. rs \in Word /\ rt \in Word
    <2>1. instr.rt \in GPRegs
      BY <1>2, InstrIs DEF Decoded
    <2> QED
      BY <1>2, <2>1, Operands
  <1>4. Multiply
    <2>1. /\ ~FetchFault /\ ~Compute /\ ~Overflow /\ ~MoveToHiLo /\ ~Divide /\ ~DivideCrash /\ ~Branch /\ ~Jump
          /\ ~UnalignedAssert /\ ~Trap
      BY <1>2 DEF FetchFault, Compute, Overflow, MoveToHiLo, Divide, DivideCrash, Branch, Jump, UnalignedAssert,
                  Trap, Executes, Branches, Unaligned, ThreeRegister, Immediate
    <2>2. ~DataFault /\ ~Load /\ ~Store
      BY <1>2 DEF DataFault, Load, Store, Executes, LoadSize, StoreSize
    <2> QED
      BY <2>1, <2>2 DEF OneInstruction
  <1>5. Complete(HiLo(product[1], product[2]), NextAfter)
    BY <1>4 DEF Multiply
  <1>6. product[1] \in Word /\ product[2] \in Word
    <2>1. signedArith \in BOOLEAN
      OBVIOUS
    <2> QED
      BY <1>3, <2>1, MultWords
  <1>7. registers'[HiReg] = product[1] /\ registers'[LoReg] = product[2]
    <2> HIDE DEF product
    <2> QED
      BY <1>5, <1>6, HiLoLeaves
  <1>8. CASE instr.opCode = "MULT"
    <2>1. product = Mult(rs, rt, TRUE)
      BY <1>8
    <2>2. \A w : Reading(w) = Signed(w)
      BY <1>8 DEF Reading
    <2> HIDE DEF product
    <2>3. Signed(product[1]) * TwoTo[WordBits] + product[2] = Signed(rs) * Signed(rt)
      BY <1>3, <2>1, MultSigned
    <2>4. /\ Reading(registers'[HiReg]) = Signed(product[1]) /\ registers'[LoReg] = product[2]
          /\ Reading(rs) = Signed(rs) /\ Reading(rt) = Signed(rt)
      BY <1>7, <2>2
    <2> QED
      BY <2>3, <2>4
  <1>9. CASE instr.opCode = "MULTU"
    <2>1. product = Mult(rs, rt, FALSE)
      BY <1>9
    <2>2. \A w : Reading(w) = w
      BY <1>9 DEF Reading
    <2> HIDE DEF product
    <2>3. product[1] * TwoTo[WordBits] + product[2] = rs * rt
      BY <1>3, <2>1, MultUnsigned
    <2>4. /\ Reading(registers'[HiReg]) = product[1] /\ registers'[LoReg] = product[2]
          /\ Reading(rs) = rs /\ Reading(rt) = rt
      BY <1>7, <2>2
    <2> QED
      BY <2>3, <2>4
  <1> QED
    BY <1>2, <1>8, <1>9

\* The quotients.
LEMMA QuotientStep ==
    ASSUME MachineInv, OneInstruction
    PROVE  QuotientExact
  <1> DEFINE x == Reading(rs)
             y == Reading(rt)
             n == Quotient(x, y)
             r == Remainder(x, y)
  <1>1. SUFFICES ASSUME Executes({"DIV", "DIVU"}), rt # 0, ~QuotientOverflows
                 PROVE  /\ Reading(registers'[LoReg]) * y + Reading(registers'[HiReg]) = x
                        /\ Magnitude(Reading(registers'[HiReg])) < Magnitude(y)
                        /\ Reading(registers'[HiReg]) # 0 => (Reading(registers'[HiReg]) < 0) = (x < 0)
    BY DEF QuotientExact
  <1>2. FetchException = "NoException" /\ InProgram /\ instr.opCode \in {"DIV", "DIVU"}
    BY <1>1 DEF Executes
  <1>3. rs \in Word /\ rt \in Word
    <2>1. instr.rt \in GPRegs
      BY <1>2, InstrIs DEF Decoded
    <2> QED
      BY <1>2, <2>1, Operands
  <1>4. Divide
    <2>1. /\ ~FetchFault /\ ~Compute /\ ~Overflow /\ ~MoveToHiLo /\ ~Multiply /\ ~DivideCrash /\ ~Branch /\ ~Jump
          /\ ~UnalignedAssert /\ ~Trap
      BY <1>1, <1>2 DEF FetchFault, Compute, Overflow, MoveToHiLo, Multiply, DivideCrash, Branch, Jump,
                        UnalignedAssert, Trap, Executes, Branches, Unaligned, ThreeRegister, Immediate
    <2>2. ~DataFault /\ ~Load /\ ~Store
      BY <1>2 DEF DataFault, Load, Store, Executes, LoadSize, StoreSize
    <2> QED
      BY <2>1, <2>2 DEF OneInstruction
  <1>5. Complete(HiLo(Wrap(r), Wrap(n)), NextAfter)
    <2>1. x = (IF instr.opCode = "DIV" THEN Signed(rs) ELSE rs) /\ y = (IF instr.opCode = "DIV" THEN Signed(rt) ELSE rt)
      BY <1>2 DEF Reading
    <2> HIDE DEF x, y
    <2> QED
      BY <1>1, <1>4, <2>1 DEF Divide
  <1>6. /\ x \in Int /\ y \in Int /\ y # 0
        /\ Wrap(r) \in Word /\ Wrap(n) \in Word /\ Reading(Wrap(r)) = r /\ Reading(Wrap(n)) = n
    <2>1. CASE instr.opCode = "DIV"
      <3>1. \A w : Reading(w) = Signed(w)
        BY <2>1 DEF Reading
      <3>2. ~(Signed(rs) = -(TwoTo[WordBits - 1]) /\ Signed(rt) = -1)
        BY <1>1, <2>1 DEF QuotientOverflows
      <3>3. x = Signed(rs) /\ y = Signed(rt)
        BY <3>1
      <3> HIDE DEF x, y, n, r
      <3>4. y # 0 /\ x \in Int /\ y \in Int /\ Fits(n) /\ Fits(r)
        BY <1>1, <1>3, <3>2, <3>3, SignedQuotient DEF n, r
      <3>5. n \in Int /\ r \in Int
        BY <3>4, QuotientIs DEF n, r
      <3> QED
        BY <3>1, <3>4, <3>5, SignedWrap
    <2>2. CASE instr.opCode = "DIVU"
      <3>1. \A w : Reading(w) = w
        BY <2>2 DEF Reading
      <3>2. x = rs /\ y = rt /\ x \in Word /\ y \in Word
        BY <1>3, <3>1
      <3> HIDE DEF x, y, n, r
      <3>3. x \in Int /\ y \in Int
        <4>1. x \in Nat /\ y \in Nat
          BY <3>2, WordIs
        <4> QED
          BY <4>1
      <3>4. Wrap(n) = n /\ Wrap(r) = r
        BY <1>1, <3>2, UnsignedQuotient DEF n, r
      <3>5. n \in Int /\ r \in Int
        BY <1>1, <3>2, <3>3, QuotientIs DEF n, r
      <3> QED
        BY <1>1, <3>1, <3>2, <3>3, <3>4, <3>5, WrapWord
    <2> QED
      BY <1>2, <2>1, <2>2
  <1> HIDE DEF n, r, x, y
  <1>7. registers'[HiReg] = Wrap(r) /\ registers'[LoReg] = Wrap(n)
    BY <1>5, <1>6, HiLoLeaves
  <1>8. n * y + r = x /\ Magnitude(r) < Magnitude(y) /\ (r # 0 => (r < 0) = (x < 0))
    BY <1>6, QuotientIs DEF n, r
  <1>9. Reading(registers'[HiReg]) = r /\ Reading(registers'[LoReg]) = n
    BY <1>6, <1>7
  <1> QED
    BY <1>8, <1>9

\* Proved for every program and every width of a byte.
THEOREM ArithmeticStaysExact == MachineSpec => ArithmeticExact
  <1>1. MachineInit => MachineInv
    BY InitMachine
  <1>2. MachineInv /\ [OneInstruction]_machine => MachineInv'
    BY NextMachine
  <1>3. MachineInv /\ [OneInstruction]_machine => [SumExact /\ ProductExact /\ QuotientExact]_machine
    BY SumStep, ProductStep, QuotientStep
  <1> QED
    BY <1>1, <1>2, <1>3, PTL DEF MachineSpec, ArithmeticExact

-----------------------------------------------------------------------------
(***************************************************************************)
(* Linked objects.  Reach(i) is where the sections before i end.           *)
(***************************************************************************)
Reach(i) == IF i = 1 THEN 0 ELSE object[i - 1].addr + object[i - 1].size

\* The addresses of section k's bytes in the file.
Extent(k) == object[k].addr .. object[k].addr + Len(object[k].data) - 1

SectionType == [name : STRING, addr : Nat, size : Nat, data : Seq(Nat)]

\* c is b with d behind it.
IsJoined(c, b, d) ==
    /\ c \in Seq(Nat) /\ Len(c) \in Nat /\ Len(b) \in Nat /\ Len(c) = Len(b) + Len(d)
    /\ \A i \in 1..Len(b) : c[i] = b[i]
    /\ \A i \in 1..Len(d) : c[Len(b) + i] = d[i]

\* What a concatenation is.
LEMMA Joined ==
    ASSUME NEW b \in Seq(Nat), NEW d \in Seq(Nat)
    PROVE  IsJoined(b \o d, b, d)
  BY DEF IsJoined

\* The types of an object file.
LEMMA ObjectIs ==
    ASSUME object \in Objects
    PROVE  /\ object \in Seq(SectionType) /\ Len(object) \in Nat /\ DOMAIN object = 1..Len(object)
           /\ \A k \in DOMAIN object :
                /\ object[k].addr \in Nat /\ object[k].size \in Nat
                /\ object[k].data \in Seq(Nat) /\ Len(object[k].data) \in Nat
                /\ DOMAIN object[k].data = 1..Len(object[k].data)
                /\ Len(object[k].data) <= object[k].size
                /\ object[k].name \in Bss => object[k].data = <<>>
  <1>1. object \in Seq(SectionType)
    BY ObjectsAssumption DEF SectionType
  <1>2. Len(object) \in Nat /\ DOMAIN object = 1..Len(object)
    BY <1>1
  <1>3. \A k \in DOMAIN object : object[k] \in SectionType
    BY <1>1
  <1>4. \A k \in DOMAIN object : object[k].addr \in Nat /\ object[k].size \in Nat /\ object[k].data \in Seq(Nat)
    BY <1>3 DEF SectionType
  <1>5. \A k \in DOMAIN object : Len(object[k].data) \in Nat /\ DOMAIN object[k].data = 1..Len(object[k].data)
    BY <1>4
  <1>6. \A k \in DOMAIN object : /\ Len(object[k].data) <= object[k].size
                                 /\ object[k].name \in Bss => object[k].data = <<>>
    BY ObjectsAssumption
  <1> QED
    BY <1>1, <1>2, <1>4, <1>5, <1>6

\* The sections of a linked object are in the order of their addresses, without overlap.
LEMMA LinkedIs ==
    ASSUME object \in Objects, Linked
    PROVE  /\ \A k \in DOMAIN object : object[k].addr = Reach(k)
           /\ \A j, k \in DOMAIN object : j < k => object[j].addr + object[j].size <= object[k].addr
           /\ \A j, k \in DOMAIN object :
                /\ object[k].data # <<>> => object[k].name \in Range(LoadOrder)
                /\ object[j].name = object[k].name => j = k
                /\ (j < k /\ object[j].name \in Bss) => object[k].name \in Bss
  <1>1. \A k \in DOMAIN object : object[k].addr = Reach(k)
    BY DEF Linked, OneAfterTheOther, Reach
  <1>2. ASSUME NEW j \in DOMAIN object, NEW k \in DOMAIN object, j < k
        PROVE  object[j].addr + object[j].size <= object[k].addr
    <2> DEFINE N == Len(object) - (j + 1)
               S == {d \in 0..N : object[j].addr + object[j].size <= object[j + 1 + d].addr}
    <2>1. j \in Nat /\ k \in Nat /\ j >= 1 /\ k <= Len(object) /\ N \in Nat /\ Len(object) \in Nat
      BY <1>2, ObjectIs
    <2>2. 0 \in S
      <3>1. j + 1 \in DOMAIN object /\ j + 1 + 0 = j + 1 /\ j + 1 # 1 /\ (j + 1) - 1 = j
        BY <1>2, <2>1, ObjectIs
      <3>2. object[j + 1].addr = object[j].addr + object[j].size
        BY <1>1, <3>1 DEF Reach
      <3>3. object[j].addr \in Nat /\ object[j].size \in Nat
        BY ObjectIs
      <3> QED
        BY <2>1, <3>1, <3>2, <3>3
    <2>3. \A d \in 1..N : d - 1 \in S => d \in S
      <3>1. TAKE d \in 1..N
      <3>2. HAVE d - 1 \in S
      <3>3. /\ j + 1 + d \in DOMAIN object /\ j + 1 + d # 1 /\ (j + 1 + d) - 1 = j + 1 + (d - 1)
            /\ j + 1 + (d - 1) \in DOMAIN object
        BY <2>1, ObjectIs
      <3>4. object[j + 1 + d].addr = object[j + 1 + (d - 1)].addr + object[j + 1 + (d - 1)].size
        BY <1>1, <3>3 DEF Reach
      <3>5. object[j + 1 + (d - 1)].addr \in Nat /\ object[j + 1 + (d - 1)].size \in Nat
        BY <3>3, ObjectIs
      <3>6. object[j].addr \in Nat /\ object[j].size \in Nat
        BY ObjectIs
      <3> QED
        BY <3>2, <3>4, <3>5, <3>6
    <2> HIDE DEF S
    <2>4. 0..N \subseteq S
      BY <2>1, <2>2, <2>3, UpTo
    <2>5. k - (j + 1) \in 0..N /\ j + 1 + (k - (j + 1)) = k
      BY <2>1, <1>2
    <2> QED
      BY <2>4, <2>5 DEF S
  <1>3. \A j, k \in DOMAIN object :
                /\ object[k].data # <<>> => object[k].name \in Range(LoadOrder)
                /\ object[j].name = object[k].name => j = k
                /\ (j < k /\ object[j].name \in Bss) => object[k].name \in Bss
    BY LinkerAssumption DEF Linked
  <1> QED
    BY <1>1, <1>2, <1>3

\* Where the sections before i end, from one i to the next.
LEMMA ReachNat ==
    ASSUME object \in Objects, NEW i \in 1..(Len(object) + 1)
    PROVE  Reach(i) \in Nat /\ (i \in DOMAIN object => Reach(i + 1) = object[i].addr + object[i].size)
  <1>1. i \in Nat /\ i >= 1 /\ (i # 1 => i - 1 \in DOMAIN object)
    BY ObjectIs
  <1>2. Reach(i) \in Nat
    <2>1. i # 1 => object[i - 1].addr \in Nat /\ object[i - 1].size \in Nat
      BY <1>1, ObjectIs
    <2>2. i # 1 => object[i - 1].addr + object[i - 1].size \in Nat
      BY <2>1
    <2> QED
      BY <2>2 DEF Reach
  <1>3. i + 1 # 1 /\ (i + 1) - 1 = i
    BY <1>1
  <1> QED
    BY <1>2, <1>3 DEF Reach

\* No address is in two sections, and what it is to hold is in the section it is in.
LEMMA ContentsIs ==
    ASSUME object \in Objects, Linked, NEW a \in Nat
    PROVE  /\ \A j, k \in DOMAIN object : a \in Extent(j) /\ a \in Extent(k) => j = k
           /\ \A k \in DOMAIN object : a \in Extent(k) => Contents(a) = object[k].data[a - object[k].addr + 1]
           /\ (\A k \in DOMAIN object : a \notin Extent(k)) => Contents(a) = 0
           /\ Contents(a) \in Nat
  <1> DEFINE in == {k \in DOMAIN object : a \in Extent(k)}
  <1>1. Contents(a) = IF in = {} THEN 0 ELSE object[Min(in)].data[a - object[Min(in)].addr + 1]
    BY DEF Contents, Extent
  <1>2. ASSUME NEW j \in DOMAIN object, NEW k \in DOMAIN object, a \in Extent(j), a \in Extent(k), j < k
        PROVE  FALSE
    <2>1. object[j].addr + object[j].size <= object[k].addr
      BY <1>2, LinkedIs
    <2>2. /\ object[j].addr \in Nat /\ object[j].size \in Nat /\ Len(object[j].data) \in Nat
          /\ Len(object[j].data) <= object[j].size /\ object[k].addr \in Nat /\ Len(object[k].data) \in Nat
      BY ObjectIs
    <2> QED
      BY <1>2, <2>1, <2>2 DEF Extent
  <1>3. \A j, k \in DOMAIN object : a \in Extent(j) /\ a \in Extent(k) => j = k
    <2>1. \A j, k \in DOMAIN object : j \in Nat /\ k \in Nat
      BY ObjectIs
    <2>2. \A j, k \in DOMAIN object : j < k \/ k < j \/ j = k
      BY <2>1
    <2> QED
      BY <1>2, <2>2
  <1>4. ASSUME NEW k \in DOMAIN object, a \in Extent(k)
        PROVE  Contents(a) = object[k].data[a - object[k].addr + 1]
    <2>1. in = {k}
      BY <1>3, <1>4
    <2>2. Min({k}) = k
      BY ObjectIs DEF Min
    <2> HIDE DEF in
    <2> QED
      BY <1>1, <2>1, <2>2
  <1>5. ASSUME \A k \in DOMAIN object : a \notin Extent(k)
        PROVE  Contents(a) = 0
    BY <1>1, <1>5
  <1>6. ASSUME NEW k \in DOMAIN object, a \in Extent(k)
        PROVE  object[k].data[a - object[k].addr + 1] \in Nat
    <2>1. object[k].addr \in Nat /\ Len(object[k].data) \in Nat /\ object[k].data \in Seq(Nat)
      BY ObjectIs
    <2>2. a - object[k].addr + 1 \in 1..Len(object[k].data)
      BY <1>6, <2>1 DEF Extent
    <2> QED
      BY <2>1, <2>2
  <1> QED
    BY <1>3, <1>4, <1>5, <1>6

-----------------------------------------------------------------------------
(* coff2noff.                                                              *)

SegmentOf(s) ==
    IF s.size = 0 THEN "empty"
    ELSE IF s.name = ".text" THEN "code"
    ELSE IF s.name \in {".data", ".rdata"} THEN "initData"
    ELSE IF s.name \in Bss THEN "uninitData" ELSE "unknown"

SegmentType == [virtualAddr : Nat, inFileAddr : Nat, size : Nat]

Sections(seg) == {j \in DOMAIN object : j < index /\ SegmentOf(object[j]) = seg}

\* Segment s of the file is section j.
Placed(j, s, body) ==
    /\ s.virtualAddr = object[j].addr /\ s.size = object[j].size
    /\ s.inFileAddr + s.size <= Len(body)
    /\ \A i \in 1..s.size : body[s.inFileAddr + i] = object[j].data[i]

\* Nothing of the sections before the index was too short.
Complete0 == \A j \in DOMAIN object : j < index /\ object[j].name \notin Bss => Len(object[j].data) = object[j].size

Converted ==
    /\ noffH.code.size + noffH.initData.size + noffH.uninitData.size = Reach(index)
    /\ Sections("unknown") = {}
    /\ \A j \in Sections("code") : Placed(j, noffH.code, out.body)
    /\ \A j \in Sections("initData") : Placed(j, noffH.initData, out.body)
    /\ noffH.code.size # 0 => Sections("code") # {}
    /\ noffH.initData.size # 0 => Sections("initData") # {}
    /\ noffH.uninitData.size # 0 =>
         /\ noffH.uninitData.virtualAddr + noffH.uninitData.size = Reach(index)
         /\ Sections("uninitData") # {}

HeaderType == [code : SegmentType, initData : SegmentType, uninitData : SegmentType]

ConvertInv ==
    /\ index \in 1..(Len(object) + 1) /\ Complete0 /\ noffH \in HeaderType
    /\ out = [header |-> out.header, body |-> out.body] /\ out.body \in Seq(Nat)
    /\ Linked => Converted

NoffInv ==
    /\ phase \in {"convert", "killed"} => out.header = Absent
    /\ phase = "convert" => ConvertInv
    /\ phase = "failed" => out = Absent
    /\ phase = "done" => ConvertInv /\ out.header = noffH /\ index = Len(object) + 1

\* Segment is that of the section the index is at.
LEMMA SegmentIs == Segment = SegmentOf(section)
  BY DEF Segment, SegmentOf

\* The segments coff2noff tells apart.
LEMMA SegmentNames ==
    ASSUME NEW s
    PROVE  SegmentOf(s) \in {"empty", "code", "initData", "uninitData", "unknown"}
  BY DEF SegmentOf

\* Copying one section of the object keeps what is said of those before it.
LEMMA CopyStep ==
    ASSUME object \in Objects, ConvertInv, CopySection, out.header = Absent
    PROVE  ConvertInv' /\ out'.header = Absent
  <1> DEFINE n == Len(out.body)
             v == [virtualAddr |-> section.addr, inFileAddr |-> n, size |-> section.size]
             seg == SegmentOf(section)
  <1>1. /\ index' = index + 1 /\ UNCHANGED <<tool, object, phase>> /\ ~Finished /\ ~Refused
        /\ out' = IF Copied THEN [out EXCEPT !.body = @ \o section.data] ELSE out
        /\ noffH' = IF seg = "empty" THEN noffH
                    ELSE IF seg = "uninitData" /\ noffH.uninitData.size # 0
                    THEN [noffH EXCEPT !.uninitData.size = @ + section.size]
                    ELSE [noffH EXCEPT ![seg] = v]
    BY SegmentIs DEF CopySection
  <1>2. index \in DOMAIN object /\ index' \in 1..(Len(object) + 1) /\ section = object[index] /\ index \in Nat
    BY <1>1, ObjectIs DEF ConvertInv, Finished, section
  <1>3. /\ section.addr \in Nat /\ section.size \in Nat /\ section.data \in Seq(Nat)
        /\ Len(section.data) \in Nat /\ Len(section.data) <= section.size
        /\ section.name \in Bss => section.data = <<>>
    BY <1>2, ObjectIs
  <1>4. /\ seg # "unknown"
        /\ seg \in {"code", "initData"} => Len(section.data) = section.size
        /\ seg = "initData" => noffH.initData.size = 0
        /\ seg = "uninitData" /\ noffH.uninitData.size # 0
             => section.addr # noffH.uninitData.virtualAddr + noffH.uninitData.size
    BY <1>1, <1>3, SegmentIs DEF Refused, Copied
  <1>5. seg \in {"empty", "code", "initData", "uninitData"}
    BY <1>4, SegmentNames
  <1>6. /\ seg = "empty" => section.size = 0
        /\ seg = "code" => section.name = ".text" /\ section.size # 0
        /\ seg = "initData" => section.name \in {".data", ".rdata"} /\ section.size # 0
        /\ seg = "uninitData" => section.name \in Bss /\ section.size # 0
    BY DEF SegmentOf
  <1>7. Copied <=> seg \in {"code", "initData"}
    BY SegmentIs DEF Copied
  <1> DEFINE body2 == IF seg \in {"code", "initData"} THEN out.body \o section.data ELSE out.body
  <1>8. out' = [header |-> Absent, body |-> body2]
    <2>1. out = [header |-> Absent, body |-> out.body]
      BY DEF ConvertInv
    <2> QED
      BY <1>1, <1>7, <2>1
  <1>9. /\ n \in Nat /\ body2 \in Seq(Nat) /\ n <= Len(body2)
        /\ \A i \in 1..n : body2[i] = out.body[i]
        /\ seg \in {"code", "initData"} =>
             /\ Len(body2) = n + section.size
             /\ \A i \in 1..section.size : body2[n + i] = section.data[i]
    <2>1. out.body \in Seq(Nat)
      BY DEF ConvertInv
    <2>2. IsJoined(out.body \o section.data, out.body, section.data) /\ Len(out.body) \in Nat
      <3>1. section.data \in Seq(Nat)
        BY <1>3
      <3> QED
        BY <2>1, <3>1, Joined, Zenon DEF IsJoined
    <2>3. CASE seg \in {"code", "initData"}
      <3>1. body2 = out.body \o section.data /\ Len(section.data) = section.size
        BY <2>3, <1>4
      <3> HIDE DEF body2
      <3>2. /\ body2 \in Seq(Nat) /\ n \in Nat /\ Len(body2) = n + Len(section.data)
            /\ \A i \in 1..n : body2[i] = out.body[i]
            /\ \A i \in 1..Len(section.data) : body2[n + i] = section.data[i]
        BY <2>1, <2>2, <3>1, <1>3 DEF IsJoined
      <3> HIDE DEF n
      <3>3. n <= Len(body2) /\ Len(body2) = n + section.size
        BY <3>1, <3>2, <1>3
      <3>4. \A i \in 1..section.size : body2[n + i] = section.data[i]
        BY <3>1, <3>2
      <3> QED
        BY <3>2, <3>3, <3>4
    <2>4. CASE seg \notin {"code", "initData"}
      <3>1. body2 = out.body
        BY <2>4
      <3> HIDE DEF body2
      <3> QED
        BY <2>1, <2>2, <2>4, <3>1
    <2> QED
      BY <2>3, <2>4
  <1>n. n = Len(out.body)
    OBVIOUS
  <1> HIDE DEF n, body2
  <1>10. Complete0'
    <2>1. ASSUME NEW j \in DOMAIN object, j < index + 1, object[j].name \notin Bss
          PROVE  Len(object[j].data) = object[j].size
      <3>1. CASE j < index
        BY <2>1, <3>1 DEF ConvertInv, Complete0
      <3>2. CASE j = index
        <4>1. section.name \notin Bss
          BY <1>2, <2>1, <3>2
        <4>2. seg \in {"empty", "code", "initData"}
          BY <1>5, <1>6, <4>1
        <4> QED
          BY <1>2, <1>3, <1>4, <1>6, <3>2, <4>2
      <3> QED
        BY <1>2, <2>1, <3>1, <3>2, ObjectIs
    <2> QED
      BY <1>1, <2>1 DEF Complete0
  <1>11. v \in SegmentType
    BY <1>3, <1>9 DEF SegmentType
  <1>12. noffH \in HeaderType
    BY DEF ConvertInv
  <1>13. /\ noffH' \in HeaderType
         /\ noffH'.code = IF seg = "code" THEN v ELSE noffH.code
         /\ noffH'.initData = IF seg = "initData" THEN v ELSE noffH.initData
         /\ noffH'.uninitData =
              IF seg = "uninitData"
              THEN IF noffH.uninitData.size # 0
                   THEN [noffH.uninitData EXCEPT !.size = @ + section.size] ELSE v
              ELSE noffH.uninitData
    <2> HIDE DEF v, seg
    <2>1. CASE seg = "empty"
      BY <1>1, <1>12, <2>1
    <2>2. CASE seg \in {"code", "initData"}
      BY <1>1, <1>11, <1>12, <2>2 DEF HeaderType
    <2>3. CASE seg = "uninitData" /\ noffH.uninitData.size = 0
      BY <1>1, <1>11, <1>12, <2>3 DEF HeaderType
    <2>4. CASE seg = "uninitData" /\ noffH.uninitData.size # 0
      <3> DEFINE w == [noffH.uninitData EXCEPT !.size = @ + section.size]
      <3>1. noffH' = [noffH EXCEPT !.uninitData = w]
        BY <1>1, <1>12, <2>4 DEF HeaderType
      <3>2. noffH.uninitData \in SegmentType
        BY <1>12 DEF HeaderType
      <3>3. w \in SegmentType
        BY <1>3, <3>2 DEF SegmentType
      <3> HIDE DEF w
      <3>4. noffH' \in HeaderType /\ noffH'.code = noffH.code /\ noffH'.initData = noffH.initData /\ noffH'.uninitData = w
        BY <1>12, <3>1, <3>3 DEF HeaderType
      <3> QED
        BY <2>4, <3>4 DEF w
    <2> QED
      BY <1>5, <2>1, <2>2, <2>3, <2>4
  <1>14. ASSUME Linked PROVE Converted'
    <2>1. Converted
      BY <1>14 DEF ConvertInv
    <2>2. section.addr = Reach(index) /\ Reach(index) \in Nat /\ Reach(index + 1) = section.addr + section.size
      <3>1. Reach(index) \in Nat /\ Reach(index + 1) = object[index].addr + object[index].size
        BY <1>2, ReachNat DEF ConvertInv
      <3>2. object[index].addr = Reach(index)
        BY <1>2, <1>14, LinkedIs
      <3> QED
        BY <1>2, <3>1, <3>2
    <2>3. Reach(index)' = Reach(index + 1)
      BY <1>1 DEF Reach
    <2>4. \A g : Sections(g)' = Sections(g) \cup (IF seg = g THEN {index} ELSE {})
      <3>1. \A j \in DOMAIN object : j < index + 1 <=> (j < index \/ j = index)
        BY <1>2, ObjectIs
      <3> QED
        BY <1>1, <1>2, <3>1 DEF Sections
    <2>5. \A g : \A j \in Sections(g) : j \in DOMAIN object /\ j < index /\ SegmentOf(object[j]) = g
      BY DEF Sections
    <2>6. /\ noffH.code.size \in Nat /\ noffH.initData.size \in Nat /\ noffH.uninitData.size \in Nat
          /\ noffH.uninitData.virtualAddr \in Nat
          /\ noffH.code.inFileAddr \in Nat /\ noffH.initData.inFileAddr \in Nat
      BY <1>12 DEF HeaderType, SegmentType
    <2>7. seg = "code" => Sections("code") = {} /\ noffH.code.size = 0
      <3>1. ASSUME seg = "code", NEW j \in Sections("code") PROVE FALSE
        <4>1. object[j].name = ".text" /\ j \in DOMAIN object /\ j < index
          BY <2>5 DEF SegmentOf
        <4>2. object[index].name = ".text"
          BY <1>2, <1>6, <3>1
        <4>3. j = index
          BY <1>2, <1>14, <4>1, <4>2, LinkedIs
        <4> QED
          BY <4>1, <4>3, <1>2
      <3> QED
        BY <3>1, <2>1 DEF Converted
    <2>8. seg = "initData" => Sections("initData") = {}
      <3>1. ASSUME seg = "initData", NEW j \in Sections("initData") PROVE FALSE
        <4>1. SegmentOf(object[j]) = "initData" /\ j \in DOMAIN object
          BY <2>5
        <4>2. object[j].size # 0
          BY <4>1 DEF SegmentOf
        <4>3. noffH.initData.size = object[j].size
          BY <2>1 DEF Converted, Placed
        <4> QED
          BY <1>4, <3>1, <4>2, <4>3
      <3> QED
        BY <3>1
    <2>9. /\ Sections("uninitData") # {} => seg \in {"empty", "uninitData"}
          /\ noffH.uninitData.size # 0 => seg # "uninitData"
      <3>1. ASSUME NEW j \in Sections("uninitData") PROVE seg \in {"empty", "uninitData"}
        <4>1. SegmentOf(object[j]) = "uninitData" /\ j \in DOMAIN object /\ j < index
          BY <2>5
        <4>2. object[j].name \in Bss
          BY <4>1 DEF SegmentOf
        <4>3. section.name \in Bss
          BY <1>2, <1>14, <4>1, <4>2, LinkedIs
        <4>4. ".text" \notin Bss /\ ".data" \notin Bss /\ ".rdata" \notin Bss
          BY DEF Bss
        <4> QED
          BY <1>5, <1>6, <4>3, <4>4
      <3>2. ASSUME noffH.uninitData.size # 0, seg = "uninitData" PROVE FALSE
        BY <1>4, <2>1, <2>2, <3>2 DEF Converted
      <3> QED
        BY <3>1, <3>2
    <2>10. noffH.uninitData.size # 0 => seg = "empty"
      BY <2>1, <2>9 DEF Converted
    <2>11. noffH'.code.size + noffH'.initData.size + noffH'.uninitData.size = Reach(index) + section.size
      <3>1. noffH.code.size + noffH.initData.size + noffH.uninitData.size = Reach(index)
        BY <2>1 DEF Converted
      <3>2. v.size = section.size
        OBVIOUS
      <3> HIDE DEF v, seg
      <3>3. CASE seg = "empty"
        BY <1>3, <1>6, <1>13, <2>2, <2>6, <3>1, <3>3
      <3>4. CASE seg = "code"
        BY <1>3, <1>13, <2>2, <2>6, <2>7, <3>1, <3>2, <3>4
      <3>5. CASE seg = "initData"
        BY <1>3, <1>4, <1>13, <2>2, <2>6, <3>1, <3>2, <3>5
      <3>6. CASE seg = "uninitData"
        <4>1. noffH.uninitData.size = 0 /\ noffH'.uninitData = v
          BY <1>13, <2>10, <3>6
        <4> QED
          BY <1>3, <1>13, <2>2, <2>6, <3>1, <3>2, <3>6, <4>1
      <3> QED
        BY <1>5, <3>3, <3>4, <3>5, <3>6
    <2>12. ASSUME NEW j \in Sections("code")'
           PROVE  Placed(j, noffH'.code, out'.body)
      <3>1. CASE seg = "code"
        <4>1. j = index
          BY <2>4, <2>7, <3>1
        <4>2. noffH'.code = v
          BY <1>13, <3>1
        <4>3. v.virtualAddr = section.addr /\ v.size = section.size /\ v.inFileAddr = n
          OBVIOUS
        <4> HIDE DEF v, seg
        <4>4. n + section.size <= Len(body2) /\ \A i \in 1..section.size : body2[n + i] = section.data[i]
          BY <1>3, <1>9, <3>1
        <4>5. Placed(index, v, body2)
          BY <1>2, <4>3, <4>4 DEF Placed
        <4>6. out'.body = body2
          BY <1>8
        <4> QED
          BY <4>1, <4>2, <4>5, <4>6
      <3>2. CASE seg # "code"
        <4>1. j \in Sections("code") /\ noffH'.code = noffH.code
          BY <1>13, <2>4, <3>2
        <4>2. Placed(j, noffH.code, out.body)
          BY <2>1, <4>1 DEF Converted
        <4>3. noffH.code.inFileAddr + noffH.code.size <= n
          BY <1>n, <4>2 DEF Placed
        <4>n. noffH.code.size \in Nat /\ noffH.code.inFileAddr \in Nat /\ n \in Nat
          BY <2>6, <1>9
        <4>4. \A i \in 1..noffH.code.size : noffH.code.inFileAddr + i \in 1..n
          BY <4>n, <4>3
        <4>5. \A i \in 1..noffH.code.size : body2[noffH.code.inFileAddr + i] = out.body[noffH.code.inFileAddr + i]
          BY <1>9, <4>4
        <4>6. Len(body2) \in Nat
          BY <1>9
        <4>7. noffH.code.inFileAddr + noffH.code.size <= Len(body2)
          BY <1>9, <2>6, <4>3, <4>6
        <4>8. Placed(j, noffH.code, body2)
          BY <4>2, <4>5, <4>7 DEF Placed
        <4>9. out'.body = body2
          BY <1>8
        <4> QED
          BY <4>1, <4>8, <4>9
      <3> QED
        BY <3>1, <3>2
    <2>13. ASSUME NEW j \in Sections("initData")'
           PROVE  Placed(j, noffH'.initData, out'.body)
      <3>1. CASE seg = "initData"
        <4>1. j = index
          BY <2>4, <2>8, <3>1
        <4>2. noffH'.initData = v
          BY <1>13, <3>1
        <4>3. v.virtualAddr = section.addr /\ v.size = section.size /\ v.inFileAddr = n
          OBVIOUS
        <4> HIDE DEF v, seg
        <4>4. n + section.size <= Len(body2) /\ \A i \in 1..section.size : body2[n + i] = section.data[i]
          BY <1>3, <1>9, <3>1
        <4>5. Placed(index, v, body2)
          BY <1>2, <4>3, <4>4 DEF Placed
        <4>6. out'.body = body2
          BY <1>8
        <4> QED
          BY <4>1, <4>2, <4>5, <4>6
      <3>2. CASE seg # "initData"
        <4>1. j \in Sections("initData") /\ noffH'.initData = noffH.initData
          BY <1>13, <2>4, <3>2
        <4>2. Placed(j, noffH.initData, out.body)
          BY <2>1, <4>1 DEF Converted
        <4>3. noffH.initData.inFileAddr + noffH.initData.size <= n
          BY <1>n, <4>2 DEF Placed
        <4>n. noffH.initData.size \in Nat /\ noffH.initData.inFileAddr \in Nat /\ n \in Nat
          BY <2>6, <1>9
        <4>4. \A i \in 1..noffH.initData.size : noffH.initData.inFileAddr + i \in 1..n
          BY <4>n, <4>3
        <4>5. \A i \in 1..noffH.initData.size : body2[noffH.initData.inFileAddr + i] = out.body[noffH.initData.inFileAddr + i]
          BY <1>9, <4>4
        <4>6. Len(body2) \in Nat
          BY <1>9
        <4>7. noffH.initData.inFileAddr + noffH.initData.size <= Len(body2)
          BY <1>9, <2>6, <4>3, <4>6
        <4>8. Placed(j, noffH.initData, body2)
          BY <4>2, <4>5, <4>7 DEF Placed
        <4>9. out'.body = body2
          BY <1>8
        <4> QED
          BY <4>1, <4>8, <4>9
      <3> QED
        BY <3>1, <3>2
    <2>14. /\ Sections("unknown")' = {}
           /\ noffH'.code.size # 0 => Sections("code")' # {}
           /\ noffH'.initData.size # 0 => Sections("initData")' # {}
      <3> HIDE DEF v, seg
      <3>1. /\ Sections("unknown") = {}
            /\ noffH.code.size # 0 => Sections("code") # {}
            /\ noffH.initData.size # 0 => Sections("initData") # {}
        BY <2>1 DEF Converted
      <3> QED
        BY <1>4, <1>13, <2>4, <3>1
    <2>15. ASSUME noffH'.uninitData.size # 0
           PROVE  /\ noffH'.uninitData.virtualAddr + noffH'.uninitData.size = Reach(index + 1)
                  /\ Sections("uninitData")' # {}
      <3>1. CASE seg = "uninitData"
        <4>1. noffH'.uninitData = v
          BY <1>13, <2>10, <3>1
        <4> QED
          BY <2>2, <2>4, <3>1, <4>1
      <3>2. CASE seg # "uninitData"
        <4>1. noffH'.uninitData = noffH.uninitData
          BY <1>13, <3>2
        <4>2. seg = "empty" /\ section.size = 0
          BY <1>6, <2>10, <2>15, <4>1
        <4>3. noffH.uninitData.virtualAddr + noffH.uninitData.size = Reach(index) /\ Sections("uninitData") # {}
          BY <2>1, <2>15, <4>1 DEF Converted
        <4>4. Reach(index + 1) = Reach(index)
          BY <2>2, <4>2
        <4> QED
          BY <2>4, <4>1, <4>3, <4>4
      <3> QED
        BY <3>1, <3>2
    <2>16. UNCHANGED object
      BY <1>1
    <2>17. \A j \in Sections("code")' : Placed(j, noffH.code, out.body)'
      BY <2>12, <2>16 DEF Placed
    <2>18. \A j \in Sections("initData")' : Placed(j, noffH.initData, out.body)'
      BY <2>13, <2>16 DEF Placed
    <2> HIDE DEF v, seg
    <2> QED
      BY <2>2, <2>3, <2>11, <2>14, <2>15, <2>17, <2>18 DEF Converted
  <1>15. Linked' => Linked
    BY <1>1 DEF Linked, OneAfterTheOther
  <1>16. /\ out'.header = Absent /\ out' = [header |-> out'.header, body |-> out'.body]
         /\ out'.body \in Seq(Nat)
    BY <1>8, <1>9
  <1>17. index' \in 1..(Len(object') + 1)
    BY <1>1, <1>2
  <1> QED
    BY <1>10, <1>13, <1>14, <1>15, <1>16, <1>17 DEF ConvertInv

\* coff2noff: at the start,
LEMMA NoffStart ==
    ASSUME object \in Objects, ToolInit, tool = "noff"
    PROVE  NoffInv
  <1>1. /\ index = 1 /\ phase = "convert"
        /\ noffH = [code |-> Empty, initData |-> Empty, uninitData |-> Empty]
        /\ out = [header |-> Absent, body |-> <<>>]
    BY DEF ToolInit
  <1>2. \A j \in DOMAIN object : ~(j < index)
    BY <1>1, ObjectIs
  <1>3. Complete0 /\ \A g : Sections(g) = {}
    BY <1>2 DEF Complete0, Sections
  <1>4. Empty \in SegmentType /\ Empty.size = 0
    BY DEF Empty, SegmentType
  <1>5. noffH \in HeaderType
    BY <1>1, <1>4 DEF HeaderType
  <1>6. index \in 1..(Len(object) + 1) /\ Reach(index) = 0
    BY <1>1, ObjectIs DEF Reach
  <1>7. Converted
    BY <1>1, <1>3, <1>4, <1>6 DEF Converted
  <1>8. out.header = Absent /\ out.body = <<>> /\ <<>> \in Seq(Nat)
    BY <1>1
  <1> QED
    BY <1>1, <1>3, <1>5, <1>6, <1>7, <1>8 DEF NoffInv, ConvertInv

\* after every step,
LEMMA NoffStep ==
    ASSUME object \in Objects, NoffInv, ToolNext, tool = "noff"
    PROVE  NoffInv'
  <1>1. CASE CopySection
    <2>1. phase = "convert" /\ phase' = phase
      BY <1>1 DEF CopySection, Runs
    <2>2. ConvertInv /\ out.header = Absent
      BY <2>1 DEF NoffInv
    <2>3. ConvertInv' /\ out'.header = Absent
      BY <1>1, <2>2, CopyStep
    <2> QED
      BY <2>1, <2>3 DEF NoffInv
  <1>2. CASE WriteHeader
    <2>1. /\ phase = "convert" /\ phase' = "done" /\ index > Len(object)
          /\ out' = [out EXCEPT !.header = noffH] /\ UNCHANGED <<tool, object, index, noffH>>
      BY <1>2 DEF WriteHeader, Runs, Finished
    <2>2. ConvertInv
      BY <2>1 DEF NoffInv
    <2>3. out = [header |-> out.header, body |-> out.body]
      BY <2>2 DEF ConvertInv
    <2>4. out' = [header |-> noffH, body |-> out.body]
      BY <2>1, <2>3
    <2>5. out'.header = noffH /\ out'.body = out.body
      BY <2>4
    <2>6. ConvertInv'
      <3>1. Complete0' /\ noffH' \in HeaderType /\ index' \in 1..(Len(object') + 1)
        BY <2>1, <2>2 DEF ConvertInv, Complete0
      <3>2. Linked' => Linked
        BY <2>1 DEF Linked, OneAfterTheOther
      <3>3. ASSUME Linked PROVE Converted'
        <4>1. Converted
          BY <2>2, <3>3 DEF ConvertInv
        <4>2. \A g : Sections(g)' = Sections(g)
          BY <2>1 DEF Sections
        <4>3. Reach(index)' = Reach(index)
          BY <2>1 DEF Reach
        <4>4. \A j, s : Placed(j, s, out.body)' <=> Placed(j, s, out.body)
          BY <2>1, <2>5 DEF Placed
        <4> QED
          BY <2>1, <2>5, <4>1, <4>2, <4>3, <4>4 DEF Converted, Placed
      <3> QED
        BY <2>2, <2>4, <2>5, <3>1, <3>2, <3>3 DEF ConvertInv
    <2>7. index = Len(object) + 1
      BY <2>1, <2>2, ObjectIs DEF ConvertInv
    <2> QED
      BY <2>1, <2>5, <2>6, <2>7 DEF NoffInv
  <1>3. CASE Fail
    BY <1>3 DEF Fail, NoffInv
  <1>4. CASE Kill
    BY <1>4 DEF Kill, NoffInv
  <1>5. CASE FlatSection \/ FlatFail \/ AddStack \/ load_program \/ LoadDone
    BY <1>5 DEF FlatSection, FlatFail, AddStack, load_program, LoadDone, Runs
  <1> QED
    BY <1>1, <1>2, <1>3, <1>4, <1>5 DEF ToolNext

\* and after a step that is not its own.
LEMMA NoffStays ==
    ASSUME NoffInv, UNCHANGED toolVars
    PROVE  NoffInv'
  BY DEF NoffInv, ConvertInv, toolVars, Complete0, Linked, OneAfterTheOther, Converted, Placed, Sections, Reach

\* The bytes a segment of the file was read from are what the program is to find there.
LEMMA SegmentContents ==
    ASSUME object \in Objects, Linked, ConvertInv, index = Len(object) + 1,
           NEW g \in {"code", "initData"}, NEW h \in SegmentType,
           h.size # 0 => Sections(g) # {},
           \A j \in Sections(g) : Placed(j, h, out.body),
           NEW a \in Nat, a \in h.virtualAddr .. h.virtualAddr + h.size - 1
    PROVE  Contents(a) = out.body[h.inFileAddr + a - h.virtualAddr + 1]
  <1>1. h.virtualAddr \in Nat /\ h.size \in Nat /\ h.inFileAddr \in Nat
    BY DEF SegmentType
  <1>2. PICK j \in Sections(g) : TRUE
    BY <1>1
  <1>3. Placed(j, h, out.body)
    BY <1>2
  <1>4. j \in DOMAIN object /\ j < index /\ SegmentOf(object[j]) = g
    BY <1>2 DEF Sections
  <1>5. object[j].name \notin Bss
    BY <1>4 DEF SegmentOf, Bss
  <1>6. Len(object[j].data) = object[j].size
    BY <1>4, <1>5 DEF ConvertInv, Complete0
  <1>7. h.virtualAddr = object[j].addr /\ h.size = object[j].size
    BY <1>3 DEF Placed
  <1>8. a \in Extent(j)
    BY <1>6, <1>7 DEF Extent
  <1>9. Contents(a) = object[j].data[a - object[j].addr + 1]
    BY <1>4, <1>8, ContentsIs
  <1>10. a - h.virtualAddr + 1 \in 1..h.size
    BY <1>1
  <1>11. out.body[h.inFileAddr + (a - h.virtualAddr + 1)] = object[j].data[a - h.virtualAddr + 1]
    BY <1>3, <1>10 DEF Placed
  <1>12. h.inFileAddr + (a - h.virtualAddr + 1) = h.inFileAddr + a - h.virtualAddr + 1
    BY <1>1
  <1> QED
    BY <1>7, <1>9, <1>11, <1>12

\* What is in neither segment is to be zero.
LEMMA ElsewhereZero ==
    ASSUME object \in Objects, Linked, ConvertInv, index = Len(object) + 1, NEW a \in Nat,
           a \notin noffH.code.virtualAddr .. noffH.code.virtualAddr + noffH.code.size - 1,
           a \notin noffH.initData.virtualAddr .. noffH.initData.virtualAddr + noffH.initData.size - 1
    PROVE  Contents(a) = 0
  <1>1. Converted
    BY DEF ConvertInv
  <1>2. ASSUME NEW k \in DOMAIN object, a \in Extent(k) PROVE FALSE
    <2>1. /\ object[k].addr \in Nat /\ object[k].size \in Nat /\ Len(object[k].data) \in Nat
          /\ Len(object[k].data) <= object[k].size
          /\ object[k].name \in Bss => object[k].data = <<>>
          /\ k < index
      BY ObjectIs
    <2>2. Len(object[k].data) # 0
      BY <1>2, <2>1 DEF Extent
    <2>3. object[k].name \notin Bss /\ object[k].size # 0
      BY <2>1, <2>2
    <2>4. Len(object[k].data) = object[k].size
      BY <2>1, <2>3 DEF ConvertInv, Complete0
    <2>5. k \in Sections(SegmentOf(object[k]))
      BY <2>1 DEF Sections
    <2>6. SegmentOf(object[k]) \in {"code", "initData"}
      <3>1. SegmentOf(object[k]) # "unknown"
        BY <1>1, <2>5 DEF Converted
      <3> QED
        BY <2>3, <3>1 DEF SegmentOf
    <2>7. CASE SegmentOf(object[k]) = "code"
      <3>1. Placed(k, noffH.code, out.body)
        BY <1>1, <2>5, <2>7 DEF Converted
      <3> QED
        BY <1>2, <2>4, <3>1 DEF Placed, Extent
    <2>8. CASE SegmentOf(object[k]) = "initData"
      <3>1. Placed(k, noffH.initData, out.body)
        BY <1>1, <2>5, <2>8 DEF Converted
      <3> QED
        BY <1>2, <2>4, <3>1 DEF Placed, Extent
    <2> QED
      BY <2>6, <2>7, <2>8
  <1> QED
    BY <1>2, ContentsIs

\* No section ends beyond the last one.
LEMMA LastEnd ==
    ASSUME object \in Objects, Linked, NEW k \in DOMAIN object
    PROVE  object[k].addr + object[k].size <= Reach(Len(object) + 1)
  <1>1. Len(object) \in DOMAIN object /\ Len(object) \in 1..(Len(object) + 1) /\ k <= Len(object)
    BY ObjectIs
  <1>2. Reach(Len(object) + 1) = object[Len(object)].addr + object[Len(object)].size
    BY <1>1, ReachNat
  <1>3. \A j \in {k, Len(object)} : object[j].addr \in Nat /\ object[j].size \in Nat
    BY <1>1, ObjectIs
  <1>4. k < Len(object) => object[k].addr + object[k].size <= object[Len(object)].addr
    BY <1>1, LinkedIs
  <1>5. k = Len(object) \/ k < Len(object)
    BY <1>1, ObjectIs
  <1> QED
    BY <1>2, <1>3, <1>4, <1>5

\* No section ends beyond the sum of the three sizes.
LEMMA SizesEnd ==
    ASSUME object \in Objects, Linked, ConvertInv, index = Len(object) + 1
    PROVE  /\ noffH.code.size + noffH.initData.size + noffH.uninitData.size \in Nat
           /\ \A k \in DOMAIN object : object[k].addr + object[k].size
                <= noffH.code.size + noffH.initData.size + noffH.uninitData.size
  <1>1. noffH.code.size + noffH.initData.size + noffH.uninitData.size = Reach(Len(object) + 1)
    BY DEF ConvertInv, Converted
  <1>2. Reach(Len(object) + 1) \in Nat
    BY ObjectIs, ReachNat
  <1> QED
    BY <1>1, <1>2, LastEnd

-----------------------------------------------------------------------------
(***************************************************************************)
(* coff2flat.  The image is exact as far as it goes; sections that follow  *)
(* uninitialized data are uninitialized data themselves.                   *)
(***************************************************************************)
Flat ==
    /\ Len(out.body) <= Reach(index)
    /\ \A k \in 1..Len(out.body) : out.body[k] = Contents(k - 1)
    /\ Len(out.body) = Reach(index) \/ \A j \in DOMAIN object : j >= index => object[j].name \in Bss
    /\ \A j \in DOMAIN object :
         j < index /\ object[j].data # <<>> => object[j].addr + Len(object[j].data) <= Len(out.body)

FlatInv ==
    /\ phase = "convert" =>
        /\ index \in 1..(Len(object) + 1) /\ Complete0
        /\ out = [header |-> out.header, body |-> out.body] /\ out.body \in Seq(Nat)
        /\ Linked => Flat
    /\ phase = "done" =>
        /\ index = Len(object) + 1 /\ Complete0
        /\ Linked => \A k \in DOMAIN out.body : out.body[k] = Contents(k - 1)

\* coff2flat: at the start,
LEMMA FlatStart ==
    ASSUME object \in Objects, ToolInit, tool = "flat"
    PROVE  FlatInv
  <1>1. /\ index = 1 /\ phase = "convert" /\ out = [header |-> Absent, body |-> <<>>]
    BY DEF ToolInit
  <1>2. \A j \in DOMAIN object : ~(j < index)
    BY <1>1, ObjectIs
  <1>3. Complete0
    BY <1>2 DEF Complete0
  <1>4. index \in 1..(Len(object) + 1) /\ Reach(index) = 0
    BY <1>1, ObjectIs DEF Reach
  <1>5. out.body = <<>> /\ <<>> \in Seq(Nat) /\ Len(<<>>) = 0
    BY <1>1
  <1>6. Flat
    BY <1>2, <1>4, <1>5 DEF Flat
  <1> QED
    BY <1>1, <1>3, <1>4, <1>5, <1>6 DEF FlatInv

\* after a section,
LEMMA FlatSectionStep ==
    ASSUME object \in Objects, FlatInv, FlatSection
    PROVE  FlatInv'
  <1>1. /\ phase = "convert" /\ phase' = phase /\ index <= Len(object) /\ index' = index + 1
        /\ UNCHANGED <<tool, object, noffH>>
    BY ObjectIs DEF FlatSection, Runs, Finished, FlatInv
  <1>2. /\ index \in 1..(Len(object) + 1) /\ Complete0
        /\ out = [header |-> out.header, body |-> out.body] /\ out.body \in Seq(Nat)
    BY <1>1 DEF FlatInv
  <1>3. index \in DOMAIN object /\ section = object[index] /\ index \in Nat /\ index' \in 1..(Len(object) + 1)
    BY <1>1, <1>2, ObjectIs DEF section
  <1>4. /\ section.addr \in Nat /\ section.size \in Nat /\ section.data \in Seq(Nat)
        /\ Len(section.data) \in Nat /\ Len(section.data) <= section.size
        /\ section.name \in Bss => section.data = <<>>
    BY <1>3, ObjectIs
  <1>5. Reach(index) \in Nat /\ Reach(index + 1) = section.addr + section.size /\ Reach(index)' = Reach(index + 1)
    BY <1>1, <1>2, <1>3, ReachNat DEF Reach
  <1>6. \A j \in DOMAIN object : j < index + 1 <=> (j < index \/ j = index)
    BY <1>3, ObjectIs
  <1>7. \A a : Contents(a)' = Contents(a)
    BY <1>1 DEF Contents
  <1>8. CASE section.name \in Bss /\ UNCHANGED out
    <2>1. Complete0'
      BY <1>1, <1>2, <1>3, <1>6, <1>8 DEF Complete0
    <2>2. ASSUME Linked PROVE Flat'
      <3>1. Flat
        BY <1>1, <2>2 DEF FlatInv
      <3>2. section.addr = Reach(index)
        BY <1>3, <2>2, LinkedIs
      <3>3. Len(out.body) \in Nat
        BY <1>2
      <3>4. Len(out.body) <= Reach(index + 1)
        BY <1>4, <1>5, <3>1, <3>2, <3>3 DEF Flat
      <3>5. \A j \in DOMAIN object : j >= index + 1 => object[j].name \in Bss
        <4>1. \A j \in DOMAIN object : j >= index + 1 => index < j
          BY <1>3, ObjectIs
        <4> QED
          BY <1>3, <1>8, <2>2, <4>1, LinkedIs
      <3>6. \A j \in DOMAIN object :
              j < index + 1 /\ object[j].data # <<>> => object[j].addr + Len(object[j].data) <= Len(out.body)
        BY <1>3, <1>4, <1>6, <1>8, <3>1 DEF Flat
      <3> QED
        BY <1>1, <1>5, <1>7, <1>8, <3>1, <3>4, <3>5, <3>6 DEF Flat
    <2>3. Linked' => Linked
      BY <1>1 DEF Linked, OneAfterTheOther
    <2> QED
      BY <1>1, <1>2, <1>3, <1>8, <2>1, <2>2, <2>3 DEF FlatInv
  <1>9. CASE /\ section.name \notin Bss /\ Len(section.data) >= section.size
             /\ out' = [out EXCEPT !.body = @ \o section.data]
    <2> DEFINE n == Len(out.body)
               body2 == out.body \o section.data
    <2>1. Len(section.data) = section.size /\ n \in Nat
      BY <1>2, <1>4, <1>9
    <2>2. out' = [header |-> out.header, body |-> body2]
      BY <1>2, <1>9
    <2>3. IsJoined(body2, out.body, section.data)
      <3>1. section.data \in Seq(Nat) /\ out.body \in Seq(Nat)
        BY <1>2, <1>4
      <3> QED
        BY <3>1, Joined, Zenon
    <2> HIDE DEF body2
    <2>4. /\ body2 \in Seq(Nat) /\ Len(body2) = n + section.size
          /\ \A i \in 1..n : body2[i] = out.body[i]
          /\ \A i \in 1..section.size : body2[n + i] = section.data[i]
      BY <2>1, <2>3 DEF IsJoined
    <2>5. out'.body = body2 /\ out'.header = out.header
      BY <2>2
    <2>6. Complete0'
      BY <1>1, <1>2, <1>3, <1>6, <2>1 DEF Complete0
    <2>7. ASSUME Linked PROVE Flat'
      <3>1. Flat
        BY <1>1, <2>7 DEF FlatInv
      <3>2. section.addr = Reach(index)
        BY <1>3, <2>7, LinkedIs
      <3>3. n = section.addr
        <4>1. index >= index
          BY <1>3
        <4> QED
          BY <1>3, <1>9, <3>1, <3>2, <4>1 DEF Flat
      <3> HIDE DEF n
      <3>4. Len(body2) = Reach(index + 1)
        BY <1>5, <2>4, <3>3
      <3>5. ASSUME NEW k \in 1..Len(body2) PROVE body2[k] = Contents(k - 1)
        <4>1. CASE k <= n
          <5>1. k \in 1..n
            BY <2>1, <3>5, <4>1
          <5>2. out.body[k] = Contents(k - 1)
            BY <3>1, <5>1 DEF Flat, n
          <5> QED
            BY <2>4, <5>1, <5>2
        <4>2. CASE k > n
          <5> DEFINE i == k - n
          <5>1. i \in 1..section.size /\ n + i = k
            BY <1>4, <2>1, <2>4, <3>5, <4>2
          <5> HIDE DEF i
          <5>a. Len(section.data) = section.size /\ section.size \in Nat
            BY <1>4, <2>1
          <5>b. k \in Int /\ i \in Int
            BY <3>5, <5>1
          <5>2. /\ k - 1 \in Nat /\ (k - 1) - section.addr + 1 = i
                /\ k - 1 \in section.addr .. section.addr + Len(section.data) - 1
            <6>1. k = section.addr + i /\ i >= 1 /\ i <= section.size /\ section.addr \in Nat
              BY <2>1, <3>3, <5>1, <5>b
            <6> QED
              BY <5>a, <5>b, <6>1
          <5>3. k - 1 \in Extent(index)
            BY <1>3, <5>2 DEF Extent
          <5>4. Contents(k - 1) = object[index].data[(k - 1) - object[index].addr + 1]
            BY <1>3, <2>7, <5>2, <5>3, ContentsIs
          <5> HIDE DEF i
          <5> QED
            BY <1>3, <2>4, <5>1, <5>2, <5>4
        <4> QED
          BY <2>1, <3>5, <4>1, <4>2
      <3>6. ASSUME NEW j \in DOMAIN object, j < index + 1, object[j].data # <<>>
            PROVE  object[j].addr + Len(object[j].data) <= Len(body2)
        <4>1. CASE j < index
          <5>1. object[j].addr + Len(object[j].data) <= n
            BY <3>1, <3>6, <4>1 DEF Flat, n
          <5>2. object[j].addr \in Nat /\ Len(object[j].data) \in Nat
            BY ObjectIs
          <5> QED
            BY <1>4, <2>1, <2>4, <5>1, <5>2
        <4>2. CASE j = index
          BY <1>3, <1>4, <2>1, <2>4, <3>3, <4>2
        <4> QED
          BY <1>6, <3>6, <4>1, <4>2
      <3>7. Len(body2) <= Reach(index + 1)
        BY <1>4, <1>5, <3>4
      <3> QED
        BY <1>1, <1>5, <1>7, <2>5, <3>4, <3>5, <3>6, <3>7 DEF Flat
    <2>8. Linked' => Linked
      BY <1>1 DEF Linked, OneAfterTheOther
    <2> QED
      BY <1>1, <1>2, <1>3, <2>2, <2>4, <2>5, <2>6, <2>7, <2>8 DEF FlatInv
  <1> QED
    BY <1>8, <1>9 DEF FlatSection

\* The sections of a linked program end where the last one does.
LEMMA TopIs ==
    ASSUME object \in Objects, Linked, index = Len(object) + 1
    PROVE  top = Reach(Len(object) + 1)
  <1> DEFINE S == {0} \cup {object[k].addr + object[k].size : k \in 1..(index - 1)}
             r == Reach(Len(object) + 1)
  <1>1. 1..(index - 1) = DOMAIN object /\ Len(object) \in Nat /\ r \in Nat
    BY ObjectIs, ReachNat
  <1>2. \A k \in DOMAIN object : object[k].addr + object[k].size \in Nat
    <2>1. \A k \in DOMAIN object : object[k].addr \in Nat /\ object[k].size \in Nat
      BY ObjectIs
    <2> QED
      BY <2>1
  <1>3. r \in S
    <2>1. CASE Len(object) = 0
      BY <1>1, <2>1 DEF Reach
    <2>2. CASE Len(object) # 0
      <3>1. Len(object) \in DOMAIN object /\ Len(object) \in 1..(Len(object) + 1)
        BY <1>1, <2>2, ObjectIs
      <3>2. r = object[Len(object)].addr + object[Len(object)].size
        BY <3>1, ReachNat
      <3> HIDE DEF r
      <3> QED
        BY <1>1, <3>1, <3>2
    <2> QED
      BY <2>1, <2>2
  <1>4. \A x \in S : x \in Nat /\ x <= r
    <2> HIDE DEF r
    <2>1. \A k \in DOMAIN object : object[k].addr + object[k].size <= r
      BY LastEnd DEF r
    <2> QED
      BY <1>1, <1>2, <2>1
  <1> HIDE DEF S, r
  <1>5. \A x \in S : (\A y \in S : x >= y) => x = r
    BY <1>1, <1>3, <1>4
  <1>6. r \in S /\ \A y \in S : r >= y
    BY <1>1, <1>3, <1>4
  <1>7. Max(S) = r
    BY <1>5, <1>6 DEF Max
  <1> QED
    BY <1>7 DEF top, S, r

\* after the stack,
LEMMA AddStackStep ==
    ASSUME object \in Objects, FlatInv, AddStack
    PROVE  FlatInv'
  <1> DEFINE n == Len(out.body)
             m == Max({n, top + StackSize})
             body2 == [k \in 1..m |-> IF k \in 1..n /\ k <= top + StackSize - 4 THEN out.body[k] ELSE 0]
  <1>1. /\ phase = "convert" /\ phase' = "done" /\ index > Len(object)
        /\ UNCHANGED <<tool, object, index, noffH>>
        /\ out' = [out EXCEPT !.body = body2]
    BY DEF AddStack, Runs, Finished
  <1>2. /\ index \in 1..(Len(object) + 1) /\ Complete0
        /\ out = [header |-> out.header, body |-> out.body] /\ out.body \in Seq(Nat)
    BY <1>1 DEF FlatInv
  <1>3. index = Len(object) + 1 /\ n \in Nat /\ StackSize \in Nat /\ StackSize >= 4
    BY <1>1, <1>2, ObjectIs, SizesAssumption
  <1>4. out'.body = body2
    <2> HIDE DEF body2
    <2> QED
      BY <1>1, <1>2
  <1>5. Complete0' /\ index' = Len(object') + 1
    BY <1>1, <1>2, <1>3 DEF Complete0
  <1>6. ASSUME Linked, NEW k \in 1..m PROVE body2[k] = Contents(k - 1)
    <2>1. Flat
      BY <1>1, <1>6 DEF FlatInv
    <2>2. top = Reach(Len(object) + 1) /\ top \in Nat
      BY <1>3, <1>6, TopIs, ReachNat, ObjectIs
    <2>3. n <= top
      BY <1>3, <2>1, <2>2 DEF Flat
    <2>4. m \in Int
      <3>1. n \in Int /\ top + StackSize \in Int
        BY <1>3, <2>2
      <3>2. \A x, y \in Int : \E z \in {x, y} : \A w \in {x, y} : z >= w
        OBVIOUS
      <3>3. \E z \in {n, top + StackSize} : \A w \in {n, top + StackSize} : z >= w
        BY <3>1, <3>2
      <3>4. m \in {n, top + StackSize}
        BY <3>3 DEF Max
      <3> QED
        BY <3>1, <3>4
    <2> HIDE DEF m
    <2>5. k \in Nat /\ k >= 1 /\ k - 1 \in Nat
      BY <1>6, <2>4
    <2>6. CASE k <= n
      <3>1. k \in 1..n /\ k <= top + StackSize - 4
        BY <1>3, <2>2, <2>3, <2>5, <2>6
      <3>2. out.body[k] = Contents(k - 1)
        BY <2>1, <3>1 DEF Flat
      <3> QED
        BY <1>6, <3>1, <3>2
    <2>7. CASE k > n
      <3>1. body2[k] = 0
        BY <1>3, <1>6, <2>5, <2>7
      <3>2. ASSUME NEW j \in DOMAIN object, k - 1 \in Extent(j) PROVE FALSE
        <4>1. object[j].addr \in Nat /\ Len(object[j].data) \in Nat /\ object[j].data \in Seq(Nat) /\ j < index
          BY <1>3, ObjectIs
        <4>2. k - 1 >= object[j].addr /\ k - 1 <= object[j].addr + Len(object[j].data) - 1
          BY <2>5, <3>2, <4>1 DEF Extent
        <4>3. object[j].data # <<>>
          BY <4>1, <4>2
        <4>4. object[j].addr + Len(object[j].data) <= n
          BY <2>1, <4>1, <4>3 DEF Flat
        <4> QED
          BY <1>3, <2>5, <2>7, <4>1, <4>2, <4>4
      <3>3. Contents(k - 1) = 0
        BY <1>6, <2>5, <3>2, ContentsIs
      <3> QED
        BY <3>1, <3>3
    <2> QED
      BY <1>3, <2>5, <2>6, <2>7
  <1>7. Linked' => Linked
    BY <1>1 DEF Linked, OneAfterTheOther
  <1>8. \A a : Contents(a)' = Contents(a)
    BY <1>1 DEF Contents
  <1>9. ASSUME Linked' PROVE \A k \in DOMAIN out'.body : out'.body[k] = Contents(k - 1)'
    <2>1. DOMAIN out'.body = 1..m
      BY <1>4
    <2> HIDE DEF m, body2
    <2> QED
      BY <1>4, <1>6, <1>7, <1>8, <1>9, <2>1
  <1> QED
    BY <1>1, <1>5, <1>9 DEF FlatInv

\* and so after every step.
LEMMA FlatStep ==
    ASSUME object \in Objects, FlatInv, ToolNext, tool = "flat"
    PROVE  FlatInv'
  <1>1. CASE FlatSection
    BY <1>1, FlatSectionStep
  <1>2. CASE AddStack
    BY <1>2, AddStackStep
  <1>3. CASE FlatFail
    BY <1>3 DEF FlatFail, FlatInv
  <1>4. CASE Kill
    BY <1>4 DEF Kill, FlatInv
  <1>5. CASE CopySection \/ WriteHeader \/ Fail \/ load_program \/ LoadDone
    BY <1>5 DEF CopySection, WriteHeader, Fail, load_program, LoadDone, Runs
  <1> QED
    BY <1>1, <1>2, <1>3, <1>4, <1>5 DEF ToolNext

-----------------------------------------------------------------------------
(***************************************************************************)
(* The interpreter's loading.  The sections it has been through are in     *)
(* place and the rest of its memory is zero, if the file has all of them.  *)
(***************************************************************************)
LoadedYet(j) == object[j].data # <<>> /\ \E i \in 1..(index - 1) : object[j].name = LoadOrder[i]

Image ==
    \A k \in 1..MEMSIZE :
        out.body[k] = IF \E j \in DOMAIN object : LoadedYet(j) /\ k - 1 \in Extent(j) THEN Contents(k - 1) ELSE 0

ExecInv ==
    /\ phase \in {"convert", "done"} =>
        /\ index \in 1..7
        /\ out = [header |-> out.header, body |-> out.body] /\ out.body = [k \in 1..MEMSIZE |-> out.body[k]]
        /\ Linked /\ ~TooShort => Image
    /\ phase = "done" => index = 7

\* The interpreter: at the start,
LEMMA ExecStart ==
    ASSUME object \in Objects, ToolInit, tool = "execute"
    PROVE  ExecInv
  <1>1. index = 1 /\ phase = "convert" /\ out = [header |-> Absent, body |-> [k \in 1..MEMSIZE |-> 0]]
    BY DEF ToolInit
  <1>2. \A j : ~LoadedYet(j)
    BY <1>1 DEF LoadedYet
  <1>3. out.body = [k \in 1..MEMSIZE |-> 0]
    BY <1>1
  <1>4. Image
    BY <1>2, <1>3 DEF Image
  <1> QED
    BY <1>1, <1>3, <1>4 DEF ExecInv

\* the names it looks for,
LEMMA LoadOrderIs ==
    /\ DOMAIN LoadOrder = 1..6
    /\ \A x \in Range(LoadOrder) : \E i \in 1..6 : x = LoadOrder[i]
  <1>1. DOMAIN LoadOrder = 1..6
    BY DEF LoadOrder
  <1> QED
    BY <1>1 DEF Range

\* after a section,
LEMMA LoadSectionStep ==
    ASSUME object \in Objects, ExecInv, load_program
    PROVE  ExecInv'
  <1> DEFINE found == {k \in DOMAIN object : object[k].name = LoadOrder[index] /\ object[k].data # <<>>}
             s == object[Min(found)]
  <1>1. /\ phase = "convert" /\ tool = "execute" /\ index \in 1..6
        /\ UNCHANGED <<tool, object, noffH>>
        /\ IF found = {} THEN index' = index + 1 /\ UNCHANGED <<out, phase>>
           ELSE IF s.addr + s.size >= MEMSIZE THEN phase' = "failed" /\ UNCHANGED <<index, out>>
           ELSE /\ index' = index + 1
                /\ out' = [out EXCEPT !.body = LOADSECTION(s)]
                /\ UNCHANGED phase
    BY LoadOrderIs DEF load_program, Runs
  <1>2. out = [header |-> out.header, body |-> out.body] /\ out.body = [k \in 1..MEMSIZE |-> out.body[k]]
    BY <1>1 DEF ExecInv
  <1>3. \A i : i \in 1..(index + 1 - 1) <=> (i \in 1..(index - 1) \/ i = index)
    BY <1>1
  <1>4. index' = index + 1 => \A j : LoadedYet(j)' <=> LoadedYet(j) \/ (object[j].data # <<>> /\ object[j].name = LoadOrder[index])
    BY <1>1, <1>3 DEF LoadedYet
  <1>5. (Linked' => Linked) /\ (TooShort => TooShort')
    BY <1>1 DEF Linked, OneAfterTheOther, TooShort
  <1>6. \A a : Contents(a)' = Contents(a)
    BY <1>1 DEF Contents
  <1>7. \A j : Extent(j)' = Extent(j)
    BY <1>1 DEF Extent
  <1>8. CASE found = {}
    <2>1. index' = index + 1 /\ UNCHANGED <<out, phase>>
      BY <1>1, <1>8
    <2>2. \A j \in DOMAIN object : LoadedYet(j)' <=> LoadedYet(j)
      BY <1>4, <1>8, <2>1
    <2>3. Image => Image'
      BY <1>1, <1>6, <1>7, <2>1, <2>2 DEF Image
    <2> QED
      BY <1>1, <1>5, <2>1, <2>3 DEF ExecInv
  <1>9. CASE found # {} /\ s.addr + s.size >= MEMSIZE
    BY <1>1, <1>9 DEF ExecInv
  <1>10. CASE found # {} /\ ~(s.addr + s.size >= MEMSIZE)
    <2>1. /\ index' = index + 1 /\ phase' = phase /\ index' \in 1..7
          /\ out' = [out EXCEPT !.body = LOADSECTION(s)]
      BY <1>1, <1>10
    <2>2. out'.body = LOADSECTION(s) /\ out' = [header |-> out'.header, body |-> out'.body]
      BY <1>2, <2>1
    <2>3. out'.body = [k \in 1..MEMSIZE |-> out'.body[k]]
      BY <2>2 DEF LOADSECTION
    <2>4. ASSUME Linked, ~TooShort PROVE Image'
      <3>1. Image
        BY <1>1, <2>4 DEF ExecInv
      <3>2. PICK k \in found : TRUE
        BY <1>10
      <3>3. k \in DOMAIN object /\ object[k].name = LoadOrder[index] /\ object[k].data # <<>>
        BY <3>2
      <3>4. \A j \in found : j = k
        BY <2>4, <3>3, LinkedIs
      <3>5. found = {k} /\ k \in Nat
        BY <3>3, <3>4, ObjectIs
      <3>6. Min({k}) = k
        BY <3>5 DEF Min
      <3> HIDE DEF found
      <3>7. s = object[k]
        BY <3>5, <3>6
      <3>8. /\ s.addr \in Nat /\ s.size \in Nat /\ s.data \in Seq(Nat) /\ Len(s.data) \in Nat /\ s.name \notin Bss
        BY <3>3, <3>7, ObjectIs
      <3>9. Len(s.data) = s.size
        BY <2>4, <3>3, <3>7, <3>8, ObjectIs DEF TooShort
      <3> HIDE DEF s
      <3>10. \A j \in DOMAIN object : LoadedYet(j)' <=> (LoadedYet(j) \/ j = k)
        BY <1>4, <2>1, <3>3, <3>4 DEF found
      <3>11. ASSUME NEW b \in 1..MEMSIZE
             PROVE  out'.body[b] = IF \E j \in DOMAIN object : LoadedYet(j)' /\ b - 1 \in Extent(j)
                                   THEN Contents(b - 1) ELSE 0
        <4>1. b \in Nat /\ b - 1 \in Nat
          BY <3>11, SizesAssumption
        <4>2. out'.body[b] = IF b - s.addr \in 1..Len(s.data) THEN s.data[b - s.addr]
                             ELSE IF b - s.addr \in 1..s.size THEN EndOfFile ELSE out.body[b]
          BY <2>2, <3>11 DEF LOADSECTION
        <4>3. b - s.addr \in 1..Len(s.data) <=> b - 1 \in Extent(k)
          BY <3>7, <3>8, <4>1 DEF Extent
        <4>4. CASE b - 1 \in Extent(k)
          <5>1. Contents(b - 1) = s.data[(b - 1) - s.addr + 1]
            BY <2>4, <3>3, <3>7, <4>1, <4>4, ContentsIs
          <5>2. (b - 1) - s.addr + 1 = b - s.addr
            BY <3>8, <4>1
          <5> QED
            BY <3>3, <3>10, <4>2, <4>3, <4>4, <5>1, <5>2
        <4>5. CASE b - 1 \notin Extent(k)
          <5>1. out'.body[b] = out.body[b]
            BY <3>9, <4>2, <4>3, <4>5
          <5> QED
            BY <3>1, <3>10, <3>11, <4>5, <5>1 DEF Image
        <4> QED
          BY <4>4, <4>5
      <3> QED
        BY <1>1, <1>6, <1>7, <3>11 DEF Image
    <2> QED
      BY <1>1, <1>5, <2>1, <2>2, <2>3, <2>4 DEF ExecInv
  <1> QED
    BY <1>8, <1>9, <1>10

\* and so after every step.
LEMMA ExecStep ==
    ASSUME object \in Objects, ExecInv, ToolNext, tool = "execute"
    PROVE  ExecInv'
  <1>1. CASE load_program
    BY <1>1, LoadSectionStep
  <1>2. CASE LoadDone
    <2>1. /\ phase = "convert" /\ phase' = "done" /\ index \notin 1..6
          /\ UNCHANGED <<tool, object, index, noffH, out>>
      BY <1>2, LoadOrderIs DEF LoadDone, Runs
    <2>2. index = 7
      BY <2>1 DEF ExecInv
    <2>3. (Linked' => Linked) /\ (TooShort => TooShort')
      BY <2>1 DEF Linked, OneAfterTheOther, TooShort
    <2>4. \A x : Contents(x)' = Contents(x)
      BY <2>1 DEF Contents
    <2>5. \A j : Extent(j)' = Extent(j) /\ (LoadedYet(j)' <=> LoadedYet(j))
      BY <2>1 DEF Extent, LoadedYet
    <2>6. Image => Image'
      BY <2>1, <2>4, <2>5 DEF Image
    <2> QED
      BY <2>1, <2>2, <2>3, <2>6 DEF ExecInv
  <1>3. CASE Kill
    BY <1>3 DEF Kill, ExecInv
  <1>4. CASE CopySection \/ WriteHeader \/ Fail \/ FlatSection \/ FlatFail \/ AddStack
    BY <1>4 DEF CopySection, WriteHeader, Fail, FlatSection, FlatFail, AddStack, Runs
  <1> QED
    BY <1>1, <1>2, <1>3, <1>4 DEF ToolNext

\* When it is done, its memory is the program's.
LEMMA ExecExact ==
    ASSUME object \in Objects, ExecInv, phase = "done", Linked, ~TooShort, NEW b \in DOMAIN out.body
    PROVE  out.body[b] = Contents(b - 1)
  <1>1. index = 7 /\ Image /\ b \in 1..MEMSIZE
    BY DEF ExecInv
  <1>2. b - 1 \in Nat
    BY <1>1, SizesAssumption
  <1>3. ASSUME NEW j \in DOMAIN object, b - 1 \in Extent(j) PROVE LoadedYet(j)
    <2>1. object[j].addr \in Nat /\ Len(object[j].data) \in Nat /\ object[j].data \in Seq(Nat)
      BY ObjectIs
    <2>2. Len(object[j].data) # 0
      BY <1>2, <1>3, <2>1 DEF Extent
    <2>3. object[j].data # <<>>
      BY <2>1, <2>2
    <2>4. object[j].name \in Range(LoadOrder)
      BY <2>3, LinkedIs
    <2>5. index - 1 = 6
      BY <1>1
    <2> QED
      BY <2>3, <2>4, <2>5, LoadOrderIs DEF LoadedYet
  <1>4. CASE \E j \in DOMAIN object : b - 1 \in Extent(j)
    BY <1>1, <1>3, <1>4 DEF Image
  <1>5. CASE ~\E j \in DOMAIN object : b - 1 \in Extent(j)
    <2>1. Contents(b - 1) = 0
      BY <1>2, <1>5, ContentsIs
    <2> QED
      BY <1>1, <1>5, <2>1 DEF Image
  <1> QED
    BY <1>4, <1>5

-----------------------------------------------------------------------------
(***************************************************************************)
(* The kernel.  In the order of its steps memory is zero, has the code,    *)
(* has the code and the initialized data; the file it reads is a finished  *)
(* one, and nothing writes to that any more.                               *)
(***************************************************************************)
InSegment(seg, a) == a \in seg.virtualAddr..(seg.virtualAddr + seg.size - 1)
FileByte(seg, a) == out.body[seg.inFileAddr + a - seg.virtualAddr + 1]

WithCode(a) == IF InSegment(noff.code, a) THEN FileByte(noff.code, a) ELSE 0
WithData(a) == IF InSegment(noff.initData, a) THEN FileByte(noff.initData, a) ELSE WithCode(a)

InMemory(a) == IF kernel = "code" THEN 0 ELSE IF kernel = "data" THEN WithCode(a) ELSE WithData(a)

MemoryFunction == mainMemory = [a \in 0..(MemorySize - 1) |-> mainMemory[a]]

KernelLoads ==
    kernel \in {"code", "data", "loaded", "running"} =>
        /\ phase = "done" /\ numPages <= NumPhysPages /\ pageTable = Identity
        /\ \A a \in 0..(numPages * PageSize - 1) : mainMemory[a] = InMemory(a)

ToolInv ==
    /\ object \in Objects /\ tool \in {"noff", "flat", "execute"}
    /\ phase \in {"convert", "done", "failed", "killed"}
    /\ tool = "noff" => NoffInv
    /\ tool = "flat" => FlatInv
    /\ tool = "execute" => ExecInv

LoadInv ==
    /\ ToolInv /\ MemoryFunction /\ useTLB = FALSE
    /\ kernel # "idle" => tool = "noff" /\ phase # "convert"
    /\ KernelLoads
    /\ kernel = "running" =>
        /\ table = pageTable
        /\ registers = [r \in AllRegs |-> IF r = NextPCReg THEN 4
                                          ELSE IF r = StackReg THEN numPages * PageSize - 16 ELSE 0]

\* A step of a tool keeps what is said of it, and is taken only during the conversion.
LEMMA ToolInvStep ==
    ASSUME ToolInv, ToolNext
    PROVE  ToolInv' /\ phase = "convert"
  <1>1. UNCHANGED <<tool, object>> /\ phase = "convert" /\ phase' \in {"convert", "done", "failed", "killed"}
    BY DEF ToolInv, ToolNext, CopySection, WriteHeader, Fail, Kill, FlatSection, FlatFail, AddStack,
       load_program, LoadDone, Runs
  <1>2. tool = "noff" => NoffInv'
    BY NoffStep DEF ToolInv
  <1>3. tool = "flat" => FlatInv'
    BY FlatStep DEF ToolInv
  <1>4. tool = "execute" => ExecInv'
    BY ExecStep DEF ToolInv
  <1> QED
    BY <1>1, <1>2, <1>3, <1>4 DEF ToolInv

\* What is said of the tools depends on their state only,
LEMMA ToolStays ==
    ASSUME UNCHANGED toolVars
    PROVE  (NoffInv' <=> NoffInv) /\ (FlatInv' <=> FlatInv) /\ (ExecInv' <=> ExecInv)
  <1>1. UNCHANGED <<tool, object, index, noffH, out, phase>>
    BY DEF toolVars
  <1>2. (Linked' <=> Linked) /\ (TooShort' <=> TooShort) /\ (Complete0' <=> Complete0)
    BY <1>1 DEF Linked, OneAfterTheOther, TooShort, Complete0
  <1>3. \A a : Contents(a)' = Contents(a)
    BY <1>1 DEF Contents
  <1>4. (Converted' <=> Converted)
    BY <1>1 DEF Converted, Placed, Sections, Reach
  <1>5. Flat' <=> Flat
    BY <1>1, <1>3 DEF Flat, Reach
  <1>6. Image' <=> Image
    BY <1>1, <1>3 DEF Image, LoadedYet, Extent
  <1> QED
    BY <1>1, <1>2, <1>3, <1>4, <1>5, <1>6 DEF NoffInv, ConvertInv, FlatInv, ExecInv

\* so that no other step disturbs it.
LEMMA ToolInvStays ==
    ASSUME ToolInv, UNCHANGED toolVars
    PROVE  ToolInv'
  <1>1. UNCHANGED <<tool, object, phase>>
    BY DEF toolVars
  <1> QED
    BY <1>1, ToolStays DEF ToolInv

\* The header and the sizes of a finished file.
LEMMA HeaderIs ==
    ASSUME ToolInv, tool = "noff", phase = "done"
    PROVE  /\ noff = noffH /\ noff \in HeaderType
           /\ noff.code \in SegmentType /\ noff.initData \in SegmentType /\ noff.uninitData \in SegmentType
           /\ numPages \in Nat
           /\ noff.code.size + noff.initData.size + noff.uninitData.size + UserStackSize <= numPages * PageSize
           /\ numPages * PageSize \in Nat
  <1>1. noff = noffH /\ noff \in HeaderType
    BY DEF ToolInv, NoffInv, ConvertInv, noff
  <1>2. noff.code \in SegmentType /\ noff.initData \in SegmentType /\ noff.uninitData \in SegmentType
    BY <1>1 DEF HeaderType
  <1>3. noff.code.size \in Nat /\ noff.initData.size \in Nat /\ noff.uninitData.size \in Nat
    BY <1>2 DEF SegmentType
  <1> DEFINE n == noff.code.size + noff.initData.size + noff.uninitData.size + UserStackSize
             p == PageSize
  <1>4. n \in Nat /\ p \in Nat /\ p > 0
    BY <1>3, StackAssumption, PageAssumption
  <1>5. numPages = (n + p - 1) \div p
    BY DEF numPages, divRoundUp
  <1> HIDE DEF n, p
  <1>6. \A x \in Nat, s \in Nat \ {0} :
          /\ (x + s - 1) \div s \in Nat
          /\ x <= ((x + s - 1) \div s) * s
          /\ ((x + s - 1) \div s) * s \in Nat
    <2>1. TAKE x \in Nat, s \in Nat \ {0}
    <2> DEFINE quot == (x + s - 1) \div s
    <2>2. x + s - 1 \in Nat /\ s > 0
      OBVIOUS
    <2>3. quot \in Nat /\ x + s - 1 = quot * s + ((x + s - 1) % s) /\ (x + s - 1) % s \in 0..(s - 1)
      BY <2>2
    <2> HIDE DEF quot
    <2>4. quot * s \in Nat
      BY <2>3
    <2> DEFINE z == quot * s
               w == (x + s - 1) % s
    <2>5. z \in Nat /\ x + s - 1 = z + w /\ w \in 0..(s - 1)
      BY <2>3, <2>4
    <2> HIDE DEF z, w
    <2>6. x <= z
      BY <2>5
    <2> QED
      BY <2>3, <2>4, <2>6 DEF quot, z
  <1>7. numPages \in Nat /\ n <= numPages * p /\ numPages * p \in Nat
    BY <1>4, <1>5, <1>6
  <1> QED
    BY <1>1, <1>2, <1>7 DEF n, p

\* The kernel: at the start,
LEMMA LoadStart ==
    ASSUME AddrSpaceInit
    PROVE  LoadInv
  <1>1. ToolInv
    BY NoffStart, FlatStart, ExecStart DEF AddrSpaceInit, ToolInv, ToolInit
  <1>2. MemoryFunction
    BY DEF AddrSpaceInit, MemoryFunction
  <1> QED
    BY <1>1, <1>2 DEF AddrSpaceInit, LoadInv, KernelLoads

\* Memory holds the pages of a program that is loaded.
LEMMA PagesFit ==
    ASSUME ToolInv, tool = "noff", phase = "done", numPages <= NumPhysPages
    PROVE  0..(numPages * PageSize - 1) \subseteq 0..(MemorySize - 1)
  <1>1. numPages \in Nat /\ NumPhysPages \in Nat /\ PageSize \in Nat
    BY HeaderIs, PageAssumption
  <1>2. \A m, n, s \in Nat : m <= n => m * s <= n * s /\ m * s \in Nat /\ n * s \in Nat
    OBVIOUS
  <1>3. numPages * PageSize <= MemorySize /\ numPages * PageSize \in Nat /\ MemorySize \in Nat
    BY <1>1, <1>2 DEF MemorySize
  <1> QED
    BY <1>3

\* What a step that leaves the file alone leaves of what is said of it.
LEMMA FileStays ==
    ASSUME UNCHANGED toolVars
    PROVE  /\ numPages' = numPages /\ Identity' = Identity /\ UNCHANGED <<phase, tool>>
           /\ \A a : WithCode(a)' = WithCode(a) /\ WithData(a)' = WithData(a)
  <1>1. UNCHANGED <<out, phase, tool>>
    BY DEF toolVars
  <1>2. numPages' = numPages
    BY <1>1 DEF numPages, noff
  <1> QED
    BY <1>1, <1>2 DEF Identity, WithCode, WithData, noff, InSegment, FileByte

\* after Open and the zeroing of memory,
LEMMA OpenStep ==
    ASSUME LoadInv, OpenExecutable
    PROVE  LoadInv'
  <1>1. /\ tool = "noff" /\ phase # "convert" /\ kernel = "idle"
        /\ UNCHANGED <<toolVars, table, useTLB, registers>>
        /\ \/ kernel' \in {"absent", "aborted"} /\ UNCHANGED <<pageTable, mainMemory>>
           \/ /\ out # Absent /\ noff # Absent /\ ~(numPages > NumPhysPages)
              /\ kernel' = "code" /\ pageTable' = Identity
              /\ mainMemory' = [a \in DOMAIN mainMemory |-> IF a < numPages * PageSize THEN 0 ELSE mainMemory[a]]
    BY DEF OpenExecutable
  <1>2. ToolInv' /\ UNCHANGED <<phase, tool>>
    BY <1>1, ToolInvStays, FileStays DEF LoadInv
  <1>3. CASE kernel' \in {"absent", "aborted"} /\ UNCHANGED <<pageTable, mainMemory>>
    BY <1>1, <1>2, <1>3 DEF LoadInv, MemoryFunction, KernelLoads, MemorySize
  <1>4. CASE /\ out # Absent /\ noff # Absent /\ ~(numPages > NumPhysPages)
             /\ kernel' = "code" /\ pageTable' = Identity
             /\ mainMemory' = [a \in DOMAIN mainMemory |-> IF a < numPages * PageSize THEN 0 ELSE mainMemory[a]]
    <2>1. phase = "done"
      BY <1>1, <1>4 DEF LoadInv, ToolInv, NoffInv, noff
    <2>2. numPages \in Nat /\ NumPhysPages \in Nat /\ numPages * PageSize \in Nat
      BY <1>1, <2>1, HeaderIs, PageAssumption DEF LoadInv
    <2>3. numPages <= NumPhysPages
      BY <1>4, <2>2
    <2>4. 0..(numPages * PageSize - 1) \subseteq 0..(MemorySize - 1)
      BY <1>1, <2>1, <2>3, PagesFit DEF LoadInv
    <2>5. DOMAIN mainMemory = 0..(MemorySize - 1)
      BY DEF LoadInv, MemoryFunction
    <2>6. \A a \in 0..(numPages * PageSize - 1) : mainMemory'[a] = 0
      <3>1. \A a \in 0..(numPages * PageSize - 1) : a \in DOMAIN mainMemory /\ a < numPages * PageSize
        BY <2>2, <2>4, <2>5
      <3> QED
        BY <1>4, <3>1
    <2>7. MemoryFunction'
      BY <1>4, <2>5 DEF MemoryFunction, MemorySize
    <2>8. KernelLoads'
      BY <1>1, <1>2, <1>4, <2>1, <2>3, <2>6, FileStays DEF KernelLoads, InMemory
    <2> QED
      BY <1>1, <1>2, <1>4, <2>7, <2>8 DEF LoadInv
  <1> QED
    BY <1>1, <1>3, <1>4

\* after the reading of a segment,
LEMMA SegmentsStep ==
    ASSUME LoadInv, LoadSegments
    PROVE  LoadInv'
  <1>1. /\ \/ kernel = "code" /\ kernel' = "data" /\ ReadSegment(noff.code)
           \/ kernel = "data" /\ kernel' = "loaded" /\ ReadSegment(noff.initData)
        /\ UNCHANGED <<toolVars, pageTable, table, useTLB, registers>>
    BY DEF LoadSegments
  <1>2. ToolInv' /\ UNCHANGED <<phase, tool>> /\ tool = "noff" /\ phase # "convert"
    BY <1>1, ToolInvStays, FileStays DEF LoadInv
  <1>3. /\ phase = "done" /\ numPages <= NumPhysPages /\ pageTable = Identity
        /\ \A a \in 0..(numPages * PageSize - 1) : mainMemory[a] = InMemory(a)
    BY <1>1 DEF LoadInv, KernelLoads
  <1>4. 0..(numPages * PageSize - 1) \subseteq 0..(MemorySize - 1)
    BY <1>2, <1>3, PagesFit DEF LoadInv
  <1>5. DOMAIN mainMemory = 0..(MemorySize - 1)
    BY DEF LoadInv, MemoryFunction
  <1>6. MemoryFunction'
    BY <1>1, <1>5 DEF MemoryFunction, MemorySize, ReadSegment
  <1>7. \A a \in 0..(numPages * PageSize - 1) : mainMemory'[a] = InMemory(a)'
    <2>1. TAKE a \in 0..(numPages * PageSize - 1)
    <2>2. a \in DOMAIN mainMemory /\ mainMemory[a] = InMemory(a)
      BY <1>3, <1>4, <1>5
    <2>3. CASE kernel = "code" /\ kernel' = "data" /\ ReadSegment(noff.code)
      <3>1. mainMemory'[a] = IF InSegment(noff.code, a) THEN FileByte(noff.code, a) ELSE mainMemory[a]
        BY <2>2, <2>3 DEF ReadSegment, InSegment, FileByte
      <3>2. mainMemory[a] = 0
        BY <2>2, <2>3 DEF InMemory
      <3>3. InMemory(a)' = WithCode(a)
        BY <1>1, <2>3, FileStays DEF InMemory
      <3> QED
        BY <3>1, <3>2, <3>3 DEF WithCode
    <2>4. CASE kernel = "data" /\ kernel' = "loaded" /\ ReadSegment(noff.initData)
      <3>1. mainMemory'[a] = IF InSegment(noff.initData, a) THEN FileByte(noff.initData, a) ELSE mainMemory[a]
        BY <2>2, <2>4 DEF ReadSegment, InSegment, FileByte
      <3>2. mainMemory[a] = WithCode(a)
        BY <2>2, <2>4 DEF InMemory
      <3>3. InMemory(a)' = WithData(a)
        BY <1>1, <2>4, FileStays DEF InMemory
      <3> QED
        BY <3>1, <3>2, <3>3 DEF WithData
    <2> QED
      BY <1>1, <2>3, <2>4
  <1>8. KernelLoads'
    BY <1>1, <1>2, <1>3, <1>7, FileStays DEF KernelLoads
  <1> QED
    BY <1>1, <1>2, <1>6, <1>8 DEF LoadInv

\* after the registers are set,
LEMMA StartStep ==
    ASSUME LoadInv, StartProgram
    PROVE  LoadInv'
  <1>1. /\ kernel = "loaded" /\ kernel' = "running"
        /\ registers' = [r \in AllRegs |-> IF r = NextPCReg THEN 4
                                           ELSE IF r = StackReg THEN numPages * PageSize - 16 ELSE 0]
        /\ table' = pageTable /\ UNCHANGED <<toolVars, pageTable, mainMemory, useTLB>>
    BY DEF StartProgram
  <1>2. ToolInv' /\ UNCHANGED <<phase, tool>>
    BY <1>1, ToolInvStays, FileStays DEF LoadInv
  <1>3. MemoryFunction'
    BY <1>1 DEF LoadInv, MemoryFunction, MemorySize
  <1>4. KernelLoads'
    BY <1>1, <1>2, FileStays DEF LoadInv, KernelLoads, InMemory
  <1> QED
    BY <1>1, <1>2, <1>3, <1>4, FileStays DEF LoadInv

\* after a step of something else,
LEMMA LoadStays ==
    ASSUME LoadInv, UNCHANGED <<addrSpaceVars, machine>>
    PROVE  LoadInv'
  <1>1. UNCHANGED <<kernel, pageTable, mainMemory, table, useTLB, registers>> /\ UNCHANGED toolVars
    BY DEF addrSpaceVars, machine
  <1>2. ToolInv' /\ UNCHANGED <<phase, tool>>
    BY <1>1, ToolInvStays, FileStays DEF LoadInv
  <1>3. MemoryFunction'
    BY <1>1 DEF LoadInv, MemoryFunction, MemorySize
  <1>4. KernelLoads'
    BY <1>1, <1>2, FileStays DEF LoadInv, KernelLoads, InMemory
  <1> QED
    BY <1>1, <1>2, <1>3, <1>4, FileStays DEF LoadInv

\* and so after every step.
LEMMA NextLoad == LoadInv /\ [AddrSpaceNext]_<<addrSpaceVars, machine>> => LoadInv'
  <1> SUFFICES ASSUME LoadInv, [AddrSpaceNext]_<<addrSpaceVars, machine>> PROVE LoadInv'
    OBVIOUS
  <1>1. CASE ToolNext /\ UNCHANGED <<kernel, pageTable, machine>>
    <2>1. ToolInv' /\ phase = "convert"
      BY <1>1, ToolInvStep DEF LoadInv
    <2>2. kernel = "idle" /\ kernel' = "idle"
      BY <1>1, <2>1 DEF LoadInv
    <2>3. UNCHANGED <<mainMemory, useTLB>>
      BY <1>1 DEF machine
    <2> QED
      BY <2>1, <2>2, <2>3 DEF LoadInv, MemoryFunction, MemorySize, KernelLoads
  <1>2. CASE OpenExecutable
    BY <1>2, OpenStep
  <1>3. CASE LoadSegments
    BY <1>3, SegmentsStep
  <1>4. CASE StartProgram
    BY <1>4, StartStep
  <1>5. CASE UNCHANGED <<addrSpaceVars, machine>>
    BY <1>5, LoadStays
  <1> QED
    BY <1>1, <1>2, <1>3, <1>4, <1>5 DEF AddrSpaceNext

\* A finished image is exact, whichever tool has made it.
LEMMA ImagesExact ==
    ASSUME ToolInv
    PROVE  ImageExact
  <1>1. ASSUME phase = "done", TooShort, tool # "execute" PROVE FALSE
    <2>1. Complete0 /\ index = Len(object) + 1
      BY <1>1 DEF ToolInv, NoffInv, ConvertInv, FlatInv
    <2>2. \A j \in DOMAIN object : j < index
      BY <2>1, ObjectIs DEF ToolInv
    <2>3. PICK k \in DOMAIN object : object[k].name \notin Bss /\ Len(object[k].data) < object[k].size
      BY <1>1 DEF TooShort
    <2>4. Len(object[k].data) = object[k].size
      BY <2>1, <2>2, <2>3 DEF Complete0
    <2>5. object[k].size \in Nat
      BY ObjectIs DEF ToolInv
    <2> QED
      BY <2>3, <2>4, <2>5
  <1>2. ASSUME Linked, phase = "done", tool # "noff", ~TooShort, NEW k \in DOMAIN out.body
        PROVE  out.body[k] = Contents(k - 1)
    BY <1>2, ExecExact DEF ToolInv, FlatInv
  <1> QED
    BY <1>1, <1>2 DEF ImageExact

\* The page table of a loaded program names every byte of its pages as itself.
LEMMA IdentityIs ==
    ASSUME useTLB = FALSE, table = Identity, numPages \in Nat, numPages <= NumPhysPages, MemoryFunction,
           NEW a \in Nat, a < numPages * PageSize, mainMemory[a] \in Nat
    PROVE  Exception(table, a, 1, TRUE) = "NoException" /\ ReadMem(table, a, 1) = mainMemory[a]
  <1> DEFINE p == vpn(a)
  <1>1. PageSize \in Nat /\ PageSize > 0 /\ NumPhysPages \in Nat
    BY PageAssumption
  <1>2. \A n, s, x \in Nat : s > 0 /\ x < n * s =>
          /\ x \div s \in Nat /\ x \div s < n /\ x = (x \div s) * s + (x % s)
          /\ x % s \in Nat
    OBVIOUS
  <1>3. p \in Nat /\ p < numPages /\ a = p * PageSize + (a % PageSize) /\ a % PageSize \in Nat
    BY <1>1, <1>2 DEF vpn
  <1>4. /\ table = [i \in 1..numPages |-> [virtualPage |-> i - 1, physicalPage |-> i - 1, valid |-> TRUE,
                                           readOnly |-> FALSE, use |-> FALSE, dirty |-> FALSE]]
        /\ Len(table) = numPages
    BY DEF Identity
  <1> HIDE DEF p
  <1>5. p + 1 \in 1..numPages /\ (p + 1) - 1 = p
    BY <1>3
  <1>6. /\ DOMAIN table = 1..numPages /\ \A n \in 1..numPages : table[n].valid
        /\ table[p + 1].physicalPage = p /\ table[p + 1].readOnly = FALSE
    BY <1>4, <1>5
  <1>7. {n \in DOMAIN table : table[n].valid /\ (IF useTLB THEN table[n].virtualPage = vpn(a) ELSE n = vpn(a) + 1)}
          = {p + 1}
    BY <1>5, <1>6 DEF p
  <1>8. Lookup(table, vpn(a)) = p + 1
    <2> DEFINE found == {n \in DOMAIN table : table[n].valid /\
                           (IF useTLB THEN table[n].virtualPage = vpn(a) ELSE n = vpn(a) + 1)}
    <2>1. Lookup(table, vpn(a)) = IF found = {} THEN 0 ELSE CHOOSE n \in found : \A m \in found : n <= m
      BY DEF Lookup
    <2>2. found = {p + 1}
      BY <1>7
    <2> HIDE DEF found
    <2>3. \A n \in found : n = p + 1 /\ \A m \in found : n <= m
      BY <1>3, <2>2
    <2> QED
      BY <2>1, <2>2, <2>3
  <1>9. a % 1 = 0
    OBVIOUS
  <1>10. /\ ~(p >= Len(table)) /\ p + 1 # 0 /\ ~(p >= NumPhysPages)
    BY <1>1, <1>3, <1>4
  <1>11. Exception(table, a, 1, TRUE) = "NoException"
    BY <1>6, <1>8, <1>9, <1>10 DEF Exception, p
  <1>12. physAddr(table, a) = a
    BY <1>3, <1>6, <1>8 DEF physAddr
  <1>13. ReadMem(table, a, 1) = mainMemory[a]
    <2>1. ByteBits \in Nat /\ ByteBits * 0 = 0 /\ TwoTo[ByteBits * 0] = 1
      BY ByteBitsAssumption, TwoToIs
    <2>2. a + 0 = a
      OBVIOUS
    <2>3. mainMemory[physAddr(table, a) + 0] * TwoTo[ByteBits * 0] = mainMemory[a]
      BY <1>12, <2>1, <2>2
    <2>4. /\ 0 < 1 /\ ~(1 < 1) /\ ~(2 < 1) /\ ~(3 < 1)
          /\ mainMemory[a] + 0 + 0 + 0 = mainMemory[a]
      OBVIOUS
    <2> QED
      BY <2>3, <2>4 DEF ReadMem
  <1> QED
    BY <1>11, <1>13

\* The invariant says what LoadExact does.
LEMMA LoadedExactly == LoadInv => LoadExact
  <1> SUFFICES ASSUME LoadInv PROVE LoadExact
    OBVIOUS
  <1>1. ImageExact
    BY ImagesExact DEF LoadInv
  <1>2. ASSUME kernel = "running"
        PROVE  /\ phase = "done" /\ tool = "noff" /\ numPages <= NumPhysPages /\ pageTable = Identity
               /\ \A a \in 0..(numPages * PageSize - 1) : mainMemory[a] = WithData(a)
               /\ table = Identity
               /\ registers = [r \in AllRegs |-> IF r = NextPCReg THEN 4
                                                 ELSE IF r = StackReg THEN numPages * PageSize - 16 ELSE 0]
    BY <1>2 DEF LoadInv, KernelLoads, InMemory
  <1>3. ASSUME kernel = "running", Linked
        PROVE  /\ \A a \in 0..(Len(table) * PageSize - 1) :
                    /\ Exception(table, a, 1, TRUE) = "NoException"
                    /\ ReadMem(table, a, 1) = Contents(a)
               /\ PC = 0 /\ registers[NextPCReg] = 4
               /\ registers[StackReg] < Len(table) * PageSize
               /\ \A k \in DOMAIN object :
                    object[k].addr + object[k].size + UserStackSize <= registers[StackReg] + 16
    <2>1. ToolInv /\ object \in Objects /\ MemoryFunction /\ useTLB = FALSE
      BY DEF LoadInv, ToolInv
    <2>2. /\ noff = noffH /\ noff \in HeaderType
          /\ noff.code \in SegmentType /\ noff.initData \in SegmentType /\ noff.uninitData \in SegmentType
          /\ numPages \in Nat /\ numPages * PageSize \in Nat
          /\ noff.code.size + noff.initData.size + noff.uninitData.size + UserStackSize <= numPages * PageSize
      BY <1>2, <1>3, <2>1, HeaderIs
    <2>3. ConvertInv /\ index = Len(object) + 1 /\ Converted
      BY <1>2, <1>3, <2>1 DEF ToolInv, NoffInv, ConvertInv
    <2>4. Len(table) = numPages
      BY <1>2, <1>3, <2>2 DEF Identity
    <2>5. ASSUME NEW a \in Nat PROVE WithData(a) = Contents(a)
      <3>1. InSegment(noff.code, a) => Contents(a) = FileByte(noff.code, a)
        <4>1. noffH.code.size # 0 => Sections("code") # {}
          BY <2>3 DEF Converted
        <4>2. \A j \in Sections("code") : Placed(j, noffH.code, out.body)
          BY <2>3 DEF Converted
        <4> QED
          BY <1>3, <2>1, <2>2, <2>3, <4>1, <4>2, SegmentContents DEF InSegment, FileByte
      <3>2. InSegment(noff.initData, a) => Contents(a) = FileByte(noff.initData, a)
        <4>1. noffH.initData.size # 0 => Sections("initData") # {}
          BY <2>3 DEF Converted
        <4>2. \A j \in Sections("initData") : Placed(j, noffH.initData, out.body)
          BY <2>3 DEF Converted
        <4> QED
          BY <1>3, <2>1, <2>2, <2>3, <4>1, <4>2, SegmentContents DEF InSegment, FileByte
      <3>3. ~InSegment(noff.code, a) /\ ~InSegment(noff.initData, a) => Contents(a) = 0
        BY <1>3, <2>1, <2>2, <2>3, ElsewhereZero DEF InSegment
      <3> QED
        BY <3>1, <3>2, <3>3 DEF WithData, WithCode
    <2>6. ASSUME NEW a \in 0..(Len(table) * PageSize - 1)
          PROVE  /\ Exception(table, a, 1, TRUE) = "NoException"
                 /\ ReadMem(table, a, 1) = Contents(a)
      <3>1. a \in Nat /\ a < numPages * PageSize /\ a \in 0..(numPages * PageSize - 1)
        BY <2>2, <2>4
      <3>2. mainMemory[a] = Contents(a) /\ Contents(a) \in Nat
        BY <1>2, <1>3, <2>1, <2>5, <3>1, ContentsIs
      <3> QED
        BY <1>2, <1>3, <2>1, <2>2, <3>1, <3>2, IdentityIs
    <2>7. StackReg \in AllRegs /\ PCReg \in AllRegs /\ NextPCReg \in AllRegs
          /\ StackReg # NextPCReg /\ PCReg # NextPCReg /\ PCReg # StackReg
      BY StackAssumption DEF AllRegs, StackReg, PCReg, NextPCReg, HiReg, BadVAddrReg
    <2>8. PC = 0 /\ registers[NextPCReg] = 4 /\ registers[StackReg] = numPages * PageSize - 16
      BY <1>2, <1>3, <2>7 DEF PC
    <2>9. ASSUME NEW k \in DOMAIN object
          PROVE  object[k].addr + object[k].size + UserStackSize <= registers[StackReg] + 16
      <3>1. object[k].addr + object[k].size <= noff.code.size + noff.initData.size + noff.uninitData.size
        BY <1>3, <2>1, <2>2, <2>3, SizesEnd
      <3>2. noff.code.size + noff.initData.size + noff.uninitData.size \in Nat
        BY <1>3, <2>1, <2>2, <2>3, SizesEnd
      <3>3. object[k].addr \in Nat /\ object[k].size \in Nat /\ UserStackSize \in Nat
        BY <2>1, ObjectIs, StackAssumption
      <3> DEFINE n == noff.code.size + noff.initData.size + noff.uninitData.size
                 m == numPages * PageSize
      <3>4. n \in Nat /\ m \in Nat /\ n + UserStackSize <= m /\ object[k].addr + object[k].size <= n
        BY <2>2, <3>1, <3>2
      <3>5. registers[StackReg] = m - 16
        BY <2>8
      <3> HIDE DEF n, m
      <3> QED
        BY <3>3, <3>4, <3>5
    <2>10. registers[StackReg] < Len(table) * PageSize
      BY <2>2, <2>4, <2>8
    <2> QED
      BY <2>6, <2>8, <2>9, <2>10
  <1> QED
    BY <1>1, <1>2, <1>3 DEF LoadExact

LoadSpec == AddrSpaceInit /\ [][AddrSpaceNext]_<<addrSpaceVars, machine>>

(***************************************************************************)
(* LoadExact for every object file, every page size and number of pages,   *)
(* and every size of the stack: coff2noff, the constructor of AddrSpace    *)
(* and InitRegisters, and the images of coff2flat and the interpreter.     *)
(***************************************************************************)
THEOREM ProgramsLoadExactly == LoadSpec => []LoadExact
  <1>1. LoadSpec => []LoadInv
    BY LoadStart, NextLoad, PTL DEF LoadSpec
  <1> QED
    BY <1>1, LoadedExactly, PTL
=============================================================================
