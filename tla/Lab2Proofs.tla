----------------------------- MODULE Lab2Proofs -----------------------------
(***************************************************************************)
(* Proofs about lab 2's bounded buffer, table and doubly linked list, for  *)
(* every number of threads, buffer size, table size, err_type and set of   *)
(* keys.                                                                   *)
(***************************************************************************)
EXTENDS Lab2Test, FiniteSetTheorems, SequenceTheorems, WellFoundedInduction, TLAPS

-----------------------------------------------------------------------------
(* The bounded buffer.                                                     *)

\* A thread that holds the buffer's lock is at one of these places.
BufferInside == {"writing", "written", "reading", "read"}

(***************************************************************************)
(* What NobodySleepsInVain and IsFifo rest on: the ring's write index      *)
(* follows from the other two numbers, whoever is inside has the lock, and *)
(* a thread that is halfway still has the room, or the byte, that it found *)
(* before it yielded.                                                      *)
(***************************************************************************)
Halfway ==
    /\ pc \in [Thread -> BufferPC]
    /\ \A t \in Thread : pc[t] \in BufferInside => holder = t
    /\ \A t \in Thread : pc[t] = "written" => hav < buffersize /\ byte[t] = buffer[in]
    /\ \A t \in Thread : pc[t] = "read" => hav > 0 /\ byte[t] = buffer[out]

BufferInv ==
    /\ NobodySleepsInVain
    /\ in = (out + hav) % buffersize
    /\ testnum = 4 => Halfway

\* The calls and sleeps, which only pass the lock on.
BufferLockStep(t) ==
    \/ WriteCall(t) \/ WriteWait(t) \/ WriteResume(t) \/ WriteReturn(t)
    \/ ReadCall(t) \/ ReadWait(t) \/ ReadResume(t) \/ ReadReturn(t)

\* The two halves of copying a byte in or out.
BufferCopyStep(t) == WriteByte(t) \/ WriteAdvance(t) \/ ReadByte(t) \/ ReadAdvance(t)

\* The remainder of a number that is at most one round too large.
LEMMA OneRound ==
    ASSUME NEW n \in Nat \ {0}, NEW a \in Nat, a < 2 * n
    PROVE  a % n = IF a < n THEN a ELSE a - n
  <1>1. CASE a < n
    BY <1>1
  <1>2. CASE ~(a < n)
    BY <1>2
  <1> QED
    BY <1>1, <1>2

\* One more in the ring, or one less, moves the index that follows it by one.
LEMMA RingIndex ==
    ASSUME NEW n \in Nat \ {0}, NEW o \in 0..(n - 1), NEW h \in 0..n
    PROVE  /\ (o + 1) % n \in 0..(n - 1)
           /\ (o + h) % n \in 0..(n - 1)
           /\ h < n => (((o + h) % n) + 1) % n = (o + (h + 1)) % n
           /\ h > 0 => (((o + 1) % n) + (h - 1)) % n = (o + h) % n
           /\ \A i \in 0..(n - 1) : h < n /\ i < h => (o + i) % n # (o + h) % n
  <1>1. (o + 1) % n = IF o + 1 < n THEN o + 1 ELSE 0
    <2>1. CASE o + 1 < n
      BY <2>1
    <2>2. CASE o + 1 = n
      BY <2>2
    <2> QED
      BY <2>1, <2>2
  <1>2. ASSUME NEW i \in 0..n PROVE (o + i) % n = IF o + i < n THEN o + i ELSE o + i - n
    <2> DEFINE a == o + i
    <2>1. a \in Nat /\ a < 2 * n
      OBVIOUS
    <2> HIDE DEF a
    <2>2. a % n = IF a < n THEN a ELSE a - n
      BY <2>1, OneRound
    <2> QED
      BY <2>2 DEF a
  <1>4. ASSUME h < n PROVE (((o + h) % n) + 1) % n = (o + (h + 1)) % n
    <2>1. h \in 0..n /\ h + 1 \in 0..n
      BY <1>4
    <2>2. (o + h) % n = IF o + h < n THEN o + h ELSE o + h - n
      BY <1>2, <2>1
    <2>3. (o + (h + 1)) % n = IF o + (h + 1) < n THEN o + (h + 1) ELSE o + (h + 1) - n
      BY <1>2, <2>1
    <2> DEFINE m == (o + h) % n
    <2>4. m = IF o + h < n THEN o + h ELSE o + h - n
      BY <2>2
    <2> HIDE DEF m
    <2>5. m \in 0..(n - 1)
      BY <2>4, <1>4
    <2>6. (m + 1) % n = IF m + 1 < n THEN m + 1 ELSE 0
      <3>1. CASE m + 1 < n
        BY <2>5, <3>1
      <3>2. CASE m + 1 = n
        BY <2>5, <3>2
      <3> QED
        BY <2>5, <3>1, <3>2
    <2>7. (m + 1) % n = (o + (h + 1)) % n
      BY <1>4, <2>3, <2>4, <2>6
    <2> QED
      BY <2>7 DEF m
  <1>5. ASSUME h > 0 PROVE (((o + 1) % n) + (h - 1)) % n = (o + h) % n
    <2>1. (o + h) % n = IF o + h < n THEN o + h ELSE o + h - n
      BY <1>2
    <2> DEFINE m == ((o + 1) % n) + (h - 1)
    <2>2. m = IF o + 1 < n THEN o + h ELSE h - 1
      BY <1>1
    <2> HIDE DEF m
    <2>3. m \in Nat /\ m < 2 * n
      BY <2>2, <1>5
    <2>4. m % n = IF m < n THEN m ELSE m - n
      BY <2>3, OneRound
    <2>5. m % n = (o + h) % n
      BY <1>5, <2>1, <2>2, <2>4
    <2> QED
      BY <2>5 DEF m
  <1>6. ASSUME NEW i \in 0..(n - 1), h < n, i < h PROVE (o + i) % n # (o + h) % n
    <2>1. i \in 0..n
      OBVIOUS
    <2>2. (o + i) % n = IF o + i < n THEN o + i ELSE o + i - n
      BY <1>2, <2>1
    <2>3. (o + h) % n = IF o + h < n THEN o + h ELSE o + h - n
      BY <1>2
    <2> QED
      BY <2>2, <2>3, <1>6
  <1>7. (o + 1) % n \in 0..(n - 1)
    BY <1>1
  <1>8. (o + h) % n \in 0..(n - 1)
    <2>1. (o + h) % n = IF o + h < n THEN o + h ELSE o + h - n
      BY <1>2
    <2> QED
      BY <2>1
  <1> QED
    BY <1>4, <1>5, <1>6, <1>7, <1>8

\* Passing the lock on keeps everything.
LEMMA BufferLockInv ==
    ASSUME BufferInv, testnum = 4, UNCHANGED testnum,
           NEW t \in Thread, BufferLockStep(t)
    PROVE  BufferInv'
  <1>0. /\ BufferTypeOK /\ Halfway /\ pc \in [Thread -> BufferPC]
        /\ hav \in Nat /\ buffersize \in Nat \ {0}
        /\ holder = NoThread => \A u \in Thread : pc[u] \notin BufferInside
        /\ NoThread \notin Thread
    BY BufferAssumption, UserAssumption
    DEF BufferInv, NobodySleepsInVain, BufferTypeOK, Halfway
  <1>1. UNCHANGED <<buffer, in, out, hav, byte>>
    BY DEF BufferLockStep, WriteCall, WriteWait, WriteResume, WriteReturn,
           ReadCall, ReadWait, ReadResume, ReadReturn, bufferVars
  <1>2. PICK from \in BufferPC, to \in BufferPC \ {"written", "read"} :
          /\ Go(t, from, to)
          /\ \/ from \notin BufferInside /\ to \in BufferInside /\ Acquire(t)
             \/ from \in BufferInside /\ to \notin BufferInside /\ Release
    BY DEF BufferLockStep, WriteCall, WriteWait, WriteResume, WriteReturn,
           ReadCall, ReadWait, ReadResume, ReadReturn, BufferPC, BufferInside
  <1>3. /\ pc[t] = from /\ pc' \in [Thread -> BufferPC]
        /\ \A u \in Thread : pc'[u] = IF u = t THEN to ELSE pc[u]
    BY <1>0, <1>2 DEF Go
  <1>4. Halfway'
    <2>1. ASSUME NEW u \in Thread, pc'[u] \in BufferInside PROVE holder' = u
      <3>1. CASE Acquire(t)
        BY <1>0, <1>2, <1>3, <2>1, <3>1 DEF Acquire
      <3>2. CASE from \in BufferInside /\ to \notin BufferInside
        BY <1>0, <1>3, <2>1, <3>2 DEF Halfway
      <3> QED
        BY <1>2, <3>1, <3>2
    <2>2. \A u \in Thread :
            /\ pc'[u] = "written" => pc[u] = "written"
            /\ pc'[u] = "read" => pc[u] = "read"
      BY <1>3
    <2> QED
      BY <1>0, <1>1, <1>3, <2>1, <2>2 DEF Halfway
  <1>5. /\ full' \in {full, full \cup {t}} /\ (full' # full => hav = buffersize)
        /\ empty' \in {empty, empty \cup {t}} /\ (empty' # empty => hav = 0)
    BY DEF BufferLockStep, WriteCall, WriteWait, WriteResume, WriteReturn,
           ReadCall, ReadWait, ReadResume, ReadReturn, bufferVars
  <1>6. NobodySleepsInVain'
    BY <1>0, <1>1, <1>5 DEF BufferInv, NobodySleepsInVain, BufferTypeOK
  <1> QED
    BY <1>1, <1>4, <1>6 DEF BufferInv

\* Copying a byte: the copy and the update of the index belong together.
LEMMA BufferCopyInv ==
    ASSUME BufferInv, testnum = 4, UNCHANGED testnum,
           NEW t \in Thread, BufferCopyStep(t)
    PROVE  BufferInv'
  <1> DEFINE n == buffersize
  <1>0. /\ BufferTypeOK /\ Halfway /\ pc \in [Thread -> BufferPC]
        /\ n \in Nat \ {0} /\ hav \in 0..n
        /\ in \in 0..(n - 1) /\ out \in 0..(n - 1) /\ in = (out + hav) % n
        /\ buffer \in [0..(n - 1) -> Byte] /\ byte \in [Thread -> Byte]
        /\ full \subseteq Thread /\ empty \subseteq Thread
        /\ empty # {} => hav = 0
        /\ full # {} => hav = n
    BY BufferAssumption DEF BufferInv, NobodySleepsInVain, BufferTypeOK, Halfway
  <1>1. pc[t] \in BufferInside /\ UNCHANGED holder
    BY DEF BufferCopyStep, WriteByte, WriteAdvance, ReadByte, ReadAdvance, Go, BufferInside
  <1>2. /\ \A u \in Thread : u # t => pc[u] \notin BufferInside
        /\ holder' = t
    BY <1>0, <1>1 DEF Halfway
  <1>3. /\ (in + 1) % n \in 0..(n - 1) /\ (out + 1) % n \in 0..(n - 1)
        /\ hav < n => (in + 1) % n = (out + (hav + 1)) % n
        /\ hav > 0 => (((out + 1) % n) + (hav - 1)) % n = (out + hav) % n
    BY <1>0, RingIndex
  <1> HIDE DEF n
  <1>4. /\ pc' \in [Thread -> BufferPC]
        /\ \A u \in Thread : pc'[u] \in BufferInside => u = t
    BY <1>0, <1>2 DEF BufferCopyStep, WriteByte, WriteAdvance, ReadByte, ReadAdvance, Go, BufferPC
  <1>5. CASE WriteByte(t)
    <2>1. /\ pc'[t] = "written" /\ hav # n /\ byte'[t] = buffer'[in]
          /\ buffer' \in [0..(n - 1) -> Byte] /\ byte' \in [Thread -> Byte]
          /\ UNCHANGED <<in, out, hav, full, empty>>
      BY <1>0, <1>5 DEF WriteByte, Go, n
    <2>2. Halfway'
      BY <1>0, <1>2, <1>4, <2>1 DEF Halfway, BufferInside, n
    <2> QED
      BY <1>0, <2>1, <2>2 DEF BufferInv, NobodySleepsInVain, BufferTypeOK, n
  <1>6. CASE WriteAdvance(t)
    <2>1. /\ pc[t] = "written" /\ pc'[t] = "writing"
          /\ in' = (in + 1) % n /\ hav' = hav + 1 /\ empty' = {}
          /\ UNCHANGED <<buffer, out, full, byte>>
      BY <1>0, <1>6 DEF WriteAdvance, Go, n
    <2>2. hav < n /\ full = {}
      BY <1>0, <2>1 DEF Halfway, n
    <2>3. Halfway'
      BY <1>2, <1>4, <2>1 DEF Halfway, BufferInside
    <2>4. hav' \in 0..n
      BY <1>0, <2>1, <2>2
    <2> QED
      BY <1>0, <1>3, <2>1, <2>2, <2>3, <2>4 DEF BufferInv, NobodySleepsInVain, BufferTypeOK, n
  <1>7. CASE ReadByte(t)
    <2>1. /\ pc'[t] = "read" /\ hav # 0 /\ byte'[t] = buffer[out]
          /\ byte' \in [Thread -> Byte]
          /\ UNCHANGED <<buffer, in, out, hav, full, empty>>
      BY <1>0, <1>7 DEF ReadByte, Go, n
    <2>2. Halfway'
      BY <1>0, <1>2, <1>4, <2>1 DEF Halfway, BufferInside, n
    <2> QED
      BY <1>0, <2>1, <2>2 DEF BufferInv, NobodySleepsInVain, BufferTypeOK, n
  <1>8. CASE ReadAdvance(t)
    <2>1. /\ pc[t] = "read" /\ pc'[t] = "reading"
          /\ out' = (out + 1) % n /\ hav' = hav - 1 /\ full' = {}
          /\ UNCHANGED <<buffer, in, empty, byte>>
      BY <1>0, <1>8 DEF ReadAdvance, Go, n
    <2>2. hav > 0 /\ empty = {}
      BY <1>0, <2>1 DEF Halfway
    <2>3. Halfway'
      BY <1>2, <1>4, <2>1 DEF Halfway, BufferInside
    <2>4. hav' \in 0..n
      BY <1>0, <2>1, <2>2
    <2> QED
      BY <1>0, <1>3, <2>1, <2>2, <2>3, <2>4 DEF BufferInv, NobodySleepsInVain, BufferTypeOK, n
  <1> QED
    BY <1>5, <1>6, <1>7, <1>8 DEF BufferCopyStep

\* Every step of a test keeps the buffer's invariant.
LEMMA NextBuffer == BufferInv /\ [Next]_vars => BufferInv'
  <1> SUFFICES ASSUME BufferInv, [Next]_vars PROVE BufferInv'
    OBVIOUS
  <1>1. CASE ThreadTest4
    <2>1. PICK t \in Thread : BufferLockStep(t) \/ BufferCopyStep(t)
      BY <1>1 DEF ThreadTest4, BufferNext, BufferLockStep, BufferCopyStep
    <2>2. testnum = 4 /\ UNCHANGED testnum
      BY <1>1 DEF ThreadTest4
    <2> QED
      BY <2>1, <2>2, BufferLockInv, BufferCopyInv
  <1>2. CASE ThreadTest2 \/ ThreadTest3
    <2>1. UNCHANGED <<bufferVars, testnum>> /\ testnum # 4
      BY <1>2 DEF ThreadTest2, ThreadTest3
    <2> QED
      BY <2>1 DEF BufferInv, NobodySleepsInVain, BufferTypeOK, bufferVars
  <1>3. CASE UNCHANGED vars
    BY <1>3 DEF vars, userVars, bufferVars, BufferInv, NobodySleepsInVain, BufferTypeOK, Halfway
  <1> QED
    BY <1>1, <1>2, <1>3 DEF Next

\* The buffer starts empty.
LEMMA InitBuffer == Init => BufferInv
  <1> SUFFICES ASSUME Init PROVE BufferInv
    OBVIOUS
  <1>1. /\ buffersize \in Nat \ {0} /\ in = 0 /\ out = 0 /\ hav = 0
        /\ full = {} /\ empty = {} /\ pc = [t \in Thread |-> "out"]
    BY BufferAssumption DEF Init, BufferInit, UserInit
  <1>2. BufferTypeOK
    <2>1. PICK x \in Byte : buffer = [i \in 0..(buffersize - 1) |-> x]
      BY DEF Init, BufferInit
    <2>2. byte \in [Thread -> Byte]
      <3>1. (CHOOSE b \in Byte : TRUE) \in Byte
        BY <2>1
      <3> QED
        BY <3>1 DEF Init, BufferInit
    <2> QED
      BY <1>1, <2>1, <2>2 DEF BufferTypeOK
  <1>3. NobodySleepsInVain
    BY <1>1, <1>2 DEF NobodySleepsInVain
  <1>4. (out + hav) % buffersize = 0
    BY <1>1, OneRound
  <1>5. Halfway
    BY <1>1 DEF Halfway, BufferPC, BufferInside
  <1> QED
    BY <1>1, <1>3, <1>4, <1>5 DEF BufferInv

\* The buffer's inductive invariant holds in every state.
LEMMA BufferAlways == Spec => []BufferInv
  BY InitBuffer, NextBuffer, PTL DEF Spec

(***************************************************************************)
(* A reader sleeps only while the buffer is empty and a writer only while  *)
(* it is full, so never both, for every buffer size and number of threads. *)
(***************************************************************************)
THEOREM BufferCorrect == Spec => []NobodySleepsInVain
  <1>1. BufferInv => NobodySleepsInVain
    BY DEF BufferInv
  <1> QED
    BY <1>1, BufferAlways, PTL

\* The stored bytes are a sequence, and where each lies in the ring.
StoredExact ==
    /\ Stored \in Seq(Byte) /\ Len(Stored) = hav
    /\ \A i \in 1..hav : Stored[i] = buffer[(out + (i - 1)) % buffersize]
    /\ \A i \in 1..hav : (out + (i - 1)) % buffersize \in 0..(buffersize - 1)

\* The bytes between nextout and nextin are the ones written and not yet read.
LEMMA StoredBytes == BufferInv => StoredExact
  <1> SUFFICES ASSUME BufferInv PROVE StoredExact
    OBVIOUS
  <1> DEFINE n == buffersize
             e(i) == buffer[(out + (i - 1)) % n]
  <1>0. /\ n \in Nat \ {0} /\ hav \in 0..n /\ out \in 0..(n - 1)
        /\ buffer \in [0..(n - 1) -> Byte]
    BY BufferAssumption DEF BufferInv, NobodySleepsInVain, BufferTypeOK
  <1>1. ASSUME NEW i \in 1..hav PROVE (out + (i - 1)) % n \in 0..(n - 1)
    <2>1. i - 1 \in 0..n
      BY <1>0
    <2> HIDE DEF n
    <2> QED
      BY <1>0, <2>1, RingIndex
  <1>2. \A i \in 1..hav : e(i) \in Byte
    BY <1>0, <1>1
  <1>3. Stored = [i \in 1..hav |-> e(i)]
    <2>1. \A i \in 1..hav : out + i - 1 = out + (i - 1)
      BY <1>0
    <2> QED
      BY <2>1 DEF Stored
  <1> HIDE DEF e
  <1>4. Stored \in [1..hav -> Byte] /\ \A i \in 1..hav : Stored[i] = e(i)
    BY <1>2, <1>3
  <1>5. Stored \in Seq(Byte)
    BY <1>0, <1>4, SeqDef
  <1>6. Len(Stored) \in Nat /\ DOMAIN Stored = 1..Len(Stored) /\ DOMAIN Stored = 1..hav
    BY <1>4, <1>5, LenProperties
  <1>7. Len(Stored) = hav
    <2>1. hav \in Nat /\ \A i \in Nat : i \in 1..Len(Stored) <=> i \in 1..hav
      BY <1>0, <1>6
    <2>2. ~(Len(Stored) > hav) /\ ~(hav > Len(Stored))
      BY <2>1, <1>6
    <2>3. \A a, b \in Nat : ~(a > b) /\ ~(b > a) => a = b
      OBVIOUS
    <2>4. Len(Stored) \in Nat
      BY <1>6
    <2> QED
      BY <2>1, <2>2, <2>3, <2>4
  <1> QED
    BY <1>1, <1>4, <1>5, <1>7 DEF e, StoredExact

\* The same of the next state.
LEMMA StoredBytesNext == BufferInv' => StoredExact'
  BY StoredBytes, PTL

\* A written byte becomes the youngest one.
LEMMA WriteAppends ==
    ASSUME BufferInv, BufferInv', testnum = 4, NEW t \in Thread, WriteAdvance(t)
    PROVE  pc[t] = "written" /\ Stored' = Append(Stored, byte[t])
  <1>0. /\ BufferTypeOK /\ Halfway /\ hav \in Nat /\ byte[t] \in Byte
    BY BufferAssumption DEF BufferInv, NobodySleepsInVain, BufferTypeOK
  <1>1. /\ pc[t] = "written" /\ byte[t] = buffer[in] /\ in = (out + hav) % buffersize
        /\ hav' = hav + 1 /\ UNCHANGED <<buffer, out>>
    BY <1>0 DEF WriteAdvance, Go, Halfway, BufferInv
  <1>2. /\ Stored \in Seq(Byte) /\ Len(Stored) = hav
        /\ \A i \in 1..hav : Stored[i] = buffer[(out + (i - 1)) % buffersize]
    BY StoredBytes DEF StoredExact
  <1>3. /\ Stored' \in Seq(Byte) /\ Len(Stored') = hav + 1
        /\ \A i \in 1..(hav + 1) : Stored'[i] = buffer[(out + (i - 1)) % buffersize]
    <2>1. /\ Stored' \in Seq(Byte) /\ Len(Stored') = hav'
          /\ \A i \in 1..hav' : Stored'[i] = buffer'[(out' + (i - 1)) % buffersize]
      BY StoredBytesNext DEF StoredExact
    <2> QED
      BY <1>1, <2>1
  <1> DEFINE s == Append(Stored, byte[t])
  <1>4. /\ s \in Seq(Byte) /\ Len(s) = hav + 1
        /\ \A i \in 1..hav : s[i] = Stored[i]
        /\ s[hav + 1] = byte[t]
    BY <1>0, <1>2, AppendProperties
  <1>5. \A i \in 1..(hav + 1) : Stored'[i] = s[i]
    <2>1. Stored'[hav + 1] = buffer[(out + (hav + 1 - 1)) % buffersize] /\ hav + 1 - 1 = hav
      BY <1>0, <1>3
    <2>2. Stored'[hav + 1] = s[hav + 1]
      BY <1>1, <1>4, <2>1
    <2>3. \A i \in 1..(hav + 1) : i \in 1..hav \/ i = hav + 1
      BY <1>0
    <2> QED
      BY <1>0, <1>2, <1>3, <1>4, <2>2, <2>3
  <1> HIDE DEF s
  <1>6. Stored' = s
    BY <1>3, <1>4, <1>5, SeqEqual
  <1> QED
    BY <1>1, <1>6 DEF s

\* A read byte was the oldest one.
LEMMA ReadTakes ==
    ASSUME BufferInv, BufferInv', testnum = 4, NEW t \in Thread, ReadAdvance(t)
    PROVE  /\ pc[t] = "read" /\ Stored # <<>>
           /\ byte[t] = Head(Stored) /\ Stored' = Tail(Stored)
  <1>0. /\ Halfway /\ hav \in 0..buffersize /\ buffersize \in Nat \ {0}
        /\ out \in 0..(buffersize - 1)
    BY BufferAssumption DEF BufferInv, NobodySleepsInVain, BufferTypeOK, ReadAdvance, Halfway
  <1>1. /\ pc[t] = "read" /\ hav > 0 /\ byte[t] = buffer[out]
        /\ out' = (out + 1) % buffersize /\ hav' = hav - 1 /\ UNCHANGED buffer
    BY <1>0 DEF ReadAdvance, Go, Halfway
  <1>2. /\ Stored \in Seq(Byte) /\ Len(Stored) = hav
        /\ \A i \in 1..hav : Stored[i] = buffer[(out + (i - 1)) % buffersize]
    BY StoredBytes DEF StoredExact
  <1>3. /\ Stored' \in Seq(Byte) /\ Len(Stored') = hav - 1
        /\ \A i \in 1..(hav - 1) :
              Stored'[i] = buffer[(((out + 1) % buffersize) + (i - 1)) % buffersize]
    <2>1. /\ Stored' \in Seq(Byte) /\ Len(Stored') = hav'
          /\ \A i \in 1..hav' : Stored'[i] = buffer'[(out' + (i - 1)) % buffersize]
      BY StoredBytesNext DEF StoredExact
    <2> QED
      BY <1>1, <2>1
  <1>4. Stored # <<>>
    BY <1>1, <1>2, EmptySeq
  <1>5. /\ Head(Stored) = Stored[1] /\ Tail(Stored) \in Seq(Byte) /\ Len(Tail(Stored)) = hav - 1
        /\ \A i \in 1..(hav - 1) : Tail(Stored)[i] = Stored[i + 1]
    BY <1>2, <1>4, HeadTailProperties
  <1>6. byte[t] = Head(Stored)
    <2>1. Stored[1] = buffer[(out + (1 - 1)) % buffersize]
      BY <1>0, <1>1, <1>2
    <2>2. (out + (1 - 1)) % buffersize = out
      BY <1>0
    <2> QED
      BY <1>1, <1>5, <2>1, <2>2
  <1>7. ASSUME NEW i \in 1..(hav - 1) PROVE Stored'[i] = Tail(Stored)[i]
    <2>1. i + 1 \in 1..hav /\ i + 1 - 1 = i /\ i \in 0..buffersize /\ i > 0
      BY <1>0
    <2>2. (((out + 1) % buffersize) + (i - 1)) % buffersize = (out + i) % buffersize
      BY <1>0, <2>1, RingIndex
    <2>3. Stored[i + 1] = buffer[(out + i) % buffersize]
      <3>1. Stored[i + 1] = buffer[(out + (i + 1 - 1)) % buffersize]
        BY <1>2, <2>1
      <3> QED
        BY <2>1, <3>1
    <2>4. Stored'[i] = buffer[(((out + 1) % buffersize) + (i - 1)) % buffersize]
      BY <1>3
    <2> QED
      BY <1>5, <2>2, <2>3, <2>4
  <1>8. Stored' = Tail(Stored)
    BY <1>3, <1>5, <1>7, SeqEqual
  <1> QED
    BY <1>1, <1>4, <1>6, <1>8

\* Writing a byte into a free place does not touch the stored ones.
LEMMA WriteKeeps ==
    ASSUME BufferInv, BufferInv', testnum = 4, NEW t \in Thread, WriteByte(t)
    PROVE  Stored' = Stored
  <1>0. /\ hav \in 0..buffersize /\ buffersize \in Nat \ {0}
        /\ out \in 0..(buffersize - 1) /\ in = (out + hav) % buffersize
        /\ buffer \in [0..(buffersize - 1) -> Byte]
    BY BufferAssumption DEF BufferInv, NobodySleepsInVain, BufferTypeOK
  <1>1. /\ hav < buffersize /\ UNCHANGED <<hav, out>>
        /\ \A j \in 0..(buffersize - 1) : j # in => buffer'[j] = buffer[j]
    BY <1>0 DEF WriteByte
  <1>2. /\ Stored \in Seq(Byte) /\ Len(Stored) = hav
        /\ \A i \in 1..hav : Stored[i] = buffer[(out + (i - 1)) % buffersize]
        /\ \A i \in 1..hav : (out + (i - 1)) % buffersize \in 0..(buffersize - 1)
    BY StoredBytes DEF StoredExact
  <1>3. /\ Stored' \in Seq(Byte) /\ Len(Stored') = hav
        /\ \A i \in 1..hav : Stored'[i] = buffer'[(out + (i - 1)) % buffersize]
    <2>1. /\ Stored' \in Seq(Byte) /\ Len(Stored') = hav'
          /\ \A i \in 1..hav' : Stored'[i] = buffer'[(out' + (i - 1)) % buffersize]
      BY StoredBytesNext DEF StoredExact
    <2> QED
      BY <1>1, <2>1
  <1>4. ASSUME NEW i \in 1..hav PROVE Stored'[i] = Stored[i]
    <2>1. i - 1 \in 0..(buffersize - 1) /\ i - 1 < hav
      BY <1>0
    <2>2. (out + (i - 1)) % buffersize # in
      BY <1>0, <1>1, <2>1, RingIndex
    <2> QED
      BY <1>1, <1>2, <1>3, <2>2
  <1> QED
    BY <1>2, <1>3, <1>4, SeqEqual

\* What a step may do to the stored bytes.
LEMMA NextStored ==
    ASSUME BufferInv, BufferInv', [Next]_vars
    PROVE  \/ Stored' = Stored
           \/ \E t \in Thread :
                 \/ pc[t] = "written" /\ Stored' = Append(Stored, byte[t])
                 \/ /\ pc[t] = "read" /\ Stored # <<>>
                    /\ byte[t] = Head(Stored) /\ Stored' = Tail(Stored)
  <1>1. CASE ThreadTest4
    <2>1. PICK t \in Thread : BufferLockStep(t) \/ BufferCopyStep(t)
      BY <1>1 DEF ThreadTest4, BufferNext, BufferLockStep, BufferCopyStep
    <2>2. testnum = 4
      BY <1>1 DEF ThreadTest4
    <2>3. CASE BufferLockStep(t) \/ ReadByte(t)
      <3>1. UNCHANGED <<buffer, out, hav>>
        BY <2>3 DEF BufferLockStep, WriteCall, WriteWait, WriteResume, WriteReturn,
                    ReadCall, ReadWait, ReadResume, ReadReturn, ReadByte, bufferVars
      <3> QED
        BY <3>1 DEF Stored
    <2>4. CASE WriteByte(t)
      BY <2>2, <2>4, WriteKeeps
    <2>5. CASE WriteAdvance(t)
      BY <2>2, <2>5, WriteAppends
    <2>6. CASE ReadAdvance(t)
      BY <2>2, <2>6, ReadTakes
    <2> QED
      BY <2>1, <2>3, <2>4, <2>5, <2>6 DEF BufferCopyStep
  <1>2. CASE ThreadTest2 \/ ThreadTest3 \/ UNCHANGED vars
    <2>1. UNCHANGED bufferVars
      BY <1>2 DEF ThreadTest2, ThreadTest3, vars
    <2> QED
      BY <2>1 DEF Stored, bufferVars
  <1> QED
    BY <1>1, <1>2 DEF Next

(***************************************************************************)
(* The bounded buffer is a queue: bytes are appended as their writers were *)
(* given them and the oldest is what its reader has copied, for every      *)
(* buffer size, although writer and reader yield in the middle.            *)
(***************************************************************************)
THEOREM BufferIsFifo == Spec => IsFifo
  <1>1. BufferInv /\ BufferInv' /\ [Next]_vars
          => [ \/ Stored' = Stored
               \/ \E t \in Thread :
                     \/ pc[t] = "written" /\ Stored' = Append(Stored, byte[t])
                     \/ /\ pc[t] = "read" /\ Stored # <<>>
                        /\ byte[t] = Head(Stored) /\ Stored' = Tail(Stored)
             ]_<<bufferVars, userVars>>
    BY NextStored
  <1> QED
    BY <1>1, BufferAlways, PTL DEF Spec, IsFifo

-----------------------------------------------------------------------------
(* The table.                                                              *)

(***************************************************************************)
(* What TableExact rests on: whoever is inside has the lock, a free entry  *)
(* that Alloc has found stays free over its Yield(), and Release clears    *)
(* the entry of the index that its caller was given last.                  *)
(***************************************************************************)
TableInside == {"search", "found", "clear"}

TableHalfway ==
    /\ pc \in [Thread -> TablePC]
    /\ \A t \in Thread : pc[t] \in TableInside => holder = t
    /\ \A t \in Thread : pc[t] \in {"search", "found"} => Len(num[t]) < N
    /\ \A t \in Thread : pc[t] = "found" => entry[t] \in Index /\ table[entry[t]] = NoThread
    /\ \A t \in Thread : pc[t] = "clear" => num[t] # <<>> /\ LastNum(t) \in Index

TableInv ==
    /\ TableExact
    /\ testnum = 3 => TableHalfway

\* Steps that leave the table and what Alloc has returned alone.
TableLockStep(t) ==
    AllocCall(t) \/ AllocFind(t) \/ StartFreeing(t) \/ ReleaseCall(t) \/ GetAssert(t)

\* Steps that end a call.
TableEndStep(t) == AllocFail(t) \/ AllocStore(t) \/ ReleaseClear(t)

\* Nothing but y is in the sequence twice.
Once(s, y) == \A i, j \in DOMAIN s : s[i] = s[j] /\ s[i] # y => i = j

\* What one more index does to the set of indices given to a thread, ...
LEMMA GivenOne ==
    ASSUME NEW S, NEW s \in Seq(S), NEW x \in S
    PROVE  /\ Append(s, x) \in Seq(S) /\ Len(Append(s, x)) = Len(s) + 1
           /\ Range(Append(s, x)) = Range(s) \cup {x}
           /\ \A y : Once(s, y) /\ (x = y \/ x \notin Range(s)) => Once(Append(s, x), y)
  <1> DEFINE q == Append(s, x)
  <1>1. /\ Len(s) \in Nat /\ DOMAIN s = 1..Len(s)
        /\ q \in Seq(S) /\ Len(q) = Len(s) + 1 /\ DOMAIN q = 1..(Len(s) + 1)
        /\ \A i \in 1..Len(s) : q[i] = s[i]
        /\ q[Len(s) + 1] = x
    BY AppendProperties, LenProperties
  <1> HIDE DEF q
  <1>2. \A i \in 1..(Len(s) + 1) : i \in 1..Len(s) \/ i = Len(s) + 1
    BY <1>1
  <1>3. Len(s) + 1 \in 1..(Len(s) + 1) /\ 1..Len(s) \subseteq 1..(Len(s) + 1)
    BY <1>1
  <1>4. Range(q) = Range(s) \cup {x}
    BY <1>1, <1>2, <1>3 DEF Range
  <1>5. ASSUME NEW y, Once(s, y),
               x = y \/ x \notin Range(s),
               NEW i \in DOMAIN q, NEW j \in DOMAIN q, q[i] = q[j], q[i] # y
        PROVE  i = j
    <2>1. \A k \in 1..Len(s) : q[k] = x => x = y
      BY <1>1, <1>5 DEF Range
    <2>2. i \in 1..Len(s) <=> j \in 1..Len(s)
      BY <1>1, <1>2, <1>5, <2>1
    <2> QED
      BY <1>1, <1>2, <1>5, <2>2 DEF Once
  <1>6. \A y : Once(s, y) /\ (x = y \/ x \notin Range(s)) => Once(q, y)
    BY <1>5 DEF Once
  <1> QED
    BY <1>1, <1>4, <1>6 DEF q

\* ... and what taking the last one away does.
LEMMA TakenBack ==
    ASSUME NEW S, NEW s \in Seq(S), s # <<>>, NEW y, s[Len(s)] # y, Once(s, y)
    PROVE  /\ SubSeq(s, 1, Len(s) - 1) \in Seq(S)
           /\ Len(SubSeq(s, 1, Len(s) - 1)) = Len(s) - 1
           /\ Range(SubSeq(s, 1, Len(s) - 1)) = Range(s) \ {s[Len(s)]}
           /\ s[Len(s)] \in Range(s)
           /\ Once(SubSeq(s, 1, Len(s) - 1), y)
  <1> DEFINE n == Len(s)
             q == SubSeq(s, 1, n - 1)
  <1>1. n \in Nat \ {0} /\ DOMAIN s = 1..n
    BY EmptySeq, LenProperties
  <1>2. /\ q \in Seq(S) /\ Len(q) = n - 1
        /\ \A i \in 1..(n - 1) : q[i] = s[i]
    <2>1. \A i \in 1..(n - 1) : i \in 1..n
      BY <1>1
    <2>2. 1 \in 1..(n + 1) /\ n - 1 \in 0..n
      BY <1>1
    <2> QED
      BY <1>1, <2>1, <2>2, SubSeqProperties
  <1>3. DOMAIN q = 1..(n - 1)
    BY <1>2, LenProperties
  <1> HIDE DEF q, n
  <1>4. /\ n \in 1..n /\ \A i \in 1..n : i \in 1..(n - 1) \/ i = n
        /\ n \notin 1..(n - 1) /\ 1..(n - 1) \subseteq 1..n
    BY <1>1
  <1>5. s[n] # y /\ \A i, j \in 1..n : s[i] = s[j] /\ s[i] # y => i = j
    BY <1>1 DEF n, Once
  <1>6. Range(q) = Range(s) \ {s[n]} /\ s[n] \in Range(s)
    BY <1>1, <1>2, <1>3, <1>4, <1>5 DEF Range
  <1>7. Once(q, y)
    BY <1>2, <1>3, <1>4, <1>5 DEF Once
  <1> QED
    BY <1>2, <1>6, <1>7 DEF q, n

\* Finding, calling and starting to release change nothing in the table.
LEMMA TableLockInv ==
    ASSUME TableInv, testnum = 3, UNCHANGED testnum,
           NEW t \in Thread, TableLockStep(t)
    PROVE  TableInv'
  <1>0. /\ TableTypeOK /\ TableHalfway /\ pc \in [Thread -> TablePC]
        /\ NoThread \notin Thread
        /\ holder = NoThread => \A u \in Thread : pc[u] \notin TableInside
    BY UserAssumption DEF TableInv, TableExact, TableHalfway
  <1>1. UNCHANGED <<table, num>>
    BY DEF TableLockStep, AllocCall, AllocFind, StartFreeing, ReleaseCall, GetAssert, tableVars
  <1>2. entry' \in [Thread -> Nat] /\ asserted' \in BOOLEAN
    <2>1. \A i \in Index : i \in Nat
      BY TableAssumption DEF Index
    <2>2. entry' \in [Thread -> Nat]
      BY <1>0, <2>1 DEF TableLockStep, AllocCall, AllocFind, StartFreeing, ReleaseCall,
                        GetAssert, tableVars, TableTypeOK
    <2>3. asserted' \in {asserted, TRUE} /\ asserted \in BOOLEAN
      BY <1>0 DEF TableLockStep, AllocCall, AllocFind, StartFreeing, ReleaseCall,
                  GetAssert, tableVars, TableTypeOK
    <2> QED
      BY <2>2, <2>3
  <1>3. TableExact'
    BY <1>1, <1>2 DEF TableInv, TableExact, TableTypeOK, Index
  <1>4. TableHalfway'
    <2>1. CASE AllocCall(t) \/ ReleaseCall(t)
      <3>1. PICK to \in {"search", "clear"} :
              /\ pc' = [pc EXCEPT ![t] = to] /\ holder = NoThread /\ holder' = t
              /\ to = "search" => Len(num[t]) < N
              /\ to = "clear" => num[t] # <<>> /\ LastNum(t) \in Index
              /\ UNCHANGED entry
        BY <2>1 DEF AllocCall, ReleaseCall, Go, Acquire, tableVars
      <3>2. /\ pc' \in [Thread -> TablePC]
            /\ \A u \in Thread : pc'[u] \in TableInside => u = t /\ pc'[u] = to
        BY <1>0, <3>1 DEF TablePC, TableInside
      <3> QED
        BY <1>1, <3>1, <3>2 DEF TableHalfway, TableInside, LastNum
    <2>2. CASE AllocFind(t)
      <3>1. PICK i \in Index :
              /\ table[i] = NoThread /\ pc[t] = "search" /\ pc' = [pc EXCEPT ![t] = "found"]
              /\ entry' = [entry EXCEPT ![t] = i] /\ UNCHANGED holder
        BY <2>2 DEF AllocFind, IsFirstFree, Go
      <3>2. /\ pc' \in [Thread -> TablePC]
            /\ \A u \in Thread : /\ pc'[u] = IF u = t THEN "found" ELSE pc[u]
                                 /\ entry'[u] = IF u = t THEN i ELSE entry[u]
        BY <1>0, <3>1 DEF TablePC, TableTypeOK
      <3> QED
        BY <1>0, <1>1, <3>1, <3>2 DEF TableHalfway, TableInside, LastNum
    <2>3. CASE StartFreeing(t) \/ GetAssert(t)
      <3>1. /\ UNCHANGED <<holder, entry>>
            /\ pc' = pc \/ pc' = [pc EXCEPT ![t] = "free"]
        BY <2>3 DEF StartFreeing, GetAssert, Go, userVars, tableVars
      <3>2. /\ pc' \in [Thread -> TablePC]
            /\ \A u \in Thread : pc'[u] = pc[u] \/ pc'[u] = "free"
        BY <1>0, <3>1 DEF TablePC
      <3> QED
        BY <1>0, <1>1, <3>1, <3>2 DEF TableHalfway, TableInside, LastNum
    <2> QED
      BY <2>1, <2>2, <2>3 DEF TableLockStep
  <1> QED
    BY <1>1, <1>3, <1>4 DEF TableInv

\* The end of a call gives an index, takes one back, or gives -1.
LEMMA TableEndInv ==
    ASSUME TableInv, testnum = 3, UNCHANGED testnum,
           NEW t \in Thread, TableEndStep(t)
    PROVE  TableInv'
  <1> DEFINE Given == Index \cup {-1}
             y == -1
  <1>0. /\ TableTypeOK /\ TableHalfway /\ pc \in [Thread -> TablePC]
        /\ table \in [Index -> Thread \cup {NoThread}] /\ num \in [Thread -> Seq(Given)]
        /\ num[t] \in Seq(Given) /\ NoThread \notin Thread
        /\ \A i \in Index, u \in Thread : table[i] = u <=> i \in Range(num[u])
        /\ \A u \in Thread : Once(num[u], y)
        /\ N \in Nat
    BY UserAssumption, TableAssumption
       DEF TableInv, TableExact, TableHalfway, TableTypeOK, Once
  <1>1. y \notin Index
    BY TableAssumption DEF Index
  <1>2. pc[t] \in TableInside /\ UNCHANGED <<entry, asserted>>
    BY DEF TableEndStep, AllocFail, AllocStore, ReleaseClear, Go, TableInside
  <1>3. \A u \in Thread : u # t => pc[u] \notin TableInside
    BY <1>0, <1>2 DEF TableHalfway
  <1>4. TableHalfway'
    <2>1. pc' = [pc EXCEPT ![t] = "out"] \/ pc' = [pc EXCEPT ![t] = "free"]
      BY DEF TableEndStep, AllocFail, AllocStore, ReleaseClear, Go
    <2>2. /\ pc' \in [Thread -> TablePC]
          /\ \A u \in Thread : pc'[u] \notin TableInside
      <3>1. pc \in [Thread -> TablePC]
        BY <1>0
      <3> QED
        BY <1>3, <2>1, <3>1 DEF TablePC, TableInside
    <2> QED
      BY <2>2 DEF TableHalfway, TableInside
  <1>5. SUFFICES
          /\ table' \in [Index -> Thread \cup {NoThread}]
          /\ num' \in [Thread -> Seq(Given)] /\ \A u \in Thread : Len(num'[u]) <= N
          /\ \A i \in Index, u \in Thread : table'[i] = u <=> i \in Range(num'[u])
          /\ \A u \in Thread : Once(num'[u], y)
    BY <1>2, <1>4, <1>0 DEF TableInv, TableExact, TableTypeOK, Once
  <1>6. \A u \in Thread : Len(num[u]) <= N
    BY <1>0 DEF TableTypeOK
  <1>7. y \in Given /\ Index \subseteq Given
    OBVIOUS
  <1>8. CASE AllocFail(t)
    <2> DEFINE q == Append(num[t], y)
    <2>1. /\ num' = [num EXCEPT ![t] = q] /\ UNCHANGED table /\ Len(num[t]) < N
      BY <1>0, <1>8 DEF AllocFail, Go, TableHalfway
    <2> HIDE DEF Given, y
    <2>2. q \in Seq(Given) /\ Len(q) = Len(num[t]) + 1 /\ Range(q) = Range(num[t]) \cup {y}
      BY <1>0, <1>7, GivenOne
    <2>3. Once(q, y)
      BY <1>0, <1>7, GivenOne
    <2>4. Len(q) <= N
      BY <1>0, <2>1, <2>2, LenProperties
    <2> HIDE DEF q
    <2>5. \A u \in Thread : num'[u] = IF u = t THEN q ELSE num[u]
      BY <1>0, <2>1
    <2>6. num' \in [Thread -> Seq(Given)]
      BY <1>0, <2>1, <2>2
    <2>7. \A u \in Thread : Len(num'[u]) <= N
      BY <1>6, <2>4, <2>5
    <2>8. \A i \in Index, u \in Thread : table'[i] = u <=> i \in Range(num'[u])
      BY <1>0, <1>1, <2>1, <2>2, <2>5
    <2>9. \A u \in Thread : Once(num'[u], y)
      BY <1>0, <2>3, <2>5
    <2> QED
      BY <1>0, <2>1, <2>6, <2>7, <2>8, <2>9
  <1>9. CASE AllocStore(t)
    <2> DEFINE e == entry[t]
               q == Append(num[t], e)
    <2>1. /\ num' = [num EXCEPT ![t] = q] /\ table' = [table EXCEPT ![e] = t]
          /\ Len(num[t]) < N /\ e \in Index /\ table[e] = NoThread
      BY <1>0, <1>9 DEF AllocStore, Go, TableHalfway
    <2> HIDE DEF e, Given, y
    <2>2. \A u \in Thread : e \notin Range(num[u])
      BY <1>0, <2>1
    <2>3. q \in Seq(Given) /\ Len(q) = Len(num[t]) + 1 /\ Range(q) = Range(num[t]) \cup {e}
      BY <1>0, <1>7, <2>1, GivenOne
    <2>4. Once(q, y)
      <3>1. e \in Given /\ e \notin Range(num[t]) /\ Once(num[t], y)
        BY <1>0, <1>7, <2>1, <2>2
      <3> QED
        BY <1>0, <3>1, GivenOne
    <2>5. Len(q) <= N
      BY <1>0, <2>1, <2>3, LenProperties
    <2> HIDE DEF q
    <2>6. \A u \in Thread : num'[u] = IF u = t THEN q ELSE num[u]
      BY <1>0, <2>1
    <2>7. num' \in [Thread -> Seq(Given)]
      BY <1>0, <2>1, <2>3
    <2>8. table' \in [Index -> Thread \cup {NoThread}]
      BY <1>0, <2>1
    <2>9. \A u \in Thread : Len(num'[u]) <= N
      BY <1>6, <2>5, <2>6
    <2>10. \A i \in Index : table'[i] = IF i = e THEN t ELSE table[i]
      BY <1>0, <2>1
    <2>11. \A i \in Index, u \in Thread : table'[i] = u <=> i \in Range(num'[u])
      <3> TAKE i \in Index, u \in Thread
      <3>1. table[i] = u <=> i \in Range(num[u])
        BY <1>0
      <3>2. CASE u = t
        BY <2>3, <2>6, <2>10, <3>1, <3>2
      <3>3. CASE u # t
        BY <2>2, <2>6, <2>10, <3>1, <3>3
      <3> QED
        BY <3>2, <3>3
    <2>12. \A u \in Thread : Once(num'[u], y)
      BY <1>0, <2>4, <2>6
    <2> QED
      BY <2>7, <2>8, <2>9, <2>11, <2>12
  <1>10. CASE ReleaseClear(t)
    <2> DEFINE s == num[t]
               e == s[Len(s)]
               q == SubSeq(s, 1, Len(s) - 1)
    <2>1. /\ num' = [num EXCEPT ![t] = q] /\ table' = [table EXCEPT ![e] = NoThread]
          /\ s # <<>> /\ e \in Index
      BY <1>0, <1>10 DEF ReleaseClear, Go, TableHalfway, LastNum
    <2>2. s \in Seq(Given) /\ e # y /\ Once(s, y)
      BY <1>0, <1>1, <2>1
    <2> HIDE DEF Given, y, s
    <2>3. /\ q \in Seq(Given) /\ Len(q) = Len(s) - 1
          /\ Range(q) = Range(s) \ {e} /\ e \in Range(s)
          /\ Once(q, y)
      BY <2>1, <2>2, TakenBack
    <2>4. Len(q) <= N
      <3>1. Len(s) \in Nat /\ Len(s) <= N
        BY <1>6, <2>2, LenProperties DEF s
      <3> QED
        BY <1>0, <2>3, <3>1
    <2> HIDE DEF e, q
    <2>5. \A u \in Thread : num'[u] = IF u = t THEN q ELSE num[u]
      BY <1>0, <2>1
    <2>6. num' \in [Thread -> Seq(Given)]
      BY <1>0, <2>1, <2>3
    <2>7. table' \in [Index -> Thread \cup {NoThread}]
      BY <1>0, <2>1
    <2>8. \A u \in Thread : Len(num'[u]) <= N
      BY <1>6, <2>4, <2>5
    <2>9. \A i \in Index : table'[i] = IF i = e THEN NoThread ELSE table[i]
      BY <1>0, <2>1
    <2>10. \A i \in Index, u \in Thread : table'[i] = u <=> i \in Range(num'[u])
      <3> TAKE i \in Index, u \in Thread
      <3>1. (table[i] = u <=> i \in Range(num[u])) /\ (table[e] = t)
        BY <1>0, <2>1, <2>3 DEF s
      <3>2. CASE i = e
        <4>1. table'[i] # u
          BY <1>0, <2>9, <3>2
        <4>2. i \notin Range(num'[u])
          BY <2>3, <2>5, <3>1, <3>2
        <4> QED
          BY <4>1, <4>2
      <3>3. CASE i # e
        BY <2>3, <2>5, <2>9, <3>1, <3>3 DEF s
      <3> QED
        BY <3>2, <3>3
    <2>11. \A u \in Thread : Once(num'[u], y)
      BY <1>0, <2>3, <2>5
    <2> QED
      BY <2>6, <2>7, <2>8, <2>10, <2>11
  <1> QED
    BY <1>8, <1>9, <1>10 DEF TableEndStep

\* Every step of a test keeps the table's invariant.
LEMMA NextTable == TableInv /\ [Next]_vars => TableInv'
  <1> SUFFICES ASSUME TableInv, [Next]_vars PROVE TableInv'
    OBVIOUS
  <1>1. CASE ThreadTest3
    <2>1. PICK t \in Thread : TableLockStep(t) \/ TableEndStep(t)
      BY <1>1 DEF ThreadTest3, TableNext, TableLockStep, TableEndStep
    <2>2. testnum = 3 /\ UNCHANGED testnum
      BY <1>1 DEF ThreadTest3
    <2> QED
      BY <2>1, <2>2, TableLockInv, TableEndInv
  <1>2. CASE ThreadTest2 \/ ThreadTest4
    <2>1. UNCHANGED <<tableVars, testnum>> /\ testnum # 3
      BY <1>2 DEF ThreadTest2, ThreadTest4
    <2> QED
      BY <2>1 DEF TableInv, TableExact, TableTypeOK, tableVars
  <1>3. CASE UNCHANGED vars
    BY <1>3 DEF vars, userVars, tableVars, TableInv, TableExact, TableTypeOK, TableHalfway, LastNum
  <1> QED
    BY <1>1, <1>2, <1>3 DEF Next

\* The table starts empty, and nobody has been given anything.
LEMMA InitTable == Init => TableInv
  <1> SUFFICES ASSUME Init PROVE TableInv
    OBVIOUS
  <1> DEFINE none == <<>>
  <1>1. none \in Seq(Index \cup {-1}) /\ Len(none) = 0 /\ Range(none) = {} /\ DOMAIN none = {}
    BY EmptySeq DEF Range
  <1>2. /\ num = [t \in Thread |-> none] /\ table = [i \in Index |-> NoThread]
        /\ entry = [t \in Thread |-> 1] /\ asserted = FALSE
        /\ pc = [t \in Thread |-> "out"]
    BY DEF Init, TableInit, UserInit
  <1> HIDE DEF none
  <1>3. TableTypeOK
    <2>1. table \in [Index -> Thread \cup {NoThread}]
      BY <1>2
    <2>2. num \in [Thread -> Seq(Index \cup {-1})]
      BY <1>1, <1>2
    <2>3. \A t \in Thread : Len(num[t]) <= N
      <3>1. Len(none) <= N
        BY <1>1, TableAssumption
      <3> QED
        BY <1>2, <3>1
    <2>4. entry \in [Thread -> Nat] /\ asserted \in BOOLEAN
      BY <1>2
    <2> QED
      BY <2>1, <2>2, <2>3, <2>4 DEF TableTypeOK
  <1>4. TableExact
    BY <1>1, <1>2, <1>3, UserAssumption DEF TableExact
  <1>5. TableHalfway
    BY <1>2 DEF TableHalfway, TablePC, TableInside
  <1> QED
    BY <1>4, <1>5 DEF TableInv

(***************************************************************************)
(* An entry of the table holds a thread's object exactly while the thread  *)
(* has been given its index, and no index is given twice, for every table  *)
(* size and number of threads, although Alloc and Release yield.           *)
(***************************************************************************)
THEOREM TableCorrect == Spec => []TableExact
  <1>1. TableInv => TableExact
    BY DEF TableInv
  <1> QED
    BY <1>1, InitTable, NextTable, PTL DEF Spec

-----------------------------------------------------------------------------
(* The doubly linked list.                                                 *)

\* A thread that holds the list's lock is at one of these places.
ListInside == {"insert", "insEmpty", "insFront", "insMiddle", "signalled",
               "remove", "remFirst", "remNext"}

\* It has created its element and not linked it yet.
Linking == {"insEmpty", "insFront", "insMiddle"}

\* c[1] to c[n] are linked in this order, which is that of their keys.
Chained(c, n) ==
    /\ \A i, j \in 1..n : c[i] = c[j] => i = j
    /\ first = IF n = 0 THEN NULL ELSE c[1]
    /\ last = IF n = 0 THEN NULL ELSE c[n]
    /\ \A i \in 1..n :
          /\ next[c[i]] = IF i = n THEN NULL ELSE c[i + 1]
          /\ prev[c[i]] = IF i = 1 THEN NULL ELSE c[i - 1]
          /\ i > 1 => key[c[i - 1]] <= key[c[i]]

Elems(c, n) == {c[i] : i \in 1..n}

\* `new` clears an element's pointers.
Blank == \A e \in Elem \ live : next[e] = NULL /\ prev[e] = NULL

\* What a thread that yields in the middle of an operation has found.
AtYield(t, c, n) ==
    /\ pc[t] \in Linking =>
          /\ element[t] \in Elem \ Elems(c, n)
          /\ live = Elems(c, n) \cup {element[t]}
          /\ prev[element[t]] = NULL
    /\ pc[t] = "insEmpty" => n = 0 /\ next[element[t]] = NULL
    /\ pc[t] = "insFront" => n # 0 /\ key[element[t]] <= key[c[1]]
    /\ pc[t] = "insMiddle" =>
          \E j \in 1..(n - 1) : /\ place[t] = c[j]
                                /\ key[c[j]] <= key[element[t]]
                                /\ key[element[t]] <= key[c[j + 1]]
    /\ pc[t] = "remFirst" => n # 0 /\ element[t] = c[1]
    /\ pc[t] = "remNext" => n > 1 /\ element[t] = c[1]

ChainAt(c, n) ==
    /\ Chained(c, n) /\ Blank
    /\ (\A t \in Thread : pc[t] \notin Linking) => live = Elems(c, n)
    /\ \A t \in Thread : AtYield(t, c, n)

ListLock ==
    /\ pc \in [Thread -> ListPC]
    /\ \A t \in Thread : pc[t] \in ListInside => holder = t
    /\ \A t \in Thread :
          /\ pc[t] \in {"insert", "signalled"} \cup Linking => inserted[t] < NumInsert
          /\ pc[t] \in {"toRemove", "remove", "remFirst", "remNext"} => removed[t] < NumRemove

\* The places of AtYield.
Busy == Linking \cup {"remFirst", "remNext"}

SomeChain == \E n \in Nat : \E c \in [1..n -> Elem] : ChainAt(c, n)

(***************************************************************************)
(* What ListIntact rests on: there is a sequence of elements, linked in    *)
(* its order, that accounts for all that exist but the one that a thread   *)
(* has created and not linked yet; and such a thread still knows a place   *)
(* where it fits, since it has the lock.                                   *)
(***************************************************************************)
DLInv ==
    /\ ListTypeOK
    /\ IF testnum = 2
       THEN ListLock /\ SomeChain
       ELSE first = NULL /\ last = NULL /\ live = {}

\* A set of natural numbers has a least element.
LEMMA LeastOf ==
    ASSUME NEW T \in SUBSET Nat, T # {}
    PROVE  \E x \in T : \A y \in T : x <= y
  <1>1. PICK r : r = OpToRel(<, Nat)
    OBVIOUS
  <1>2. IsWellFoundedOn(r, Nat)
    BY <1>1, NatLessThanWellFounded, Zenon
  <1>3. PICK x \in T : \A y \in T : ~(<<y, x>> \in r)
    BY <1>2, WFMin
  <1>4. \A y \in Nat, z \in Nat : y < z => <<y, z>> \in r
    <2>1. r = {ss \in Nat \X Nat : ss[1] < ss[2]}
      BY <1>1, Zenon DEF OpToRel
    <2> QED
      BY <2>1
  <1>5. x \in Nat /\ \A y \in T : y \in Nat /\ ~(y < x)
    BY <1>3, <1>4
  <1> QED
    BY <1>3, <1>5

\* The list, when nobody is in the middle of an operation.
Whole(c, n) == Chained(c, n) /\ Blank /\ live = Elems(c, n)

SomeWhole == \E n \in Nat : \E c \in [1..n -> Elem] : Whole(c, n)

\* e is linked in as the i-th element.
Joins(c, n, i, e) ==
    /\ first' = IF i = 1 THEN e ELSE first
    /\ last' = IF i = n + 1 THEN e ELSE last
    /\ \A x \in Elem :
          /\ next'[x] = IF x = e THEN IF i = n + 1 THEN NULL ELSE c[i]
                        ELSE IF i > 1 /\ x = c[i - 1] THEN e ELSE next[x]
          /\ prev'[x] = IF x = e THEN IF i = 1 THEN NULL ELSE c[i - 1]
                        ELSE IF i <= n /\ x = c[i] THEN e ELSE prev[x]

\* Its key belongs there, and those of the others stay as they are.
Fits(c, n, i, e) ==
    /\ \A j \in 1..n : key'[c[j]] = key[c[j]]
    /\ i > 1 => key'[c[i - 1]] <= key'[e]
    /\ i <= n => key'[e] <= key'[c[i]]

Longer(c, n, i, e) ==
    [j \in 1..(n + 1) |-> IF j < i THEN c[j] ELSE IF j = i THEN e ELSE c[j - 1]]

Behind(c, n) == [j \in 1..(n - 1) |-> c[j + 1]]

\* A chain with one more element is a chain.
LEMMA JoinKeeps ==
    ASSUME NEW n \in Nat, NEW c \in [1..n -> Elem], Chained(c, n), Blank,
           NEW i \in 1..(n + 1), NEW e \in Elem \ Elems(c, n), Joins(c, n, i, e), Fits(c, n, i, e),
           live \subseteq live', live' = Elems(c, n) \cup {e}
    PROVE  /\ Longer(c, n, i, e) \in [1..(n + 1) -> Elem]
           /\ Whole(Longer(c, n, i, e), n + 1)'
  <1> DEFINE d == Longer(c, n, i, e)
  <1>1. /\ d \in [1..(n + 1) -> Elem]
        /\ \A j \in 1..(n + 1) : d[j] = IF j < i THEN c[j] ELSE IF j = i THEN e ELSE c[j - 1]
    BY DEF Longer
  <1>2. /\ \A j \in 1..n : c[j] \in Elem /\ c[j] # e
        /\ \A j, m \in 1..n : c[j] = c[m] => j = m
        /\ first = IF n = 0 THEN NULL ELSE c[1]
        /\ last = IF n = 0 THEN NULL ELSE c[n]
        /\ \A m \in 1..n : next[c[m]] = IF m = n THEN NULL ELSE c[m + 1]
        /\ \A m \in 1..n : prev[c[m]] = IF m = 1 THEN NULL ELSE c[m - 1]
        /\ \A m \in 1..n : m > 1 => key[c[m - 1]] <= key[c[m]]
    BY DEF Chained, Elems
  <1> HIDE DEF d
  <1>3. \A j, m \in 1..(n + 1) : d[j] = d[m] => j = m
    <2> SUFFICES ASSUME NEW j \in 1..(n + 1), NEW m \in 1..(n + 1), d[j] = d[m] PROVE j = m
      OBVIOUS
    <2> QED
      BY <1>1, <1>2
  <1>4. live' = Elems(d, n + 1)
    <2>1. ASSUME NEW j \in 1..(n + 1) PROVE d[j] \in Elems(c, n) \cup {e}
      BY <1>1, <1>2 DEF Elems
    <2>2. e = d[i]
      BY <1>1
    <2>3. ASSUME NEW x \in Elems(c, n) PROVE \E j \in 1..(n + 1) : x = d[j]
      <3>1. PICK j \in 1..n : x = c[j]
        BY DEF Elems
      <3>2. CASE j < i
        BY <1>1, <3>1, <3>2
      <3>3. CASE j >= i
        <4>1. j + 1 \in 1..(n + 1) /\ d[j + 1] = c[j]
          BY <1>1, <3>3
        <4> QED
          BY <3>1, <4>1
      <3> QED
        BY <3>2, <3>3
    <2>4. Elems(c, n) \cup {e} = {d[j] : j \in 1..(n + 1)}
      BY <2>1, <2>2, <2>3
    <2> QED
      BY <2>4 DEF Elems
  <1>5. first' = IF n + 1 = 0 THEN NULL ELSE d[1]
    <2>1. first' = IF i = 1 THEN e ELSE first
      BY DEF Joins
    <2>2. i # 1 => n # 0 /\ d[1] = c[1]
      BY <1>1
    <2>3. i = 1 => d[1] = e
      BY <1>1
    <2> QED
      BY <1>2, <2>1, <2>2, <2>3
  <1>6. last' = IF n + 1 = 0 THEN NULL ELSE d[n + 1]
    <2>1. last' = IF i = n + 1 THEN e ELSE last
      BY DEF Joins
    <2>2. i # n + 1 => n # 0 /\ d[n + 1] = c[n]
      BY <1>1
    <2>3. i = n + 1 => d[n + 1] = e
      BY <1>1
    <2> QED
      BY <1>2, <2>1, <2>2, <2>3
  <1>7. ASSUME NEW j \in 1..(n + 1)
        PROVE  next'[d[j]] = IF j = n + 1 THEN NULL ELSE d[j + 1]
    <2>1. next'[d[j]] = IF d[j] = e THEN IF i = n + 1 THEN NULL ELSE c[i]
                        ELSE IF i > 1 /\ d[j] = c[i - 1] THEN e ELSE next[d[j]]
      BY <1>1 DEF Joins
    <2>2. CASE j = i
      BY <1>1, <2>1, <2>2
    <2>3. CASE j = i - 1
      <3>1. d[j] = c[i - 1] /\ d[j] # e /\ d[j + 1] = e /\ i > 1 /\ j # n + 1
        BY <1>1, <1>2, <2>3
      <3> QED
        BY <2>1, <3>1
    <2>4. CASE j < i - 1
      <3>1. d[j] = c[j] /\ d[j] # e /\ d[j] # c[i - 1] /\ d[j + 1] = c[j + 1] /\ j # n
        BY <1>1, <1>2, <2>4
      <3> QED
        BY <1>2, <2>1, <2>4, <3>1
    <2>5. CASE j > i
      <3>0. j - 1 \in 1..n /\ (i > 1 => i - 1 \in 1..n /\ j - 1 # i - 1)
        BY <2>5
      <3>1. d[j] = c[j - 1] /\ (j # n + 1 => d[j + 1] = c[j])
        BY <1>1, <2>5
      <3>4. d[j] # e /\ (i > 1 => d[j] # c[i - 1])
        BY <1>2, <3>0, <3>1
      <3>2. next'[d[j]] = next[c[j - 1]]
        BY <2>1, <3>1, <3>4
      <3>3. next[c[j - 1]] = IF j - 1 = n THEN NULL ELSE c[j]
        BY <1>2, <2>5
      <3> QED
        BY <3>1, <3>2, <3>3
    <2> QED
      BY <2>2, <2>3, <2>4, <2>5
  <1>8. ASSUME NEW j \in 1..(n + 1) PROVE prev'[d[j]] = IF j = 1 THEN NULL ELSE d[j - 1]
    <2>1. prev'[d[j]] = IF d[j] = e THEN IF i = 1 THEN NULL ELSE c[i - 1]
                        ELSE IF i <= n /\ d[j] = c[i] THEN e ELSE prev[d[j]]
      BY <1>1 DEF Joins
    <2>2. CASE j = i
      BY <1>1, <2>1, <2>2
    <2>3. CASE j = i + 1
      <3>1. d[j] = c[i] /\ d[j] # e /\ d[j - 1] = e /\ i <= n /\ j # 1
        BY <1>1, <1>2, <2>3
      <3> QED
        BY <2>1, <3>1
    <2>4. CASE j < i
      <3>1. d[j] = c[j] /\ d[j] # e /\ (i <= n => d[j] # c[i]) /\ (j # 1 => d[j - 1] = c[j - 1])
        BY <1>1, <1>2, <2>4
      <3>2. prev'[d[j]] = prev[c[j]]
        BY <2>1, <3>1
      <3>3. prev[c[j]] = IF j = 1 THEN NULL ELSE c[j - 1]
        BY <1>2, <2>4
      <3> QED
        BY <3>1, <3>2, <3>3
    <2>5. CASE j > i + 1
      <3>1. d[j] = c[j - 1] /\ d[j] # e /\ d[j] # c[i] /\ d[j - 1] = c[j - 2]
        BY <1>1, <1>2, <2>5
      <3>2. prev'[d[j]] = prev[c[j - 1]]
        BY <2>1, <3>1
      <3>3. prev[c[j - 1]] = IF j - 1 = 1 THEN NULL ELSE c[(j - 1) - 1]
        BY <1>2, <2>5
      <3> QED
        BY <2>5, <3>1, <3>2, <3>3
    <2> QED
      BY <2>2, <2>3, <2>4, <2>5
  <1>9. ASSUME NEW j \in 1..(n + 1), j > 1 PROVE key'[d[j - 1]] <= key'[d[j]]
    <2>0. /\ \A m \in 1..n : key'[c[m]] = key[c[m]]
          /\ i > 1 => key'[c[i - 1]] <= key'[e]
          /\ i <= n => key'[e] <= key'[c[i]]
      BY DEF Fits
    <2>1. CASE j = i
      <3>1. d[j] = e /\ d[j - 1] = c[i - 1]
        BY <1>1, <1>9, <2>1
      <3> QED
        BY <1>9, <2>0, <2>1, <3>1
    <2>2. CASE j = i + 1
      <3>1. d[j] = c[i] /\ d[j - 1] = e /\ i <= n
        BY <1>1, <2>2
      <3> QED
        BY <2>0, <3>1
    <2>3. CASE j < i
      <3>1. d[j] = c[j] /\ d[j - 1] = c[j - 1] /\ j \in 1..n /\ j - 1 \in 1..n
        BY <1>1, <1>9, <2>3
      <3> QED
        BY <1>2, <1>9, <2>0, <3>1
    <2>4. CASE j > i + 1
      <3>1. d[j] = c[j - 1] /\ d[j - 1] = c[(j - 1) - 1] /\ j - 1 \in 1..n /\ (j - 1) - 1 \in 1..n /\ j - 1 > 1
        BY <1>1, <2>4
      <3> QED
        BY <1>2, <2>0, <3>1
    <2> QED
      BY <2>1, <2>2, <2>3, <2>4
  <1>10. ASSUME NEW x \in Elem \ live' PROVE next'[x] = NULL /\ prev'[x] = NULL
    <2>1. x \in Elem \ live /\ x # e /\ x \notin Elems(c, n)
      OBVIOUS
    <2>2. \A j \in 1..n : x # c[j]
      BY <2>1 DEF Elems
    <2>3. next'[x] = next[x] /\ prev'[x] = prev[x]
      BY <2>1, <2>2 DEF Joins
    <2> QED
      BY <2>1, <2>3 DEF Blank
  <1>11. Chained(d, n + 1)'
    BY <1>3, <1>5, <1>6, <1>7, <1>8, <1>9 DEF Chained
  <1>12. Blank'
    BY <1>10 DEF Blank
  <1> QED
    BY <1>1, <1>4, <1>11, <1>12 DEF Whole, d, Elems

\* Every way to link an element in.
LEMMA LinksJoin ==
    ASSUME NEW n \in Nat, NEW c \in [1..n -> Elem], Chained(c, n), ListTypeOK,
           NEW e \in Elem \ Elems(c, n), prev[e] = NULL
    PROVE  /\ n = 0 /\ next[e] = NULL /\ LinkOnly(e) => Joins(c, n, 1, e)
           /\ n # 0 /\ LinkFront(e) => Joins(c, n, 1, e)
           /\ n # 0 /\ next[e] = NULL /\ LinkEnd(e, c[n]) => Joins(c, n, n + 1, e)
           /\ \A j \in 1..(n - 1) : LinkMiddle(e, c[j]) => Joins(c, n, j + 1, e)
  <1>1. /\ next \in [Elem -> Pointer] /\ prev \in [Elem -> Pointer]
        /\ \A j \in 1..n : c[j] \in Elem /\ c[j] # e /\ c[j] # NULL
        /\ \A j, m \in 1..n : c[j] = c[m] => j = m
        /\ first = IF n = 0 THEN NULL ELSE c[1]
        /\ last = IF n = 0 THEN NULL ELSE c[n]
        /\ \A j \in 1..n : next[c[j]] = IF j = n THEN NULL ELSE c[j + 1]
    BY ListAssumption DEF ListTypeOK, Chained, Elems
  <1>2. ASSUME n = 0, next[e] = NULL, LinkOnly(e) PROVE Joins(c, n, 1, e)
    <2>1. first' = e /\ last' = e /\ next' = next /\ prev' = prev
      BY <1>2 DEF LinkOnly
    <2> QED
      BY <1>1, <1>2, <2>1 DEF Joins
  <1>3. ASSUME n # 0, LinkFront(e) PROVE Joins(c, n, 1, e)
    <2>1. /\ first' = e /\ last' = last /\ prev' = [prev EXCEPT ![c[1]] = e]
          /\ next' = [next EXCEPT ![e] = c[1]]
      BY <1>1, <1>3 DEF LinkFront
    <2>2. \A x \in Elem : next'[x] = IF x = e THEN c[1] ELSE next[x]
      BY <1>1, <2>1
    <2>3. \A x \in Elem : prev'[x] = IF x = e THEN NULL ELSE IF x = c[1] THEN e ELSE prev[x]
      BY <1>1, <1>3, <2>1
    <2> QED
      BY <1>1, <1>3, <2>1, <2>2, <2>3 DEF Joins
  <1>4. ASSUME n # 0, next[e] = NULL, LinkEnd(e, c[n]) PROVE Joins(c, n, n + 1, e)
    <2>1. /\ first' = first /\ last' = e /\ prev' = [prev EXCEPT ![e] = c[n]]
          /\ next' = [next EXCEPT ![c[n]] = e]
      BY <1>1, <1>4 DEF LinkEnd
    <2>2. \A x \in Elem : next'[x] = IF x = e THEN NULL ELSE IF x = c[n] THEN e ELSE next[x]
      BY <1>1, <1>4, <2>1
    <2>3. \A x \in Elem : prev'[x] = IF x = e THEN c[n] ELSE prev[x]
      BY <1>1, <2>1
    <2> QED
      BY <1>1, <1>4, <2>1, <2>2, <2>3 DEF Joins
  <1>5. ASSUME NEW j \in 1..(n - 1), LinkMiddle(e, c[j]) PROVE Joins(c, n, j + 1, e)
    <2>1. /\ next[c[j]] = c[j + 1] /\ c[j + 1] \in Elem /\ c[j] \in Elem /\ c[j] # e /\ c[j + 1] # e
          /\ j + 1 # 1 /\ j + 1 # n + 1
      BY <1>1
    <2>2. /\ first' = first /\ last' = last /\ prev' = [prev EXCEPT ![e] = c[j], ![c[j + 1]] = e]
          /\ next' = [next EXCEPT ![e] = c[j + 1], ![c[j]] = e]
      BY <2>1, <1>5 DEF LinkMiddle
    <2>3. \A x \in Elem : next'[x] = IF x = e THEN c[j + 1] ELSE IF x = c[j] THEN e ELSE next[x]
      BY <1>1, <2>1, <2>2
    <2>4. \A x \in Elem : prev'[x] = IF x = e THEN c[j] ELSE IF x = c[j + 1] THEN e ELSE prev[x]
      BY <1>1, <2>1, <2>2
    <2> QED
      BY <1>1, <2>1, <2>2, <2>3, <2>4 DEF Joins
  <1> QED
    BY <1>2, <1>3, <1>4, <1>5

\* Where the loop of SortedInsert stops, the key belongs behind that element.
LEMMA StopsWhereItFits ==
    ASSUME NEW n \in Nat, NEW c \in [1..n -> Elem], Whole(c, n), ListTypeOK, ~IsEmpty,
           NEW k \in Key, k > key[first], NEW p \in live, StopsAt(p, k)
    PROVE  /\ next[p] = NULL => p = c[n] /\ n # 0 /\ key[c[n]] < k
           /\ next[p] # NULL => \E j \in 1..(n - 1) : p = c[j] /\ key[c[j]] < k /\ k <= key[c[j + 1]]
  <1>1. /\ NULL \notin Elem /\ k \in Nat
        /\ \A j \in 1..n : c[j] \in live /\ c[j] \in Elem /\ key[c[j]] \in Nat
        /\ \A j \in 1..n : next[c[j]] = IF j = n THEN NULL ELSE c[j + 1]
        /\ n # 0 /\ first = c[1]
    BY ListAssumption DEF ListTypeOK, Whole, Chained, Elems, IsEmpty
  <1>2. PICK j \in 1..n : p = c[j]
    BY DEF Whole, Elems
  <1>3. key[p] < k
    <2> SUFFICES ASSUME key[p] >= k PROVE FALSE
      BY <1>1, <1>2
    <2> DEFINE T == {m \in 1..n : key[c[m]] >= k}
    <2>1. T \in SUBSET Nat /\ T # {}
      BY <1>2
    <2>2. PICK m \in T : \A y \in T : m <= y
      <3> HIDE DEF T
      <3> QED
        BY <2>1, LeastOf
    <2>3. m \in 1..n /\ key[c[m]] >= k /\ m # 1
      BY <1>1, <2>2
    <2>4. m - 1 \in 1..n /\ m - 1 \notin T
      BY <2>2, <2>3
    <2>5. ~(key[c[m - 1]] >= k) /\ next[c[m - 1]] = c[m] /\ c[m] # NULL /\ c[m - 1] \in live
      BY <1>1, <2>3, <2>4
    <2> HIDE DEF T
    <2> DEFINE q == c[m - 1]
    <2>6. q \in live \ {p} /\ next[q] # NULL /\ key[next[q]] >= k /\ ~(key[q] >= k)
      BY <2>3, <2>5
    <2> HIDE DEF q
    <2> QED
      BY <2>6 DEF StopsAt
  <1>4. next[p] = NULL => j = n
    BY <1>1, <1>2
  <1>5. next[p] # NULL => j \in 1..(n - 1) /\ next[p] = c[j + 1] /\ j + 1 \in 1..n
    BY <1>1, <1>2
  <1>6. next[p] # NULL => key[next[p]] >= k
    BY DEF StopsAt
  <1>7. ASSUME next[p] # NULL
        PROVE  \E m \in 1..(n - 1) : p = c[m] /\ key[c[m]] < k /\ k <= key[c[m + 1]]
    <2>1. j \in 1..(n - 1) /\ p = c[j] /\ key[c[j]] < k /\ k <= key[c[j + 1]]
      BY <1>1, <1>2, <1>3, <1>5, <1>6, <1>7
    <2> QED
      BY <2>1
  <1> QED
    BY <1>1, <1>2, <1>3, <1>4, <1>7

\* A chain without its first element is a chain.
LEMMA LeaveKeeps ==
    ASSUME NEW n \in Nat, NEW c \in [1..n -> Elem], Whole(c, n), ListTypeOK, n # 0,
           NEW t \in Thread, RemoveReturn(t, c[1]),
           IF n = 1 THEN UnlinkOnly(c[1]) ELSE UnlinkFirst(c[1])
    PROVE  /\ n - 1 \in Nat /\ Behind(c, n) \in [1..(n - 1) -> Elem]
           /\ Whole(Behind(c, n), n - 1)'
  <1> DEFINE d == Behind(c, n)
  <1>1. /\ n - 1 \in Nat /\ d \in [1..(n - 1) -> Elem]
        /\ \A j \in 1..(n - 1) : d[j] = c[j + 1]
    BY DEF Behind
  <1>2. /\ NULL \notin Elem
        /\ next \in [Elem -> Pointer] /\ prev \in [Elem -> Pointer] /\ key \in [Elem -> Key]
        /\ \A j \in 1..n : c[j] \in Elem
        /\ \A j, m \in 1..n : c[j] = c[m] => j = m
        /\ first = c[1] /\ last = c[n]
        /\ \A m \in 1..n : next[c[m]] = IF m = n THEN NULL ELSE c[m + 1]
        /\ \A m \in 1..n : prev[c[m]] = IF m = 1 THEN NULL ELSE c[m - 1]
        /\ \A m \in 1..n : m > 1 => key[c[m - 1]] <= key[c[m]]
        /\ \A e \in Elem \ live : next[e] = NULL /\ prev[e] = NULL
        /\ live = {c[j] : j \in 1..n}
    BY ListAssumption DEF ListTypeOK, Whole, Chained, Elems, Blank
  <1>3. /\ live' = live \ {c[1]}
        /\ next' = [next EXCEPT ![c[1]] = NULL]
        /\ \A x \in Elem : x # c[1] => key'[x] = key[x]
    <2>1. /\ live' = live \ {c[1]}
          /\ next' = [next EXCEPT ![c[1]] = NULL]
          /\ key' = [key EXCEPT ![c[1]] = CHOOSE k \in Key : TRUE]
      BY DEF RemoveReturn
    <2> QED
      BY <1>2, <2>1
  <1>4. \A x \in Elem : next'[x] = IF x = c[1] THEN NULL ELSE next[x]
    BY <1>2, <1>3
  <1> HIDE DEF d
  <1>5. \A j, m \in 1..(n - 1) : d[j] = d[m] => j = m
    <2> SUFFICES ASSUME NEW j \in 1..(n - 1), NEW m \in 1..(n - 1), d[j] = d[m] PROVE j = m
      OBVIOUS
    <2>1. j + 1 \in 1..n /\ m + 1 \in 1..n /\ c[j + 1] = c[m + 1]
      BY <1>1
    <2> QED
      BY <1>2, <2>1
  <1>6. live' = Elems(d, n - 1)
    <2>1. ASSUME NEW j \in 1..(n - 1) PROVE d[j] \in live \ {c[1]}
      <3>1. j + 1 \in 1..n /\ 1 \in 1..n /\ j + 1 # 1 /\ d[j] = c[j + 1]
        BY <1>1
      <3> QED
        BY <1>2, <3>1
    <2>2. ASSUME NEW x \in live, x # c[1] PROVE \E j \in 1..(n - 1) : x = d[j]
      <3>1. PICK j \in 1..n : x = c[j]
        BY <1>2
      <3>2. j - 1 \in 1..(n - 1) /\ d[j - 1] = c[j]
        BY <1>1, <2>2, <3>1
      <3> QED
        BY <3>1, <3>2
    <2>3. live \ {c[1]} = {d[j] : j \in 1..(n - 1)}
      BY <2>1, <2>2
    <2> QED
      BY <1>3, <2>3 DEF Elems
  <1>7. ASSUME NEW j \in 1..(n - 1)
        PROVE  /\ next'[d[j]] = IF j = n - 1 THEN NULL ELSE d[j + 1]
               /\ j > 1 => key'[d[j - 1]] <= key'[d[j]]
    <2>1. d[j] = c[j + 1] /\ j + 1 \in 1..n /\ 1 \in 1..n /\ c[j + 1] # c[1] /\ c[j + 1] \in Elem
          /\ (j # n - 1 => d[j + 1] = c[(j + 1) + 1])
      BY <1>1, <1>2
    <2>2. next'[d[j]] = next[c[j + 1]] /\ key'[d[j]] = key[c[j + 1]]
      BY <1>3, <1>4, <2>1
    <2>3. next[c[j + 1]] = IF j + 1 = n THEN NULL ELSE c[(j + 1) + 1]
      BY <1>2, <2>1
    <2>4. ASSUME j > 1 PROVE key'[d[j - 1]] <= key'[d[j]]
      <3>1. d[j - 1] = c[j] /\ j \in 1..n /\ c[j] # c[1] /\ c[j] \in Elem
        BY <1>1, <1>2, <2>4
      <3>2. key'[d[j - 1]] = key[c[j]]
        BY <1>3, <3>1
      <3>3. key[c[(j + 1) - 1]] <= key[c[j + 1]]
        BY <1>2, <2>1
      <3> QED
        BY <2>2, <3>2, <3>3
    <2> QED
      BY <2>1, <2>2, <2>3, <2>4
  <1>8. /\ first' = IF n - 1 = 0 THEN NULL ELSE d[1]
        /\ last' = IF n - 1 = 0 THEN NULL ELSE d[n - 1]
        /\ \A j \in 1..(n - 1) : prev'[d[j]] = IF j = 1 THEN NULL ELSE d[j - 1]
        /\ \A x \in Elem : x \notin live \/ x = c[1] => prev'[x] = NULL
    <2>1. CASE n = 1
      <3>1. first' = NULL /\ last' = NULL /\ prev' = prev
        BY <2>1 DEF UnlinkOnly
      <3>2. prev[c[1]] = NULL
        BY <1>2, <2>1
      <3> QED
        BY <1>2, <2>1, <3>1, <3>2
    <2>2. CASE n # 1
      <3>0. 1 \in 1..n /\ 2 \in 1..n /\ n \in 1..n /\ c[1] # c[2] /\ next[c[1]] = c[2]
        BY <1>2, <2>2
      <3>1. first' = c[2] /\ last' = last /\ prev' = [prev EXCEPT ![c[2]] = NULL, ![c[1]] = NULL]
        BY <1>2, <2>2, <3>0 DEF UnlinkFirst
      <3>2. \A x \in Elem : prev'[x] = IF x = c[1] THEN NULL ELSE IF x = c[2] THEN NULL ELSE prev[x]
        BY <1>2, <3>1
      <3>3. d[1] = c[2] /\ d[n - 1] = c[n]
        BY <1>1, <2>2
      <3>4. ASSUME NEW j \in 1..(n - 1) PROVE prev'[d[j]] = IF j = 1 THEN NULL ELSE d[j - 1]
        <4>1. CASE j = 1
          BY <1>2, <3>0, <3>2, <3>3, <4>1
        <4>2. CASE j # 1
          <5>1. d[j] = c[j + 1] /\ d[j - 1] = c[j] /\ j + 1 \in 1..n /\ j + 1 # 1 /\ j + 1 # 2
            BY <1>1, <4>2
          <5>2. c[j + 1] # c[1] /\ c[j + 1] # c[2] /\ c[j + 1] \in Elem
            BY <1>2, <3>0, <5>1
          <5>3. prev[c[j + 1]] = c[(j + 1) - 1]
            BY <1>2, <5>1
          <5> QED
            BY <3>2, <4>2, <5>1, <5>2, <5>3
        <4> QED
          BY <4>1, <4>2
      <3>5. ASSUME NEW x \in Elem, x \notin live \/ x = c[1] PROVE prev'[x] = NULL
        BY <1>2, <3>2, <3>5
      <3>6. first' = IF n - 1 = 0 THEN NULL ELSE d[1]
        BY <2>2, <3>1, <3>3
      <3>7. last' = IF n - 1 = 0 THEN NULL ELSE d[n - 1]
        BY <1>2, <2>2, <3>1, <3>3
      <3> QED
        BY <3>4, <3>5, <3>6, <3>7
    <2> QED
      BY <2>1, <2>2
  <1>9. Blank'
    <2>1. ASSUME NEW x \in Elem \ live' PROVE next'[x] = NULL /\ prev'[x] = NULL
      <3>1. x \notin live \/ x = c[1]
        BY <1>3
      <3> QED
        BY <1>2, <1>4, <1>8, <3>1
    <2> QED
      BY <2>1 DEF Blank
  <1>10. Chained(d, n - 1)'
    BY <1>5, <1>7, <1>8 DEF Chained
  <1> QED
    BY <1>1, <1>6, <1>9, <1>10 DEF Whole, d, Elems

\* The walk from first meets the elements of the chain, and has time for all.
LEMMA WalkIs ==
    ASSUME NEW n \in Nat, NEW c \in [1..n -> Elem], Chained(c, n)
    PROVE  Walk[Cardinality(Elem)] = Elems(c, n)
  <1> DEFINE K == Cardinality(Elem)
             Wider(W) == W \cup ({next[e] : e \in W} \ {NULL})
             Is(f) == f = [m \in 0..K |-> IF m = 0 THEN {first} \ {NULL} ELSE Wider(f[m - 1])]
             g == [m \in 0..K |-> Elems(c, IF m < n THEN m + 1 ELSE n)]
  <1>1. /\ NULL \notin Elem
        /\ \A j \in 1..n : c[j] \in Elem
        /\ first = IF n = 0 THEN NULL ELSE c[1]
        /\ \A j \in 1..n : next[c[j]] = IF j = n THEN NULL ELSE c[j + 1]
    BY ListAssumption DEF Chained
  <1>2. K \in Nat /\ n <= K
    <2>1. IsFiniteSet(1..n) /\ Cardinality(1..n) = n
      BY FS_Interval
    <2>2. c \in Injection(1..n, Elem)
      BY DEF Chained, Injection, IsInjective
    <2>3. Cardinality(1..n) <= Cardinality(Elem)
      BY <2>2, ListAssumption, FS_Injection
    <2>4. Cardinality(Elem) \in Nat
      BY ListAssumption, FS_CardinalityType
    <2> QED
      BY <2>1, <2>3, <2>4
  <1>3. {first} \ {NULL} = Elems(c, IF 0 < n THEN 1 ELSE n)
    <2>1. CASE n = 0
      BY <1>1, <2>1 DEF Elems
    <2>2. CASE n # 0
      BY <1>1, <2>2 DEF Elems
    <2> QED
      BY <2>1, <2>2
  <1>4. ASSUME NEW m \in 1..n PROVE Wider(Elems(c, m)) = Elems(c, IF m < n THEN m + 1 ELSE n)
    <2> DEFINE r == IF m < n THEN m + 1 ELSE n
    <2>1. r \in m..n /\ (m < n => r = m + 1) /\ (m = n => r = n)
      OBVIOUS
    <2> HIDE DEF r
    <2>2. ASSUME NEW x \in Wider(Elems(c, m)) PROVE x \in Elems(c, r)
      <3>1. CASE x \in Elems(c, m)
        BY <2>1, <3>1 DEF Elems
      <3>2. CASE x \notin Elems(c, m)
        <4>1. PICK j \in 1..m : x = next[c[j]] /\ x # NULL
          BY <2>2, <3>2 DEF Elems
        <4>2. j # n /\ x = c[j + 1] /\ j + 1 \in 1..n
          BY <1>1, <4>1
        <4>3. j + 1 \in 1..r
          BY <2>1, <4>2
        <4> QED
          BY <4>2, <4>3 DEF Elems
      <3> QED
        BY <3>1, <3>2
    <2>3. ASSUME NEW x \in Elems(c, r) PROVE x \in Wider(Elems(c, m))
      <3>1. PICK j \in 1..r : x = c[j]
        BY DEF Elems
      <3>2. CASE j <= m
        BY <3>1, <3>2 DEF Elems
      <3>3. CASE j > m
        <4>1. m < n /\ j = m + 1
          BY <2>1, <3>1, <3>3
        <4>2. next[c[m]] = x /\ x # NULL /\ c[m] \in Elems(c, m)
          BY <1>1, <3>1, <4>1 DEF Elems
        <4> QED
          BY <4>2
      <3> QED
        BY <3>1, <3>2, <3>3
    <2>4. Wider(Elems(c, m)) = Elems(c, r)
      <3> HIDE DEF Wider
      <3> QED
        BY <2>2, <2>3
    <2> QED
      BY <2>4 DEF r
  <1>5. ASSUME n = 0 PROVE Wider(Elems(c, n)) = Elems(c, n)
    <2>1. Elems(c, n) = {}
      BY <1>5 DEF Elems
    <2> QED
      BY <2>1
  <1> HIDE DEF Wider
  <1>6. \A m \in 0..K : g[m] = IF m = 0 THEN {first} \ {NULL} ELSE Wider(g[m - 1])
    <2> SUFFICES ASSUME NEW m \in 0..K
                 PROVE  g[m] = IF m = 0 THEN {first} \ {NULL} ELSE Wider(g[m - 1])
      OBVIOUS
    <2>1. CASE m = 0
      BY <1>3, <2>1
    <2>2. CASE m \in 1..n
      <3>1. g[m - 1] = Elems(c, m) /\ m # 0
        BY <1>2, <2>2
      <3>2. g[m] = Elems(c, IF m < n THEN m + 1 ELSE n)
        OBVIOUS
      <3>3. Wider(Elems(c, m)) = Elems(c, IF m < n THEN m + 1 ELSE n)
        BY <1>4, <2>2
      <3> HIDE DEF g
      <3> QED
        BY <3>1, <3>2, <3>3
    <2>3. CASE m > n
      <3>1. g[m - 1] = Elems(c, n) /\ g[m] = Elems(c, n) /\ m # 0
        BY <1>2, <2>3
      <3>2. Wider(Elems(c, n)) = Elems(c, n)
        <4>1. CASE n = 0
          BY <1>5, <4>1
        <4>2. CASE n # 0
          <5>1. n \in 1..n /\ ~(n < n)
            BY <4>2
          <5>2. (IF n < n THEN n + 1 ELSE n) = n
            BY <5>1
          <5>3. Wider(Elems(c, n)) = Elems(c, IF n < n THEN n + 1 ELSE n)
            BY <1>4, <5>1
          <5> QED
            BY <5>2, <5>3
        <4> QED
          BY <4>1, <4>2
      <3> HIDE DEF g
      <3> QED
        BY <3>1, <3>2
    <2> QED
      BY <2>1, <2>2, <2>3
  <1>7. Is(g)
    <2> DEFINE h == [m \in 0..K |-> IF m = 0 THEN {first} \ {NULL} ELSE Wider(g[m - 1])]
    <2>1. DOMAIN g = 0..K /\ DOMAIN h = 0..K /\ \A m \in 0..K : g[m] = h[m]
      BY <1>6
    <2>2. g = [m \in 0..K |-> g[m]] /\ h = [m \in 0..K |-> h[m]]
      OBVIOUS
    <2>3. g = h
      <3> HIDE DEF g, h
      <3> QED
        BY <2>1, <2>2
    <2> QED
      BY <2>3
  <1> DEFINE walk == CHOOSE f : Is(f)
  <1>8. Is(walk)
    <2> HIDE DEF Is, g
    <2> QED
      BY <1>7
  <1>9. Walk = walk
    BY DEF Walk, Wider
  <1> HIDE DEF walk, g
  <1>10. \A m \in 0..K : walk[m] = IF m = 0 THEN {first} \ {NULL} ELSE Wider(walk[m - 1])
    BY <1>8
  <1> DEFINE T == {m \in 0..K : walk[m] # g[m]}
  <1>11. T = {}
    <2> SUFFICES ASSUME T # {} PROVE FALSE
      OBVIOUS
    <2>1. T \in SUBSET Nat
      OBVIOUS
    <2>2. PICK m \in T : \A y \in T : m <= y
      <3> HIDE DEF T
      <3> QED
        BY <2>1, LeastOf
    <2>3. m \in 0..K /\ walk[m] # g[m]
      OBVIOUS
    <2>4. m # 0
      BY <1>6, <1>10, <2>3
    <2>5. m - 1 \in 0..K /\ walk[m - 1] = g[m - 1]
      BY <1>2, <2>2, <2>3, <2>4
    <2> QED
      BY <1>6, <1>10, <2>3, <2>4, <2>5
  <1>12. walk[K] = g[K]
    BY <1>2, <1>11
  <1>13. g[K] = Elems(c, n)
    BY <1>2 DEF g
  <1> QED
    BY <1>9, <1>12, <1>13

\* There is room for a new element.
LEMMA NewElement ==
    ASSUME ListTypeOK, live # Elem
    PROVE  (CHOOSE x \in Elem \ live : TRUE) \in Elem \ live
  <1>1. \E x : x \in Elem \ live
    BY DEF ListTypeOK
  <1> QED
    BY <1>1

\* Only its holder goes on with the lock.
LEMMA LockKept ==
    ASSUME ListLock, NEW t \in Thread, NEW b \in ListPC, pc' = [pc EXCEPT ![t] = b],
           \/ holder = NoThread /\ holder' = t
           \/ holder' = holder /\ (b \in ListInside => pc[t] \in ListInside)
           \/ pc[t] \in ListInside /\ b \notin ListInside,
           \A u \in Thread \ {t} : inserted'[u] = inserted[u] /\ removed'[u] = removed[u],
           b \in {"insert", "signalled"} \cup Linking => inserted'[t] < NumInsert,
           b \in {"toRemove", "remove", "remFirst", "remNext"} => removed'[t] < NumRemove
    PROVE  ListLock'
  <1>1. /\ pc' \in [Thread -> ListPC] /\ pc'[t] = b
        /\ \A u \in Thread \ {t} : pc'[u] = pc[u]
    BY DEF ListLock
  <1>2. ASSUME NEW u \in Thread, pc'[u] \in ListInside PROVE holder' = u
    <2>1. CASE u = t
      BY <1>1, <1>2, <2>1 DEF ListLock
    <2>2. CASE u # t
      <3>1. pc[u] \in ListInside /\ holder = u /\ (pc[t] \in ListInside => holder = t)
        BY <1>1, <1>2, <2>2 DEF ListLock
      <3> QED
        BY <2>2, <3>1, UserAssumption
    <2> QED
      BY <2>1, <2>2
  <1>3. ASSUME NEW u \in Thread
        PROVE  /\ pc'[u] \in {"insert", "signalled"} \cup Linking => inserted'[u] < NumInsert
               /\ pc'[u] \in {"toRemove", "remove", "remFirst", "remNext"} => removed'[u] < NumRemove
    BY <1>1 DEF ListLock
  <1> QED
    BY <1>1, <1>2, <1>3 DEF ListLock

\* Calls, sleeps and returns, which do not touch the list ...
LEMMA QuietKeeps ==
    ASSUME SomeChain, ListLock, NEW t \in Thread, NEW b, pc[t] \notin Busy, b \notin Busy,
           pc' = [pc EXCEPT ![t] = b],
           UNCHANGED <<first, last, next, prev, key, live, element, place>>
    PROVE  SomeChain'
  <1>n. PICK n \in Nat : \E c \in [1..n -> Elem] : ChainAt(c, n)
    BY DEF SomeChain
  <1>1. PICK c \in [1..n -> Elem] : ChainAt(c, n)
    BY <1>n
  <1>2. /\ pc'[t] = b
        /\ \A u \in Thread \ {t} : pc'[u] = pc[u]
    BY DEF ListLock
  <1>3. Chained(c, n)' /\ Blank'
    BY <1>1 DEF ChainAt, Chained, Blank
  <1>4. (\A u \in Thread : pc'[u] \notin Linking) => live' = Elems(c, n)
    BY <1>1, <1>2 DEF ChainAt, Busy
  <1>5. ASSUME NEW u \in Thread PROVE AtYield(u, c, n)'
    <2>1. CASE u = t
      BY <1>2, <2>1 DEF AtYield, Busy, Linking
    <2>2. CASE u # t
      <3>1. pc'[u] = pc[u] /\ AtYield(u, c, n)
        BY <1>1, <1>2, <2>2 DEF ChainAt
      <3>2. /\ element'[u] = element[u] /\ place'[u] = place[u] /\ live' = live
            /\ key' = key /\ prev' = prev /\ next' = next
        OBVIOUS
      <3> QED
        BY <3>1, <3>2 DEF AtYield
    <2> QED
      BY <2>1, <2>2
  <1>6. ChainAt(c, n)'
    BY <1>3, <1>4, <1>5 DEF ChainAt, Elems
  <1> QED
    BY <1>6 DEF SomeChain

\* ... and the end of an operation, before which only the lock's holder was busy.
LEMMA EndKeeps ==
    ASSUME SomeWhole', ListLock, NEW t \in Thread, NEW b, pc[t] \in ListInside, b \notin Busy,
           pc' = [pc EXCEPT ![t] = b]
    PROVE  SomeChain'
  <1>n. PICK n \in Nat : \E c \in [1..n -> Elem] : Whole(c, n)'
    BY DEF SomeWhole
  <1>1. PICK c \in [1..n -> Elem] : Whole(c, n)'
    BY <1>n
  <1>2. \A u \in Thread : pc'[u] \notin Busy
    BY DEF ListLock, Busy, Linking, ListInside
  <1>3. \A u \in Thread : AtYield(u, c, n)'
    BY <1>2 DEF AtYield, Busy, Linking
  <1>4. ChainAt(c, n)'
    BY <1>1, <1>2, <1>3 DEF ChainAt, Whole
  <1> QED
    BY <1>4 DEF SomeChain

\* The holder finds the list whole unless it has created an element itself.
LEMMA HolderFinds ==
    ASSUME ListLock, NEW t \in Thread, pc[t] \in ListInside, pc[t] \notin Linking,
           NEW n \in Nat, NEW c \in [1..n -> Elem], ChainAt(c, n)
    PROVE  Whole(c, n)
  <1>1. \A u \in Thread : pc[u] \notin Linking
    BY DEF ListLock, ListInside, Linking
  <1> QED
    BY <1>1 DEF ChainAt, Whole

\* JoinKeeps and LeaveKeeps, when the new chain does not matter.
LEMMA JoinEnds ==
    ASSUME NEW n \in Nat, NEW c \in [1..n -> Elem], Chained(c, n), Blank,
           NEW i \in 1..(n + 1), NEW e \in Elem \ Elems(c, n), Joins(c, n, i, e), Fits(c, n, i, e),
           live \subseteq live', live' = Elems(c, n) \cup {e}
    PROVE  SomeWhole'
  <1> DEFINE d == Longer(c, n, i, e)
             m == n + 1
  <1>1. m \in Nat /\ d \in [1..m -> Elem] /\ Whole(d, m)'
    BY JoinKeeps
  <1> HIDE DEF d, m
  <1> QED
    BY <1>1 DEF SomeWhole

LEMMA LeaveEnds ==
    ASSUME NEW n \in Nat, NEW c \in [1..n -> Elem], Whole(c, n), ListTypeOK, n # 0,
           NEW t \in Thread, RemoveReturn(t, c[1]),
           IF n = 1 THEN UnlinkOnly(c[1]) ELSE UnlinkFirst(c[1])
    PROVE  SomeWhole'
  <1> DEFINE d == Behind(c, n)
             m == n - 1
  <1>1. m \in Nat /\ d \in [1..m -> Elem] /\ Whole(d, m)'
    BY LeaveKeeps
  <1> HIDE DEF d, m
  <1> QED
    BY <1>1 DEF SomeWhole

\* SortedInsert without a yield.
LEMMA InsertNowKeeps ==
    ASSUME ListTypeOK, ListLock, SomeChain, NEW t \in Thread, pc[t] = "insert",
           NEW k \in Key, NEW e \in Elem \ live, New(k, e), InsertNow(t, e, k)
    PROVE  SomeWhole'
  <1>n. PICK n \in Nat : \E c \in [1..n -> Elem] : ChainAt(c, n)
    BY DEF SomeChain
  <1>1. PICK c \in [1..n -> Elem] : ChainAt(c, n)
    BY <1>n
  <1>2. Whole(c, n)
    BY <1>1, HolderFinds DEF ListInside, Linking
  <1>3. /\ Chained(c, n) /\ Blank /\ e \in Elem \ Elems(c, n)
        /\ next[e] = NULL /\ prev[e] = NULL
        /\ live' = Elems(c, n) \cup {e} /\ live \subseteq live'
        /\ key'[e] = k /\ \A j \in 1..n : key'[c[j]] = key[c[j]] /\ key[c[j]] \in Nat
        /\ k \in Nat
    <2>1. Chained(c, n) /\ Blank /\ e \in Elem \ Elems(c, n) /\ next[e] = NULL /\ prev[e] = NULL
      BY <1>2 DEF Whole, Blank
    <2>2. live' = Elems(c, n) \cup {e} /\ live \subseteq live' /\ key' = [key EXCEPT ![e] = k]
      BY <1>2 DEF Whole, New
    <2>3. \A j \in 1..n : c[j] # e
      BY <2>1 DEF Elems
    <2> QED
      BY <2>1, <2>2, <2>3, ListAssumption DEF ListTypeOK
  <1>4. /\ IsEmpty <=> n = 0
        /\ n # 0 => first = c[1] /\ 1 \in 1..n /\ n \in 1..n
    BY <1>3, ListAssumption DEF Chained, IsEmpty
  <1>5. CASE IsEmpty /\ LinkOnly(e)
    <2>1. n = 0 /\ 1 \in 1..(n + 1)
      BY <1>4, <1>5
    <2>2. Joins(c, n, 1, e)
      BY <1>3, <1>5, <2>1, LinksJoin
    <2>3. Fits(c, n, 1, e)
      BY <2>1 DEF Fits
    <2> QED
      BY <1>3, <2>1, <2>2, <2>3, JoinEnds
  <1>6. CASE ~IsEmpty /\ k <= key[first] /\ LinkFront(e)
    <2>1. n # 0 /\ 1 \in 1..(n + 1) /\ k <= key[c[1]]
      BY <1>4, <1>6
    <2>2. Joins(c, n, 1, e)
      BY <1>3, <1>6, <2>1, LinksJoin
    <2>3. Fits(c, n, 1, e)
      BY <1>3, <2>1 DEF Fits
    <2> QED
      BY <1>3, <2>1, <2>2, <2>3, JoinEnds
  <1>7. ASSUME ~IsEmpty, k > key[first], NEW p \in live, StopsAt(p, k), next[p] # NULL, LinkMiddle(e, p)
        PROVE  SomeWhole'
    <2>1. PICK j \in 1..(n - 1) : p = c[j] /\ key[c[j]] < k /\ k <= key[c[j + 1]]
      BY <1>2, <1>7, StopsWhereItFits
    <2> DEFINE i == j + 1
    <2>2. i \in 1..(n + 1) /\ i - 1 = j /\ i - 1 \in 1..n /\ i \in 1..n
      OBVIOUS
    <2>3. Joins(c, n, i, e)
      BY <1>3, <1>7, <2>1, LinksJoin
    <2> HIDE DEF i
    <2>4. Fits(c, n, i, e)
      <3>1. key[c[i - 1]] < k /\ k <= key[c[i]]
        BY <2>1, <2>2 DEF i
      <3> QED
        BY <1>3, <2>2, <3>1 DEF Fits
    <2> QED
      BY <1>3, <2>2, <2>3, <2>4, JoinEnds
  <1>8. ASSUME ~IsEmpty, k > key[first], NEW p \in live, StopsAt(p, k), next[p] = NULL, LinkEnd(e, p)
        PROVE  SomeWhole'
    <2>1. p = c[n] /\ n # 0 /\ key[c[n]] < k
      BY <1>2, <1>8, StopsWhereItFits
    <2> DEFINE i == n + 1
    <2>2. i \in 1..(n + 1) /\ i - 1 = n /\ i - 1 \in 1..n /\ ~(i <= n)
      BY <2>1
    <2>3. Joins(c, n, i, e)
      BY <1>3, <1>8, <2>1, LinksJoin
    <2> HIDE DEF i
    <2>4. Fits(c, n, i, e)
      BY <1>3, <2>1, <2>2 DEF Fits
    <2> QED
      BY <1>3, <2>2, <2>3, <2>4, JoinEnds
  <1> QED
    BY <1>5, <1>6, <1>7, <1>8 DEF InsertNow

\* SortedInsert up to its yield.
LEMMA InsertYieldsKeeps ==
    ASSUME ListTypeOK, ListLock, SomeChain, NEW t \in Thread, pc[t] = "insert",
           NEW k \in Key, NEW e \in Elem \ live, New(k, e), InsertYields(t, e, k)
    PROVE  SomeChain'
  <1>n. PICK n \in Nat : \E c \in [1..n -> Elem] : ChainAt(c, n)
    BY DEF SomeChain
  <1>1. PICK c \in [1..n -> Elem] : ChainAt(c, n)
    BY <1>n
  <1>2. Whole(c, n)
    BY <1>1, HolderFinds DEF ListInside, Linking
  <1>3. /\ Chained(c, n) /\ Blank /\ e \in Elem \ Elems(c, n) /\ NULL \notin Elem
        /\ next \in [Elem -> Pointer]
        /\ next[e] = NULL /\ prev[e] = NULL
        /\ live' = live \cup {e} /\ live = Elems(c, n) /\ live' = Elems(c, n) \cup {e}
        /\ key'[e] = k /\ \A j \in 1..n : c[j] # e /\ key'[c[j]] = key[c[j]] /\ key[c[j]] \in Nat
        /\ k \in Nat
    <2>1. Chained(c, n) /\ Blank /\ e \in Elem \ Elems(c, n) /\ next[e] = NULL /\ prev[e] = NULL
      BY <1>2 DEF Whole, Blank
    <2>2. live' = live \cup {e} /\ live = Elems(c, n) /\ key' = [key EXCEPT ![e] = k]
      BY <1>2 DEF Whole, New
    <2>3. \A j \in 1..n : c[j] # e
      BY <2>1 DEF Elems
    <2> QED
      BY <2>1, <2>2, <2>3, ListAssumption DEF ListTypeOK
  <1>4. /\ IsEmpty <=> n = 0
        /\ n # 0 => first = c[1] /\ 1 \in 1..n /\ n \in 1..n
    BY <1>3 DEF Chained, IsEmpty
  <1>5. /\ element'[t] = e /\ first' = first /\ last' = last /\ prev' = prev
        /\ \A x \in Elem : x # e => next'[x] = next[x]
        /\ \E b \in Linking : pc' = [pc EXCEPT ![t] = b]
    BY <1>3 DEF InsertYields, Go, ListTypeOK, Linking
  <1>6. pc'[t] \in Linking /\ \A u \in Thread : u # t => pc'[u] \notin Busy
    BY <1>5 DEF ListLock, ListInside, Busy, Linking
  <1>7. Chained(c, n)'
    <2>1. ASSUME NEW i \in 1..n, i > 1 PROVE key'[c[i - 1]] <= key'[c[i]]
      BY <1>3, <2>1 DEF Chained
    <2>2. ASSUME NEW i \in 1..n PROVE next'[c[i]] = next[c[i]]
      BY <1>3, <1>5
    <2> QED
      BY <1>3, <1>5, <2>1, <2>2 DEF Chained
  <1>8. Blank'
    BY <1>3, <1>5 DEF Blank
  <1>9. ASSUME pc'[t] = "insEmpty" PROVE n = 0 /\ next'[e] = NULL
    <2>1. IsEmpty /\ next' = next
      BY <1>9 DEF InsertYields, Go, ListLock
    <2> QED
      BY <1>3, <1>4, <2>1
  <1>10. ASSUME pc'[t] = "insFront" PROVE n # 0 /\ key'[e] <= key'[c[1]]
    <2>1. ~IsEmpty /\ k <= key[first]
      BY <1>10 DEF InsertYields, Go, ListLock
    <2> QED
      BY <1>3, <1>4, <2>1
  <1>11. ASSUME pc'[t] = "insMiddle"
         PROVE  \E j \in 1..(n - 1) : /\ place'[t] = c[j]
                                      /\ key'[c[j]] <= key'[e]
                                      /\ key'[e] <= key'[c[j + 1]]
    <2>1. /\ ~IsEmpty /\ k > key[first]
          /\ \E p \in live : StopsAt(p, k) /\ next[p] # NULL /\ place' = [place EXCEPT ![t] = p]
      BY <1>11 DEF InsertYields, Go, ListLock
    <2>2. PICK p \in live : StopsAt(p, k) /\ next[p] # NULL /\ place' = [place EXCEPT ![t] = p]
      BY <2>1
    <2>3. PICK j \in 1..(n - 1) : p = c[j] /\ key[c[j]] < k /\ k <= key[c[j + 1]]
      BY <1>2, <2>1, <2>2, StopsWhereItFits
    <2>4. j \in 1..n /\ j + 1 \in 1..n /\ place'[t] = c[j]
      BY <2>2, <2>3 DEF ListTypeOK
    <2>5. key'[c[j]] <= key'[e] /\ key'[e] <= key'[c[j + 1]]
      BY <1>3, <2>3, <2>4
    <2> QED
      BY <2>4, <2>5
  <1>12. AtYield(t, c, n)'
    <2>1. /\ element'[t] \in Elem \ Elems(c, n)
          /\ live' = Elems(c, n) \cup {element'[t]}
          /\ prev'[element'[t]] = NULL
      BY <1>3, <1>5
    <2>2. pc'[t] # "remFirst" /\ pc'[t] # "remNext"
      BY <1>6 DEF Linking
    <2> QED
      BY <1>5, <1>9, <1>10, <1>11, <2>1, <2>2 DEF AtYield, Elems
  <1>13. ASSUME NEW u \in Thread, u # t PROVE AtYield(u, c, n)'
    BY <1>6, <1>13 DEF AtYield, Busy, Linking
  <1>14. ChainAt(c, n)'
    BY <1>6, <1>7, <1>8, <1>12, <1>13 DEF ChainAt
  <1> QED
    BY <1>14 DEF SomeChain

\* SortedInsert from its yield on.
LEMMA ResumeKeeps ==
    ASSUME ListTypeOK, ListLock, SomeChain, NEW t \in Thread, InsertResume(t)
    PROVE  SomeWhole'
  <1>n. PICK n \in Nat : \E c \in [1..n -> Elem] : ChainAt(c, n)
    BY DEF SomeChain
  <1>1. PICK c \in [1..n -> Elem] : ChainAt(c, n)
    BY <1>n
  <1> DEFINE e == element[t]
  <1>2. pc[t] \in Linking /\ key' = key /\ live' = live
    BY DEF InsertResume, Go, Linking
  <1>3. /\ Chained(c, n) /\ Blank /\ e \in Elem \ Elems(c, n)
        /\ live = Elems(c, n) \cup {e} /\ prev[e] = NULL
        /\ live' = Elems(c, n) \cup {e} /\ live \subseteq live'
    BY <1>1, <1>2 DEF ChainAt, AtYield
  <1>4. AtYield(t, c, n)
    BY <1>1 DEF ChainAt
  <1> HIDE DEF e
  <1>5. CASE pc[t] = "insEmpty" /\ LinkOnly(e)
    <2>1. n = 0 /\ 1 \in 1..(n + 1) /\ next[e] = NULL
      BY <1>4, <1>5 DEF AtYield, e
    <2>2. Joins(c, n, 1, e)
      BY <1>3, <1>5, <2>1, LinksJoin
    <2>3. Fits(c, n, 1, e)
      BY <2>1 DEF Fits
    <2> QED
      BY <1>3, <2>1, <2>2, <2>3, JoinEnds
  <1>6. CASE pc[t] = "insFront" /\ LinkFront(e)
    <2>1. n # 0 /\ 1 \in 1..(n + 1) /\ key[e] <= key[c[1]]
      BY <1>4, <1>6 DEF AtYield, e
    <2>2. Joins(c, n, 1, e)
      BY <1>3, <1>6, <2>1, LinksJoin
    <2>3. Fits(c, n, 1, e)
      BY <1>2, <2>1 DEF Fits
    <2> QED
      BY <1>3, <2>1, <2>2, <2>3, JoinEnds
  <1>7. CASE pc[t] = "insMiddle" /\ LinkMiddle(e, place[t])
    <2>1. PICK j \in 1..(n - 1) : place[t] = c[j] /\ key[c[j]] <= key[e] /\ key[e] <= key[c[j + 1]]
      BY <1>4, <1>7 DEF AtYield, e
    <2> DEFINE i == j + 1
    <2>2. i \in 1..(n + 1) /\ i - 1 = j /\ i - 1 \in 1..n /\ i \in 1..n
      OBVIOUS
    <2>3. Joins(c, n, i, e)
      BY <1>3, <1>7, <2>1, LinksJoin
    <2> HIDE DEF i
    <2>4. Fits(c, n, i, e)
      <3>1. key[c[i - 1]] <= key[e] /\ key[e] <= key[c[i]]
        BY <2>1, <2>2 DEF i
      <3> QED
        BY <1>2, <3>1 DEF Fits
    <2> QED
      BY <1>3, <2>2, <2>3, <2>4, JoinEnds
  <1> QED
    BY <1>5, <1>6, <1>7 DEF InsertResume, Go, e

\* The second half of Remove, of the first element.
LEMMA RestKeeps ==
    ASSUME ListTypeOK, ListLock, SomeChain, NEW t \in Thread, NEW here, NEW e,
           pc[t] \in {"remove", "remFirst"}, ~IsEmpty, e = first, RemoveRest(t, e, here)
    PROVE  SomeChain'
  <1>n. PICK n \in Nat : \E c \in [1..n -> Elem] : ChainAt(c, n)
    BY DEF SomeChain
  <1>1. PICK c \in [1..n -> Elem] : ChainAt(c, n)
    BY <1>n
  <1>2. Whole(c, n) /\ pc[t] \in ListInside
    BY <1>1, HolderFinds DEF ListInside, Linking
  <1>3. n # 0 /\ e = c[1] /\ (first = last <=> n = 1)
    <2>1. n # 0 /\ first = c[1] /\ last = c[n] /\ 1 \in 1..n /\ n \in 1..n
      BY <1>2 DEF Whole, Chained, IsEmpty
    <2>2. c[1] = c[n] => 1 = n
      BY <1>2, <2>1 DEF Whole, Chained
    <2> QED
      BY <2>1, <2>2
  <1>4. ASSUME pc' = [pc EXCEPT ![t] = "free"], RemoveReturn(t, e),
               (first = last /\ UnlinkOnly(e)) \/ (first # last /\ UnlinkFirst(e))
        PROVE  SomeChain'
    <2>1. IF n = 1 THEN UnlinkOnly(c[1]) ELSE UnlinkFirst(c[1])
      BY <1>3, <1>4
    <2>2. SomeWhole'
      BY <1>2, <1>3, <1>4, <2>1, LeaveEnds
    <2> QED
      BY <1>2, <1>4, <2>2, EndKeeps DEF Busy, Linking
  <1>5. ASSUME first # last, pc' = [pc EXCEPT ![t] = "remNext"], element' = [element EXCEPT ![t] = e],
               UNCHANGED <<first, last, next, prev, key, live>>
        PROVE  SomeChain'
    <2>1. Chained(c, n)' /\ Blank' /\ live' = Elems(c, n)
      BY <1>2, <1>5 DEF Whole, Chained, Blank
    <2>2. pc'[t] = "remNext" /\ element'[t] = c[1] /\ n > 1
      BY <1>3, <1>5 DEF ListLock, ListTypeOK
    <2>3. AtYield(t, c, n)'
      BY <2>2 DEF AtYield, Linking
    <2>4. \A u \in Thread : u # t => pc'[u] \notin Busy
      BY <1>2, <1>5 DEF ListLock, ListInside, Busy, Linking
    <2>5. \A u \in Thread : u # t => AtYield(u, c, n)'
      BY <2>4 DEF AtYield, Busy, Linking
    <2>6. ChainAt(c, n)'
      BY <2>1, <2>3, <2>5 DEF ChainAt
    <2> QED
      BY <2>6 DEF SomeChain
  <1> QED
    BY <1>4, <1>5 DEF RemoveRest, Go

\* Remove up to its yield, or all of it.
LEMMA RemoveKeeps ==
    ASSUME ListTypeOK, ListLock, SomeChain, NEW t \in Thread, Remove(t)
    PROVE  SomeChain'
  <1>0. pc[t] = "remove" /\ ~IsEmpty
    BY DEF Remove, RemoveRest, Go
  <1>1. CASE RemoveRest(t, first, "remove")
    BY <1>0, <1>1, RestKeeps
  <1>2. CASE /\ Go(t, "remove", "remFirst")
             /\ element' = [element EXCEPT ![t] = first]
             /\ UNCHANGED <<first, last, next, prev, key, live>>
    <2>n. PICK n \in Nat : \E c \in [1..n -> Elem] : ChainAt(c, n)
      BY DEF SomeChain
    <2>1. PICK c \in [1..n -> Elem] : ChainAt(c, n)
      BY <2>n
    <2>2. Whole(c, n) /\ pc[t] \in ListInside
      BY <1>0, <2>1, HolderFinds DEF ListInside, Linking
    <2>3. Chained(c, n)' /\ Blank' /\ live' = Elems(c, n)
      BY <1>2, <2>2 DEF Whole, Chained, Blank
    <2>4. n # 0 /\ first = c[1]
      BY <1>0, <2>2 DEF Whole, Chained, IsEmpty
    <2>5. pc'[t] = "remFirst" /\ element'[t] = c[1]
      BY <1>2, <2>4 DEF Go, ListLock, ListTypeOK
    <2>6. AtYield(t, c, n)'
      BY <2>4, <2>5 DEF AtYield, Linking
    <2>7. \A u \in Thread : u # t => pc'[u] \notin Busy
      BY <1>2, <2>2 DEF Go, ListLock, ListInside, Busy, Linking
    <2>8. \A u \in Thread : u # t => AtYield(u, c, n)'
      BY <2>7 DEF AtYield, Busy, Linking
    <2>9. ChainAt(c, n)'
      BY <2>3, <2>6, <2>8 DEF ChainAt
    <2> QED
      BY <2>9 DEF SomeChain
  <1> QED
    BY <1>1, <1>2 DEF Remove

\* Remove from its yield on.
LEMMA RemoveResumeKeeps ==
    ASSUME ListTypeOK, ListLock, SomeChain, NEW t \in Thread, RemoveResume(t)
    PROVE  SomeChain'
  <1>n. PICK n \in Nat : \E c \in [1..n -> Elem] : ChainAt(c, n)
    BY DEF SomeChain
  <1>1. PICK c \in [1..n -> Elem] : ChainAt(c, n)
    BY <1>n
  <1>2. pc[t] \in {"remFirst", "remNext"}
    BY DEF RemoveResume, RemoveRest, Go
  <1>3. Whole(c, n) /\ pc[t] \in ListInside /\ AtYield(t, c, n)
    <2>1. pc[t] \in ListInside /\ pc[t] \notin Linking
      BY <1>2 DEF ListInside, Linking
    <2> QED
      BY <1>1, <2>1, HolderFinds DEF ChainAt
  <1>4. /\ n # 0 /\ element[t] = c[1] /\ first = c[1] /\ c[1] # NULL
        /\ pc[t] = "remNext" => n > 1
    BY <1>2, <1>3, ListAssumption DEF AtYield, Whole, Chained
  <1>5. CASE RemoveRest(t, element[t], "remFirst")
    <2>1. pc[t] = "remFirst" /\ ~IsEmpty
      BY <1>4, <1>5 DEF RemoveRest, Go, IsEmpty
    <2> QED
      BY <1>4, <1>5, <2>1, RestKeeps
  <1>6. CASE Go(t, "remNext", "free") /\ UnlinkFirst(element[t]) /\ RemoveReturn(t, element[t])
    <2>1. n # 1 /\ UnlinkFirst(c[1]) /\ RemoveReturn(t, c[1])
      BY <1>4, <1>6 DEF Go
    <2>2. SomeWhole'
      BY <1>3, <1>4, <2>1, LeaveEnds
    <2> QED
      BY <1>3, <1>6, <2>2, EndKeeps DEF Go, Busy, Linking
  <1> QED
    BY <1>5, <1>6 DEF RemoveResume

\* Every step of the list's threads keeps its variables in their sets ...
LEMMA ListTypeKept ==
    ASSUME ListTypeOK, ListLock, SomeChain, ListNext
    PROVE  ListTypeOK'
  <1>1. PICK t \in Thread :
          \/ InsertCall(t) \/ Insert(t) \/ InsertResume(t) \/ InsertReturn(t)
          \/ StartRemoving(t) \/ RemoveEnd(t) \/ RemoveTest(t) \/ RemoveCall(t)
          \/ RemoveEmpty(t) \/ Remove(t) \/ RemoveResume(t)
    BY DEF ListNext
  <1>2. /\ err_type \in 0..5 /\ first \in Pointer /\ last \in Pointer
        /\ next \in [Elem -> Pointer] /\ prev \in [Elem -> Pointer] /\ key \in [Elem -> Key]
        /\ live \subseteq Elem
        /\ element \in [Thread -> Pointer] /\ place \in [Thread -> Pointer]
        /\ inserted \in [Thread -> 0..NumInsert] /\ removed \in [Thread -> 0..NumRemove]
        /\ NULL \in Pointer /\ Elem \subseteq Pointer /\ NumInsert \in Nat /\ NumRemove \in Nat
        /\ (CHOOSE k \in Key : TRUE) \in Key
    BY ListAssumption DEF ListTypeOK, Pointer
  <1>f. /\ pc[t] = "insMiddle" => place[t] \in Elem
        /\ pc[t] \in {"remFirst", "remNext"} => first # NULL
    <2>n. PICK n \in Nat : \E c \in [1..n -> Elem] : ChainAt(c, n)
      BY DEF SomeChain
    <2>1. PICK c \in [1..n -> Elem] : ChainAt(c, n)
      BY <2>n
    <2>2. Chained(c, n) /\ AtYield(t, c, n)
      BY <2>1 DEF ChainAt
    <2>3. pc[t] = "insMiddle" => \E j \in 1..(n - 1) : place[t] = c[j]
      BY <2>2 DEF AtYield
    <2>4. pc[t] \in {"remFirst", "remNext"} => n # 0
      BY <2>2 DEF AtYield
    <2>5. n # 0 => first = c[1] /\ c[1] \in Elem
      BY <2>2 DEF Chained
    <2> QED
      BY <2>3, <2>4, <2>5, ListAssumption
  <1>3. CASE UNCHANGED listVars
    BY <1>3 DEF ListTypeOK, listVars
  <1>4. CASE Insert(t)
    <2> DEFINE e == CHOOSE x \in Elem \ live : TRUE
    <2>1. PICK k \in Key : New(k, e) /\ (InsertNow(t, e, k) \/ InsertYields(t, e, k))
      BY <1>4 DEF Insert
    <2>2. e \in Elem
      BY <1>4, NewElement DEF Insert
    <2> HIDE DEF e
    <2>3. live' \subseteq Elem /\ key' \in [Elem -> Key]
      BY <1>2, <2>1, <2>2 DEF New
    <2>4. CASE InsertNow(t, e, k)
      <3>1. err_type' = err_type /\ inserted' = inserted /\ removed' = removed
            /\ element' \in [Thread -> Pointer] /\ place' \in [Thread -> Pointer]
        BY <1>2, <2>4 DEF InsertNow, InsertSignal
      <3>2. LinkOnly(e) \/ LinkFront(e) \/ \E p \in live : LinkMiddle(e, p) \/ LinkEnd(e, p)
        BY <2>4 DEF InsertNow
      <3>3. /\ first' \in Pointer /\ last' \in Pointer
            /\ next' \in [Elem -> Pointer] /\ prev' \in [Elem -> Pointer]
        BY <1>2, <2>2, <3>2 DEF LinkOnly, LinkFront, LinkMiddle, LinkEnd
      <3> QED
        BY <1>2, <2>3, <3>1, <3>3 DEF ListTypeOK
    <2>5. CASE InsertYields(t, e, k)
      <3>1. /\ err_type' = err_type /\ inserted' = inserted /\ removed' = removed
            /\ first' = first /\ last' = last /\ prev' = prev
            /\ element' = [element EXCEPT ![t] = e]
        BY <2>5 DEF InsertYields
      <3>2. next' \in [Elem -> Pointer] /\ place' \in [Thread -> Pointer]
        BY <1>2, <2>5 DEF InsertYields
      <3> QED
        BY <1>2, <2>2, <2>3, <3>1, <3>2 DEF ListTypeOK
    <2> QED
      BY <2>1, <2>4, <2>5
  <1>5. CASE InsertResume(t)
    <2>1. /\ err_type' = err_type /\ inserted' = inserted /\ removed' = removed
          /\ element' \in [Thread -> Pointer] /\ place' \in [Thread -> Pointer]
          /\ key' = key /\ live' = live
      BY <1>2, <1>5 DEF InsertResume, InsertSignal
    <2>2. element[t] \in Pointer
      BY <1>2
    <2>3. \/ LinkOnly(element[t]) \/ LinkFront(element[t])
          \/ LinkMiddle(element[t], place[t]) /\ place[t] \in Elem
      BY <1>5, <1>f DEF InsertResume, Go
    <2>5. /\ first' \in Pointer /\ last' \in Pointer
          /\ next' \in [Elem -> Pointer] /\ prev' \in [Elem -> Pointer]
      <3>1. CASE LinkOnly(element[t])
        BY <1>2, <2>2, <3>1 DEF LinkOnly
      <3>2. CASE LinkFront(element[t])
        BY <1>2, <2>2, <3>2 DEF LinkFront
      <3>3. CASE LinkMiddle(element[t], place[t]) /\ place[t] \in Elem
        BY <1>2, <2>2, <3>3 DEF LinkMiddle
      <3> QED
        BY <2>3, <3>1, <3>2, <3>3
    <2> QED
      BY <1>2, <2>1, <2>5 DEF ListTypeOK
  <1>6. CASE InsertReturn(t)
    BY <1>2, <1>6 DEF InsertReturn, Go, ListLock, ListTypeOK
  <1>7. CASE RemoveEmpty(t)
    BY <1>2, <1>7 DEF RemoveEmpty, Go, ListLock, ListTypeOK
  <1>8. ASSUME pc[t] \in {"remove", "remFirst", "remNext"}, NEW e \in Pointer,
               RemoveReturn(t, e), UnlinkFirst(e) \/ UnlinkOnly(e), first # NULL
        PROVE  ListTypeOK'
    <2>1. err_type' = err_type /\ inserted' = inserted /\ place' = place
          /\ element' \in [Thread -> Pointer] /\ live' \subseteq Elem
          /\ key' \in [Elem -> Key] /\ next' \in [Elem -> Pointer]
      BY <1>2, <1>8 DEF RemoveReturn
    <2>2. removed' \in [Thread -> 0..NumRemove]
      BY <1>2, <1>8 DEF RemoveReturn, ListLock
    <2>3. next[first] \in Pointer
      BY <1>2, <1>8 DEF Pointer
    <2>4. first' \in Pointer /\ last' \in Pointer /\ prev' \in [Elem -> Pointer]
      BY <1>2, <1>8, <2>3 DEF UnlinkFirst, UnlinkOnly
    <2> QED
      BY <1>2, <2>1, <2>2, <2>4 DEF ListTypeOK
  <1>9. ASSUME NEW e \in Pointer, element' = [element EXCEPT ![t] = e],
               UNCHANGED <<err_type, first, last, next, prev, key, live, place, inserted, removed>>
        PROVE  ListTypeOK'
    BY <1>2, <1>9 DEF ListTypeOK
  <1>10. ASSUME NEW e \in Pointer, NEW here \in {"remove", "remFirst"}, RemoveRest(t, e, here), first # NULL
         PROVE  ListTypeOK'
    <2>1. pc[t] \in {"remove", "remFirst", "remNext"}
      BY <1>10 DEF RemoveRest, Go
    <2> QED
      BY <1>8, <1>9, <1>10, <2>1 DEF RemoveRest
  <1>11. CASE Remove(t)
    <2>1. CASE ~IsEmpty /\ RemoveRest(t, first, "remove")
      BY <1>2, <1>10, <2>1 DEF IsEmpty
    <2>2. CASE /\ element' = [element EXCEPT ![t] = first]
               /\ UNCHANGED <<err_type, first, last, next, prev, key, live, place, inserted, removed>>
      BY <1>2, <1>9, <2>2
    <2> QED
      BY <1>11, <2>1, <2>2 DEF Remove
  <1>12. CASE RemoveResume(t)
    <2>1. first # NULL /\ element[t] \in Pointer
      BY <1>2, <1>12, <1>f DEF RemoveResume, RemoveRest, Go
    <2>2. CASE RemoveRest(t, element[t], "remFirst")
      BY <1>10, <2>1, <2>2
    <2>3. CASE Go(t, "remNext", "free") /\ UnlinkFirst(element[t]) /\ RemoveReturn(t, element[t])
      BY <1>8, <2>1, <2>3 DEF Go
    <2> QED
      BY <1>12, <2>2, <2>3 DEF RemoveResume
  <1> QED
    BY <1>1, <1>3, <1>4, <1>5, <1>6, <1>7, <1>11, <1>12
       DEF InsertCall, StartRemoving, RemoveEnd, RemoveTest, RemoveCall

\* ... the lock with its holder, ...
LEMMA ListLockKept ==
    ASSUME ListTypeOK, ListLock, ListNext
    PROVE  ListLock'
  <1>1. PICK t \in Thread :
          \/ InsertCall(t) \/ Insert(t) \/ InsertResume(t) \/ InsertReturn(t)
          \/ StartRemoving(t) \/ RemoveEnd(t) \/ RemoveTest(t) \/ RemoveCall(t)
          \/ RemoveEmpty(t) \/ Remove(t) \/ RemoveResume(t)
    BY DEF ListNext
  <1>2. /\ inserted \in [Thread -> 0..NumInsert] /\ removed \in [Thread -> 0..NumRemove]
        /\ NumInsert \in Nat /\ NumRemove \in Nat
        /\ pc[t] \in {"insert", "signalled"} \cup Linking => inserted[t] < NumInsert
        /\ pc[t] \in {"toRemove", "remove", "remFirst", "remNext"} => removed[t] < NumRemove
    BY ListAssumption DEF ListTypeOK, ListLock
  <1>3. ASSUME NEW b \in ListInside \cup {"toRemove"}, pc' = [pc EXCEPT ![t] = b],
               \/ holder = NoThread /\ holder' = t
               \/ holder' = holder /\ (pc[t] \in ListInside \/ b = "toRemove"),
               inserted' = inserted, removed' = removed,
               b \in {"insert", "signalled"} \cup Linking => inserted[t] < NumInsert,
               b \in {"toRemove", "remove", "remFirst", "remNext"} => removed[t] < NumRemove
        PROVE  ListLock'
    <2>1. b \in ListPC /\ (b = "toRemove" => b \notin ListInside)
      BY DEF ListPC, ListInside
    <2> QED
      BY <1>3, <2>1, LockKept
  <1>4. ASSUME NEW b \in {"out", "free", "done"}, pc' = [pc EXCEPT ![t] = b],
               holder' = holder \/ pc[t] \in ListInside,
               \A u \in Thread \ {t} : inserted'[u] = inserted[u] /\ removed'[u] = removed[u]
        PROVE  ListLock'
    <2>1. /\ b \in ListPC /\ b \notin ListInside /\ b \notin {"insert", "signalled"} \cup Linking
          /\ b \notin {"toRemove", "remove", "remFirst", "remNext"}
      BY DEF ListPC, ListInside, Linking
    <2> QED
      BY <1>4, <2>1, LockKept
  <1>5. CASE InsertCall(t)
    BY <1>3, <1>5 DEF InsertCall, Go, Acquire, listVars, ListInside, Linking
  <1>6. CASE Insert(t)
    <2>1. PICK b \in {"signalled"} \cup Linking : pc' = [pc EXCEPT ![t] = b]
      BY <1>6 DEF Insert, InsertNow, InsertYields, Go, Linking
    <2>2. pc[t] = "insert" /\ holder' = holder /\ inserted' = inserted /\ removed' = removed
      BY <1>6 DEF Insert, InsertNow, InsertYields, InsertSignal
    <2> QED
      BY <1>2, <1>3, <2>1, <2>2 DEF ListInside, Linking
  <1>7. CASE InsertResume(t)
    <2>1. pc[t] \in Linking /\ pc' = [pc EXCEPT ![t] = "signalled"]
      BY <1>7 DEF InsertResume, Go, Linking
    <2>2. holder' = holder /\ inserted' = inserted /\ removed' = removed
      BY <1>7 DEF InsertResume, InsertSignal
    <2> QED
      BY <1>2, <1>3, <2>1, <2>2 DEF ListInside, Linking
  <1>8. CASE InsertReturn(t)
    <2>1. pc[t] \in ListInside /\ pc' = [pc EXCEPT ![t] = "out"]
      BY <1>8 DEF InsertReturn, Go, ListInside
    <2>2. \A u \in Thread \ {t} : inserted'[u] = inserted[u] /\ removed'[u] = removed[u]
      BY <1>2, <1>8 DEF InsertReturn
    <2> QED
      BY <1>4, <2>1, <2>2
  <1>9. CASE StartRemoving(t) \/ RemoveEnd(t)
    <2>1. \E b \in {"free", "done"} : pc' = [pc EXCEPT ![t] = b]
      BY <1>9 DEF StartRemoving, RemoveEnd, Go
    <2>2. holder' = holder /\ inserted' = inserted /\ removed' = removed
      BY <1>9 DEF StartRemoving, RemoveEnd, listVars
    <2> QED
      BY <1>4, <2>1, <2>2
  <1>10. CASE RemoveTest(t) \/ RemoveCall(t)
    <2>1. /\ removed[t] < NumRemove /\ inserted' = inserted /\ removed' = removed
          /\ \/ pc' = [pc EXCEPT ![t] = "remove"] /\ holder = NoThread /\ holder' = t
             \/ pc' = [pc EXCEPT ![t] = "toRemove"] /\ holder' = holder
      BY <1>2, <1>10 DEF RemoveTest, RemoveCall, Go, Acquire, listVars
    <2>2. CASE pc' = [pc EXCEPT ![t] = "remove"] /\ holder = NoThread /\ holder' = t
      BY <1>3, <2>1, <2>2 DEF ListInside, Linking
    <2>3. CASE pc' = [pc EXCEPT ![t] = "toRemove"] /\ holder' = holder
      BY <1>3, <2>1, <2>3 DEF ListInside, Linking
    <2> QED
      BY <2>1, <2>2, <2>3
  <1>11. CASE RemoveEmpty(t)
    <2>1. pc[t] \in ListInside /\ pc' = [pc EXCEPT ![t] = "free"]
      BY <1>11 DEF RemoveEmpty, Go, ListInside
    <2>2. \A u \in Thread \ {t} : inserted'[u] = inserted[u] /\ removed'[u] = removed[u]
      BY <1>2, <1>11 DEF RemoveEmpty
    <2> QED
      BY <1>4, <2>1, <2>2
  <1>12. ASSUME pc[t] \in {"remove", "remFirst", "remNext"}, NEW e,
                pc' = [pc EXCEPT ![t] = "free"], RemoveReturn(t, e)
         PROVE  ListLock'
    <2>1. \A u \in Thread \ {t} : inserted'[u] = inserted[u] /\ removed'[u] = removed[u]
      BY <1>2, <1>12 DEF RemoveReturn
    <2> QED
      BY <1>4, <1>12, <2>1 DEF ListInside
  <1>13. ASSUME pc[t] \in {"remove", "remFirst", "remNext"}, NEW b \in {"remFirst", "remNext"},
                pc' = [pc EXCEPT ![t] = b], holder' = holder, inserted' = inserted, removed' = removed
         PROVE  ListLock'
    BY <1>2, <1>3, <1>13 DEF ListInside, Linking
  <1>14. ASSUME NEW e, NEW here \in {"remove", "remFirst"}, RemoveRest(t, e, here) PROVE ListLock'
    BY <1>12, <1>13, <1>14 DEF RemoveRest, Go
  <1>15. CASE Remove(t)
    <2>1. \/ RemoveRest(t, first, "remove")
          \/ /\ pc[t] = "remove" /\ pc' = [pc EXCEPT ![t] = "remFirst"]
             /\ holder' = holder /\ inserted' = inserted /\ removed' = removed
      BY <1>15 DEF Remove, Go
    <2> QED
      BY <1>13, <1>14, <2>1
  <1>16. CASE RemoveResume(t)
    BY <1>12, <1>14, <1>16 DEF RemoveResume, Go
  <1> QED
    BY <1>1, <1>5, <1>6, <1>7, <1>8, <1>9, <1>10, <1>11, <1>15, <1>16

\* ... and the chain.
LEMMA ChainKept ==
    ASSUME ListTypeOK, ListLock, SomeChain, ListNext
    PROVE  SomeChain'
  <1>1. PICK t \in Thread :
          \/ InsertCall(t) \/ Insert(t) \/ InsertResume(t) \/ InsertReturn(t)
          \/ StartRemoving(t) \/ RemoveEnd(t) \/ RemoveTest(t) \/ RemoveCall(t)
          \/ RemoveEmpty(t) \/ Remove(t) \/ RemoveResume(t)
    BY DEF ListNext
  <1>2. CASE \/ InsertCall(t) \/ InsertReturn(t) \/ StartRemoving(t) \/ RemoveEnd(t)
             \/ RemoveTest(t) \/ RemoveCall(t) \/ RemoveEmpty(t)
    <2>1. UNCHANGED <<first, last, next, prev, key, live, element, place>>
      BY <1>2 DEF InsertCall, InsertReturn, StartRemoving, RemoveEnd, RemoveTest, RemoveCall,
                  RemoveEmpty, listVars
    <2>2. pc[t] \notin Busy
      BY <1>2 DEF InsertCall, InsertReturn, StartRemoving, RemoveEnd, RemoveTest, RemoveCall,
                  RemoveEmpty, Go, Busy, Linking
    <2>3. \E b \in {"insert", "out", "free", "done", "remove", "toRemove"} : pc' = [pc EXCEPT ![t] = b]
      BY <1>2 DEF InsertCall, InsertReturn, StartRemoving, RemoveEnd, RemoveTest, RemoveCall,
                  RemoveEmpty, Go
    <2>4. PICK b : b \notin Busy /\ pc' = [pc EXCEPT ![t] = b]
      BY <2>3 DEF Busy, Linking
    <2> QED
      BY <2>1, <2>2, <2>4, QuietKeeps
  <1>3. CASE Insert(t)
    <2> DEFINE e == CHOOSE x \in Elem \ live : TRUE
    <2>1. PICK k \in Key : New(k, e) /\ (InsertNow(t, e, k) \/ InsertYields(t, e, k))
      BY <1>3 DEF Insert
    <2>2. pc[t] = "insert" /\ e \in Elem \ live
      BY <1>3, NewElement DEF Insert
    <2> HIDE DEF e
    <2>3. CASE InsertNow(t, e, k)
      <3>1. SomeWhole'
        BY <2>1, <2>2, <2>3, InsertNowKeeps
      <3>2. pc' = [pc EXCEPT ![t] = "signalled"]
        BY <2>3 DEF InsertNow, Go
      <3> QED
        BY <2>2, <3>1, <3>2, EndKeeps DEF ListInside, Busy, Linking
    <2>4. CASE InsertYields(t, e, k)
      BY <2>1, <2>2, <2>4, InsertYieldsKeeps
    <2> QED
      BY <2>1, <2>3, <2>4
  <1>4. CASE InsertResume(t)
    <2>1. SomeWhole'
      BY <1>4, ResumeKeeps
    <2>2. pc[t] \in ListInside /\ pc' = [pc EXCEPT ![t] = "signalled"]
      BY <1>4 DEF InsertResume, Go, ListInside
    <2> QED
      BY <2>1, <2>2, EndKeeps DEF Busy, Linking
  <1>5. CASE Remove(t)
    BY <1>5, RemoveKeeps
  <1>6. CASE RemoveResume(t)
    BY <1>6, RemoveResumeKeeps
  <1> QED
    BY <1>1, <1>2, <1>3, <1>4, <1>5, <1>6

\* The three facts of the induction.
LEMMA DLInvInit == Init => DLInv
  <1> SUFFICES ASSUME Init PROVE DLInv
    OBVIOUS
  <1>1. UserInit /\ testnum \in 2..4 /\ ListInit
    BY DEF Init
  <1>2. ListTypeOK
    BY <1>1, ListAssumption DEF ListInit, ListTypeOK, Pointer
  <1>3. first = NULL /\ last = NULL /\ live = {}
    BY <1>1 DEF ListInit
  <1>4. ListLock
    BY <1>1 DEF UserInit, ListLock, ListPC, ListInside, Linking
  <1>5. SomeChain
    <2> DEFINE c == [i \in 1..0 |-> NULL]
               n == 0
    <2>1. n \in Nat /\ c \in [1..n -> Elem]
      OBVIOUS
    <2>2. Chained(c, n) /\ Elems(c, n) = {} /\ Blank
      BY <1>1 DEF ListInit, Chained, Elems, Blank
    <2>3. \A t \in Thread : AtYield(t, c, n)
      BY <1>1 DEF UserInit, AtYield, Linking
    <2>4. ChainAt(c, n)
      BY <1>3, <2>2, <2>3 DEF ChainAt
    <2> HIDE DEF c, n
    <2> QED
      BY <2>1, <2>4 DEF SomeChain
  <1> QED
    BY <1>2, <1>3, <1>4, <1>5 DEF DLInv

LEMMA DLInvNext == DLInv /\ [Next]_vars => DLInv'
  <1> SUFFICES ASSUME DLInv, [Next]_vars PROVE DLInv'
    OBVIOUS
  <1>1. CASE ThreadTest2
    <2>1. testnum = 2 /\ testnum' = 2 /\ ListNext
      BY <1>1 DEF ThreadTest2
    <2>2. ListTypeOK /\ ListLock /\ SomeChain
      BY <2>1 DEF DLInv
    <2>3. ListTypeOK' /\ ListLock' /\ SomeChain'
      BY <2>1, <2>2, ListTypeKept, ListLockKept, ChainKept
    <2> QED
      BY <2>1, <2>3 DEF DLInv
  <1>2. CASE ThreadTest3 \/ ThreadTest4
    <2>1. testnum # 2 /\ testnum' = testnum /\ UNCHANGED listVars
      BY <1>2 DEF ThreadTest3, ThreadTest4
    <2>2. ListTypeOK'
      BY <2>1 DEF DLInv, ListTypeOK, listVars
    <2> QED
      BY <2>1, <2>2 DEF DLInv, listVars
  <1>3. CASE UNCHANGED vars
    <2>1. UNCHANGED <<testnum, holder, pc>> /\ UNCHANGED listVars
      BY <1>3 DEF vars, userVars
    <2>2. ListTypeOK'
      BY <2>1 DEF DLInv, ListTypeOK, listVars
    <2>3. ASSUME ListLock PROVE ListLock'
      BY <2>1, <2>3 DEF ListLock, listVars
    <2>4. ASSUME SomeChain PROVE SomeChain'
      <3>1. UNCHANGED <<pc, first, last, next, prev, key, live, element, place>>
        BY <2>1 DEF listVars
      <3>n. PICK n \in Nat : \E c \in [1..n -> Elem] : ChainAt(c, n)
        BY <2>4 DEF SomeChain
      <3>2. PICK c \in [1..n -> Elem] : ChainAt(c, n)
        BY <3>n
      <3>3. Chained(c, n)' /\ Blank'
        BY <3>1, <3>2 DEF ChainAt, Chained, Blank
      <3>4. (\A t \in Thread : pc'[t] \notin Linking) => live' = Elems(c, n)
        BY <3>1, <3>2 DEF ChainAt
      <3>5. ASSUME NEW t \in Thread PROVE AtYield(t, c, n)'
        BY <3>1, <3>2 DEF ChainAt, AtYield
      <3>6. ChainAt(c, n)'
        BY <3>3, <3>4, <3>5 DEF ChainAt, Elems
      <3> QED
        BY <3>6 DEF SomeChain
    <2> QED
      BY <2>1, <2>2, <2>3, <2>4 DEF DLInv, listVars
  <1> QED
    BY <1>1, <1>2, <1>3 DEF Next

\* A chain of all the elements is an intact list.
LEMMA ChainIsIntact ==
    ASSUME ListTypeOK, NEW n \in Nat, NEW c \in [1..n -> Elem], Chained(c, n), live = Elems(c, n)
    PROVE  ListIntact
  <1>1. live = Walk[Cardinality(Elem)]
    BY WalkIs
  <1>2. /\ NULL \notin Elem
        /\ \A j \in 1..n : c[j] \in Elem /\ c[j] \in live
        /\ first = IF n = 0 THEN NULL ELSE c[1]
        /\ last = IF n = 0 THEN NULL ELSE c[n]
        /\ \A j \in 1..n : next[c[j]] = IF j = n THEN NULL ELSE c[j + 1]
        /\ \A j \in 1..n : prev[c[j]] = IF j = 1 THEN NULL ELSE c[j - 1]
        /\ \A j \in 1..n : j > 1 => key[c[j - 1]] <= key[c[j]]
    BY ListAssumption DEF Chained, Elems
  <1>3. first = NULL <=> last = NULL
    BY <1>2
  <1>4. ASSUME ~IsEmpty PROVE {first, last} \subseteq live /\ prev[first] = NULL /\ next[last] = NULL
    <2>1. n # 0 /\ 1 \in 1..n /\ n \in 1..n
      BY <1>2, <1>4 DEF IsEmpty
    <2> QED
      BY <1>2, <2>1
  <1>5. ASSUME NEW e \in live
        PROVE  /\ e = last \/ (next[e] \in live /\ prev[next[e]] = e /\ key[e] <= key[next[e]])
               /\ e = first \/ (prev[e] \in live /\ next[prev[e]] = e)
    <2>1. PICK j \in 1..n : e = c[j]
      BY DEF Elems
    <2>2. ASSUME j # n PROVE next[e] \in live /\ prev[next[e]] = e /\ key[e] <= key[next[e]]
      <3>1. j + 1 \in 1..n /\ next[e] = c[j + 1] /\ j + 1 > 1 /\ (j + 1) - 1 = j
        BY <1>2, <2>1, <2>2
      <3>2. prev[c[j + 1]] = c[(j + 1) - 1] /\ key[c[(j + 1) - 1]] <= key[c[j + 1]]
        BY <1>2, <3>1
      <3> QED
        BY <1>2, <2>1, <3>1, <3>2
    <2>3. ASSUME j # 1 PROVE prev[e] \in live /\ next[prev[e]] = e
      <3>1. j - 1 \in 1..n /\ prev[e] = c[j - 1] /\ j - 1 # n /\ (j - 1) + 1 = j
        BY <1>2, <2>1, <2>3
      <3>2. next[c[j - 1]] = c[(j - 1) + 1]
        BY <1>2, <3>1
      <3> QED
        BY <1>2, <2>1, <3>1, <3>2
    <2>4. (j = n => e = last) /\ (j = 1 => e = first)
      BY <1>2, <2>1
    <2> QED
      BY <2>2, <2>3, <2>4
  <1> QED
    BY <1>1, <1>3, <1>4, <1>5 DEF ListIntact

\* What the invariant is for.
LEMMA DLInvImplies == DLInv => ListIntact
  <1> SUFFICES ASSUME DLInv PROVE ListIntact
    OBVIOUS
  <1>1. ListTypeOK
    BY DEF DLInv
  <1>2. CASE testnum = 2 /\ \A t \in Thread : ~InOperation(t)
    <2>n. PICK n \in Nat : \E c \in [1..n -> Elem] : ChainAt(c, n)
      BY <1>2 DEF DLInv, SomeChain
    <2>1. PICK c \in [1..n -> Elem] : ChainAt(c, n)
      BY <2>n
    <2>2. \A t \in Thread : pc[t] \notin Linking
      BY <1>2 DEF InOperation, Linking
    <2>3. Chained(c, n) /\ live = Elems(c, n)
      BY <2>1, <2>2 DEF ChainAt
    <2> QED
      BY <1>1, <2>3, ChainIsIntact
  <1>3. CASE testnum # 2
    <2> DEFINE c == [i \in 1..0 |-> NULL]
               n == 0
    <2>1. n \in Nat /\ c \in [1..n -> Elem]
      OBVIOUS
    <2>2. Chained(c, n) /\ live = Elems(c, n)
      BY <1>3 DEF DLInv, Chained, Elems
    <2> HIDE DEF c, n
    <2> QED
      BY <1>1, <2>1, <2>2, ChainIsIntact
  <1>4. CASE ~(\A t \in Thread : ~InOperation(t))
    BY <1>1, <1>4 DEF ListIntact
  <1> QED
    BY <1>2, <1>3, <1>4

(***************************************************************************)
(* Whatever err_type, whoever yields in the middle of an operation and     *)
(* whoever wants the lock meanwhile: when nobody is in the middle of one,  *)
(* the walk from first finds exactly the elements that exist, linked both  *)
(* ways and sorted (dllist.cc).                                            *)
(***************************************************************************)
THEOREM ListCorrect == Spec => []ListIntact
  <1>1. Spec => []DLInv
    BY DLInvInit, DLInvNext, PTL DEF Spec
  <1> QED
    BY <1>1, DLInvImplies, PTL
=============================================================================
