---------------------------- MODULE BoundedBuffer ----------------------------
(***************************************************************************)
(* Lab 2's bounded buffer (2/BoundedBuffer.cc): a ring of buffersize bytes *)
(* that any number of threads Read and Write, any number of bytes at a     *)
(* time.  A call that has to wait in the middle lets others in.            *)
(***************************************************************************)
EXTENDS LockUser, Integers, Sequences

CONSTANTS
    buffersize,
    Byte        \* the values a byte may have

ASSUME BufferAssumption == buffersize \in Nat \ {0}

VARIABLES
    buffer, in, out, hav,
    full, empty,    \* the threads asleep on each condition
    byte            \* the byte each thread has copied, *(w++) or *(r++)

bufferVars == <<buffer, in, out, hav, full, empty, byte>>

\* writing      in Write, before the test of the loop
\* written      after buffer[in] = *(w++), in Yield()
\* waitFull     in full->Wait(bufflock)
\* reading, read, waitEmpty: the same in Read
BufferPC == {"out", "writing", "written", "waitFull", "reading", "read", "waitEmpty"}

BufferTypeOK ==
    /\ buffer \in [0..(buffersize - 1) -> Byte]
    /\ in \in 0..(buffersize - 1) /\ out \in 0..(buffersize - 1)
    /\ hav \in 0..buffersize
    /\ full \subseteq Thread /\ empty \subseteq Thread
    /\ byte \in [Thread -> Byte]

\* new char[maxsize] is not initialized: it holds some byte.
BufferInit ==
    /\ \E b \in Byte : buffer = [i \in 0..(buffersize - 1) |-> b]
    /\ in = 0 /\ out = 0 /\ hav = 0
    /\ full = {} /\ empty = {}
    /\ byte = [t \in Thread |-> CHOOSE b \in Byte : TRUE]

-----------------------------------------------------------------------------
WriteCall(t) ==
    /\ Go(t, "out", "writing")
    /\ Acquire(t)
    /\ UNCHANGED bufferVars

WriteWait(t) ==
    /\ hav = buffersize
    /\ Go(t, "writing", "waitFull")
    /\ full' = full \cup {t}
    /\ Release
    /\ UNCHANGED <<buffer, in, out, hav, empty, byte>>

\* A variant of Write with "if" for "while": it does not test hav again.
WriteResume_NoRetest(t) ==
    \E b \in Byte :
        /\ t \notin full
        /\ Go(t, "waitFull", "written")
        /\ Acquire(t)
        /\ buffer' = [buffer EXCEPT ![in] = b]
        /\ byte' = [byte EXCEPT ![t] = b]
        /\ UNCHANGED <<in, out, hav, full, empty>>

\* The end of full->Wait(bufflock): Acquire, and the loop tests hav again.
WriteResume(t) ==
    /\ t \notin full
    /\ Go(t, "waitFull", "writing")
    /\ Acquire(t)
    /\ UNCHANGED bufferVars

WriteByte(t) ==
    \E b \in Byte :
        /\ Go(t, "writing", "written")
        /\ hav # buffersize
        /\ buffer' = [buffer EXCEPT ![in] = b]
        /\ byte' = [byte EXCEPT ![t] = b]
        /\ UNCHANGED <<holder, in, out, hav, full, empty>>

\* A variant of Write that wakes nobody.
WriteAdvance_NoBroadcast(t) ==
    /\ Go(t, "written", "writing")
    /\ in' = (in + 1) % buffersize
    /\ hav' = hav + 1
    /\ UNCHANGED <<holder, buffer, out, full, empty, byte>>

WriteAdvance(t) ==
    /\ Go(t, "written", "writing")
    /\ in' = (in + 1) % buffersize
    /\ hav' = hav + 1
    /\ empty' = {}
    /\ UNCHANGED <<holder, buffer, out, full, byte>>

WriteReturn(t) ==
    /\ Go(t, "writing", "out")
    /\ Release
    /\ UNCHANGED bufferVars

-----------------------------------------------------------------------------
ReadCall(t) ==
    /\ Go(t, "out", "reading")
    /\ Acquire(t)
    /\ UNCHANGED bufferVars

ReadWait(t) ==
    /\ hav = 0
    /\ Go(t, "reading", "waitEmpty")
    /\ empty' = empty \cup {t}
    /\ Release
    /\ UNCHANGED <<buffer, in, out, hav, full, byte>>

ReadResume(t) ==
    /\ t \notin empty
    /\ Go(t, "waitEmpty", "reading")
    /\ Acquire(t)
    /\ UNCHANGED bufferVars

ReadByte(t) ==
    /\ Go(t, "reading", "read")
    /\ hav # 0
    /\ byte' = [byte EXCEPT ![t] = buffer[out]]
    /\ UNCHANGED <<holder, buffer, in, out, hav, full, empty>>

ReadAdvance(t) ==
    /\ Go(t, "read", "reading")
    /\ out' = (out + 1) % buffersize
    /\ hav' = hav - 1
    /\ full' = {}
    /\ UNCHANGED <<holder, buffer, in, empty, byte>>

ReadReturn(t) ==
    /\ Go(t, "reading", "out")
    /\ Release
    /\ UNCHANGED bufferVars

BufferNext ==
    \E t \in Thread :
        \/ WriteCall(t) \/ WriteWait(t) \/ WriteResume(t)
        \/ WriteByte(t) \/ WriteAdvance(t) \/ WriteReturn(t)
        \/ ReadCall(t) \/ ReadWait(t) \/ ReadResume(t)
        \/ ReadByte(t) \/ ReadAdvance(t) \/ ReadReturn(t)

-----------------------------------------------------------------------------
(***************************************************************************)
(* The buffer is a queue of at most buffersize bytes: each step leaves it  *)
(* alone, appends the byte that a writer has been given, or takes the      *)
(* oldest byte, which is the one its reader has copied, although both      *)
(* yield between the copy and the update of the index.                     *)
(***************************************************************************)
Stored == [i \in 1..hav |-> buffer[(out + i - 1) % buffersize]]

IsFifo ==
    [][ \/ Stored' = Stored
        \/ \E t \in Thread :
              \/ pc[t] = "written" /\ Stored' = Append(Stored, byte[t])
              \/ /\ pc[t] = "read" /\ Stored # <<>>
                 /\ byte[t] = Head(Stored) /\ Stored' = Tail(Stored)
      ]_<<bufferVars, userVars>>

(***************************************************************************)
(* The variables have their types, with hav within the buffer's size, and  *)
(* a thread sleeps only while what it waits for is not there: a reader     *)
(* while the buffer is empty, a writer while it is full.  So the two never *)
(* sleep at the same time.                                                 *)
(***************************************************************************)
NobodySleepsInVain ==
    /\ BufferTypeOK
    /\ empty # {} => hav = 0
    /\ full # {} => hav = buffersize
=============================================================================
