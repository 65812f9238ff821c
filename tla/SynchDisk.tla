------------------------------ MODULE SynchDisk ------------------------------
(***************************************************************************)
(* The synchronous disk of filesys/synchdisk.cc: ReadSector and            *)
(* WriteSector return when the request is done.  A lock keeps requests     *)
(* apart and a semaphore passes the news from the interrupt handler to the *)
(* thread.                                                                 *)
(***************************************************************************)
EXTENDS Disk, LockUser, FiniteSets

VARIABLE value      \* of the semaphore

synchDiskVars == <<diskVars, value>>

\* out      outside, or asleep in Acquire
\* locked   in ReadSector or WriteSector, after Acquire
\* asleep   in semaphore->P()
\* done     after it
SynchDiskPC == {"out", "locked", "asleep", "done"}

SynchDiskTypeOK == DiskTypeOK /\ value \in Nat

SynchDiskInit == DiskInit /\ value = 0

-----------------------------------------------------------------------------
\* A variant that starts the request without the lock.
DiskCall_Unlocked(t) ==
    /\ Go(t, "out", "locked")
    /\ UNCHANGED <<holder, synchDiskVars>>

DiskCall(t) ==
    /\ Go(t, "out", "locked")
    /\ Acquire(t)
    /\ UNCHANGED synchDiskVars

\* The request, and P up to its Sleep(): interrupts are not enabled in between.
Request(t) ==
    \E s \in Sector, writing \in BOOLEAN :
        /\ ~active
        /\ DiskRequest(s, writing)
        /\ \/ value = 0 /\ Go(t, "locked", "asleep") /\ UNCHANGED value
           \/ value > 0 /\ Go(t, "locked", "done") /\ value' = value - 1
        /\ UNCHANGED holder

\* P after its sleep.
Resume(t) ==
    /\ value > 0
    /\ Go(t, "asleep", "done")
    /\ value' = value - 1
    /\ UNCHANGED <<holder, diskVars>>

Return(t) ==
    /\ Go(t, "done", "out")
    /\ Release
    /\ UNCHANGED synchDiskVars

\* A variant whose handler only marks the disk inactive.
RequestDone_Silent ==
    /\ HandleInterrupt
    /\ UNCHANGED <<userVars, value>>

\* The interrupt: HandleInterrupt and RequestDone, which calls V.
RequestDone ==
    /\ HandleInterrupt
    /\ value' = value + 1
    /\ UNCHANGED userVars

\* A thread that enables interrupts lets time pass ...
Tick ==
    /\ ~InterruptDue
    /\ Elapse(SystemTick)
    /\ UNCHANGED <<userVars, value>>

\* ... and with all threads asleep the clock jumps to the interrupt.
Idle ==
    /\ ~InterruptDue /\ active
    /\ \A t \in Thread : pc[t] \in {"out", "asleep"}
    /\ Elapse(toGo)
    /\ UNCHANGED <<userVars, value>>

DiskThread(t) == DiskCall(t) \/ Request(t) \/ Resume(t) \/ Return(t)

DiskNext == RequestDone \/ Tick \/ Idle \/ \E t \in Thread : DiskThread(t)

\* A thread that is not asleep goes on, time passes while a request is in
\* progress, and interrupts that are due are served; whether to ask for a
\* sector is the thread's choice.
DiskFairness ==
    /\ \A t \in Thread : WF_<<userVars, synchDiskVars>>(Request(t) \/ Resume(t) \/ Return(t))
    /\ WF_<<userVars, synchDiskVars>>(RequestDone)
    /\ WF_<<userVars, synchDiskVars>>(active /\ (Tick \/ Idle))

-----------------------------------------------------------------------------
(***************************************************************************)
(* "only one request at a time" (disk.cc:120): a thread that is about to   *)
(* make a request finds the disk inactive and no answer left over, and an  *)
(* answer, under way or given, is for the one thread that sleeps in P.     *)
(***************************************************************************)
OneRequest ==
    /\ SynchDiskTypeOK
    /\ \A t \in Thread : pc[t] \in {"locked", "done"} => ~active /\ value = 0
    /\ value + (IF active THEN 1 ELSE 0) = Cardinality({t \in Thread : pc[t] = "asleep"})

(***************************************************************************)
(* The interrupt of a request comes at the very end of its sector's        *)
(* passage under the head, or, when the track buffer answers a read, after *)
(* the whole sector has passed the head since the buffer was started.      *)
(***************************************************************************)
AtSectorEnd(s) == (angle + toGo) % Turn = (((s % SectorsPerTrack) + 1) * RotationTime) % Turn

HasPassed(s) ==
    \E i \in 0..((loaded + toGo) \div RotationTime - 1) :
        (UnderHead(-loaded) + i) % SectorsPerTrack = s % SectorsPerTrack

Buffered == loaded >= 0 /\ (loaded = FullBuffer \/ HasPassed(lastSector))

TransferExact ==
    [][~active /\ active' => AtSectorEnd(lastSector)' \/ (toGo' = RotationTime /\ Buffered')]_diskVars

(***************************************************************************)
(* Every request is answered, and the thread that made it returns.         *)
(***************************************************************************)
Answered == \A t \in Thread : pc[t] = "asleep" ~> pc[t] = "out"
=============================================================================
