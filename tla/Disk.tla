-------------------------------- MODULE Disk --------------------------------
(***************************************************************************)
(* The simulated disk of machine/disk.cc: one request at a time, which an  *)
(* interrupt answers after the time that the arm takes to the track and    *)
(* the platter to the sector, or at once (one sector's time) when a read   *)
(* finds the sector in the track buffer.  The contents are copied when the *)
(* request is made and are left out here.                                  *)
(*                                                                         *)
(* Times are relative, so that the clock needs no bound: to totalTicks     *)
(* belong the position of the platter, the age of the track buffer and the *)
(* time to the pending interrupt.                                          *)
(***************************************************************************)
EXTENDS Integers

CONSTANTS
    SectorsPerTrack, NumTracks,
    SeekTime,       \* ticks to move the arm by one track
    RotationTime,   \* ticks to rotate by one sector
    SystemTick      \* ticks that pass when interrupts are enabled

ASSUME DiskAssumption ==
    /\ {SectorsPerTrack, NumTracks, RotationTime, SystemTick} \subseteq Nat \ {0}
    /\ SeekTime \in Nat

VARIABLES
    active,         \* a request is in progress
    toGo,           \* ticks to its interrupt; negative when that is late
    lastSector,     \* the sector requested last
    angle,          \* totalTicks % Turn: how far the platter has turned
    loaded          \* totalTicks - bufferInit, or FullBuffer if it is more

diskVars == <<active, toGo, lastSector, angle, loaded>>

Sector     == 0..(SectorsPerTrack * NumTracks - 1)
Turn       == SectorsPerTrack * RotationTime
FullBuffer == Turn + RotationTime

DiskTypeOK ==
    /\ active \in BOOLEAN
    /\ toGo \in (-SystemTick)..(SeekTime * NumTracks + 2 * Turn)
    /\ lastSector \in Sector
    /\ angle \in 0..(Turn - 1)
    /\ loaded \in (-(SeekTime * NumTracks + RotationTime))..FullBuffer

DiskInit ==
    /\ active = FALSE
    /\ toGo = 0
    /\ lastSector = 0
    /\ angle = 0
    /\ loaded = 0

-----------------------------------------------------------------------------
Distance(a, b) == IF a < b THEN b - a ELSE a - b

\* TimeToSeek: the time of the seek, and from its end to the next sector.
Seek(newSector) ==
    SeekTime * Distance(newSector \div SectorsPerTrack, lastSector \div SectorsPerTrack)

\* A variant that takes the time since the last sector for the time to the next.
Rotation_Since(newSector) == (angle + Seek(newSector)) % RotationTime

Rotation(newSector) == (-(angle + Seek(newSector))) % RotationTime

ModuloDiff(to, from) == (to - from) % SectorsPerTrack

\* The sector that passes the head first, d ticks from now.
UnderHead(d) == (angle + d) \div RotationTime

\* The track buffer holds every sector that has passed since bufferInit.
TrackBufferHas(newSector) ==
    (loaded + Rotation(newSector)) \div RotationTime > ModuloDiff(newSector, UnderHead(-loaded))

ComputeLatency(newSector, writing) ==
    LET after == Seek(newSector) + Rotation(newSector)
    IN  IF ~writing /\ Seek(newSector) = 0 /\ TrackBufferHas(newSector)
        THEN RotationTime
        ELSE after + ModuloDiff(newSector, UnderHead(after)) * RotationTime + RotationTime

\* UpdateLast: a seek empties the track buffer.
UpdateLast(newSector) ==
    /\ lastSector' = newSector
    /\ loaded' = IF Seek(newSector) # 0 THEN -(Seek(newSector) + Rotation(newSector)) ELSE loaded

\* ReadRequest or WriteRequest, after ASSERT(!active).
DiskRequest(newSector, writing) ==
    /\ active' = TRUE
    /\ toGo' = ComputeLatency(newSector, writing)
    /\ UpdateLast(newSector)
    /\ UNCHANGED angle

Elapse(ticks) ==
    /\ angle' = (angle + ticks) % Turn
    /\ loaded' = IF loaded + ticks > FullBuffer THEN FullBuffer ELSE loaded + ticks
    /\ toGo' = IF active THEN toGo - ticks ELSE 0
    /\ UNCHANGED <<active, lastSector>>

\* CheckIfDue fires the disk's interrupt before more time passes.
InterruptDue == active /\ toGo <= 0

HandleInterrupt ==
    /\ InterruptDue
    /\ active' = FALSE
    /\ toGo' = 0
    /\ UNCHANGED <<lastSector, angle, loaded>>
=============================================================================
