------------------------------ MODULE Elevator ------------------------------
(***************************************************************************)
(* Lab 3's elevator and building (3/Elevator.cc) with the riders of test 4 *)
(* (rider and create_elev in 3/threadtest.cc).  For each floor and         *)
(* direction there is one event barrier for riders who enter and one for   *)
(* riders who leave.  The elevator keeps no list of its passengers: all it *)
(* knows is waiter_num of the barriers, read without their locks.          *)
(*                                                                         *)
(* Threads are preempted only where a primitive enables interrupts.  The   *)
(* loop of VisitFloor has no such point between floors, so while the       *)
(* elevator is in "visit" no rider moves.                                  *)
(***************************************************************************)
EXTENDS EventBarrier, Integers

CONSTANTS
    Rider,          \* the riders' threads
    Lift,           \* the elevator's thread
    NumFloors       \* number_of_floors

ASSUME ElevatorAssumption ==
    Rider \cup {Lift} \subseteq Thread /\ Lift \notin Rider /\ NumFloors \in Nat \ {0}

UP   == 1
DOWN == -1
BOTH == 0       \* also the value that stands for "no call"

Floor == 1..NumFloors
Doors == {"In", "Out"} \X {UP, DOWN} \X Floor
ASSUME DoorsAssumption == Id = Doors

VARIABLES
    currentfloor, dir, occupancy,   \* class Elevator
    callDir,        \* the calls pressed at each floor
    stage,          \* where the elevator is in VisitFloor
    trip,           \* where each rider is in rider()
    from, to,       \* srcFloor and dstFloor of each rider
    target          \* the barrier each rider is going to Wait on

liftVars == <<currentfloor, dir, occupancy, callDir, stage, trip, from, to, target>>

\* start      forked, or in Run before its first floor
\* visit      in VisitFloor's loop, at currentfloor
\* openOut    before the first Signal of OpenDoors
\* openIn     in or after that Signal
\* close      in or after the second
\* quit       finished: NO RIDER NOW, ELEVATOR QUIT
Stage == {"start", "visit", "openOut", "openIn", "close", "quit"}

\* start      before CallUp or CallDown
\* await      in AwaitUp or AwaitDown
\* enter      back from it: in Enter, up to the return of Complete
\* board      in Enter or RequestFloor, before the call of Wait
\* ride       in RequestFloor's Wait
\* exit       back from it: in Exit, up to the return of Complete
Trip == {"start", "call", "await", "enter", "board", "ride", "exit", "done"}

LiftTypeOK ==
    /\ BarrierTypeOK
    /\ currentfloor \in Floor
    /\ dir \in {UP, DOWN}
    /\ occupancy \in Nat
    /\ callDir \in [Floor -> {UP, DOWN, BOTH}]
    /\ stage \in Stage
    /\ trip \in [Rider -> Trip]
    /\ from \in [Rider -> Floor] /\ to \in [Rider -> Floor]
    /\ target \in [Rider -> Id]

\* memset(callDir, 0, sizeof(callDir)) clears one pointer's worth of callDir:
\* the other entries hold what the memory held, here any legal value (bound:
\* the same one at every floor).  Floors are random() % (number_of_floors - 1)
\* + 1; riders whose two floors are equal return at once and are left out.
LiftInit ==
    /\ currentfloor = 1
    /\ dir = UP
    /\ occupancy = 0
    /\ \E d \in {UP, DOWN, BOTH} : callDir = [f \in Floor |-> d]
    /\ stage = "start"
    /\ trip = [r \in Rider |-> "start"]
    /\ from \in [Rider -> 1..(NumFloors - 1)]
    /\ to \in [Rider -> 1..(NumFloors - 1)]
    /\ \A r \in Rider : from[r] # to[r]
    /\ target = [r \in Rider |-> CHOOSE b \in Id : TRUE]

-----------------------------------------------------------------------------
\* The elevator's thread.

PeopleAt(f) ==
    waiter_num[<<"In", UP, f>>] + waiter_num[<<"Out", UP, f>>]
        + waiter_num[<<"In", DOWN, f>>] + waiter_num[<<"Out", DOWN, f>>]

current_floor_have == PeopleAt(currentfloor)

havePeople == \E f \in Floor : PeopleAt(f) # 0

\* The thread is first dispatched.
LiftStart ==
    /\ stage = "start"
    /\ stage' = "visit"
    /\ UNCHANGED <<barrierVars, currentfloor, dir, occupancy, callDir, trip, from, to, target>>

Quit ==
    /\ stage = "visit" /\ ~havePeople
    /\ stage' = "quit"
    /\ UNCHANGED <<barrierVars, currentfloor, dir, occupancy, callDir, trip, from, to, target>>

DoorsWanted == current_floor_have # 0 /\ callDir[currentfloor] \in {dir, BOTH}

Stop ==
    /\ stage = "visit" /\ havePeople /\ DoorsWanted
    /\ stage' = "openOut"
    /\ UNCHANGED <<barrierVars, currentfloor, dir, occupancy, callDir, trip, from, to, target>>

\* A variant that goes on after the last floor in the old direction of travel:
\* it starts again at the other end.
Advance_NeverTurns ==
    /\ dir' = dir
    /\ currentfloor' = IF currentfloor + dir \in Floor THEN currentfloor + dir
                       ELSE IF dir = UP THEN 1 ELSE NumFloors

\* A variant without the bounds of VisitFloor's loop.
Advance_NoBounds == currentfloor' = currentfloor + dir /\ dir' = dir

\* currentfloor += dir; VisitFloor(1) starts at the top, VisitFloor(n) at 1.
Advance ==
    IF currentfloor + dir \in Floor
    THEN currentfloor' = currentfloor + dir /\ dir' = dir
    ELSE currentfloor' = currentfloor /\ dir' = -dir

Pass ==
    /\ stage = "visit" /\ havePeople /\ ~DoorsWanted
    /\ Advance
    /\ UNCHANGED <<barrierVars, occupancy, callDir, stage, trip, from, to, target>>

\* OpenDoors: first the riders who leave, then those who enter.
OpenOut ==
    /\ stage = "openOut"
    /\ SignalCall(Lift, <<"Out", dir, currentfloor>>)
    /\ stage' = "openIn"
    /\ UNCHANGED <<currentfloor, dir, occupancy, callDir, trip, from, to, target>>

OpenIn ==
    /\ stage = "openIn"
    /\ SignalCall(Lift, <<"In", dir, currentfloor>>)
    /\ stage' = "close"
    /\ UNCHANGED <<currentfloor, dir, occupancy, callDir, trip, from, to, target>>

\* The elevator's Signal looks again whether all have responded.
LiftResume == SignalResume(Lift) /\ UNCHANGED liftVars

CloseDoors ==
    /\ stage = "close" /\ pc[Lift] = "out"
    /\ callDir' = [callDir EXCEPT ![currentfloor] = BOTH]
    /\ Advance
    /\ stage' = "visit"
    /\ UNCHANGED <<barrierVars, occupancy, trip, from, to, target>>

LiftStep == LiftStart \/ Quit \/ Stop \/ Pass \/ OpenOut \/ OpenIn \/ LiftResume \/ CloseDoors

-----------------------------------------------------------------------------
\* The riders' threads.

Travel(r, here, there) ==
    /\ stage # "visit"
    /\ trip[r] = here
    /\ trip' = [trip EXCEPT ![r] = there]
    /\ UNCHANGED <<currentfloor, dir, stage, from, to>>

\* Pressing a button when the other direction is pressed gives BOTH.
Press(f, d) == callDir' = [callDir EXCEPT ![f] = IF @ = -d THEN BOTH ELSE d]

\* CallUp or CallDown, up to the call of Wait in AwaitUp or AwaitDown.
CallLift(r) ==
    LET d == IF from[r] < to[r] THEN UP ELSE DOWN
    IN  /\ Travel(r, "start", "call")
        /\ Press(from[r], d)
        /\ target' = [target EXCEPT ![r] = <<"In", d, from[r]>>]
        /\ UNCHANGED <<barrierVars, occupancy>>

Await(r) ==
    /\ Travel(r, "call", "await")
    /\ WaitCall(r, target[r])
    /\ UNCHANGED <<occupancy, callDir, target>>

\* Enter, which reads dir and currentfloor without a lock.
Enter(r) ==
    /\ pc[r] = "passed"
    /\ Travel(r, "await", "enter")
    /\ CompleteCall(r, <<"In", dir, currentfloor>>)
    /\ UNCHANGED <<occupancy, callDir, target>>

\* The rest of Enter and RequestFloor up to the call of Wait: the direction is
\* the elevator's direction now, which may have left the floor already.
RequestFloor(r) ==
    /\ pc[r] = "out"
    /\ Travel(r, "enter", "board")
    /\ occupancy' = occupancy + 1
    /\ Press(to[r], dir)
    /\ target' = [target EXCEPT ![r] = <<"Out", dir, to[r]>>]
    /\ UNCHANGED barrierVars

Ride(r) ==
    /\ Travel(r, "board", "ride")
    /\ WaitCall(r, target[r])
    /\ UNCHANGED <<occupancy, callDir, target>>

Exit(r) ==
    /\ pc[r] = "passed"
    /\ Travel(r, "ride", "exit")
    /\ CompleteCall(r, <<"Out", dir, currentfloor>>)
    /\ UNCHANGED <<occupancy, callDir, target>>

Leave(r) ==
    /\ pc[r] = "out"
    /\ Travel(r, "exit", "done")
    /\ occupancy' = occupancy - 1
    /\ UNCHANGED <<barrierVars, callDir, target>>

RiderResume(r) ==
    /\ stage # "visit"
    /\ WaitReturn(r) \/ CompleteReturn(r)
    /\ UNCHANGED liftVars

RiderStep(r) ==
    \/ CallLift(r) \/ Await(r) \/ Enter(r) \/ RequestFloor(r)
    \/ Ride(r) \/ Exit(r) \/ Leave(r) \/ RiderResume(r)

LiftNext == LiftStep \/ \E r \in Rider : RiderStep(r)

-----------------------------------------------------------------------------
(***************************************************************************)
(* A rider that has been let through an open door, and a rider that is     *)
(* about to tell so, is at its own floor with the elevator travelling in   *)
(* the direction it waited for: Enter and Exit, which read dir and         *)
(* currentfloor without a lock, complete the barrier the rider waited on,  *)
(* and their assertion current_floor_have() != 0 holds.  While the         *)
(* elevator travels no barrier is signaled.                                *)
(***************************************************************************)
RightDoor ==
    /\ LiftTypeOK
    /\ \A r \in Rider : trip[r] \in {"await", "ride"} /\ pc[r] = "passed" =>
        /\ at[r] = <<IF trip[r] = "await" THEN "In" ELSE "Out", dir, currentfloor>>
        /\ currentfloor = IF trip[r] = "await" THEN from[r] ELSE to[r]
        /\ current_floor_have # 0
        /\ stage \notin {"visit", "quit"}
    /\ stage \in {"visit", "quit"} => \A b \in Id : barrierStatus[b] = UNSIGNALED

(***************************************************************************)
(* A rider who waits at a floor, or on board for a floor, is served, or    *)
(* the elevator has quit.                                                  *)
(***************************************************************************)
Served ==
    \A r \in Rider :
        trip[r] \in {"await", "ride"} ~> trip[r] \in {"enter", "exit"} \/ stage = "quit"

(***************************************************************************)
(* "NO RIDER NOW, ELEVATOR QUIT" (Elevator.cc:105): the elevator finishes  *)
(* with nobody on board.                                                   *)
(***************************************************************************)
QuitsEmpty == stage = "quit" => occupancy = 0
=============================================================================
