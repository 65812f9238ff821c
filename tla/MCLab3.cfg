\* Test 2: an event barrier used twice by every thread.  Test 4: riders a and b,
\* elevator s, between the lower three floors of a building of four.
SPECIFICATION Spec
CONSTANTS
    Thread = {s, a, b, c}
    Signaller = s
    Rounds = 2
    Rider = {a, b}
    Lift = s
    NumFloors <- MCFloors
    Id <- MCId
    SIGNALED = SIGNALED
    UNSIGNALED = UNSIGNALED
INVARIANTS
    NobodyLeftBehind
    RightDoor
PROPERTIES
    ImplementsBarrier
    EveryoneOut
    Served
\* Threads that wait with no further event wait for ever.
CHECK_DEADLOCK FALSE
