\* What the elevator prints when it finishes.
SPECIFICATION Spec
CONSTANTS
    Thread = {s, a, b, c}
    Signaller = s
    Rounds = 2
    Rider = {a, b}
    Lift = s
    NumFloors <- MCFloors
    Id <- MCId
    SIGNALED = SIGNALED
    UNSIGNALED = UNSIGNALED
INVARIANT QuitsEmpty
\* The threads stop when the elevator has quit.
CHECK_DEADLOCK FALSE
