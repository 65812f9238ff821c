\* What the comment of Thread::Finish says of threadToBeDestroyed.
SPECIFICATION Spec
CONSTANTS
    Thread = {main, a, b}
    Main = main
    NoThread = none
    Cond = {c}
    InitialValue = 0
    MaxValue = 1
PROPERTY CarcassDestroyed
CHECK_DEADLOCK FALSE
