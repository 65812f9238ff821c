\* The primitives under every interleaving of main and two more threads.
\* No symmetry: ReadyRuns and TokenTaken are temporal.
SPECIFICATION FairSpec
CONSTANTS
    Thread = {main, a, b}
    Main = main
    NoThread = none
    Cond = {c, d}
    InitialValue = 0
    MaxValue = 2
INVARIANTS
    TypeOK
    SchedulerConsistent
    LockHeld
    WaitQueuesExact
    NoLostWakeup
PROPERTIES
    WokenInTurn
    ImplementsMonitor
    Progress
\* The machine halts when no thread can go on.
CHECK_DEADLOCK FALSE
