\* The alarm clock, with and without the random timer.
SPECIFICATION FairSpec
CONSTANTS
    Thread = {main, prohibit, a, b}
    Main = main
    Guard = prohibit
    NoThread = none
    MaxSleep = 2
INVARIANTS
    AlarmPerSleeper
    NobodyOversleeps
PROPERTY Awakened
\* The machine halts.
CHECK_DEADLOCK FALSE
