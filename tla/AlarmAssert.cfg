\* SetLevel's assertion about interrupt handlers.
SPECIFICATION Spec
CONSTANTS
    Thread = {main, prohibit, a, b}
    Main = main
    Guard = prohibit
    NoThread = none
    MaxSleep = 2
INVARIANT NeverEnabledInHandler
CHECK_DEADLOCK FALSE
