\* A signaller and a thread that calls Wait.
SPECIFICATION SemSpec
CONSTANTS
    Thread = {a, b}
    NoThread = nothread
INVARIANT SignalFindsWaiters
\* Threads may wait for ever.
CHECK_DEADLOCK FALSE
