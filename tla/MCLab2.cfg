\* Lab 2's monitors with every err_type.
SPECIFICATION Spec
CONSTANTS
    Thread = {a, b, c}
    NoThread = none
    buffersize = 2
    Byte = {0, 1}
    table_size = 4
    N = 2
    Elem = {e1, e2, e3}
    NULL = NULL
    Key = {1, 2, 3}
    NumInsert = 1
    NumRemove = 2
INVARIANTS
    NobodySleepsInVain
    TableExact
    ListIntact
PROPERTY IsFifo
\* The threads of a test end.
CHECK_DEADLOCK FALSE
