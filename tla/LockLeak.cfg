\* A Remove that finds the list empty.
SPECIFICATION Spec
CONSTANTS
    Thread = {a, b}
    NoThread = none
    buffersize = 2
    Byte = {0, 1}
    table_size = 4
    N = 2
    Elem = {e1, e2}
    NULL = NULL
    Key = {1}
    NumInsert = 1
    NumRemove = 2
INVARIANT LockReturned
\* The threads of a test end.
CHECK_DEADLOCK FALSE
