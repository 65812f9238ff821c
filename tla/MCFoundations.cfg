SPECIFICATION Spec
CONSTANTS
    ByteBits = 2
    PageSize = 16
    NumPhysPages = 3
    TLBSize = 2
    GPRegs = {0, 1, 2, 3, 29, 31}
    SC_Halt = 0
    Programs <- MCPrograms
    Samples <- MCSamples
    PageTable <- MCPageTable
    InitialMemory <- MCMemory
    Objects <- MCObjects
    StackSize = 8
    MEMSIZE = 36
    UserStackSize = 16
    KThread = {main, t1, t2}
    Main = main
    Arch = {"MIPS", "SNAKE", "i386"}
    WordsOfStack = 20
    Thread = {a, b, c, d}
    NoThread = nothread
    Element = {e1, e2, e3, e4}
    MaxKey = 1
    NULL = null
    Absent = absent
INVARIANTS
    CleanUnchanged
    LoadExact
    RegistersKept
    RootInOrder
    ChainIntact
    WakeUpsExact
PROPERTIES
    AgreesWithExecute
    ArithmeticExact
    ImplementsQueue
\* A program ends, and threads may wait for ever.
CHECK_DEADLOCK FALSE
