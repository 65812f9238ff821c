SPECIFICATION Spec
CONSTANTS
    Thread = {a, b}
    NoThread = nothread
    SectorsPerTrack = 3
    NumTracks = 2
    SeekTime = 5
    RotationTime = 4
    SystemTick = 3
    s = s
    r1 = r1
    r2 = r2
    m1 = m1
    m2 = m2
    Machine = {m1, m2}
    Box = {b1}
    Client = {s, r1, r2}
    At <- MCAt
    MaxMail = 2
    None = none
    Worker = worker
    Free = free
    Char = {x, y, q, eof}
    EOF = eof
    q = q
    MaxTyped = 3
INVARIANTS
    EchoInOrder
    OneRequest
    OnePacket
PROPERTIES
    Echoed
    TransferExact
    Answered
    MailArrives
    ImplementsPost
CHECK_DEADLOCK FALSE
