SPECIFICATION Spec
CONSTANTS
    Name = {f, g, h}
    Byte = {0, 1}
    SectorSize = 2
    NumSectors = 8
    SystemSectors = 5
    NumDirEntries = 2
    Straddle = 1
    NumDirect = 2
    MaxTransfer = 2
    MaxOpen = 1
    NoName = noname
    NoHeader = noheader
    Nobody = nobody
    Closed = closed
    None = none
INVARIANTS
    SectorsExact
    NothingLeaks
PROPERTIES
    ImplementsFiles
SYMMETRY Symmetric
CHECK_DEADLOCK FALSE
