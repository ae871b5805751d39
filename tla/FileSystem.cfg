CONSTANTS
    NULL = NULL
    Garbage = Garbage
    Names = {a, b}
    NumSectors = 11
    SectorSize = 2
    NumDirEntries = 2
    EntrySize = 3
    NameOffset = 1
    NumDirect = 2
    Sizes = {0, 1, 3}
    Bytes = {x, y}
    MaxTransfer = 3
    Handles = {h}
    MaxCalls = 6
SPECIFICATION Spec
INVARIANTS
    NeverAborts
    MapIsExact
    OthersSurvive
PROPERTY ImplementsAtomicFiles
