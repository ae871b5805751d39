CONSTANTS
    NULL = NULL
    Garbage = Garbage
    Names = {a, b}
    NumSectors = 11
    SectorSize = 2
    NumDirEntries = 2
    EntrySize = 3
    NameOffset = 1
    NumDirect = 2
    Sizes = {1, 5}
    Bytes = {x, y}
    MaxTransfer = 3
    Handles = {h}
    MaxCalls = 4
SPECIFICATION Spec
INVARIANT HeaderFits
