SPECIFICATION DequeSpec
CONSTANTS
    Block = {1, 2, 3, 4}
    Value = {a, b}
    RAW = RAW
    BufferSize = 2
    InitialMapSize = 6
    SizeLimit = 65536
    MaxSize = 4
    MaxMap = 14
    MaxItems = 3
    MaxCopies = 5
    AnyInsert = TRUE
INVARIANTS
    StoresAtBothEnds
