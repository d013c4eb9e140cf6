SPECIFICATION MCSpec
CONSTANTS
    NULL = NULL
    ListId = {ready, waiters}
    Elem = {a, b, c}
    BITS = 3
    btmp_bytes_len = 2
    Count <- MCCount
    MemSize <- MCMemSize
    nobody = nobody
    Kernel = {k}
    Placer = {q1, q2}
    Process = {p1, p2}
    k = k
    q1 = q1
    q2 = q2
    p1 = p1
    p2 = p2
    kernel_frames = 3
    user_frames = 2
    Pages = 2
    PerTable = 2
    Request = {1, 2}
    MaxRepeat = 2
    Block = {1, 2, 3}
    Value = {a, b}
    RAW = RAW
    BufferSize = 2
    InitialMapSize = 6
    SizeLimit = 65536
    MaxSize = 4
    MaxMap = 14
    MaxItems = 3
    MaxCopies = 5
    AnyInsert = FALSE
CHECK_DEADLOCK FALSE
INVARIANTS
    WellFormed
    FirstFit
    PoolsDisjoint
    BitmapsFit
    FramesExact
    LeaksOnlyWhenExhausted
    BuffersExact
    DequeExact
PROPERTIES
    ImplementsLists
    ScanEnds
