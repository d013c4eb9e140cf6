SPECIFICATION MCSpec
CONSTANTS
    NULL = NULL
    Object = {x, y}
    Node = {n1, n2, n3, n4}
    Key = {1, 2}
    MaxFill = 2
    Block = {1, 2, 3}
    Value = {a, b}
    RAW = RAW
    MaxSize = 4
    MaxItems = 3
    MaxReserve = 6
    MaxCopies = 9
    Tid = {m, t}
    main = m
    Slot = {0, 1}
    page_size = 2
    Addr = {1, 2}
    Size = {3}
    Hardware <- MCHardware
    Test <- MCTest
    None = None
    Digit = {"0", "7"}
    Other = {"?"}
    MaxText = 4
CHECK_DEADLOCK FALSE
INVARIANTS
    RingsExact
    IteratorsValid
    CountersExact
    ResultsExact
    LifetimesExact
    ContentsExact
    BreakpointsExact
    OriginalsKept
    TokensExact
PROPERTIES
    OperationsEnd
