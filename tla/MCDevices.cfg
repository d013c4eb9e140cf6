SPECIFICATION MCSpec
CONSTANTS
    NULL = NULL
    Key <- MCKey
    BYTE = 6
    COLS = 4
    ROWS = 2
    BASE = 2
    DIGITS = 2
    Echoed <- MCEchoed
    Texts <- MCTexts
    Numbers <- MCNumbers
    Task = {main, a, b}
    main_thread = main
    Line = {0, 1, 6}
    Exception = {12, 14}
    Area <- MCArea
    MaxAreas = 3
    ards_room = 2
    Extended <- MCExtended
    sectors = 3
    Header <- MCHeader
    MaxHeaders = 2
    Physical = {0, 1, 2, 3}
    entries = 8
    kernel_pde = 5
    low_pages = 3
CHECK_DEADLOCK FALSE
INVARIANTS
    ModifiersExact
    TypedAsPressed
    ScreenExact
    OnScreen
    InterruptsReturn
    KernelStarts
