SPECIFICATION DbgSpec
CONSTANTS
    Tid = {m}
    main = m
    Slot = {0, 1}
    page_size = 2
    Addr = {1, 2}
    Size = {3}
    Hardware <- MCHardware
    Test <- MCTest
    None = None
CHECK_DEADLOCK FALSE
INVARIANT
    HitSurvived
