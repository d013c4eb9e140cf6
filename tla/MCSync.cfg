SPECIFICATION SyncFairSpec
CONSTANTS
    main = main
    a = a
    c = c
    d = d
    NULL = NULL
    main_thread = main
    Task <- MCTask
    Resident <- MCResident
    Lockers <- MCLockers
    Masked <- MCMasked
    priority <- MCpriority
    MaxNest = 2
INVARIANTS
    MutualExclusion
    LockExact
    WaitersExact
    NoLostWakeup
    InterruptDiscipline
PROPERTIES
    ImplementsLock
    ImplementsThread
    WaitersWoken
