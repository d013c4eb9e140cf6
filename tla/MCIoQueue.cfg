SPECIFICATION MCSpec
CONSTANTS
    main = main
    a = a
    b = b
    w = w
    x = x
    y = y
    NONE = NONE
    main_thread = main
    Task <- SharedTask
    Resident <- MCResident
    Consumers <- SharedConsumers
    Producers <- MCProducers
    priority <- Sharedpriority
    Char <- MCChar
    Keys <- MCChar
    bufsize = 3
INVARIANTS
    SchedulerInv
    NoPanic
    SleepersKnown
PROPERTIES
    StarvesNobody
    ImplementsQueue
    KernelTakes
