SPECIFICATION PairSpec
CONSTANTS
    main = main
    a = a
    b = b
    w = w
    x = x
    y = y
    NONE = NONE
    main_thread = main
    Task <- PairTask
    Resident <- MCResident
    Consumers <- PairConsumers
    Producers <- MCProducers
    priority <- Pairpriority
    Char <- MCChar
    Keys <- NoKeys
    bufsize = 3
INVARIANT
    SomeoneAwake
