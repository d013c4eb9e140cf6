SPECIFICATION Spec
CONSTANTS
    main = main
    a = a
    b = b
    Task <- MCTask
    main_thread = main
    Resident <- MCResident
    priority <- MCpriority
PROPERTY
    SliceRestored
