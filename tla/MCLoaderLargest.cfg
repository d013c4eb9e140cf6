SPECIFICATION BootSpec
CONSTANTS
    Area <- MCArea
    MaxAreas = 2
    ards_room = 2
    Extended <- MCExtended
    sectors = 3
    Header <- MCHeader
    MaxHeaders = 2
    Physical = {0, 1, 2, 3}
    entries = 8
    kernel_pde = 5
    low_pages = 3
CHECK_DEADLOCK FALSE
INVARIANT
    LargestFound
