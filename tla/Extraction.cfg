\* Files of up to three units, with limits that each of them can exceed.
SPECIFICATION Spec
CONSTANTS
    TextLimit = 7
    PageLimit = 4
    MaxPages = 2
    SectionSize = 5
    TextPageSize = 4
    Lengths = {0, 1, 3, 6}
    MaxUnits = 3
INVARIANTS
    LimitsRespected
    HonestStatus
    NothingLost
CHECK_DEADLOCK FALSE
