SPECIFICATION FairSpec
CONSTANTS
    Capacity = 2
    MaxFrame = 50
    Request <- Orientation
    HeapBlocks = 4
INVARIANT
    PayloadReachesRadio
CHECK_DEADLOCK FALSE
