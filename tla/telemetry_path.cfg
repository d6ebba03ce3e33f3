SPECIFICATION FairSpec
CONSTANTS
    Capacity = 2
    MaxFrame = 50
    Request <- Orientation
    HeapBlocks = 4
INVARIANTS
    TypeOK
    EachPacketOnce
    QuietRoundsFillBatch
PROPERTY
    RadioNeverSilent
CHECK_DEADLOCK FALSE
