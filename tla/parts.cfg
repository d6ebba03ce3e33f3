SPECIFICATION PartsSpec
CONSTANTS
    TestStates <- AnyState
    FifoDepth = 2
    Sender <- MCSender
    NoSender = NoSender
    ChunkBytes = 2
    QueueLength = 4
    RadioFrames <- MCFrames
    Noise <- MCNoise
    MaxFaults = 1
    LineCapacity = 5
    MaxFrame = 4
    MaxDispatch = 2
    HeaderLength = 2
    SlotSize = 3
    Id = {"imu", "can"}
    Packet = {"first", "second"}
    NoPacketYet = NoPacketYet
    Size = 2
    MaxNew = 2
INVARIANTS
    TypeOK
    NeverError
    CanTypeOK
    SemaphoreMeansDone
    TxTypeOK
    SendIsSynchronous
    AloneArrivesWhole
    XbeeTypeOK
    StaysInSync
    NoStalePacket
    SimRxTypeOK
PROPERTIES
    IgnitionIsClear
    FrameHeldWhileUsed
    ReadingReachesTable
    EachRequestReturns
    RegainsSync
    OnlyMisfitsUndefined
    IsDelayLine
