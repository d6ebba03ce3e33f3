SPECIFICATION FairPathSpec
CONSTANTS
    TestStates <- NoState
    Capacity = 2
    MaxPacket = 2
PROPERTY
    EveryAbortActedOn
