SPECIFICATION FairPathSpec
CONSTANTS
    TestStates <- NoState
    Capacity = 2
    MaxPacket = 2
INVARIANTS
    PathTypeOK
    StateWasCommanded
    OnlyFuelingLingers
PROPERTY
    LastAbortActedOn
