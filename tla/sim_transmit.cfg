SPECIFICATION Spec
CONSTANTS
    R = R
    C = C
    Id <- MCId
    IdOrder <- MCIdOrder
    Size = 2
    MaxNew = 2
INVARIANTS
    TypeOK
    NeverReadsUnwritten
    ConfigFirst
    SendingNeverBlocks
PROPERTY
    NewPacketsFlow
