SPECIFICATION Spec
CONSTANTS
    t1 = t1
    t2 = t2
    m1 = m1
    m2 = m2
    b1 = b1
    b2 = b2
    b3 = b3
    b4 = b4
    Task <- MCTask
    Message <- MCMessage
    Block <- MCBlock
    Max = 2
    NoBlock = NoBlock
    NoMessage = NoMessage
    Unused = Unused
SYMMETRY Symmetry
INVARIANTS
    TypeOK
    QueuedAreLive
    OnlyDiscardsLeak
    HeldByOne
PROPERTY
    Implements
CHECK_DEADLOCK FALSE
