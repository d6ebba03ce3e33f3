SPECIFICATION UartSpec
CONSTANTS
    DatagramSize = 2
    RingCapacity = 2
    QueueLength = 4
INVARIANTS
    UartTypeOK
    BytesInOrder
    OverrunReported
PROPERTY
    ReaderReturns
