SPECIFICATION HalLiveSpec
CONSTANTS
    a = a
    b = b
    Node = {a, b}
    Address <- MCAddress
    Reader <- MCReader
    Length = {4, 9}
    Payload <- MCPayload
    ZeroPayload = "p"
    TxPolls = 1
    InitPolls = 1
    FifoDepth = 1
INVARIANTS HalInv NothingOutstanding OnlineWhenIdle NeverRefused
PROPERTIES ImplementsPort CallsEnd
CHECK_DEADLOCK FALSE
