SPECIFICATION ProcessorSpec
CONSTANTS
    p = p
    m = m
    zero = zero
    Node = {p, m}
    Pedal = p
    Motor = m
    TwoWay = FALSE
    Sample <- MCSample
    CtrMod = 2
    NonceMod = 4
    MsgMod = 4
    ListenPolls = 1
    MaxSend = 4
    Address <- MCAddress
    Reader <- MCReader
    Length = {8}
    Payload <- MCPayload
    ZeroPayload = zero
    TxPolls = 0
    InitPolls = 1
    FifoDepth = 2
    KeyData <- MCKeyData
    KeyMask <- MCKeyMask
    Mac <- MCMac
INVARIANT TypeOK
PROPERTIES FollowsPedal HeldIsApplied
CHECK_DEADLOCK FALSE
