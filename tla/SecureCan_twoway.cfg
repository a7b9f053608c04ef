SPECIFICATION LiveSpec
CONSTANTS
    p = p
    m = m
    zero = zero
    Node = {p, m}
    Pedal = p
    Motor = m
    TwoWay = TRUE
    Sample <- MCSample
    CtrMod = 4
    NonceMod = 4
    MsgMod = 4
    ListenPolls = 1
    MaxSend = 2
    Address <- MCAddress
    Reader <- MCReader
    Length = {8}
    Payload <- MCPayload
    ZeroPayload = zero
    TxPolls = 0
    InitPolls = 0
    FifoDepth = 1
    KeyData <- MCKeyData
    KeyMask <- MCKeyMask
    Mac <- MCMac
INVARIANTS LegitimateOpens NumbersNotReused
PROPERTIES FollowsPedal Progress
CHECK_DEADLOCK FALSE
