SPECIFICATION ResetSpec
CONSTANTS
    p = p
    m = m
    zero = zero
    Node = {p, m}
    Pedal = p
    Motor = m
    TwoWay = FALSE
    Sample <- MCSample
    CtrMod = 2
    NonceMod = 4
    MsgMod = 4
    ListenPolls = 1
    MaxSend = 3
    MaxReset = 1
    Address <- MCAddress
    Reader <- MCReader
    Length = {8}
    Payload <- MCPayload
    ZeroPayload = zero
    TxPolls = 0
    InitPolls = 0
    FifoDepth = 2
    KeyData <- MCKeyData
    KeyMask <- MCKeyMask
    Mac <- MCMac
INVARIANTS ResetTypeOK NothingOutstanding
PROPERTY FollowsAcrossResets
CHECK_DEADLOCK FALSE
