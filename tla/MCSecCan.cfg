SPECIFICATION Spec
CONSTANTS
    CtrMod = 262144
    NonceMod = 16777216
    KeyData <- MCKeyData
    KeyMask <- MCKeyMask
    Mac <- MCMac
    Sent <- MCSent
    Words <- MCWords
    Flip <- MCFlip
INVARIANTS TypeOK AcceptedExactly
CHECK_DEADLOCK FALSE
