SPECIFICATION LiveSpec
CONSTANTS
    Programs = {{"transmit", "sleep", "wake"}, {"receive"}}
    Mailboxes = 3
    FifoDepth = 2
INVARIANTS TypeOK BusyMeansOngoing CallbackOncePerRequest
PROPERTIES RequestAnswered ReceptionGoesOn
