SPECIFICATION LiveSpec
CONSTANTS
    Tool = {"a", "b"}
    QueueDepth = 2
    MaxCount = 1
INVARIANTS TypeOK ReceiverSurvives OpenIsKnown
PROPERTY QuitEnds
