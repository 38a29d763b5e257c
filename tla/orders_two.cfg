SPECIFICATION Spec
CONSTANTS
    a = a
    b = b
    Own <- NoOwn
    Others <- TwoOther
    NoOrder = NoOrder
    PlaceCap = 2
    EventCap = 2
    MaxDone = 1
INVARIANT HistoryTellsTruth
CHECK_DEADLOCK FALSE
