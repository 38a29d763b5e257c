SPECIFICATION Spec
CONSTANTS
    a = a
    b = b
    Own <- OneOwn
    Others <- NoOther
    NoOrder = NoOrder
    PlaceCap = 2
    EventCap = 2
    MaxDone = 1
INVARIANTS TypeOK HistoryTellsTruth
PROPERTY AnswersReachPanel
CHECK_DEADLOCK FALSE
