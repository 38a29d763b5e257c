SPECIFICATION Spec
CONSTANTS
    a = a
    b = b
    Orders <- OneOrder
    WireMax = 3
    InboxMax = 4
INVARIANTS TypeOK CommandsAfterLogin SentIsSentWhileLinkHolds ClosedForGood
PROPERTIES MapServesCancels FallsBackToRest
CHECK_DEADLOCK FALSE
