SPECIFICATION StreamSpec
CONSTANTS
    RenewTicks = 360
    PingEvery = 3
    KeyLife = 720
    IdleLimit = 4
    PutMax = 6
    LateMax = 2
    None = None
INVARIANTS StreamTypeOK KeySurvives NeverIdle StopWaitsShort
