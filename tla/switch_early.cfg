SPECIFICATION Spec
CONSTANTS
    btc = btc
    eth = eth
    Symbols <- TwoSymbols
    Default = btc
    Garbled = Garbled
    NoSymbol = NoSymbol
    MaxSwitches = 2
    WireMax = 1
    RingMax = 1
PROPERTY SubscribedToApplied
CHECK_DEADLOCK FALSE
