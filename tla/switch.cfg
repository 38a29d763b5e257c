SPECIFICATION Spec
CONSTANTS
    btc = btc
    eth = eth
    Symbols <- TwoSymbols
    Default = btc
    Garbled = Garbled
    NoSymbol = NoSymbol
    MaxSwitches = 2
    WireMax = 1
    RingMax = 1
INVARIANTS TypeOK AckedBookIsPure
PROPERTIES PanelSettles GateReopens
CHECK_DEADLOCK FALSE
