SPECIFICATION Spec
CONSTANTS
    Prices <- ThreePrices
    QtyMax = 2
    Depth = 2
    ChangesMax = 2
    WireMax = 1
INVARIANTS TypeOK ShownIsTopOfKnown NeverCrossed
