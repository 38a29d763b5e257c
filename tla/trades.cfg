SPECIFICATION Spec
CONSTANTS
    Exchanges = {e1, e2, e3}
    Trades = {t1, t2}
    NoTrade = NoTrade
    Max = 3
    MaxEx = 2
    MaxLog = 5
INVARIANT TypeOK
PROPERTY ImplementsTradeLog
SYMMETRY Symmetries
