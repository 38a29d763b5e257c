SPECIFICATION Spec
CONSTANTS
    x = x
    y = y
    p = p
    q = q
    Exchanges <- Both
    Keyed <- OneKeyed
    MayBeDown <- OneKeyed
    Pairs <- TwoPairs
    NoPair = NoPair
    Default = p
    MaxSlots = 2
    RingMax = 1
    EventsMax = 1
INVARIANTS TypeOK FormsKeepTheirExchange RowsNameTheirPair FetchedOrdersAreOfPair
