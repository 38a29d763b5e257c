SPECIFICATION Spec
CONSTANTS
    mexc = mexc
    gate = gate
    agg = agg
    second = second
    u1 = u1
    u2 = u2
    Blank = Blank
    Torn = Torn
    Producers <- TwoProducers
    Consumers <- OneConsumer
    Updates <- TwoUpdates
    Size = 4
    MaxConsumers = 2
    LongMax = 100
    MaxPublish = 3
PROPERTY EveryUpdateDelivered
CHECK_DEADLOCK FALSE
