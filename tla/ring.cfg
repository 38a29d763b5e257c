SPECIFICATION Spec
CONSTANTS
    mexc = mexc
    gate = gate
    agg = agg
    second = second
    u1 = u1
    u2 = u2
    Blank = Blank
    Torn = Torn
    Producers <- OneProducer
    Consumers <- TwoConsumers
    Updates <- TwoUpdates
    Size = 4
    MaxConsumers = 2
    LongMax = 100
    MaxPublish = 6
INVARIANTS TypeOK NoSlotRace NotLapped DeliveredInOrder
PROPERTIES SequenceNeverRetreats PublishReturns ImplementsUpdateLog
CHECK_DEADLOCK FALSE
