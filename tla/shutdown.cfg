SPECIFICATION Spec
CONSTANTS
    mexc = mexc
    gate = gate
    mexc_order_stream = mexc_order_stream
    bingx_order_stream = bingx_order_stream
    Feeds <- TwoFeeds
    Streams <- TwoStreams
    Calls = {submit}
    Capacity = 2
INVARIANTS TypeOK JoinedBeforeDestroyed TerminatesOnlyAfterFailure
PROPERTY HangsOnlyOnRingOrPut
CHECK_DEADLOCK FALSE
