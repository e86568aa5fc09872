CONSTANTS
    c1 = c1
    c2 = c2
    p1 = p1
    Producers = {p1}
    Consumers = {c1, c2}
    MaxRetries = 2
    Count = 2
    MaxCalls = 2
    MaxCrashes = 1
    MaxLosses = 1
SPECIFICATION FairSpec
CHECK_DEADLOCK FALSE
INVARIANTS
    NothingSkipped
    InHandIsPending
    PublishOrder
    BoundedCopies
PROPERTIES
    ImplementsBroker
    EverySettled
