CONSTANTS
    c1 = c1
    c2 = c2
    p1 = p1
    Producers = {p1}
    Consumers = {c1, c2}
    MaxRetries = 2
    Count = 2
    MaxCalls = 1
    MaxCrashes = 1
    MaxLosses = 0
SPECIFICATION FairSpec
CHECK_DEADLOCK FALSE
PROPERTIES
    AtLeastOnce
