CONSTANTS
    c1 = c1
    c2 = c2
    p1 = p1
    p2 = p2
    Nobody = Nobody
    Partitions = {p1, p2}
    Consumers = {c1, c2}
    MaxCalls = 2
    KeyHashes <- OneOrBoth
    AckThreads = {TRUE, FALSE}
    MaxFaults = 1
SPECIFICATION FairSpec
CHECK_DEADLOCK FALSE
INVARIANTS
    PublishOrder
    CommittedWasHandled
    NothingSkipped
PROPERTIES
    ImplementsCommitLog
    EveryCommitted
