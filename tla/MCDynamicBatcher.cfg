CONSTANTS
    a = a
    b = b
    Items = {a, b}
    MaxBatch = 3
    MaxWait = 5
    MaxPoll = 2
    JoinTimeout = 3
    MaxSubmits = 5
SPECIFICATION FairSpec
CHECK_DEADLOCK FALSE
INVARIANTS
    Conservation
    WaitBound
PROPERTIES
    FlushReason
    ImplementsHandoff
    AllHanded
    StopEnds
