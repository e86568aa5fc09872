CONSTANTS
    r1 = r1
    r2 = r2
    r3 = r3
    f1 = f1
    f2 = f2
    None = None
    Requests = {r1, r2}
    Connections = {1, 2}
    Filters = {f1, f2}
    MinConn = 1
    MaxConn = 2
    MaxChanges = 1
    MaxFaults = 1
SPECIFICATION FairSpec
INVARIANT NotShared
PROPERTIES
    Answered
    FreshChart
