CONSTANTS
    r1 = r1
    r2 = r2
    r3 = r3
    f1 = f1
    f2 = f2
    None = None
    Requests = {r1, r2, r3}
    Connections = {1, 2, 3}
    Filters = {f1}
    MinConn = 1
    MaxConn = 2
    MaxChanges = 0
    MaxFaults = 0
SPECIFICATION Spec
INVARIANT PoolBounded
