CONSTANTS
    k1 = k1
    w1 = w1
    w2 = w2
    db = db
    Cameras = {k1}
    Workers = {w1, w2}
    Storage = db
    MaxBatch = 2
    MaxFrames = 2
    MaxTracks = 1
    MaxLate = 0
    MaxFaults = 0
SPECIFICATION Spec
CHECK_DEADLOCK FALSE
SYMMETRY WorkersAreAlike
INVARIANTS
    TrackIdsGloballyUnique
