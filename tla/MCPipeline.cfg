CONSTANTS
    k1 = k1
    w1 = w1
    w2 = w2
    db = db
    Cameras = {k1}
    Workers = {w1, w2}
    Storage = db
    MaxBatch = 2
    MaxFrames = 2
    MaxTracks = 1
    MaxLate = 1
    MaxFaults = 2
SPECIFICATION FairSpec
CHECK_DEADLOCK FALSE
INVARIANTS
    FramesOnDisk
    AckedFramesPublished
    AckedEventsStored
    OneRowPerEvent
    NothingDropped
PROPERTIES
    TrackersInOrder
    FramesEndAsRows
