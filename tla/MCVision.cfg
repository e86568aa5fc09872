CONSTANTS
    d1 = d1
    d2 = d2
    d3 = d3
    Detections = {d1, d2, d3}
    Candidates = {d1, d2, d3}
    BoxOf <- Row
    Scores = {20, 25, 60}
    MinScore = 25
    NmsIou = 45
    HighScore = 60
    LowScore = 10
    Predictions <- Places
    Ious <- Percent
    MatchIou = 30
    LowConfIou = 50
    UnconfirmedIou = 70
    MinHits = 3
    MaxLost = 1
    MaxFrames = 5
    MaxIds = 4
SPECIFICATION VisionSpec
CHECK_DEADLOCK FALSE
INVARIANTS
    Lifecycle
    MissesBelowTwice
    KeptApart
    SuppressedForReason
    OneObjectOneTrack
PROPERTIES
    IdsNotReused
