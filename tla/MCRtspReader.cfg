CONSTANTS
    Interval = 2
    BaseDelay = 2
    MaxDelay = 30
    MaxAttempt = 4
    MaxFrames = 3
SPECIFICATION FairSpec
INVARIANTS
    RateCap
    BackoffPaces
PROPERTIES
    FramesAgain
