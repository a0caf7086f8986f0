SPECIFICATION CaptureQueueSpec
CONSTANTS
    Encoders <- TwoEncoders
    ListMax = 3
    StallAge = 2
    MaxResults = 4
    MaxBytes = 4
    MaxPackets = 3
    MaxAge = 1
    Sizes <- PacketSizes
    Lags = {0, 1}
    MaxFrames = 4
INVARIANTS
    FrameLentSafely
    ResultsInReach
    BacklogBounded
    NoLostWakeup
PROPERTIES
    BoxesCleared
    ShutdownCompletes
    ProgressOrExit
    GopWithoutHoles
    QueuedIsServed
