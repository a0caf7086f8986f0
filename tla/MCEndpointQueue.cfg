SPECIFICATION RecoverySpec
CONSTANTS
    wired = wired
    MaxBytes = 2
    MaxPackets = 2
    MaxAge = 0
    Sizes <- OneSize
    Lags = {0, 1}
    MaxFrames = 3
    Failover = FALSE
    Paths <- OnePath
    Changes = {}
    VideoKinds = {"inter", "key", "keySets"}
    Backoff = 1
    MaxGeneration = 2
INVARIANTS
    NothingBeforeOrigin
    ParameterSetsSurviveDrops
PROPERTIES
    PublishesAgain
CHECK_DEADLOCK FALSE
