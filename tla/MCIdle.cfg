SPECIFICATION EndpointSpec
CONSTANTS
    wired = wired
    wireless = wireless
    MaxBytes = 2
    MaxPackets = 2
    MaxAge = 0
    Sizes <- OneSize
    Lags = {0, 1}
    MaxFrames = 2
    Failover = FALSE
    Paths <- OnePath
    Changes = {0, 1}
    VideoKinds = {"inter", "key", "keySets"}
    Backoff = 1
    MaxGeneration = 2
INVARIANTS
    IdleHoldsNothing
CHECK_DEADLOCK FALSE
