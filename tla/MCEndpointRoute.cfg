SPECIFICATION EndpointSpec
CONSTANTS
    wired = wired
    wireless = wireless
    MaxBytes = 2
    MaxPackets = 2
    MaxAge = 0
    Sizes <- OneSize
    Lags = {}
    MaxFrames = 3
    Failover = TRUE
    Paths <- TwoPaths
    Changes = {0, 1}
    VideoKinds = {"inter", "keySets"}
    Backoff = 0
    MaxGeneration = 1
INVARIANTS
    ConnectionOnCurrentPath
PROPERTIES
    InterruptIsFinal
    ImplementsGopStream
    StopCompletes
    PacketCompletes
CHECK_DEADLOCK FALSE
