SPECIFICATION Spec
CONSTANTS
    p = p
    q = q
    m = m
    n = n
    None = None
    Procs <- TwoProcs
    Monitors <- OneMonitor
    Budget = 3
    MaxCommands = 2
    FaultSets <- StallOnly
PROPERTIES
    BlockedForAReason
CHECK_DEADLOCK FALSE
