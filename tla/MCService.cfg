SPECIFICATION FairSpec
CONSTANTS
    p = p
    q = q
    m = m
    n = n
    None = None
    Procs <- TwoProcs
    Monitors <- TwoMonitors
    Budget = 2
    MaxCommands = 2
    FaultSets <- Apart
INVARIANTS
    OneProcess
    OneOwner
    BudgetKept
PROPERTIES
    SpawnOnlyWhenWanted
    Recovers
    LockReleased
CHECK_DEADLOCK FALSE
