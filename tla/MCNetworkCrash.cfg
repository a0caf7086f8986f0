SPECIFICATION Spec
CONSTANTS
    a = a
    b = b
    Hosts <- TwoHosts
    Sources <- OneSource
    HoldOff = 1
    RepairDelay = 1
    WarnDelay = 1
    MaxEvents = 4
INVARIANTS
    OneRouteEach
PROPERTIES
    RefusalJustified
