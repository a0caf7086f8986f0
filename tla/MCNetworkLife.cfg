SPECIFICATION LifeSpec
CONSTANTS
    a = a
    b = b
    Hosts <- OneHost
    Sources <- TwoSources
    HoldOff = 2
    RepairDelay = 1
    WarnDelay = 2
    MaxEvents = 3
PROPERTIES
    Settles
    ImplementsRouteSignal
    AddressChangeIsAnnounced
