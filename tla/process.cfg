CONSTANTS
    NumSlaves = 2
    Slaves <- SomeSlaves
    EC_MAXEEPDO = 4
    MaxCalls = 2
    MaxLost = 2
SPECIFICATION Spec
INVARIANTS
    TypeOK
    ListingRight
    ListingComplete
    EepromGivenBack
PROPERTY SocketClosed
CHECK_DEADLOCK FALSE
