SPECIFICATION Spec
CONSTANTS
    Settings <- FourSettings
    MaxTerm = 2
    MaxQueue = 2
INVARIANTS
    NTypeOK
    UmountIsServed
PROPERTIES
    ServesSoundImage
    LeavesWhenAwake
    DisconnectCloses
    FinalReapReturns
CHECK_DEADLOCK FALSE
