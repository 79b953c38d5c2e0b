CONSTANTS
    MKEY = MKEY
    Handlers = {h1}
    Sockets = {s1}
    MaxMessages = 3
    MaxSent = 3
    MaxLost = 2
    Cap = 2
    None = None
SPECIFICATION FairSpec
INVARIANTS
    TypeOK
    InOrder
    Complete
    StrandedByTwoLosses
    ShutdownStopsReading
PROPERTIES
    OwedIsHandled
CHECK_DEADLOCK FALSE
