CONSTANTS
    Keys = {k1}
    Chans = {c1, c2}
    Publishers = {g1, g2}
    MaxParcels = 3
    None = None
SPECIFICATION FairSpec
INVARIANTS
    TypeOK
    AtMostOnce
    NothingOlder
    ReplayedOnce
    NothingLost
PROPERTIES
    ImplementsTopic
    PublishReturns
CHECK_DEADLOCK FALSE
