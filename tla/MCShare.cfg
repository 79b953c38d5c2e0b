CONSTANTS
    r1 = r1
    r2 = r2
    t1 = t1
    t2 = t2
    IKEY = IKEY
    SKEY = SKEY
    MaxSeeds = 1
    Requests = {r1, r2}
    Trackers = {t1, t2}
    Posts = {p1, p2}
    Kind <- TwoKinds
    Urls <- TwoUrls
    Tcps <- TwoTcps
    Size <- TwoSizes
    Listing <- TwoListings
    Window = 1
    None = None
SPECIFICATION Spec
CONSTRAINT
    Occasion
SYMMETRY
    Alike
INVARIANTS
    TypeOK
    DoneMeansSent
    OneDirectory
    NeverOlderDirectory
    SizeComesFirst
CHECK_DEADLOCK FALSE
