CONSTANTS
    r1 = r1
    r2 = r2
    t1 = t1
    t2 = t2
    IKEY = IKEY
    SKEY = SKEY
    MaxSeeds = 0
    Requests = {r1}
    Trackers = {t1}
    Posts = {p1}
    Kind <- OneKind
    Urls <- ToldUrls
    Tcps <- OneTcps
    Size <- OneSize
    Listing <- OneListing
    Window = 1
    None = None
SPECIFICATION Spec
INVARIANTS
    TrackingFirst
CHECK_DEADLOCK FALSE
