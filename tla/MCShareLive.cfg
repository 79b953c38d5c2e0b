CONSTANTS
    r1 = r1
    r2 = r2
    t1 = t1
    t2 = t2
    IKEY = IKEY
    SKEY = SKEY
    MaxSeeds = 0
    Requests = {r1}
    Trackers = {t1, t2}
    Posts = {p1}
    Kind <- OneKind
    Urls <- OneUrls
    Tcps <- NoTcps
    Size <- OneSize
    Listing <- OneEntry
    Window = 1
    None = None
SPECIFICATION FairSpec
PROPERTIES
    
    TransferAnswered
    StopEnds
CHECK_DEADLOCK FALSE
