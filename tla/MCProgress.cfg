CONSTANTS
    s1 = s1
    s2 = s2
    j1 = j1
    TKEY = TKEY
    Download = Download
    Monitors = {m1}
    Sockets = {s1, s2}
    Ends <- OneFile
    Size <- TwoSizes
    Jobs = {j1}
    Sent <- OneSent
    MaxReports = 3
    Cap = 1
    None = None
SPECIFICATION Spec
INVARIANTS
    WrittenCoversStored
    LastReportIsCurrent
    TimeIsDefined
CHECK_DEADLOCK FALSE
