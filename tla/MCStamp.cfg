CONSTANTS
    Requests = {r1, r2}
    Goes = {g1}
    Monitors = {m1}
    MaxFirings = 2
    Cap = 1
    None = None
SPECIFICATION FairStampSpec
INVARIANTS
    ResultOnce
    CrashOnlyIfRepeated
PROPERTIES
    ResultHandled
    StampReturns
    HandlerEnds
CHECK_DEADLOCK FALSE
