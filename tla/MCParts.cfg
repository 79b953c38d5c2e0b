CONSTANTS
    Values = {0, 1, 2}
    Cuts <- SmallCuts
    Divisor <- SmallDivisor
    FileCap = 4
    Histories <- FewHistories
    ReadMax = 6
    HeaderSize = 2
    Radix = 2
    MaxMessages = 5
    NoFile = NoFile
SPECIFICATION Spec
INVARIANTS
    Partition
    CutAtExtremum
    LinkContent
    JoinRestores
    FileComesFirst
PROPERTY
    LinkEnds
CHECK_DEADLOCK FALSE
