SPECIFICATION Spec
CONSTANTS
    SplitBlockSize = 2
    SplitSize = 1
    WindowSize = 2
    BlockSizeMax = 2
    HeaderLen = 2
    NoChunk = 100
    JobSizeMin = 3
    JobSizes = {FALSE, TRUE}
    Ldms = {FALSE}
    Oracles <- Contents
    PrefixLens = {0, 1}
    Pledges = {3}
    MaxInput = 13
    SrcLens = {0, 1, 6}
    Rooms = {1, 100}
    Persistent = FALSE
INVARIANTS
    SameAsOneShot
    WellFormedFrame
    HistoryKept
    ReturnIsExact
