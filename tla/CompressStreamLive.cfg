SPECIFICATION FairSpec
CONSTANTS
    SplitBlockSize = 1
    SplitSize = 1
    WindowSize = 1
    BlockSizeMax = 1
    HeaderLen = 2
    NoChunk = 100
    JobSizeMin = 3
    JobSizes = {FALSE}
    Ldms = {FALSE}
    Oracles <- Contents
    PrefixLens = {0, 1}
    Pledges = {5}
    MaxInput = 5
    SrcLens = {0, 1, 2, 3, 4, 5}
    Rooms = {0, 1, 100}
    Persistent = TRUE
PROPERTIES
    RepeatingCompletes
