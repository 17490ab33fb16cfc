CONSTANTS
    Streams <- MCStreams
    MaxBlock = 2
    Overlength = 1
    MarginBlocks = 1
    PrefixLen = 2
    DictLen = 2
    WindowMax = 3
    Gives = {1, 3, 20}
    Rooms = {0, 1, 4}
    MaxResets = 1
SPECIFICATION FairSpec
INVARIANTS Delivered HistoryIntact FramesReported VerdictIsOneShot
PROPERTY Completes
