SPECIFICATION FairSpec
CONSTANTS
    SplitBlockSize = 8
    SplitSize = 7
    Tables = {}
    DefaultMaxOff = 3
    Heuristic = FALSE
    BlockSizeMax = 8
    ChunkSize = 16
    HeaderLen = 2
    PreSplit = TRUE
    Cuts <- SomeCuts
    Split = TRUE
    Threes = {FALSE}
    MinLog = 3
    RleMax = 2
    JobStarts = {"First", "Dict"}
    Content = 4
    DictRep <- DictReps
    DictHuf = {1, 2}
    DictOf <- AllCodes
    DecoderReps <- HeldReps
    Inputs <- ManyCalls
    Offsets = {}
    Reaches = {1, 100}
    MaxSeqs = 2
    Bounds = {1, 5}
    Sizes = {1, 5}
    LitSymbols = {1, 2}
    MinOverlap = 7
INVARIANTS
    ProofsHold
PROPERTIES
    PipelineIsSerial
    CallReturns
CHECK_DEADLOCK FALSE
