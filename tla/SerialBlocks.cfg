SPECIFICATION Spec
CONSTANTS
    SplitBlockSize = 8
    SplitSize = 7
    Tables = {"of"}
    DefaultMaxOff = 3
    Heuristic = FALSE
    BlockSizeMax = 8
    ChunkSize = 16
    HeaderLen = 2
    PreSplit = FALSE
    Cuts <- NoCuts
    Split = TRUE
    Threes = {FALSE, TRUE}
    MinLog = 3
    RleMax = 2
    JobStarts = {"First", "Dict", "Later"}
    Content = 4
    DictRep <- DictReps
    DictHuf = {1, 2}
    DictOf <- AllCodes
    DecoderReps <- HeldReps
    Inputs <- OneCall
    Offsets = {2, 13}
    Reaches = {4, 100}
    MaxSeqs = 2
    Bounds = {9}
    Sizes = {1}
    LitSymbols = {1, 2}
INVARIANTS
    MatchesDecodeAsFound
    CommittedTablesAreTheDecoders
    SectionsAreDecodable
CHECK_DEADLOCK FALSE
