SPECIFICATION FairSpec
CONSTANTS
    Workers = {w1, w2}
    Frames <- MCFrames
    Variant <- MCVariant
    Ahead = 1
    MaxCalls = 0
    MaxCells = 6
INVARIANTS
    OutputIsSerial
    ScratchIsSerial
    FailuresAreReal
    CellsExclusive
PROPERTIES
    CallReturns
