SPECIFICATION Spec
CONSTANTS
    CurrentMax = 13
    OverflowMargin = 1
    HashReadSize = 0
    U32 = 16
    CParams <- LargeParams
    NWords = 1
    Origins = {0}
    MaxLen = 1
    MaxContent = 18
    MaxPos = 20
    MaxCorrections = 2
    TooLargeDuration = 1
    UpdateLag = 1
    UpdateKeep = 1
INVARIANT
    IndexFits
CHECK_DEADLOCK FALSE
