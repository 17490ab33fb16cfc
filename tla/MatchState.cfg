SPECIFICATION Spec
CONSTANTS
    CurrentMax = 9
    OverflowMargin = 2
    HashReadSize = 1
    U32 = 17
    CParams <- ShapeParams
    NWords = 2
    Origins = {0}
    MaxLen = 2
    MaxContent = 3
    MaxPos = 5
    MaxCorrections = 2
    TooLargeDuration = 1
    UpdateLag = 1
    UpdateKeep = 1
INVARIANTS
    VouchedBelowEnd
    NoStaleHit
    IndexFits
    WindowIntact
    DictOnlyWithinWindow
PROPERTIES
    CorrectionKeepsTables
CHECK_DEADLOCK FALSE
