SPECIFICATION FairSpec
CONSTANTS
    Threads = {t1, t2}
    Frames = {f1, f2}
    JobCounts = {1, 2}
    MaxCalls = 1
    MaxPanics = 1
INVARIANTS
    OneJobPerThread
PROPERTIES
    CallsReturn
CHECK_DEADLOCK FALSE
