SPECIFICATION Spec
CONSTANTS
    Threads = {t1, t2, t3}
    Frames = {f1}
    JobCounts = {1, 4}
    MaxCalls = 2
    MaxPanics = 2
SYMMETRY SymmetricThreads
INVARIANTS
    ClaimedJobIsReady
    CallComplete
PROPERTIES
    ContextsBounded
CHECK_DEADLOCK FALSE
