SPECIFICATION Spec
CONSTANTS
    Blocks <- MCBlocks
    t = t
    a = a
    c = c
    i1 = i1
    NoId = NoId
    Blank = Blank
    Tagged = Tagged
    MaxBlocks = 2
    StallLimit = 1
    StallDeadline = TRUE
    TaskDeadline = TRUE
    ConfiguredMode = "auto"
    NativeImages = TRUE
    None = None
INVARIANTS BlocksKept MergedOnceInOrder
PROPERTIES AbortStopsAttempts CallEnds
CHECK_DEADLOCK FALSE
