SPECIFICATION Spec
CONSTANTS
    Blocks <- MCBlocks
    t = t
    a = a
    c = c
    i1 = i1
    NoId = NoId
    Blank = Blank
    Tagged = Tagged
    MaxBlocks = 1
    StallLimit = 1
    StallDeadline = TRUE
    TaskDeadline = FALSE
    ConfiguredMode = "auto"
    NativeImages = TRUE
    None = None
PROPERTY StallNeedsResponse
CHECK_DEADLOCK FALSE
