SPECIFICATION MediaSpec
CONSTANTS
    r1 = r1
    r2 = r2
    r3 = r3
    k1 = k1
    k2 = k2
    None = None
    Requests <- MCRequests
    Keys <- MCKeys
    KeyOf <- MCKeyOf
    Flaky <- MCFlaky
    Limit = 1
    MaxCalls <- MCMaxCalls
    Images = {i1, i2}
    Analyses = 2
    RoundLimit = 2
    RetryLimit = 2
    BatchLimit = 2
    CropsPerRoot = 3
    DepthLimit = 2
    Pages = 3
    PageBatch = 2
    Tiles = 2
INVARIANTS
    SingleFlight
    WaitersCounted
    PermitsReturned
    VisionBounded
    PromiseKept
    OnlyCompleteKept
    PagesCovered
PROPERTIES
    AdmissionIsSemaphore
    CancelledByTheLast
    MediaEnds
CHECK_DEADLOCK FALSE
