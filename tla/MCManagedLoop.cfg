SPECIFICATION MCSpec
CONSTANTS
    Requests = {r1, r2, r3}
    HandoffRequests = {}
    r2 = r2
    r3 = r3
    i1 = i1
    i2 = i2
    a = a
    b = b
    x = x
    NoId = NoId
    None = None
    ModelIds <- MCIds
    Sigs <- MCSigs
    Turns <- SharedTurns
    Finals = {f1}
    MaxRounds = 2
    ProbeEnabled = FALSE
    ProbeLimit = 1
    RetryLimit = 0
    TaskDeadline = FALSE
INVARIANTS
    AtMostOnce
    HistoryPaired
    ClientSeesPairs
    CandidateKept
PROPERTIES
    EveryRequestEnds
CHECK_DEADLOCK FALSE
