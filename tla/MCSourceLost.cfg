SPECIFICATION StoresSpec
CONSTANTS
    Sharing <- MCSharing
    Requests = {1, 2, 3, 4}
    Sessions = {1, 2, 3}
    Nobody = nobody
    Waiting = waiting
    Refused = refused
    MaxRemembered = 1
    MaxSessions = 2
    MaxTools = 1
    TTL = 2
    MaxNow = 3
    MaxSize = 2
    Retention = 1
    MaxClock = 2
    Callers = {c1}
    Clients = {q1}
    Keys = {k1, k2}
    Values = {v1, v2}
    None = None
    Torn = Torn
    Calls = {p1, p2, p3, p4}
    Assets = {a1, a2}
    Recoveries = {w1}
    Saved = {a1, w1}
    Contents = {e1}
    MaxCalls = 1
    MaxCrashes = 1
    ValueSize <- MCSize
    CacheBytes = 3
    Sizes <- MCSizes
    MaxKept = 2
    KeptBytes = 5
    BytesPerSession = 3
    MaxTime = 3
    MaxEntries = 2
    BlobBytes = 1
SYMMETRY Symmetry
INVARIANTS
    LastPutWins
CHECK_DEADLOCK FALSE
