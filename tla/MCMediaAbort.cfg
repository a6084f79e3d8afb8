SPECIFICATION Spec
CONSTANTS
    r1 = r1
    r2 = r2
    r3 = r3
    k1 = k1
    k2 = k2
    None = None
    Requests <- MCRequests
    Keys <- MCKeys
    KeyOf <- MCKeyOf
    Flaky <- MCFlaky
    Limit = 1
    MaxCalls <- MCMaxCalls
INVARIANTS
    NoForeignAbort
CHECK_DEADLOCK FALSE
