SPECIFICATION Spec
CONSTANTS
    Tools = {t1, t2}
    MaxUpdates = 0
    FinalBlocks = 1
    None = None
INVARIANTS
    NoIndexReuse
CHECK_DEADLOCK FALSE
