SPECIFICATION Spec
CONSTANTS
    Pages = 2
    PageBatch = 2
    Tiles = 2
INVARIANTS
    NothingPartialPersisted
CHECK_DEADLOCK FALSE
