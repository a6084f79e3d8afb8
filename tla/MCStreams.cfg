SPECIFICATION StreamsSpec
CONSTANTS
    Tools = {t1, t2}
    MaxUpdates = 3
    FinalBlocks = 2
    None = None
    Completions = 2
    UpstreamCalls = {0, 1}
    Deltas <- MCDeltas
    MaxIndex = 1
    MaxFrames = 3
    MaxEvents = 8
    MaxMessages = 5
    Ids = {"a", "b"}
INVARIANTS
    TimelineIsPrefix
    EndsWithVerdict
    StreamsTranslated
    HistoriesTranslated
PROPERTIES
    StreamWellFormed
    StreamEnds
CHECK_DEADLOCK FALSE
