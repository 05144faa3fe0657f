SPECIFICATION FairSpec
CONSTANTS
    Publisher = {p1, p2}
    Handlers = 1
    Wildcards = 1
    BatchSize = 2
    MaxEvents = 3
    MaxPerCall = 2
    MaxReplays = 1
    MaxFaults = 1
INVARIANTS NumbersTellEvents HandledInOrder EffectsFollowStatus ReplaysAreGapless
PROPERTIES EventsSettle
CHECK_DEADLOCK FALSE
