SPECIFICATION Spec
CONSTANTS
    SegmentFrames = 1
    MaxSegments = 2
    MaxTotalFrames = 3
    MaxFaults = 1
    NameMax = 3
    OperationIds = {"o1"}
    Applied <- OneContent
    Seeded = TRUE
    MaxRequests = 3
    MaxCrashes = 1
INVARIANTS
    AcknowledgedIsKept
    HistoryTellsTruth
PROPERTIES
    EffectNeedsIntent
