SPECIFICATION FairSpec
CONSTANTS
    Xids = {1, 2}
    Version = 13
    Kinds = {"FLOW", "DESC"}
    MaxItems = 3
    ItemLength = 1
    Threshold = 2
    MaxLength = 2
    SegmentsMax = 3
    SegmentsTimeout = 1
    Timeouts = {1, 2}
    MaxTime = 3
    Slow = TRUE
    SameExpiry = FALSE
CHECK_DEADLOCK FALSE
INVARIANTS TablesTimed RepliesWhole
PROPERTIES RequestsEnd
