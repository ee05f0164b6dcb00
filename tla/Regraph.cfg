CONSTANTS
    DISORDER = 3
    WINDOW = 3
    SETTLED = 1
    ReadBack = {}
    Batch = 1
    Lateness = 1
    StoreLag = 1
    OthersRun = FALSE
    Instants = {0, 1, 2, 5}
    MaxLog = 2
    MaxCrashes = 1
SPECIFICATION FairSpec
INVARIANT OnlyTheUnsettledIsForgotten
PROPERTY EveryRangeIsRead
\* Time ends.
CHECK_DEADLOCK FALSE
