CONSTANTS
    DISORDER = 2
    WINDOW = 5
    LOOK_BACK_WINDOW = 4
    LookBack = 5
    Batch = 1
    Lateness = 1
    StoreLag = 0
    Instants = {0, 1, 6}
    MaxLog = 2
    MaxFeeds = 2
    MaxCrashes = 1
SPECIFICATION Spec
INVARIANTS SettledIsNotForgotten StoredIsLookedBackAt
\* Time ends.
CHECK_DEADLOCK FALSE
