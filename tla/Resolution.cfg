CONSTANTS
    Identifiers = {1, 2, 3, 4, 5}
    Strong = {1, 2, 3, 4}
    FormOf <- MCForm
    SharedOver = 1
    Claims <- MCClaims
    Files <- MCFiles
    Unusable = Unusable
    Kept = 2
    MaxClaims = 3
    MaxRuns = 3
    MaxEdits = 1
    MaxFailures = 1
SPECIFICATION FairSpec
INVARIANTS HeldApart GroupsAreAsShown KeptAreWhole
PROPERTIES CorrectionIsRead
\* No run begins after the last.
CHECK_DEADLOCK FALSE
