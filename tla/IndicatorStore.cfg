CONSTANTS
    FeedOrder <- MCFeedOrder
    Address = 32
    Networks = {8}
    Publications <- MCPublications
    Counted = {TRUE, FALSE}
    CHUNK = 1
    MinCapacity = 2
    Failures = {"read", "generation", "rebuild", "write", "record"}
    MaxPublications = 3
    MaxFaults = 1
SPECIFICATION Spec
CONSTRAINT UntilLookedUp
INVARIANTS TypeOK SeenIsHeld GrowthIsNoted LookupIsOfItsTime
PROPERTIES ReplacesAtOnce
