CONSTANTS
    source = source
    target = target
    a = a
    b = b
    c = c
    Entities = {source, target, a, b, c}
    Source = source
    Target = target
    Graphs <- AnyGraph
    Depth = 2
    Most = 4
    HubOver = 2
    Frontier = 1
    Rows = 4
    MaxSeen = 2
    MaxResolutions = 1
CONSTRAINT UntilResolved
SYMMETRY Symmetry
SPECIFICATION SpecRequest
INVARIANTS PathIsOfLinks NothingShorter WalkIsWhole
\* A request ends.
CHECK_DEADLOCK FALSE
