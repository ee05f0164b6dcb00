CONSTANTS
    source = source
    target = target
    a = a
    b = b
    c = c
    Entities = {source, target, a, b, c}
    Source = source
    Target = target
    Graphs <- Line
    Depth = 2
    Most = 4
    HubOver = 4
    Frontier = 4
    Rows = 20
    MaxSeen = 0
    MaxResolutions = 1
SPECIFICATION FairRequest
PROPERTIES Answers
\* A request ends.
CHECK_DEADLOCK FALSE
