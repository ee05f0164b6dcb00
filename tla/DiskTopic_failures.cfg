CONSTANTS
    writer = writer
    detector = detector
    s1 = s1
    a = a
    b = b
    Torn = Torn
    Blank = Blank
    Groups = {writer}
    Holders = {writer}
    Observers = {}
    Standing = {writer}
    Senders = {s1}
    Payloads = {a, b}
    MaxBatch = 2
    MaxLog = 5
    MaxReceive = 2
    Capacity = 2
    Segment = 2
    Failures = {"write", "create", "offset"}
    AsProgram = FALSE
    Cancels = TRUE
    Crashes = TRUE
SYMMETRY Symmetry
SPECIFICATION Spec
INVARIANTS TypeOK AlwaysOpens DiskIsTheLog NothingHeldIsLost AtLeastOnce LocatedIsReadable
PROPERTIES StaysBounded
