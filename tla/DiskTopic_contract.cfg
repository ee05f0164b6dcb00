CONSTANTS
    writer = writer
    detector = detector
    s1 = s1
    a = a
    b = b
    Torn = Torn
    Blank = Blank
    Groups = {writer, detector}
    Holders = {writer}
    Observers = {detector}
    Standing = {writer}
    Senders = {s1}
    Payloads = {a}
    MaxBatch = 2
    MaxLog = 3
    MaxReceive = 2
    Capacity = 1
    Segment = 2
    Failures = {"sync", "remove"}
    AsProgram = FALSE
    Cancels = FALSE
    Crashes = TRUE
SYMMETRY Symmetry
SPECIFICATION Spec
PROPERTIES KeepsThePromise
\* A topic whose deletions fail may refuse to open again.
CHECK_DEADLOCK FALSE
