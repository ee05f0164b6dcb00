CONSTANTS
    writer = writer
    detector = detector
    s1 = s1
    s2 = s2
    a = a
    b = b
    Groups = {writer, detector}
    Holders = {writer}
    Observers = {detector}
    Standing = {writer}
    Senders = {s1}
    Payloads = {a, b}
    MaxBatch = 2
    MaxLog = 3
    MaxReceive = 2
    Capacity = 1
SYMMETRY Symmetry
SPECIFICATION Spec
INVARIANTS TypeOK NothingHeldIsReleased Bounded AtLeastOnce
PROPERTIES ObserversKeepTheBound KeepsThePromise
CHECK_DEADLOCK TRUE
