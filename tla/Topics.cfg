CONSTANTS
    writer = writer
    s1 = s1
    s2 = s2
    a = a
    Torn = Torn
    Blank = Blank
    Payloads = {a}
    MaxBatch = 2
    MaxLog = 5
    LocalBatch = 2
    Capacity = 1
    Reader = writer
    Senders = {s1, s2}
    MemoryLog = 3
    DiskLog = 4
    MaxReceive = 2
    Segment = 2
    Failures = {}
    Crashes = TRUE
    Cancels = FALSE
    AsProgram = FALSE
    Retention = 4
    MaxCrashes = 1
SPECIFICATION FairSpec
INVARIANTS NoMissedWakeup HeldIsBounded ReaderMissesNothing
PROPERTIES SendsComplete
\* The log of Kafka is at its bound.
CHECK_DEADLOCK FALSE
