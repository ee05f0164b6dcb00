CONSTANTS
    Files = {1, 2, 4}
    Sources = {"a"}
    SourceOf <- MCSourceOf
    Lines <- MCLines
    TooLarge = {4}
    Capacity = 2
    ReadBatch = 2
    WriteBatch = 2
    MaxRows = 2
    Inserts = 2
    MaxStarts = 2
SPECIFICATION FairSpec
INVARIANTS TypeOK AcknowledgedIsStored NothingCollectedIsLost RepeatedByRestartsOnly WriterIsBounded
PROPERTIES EverythingIsStored
\* Roles that wait only poll, which is no step here.
CHECK_DEADLOCK FALSE
