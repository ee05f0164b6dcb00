CONSTANTS
    Files = {1, 2}
    Sources = {"a"}
    SourceOf <- MCSourceOf
    Lines <- MCLines
    TooLarge = {}
    Capacity = 2
    ReadBatch = 2
    WriteBatch = 2
    MaxRows = 2
    Inserts = 2
    MaxStarts = 2
SPECIFICATION PatientSpec
PROPERTIES Stops
\* Roles that wait only poll, which is no step here.
CHECK_DEADLOCK FALSE
