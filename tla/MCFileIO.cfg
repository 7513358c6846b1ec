\* A ring stays closed, and a process that has loaded or failed to load ends.
SPECIFICATION FairFileSpec
CONSTANTS
    Batch <- Batches
    QueueDepth = 2
    MaxRequest = 2
    FileLimit = 5
    MaxCalls = 3
    MaxFaults = 3
    Absent = Absent
    NoOffset = NoOffset
INVARIANTS
    NothingLeftBehind
    SnapshotExact
PROPERTIES
    Refines
    CallsReturn
CHECK_DEADLOCK FALSE
