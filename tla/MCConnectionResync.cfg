SPECIFICATION Spec
CONSTANTS
    Request <- OneBadFrame
    Limit = 4
    BufferLength = 2
    Threshold = 2
    Listeners = {"OTHER"}
    StopAndWait = TRUE
    MaxRequests = 2
CHECK_DEADLOCK FALSE
INVARIANTS
    UsableAfterError
