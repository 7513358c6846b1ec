\* A connection that is closed stays closed.
SPECIFICATION FairNetworkSpec
CONSTANTS
    Conn = {c1, c2, c3}
    NULL = NULL
    CloseFails = TRUE
    MaxFaults = 5
INVARIANTS
    RepliesInOrder
    ResourcesOwned
PROPERTIES
    AllAnswered
    IdentifiedOrClosed
    SyncAgain
CHECK_DEADLOCK FALSE
