CONSTANTS
    Key = {k1}
    Value = {v1}
    k1 = k1
    v1 = v1
    v2 = v2
    Absent = Absent
    Capacity = 1
    CmdLen = 1
    Replica = {r1, r2}
    NoConn = NoConn
    NotServing = NotServing
    SnapSize = 1
    ChunkCap = 1
    ReadCap = 3
    OldAof <- NoOldAof
    MaxAof = 1
    MaxFaults = 1
    ConnectInTime = FALSE
SPECIFICATION FairSpec
CHECK_DEADLOCK FALSE
PROPERTIES
    RoundEnds
    SlotReleased
