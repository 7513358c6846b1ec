CONSTANTS
    Key = {k1}
    Value = {v1, v2}
    k1 = k1
    v1 = v1
    v2 = v2
    Absent = Absent
    Capacity = 1
    CmdLen = 2
    Replica = {r1, r2}
    NoConn = NoConn
    NotServing = NotServing
    SnapSize = 2
    ChunkCap = 1
    ReadCap = 3
    OldAof <- OldAofs
    MaxAof = 4
    MaxFaults = 1
    ConnectInTime = FALSE
SPECIFICATION Spec
SYMMETRY Symmetry
CHECK_DEADLOCK FALSE
INVARIANTS
    TypeOK
    ReadersInBounds
    ReplicaPrefix
    Promotable
    ReceiverReady
    SnapshotToSlotOwner
    ReceivedPrefix
    DisconnectAfterInstall
    OnlineAccepted
PROPERTIES
    SnapshotFrozen
    Refines
