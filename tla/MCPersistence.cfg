CONSTANTS
    Key = {k1, k2}
    Value = {v1, v2}
    k1 = k1
    k2 = k2
    v1 = v1
    v2 = v2
    Absent = Absent
    Capacity = 1
    CmdLen = 2
    NoFile = NoFile
    SnapLen = 2
    Scenario <- Lives
    Down = Down
    MaxAof = 6
    MaxCrashes = 3
SPECIFICATION Spec
CHECK_DEADLOCK FALSE
INVARIANTS
    TypeOK
    RestartRecoversAll
    CheckpointInLog
    SnapshotWhole
PROPERTIES
    Survives
