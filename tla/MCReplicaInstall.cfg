SPECIFICATION InstallSpec
CONSTANTS
    Key = {k1}
    Value = {v1, v2}
    k1 = k1
    v1 = v1
    v2 = v2
    Absent = Absent
    Capacity = 1
    CmdLen = 2
    NoFile = NoFile
    SnapLen = 1
    Scenario <- EitherCrash
    Down = Down
    MaxAof = 4
    MaxCrashes = 2
    MaxUpstream = 4
CHECK_DEADLOCK FALSE
INVARIANTS
    FollowerPromotable
    PromotedRecoverable
