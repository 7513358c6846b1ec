\* Two engines that differ in what they refuse; the array holds one key.
\* The parser is done when the bound on its input is reached.
SPECIFICATION ServerSpec
CONSTANTS
    Key = {"k1", "k2"}
    Value = {"v1"}
    Absent = "NULL"
    Engine = {"array", "hash"}
    ArraySize = 1
    MaxLog = 3
INVARIANTS
    AcceptedInOrder
    CleanExit
    LogRepeats
    ParserExact
PROPERTIES
    RefusedUnchanged
CHECK_DEADLOCK FALSE
