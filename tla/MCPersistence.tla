--------------------------- MODULE MCPersistence ----------------------------
(* Small instances of Persistence for TLC. *)
EXTENDS Persistence

CONSTANTS k1, k2, v1, v2

Life(m, c, n) == [mode |-> m, crashes |-> c, names |-> n]

\* Every mode with every crash, except that in the hybrid mode kills and power
\* losses do not meet in one life of the files, and that a log that meets power
\* losses is on a file system whose fsync makes the name of a new file durable.
Lives == {Life("SNAPSHOT", {"KILL", "POWER"}, "DIRECTORY"),
          Life("AOF", {"KILL", "POWER"}, "FSYNC"),
          Life("AOF", {"KILL"}, "DIRECTORY"),
          Life("LEGACY_HYBRID", {"KILL"}, "DIRECTORY"),
          Life("LEGACY_HYBRID", {"POWER"}, "FSYNC")}

\* The hybrid mode with both.
HybridBoth == {Life("LEGACY_HYBRID", {"KILL", "POWER"}, "FSYNC")}

\* Both modes with a log where only an fsync of the directory makes a name durable.
NewName == {Life("AOF", {"POWER"}, "DIRECTORY"),
            Life("LEGACY_HYBRID", {"POWER"}, "DIRECTORY")}
=============================================================================
