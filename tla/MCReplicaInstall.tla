-------------------------- MODULE MCReplicaInstall --------------------------
(* Small instances of ReplicaInstall for TLC. *)
EXTENDS ReplicaInstall

CONSTANTS k1, v1, v2

\* One kind of crash in the life of the files, on either kind of file system.
EitherCrash == [mode : {"LEGACY_HYBRID"}, crashes : {{"KILL"}, {"POWER"}},
                names : {"FSYNC", "DIRECTORY"}]
=============================================================================
