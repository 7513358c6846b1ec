--------------------------- MODULE ReplicaInstall ---------------------------
(***************************************************************************)
(* The directory of one process over several lives, in some of which it is *)
(* a Replica and in some a Primary.  A Replica receives a snapshot, puts   *)
(* it under the official name, loads it, cuts or extends its AOF to the    *)
(* snapshot's checkpoint and then follows the Primary; a Primary recovers  *)
(* from the same two files.  Persistence gives the files, the append, SAVE *)
(* and the crashes; Replication has the installation as one step.          *)
(***************************************************************************)
EXTENDS Persistence

CONSTANT MaxUpstream    \* bound: cells of the upstream Primary's AOF

VARIABLES
    role,       \* kvs_server_role of this life; "NONE" while down
    inst,       \* how far this life of a Replica has come
    point,      \* the checkpoint O of the synchronisation
    before,     \* the AOFs before an ftruncate that is not yet durable
    upstream,   \* the AOF of the Primary that is followed
    torn        \* history: the two files may not belong together, since a
                \* snapshot was renamed and the AOF not cut after it, or since
                \* power was lost before both were durable

installVars == <<role, inst, point, before, upstream, torn>>
allVars == <<vars, installVars>>

Stage == {"NONE", "OFFLINE", "RECEIVE", "RENAME", "LOAD", "TRUNCATE", "SYNC",
          "FOLLOW", "GONE"}

InstallInit ==
    /\ Init
    /\ role = "NONE"
    /\ inst = "NONE"
    /\ point = 0
    /\ before = {}
    /\ upstream = <<>>
    /\ torn = FALSE

\* The upstream Primary's engine at an offset of its AOF.
UpstreamDb(off) == Replay(EmptyDb, SubSeq(upstream, 1, off), 0).db

\* The upstream Primary executes and logs a command.
UpstreamWrite(c) ==
    /\ Len(upstream) + CmdLen <= MaxUpstream
    /\ ExecStatus(UpstreamDb(Len(upstream)), c) = "OK"
    /\ upstream' = upstream \o Encode(c)
    /\ UNCHANGED <<vars, role, inst, point, before, torn>>

-----------------------------------------------------------------------------
(* Starts (kvs_server_run).                                                 *)

\* Snapshot and AOF are recovered.
StartPrimary ==
    /\ Start
    /\ role' = "PRIMARY"
    /\ UNCHANGED <<inst, point, before, upstream, torn>>

\* A Replica only opens its AOF; the engine is empty until it synchronises.
StartReplica ==
    /\ proc = "DOWN"
    /\ proc' = "RUNNING"
    /\ offset' = Len(aof)
    /\ role' = "REPLICA"
    /\ inst' = "OFFLINE"
    /\ UNCHANGED <<config, mem, op, aof, synced, named, snap, entries, tmp,
                   crashes>>
    /\ UNCHANGED <<point, before, upstream, torn>>

-----------------------------------------------------------------------------
(* The installation (kvs_replication_finish_full_sync).                     *)

At(stage) == proc = "RUNNING" /\ role = "REPLICA" /\ inst = stage

\* FULLRESYNC_RDMA: the temporary file is opened for the snapshot of the
\* Primary at offset O.
BeginSync ==
    /\ At("OFFLINE")
    /\ inst' = "RECEIVE"
    /\ point' = Len(upstream)
    /\ tmp' = [db |-> UpstreamDb(Len(upstream)), off |-> Len(upstream),
               len |-> 0, durable |-> FALSE]
    /\ UNCHANGED <<config, proc, mem, op, offset, aof, synced, named, snap, entries,
                   crashes, role, before, upstream, torn>>

\* kvs_snapshot_writer_write.
ReceiveChunk ==
    /\ At("RECEIVE") /\ ~Whole(tmp)
    /\ tmp' = [tmp EXCEPT !.len = @ + 1]
    /\ UNCHANGED <<config, proc, mem, op, offset, aof, synced, named, snap, entries,
                   crashes>>
    /\ UNCHANGED installVars

\* Mutant: the file is renamed without an fsync.
BugCommitSync ==
    /\ At("RECEIVE") /\ Whole(tmp)
    /\ inst' = "RENAME"
    /\ UNCHANGED <<config, proc, mem, op, offset, aof, synced, named, snap, entries,
                   tmp, crashes, role, point, before, upstream, torn>>

\* kvs_snapshot_writer_commit: fsync and close ...
CommitSync ==
    /\ At("RECEIVE") /\ Whole(tmp)
    /\ tmp' = [tmp EXCEPT !.durable = TRUE]
    /\ inst' = "RENAME"
    /\ UNCHANGED <<config, proc, mem, op, offset, aof, synced, named, snap, entries,
                   crashes, role, point, before, upstream, torn>>

\* ... and rename.  The directory is not synchronised.
CommitRename ==
    /\ At("RENAME")
    /\ snap' = tmp
    /\ entries' = entries \cup {tmp}
    /\ tmp' = NoFile
    /\ inst' = "LOAD"
    /\ torn' = TRUE
    /\ UNCHANGED <<config, proc, mem, op, offset, aof, synced, named, crashes, role,
                   point, before, upstream>>

\* kvs_install_replication_snapshot: new engines, loaded from the file whose
\* checkpoint has to be O.
Load ==
    /\ At("LOAD")
    /\ Whole(snap) /\ snap.off = point
    /\ mem' = snap.db
    /\ inst' = "TRUNCATE"
    /\ UNCHANGED <<config, proc, op, offset, aof, synced, named, snap, entries, tmp,
                   crashes, role, point, before, upstream, torn>>

\* Mutant: only a longer AOF is cut; a shorter one keeps its length.
BugTruncate ==
    /\ At("TRUNCATE")
    /\ before' = before \cup {aof}
    /\ aof' = IF Len(aof) > point THEN ResetToOffset(aof, point) ELSE aof
    /\ synced' = IF synced < point THEN synced ELSE point
    /\ offset' = Len(aof')
    /\ inst' = "SYNC"
    /\ torn' = FALSE
    /\ UNCHANGED <<config, proc, mem, op, named, snap, entries, tmp, crashes,
                   role, point, upstream>>

\* kvs_aof_reset_to_offset: ftruncate, and the append position moves with it.
Truncate ==
    /\ At("TRUNCATE")
    /\ before' = before \cup {aof}
    /\ aof' = ResetToOffset(aof, point)
    /\ synced' = IF synced < point THEN synced ELSE point
    /\ offset' = point
    /\ inst' = "SYNC"
    /\ torn' = FALSE
    /\ UNCHANGED <<config, proc, mem, op, named, snap, entries, tmp, crashes,
                   role, point, upstream>>

\* kvs_uring_io_sync; CATCH_UP begins.
TruncateSync ==
    /\ At("SYNC")
    /\ SyncAof
    /\ before' = {}
    /\ inst' = "FOLLOW"
    /\ UNCHANGED <<config, proc, mem, op, offset, aof, snap, entries, tmp,
                   crashes, role, point, upstream, torn>>

\* A step fails: the connection is given up, the temporary file unlinked, and
\* an engine that was already loaded is emptied.  The Replica does not connect
\* again in this life.
InstallFails ==
    /\ proc = "RUNNING"
    /\ inst \in {"OFFLINE", "RECEIVE", "RENAME", "LOAD", "TRUNCATE", "SYNC"}
    /\ mem' = EmptyDb
    /\ tmp' = NoFile
    /\ inst' = "GONE"
    /\ UNCHANGED <<config, proc, op, offset, aof, synced, named, snap, entries,
                   crashes, role, point, before, upstream, torn>>

-----------------------------------------------------------------------------
(* Work.                                                                    *)

\* A command of the stream is executed and appended (kvs_replication_command_
\* protocol); the stream begins at O.
Follow ==
    /\ At("FOLLOW")
    /\ CommandAt(upstream, offset)
    /\ ClientWrite(upstream[offset + 1].cmd)
    /\ UNCHANGED installVars

\* A client's write is refused by a Replica.
PrimaryWrite(c) ==
    /\ role = "PRIMARY"
    /\ ClientWrite(c)
    /\ UNCHANGED installVars

\* SAVE, by a client of a Primary or of a Replica that is ONLINE.
Save ==
    /\ \/ (role = "PRIMARY" \/ inst = "FOLLOW") /\ SaveBegin
       \/ SaveWrite \/ SaveSync \/ SaveDone \/ SaveFails
    /\ UNCHANGED installVars

\* The new checkpoint is the end of the AOF.
SaveReplaces ==
    /\ SaveRename
    /\ torn' = FALSE
    /\ UNCHANGED <<role, inst, point, before, upstream>>

LogWrite == AppendWrite /\ UNCHANGED installVars

LogSync == AppendSync /\ before' = {}
           /\ UNCHANGED <<role, inst, point, upstream, torn>>

-----------------------------------------------------------------------------
(* Crashes.                                                                 *)

LifeEnds ==
    /\ role' = "NONE"
    /\ inst' = "NONE"
    /\ UNCHANGED <<point, upstream>>

KillProcess == Kill /\ LifeEnds /\ UNCHANGED <<before, torn>>

\* As in Persistence; an ftruncate that is not durable may also be undone.  A
\* snapshot without the AOF of its checkpoint is torn.
LosePower ==
    /\ Crashed("POWER")
    /\ LogLeftOf(AofsLeft \cup before)
    /\ synced' = Len(aof')
    /\ snap' \in SnapshotsLeft
    /\ entries' = {snap'}
    /\ before' = {}
    /\ torn' = (\/ torn \/ entries # {snap} \/ before # {}
                \/ ~named' /\ snap # NoFile)
    /\ LifeEnds

InstallNext ==
    \/ \E c \in Command : UpstreamWrite(c) \/ PrimaryWrite(c)
    \/ StartPrimary \/ StartReplica
    \/ BeginSync \/ ReceiveChunk \/ CommitSync \/ CommitRename
    \/ Load \/ Truncate \/ TruncateSync \/ InstallFails
    \/ Follow \/ Save \/ SaveReplaces \/ LogWrite \/ LogSync
    \/ KillProcess \/ LosePower

InstallSpec == InstallInit /\ [][InstallNext]_allVars

-----------------------------------------------------------------------------
(* Properties.                                                              *)

\* A Replica that follows serves the Primary's state at its own offset, and the
\* two files it would be promoted with recover to exactly that: whatever an
\* earlier life, as a Replica of another round or as a Primary with a log of its
\* own, had left in the AOF.
FollowerPromotable ==
    At("FOLLOW") /\ op = Idle =>
        /\ mem = UpstreamDb(offset)
        /\ Recovery(snap, aof) = [db |-> mem, ok |-> TRUE]

\* Every snapshot that a crash may leave under the official name is whole, and
\* what a promoted process serves is what its next start would recover, unless
\* an installation ended between the rename and the ftruncate, or power was lost
\* before the rename, the ftruncate or the name of the AOF was durable, and no
\* later installation or SAVE has put it right.  There the checkpoint and the AOF
\* do not belong together and the start does not notice; these are the only cases.
PromotedRecoverable ==
    /\ SnapshotWhole
    /\ role = "PRIMARY" /\ Ready /\ ~torn =>
           Recovery(snap, aof) = [db |-> mem, ok |-> TRUE]
=============================================================================
