---------------------------- MODULE Persistence -----------------------------
(***************************************************************************)
(* Persistence of one standalone or Primary process: the engine in memory, *)
(* the append-only file, the snapshot file, SAVE, the crashes that may cut *)
(* any of them, and the recovery at the next start.                        *)
(*                                                                         *)
(* The process is one thread: while it appends a command or saves a        *)
(* snapshot it does nothing else, but it may die at every system call.     *)
(* KILL ends the process and leaves the files as the kernel sees them;     *)
(* POWER also loses what no fsync had made durable, the name of a new AOF  *)
(* included: whether an fsync of the file makes its name durable too, or   *)
(* only one of its directory, is up to the file system.                    *)
(***************************************************************************)
EXTENDS KVEngine

CONSTANTS
    NoFile,      \* a name that does not exist in the working directory
    SnapLen,     \* cells of a snapshot file
    Scenario,    \* a persistence mode, the crashes that happen, and what makes
                 \* the name of a new file durable
    Down,        \* what clients see of a process that does not run
    MaxAof,      \* bound: cells of the AOF
    MaxCrashes   \* bound: crashes

ASSUME PersistenceAssumption ==
    /\ SnapLen \in Nat \ {0}
    /\ Scenario \subseteq [mode : {"SNAPSHOT", "AOF", "LEGACY_HYBRID"},
                           crashes : SUBSET {"KILL", "POWER"},
                           names : {"FSYNC", "DIRECTORY"}]
    /\ Down \notin Database
    /\ MaxAof \in Nat
    /\ MaxCrashes \in Nat

VARIABLES
    config,      \* kvs_persistence_mode, the crashes of this life, the file system
    proc,        \* DOWN, RUNNING, or REFUSED: recovery failed at start
    mem,         \* the engine in memory
    op,          \* what the thread is doing
    offset,      \* aof_writer.offset
    aof,         \* the AOF as the kernel sees it
    synced,      \* how many of its cells are durable
    named,       \* a power loss cannot take its name; so in the snapshot mode,
                 \* which has none
    snap,        \* the file under the snapshot's name
    entries,     \* the files a power loss may leave under that name
    tmp,         \* the temporary file of a SAVE
    crashes      \* how many crashes have happened

vars == <<config, proc, mem, op, offset, aof, synced, named, snap, entries,
          tmp, crashes>>

mode == config.mode

-----------------------------------------------------------------------------
(* Files.  A snapshot file is whole when all its cells are there: header,   *)
(* records and CRC; off is -1 in a snapshot without a checkpoint.           *)

Snapshot == [db : Database, off : Nat \cup {-1}, len : 0 .. SnapLen,
             durable : BOOLEAN]

ASSUME NoFileAssumption == NoFile \notin Snapshot

\* snapshot_validate: length, record count and CRC agree.
Whole(file) == file.len = SnapLen

Idle      == [kind |-> "IDLE"]
AppendOp  == [kind : {"APPEND"}, cmd : Command, before : Database,
              written : 0 .. CmdLen]
SaveOp    == [kind : {"SAVE"}, stage : {"WRITE", "RENAME", "SYNCDIR"}]

\* TypeOK: the types of the files, of the engine and of the thread's progress.
TypeOK ==
    /\ config \in Scenario
    /\ proc \in {"DOWN", "RUNNING", "REFUSED"}
    /\ mem \in Database
    /\ op \in {Idle} \cup AppendOp \cup SaveOp
    /\ offset \in 0 .. Len(aof)
    /\ aof \in Seq(Cell)
    /\ synced \in 0 .. Len(aof)
    /\ named \in BOOLEAN
    /\ snap \in Snapshot \cup {NoFile}
    /\ entries \subseteq Snapshot \cup {NoFile}
    /\ tmp \in Snapshot \cup {NoFile}
    /\ crashes \in Nat

Init ==
    /\ config \in Scenario
    /\ proc = "DOWN"
    /\ mem = EmptyDb
    /\ op = Idle
    /\ offset = 0
    /\ aof = <<>>
    /\ synced = 0
    /\ named = (mode = "SNAPSHOT")
    /\ snap = NoFile
    /\ entries = {NoFile}
    /\ tmp = NoFile
    /\ crashes = 0

-----------------------------------------------------------------------------
(* Start (kvs_server_run).                                                  *)

\* What the files recover to and whether the start succeeds: snapshot.bin
\* alone, commands.aof alone, or snapshot.db and the rest of appendonly.aof
\* behind its checkpoint.  A missing file is an empty one; a file that is not
\* whole, a torn command or one that does not return OK refuses the start.
Recovery(file, log) ==
    LET loads  == \/ file = NoFile
                  \/ Whole(file) /\ (mode = "LEGACY_HYBRID" => file.off >= 0)
        base   == IF file = NoFile \/ mode = "AOF" THEN EmptyDb ELSE file.db
        start  == IF file = NoFile \/ mode = "AOF" THEN 0 ELSE file.off
        end    == Replay(base, log, start)
    IN  IF mode = "SNAPSHOT" THEN [db |-> base, ok |-> loads]
        ELSE [db |-> end.db,
              ok |-> (mode = "AOF" \/ loads) /\ end.pos = Len(log)]

\* kvs_aof_open takes the length of the existing file as the next offset.
Start ==
    /\ proc = "DOWN"
    /\ LET found == Recovery(snap, aof) IN
       /\ proc' = IF found.ok THEN "RUNNING" ELSE "REFUSED"
       /\ mem' = IF found.ok THEN found.db ELSE EmptyDb
       /\ offset' = IF found.ok THEN Len(aof) ELSE 0
    /\ UNCHANGED <<config, op, aof, synced, named, snap, entries, tmp, crashes>>

Ready == proc = "RUNNING" /\ op = Idle

-----------------------------------------------------------------------------
(* A client's write (kvs_filter_protocol, kvs_aof_append).                  *)

\* The engine first, then the AOF unless the mode is snapshot.
ClientWrite(c) ==
    /\ Ready
    /\ Len(aof) + CmdLen <= MaxAof
    /\ ExecStatus(mem, c) = "OK"
    /\ mem' = Execute(mem, c)
    /\ op' = IF mode = "SNAPSHOT" THEN Idle
             ELSE [kind |-> "APPEND", cmd |-> c, before |-> mem, written |-> 0]
    /\ UNCHANGED <<config, proc, offset, aof, synced, named, snap, entries, tmp,
                   crashes>>

\* A write request of kvs_uring_io_write_batch completes, perhaps in part; the
\* rest is submitted again.
AppendWrite ==
    /\ op.kind = "APPEND"
    /\ op.written < CmdLen
    /\ aof' = SubSeq(aof, 1, offset + op.written)
                \o <<Encode(op.cmd)[op.written + 1]>>
                \o SubSeq(aof, offset + op.written + 2, Len(aof))
    /\ op' = [op EXCEPT !.written = @ + 1]
    /\ UNCHANGED <<config, proc, mem, offset, synced, named, snap, entries, tmp,
                   crashes>>

\* An fsync of the AOF completes: its cells are durable, and its name where the
\* file system sees to that.  kvs_aof_open may have created the file; nothing on
\* the way of an append synchronises the directory.
SyncAof ==
    /\ synced' = Len(aof)
    /\ named' = (named \/ config.names = "FSYNC")

\* Mutant: the reply does not wait for the fsync.
BugAppendWithoutSync ==
    /\ op.kind = "APPEND"
    /\ op.written = CmdLen
    /\ offset' = offset + CmdLen
    /\ op' = Idle
    /\ UNCHANGED <<config, proc, mem, aof, synced, named, snap, entries, tmp, crashes>>

\* Mutant: the offset is not advanced, so that the next command overwrites.
BugAppendSameOffset ==
    /\ op.kind = "APPEND"
    /\ op.written = CmdLen
    /\ SyncAof
    /\ op' = Idle
    /\ UNCHANGED <<config, proc, mem, offset, aof, snap, entries, tmp, crashes>>

\* kvs_uring_io_sync completes, the offset moves on and the client is answered.
AppendSync ==
    /\ op.kind = "APPEND"
    /\ op.written = CmdLen
    /\ SyncAof
    /\ offset' = offset + CmdLen
    /\ op' = Idle
    /\ UNCHANGED <<config, proc, mem, aof, snap, entries, tmp, crashes>>

-----------------------------------------------------------------------------
(* SAVE (kvs_save_current_snapshot, kvs_snapshot_store_save_with_checkpoint)*)

\* Mutant: the checkpoint is one cell too far.
BugCheckpoint == IF mode = "LEGACY_HYBRID" THEN offset + 1 ELSE -1

\* The checkpoint that the current offset gives to a snapshot.
Checkpoint == IF mode = "LEGACY_HYBRID" THEN offset ELSE -1

\* mkstemp.  SAVE is refused in the aof mode.
SaveBegin ==
    /\ Ready
    /\ mode # "AOF"
    /\ tmp' = [db |-> mem, off |-> Checkpoint, len |-> 0, durable |-> FALSE]
    /\ op' = [kind |-> "SAVE", stage |-> "WRITE"]
    /\ UNCHANGED <<config, proc, mem, offset, aof, synced, named, snap, entries,
                   crashes>>

SaveStage(stage) == op.kind = "SAVE" /\ op.stage = stage

\* Mutant: the last buffer is flushed again.
BugFlushAgain ==
    /\ SaveStage("WRITE")
    /\ tmp' = [tmp EXCEPT !.len = @ + 1]
    /\ UNCHANGED <<config, proc, mem, op, offset, aof, synced, named, snap, entries,
                   crashes>>

\* One flush of the snapshot writer's buffer.
SaveWrite ==
    /\ SaveStage("WRITE")
    /\ ~Whole(tmp)
    /\ tmp' = [tmp EXCEPT !.len = @ + 1]
    /\ UNCHANGED <<config, proc, mem, op, offset, aof, synced, named, snap, entries,
                   crashes>>

\* Mutant: the temporary file is closed without an fsync.
BugSaveWithoutSync ==
    /\ SaveStage("WRITE")
    /\ Whole(tmp)
    /\ op' = [op EXCEPT !.stage = "RENAME"]
    /\ UNCHANGED <<config, proc, mem, offset, aof, synced, named, snap, entries, tmp,
                   crashes>>

\* fsync and close of the temporary file.
SaveSync ==
    /\ SaveStage("WRITE")
    /\ Whole(tmp)
    /\ tmp' = [tmp EXCEPT !.durable = TRUE]
    /\ op' = [op EXCEPT !.stage = "RENAME"]
    /\ UNCHANGED <<config, proc, mem, offset, aof, synced, named, snap, entries,
                   crashes>>

\* rename replaces the name at once; which file a power loss leaves under it is
\* open until the directory is synchronised.
SaveRename ==
    /\ SaveStage("RENAME")
    /\ snap' = tmp
    /\ entries' = entries \cup {tmp}
    /\ tmp' = NoFile
    /\ op' = [op EXCEPT !.stage = "SYNCDIR"]
    /\ UNCHANGED <<config, proc, mem, offset, aof, synced, named, crashes>>

\* fsync of the directory, which is also the AOF's; the client is answered +OK.
SaveDone ==
    /\ SaveStage("SYNCDIR")
    /\ entries' = {snap}
    /\ named' = TRUE
    /\ op' = Idle
    /\ UNCHANGED <<config, proc, mem, offset, aof, synced, snap, tmp, crashes>>

\* A step fails and the client is answered -ERR: before the rename the temporary
\* file is unlinked, after it the new file stays.
SaveFails ==
    /\ op.kind = "SAVE"
    /\ tmp' = NoFile
    /\ op' = Idle
    /\ UNCHANGED <<config, proc, mem, offset, aof, synced, named, snap, entries,
                   crashes>>

-----------------------------------------------------------------------------
(* Crashes.  A temporary file that a crash leaves behind is never opened    *)
(* again: mkstemp draws a new name.                                         *)

\* The contents a power loss can leave of the AOF: of the cells that were not
\* durable any may be lost, with the end of the file or as a hole.
AofsLeft ==
    UNION {{[i \in 1 .. n |-> IF i <= synced \/ i \in kept THEN aof[i] ELSE Hole]
               : kept \in SUBSET (synced + 1 .. n)}
           : n \in synced .. Len(aof)}

\* What a power loss can leave of a snapshot file: a file that was not durable
\* may have lost its end.
SnapshotLeft(file) ==
    IF file = NoFile THEN {file}
    ELSE IF file.durable THEN {file}
    ELSE {[file EXCEPT !.len = n, !.durable = TRUE] : n \in 0 .. file.len}

\* The contents a power loss can leave under the snapshot's name.
SnapshotsLeft == UNION {SnapshotLeft(file) : file \in entries}

\* A power loss leaves one of the logs, or takes a name that is not durable.
LogLeftOf(logs) ==
    \/ aof' \in logs /\ named' = TRUE
    \/ ~named /\ aof' = <<>> /\ named' = FALSE

Crashed(kind) ==
    /\ kind \in config.crashes
    /\ crashes < MaxCrashes
    /\ crashes' = crashes + 1
    /\ proc' = "DOWN"
    /\ mem' = EmptyDb
    /\ op' = Idle
    /\ offset' = 0
    /\ tmp' = NoFile
    /\ UNCHANGED config

\* The process is killed, or exits because an append failed.
Kill ==
    /\ proc = "RUNNING"
    /\ Crashed("KILL")
    /\ UNCHANGED <<aof, synced, named, snap, entries>>

\* The machine stops: only what was durable is certain.
PowerLoss ==
    /\ Crashed("POWER")
    /\ LogLeftOf(AofsLeft)
    /\ synced' = Len(aof')
    /\ snap' \in SnapshotsLeft
    /\ entries' = {snap'}

Next ==
    \/ Start
    \/ \E c \in Command : ClientWrite(c)
    \/ AppendWrite \/ AppendSync
    \/ SaveBegin \/ SaveWrite \/ SaveSync \/ SaveRename \/ SaveDone \/ SaveFails
    \/ Kill \/ PowerLoss

Spec == Init /\ [][Next]_vars

-----------------------------------------------------------------------------
(* Properties.                                                              *)

\* The files a crash at this moment may leave.
SnapshotsAfterCrash ==
    {snap} \cup (IF "POWER" \in config.crashes THEN SnapshotsLeft ELSE {})

LogsAfterCrash ==
    {aof} \cup (IF "POWER" \notin config.crashes THEN {}
                ELSE AofsLeft \cup {log \in {<<>>} : ~named})

\* RestartRecoversAll: in the logged modes a restart between two commands finds
\* in snapshot and AOF together everything the running process serves.
RestartRecoversAll ==
    Ready /\ mode # "SNAPSHOT" => Recovery(snap, aof) = [db |-> mem, ok |-> TRUE]

\* CheckpointInLog: whatever a crash leaves, the checkpoint of the snapshot lies
\* on a command boundary of the AOF and not behind its end, so that the replay
\* neither starts inside a command nor skips commands appended later.
CheckpointInLog ==
    mode = "LEGACY_HYBRID" =>
        \A file \in SnapshotsAfterCrash \ {NoFile}, log \in LogsAfterCrash :
            file.off <= Len(log) /\ file.off % CmdLen = 0

\* SnapshotWhole: no crash at any step of SAVE leaves half a snapshot under the
\* official name.
SnapshotWhole ==
    \A file \in SnapshotsAfterCrash : file # NoFile => Whole(file)

\* What clients see: nothing of a process that does not run, and a write only
\* once it is answered.
Visible == IF proc # "RUNNING" THEN Down
           ELSE IF op.kind = "APPEND" THEN op.before ELSE mem

\* What a crash at this moment may be recovered to.
SafeStates == {Recovery(file, log).db : file \in SnapshotsAfterCrash,
                                        log \in LogsAfterCrash}

\* Survives: the process implements the durable store: after any crash a start
\* that succeeds serves all acknowledged writes (logged modes) or the last
\* acknowledged SAVE (snapshot mode), plus at most what was under way.
Durable == INSTANCE DurableStore WITH
    logged <- mode # "SNAPSHOT", visible <- Visible, safe <- SafeStates

Survives == Durable!AbsSpec

\* SyncedIsKept: in the logged modes, between two commands and with all of the AOF
\* written and synchronised, every crash leaves files that recover to exactly what
\* clients have been answered.
SyncedIsKept ==
    Ready /\ mode # "SNAPSHOT" /\ synced = Len(aof) => SafeStates = {mem}
=============================================================================
