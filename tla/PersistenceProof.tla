-------------------------- MODULE PersistenceProof --------------------------
(***************************************************************************)
(* What survives a crash, whatever the sizes, the values, the number of    *)
(* commands and the number of crashes; first of a process that persists    *)
(* (Persistence), then of a directory whose lives also install snapshots   *)
(* (ReplicaInstall, which adds its steps to those of Persistence).         *)
(*                                                                         *)
(* SnapInv: no crash leaves half a snapshot under the official name.       *)
(* FileTypes: the types, with the length of the AOF.  RecoveryInv: the AOF *)
(* leads from every snapshot that a crash may leave to what is served; the *)
(* recovery of what is left and the implementation of DurableStore follow  *)
(* from it, with what ReplayProof says about the replay of two files of    *)
(* which one is the other, longer or with holes.                           *)
(***************************************************************************)
EXTENDS ReplicaInstall, ReplayProof

\* The thread's progress and the temporary file are the records the actions
\* update field by field.
OpShape ==
    \/ op = Idle
    \/ op = [kind |-> "APPEND", cmd |-> op.cmd, before |-> op.before,
             written |-> op.written]
    \/ op = [kind |-> "SAVE", stage |-> op.stage]

TmpShape ==
    op.kind = "SAVE" /\ op.stage # "SYNCDIR" =>
        tmp = [db |-> tmp.db, off |-> tmp.off, len |-> tmp.len,
               durable |-> tmp.durable]

\* A file that a power loss leaves as it is.
Safe(file) == file = NoFile \/ (file.durable = TRUE /\ Whole(file))

\* The temporary file is complete and durable before it is renamed.
RenameSafe == SaveStage("RENAME") => tmp.durable = TRUE /\ Whole(tmp)

\* Every file that may be found under the official name is safe.
EntriesSafe == snap \in entries /\ \A file \in entries : Safe(file)

SnapInv == OpShape /\ TmpShape /\ RenameSafe /\ EntriesSafe

-----------------------------------------------------------------------------

\* Of safe files a power loss leaves exactly the same files.
LEMMA SafeFilesStay ==
    ASSUME EntriesSafe
    PROVE  SnapshotsLeft = entries
  <1>1. \A file \in entries : SnapshotLeft(file) = {file}
    BY DEF EntriesSafe, Safe, SnapshotLeft
  <1>2. ASSUME NEW x PROVE x \in SnapshotsLeft <=> x \in entries
    BY <1>1 DEF SnapshotsLeft
  <1> QED
    BY <1>2

\* The files are safe before the first start.
LEMMA SnapInit == Init => SnapInv
  BY DEF Init, SnapInv, OpShape, TmpShape, RenameSafe, EntriesSafe, Safe, Idle,
         SaveStage

\* Every step of a write, of SAVE, of a crash or of a start keeps the invariant.
LEMMA SnapStep == SnapInv /\ [Next]_vars => SnapInv'
  <1> SUFFICES ASSUME SnapInv, [Next]_vars
               PROVE  SnapInv'
    OBVIOUS
  <1> USE DEF SnapInv
  <1>1. CASE Start
    BY <1>1 DEF Start, OpShape, TmpShape, RenameSafe, EntriesSafe, Safe, Whole,
                SaveStage
  <1>2. ASSUME NEW c \in Command, ClientWrite(c)
        PROVE  SnapInv'
    <2>1. op' = Idle \/ op' = [kind |-> "APPEND", cmd |-> c, before |-> mem,
                               written |-> 0]
      BY <1>2 DEF ClientWrite
    <2>2. OpShape' /\ op'.kind # "SAVE"
      BY <2>1 DEF OpShape, Idle
    <2> QED
      BY <1>2, <2>2 DEF ClientWrite, TmpShape, RenameSafe, EntriesSafe, Safe,
                        Whole, SaveStage
  <1>3. CASE AppendWrite
    <2>1. op = [kind |-> "APPEND", cmd |-> op.cmd, before |-> op.before,
                written |-> op.written]
      BY <1>3 DEF AppendWrite, OpShape, Idle
    <2>2. op' = [kind |-> "APPEND", cmd |-> op.cmd, before |-> op.before,
                 written |-> op.written + 1]
      BY <1>3, <2>1 DEF AppendWrite
    <2>3. OpShape' /\ op'.kind # "SAVE"
      BY <2>2 DEF OpShape
    <2> QED
      BY <1>3, <2>3 DEF AppendWrite, TmpShape, RenameSafe, EntriesSafe, Safe,
                        Whole, SaveStage
  <1>4. CASE AppendSync
    BY <1>4 DEF AppendSync, SyncAof, OpShape, TmpShape, RenameSafe, EntriesSafe, Safe,
                Whole, SaveStage, Idle
  <1>5. CASE SaveBegin
    BY <1>5 DEF SaveBegin, OpShape, TmpShape, RenameSafe, EntriesSafe, Safe,
                Whole, SaveStage
  <1>6. CASE SaveWrite
    <2>1. tmp = [db |-> tmp.db, off |-> tmp.off, len |-> tmp.len,
                 durable |-> tmp.durable]
      BY <1>6 DEF SaveWrite, SaveStage, TmpShape
    <2>2. tmp' = [db |-> tmp.db, off |-> tmp.off, len |-> tmp.len + 1,
                  durable |-> tmp.durable]
      BY <1>6, <2>1 DEF SaveWrite
    <2> QED
      BY <1>6, <2>2 DEF SaveWrite, OpShape, TmpShape, RenameSafe, EntriesSafe,
                        Safe, Whole, SaveStage
  <1>7. CASE SaveSync
    <2>1. tmp = [db |-> tmp.db, off |-> tmp.off, len |-> tmp.len,
                 durable |-> tmp.durable]
      BY <1>7 DEF SaveSync, SaveStage, TmpShape
    <2>2. tmp' = [db |-> tmp.db, off |-> tmp.off, len |-> tmp.len,
                  durable |-> TRUE]
      BY <1>7, <2>1 DEF SaveSync
    <2>3. op = [kind |-> "SAVE", stage |-> op.stage]
      BY <1>7 DEF SaveSync, SaveStage, OpShape, Idle
    <2>4. op' = [kind |-> "SAVE", stage |-> "RENAME"]
      BY <1>7, <2>3 DEF SaveSync
    <2> QED
      BY <1>7, <2>2, <2>4 DEF SaveSync, OpShape, TmpShape, RenameSafe,
                              EntriesSafe, Safe, Whole, SaveStage
  <1>8. CASE SaveRename
    <2>1. op = [kind |-> "SAVE", stage |-> op.stage]
      BY <1>8 DEF SaveRename, SaveStage, OpShape, Idle
    <2>2. op' = [kind |-> "SAVE", stage |-> "SYNCDIR"]
      BY <1>8, <2>1 DEF SaveRename
    <2>3. Safe(tmp)
      BY <1>8 DEF SaveRename, RenameSafe, Safe
    <2>4. EntriesSafe'
      BY <1>8, <2>3 DEF SaveRename, EntriesSafe, Safe, Whole
    <2> QED
      BY <2>2, <2>4 DEF OpShape, TmpShape, RenameSafe, SaveStage
  <1>9. CASE SaveDone
    BY <1>9 DEF SaveDone, OpShape, TmpShape, RenameSafe, EntriesSafe, Safe,
                Whole, SaveStage, Idle
  <1>10. CASE SaveFails
    BY <1>10 DEF SaveFails, OpShape, TmpShape, RenameSafe, EntriesSafe, Safe,
                 Whole, SaveStage, Idle
  <1>11. CASE Kill
    BY <1>11 DEF Kill, Crashed, OpShape, TmpShape, RenameSafe, EntriesSafe,
                 Safe, Whole, SaveStage, Idle
  <1>12. CASE PowerLoss
    <2>1. snap' \in entries /\ entries' = {snap'}
      BY <1>12, SafeFilesStay DEF PowerLoss
    <2>2. EntriesSafe'
      BY <2>1 DEF EntriesSafe, Safe, Whole
    <2> QED
      BY <1>12, <2>2 DEF PowerLoss, Crashed, OpShape, TmpShape, RenameSafe,
                         SaveStage, Idle
  <1>13. CASE UNCHANGED vars
    BY <1>13 DEF vars, OpShape, TmpShape, RenameSafe, EntriesSafe, Safe, Whole,
                 SaveStage
  <1> QED
    BY <1>1, <1>2, <1>3, <1>4, <1>5, <1>6, <1>7, <1>8, <1>9, <1>10, <1>11,
       <1>12, <1>13 DEF Next

-----------------------------------------------------------------------------

\* No interruption of SAVE, by an error, a kill or a power loss, can leave a
\* file under the official snapshot name that the next start would refuse.
THEOREM SnapshotNeverHalf == Spec => []SnapshotWhole
  <1>1. SnapInv => SnapshotWhole
    <2> SUFFICES ASSUME SnapInv
                 PROVE  SnapshotWhole
      OBVIOUS
    <2>1. SnapshotsLeft = entries
      BY SafeFilesStay DEF SnapInv
    <2> QED
      BY <2>1 DEF SnapInv, SnapshotWhole, SnapshotsAfterCrash, EntriesSafe, Safe
  <1> QED
    BY SnapInit, SnapStep, <1>1, PTL DEF Spec

-----------------------------------------------------------------------------
(* Types.                                                                   *)

\* The AOF is as long as the offset and what the append under way has written; a
\* process that does not run does nothing.
LengthInv ==
    /\ proc = "RUNNING" => Len(aof) = offset + (IF op.kind = "APPEND" THEN op.written ELSE 0)
    /\ proc # "RUNNING" => op = Idle

\* The temporary file of a SAVE, and the snapshot once it is renamed, are of the
\* engine that is being served.
SavedInv ==
    /\ op.kind = "SAVE" /\ op.stage # "SYNCDIR" =>
           tmp \in Snapshot /\ tmp.db = mem /\ tmp.off = Checkpoint
    /\ SaveStage("SYNCDIR") => snap \in Snapshot /\ snap.db = mem /\ snap.off = Checkpoint

FileTypes == TypeOK /\ LengthInv /\ SavedInv

\* A command makes a database of a database.
LEMMA ExecuteIsDatabase ==
  ASSUME NEW d \in Database, NEW c \in Command
  PROVE  Execute(d, c) \in Database
  BY DEF Execute, Database, Command

\* What the thread is doing, by its kind.
LEMMA Doing ==
  ASSUME TypeOK
  PROVE  /\ op.kind = "APPEND" =>
              /\ op = [kind |-> "APPEND", cmd |-> op.cmd, before |-> op.before,
                       written |-> op.written]
              /\ op.cmd \in Command /\ op.before \in Database /\ op.written \in 0 .. CmdLen
         /\ op.kind = "SAVE" =>
              /\ op = [kind |-> "SAVE", stage |-> op.stage]
              /\ op.stage \in {"WRITE", "RENAME", "SYNCDIR"}
         /\ op.kind \notin {"APPEND", "SAVE"} => op = Idle
  <1>1. op = Idle \/ op \in AppendOp \/ op \in SaveOp
    BY DEF TypeOK
  <1>2. CASE op = Idle
    BY <1>2 DEF Idle
  <1>3. CASE op \in AppendOp
    BY <1>3 DEF AppendOp
  <1>4. CASE op \in SaveOp
    BY <1>4 DEF SaveOp
  <1> QED
    BY <1>1, <1>2, <1>3, <1>4

\* The cells of an encoded command are cells.
LEMMA EncodeCells ==
  ASSUME NEW c \in Command, NEW i \in 1 .. CmdLen
  PROVE  Encode(c)[i] = [cmd |-> c, part |-> i] /\ Encode(c)[i] \in Cell
  BY DEF Encode, Cell

\* A write at the end of a file appends to it.
LEMMA WriteAtEnd ==
  ASSUME NEW file \in Seq(Cell), NEW x \in Cell
  PROVE  SubSeq(file, 1, Len(file)) \o <<x>> \o SubSeq(file, Len(file) + 2, Len(file))
           = Append(file, x)
  <1>1. SubSeq(file, 1, Len(file)) = file
    OBVIOUS
  <1>2. SubSeq(file, Len(file) + 2, Len(file)) = <<>>
    OBVIOUS
  <1>3. file \o <<x>> = Append(file, x)
    OBVIOUS
  <1>4. Append(file, x) \in Seq(Cell)
    OBVIOUS
  <1>5. Append(file, x) \o <<>> = Append(file, x)
    BY <1>4
  <1> QED
    BY <1>1, <1>2, <1>3, <1>5

\* What a power loss leaves of the AOF: the durable cells, and of the others some.
LEMMA LogLeft ==
  ASSUME TypeOK, NEW log \in AofsLeft
  PROVE  /\ log \in Seq(Cell) /\ Len(log) \in synced .. Len(aof)
         /\ \A i \in 1 .. Len(log) : log[i] = aof[i] \/ (log[i] = Hole /\ i > synced)
  <1>1. PICK n \in synced .. Len(aof) :
          log \in {[i \in 1 .. n |-> IF i <= synced \/ i \in kept THEN aof[i] ELSE Hole]
                      : kept \in SUBSET (synced + 1 .. n)}
    BY DEF AofsLeft
  <1>2. PICK kept \in SUBSET (synced + 1 .. n) :
          log = [i \in 1 .. n |-> IF i <= synced \/ i \in kept THEN aof[i] ELSE Hole]
    BY <1>1
  <1>3. aof \in Seq(Cell) /\ Len(aof) \in Nat /\ synced \in Nat /\ n \in Nat /\ n <= Len(aof)
    BY DEF TypeOK
  <1>4. Hole \in Cell
    BY DEF Cell
  <1>5. ASSUME NEW i \in 1 .. n PROVE aof[i] \in Cell
    BY <1>3
  <1>6. log \in [1 .. n -> Cell]
    BY <1>2, <1>4, <1>5
  <1>7. log \in Seq(Cell) /\ Len(log) = n
    BY <1>3, <1>6
  <1> QED
    BY <1>2, <1>3, <1>7

\* The checkpoint of a SAVE is an offset or none.
LEMMA CheckpointType ==
  ASSUME TypeOK PROVE Checkpoint \in Nat \cup {-1}
  BY DEF TypeOK, Checkpoint

\* What a successful recovery finds is a database.
LEMMA RecoveryType ==
  ASSUME TypeOK, NEW file \in Snapshot \cup {NoFile}, NEW log \in Seq(Cell)
  PROVE  /\ Recovery(file, log).ok \in BOOLEAN
         /\ Recovery(file, log).ok => Recovery(file, log).db \in Database
  <1> DEFINE loads == \/ file = NoFile
                      \/ Whole(file) /\ (mode = "LEGACY_HYBRID" => file.off >= 0)
             base == IF file = NoFile \/ mode = "AOF" THEN EmptyDb ELSE file.db
             start == IF file = NoFile \/ mode = "AOF" THEN 0 ELSE file.off
  <1>1. base \in Database
    BY NoFileAssumption DEF Snapshot, EmptyDb, Database
  <1>2. mode \in {"SNAPSHOT", "AOF", "LEGACY_HYBRID"}
    BY PersistenceAssumption DEF TypeOK, mode
  <1>3. ASSUME mode # "SNAPSHOT", mode = "AOF" \/ loads
        PROVE  Replay(base, log, start).db \in Database
    <2>1. start \in Nat
      BY <1>2, <1>3 DEF Snapshot
    <2> HIDE DEF base, start
    <2> QED
      BY <1>1, <2>1, ReplayType
  <1> QED
    BY <1>1, <1>2, <1>3 DEF Recovery

\* The types hold before the first start.
LEMMA TypesInit == Init => FileTypes
  <1> SUFFICES ASSUME Init PROVE FileTypes
    OBVIOUS
  <1>1. EmptyDb \in Database
    BY DEF EmptyDb, Database
  <1>2. <<>> \in Seq(Cell) /\ Len(<<>>) = 0
    OBVIOUS
  <1>3. TypeOK
    BY <1>1, <1>2, PersistenceAssumption DEF Init, TypeOK
  <1> QED
    BY <1>3 DEF Init, FileTypes, LengthInv, SavedInv, Idle, SaveStage

\* An append writes one cell at the end of the AOF.
LEMMA AppendWriteIs ==
  ASSUME FileTypes, proc = "RUNNING", AppendWrite
  PROVE  /\ op.written + 1 \in 1 .. CmdLen
         /\ aof' = Append(aof, Encode(op.cmd)[op.written + 1])
         /\ Encode(op.cmd)[op.written + 1] \in Cell
         /\ aof' \in Seq(Cell) /\ Len(aof') = Len(aof) + 1
         /\ op' = [kind |-> "APPEND", cmd |-> op.cmd, before |-> op.before,
                   written |-> op.written + 1]
  <1>1. /\ op.kind = "APPEND" /\ op.written < CmdLen
        /\ op = [kind |-> "APPEND", cmd |-> op.cmd, before |-> op.before,
                 written |-> op.written]
        /\ op.cmd \in Command /\ op.written \in 0 .. CmdLen
    BY Doing DEF AppendWrite, FileTypes
  <1>2. CmdLen \in Nat
    BY EngineAssumption
  <1>3. op.written + 1 \in 1 .. CmdLen
    BY <1>1, <1>2
  <1>4. PICK x \in Cell : x = Encode(op.cmd)[op.written + 1]
    BY <1>1, <1>3, EncodeCells
  <1>5. offset + op.written = Len(aof) /\ aof \in Seq(Cell)
    BY <1>1 DEF FileTypes, LengthInv, TypeOK
  <1>6. aof' = SubSeq(aof, 1, Len(aof)) \o <<x>> \o SubSeq(aof, Len(aof) + 2, Len(aof))
    BY <1>4, <1>5 DEF AppendWrite
  <1>7. aof' = Append(aof, x)
    BY <1>5, <1>6, WriteAtEnd
  <1>8. op' = [kind |-> "APPEND", cmd |-> op.cmd, before |-> op.before,
               written |-> op.written + 1]
    BY <1>1 DEF AppendWrite
  <1>9. aof' \in Seq(Cell) /\ Len(aof') = Len(aof) + 1
    BY <1>5, <1>7
  <1> QED
    BY <1>3, <1>4, <1>7, <1>8, <1>9

\* Every step keeps the types.
LEMMA TypesStep == FileTypes /\ SnapInv /\ [Next]_vars => FileTypes'
  <1> SUFFICES ASSUME FileTypes, SnapInv, [Next]_vars PROVE FileTypes'
    OBVIOUS
  <1> USE DEF FileTypes
  <1>0. /\ CmdLen \in Nat /\ CmdLen > 0 /\ SnapLen \in Nat /\ SnapLen > 0
        /\ Len(aof) \in Nat /\ EmptyDb \in Database /\ aof \in Seq(Cell)
    BY EngineAssumption, PersistenceAssumption DEF EmptyDb, Database, TypeOK
  <1>1. CASE Start
    <2>1. op = Idle
      BY <1>1 DEF Start, LengthInv
    <2>2. PICK found : found = Recovery(snap, aof)
      OBVIOUS
    <2>3. found.ok \in BOOLEAN /\ (found.ok => found.db \in Database)
      BY <2>2, RecoveryType DEF TypeOK
    <2>4. /\ proc' = IF found.ok THEN "RUNNING" ELSE "REFUSED"
          /\ mem' = IF found.ok THEN found.db ELSE EmptyDb
          /\ offset' = IF found.ok THEN Len(aof) ELSE 0
          /\ UNCHANGED <<config, op, aof, synced, named, snap, entries, tmp, crashes>>
      BY <1>1, <2>2 DEF Start
    <2>5. TypeOK'
      BY <1>0, <2>3, <2>4 DEF TypeOK
    <2>6. LengthInv'
      BY <1>0, <2>1, <2>4 DEF LengthInv, Idle
    <2> QED
      BY <2>1, <2>4, <2>5, <2>6 DEF SavedInv, Idle, SaveStage
  <1>2. ASSUME NEW c \in Command, ClientWrite(c) PROVE FileTypes'
    <2>1. op = Idle /\ mem \in Database /\ proc = "RUNNING"
      BY <1>2 DEF ClientWrite, Ready, TypeOK
    <2>2. Execute(mem, c) \in Database
      BY <2>1, ExecuteIsDatabase
    <2>3. \/ op' = Idle
          \/ op' = [kind |-> "APPEND", cmd |-> c, before |-> mem, written |-> 0]
      BY <1>2 DEF ClientWrite
    <2>4. op' \in {Idle} \cup AppendOp
      BY <1>0, <2>1, <2>3 DEF AppendOp
    <2>5. TypeOK'
      BY <1>2, <2>2, <2>4 DEF ClientWrite, TypeOK
    <2>6. LengthInv'
      BY <1>0, <1>2, <2>1, <2>3 DEF ClientWrite, LengthInv, Idle, TypeOK
    <2> QED
      BY <2>3, <2>5, <2>6 DEF SavedInv, SaveStage, Idle
  <1>3. CASE AppendWrite
    <2>1. proc = "RUNNING"
      BY <1>3 DEF AppendWrite, LengthInv, Idle
    <2>2. /\ op.written + 1 \in 1 .. CmdLen
          /\ aof' \in Seq(Cell) /\ Len(aof') = Len(aof) + 1
          /\ op' = [kind |-> "APPEND", cmd |-> op.cmd, before |-> op.before,
                    written |-> op.written + 1]
      BY <1>3, <2>1, AppendWriteIs
    <2>3. /\ op.kind = "APPEND" /\ op.cmd \in Command /\ op.before \in Database
          /\ op.written \in 0 .. CmdLen
      BY <1>3, Doing DEF AppendWrite
    <2>4. op' \in AppendOp
      BY <1>0, <2>2, <2>3 DEF AppendOp
    <2>5. TypeOK'
      <3>1. offset \in 0 .. Len(aof') /\ synced \in 0 .. Len(aof')
        BY <1>0, <2>2 DEF TypeOK
      <3> QED
        BY <1>3, <2>2, <2>4, <3>1 DEF AppendWrite, TypeOK
    <2>6. LengthInv'
      BY <1>0, <1>3, <2>1, <2>2, <2>3 DEF AppendWrite, LengthInv, TypeOK
    <2> QED
      BY <2>2, <2>5, <2>6 DEF SavedInv, SaveStage
  <1>4. CASE AppendSync
    <2>1. proc = "RUNNING"
      BY <1>4 DEF AppendSync, SyncAof, LengthInv, Idle
    <2>2. op' = Idle /\ offset' = Len(aof) /\ offset' \in Nat
      BY <1>0, <1>4, <2>1 DEF AppendSync, SyncAof, LengthInv, TypeOK
    <2>3. TypeOK'
      BY <1>0, <1>4, <2>2 DEF AppendSync, SyncAof, TypeOK
    <2>4. LengthInv'
      BY <1>0, <1>4, <2>1, <2>2 DEF AppendSync, SyncAof, LengthInv, Idle
    <2> QED
      BY <2>2, <2>3, <2>4 DEF SavedInv, SaveStage, Idle
  <1>5. CASE SaveBegin
    <2>1. op = Idle /\ proc = "RUNNING" /\ Checkpoint \in Nat \cup {-1} /\ mem \in Database
      BY <1>5, CheckpointType DEF SaveBegin, Ready, TypeOK
    <2>2. /\ tmp' = [db |-> mem, off |-> Checkpoint, len |-> 0, durable |-> FALSE]
          /\ op' = [kind |-> "SAVE", stage |-> "WRITE"]
          /\ UNCHANGED <<config, proc, mem, offset, aof, synced, named, snap, entries, crashes>>
      BY <1>5 DEF SaveBegin
    <2>3. tmp' \in Snapshot /\ op' \in SaveOp
      BY <1>0, <2>1, <2>2 DEF Snapshot, SaveOp
    <2>4. TypeOK'
      BY <2>2, <2>3 DEF TypeOK
    <2>5. LengthInv'
      BY <2>1, <2>2 DEF LengthInv, Idle
    <2>6. Checkpoint' = Checkpoint
      BY <2>2 DEF Checkpoint, mode
    <2>7. SavedInv'
      BY <2>2, <2>3, <2>6 DEF SavedInv, SaveStage
    <2> QED
      BY <2>4, <2>5, <2>7
  <1>6. CASE SaveWrite
    <2>1. /\ op.kind = "SAVE" /\ op.stage = "WRITE" /\ tmp.len # SnapLen
          /\ tmp' = [tmp EXCEPT !.len = @ + 1]
          /\ UNCHANGED <<config, proc, mem, op, offset, aof, synced, named, snap, entries,
                         crashes>>
      BY <1>6 DEF SaveWrite, SaveStage, Whole
    <2>2. tmp \in Snapshot /\ tmp.db = mem /\ tmp.off = Checkpoint
      BY <2>1 DEF SavedInv
    <2>3. tmp.len + 1 \in 0 .. SnapLen
      BY <1>0, <2>1, <2>2 DEF Snapshot
    <2>4. tmp' \in Snapshot /\ tmp'.db = mem /\ tmp'.off = Checkpoint
      BY <2>1, <2>2, <2>3 DEF Snapshot
    <2>5. TypeOK'
      BY <2>1, <2>4 DEF TypeOK
    <2>6. Checkpoint' = Checkpoint
      BY <2>1 DEF Checkpoint, mode
    <2> QED
      BY <2>1, <2>4, <2>5, <2>6 DEF LengthInv, SavedInv, SaveStage
  <1>7. CASE SaveSync
    <2>1. /\ op.kind = "SAVE" /\ op.stage = "WRITE"
          /\ tmp' = [tmp EXCEPT !.durable = TRUE]
          /\ op' = [op EXCEPT !.stage = "RENAME"]
          /\ UNCHANGED <<config, proc, mem, offset, aof, synced, named, snap, entries, crashes>>
      BY <1>7 DEF SaveSync, SaveStage
    <2>2. tmp \in Snapshot /\ tmp.db = mem /\ tmp.off = Checkpoint
      BY <2>1 DEF SavedInv
    <2>3. tmp' \in Snapshot /\ tmp'.db = mem /\ tmp'.off = Checkpoint
      BY <2>1, <2>2 DEF Snapshot
    <2>4. op' = [kind |-> "SAVE", stage |-> "RENAME"]
      BY <2>1, Doing
    <2>5. TypeOK'
      BY <2>1, <2>3, <2>4 DEF TypeOK, SaveOp
    <2>6. Checkpoint' = Checkpoint
      BY <2>1 DEF Checkpoint, mode
    <2> QED
      BY <2>1, <2>3, <2>4, <2>5, <2>6 DEF LengthInv, SavedInv, SaveStage, Idle
  <1>8. CASE SaveRename
    <2>1. /\ op.kind = "SAVE" /\ op.stage = "RENAME"
          /\ snap' = tmp /\ entries' = entries \cup {tmp} /\ tmp' = NoFile
          /\ op' = [op EXCEPT !.stage = "SYNCDIR"]
          /\ UNCHANGED <<config, proc, mem, offset, aof, synced, named, crashes>>
      BY <1>8 DEF SaveRename, SaveStage
    <2>2. tmp \in Snapshot /\ tmp.db = mem /\ tmp.off = Checkpoint
      BY <2>1 DEF SavedInv
    <2>3. op' = [kind |-> "SAVE", stage |-> "SYNCDIR"]
      BY <2>1, Doing
    <2>4. TypeOK'
      BY <2>1, <2>2, <2>3 DEF TypeOK, SaveOp
    <2>5. Checkpoint' = Checkpoint
      BY <2>1 DEF Checkpoint, mode
    <2> QED
      BY <2>1, <2>2, <2>3, <2>4, <2>5 DEF LengthInv, SavedInv, SaveStage, Idle
  <1>9. CASE SaveDone \/ SaveFails
    <2>1. /\ op.kind = "SAVE" /\ op' = Idle
          /\ entries' \in {entries, {snap}} /\ tmp' \in {tmp, NoFile} /\ named' \in {named, TRUE}
          /\ UNCHANGED <<config, proc, mem, offset, aof, synced, snap, crashes>>
      BY <1>9 DEF SaveDone, SaveFails, SaveStage
    <2>2. TypeOK'
      BY <2>1 DEF TypeOK
    <2>3. LengthInv'
      BY <2>1 DEF LengthInv, Idle
    <2> QED
      BY <2>1, <2>2, <2>3 DEF SavedInv, SaveStage, Idle
  <1>10. CASE Kill
    <2>1. /\ op' = Idle /\ proc' = "DOWN" /\ mem' = EmptyDb /\ offset' = 0 /\ tmp' = NoFile
          /\ crashes' = crashes + 1 /\ UNCHANGED <<config, aof, synced, named, snap, entries>>
      BY <1>10 DEF Kill, Crashed
    <2>2. TypeOK'
      BY <1>0, <2>1 DEF TypeOK
    <2> QED
      BY <2>1, <2>2 DEF LengthInv, SavedInv, SaveStage, Idle
  <1>11. CASE PowerLoss
    <2>1. /\ op' = Idle /\ proc' = "DOWN" /\ mem' = EmptyDb /\ offset' = 0 /\ tmp' = NoFile
          /\ crashes' = crashes + 1 /\ UNCHANGED config
          /\ (aof' \in AofsLeft \/ aof' = <<>>) /\ named' \in BOOLEAN
          /\ synced' = Len(aof') /\ snap' \in SnapshotsLeft /\ entries' = {snap'}
      BY <1>11 DEF PowerLoss, Crashed, LogLeftOf
    <2>2. aof' \in Seq(Cell) /\ Len(aof') \in Nat
      <3>1. CASE aof' \in AofsLeft
        BY <3>1, LogLeft
      <3>2. CASE aof' = <<>>
        BY <3>2
      <3> QED
        BY <2>1, <3>1, <3>2
    <2>3. snap' \in entries
      BY <2>1, SafeFilesStay DEF SnapInv
    <2>4. TypeOK'
      <3>1. offset' \in 0 .. Len(aof') /\ synced' \in 0 .. Len(aof')
        BY <2>1, <2>2
      <3>2. crashes' \in Nat /\ snap' \in Snapshot \cup {NoFile}
        BY <2>1, <2>3 DEF TypeOK
      <3>3. entries' \subseteq Snapshot \cup {NoFile}
        BY <2>1, <3>2
      <3> QED
        BY <1>0, <2>1, <2>2, <3>1, <3>2, <3>3 DEF TypeOK
    <2> QED
      BY <2>1, <2>4 DEF LengthInv, SavedInv, SaveStage, Idle
  <1>12. CASE UNCHANGED vars
    BY <1>12 DEF vars, TypeOK, LengthInv, SavedInv, SaveStage, Checkpoint, mode
  <1> QED
    BY <1>1, <1>2, <1>3, <1>4, <1>5, <1>6, <1>7, <1>8, <1>9, <1>10, <1>11, <1>12 DEF Next

\* FilesTyped: the types of the files, of the engine and of the thread's progress
\* (TypeOK), for every size and any number of crashes.
THEOREM FilesTyped == Spec => []TypeOK
  <1>1. Init => FileTypes /\ SnapInv
    BY TypesInit, SnapInit
  <1>2. FileTypes /\ SnapInv /\ [Next]_vars => (FileTypes /\ SnapInv)'
    BY TypesStep, SnapStep
  <1>3. FileTypes => TypeOK
    BY DEF FileTypes
  <1> QED
    BY <1>1, <1>2, <1>3, PTL DEF Spec

-----------------------------------------------------------------------------
(* Recovery.                                                                *)

\* In the hybrid mode kills and power losses do not meet in one life of the files:
\* where they do, a checkpoint may be left behind the end of the AOF.
OneCrashInHybrid ==
    \A life \in Scenario :
        life.mode = "LEGACY_HYBRID" => ~({"KILL", "POWER"} \subseteq life.crashes)

\* A log that meets power losses is on a file system whose fsync makes the name of
\* a new file durable: nothing in the code synchronises the directory for the AOF.
SyncKeepsName ==
    \A life \in Scenario :
        life.mode # "SNAPSHOT" /\ "POWER" \in life.crashes => life.names = "FSYNC"

\* The lives that the files survive.
SafeLives == OneCrashInHybrid /\ SyncKeepsName

\* What a recovery begins with, and where in the AOF.
Base(file) == IF file = NoFile \/ mode = "AOF" THEN EmptyDb ELSE file.db
From(file) == IF file = NoFile \/ mode = "AOF" THEN 0 ELSE file.off

\* The AOF without the append under way, and the engine without it.
Logged == SubSeq(aof, 1, offset)
Served == IF op.kind = "APPEND" THEN op.before ELSE mem

\* Without kills all but the append under way is durable.
SyncedInv ==
    "KILL" \notin config.crashes =>
        synced = IF op.kind = "APPEND" THEN offset ELSE Len(aof)

\* Where the last checkpoint may be.
CheckpointBound ==
    IF "KILL" \notin config.crashes THEN synced
    ELSE IF proc = "RUNNING" THEN offset ELSE Len(aof)

\* The offset and every checkpoint lie between two commands, and no checkpoint
\* behind what a crash leaves of the AOF.
CheckpointInv ==
    mode = "LEGACY_HYBRID" =>
        /\ proc = "RUNNING" => offset % CmdLen = 0
        /\ \A file \in entries : file # NoFile =>
               /\ file.off \in Nat /\ file.off % CmdLen = 0
               /\ file.off <= CheckpointBound

\* Without kills the name of the snapshot is durable while the process is down.
NameInv == "KILL" \notin config.crashes /\ proc # "RUNNING" => entries = {snap}

\* Where an fsync keeps the name, a name that can be lost has nothing durable in it.
EntryInv ==
    mode = "SNAPSHOT" \/ config.names = "FSYNC" => named = TRUE \/ synced = 0

\* The append under way: the command was executed, and its cells are written in order.
AppendInv ==
    op.kind = "APPEND" =>
        /\ mode # "SNAPSHOT"
        /\ ExecStatus(op.before, op.cmd) = "OK" /\ mem = Execute(op.before, op.cmd)
        /\ \A i \in 1 .. op.written : aof[offset + i] = Encode(op.cmd)[i]

\* Whichever snapshot a crash leaves, the AOF leads from it to what is served.
ServedInv ==
    mode # "SNAPSHOT" /\ proc = "RUNNING" =>
        \A file \in SnapshotsAfterCrash :
            Replay(Base(file), Logged, From(file)) = [db |-> Served, pos |-> offset]

RecoveryInv == /\ FileTypes /\ SnapInv /\ SyncedInv /\ EntryInv /\ CheckpointInv /\ NameInv
               /\ AppendInv /\ ServedInv

\* What a crash may leave under the official name is one of entries.
LEMMA AfterCrash ==
  ASSUME SnapInv
  PROVE  /\ snap \in SnapshotsAfterCrash /\ SnapshotsAfterCrash \subseteq entries
         /\ SnapshotsAfterCrash = {snap} \cup (IF "POWER" \in config.crashes THEN entries ELSE {})
  BY SafeFilesStay DEF SnapInv, SnapshotsAfterCrash, EntriesSafe

\* The AOF of a running process without the append under way.
LEMMA LoggedIs ==
  ASSUME FileTypes, proc = "RUNNING"
  PROVE  /\ Logged \in Seq(Cell) /\ Len(Logged) = offset /\ offset \in Nat
         /\ offset <= Len(aof)
         /\ \A i \in 1 .. offset : Logged[i] = aof[i]
         /\ op.kind # "APPEND" => Logged = aof /\ offset = Len(aof)
  <1>1. aof \in Seq(Cell) /\ Len(aof) \in Nat /\ offset \in Nat /\ offset <= Len(aof)
    BY DEF FileTypes, TypeOK
  <1>2. /\ Logged \in Seq(Cell) /\ Len(Logged) = offset
        /\ \A i \in 1 .. offset : Logged[i] = aof[i]
    BY <1>1 DEF Logged
  <1>3. ASSUME op.kind # "APPEND" PROVE Logged = aof /\ offset = Len(aof)
    <2>1. offset = Len(aof)
      BY <1>1, <1>3 DEF FileTypes, LengthInv
    <2> QED
      BY <1>1, <2>1 DEF Logged
  <1> QED
    BY <1>1, <1>2, <1>3

\* The mode of a life.
LEMMA Modes ==
  ASSUME TypeOK
  PROVE  /\ mode \in {"SNAPSHOT", "AOF", "LEGACY_HYBRID"}
         /\ SafeLives /\ mode = "LEGACY_HYBRID" /\ "POWER" \in config.crashes =>
                "KILL" \notin config.crashes
         /\ SafeLives /\ mode # "SNAPSHOT" /\ "POWER" \in config.crashes =>
                config.names = "FSYNC"
  BY PersistenceAssumption DEF TypeOK, mode, SafeLives, OneCrashInHybrid, SyncKeepsName

\* Where a checkpoint may be at most.
LEMMA BoundIs ==
  ASSUME FileTypes, SyncedInv
  PROVE  /\ CheckpointBound \in Nat /\ CheckpointBound <= Len(aof)
         /\ proc = "RUNNING" => CheckpointBound <= offset
         /\ proc = "RUNNING" /\ op.kind # "APPEND" => CheckpointBound = offset
  <1>1. offset \in 0 .. Len(aof) /\ synced \in 0 .. Len(aof) /\ Len(aof) \in Nat
    BY DEF FileTypes, TypeOK
  <1>2. proc = "RUNNING" /\ op.kind # "APPEND" => offset = Len(aof)
    BY LoggedIs
  <1> QED
    BY <1>1, <1>2 DEF CheckpointBound, SyncedInv

\* What a recovery begins with, in the modes with a log.
LEMMA BaseFrom ==
  ASSUME FileTypes, SnapInv, SyncedInv, CheckpointInv, mode # "SNAPSHOT", NEW file \in entries
  PROVE  /\ Base(file) \in Database /\ From(file) \in Nat /\ From(file) <= Len(aof)
         /\ proc = "RUNNING" => From(file) <= offset
         /\ mode = "LEGACY_HYBRID" => From(file) % CmdLen = 0 /\ From(file) <= CheckpointBound
  <1>1. /\ CheckpointBound \in Nat /\ CheckpointBound <= Len(aof)
        /\ proc = "RUNNING" => CheckpointBound <= offset
    BY BoundIs
  <1>2. file \in Snapshot \cup {NoFile} /\ EmptyDb \in Database
    BY DEF FileTypes, TypeOK, EmptyDb, Database
  <1>3. /\ Len(aof) \in Nat /\ offset \in Nat /\ 0 % CmdLen = 0
        /\ mode \in {"SNAPSHOT", "AOF", "LEGACY_HYBRID"}
    <2>1. 0 * CmdLen = 0 /\ CmdLen \in Nat \ {0}
      BY EngineAssumption
    <2>2. 0 % CmdLen = 0
      BY <2>1, NoRemainder
    <2>3. Len(aof) \in Nat /\ offset \in Nat
      BY DEF FileTypes, TypeOK
    <2>4. mode \in {"SNAPSHOT", "AOF", "LEGACY_HYBRID"}
      BY Modes DEF FileTypes
    <2> QED
      BY <2>2, <2>3, <2>4
  <1>4. CASE file = NoFile \/ mode = "AOF"
    <2>1. Base(file) = EmptyDb /\ From(file) = 0
      BY <1>4 DEF Base, From
    <2> QED
      BY <1>1, <1>2, <1>3, <2>1
  <1>5. CASE file # NoFile /\ mode = "LEGACY_HYBRID"
    <2>1. Base(file) = file.db /\ From(file) = file.off /\ file \in Snapshot
      BY <1>2, <1>5 DEF Base, From
    <2>2. file.off \in Nat /\ file.off % CmdLen = 0 /\ file.off <= CheckpointBound
      BY <1>5 DEF CheckpointInv
    <2>3. file.db \in Database
      BY <2>1 DEF Snapshot
    <2> QED
      BY <1>1, <1>3, <2>1, <2>2, <2>3
  <1> QED
    BY <1>3, <1>4, <1>5

\* Recovery in the modes with a log is a replay.
LEMMA RecoveryIs ==
  ASSUME mode # "SNAPSHOT", NEW file, NEW log
  PROVE  LET end == Replay(Base(file), log, From(file)) IN
         /\ Recovery(file, log).db = end.db
         /\ Recovery(file, log).ok => end.pos = Len(log)
         /\ end.pos = Len(log) /\ (\/ file = NoFile \/ mode = "AOF"
                                   \/ Whole(file) /\ file.off >= 0) =>
                Recovery(file, log) = [db |-> end.db, ok |-> TRUE]
  BY DEF Recovery, Base, From

-----------------------------------------------------------------------------

\* The logs that a power loss may leave, one by one.
LEMMA IsLeft ==
  ASSUME NEW n \in synced .. Len(aof), NEW kept \in SUBSET (synced + 1 .. n)
  PROVE  [i \in 1 .. n |-> IF i <= synced \/ i \in kept THEN aof[i] ELSE Hole] \in AofsLeft
  <1> DEFINE left(m) == {[i \in 1 .. m |-> IF i <= synced \/ i \in some THEN aof[i] ELSE Hole]
                            : some \in SUBSET (synced + 1 .. m)}
  <1>1. [i \in 1 .. n |-> IF i <= synced \/ i \in kept THEN aof[i] ELSE Hole] \in left(n)
    OBVIOUS
  <1>2. AofsLeft = UNION {left(m) : m \in synced .. Len(aof)}
    BY DEF AofsLeft
  <1> HIDE DEF left
  <1> QED
    BY <1>1, <1>2

\* The empty log is one of them while nothing is durable.
LEMMA EmptyLeft ==
  ASSUME TypeOK, synced = 0
  PROVE  <<>> \in AofsLeft
  <1>1. 0 \in synced .. Len(aof) /\ {} \in SUBSET (synced + 1 .. 0)
    BY DEF TypeOK
  <1>2. [i \in 1 .. 0 |-> IF i <= synced \/ i \in {} THEN aof[i] ELSE Hole] \in AofsLeft
    BY <1>1, IsLeft
  <1>3. <<>> = [i \in 1 .. 0 |-> IF i <= synced \/ i \in {} THEN aof[i] ELSE Hole]
    OBVIOUS
  <1> QED
    BY <1>2, <1>3

\* In the lives that the files survive a power loss takes cells of the AOF, but not
\* its name with them.
LEMMA NameStays ==
  ASSUME SafeLives, TypeOK, EntryInv
  PROVE  /\ LogsAfterCrash = {aof} \cup (IF "POWER" \in config.crashes THEN AofsLeft ELSE {})
         /\ PowerLoss => aof' \in AofsLeft
  <1>1. "POWER" \in config.crashes => mode = "SNAPSHOT" \/ config.names = "FSYNC"
    BY Modes
  <1>2. "POWER" \in config.crashes => named = TRUE \/ <<>> \in AofsLeft
    BY <1>1, EmptyLeft DEF EntryInv
  <1>3. LogsAfterCrash = {aof} \cup (IF "POWER" \in config.crashes THEN AofsLeft ELSE {})
    BY <1>2 DEF LogsAfterCrash
  <1>4. ASSUME PowerLoss PROVE aof' \in AofsLeft
    BY <1>2, <1>4 DEF PowerLoss, Crashed, LogLeftOf
  <1> QED
    BY <1>3, <1>4

\* The same of the next state.
LEMMA NameStaysNext ==
  ASSUME SafeLives
  PROVE  TypeOK' /\ EntryInv' =>
           LogsAfterCrash'
             = {aof'} \cup (IF "POWER" \in config'.crashes THEN AofsLeft' ELSE {})
  <1>1. TypeOK /\ EntryInv =>
          LogsAfterCrash = {aof} \cup (IF "POWER" \in config.crashes THEN AofsLeft ELSE {})
    BY NameStays
  <1>2. (TypeOK /\ EntryInv =>
          LogsAfterCrash = {aof} \cup (IF "POWER" \in config.crashes THEN AofsLeft ELSE {}))'
    BY <1>1, PTL
  <1> QED
    BY <1>2

\* Every step keeps EntryInv.
LEMMA EntryStep == FileTypes /\ EntryInv /\ AppendInv /\ [Next]_vars => EntryInv'
  <1> SUFFICES ASSUME FileTypes, EntryInv, AppendInv, [Next]_vars
               PROVE  EntryInv'
    OBVIOUS
  <1>1. CASE PowerLoss
    <2>1. synced' = Len(aof') /\ (named' = TRUE \/ aof' = <<>>)
      BY <1>1 DEF PowerLoss, LogLeftOf
    <2> QED
      BY <2>1 DEF EntryInv
  <1>2. CASE AppendSync
    <2>1. /\ op.kind = "APPEND" /\ config' = config
          /\ named' = (named \/ config.names = "FSYNC")
      BY <1>2 DEF AppendSync, SyncAof
    <2>2. CASE config.names = "FSYNC"
      BY <2>1, <2>2 DEF EntryInv
    <2>3. CASE mode = "SNAPSHOT" /\ config.names # "FSYNC"
      <3>1. FALSE
        BY <2>1, <2>3 DEF AppendInv
      <3> QED
        BY <3>1
    <2> QED
      BY <2>1, <2>2, <2>3 DEF EntryInv, mode
  <1>3. CASE SaveDone
    BY <1>3 DEF SaveDone, EntryInv
  <1>4. CASE ~PowerLoss /\ ~AppendSync /\ ~SaveDone
    <2>1. UNCHANGED <<config, synced, named>>
      BY <1>4 DEF Next, vars, Start, ClientWrite, AppendWrite, SaveBegin, SaveWrite, SaveSync,
                  SaveRename, SaveFails, Kill, Crashed
    <2> QED
      BY <2>1 DEF EntryInv, mode
  <1> QED
    BY <1>1, <1>2, <1>3, <1>4

\* Every step keeps SyncedInv.
LEMMA SyncedStep == FileTypes /\ SyncedInv /\ [Next]_vars => SyncedInv'
  <1> SUFFICES ASSUME FileTypes, SyncedInv, [Next]_vars, "KILL" \notin config'.crashes
               PROVE  synced' = IF op'.kind = "APPEND" THEN offset' ELSE Len(aof')
    BY DEF SyncedInv
  <1>0. ASSUME config' = config PROVE synced = IF op.kind = "APPEND" THEN offset ELSE Len(aof)
    BY <1>0 DEF SyncedInv
  <1>1. CASE Start
    <2>1. op = Idle
      BY <1>1 DEF Start, FileTypes, LengthInv
    <2> QED
      BY <1>0, <1>1, <2>1 DEF Start, Idle
  <1>2. ASSUME NEW c \in Command, ClientWrite(c) PROVE SyncedInv'
    <2>1. op = Idle /\ proc = "RUNNING"
      BY <1>2 DEF ClientWrite, Ready
    <2>2. offset = Len(aof)
      BY <2>1, LoggedIs DEF Idle
    <2> QED
      BY <1>0, <1>2, <2>1, <2>2 DEF ClientWrite, Idle, SyncedInv
  <1>3. CASE AppendWrite
    <2>1. op'.kind = "APPEND"
      BY <1>3, Doing DEF AppendWrite, FileTypes
    <2> QED
      BY <1>0, <1>3, <2>1 DEF AppendWrite
  <1>4. CASE AppendSync
    BY <1>4 DEF AppendSync, SyncAof, Idle
  <1>5. CASE SaveBegin
    BY <1>0, <1>5 DEF SaveBegin, Ready, Idle
  <1>6. CASE SaveWrite \/ SaveSync \/ SaveRename \/ SaveDone \/ SaveFails
    <2>1. op.kind = "SAVE" /\ UNCHANGED <<config, offset, aof, synced>>
      BY <1>6 DEF SaveWrite, SaveSync, SaveRename, SaveDone, SaveFails, SaveStage
    <2>2. op = [kind |-> "SAVE", stage |-> op.stage]
      BY <2>1, Doing DEF FileTypes
    <2>3. op'.kind # "APPEND"
      BY <1>6, <2>1, <2>2 DEF SaveWrite, SaveSync, SaveRename, SaveDone, SaveFails, Idle
    <2> QED
      BY <1>0, <2>1, <2>3
  <1>7. CASE Kill
    BY <1>7 DEF Kill, Crashed
  <1>8. CASE PowerLoss
    BY <1>8 DEF PowerLoss, Crashed, Idle
  <1>9. CASE UNCHANGED vars
    BY <1>0, <1>9 DEF vars
  <1> QED
    BY <1>1, <1>2, <1>3, <1>4, <1>5, <1>6, <1>7, <1>8, <1>9 DEF Next, SyncedInv

\* Every step keeps NameInv.
LEMMA NameStep == FileTypes /\ SnapInv /\ NameInv /\ [Next]_vars => NameInv'
  <1> SUFFICES ASSUME FileTypes, SnapInv, NameInv, [Next]_vars
               PROVE  NameInv'
    OBVIOUS
  <1>1. CASE Start
    BY <1>1 DEF Start, NameInv
  <1>2. ASSUME NEW c \in Command, ClientWrite(c) PROVE NameInv'
    BY <1>2 DEF ClientWrite, Ready, NameInv
  <1>3. CASE AppendWrite \/ AppendSync \/ SaveBegin \/ SaveWrite \/ SaveSync \/ SaveRename
             \/ SaveDone \/ SaveFails
    <2>1. proc = "RUNNING" /\ proc' = proc
      BY <1>3 DEF AppendWrite, AppendSync, SaveBegin, SaveWrite, SaveSync, SaveRename, SaveDone,
                  SaveFails, SaveStage, Ready, FileTypes, LengthInv, Idle
    <2> QED
      BY <2>1 DEF NameInv
  <1>4. CASE Kill
    BY <1>4 DEF Kill, Crashed, NameInv
  <1>5. CASE PowerLoss
    BY <1>5 DEF PowerLoss, NameInv
  <1>6. CASE UNCHANGED vars
    BY <1>6 DEF vars, NameInv
  <1> QED
    BY <1>1, <1>2, <1>3, <1>4, <1>5, <1>6 DEF Next

\* Every step keeps AppendInv.
LEMMA AppendInvStep == FileTypes /\ SnapInv /\ AppendInv /\ [Next]_vars => AppendInv'
  <1> SUFFICES ASSUME FileTypes, SnapInv, AppendInv, [Next]_vars, op'.kind = "APPEND"
               PROVE  AppendInv'
    BY DEF AppendInv
  <1>1. ASSUME NEW c \in Command, ClientWrite(c) PROVE AppendInv'
    <2>1. /\ op' = [kind |-> "APPEND", cmd |-> c, before |-> mem, written |-> 0]
          /\ mode # "SNAPSHOT" /\ ExecStatus(mem, c) = "OK" /\ mem' = Execute(mem, c)
          /\ config' = config
      BY <1>1 DEF ClientWrite, Idle
    <2> QED
      BY <2>1 DEF AppendInv, mode
  <1>2. CASE AppendWrite
    <2>1. proc = "RUNNING" /\ op.kind = "APPEND" /\ UNCHANGED <<config, mem, offset>>
      BY <1>2 DEF AppendWrite, FileTypes, LengthInv, Idle
    <2>2. PICK x \in Cell : /\ x = Encode(op.cmd)[op.written + 1] /\ aof' = Append(aof, x)
                            /\ op.written + 1 \in 1 .. CmdLen
                            /\ op' = [kind |-> "APPEND", cmd |-> op.cmd, before |-> op.before,
                                      written |-> op.written + 1]
      BY <1>2, <2>1, AppendWriteIs
    <2>3. /\ aof \in Seq(Cell) /\ Len(aof) = offset + op.written /\ offset \in Nat
          /\ op.written \in Nat
      BY <2>1, Doing DEF FileTypes, LengthInv, TypeOK
    <2>4. /\ mode # "SNAPSHOT" /\ ExecStatus(op.before, op.cmd) = "OK"
          /\ mem = Execute(op.before, op.cmd)
          /\ \A i \in 1 .. op.written : aof[offset + i] = Encode(op.cmd)[i]
      BY <2>1 DEF AppendInv
    <2>5. ASSUME NEW i \in 1 .. op.written + 1
          PROVE  aof'[offset + i] = Encode(op.cmd)[i]
      <3>1. CASE i \in 1 .. op.written
        <4>1. offset + i \in 1 .. Len(aof)
          BY <2>3, <3>1
        <4>2. aof'[offset + i] = aof[offset + i]
          BY <2>2, <2>3, <4>1
        <4> QED
          BY <2>4, <3>1, <4>2
      <3>2. CASE i = op.written + 1
        <4>1. offset + i = Len(aof) + 1
          BY <2>3, <3>2
        <4> QED
          BY <2>2, <2>3, <3>2, <4>1
      <3> QED
        BY <2>3, <3>1, <3>2
    <2>6. op'.cmd = op.cmd /\ op'.before = op.before /\ op'.written = op.written + 1
      BY <2>2
    <2> QED
      BY <2>1, <2>4, <2>5, <2>6 DEF AppendInv, mode
  <1>3. CASE SaveWrite \/ SaveSync \/ SaveRename \/ SaveDone \/ SaveFails
    <2>1. op = [kind |-> "SAVE", stage |-> op.stage]
      BY <1>3, Doing DEF SaveWrite, SaveSync, SaveRename, SaveDone, SaveFails, SaveStage, FileTypes
    <2> QED
      BY <1>3, <2>1 DEF SaveWrite, SaveSync, SaveRename, SaveDone, SaveFails, Idle
  <1>4. CASE AppendSync \/ SaveBegin \/ Kill \/ PowerLoss
    BY <1>4 DEF AppendSync, SyncAof, SaveBegin, Kill, PowerLoss, Crashed, Idle
  <1>5. CASE Start
    BY <1>5 DEF Start, FileTypes, LengthInv, Idle
  <1>6. CASE UNCHANGED vars
    BY <1>6 DEF vars, AppendInv, mode
  <1> QED
    BY <1>1, <1>2, <1>3, <1>4, <1>5, <1>6 DEF Next

\* A checkpoint that was within bounds stays so when the bound does not fall.
LEMMA CheckpointsStay ==
  ASSUME FileTypes, SyncedInv, CheckpointInv, mode = "LEGACY_HYBRID",
         config' = config, entries' \subseteq entries,
         CheckpointBound' \in Nat, CheckpointBound <= CheckpointBound',
         proc' = "RUNNING" => offset' % CmdLen = 0
  PROVE  CheckpointInv'
  <1>1. CheckpointBound \in Nat
    BY BoundIs
  <1>2. ASSUME NEW file \in entries', file # NoFile
        PROVE  file.off \in Nat /\ file.off % CmdLen = 0 /\ file.off <= CheckpointBound'
    <2>1. file.off \in Nat /\ file.off % CmdLen = 0 /\ file.off <= CheckpointBound
      BY <1>2 DEF CheckpointInv
    <2> QED
      BY <1>1, <2>1
  <1> QED
    BY <1>2 DEF CheckpointInv

\* Every step keeps CheckpointInv.
LEMMA CheckpointStep ==
  ASSUME SafeLives, FileTypes, FileTypes', SnapInv, SyncedInv, EntryInv, CheckpointInv,
         [Next]_vars
  PROVE  CheckpointInv'
  <1>a. config' = config
    BY DEF Next, vars, Start, ClientWrite, AppendWrite, AppendSync, SaveBegin, SaveWrite, SaveSync,
           SaveRename, SaveDone, SaveFails, Kill, PowerLoss, Crashed
  <1> SUFFICES ASSUME mode = "LEGACY_HYBRID" PROVE CheckpointInv'
    BY <1>a DEF CheckpointInv, mode
  <1>0. /\ CmdLen \in Nat \ {0} /\ offset \in Nat /\ synced \in Nat /\ Len(aof) \in Nat
        /\ offset <= Len(aof) /\ synced <= Len(aof)
    BY EngineAssumption DEF FileTypes, TypeOK
  <1>b. CheckpointBound' \in Nat
    BY DEF FileTypes, TypeOK, CheckpointBound
  <1>1. CASE Start
    <2>1. CASE Recovery(snap, aof).ok
      <3>1. /\ proc' = "RUNNING" /\ offset' = Len(aof) /\ proc # "RUNNING"
            /\ UNCHANGED <<synced, aof, entries>>
        BY <1>1, <2>1 DEF Start
      <3>2. /\ From(snap) \in Nat /\ From(snap) <= Len(aof) /\ From(snap) % CmdLen = 0
            /\ Base(snap) \in Database
        BY BaseFrom DEF SnapInv, EntriesSafe
      <3>3. Replay(Base(snap), aof, From(snap)).pos = Len(aof)
        BY <2>1, RecoveryIs
      <3>4. Len(aof) % CmdLen = 0
        BY <1>0, <3>2, <3>3, ReplayAligned DEF FileTypes, TypeOK
      <3>5. CheckpointBound <= CheckpointBound'
        BY <1>0, <1>a, <3>1 DEF CheckpointBound
      <3> QED
        BY <1>a, <1>b, <3>1, <3>4, <3>5, CheckpointsStay
    <2>2. CASE ~Recovery(snap, aof).ok
      <3>1. proc' # "RUNNING" /\ proc # "RUNNING" /\ UNCHANGED <<synced, aof, entries>>
        BY <1>1, <2>2 DEF Start
      <3>2. CheckpointBound <= CheckpointBound'
        BY <1>0, <1>a, <3>1 DEF CheckpointBound
      <3> QED
        BY <1>a, <1>b, <3>1, <3>2, CheckpointsStay
    <2> QED
      BY <2>1, <2>2
  <1>2. ASSUME \/ \E c \in Command : ClientWrite(c)
               \/ SaveBegin \/ SaveWrite \/ SaveSync \/ SaveDone \/ SaveFails
        PROVE  CheckpointInv'
    <2>1. UNCHANGED <<proc, offset, synced, aof>> /\ entries' \subseteq entries
      BY <1>2 DEF ClientWrite, SaveBegin, SaveWrite, SaveSync, SaveDone, SaveFails, SnapInv,
                  EntriesSafe
    <2>2. CheckpointBound' = CheckpointBound
      BY <1>a, <2>1 DEF CheckpointBound
    <2>3. CheckpointBound <= CheckpointBound'
      BY <1>b, <2>2
    <2>4. proc' = "RUNNING" => offset' % CmdLen = 0
      BY <2>1 DEF CheckpointInv
    <2> QED
      BY <1>a, <1>b, <2>1, <2>3, <2>4, CheckpointsStay
  <1>3. CASE AppendWrite
    <2>1. proc = "RUNNING" /\ UNCHANGED <<proc, offset, synced, entries>>
      BY <1>3 DEF AppendWrite, FileTypes, LengthInv, Idle
    <2>2. CheckpointBound' = CheckpointBound
      BY <1>a, <2>1 DEF CheckpointBound
    <2>3. CheckpointBound <= CheckpointBound'
      BY <1>b, <2>2
    <2>4. proc' = "RUNNING" => offset' % CmdLen = 0
      BY <2>1 DEF CheckpointInv
    <2> QED
      BY <1>a, <1>b, <2>1, <2>3, <2>4, CheckpointsStay
  <1>4. CASE AppendSync
    <2>1. /\ proc = "RUNNING" /\ offset' = offset + CmdLen /\ synced' = Len(aof)
          /\ UNCHANGED <<proc, aof, entries>>
      BY <1>4 DEF AppendSync, SyncAof, FileTypes, LengthInv, Idle
    <2>2. offset' % CmdLen = 0
      BY <1>0, <2>1, NextMultiple DEF CheckpointInv
    <2>3. CheckpointBound <= CheckpointBound'
      BY <1>0, <1>a, <2>1 DEF CheckpointBound
    <2> QED
      BY <1>a, <1>b, <2>1, <2>2, <2>3, CheckpointsStay
  <1>5. CASE SaveRename
    <2>1. /\ op.kind = "SAVE" /\ op.stage = "RENAME" /\ entries' = entries \cup {tmp}
          /\ UNCHANGED <<proc, offset, synced, aof>>
      BY <1>5 DEF SaveRename, SaveStage
    <2>2. proc = "RUNNING"
      BY <2>1 DEF FileTypes, LengthInv, Idle
    <2>3. tmp.off = offset
      BY <2>1 DEF FileTypes, SavedInv, Checkpoint
    <2>4. CheckpointBound' = offset /\ CheckpointBound = offset
      <3>1. CheckpointBound' = CheckpointBound
        BY <1>a, <2>1 DEF CheckpointBound
      <3> QED
        BY <2>1, <2>2, <3>1, BoundIs
    <2>5. offset % CmdLen = 0
      BY <2>2 DEF CheckpointInv
    <2>6. ASSUME NEW file \in entries', file # NoFile
          PROVE  file.off \in Nat /\ file.off % CmdLen = 0 /\ file.off <= CheckpointBound'
      <3>1. CASE file = tmp
        BY <1>0, <2>3, <2>4, <2>5, <3>1
      <3>2. CASE file \in entries
        BY <2>4, <2>6, <3>2 DEF CheckpointInv
      <3> QED
        BY <2>1, <3>1, <3>2
    <2> QED
      BY <1>a, <2>1, <2>5, <2>6 DEF CheckpointInv
  <1>6. CASE Kill
    <2>1. proc = "RUNNING" /\ proc' = "DOWN" /\ UNCHANGED <<synced, aof, entries>>
      BY <1>6 DEF Kill, Crashed
    <2>2. CheckpointBound <= CheckpointBound'
      BY <1>0, <1>a, <2>1 DEF CheckpointBound
    <2> QED
      BY <1>a, <1>b, <2>1, <2>2, CheckpointsStay
  <1>7. CASE PowerLoss
    <2>1. /\ proc' = "DOWN" /\ "POWER" \in config.crashes /\ aof' \in AofsLeft
          /\ synced' = Len(aof') /\ snap' \in SnapshotsLeft /\ entries' = {snap'}
      BY <1>7, NameStays DEF PowerLoss, Crashed, FileTypes
    <2>2. "KILL" \notin config.crashes
      BY <2>1, Modes DEF FileTypes
    <2>3. entries' \subseteq entries
      BY <2>1, SafeFilesStay DEF SnapInv
    <2>4. Len(aof') \in synced .. Len(aof)
      BY <2>1, LogLeft DEF FileTypes
    <2>5. CheckpointBound <= CheckpointBound'
      BY <1>0, <1>a, <2>1, <2>2, <2>4 DEF CheckpointBound
    <2> QED
      BY <1>a, <1>b, <2>1, <2>3, <2>5, CheckpointsStay
  <1>8. CASE UNCHANGED vars
    BY <1>8 DEF vars, CheckpointInv, CheckpointBound, mode
  <1> QED
    BY <1>1, <1>2, <1>3, <1>4, <1>5, <1>6, <1>7, <1>8 DEF Next

\* The same of the next state.
LEMMA AfterCrashNext ==
  SnapInv' =>
    SnapshotsAfterCrash' = {snap'} \cup (IF "POWER" \in config'.crashes THEN entries' ELSE {})
  <1>1. SnapInv =>
          SnapshotsAfterCrash = {snap} \cup (IF "POWER" \in config.crashes THEN entries ELSE {})
    BY AfterCrash
  <1>2. (SnapInv =>
           SnapshotsAfterCrash
             = {snap} \cup (IF "POWER" \in config.crashes THEN entries ELSE {}))'
    BY <1>1, PTL
  <1> QED
    BY <1>2

\* A step that leaves the log and the engine leaves what they recover to.
LEMMA ServedKept ==
  ASSUME ServedInv, config' = config, proc = "RUNNING", offset' = offset,
         Logged' = Logged, Served' = Served, SnapshotsAfterCrash' \subseteq SnapshotsAfterCrash
  PROVE  ServedInv'
  BY DEF ServedInv, Base, From, mode

\* The append is complete: a log that led to the engine before the command leads
\* to the engine that has executed it.
LEMMA AppendExecuted ==
  ASSUME FileTypes, AppendInv, proc = "RUNNING", op.kind = "APPEND", op.written = CmdLen,
         NEW d \in Database, NEW start \in 0 .. offset,
         Replay(d, Logged, start) = [db |-> op.before, pos |-> offset]
  PROVE  Replay(d, aof, start) = [db |-> mem, pos |-> offset + CmdLen]
  <1>0. CmdLen \in Nat /\ CmdLen > 0 /\ aof \in Seq(Cell) /\ Len(aof) = offset + CmdLen
    BY EngineAssumption DEF FileTypes, TypeOK, LengthInv
  <1>1. op.cmd \in Command /\ op.before \in Database
    BY Doing DEF FileTypes
  <1>2. /\ ExecStatus(op.before, op.cmd) = "OK"
        /\ mem = Execute(op.before, op.cmd)
        /\ \A i \in 1 .. CmdLen : aof[offset + i] = Encode(op.cmd)[i]
    BY DEF AppendInv
  <1>3. /\ Logged \in Seq(Cell) /\ Len(Logged) = offset /\ offset \in Nat
        /\ \A i \in 1 .. offset : Logged[i] = aof[i]
    BY LoggedIs
  <1>6. aof[offset + 1] = [cmd |-> op.cmd, part |-> 1]
    <2>1. 1 \in 1 .. CmdLen
      BY <1>0
    <2> QED
      BY <1>1, <1>2, <2>1, EncodeCells
  <1>7. aof[offset + 1].cmd = op.cmd /\ aof[offset + 1] # Hole
    BY <1>6 DEF Hole
  <1>8. CommandAt(aof, offset)
    <2>1. offset + CmdLen <= Len(aof)
      BY <1>0, <1>3
    <2>2. \A i \in 1 .. CmdLen : aof[offset + i] = Encode(aof[offset + 1].cmd)[i]
      BY <1>2, <1>7
    <2> QED
      BY <1>0, <1>3, <1>7, <2>1, <2>2, CommandCells
  <1>9. Goes(aof, offset, op.before)
    BY <1>2, <1>7, <1>8 DEF Goes
  <1>10. Len(aof) < offset + CmdLen + CmdLen /\ Len(Logged) <= Len(aof)
    BY <1>0, <1>3
  <1>11. start \in 0 .. Len(Logged)
    BY <1>3
  <1>12. \A i \in 1 .. Len(Logged) : aof[i] = Logged[i]
    BY <1>3
  <1>13. Replay(d, aof, start)
           = [db |-> Execute(op.before, aof[offset + 1].cmd), pos |-> offset + CmdLen]
    <2>1. PICK file \in Seq(Cell) : file = Logged
      BY <1>3
    <2>2. PICK longer \in Seq(Cell) : longer = aof
      BY <1>0
    <2>3. PICK e \in Database : e = op.before
      BY <1>1
    <2>4. PICK q \in Nat : q = offset
      BY <1>3
    <2>5. Goes(longer, q, e) /\ Len(longer) < q + CmdLen + CmdLen
      BY <1>9, <1>10, <2>2, <2>3, <2>4
    <2>6. /\ start \in 0 .. Len(file) /\ Len(file) <= Len(longer)
          /\ \A i \in 1 .. Len(file) : longer[i] = file[i]
      BY <1>10, <1>11, <1>12, <2>1, <2>2
    <2>7. Replay(d, file, start) = [db |-> e, pos |-> q]
      BY <2>1, <2>3, <2>4
    <2>8. Replay(d, longer, start)
            = [db |-> Execute(e, longer[q + 1].cmd), pos |-> q + CmdLen]
      BY <2>5, <2>6, <2>7, ReplayExtended
    <2> QED
      BY <2>2, <2>3, <2>4, <2>8
  <1> QED
    BY <1>2, <1>7, <1>13

\* So the AOF leads from every snapshot that a crash may leave to the engine.
LEMMA AppendComplete ==
  ASSUME RecoveryInv, proc = "RUNNING", op.kind = "APPEND", op.written = CmdLen,
         NEW file \in SnapshotsAfterCrash
  PROVE  Replay(Base(file), aof, From(file)) = [db |-> mem, pos |-> offset + CmdLen]
  <1> USE DEF RecoveryInv
  <1>1. mode # "SNAPSHOT"
    BY DEF AppendInv
  <1>2. Base(file) \in Database /\ From(file) \in Nat /\ From(file) <= offset
    BY <1>1, AfterCrash, BaseFrom
  <1>3. Replay(Base(file), Logged, From(file)) = [db |-> op.before, pos |-> offset]
    BY <1>1 DEF ServedInv, Served
  <1>4. From(file) \in 0 .. offset
    BY <1>2 DEF FileTypes, TypeOK
  <1> QED
    BY <1>2, <1>3, <1>4, AppendExecuted

\* Every step keeps ServedInv.
LEMMA ServedStep ==
  ASSUME SafeLives, RecoveryInv, FileTypes', SnapInv', [Next]_vars
  PROVE  ServedInv'
  <1> USE DEF RecoveryInv
  <1>a. config' = config
    BY DEF Next, vars, Start, ClientWrite, AppendWrite, AppendSync, SaveBegin, SaveWrite, SaveSync,
           SaveRename, SaveDone, SaveFails, Kill, PowerLoss, Crashed
  <1>b. /\ SnapshotsAfterCrash = {snap} \cup (IF "POWER" \in config.crashes THEN entries ELSE {})
        /\ SnapshotsAfterCrash' = {snap'} \cup (IF "POWER" \in config.crashes THEN entries' ELSE {})
        /\ snap \in entries
    BY <1>a, AfterCrash, AfterCrashNext DEF SnapInv, EntriesSafe
  <1> SUFFICES ASSUME mode # "SNAPSHOT", proc' = "RUNNING" PROVE ServedInv'
    BY <1>a DEF ServedInv, mode
  <1>0. /\ CmdLen \in Nat \ {0} /\ offset \in Nat /\ Len(aof) \in Nat /\ aof \in Seq(Cell)
        /\ offset <= Len(aof)
    BY EngineAssumption DEF FileTypes, TypeOK
  <1>1. CASE Start
    <2>1. /\ Recovery(snap, aof).ok /\ offset' = Len(aof) /\ mem' = Recovery(snap, aof).db
          /\ UNCHANGED <<op, aof, snap, entries>> /\ op = Idle /\ proc # "RUNNING"
      BY <1>1 DEF Start, FileTypes, LengthInv
    <2>2. Logged' = aof /\ Served' = mem'
      BY <1>0, <2>1 DEF Logged, Served, Idle
    <2>3. PICK end : end = Replay(Base(snap), aof, From(snap))
      OBVIOUS
    <2>4. /\ Base(snap) \in Database /\ From(snap) \in 0 .. Len(aof)
      BY <1>0, <1>b, BaseFrom
    <2>5. end = [db |-> mem', pos |-> Len(aof)]
      <3>1. mem' = end.db /\ end.pos = Len(aof)
        BY <2>1, <2>3, RecoveryIs
      <3>2. end = [db |-> end.db, pos |-> end.pos]
        BY <1>0, <2>3, <2>4, ReplayInFile
      <3> QED
        BY <3>1, <3>2
    <2>6. ASSUME NEW file \in SnapshotsAfterCrash'
          PROVE  Base(file) = Base(snap) /\ From(file) = From(snap)
      <3>1. CASE mode = "AOF"
        BY <3>1 DEF Base, From
      <3>2. CASE mode = "LEGACY_HYBRID"
        <4>1. file = snap
          <5>1. CASE "POWER" \in config.crashes
            <6>1. "KILL" \notin config.crashes
              BY <3>2, <5>1, Modes DEF FileTypes
            <6> QED
              BY <1>b, <2>1, <2>6, <6>1 DEF NameInv
          <5>2. CASE "POWER" \notin config.crashes
            BY <1>b, <2>1, <2>6, <5>2
          <5> QED
            BY <5>1, <5>2
        <4> QED
          BY <4>1
      <3> QED
        BY <3>1, <3>2, Modes DEF FileTypes
    <2>7. ASSUME NEW file \in SnapshotsAfterCrash'
          PROVE  Replay(Base(file), Logged', From(file)) = [db |-> Served', pos |-> offset']
      BY <2>1, <2>2, <2>3, <2>5, <2>6, <2>7
    <2> QED
      BY <1>a, <2>7 DEF ServedInv, Base, From, mode
  <1>2. ASSUME NEW c \in Command, ClientWrite(c) PROVE ServedInv'
    <2>1. /\ proc = "RUNNING" /\ op = Idle /\ UNCHANGED <<offset, aof, snap, entries>>
          /\ op' = [kind |-> "APPEND", cmd |-> c, before |-> mem, written |-> 0]
      BY <1>2 DEF ClientWrite, Ready
    <2>2. Logged' = Logged /\ Served' = Served
      BY <2>1 DEF Logged, Served, Idle
    <2> QED
      BY <1>a, <1>b, <2>1, <2>2, ServedKept
  <1>3. CASE AppendWrite
    <2>1. proc = "RUNNING" /\ op.kind = "APPEND" /\ UNCHANGED <<offset, snap, entries, mem>>
      BY <1>3 DEF AppendWrite, FileTypes, LengthInv, Idle
    <2>2. PICK x \in Cell : /\ aof' = Append(aof, x)
                            /\ op' = [kind |-> "APPEND", cmd |-> op.cmd, before |-> op.before,
                                      written |-> op.written + 1]
      BY <1>3, <2>1, AppendWriteIs
    <2>3. Logged' = Logged
      <3>1. SubSeq(Append(aof, x), 1, offset) = SubSeq(aof, 1, offset)
        BY <1>0
      <3> QED
        BY <2>1, <2>2, <3>1 DEF Logged
    <2>4. Served' = Served
      BY <2>1, <2>2 DEF Served
    <2> QED
      BY <1>a, <1>b, <2>1, <2>3, <2>4, ServedKept
  <1>4. CASE AppendSync
    <2>1. /\ proc = "RUNNING" /\ op.kind = "APPEND" /\ op.written = CmdLen /\ op' = Idle
          /\ offset' = offset + CmdLen /\ UNCHANGED <<aof, mem, snap, entries>>
      BY <1>4 DEF AppendSync, SyncAof, FileTypes, LengthInv, Idle
    <2>2. Len(aof) = offset + CmdLen
      BY <2>1 DEF FileTypes, LengthInv
    <2>3. Logged' = aof /\ Served' = mem
      <3>1. SubSeq(aof, 1, Len(aof)) = aof
        BY <1>0
      <3> QED
        BY <2>1, <2>2, <3>1 DEF Logged, Served, Idle
    <2>4. ASSUME NEW file \in SnapshotsAfterCrash'
          PROVE  Replay(Base(file), Logged', From(file)) = [db |-> Served', pos |-> offset']
      <3>1. file \in SnapshotsAfterCrash
        BY <1>b, <2>1, <2>4
      <3> QED
        BY <2>1, <2>3, <3>1, AppendComplete
    <2> QED
      BY <1>a, <2>4 DEF ServedInv, Base, From, mode
  <1>5. CASE SaveBegin \/ SaveWrite \/ SaveSync \/ SaveDone \/ SaveFails
    <2>1. /\ proc = "RUNNING" /\ op.kind # "APPEND"
          /\ UNCHANGED <<offset, aof, mem, snap>> /\ entries' \in {entries, {snap}}
      BY <1>5 DEF SaveBegin, SaveWrite, SaveSync, SaveDone, SaveFails, SaveStage, Ready, Idle
    <2>2. op'.kind # "APPEND"
      <3>1. CASE SaveBegin
        BY <3>1 DEF SaveBegin
      <3>2. CASE SaveWrite \/ SaveSync \/ SaveDone \/ SaveFails
        <4>1. op = [kind |-> "SAVE", stage |-> op.stage]
          BY <3>2, Doing DEF SaveWrite, SaveSync, SaveDone, SaveFails, SaveStage, FileTypes
        <4> QED
          BY <3>2, <4>1 DEF SaveWrite, SaveSync, SaveDone, SaveFails, Idle
      <3> QED
        BY <1>5, <3>1, <3>2
    <2>3. Logged' = Logged /\ Served' = Served
      BY <2>1, <2>2 DEF Logged, Served
    <2>4. SnapshotsAfterCrash' \subseteq SnapshotsAfterCrash
      BY <1>b, <2>1
    <2> QED
      BY <1>a, <2>1, <2>3, <2>4, ServedKept
  <1>6. CASE SaveRename
    <2>1. /\ op.kind = "SAVE" /\ op.stage = "RENAME" /\ proc = "RUNNING"
          /\ snap' = tmp /\ entries' = entries \cup {tmp}
          /\ UNCHANGED <<proc, offset, aof, mem>>
      BY <1>6 DEF SaveRename, SaveStage, FileTypes, LengthInv, Idle
    <2>2. tmp \in Snapshot /\ tmp.db = mem /\ tmp.off = Checkpoint
      BY <2>1 DEF FileTypes, SavedInv
    <2>3. op'.kind # "APPEND"
      BY <1>6, <2>1, Doing DEF SaveRename, FileTypes
    <2>4. Logged' = aof /\ Logged = aof /\ Served' = mem /\ Served = mem /\ offset = Len(aof)
      BY <2>1, <2>3, LoggedIs DEF Logged, Served
    <2>5. ASSUME NEW file \in SnapshotsAfterCrash'
          PROVE  Replay(Base(file), Logged', From(file)) = [db |-> Served', pos |-> offset']
      <3>1. CASE file \in SnapshotsAfterCrash
        BY <2>1, <2>4, <3>1 DEF ServedInv
      <3>2. CASE file = tmp /\ mode = "LEGACY_HYBRID"
        <4>1. Base(file) = mem /\ From(file) = Len(aof)
          BY <2>2, <2>4, <3>2, NoFileAssumption DEF Base, From, Checkpoint
        <4> QED
          BY <1>0, <2>1, <2>4, <4>1, ReplayAtEnd DEF FileTypes, TypeOK
      <3>3. CASE mode = "AOF"
        <4>1. Base(file) = Base(snap) /\ From(file) = From(snap)
          BY <3>3 DEF Base, From
        <4> QED
          BY <1>b, <2>1, <2>4, <4>1 DEF ServedInv
      <3> QED
        BY <1>b, <2>1, <2>5, <3>1, <3>2, <3>3, Modes DEF FileTypes
    <2> QED
      BY <1>a, <2>5 DEF ServedInv, Base, From, mode
  <1>7. CASE Kill \/ PowerLoss
    BY <1>7 DEF Kill, PowerLoss, Crashed
  <1>8. CASE UNCHANGED vars
    <2>1. Logged' = Logged /\ Served' = Served /\ proc = "RUNNING" /\ offset' = offset
      BY <1>8 DEF vars, Logged, Served
    <2>2. SnapshotsAfterCrash' = SnapshotsAfterCrash
      BY <1>b, <1>8 DEF vars
    <2> QED
      BY <1>a, <2>1, <2>2, ServedKept
  <1> QED
    BY <1>1, <1>2, <1>3, <1>4, <1>5, <1>6, <1>7, <1>8 DEF Next

\* The files recover to the empty engine before the first start.
LEMMA RecoveryInit == Init => RecoveryInv
  <1> SUFFICES ASSUME Init PROVE RecoveryInv
    OBVIOUS
  <1>1. FileTypes /\ SnapInv
    BY TypesInit, SnapInit
  <1>2. /\ op = Idle /\ proc = "DOWN" /\ aof = <<>> /\ synced = 0 /\ entries = {NoFile}
        /\ snap = NoFile /\ Len(aof) = 0
    BY DEF Init
  <1> QED
    BY <1>1, <1>2 DEF RecoveryInv, SyncedInv, EntryInv, CheckpointInv, NameInv, AppendInv,
                      ServedInv, Idle

\* Every step keeps the invariant.
LEMMA RecoveryStep ==
  ASSUME SafeLives
  PROVE  RecoveryInv /\ [Next]_vars => RecoveryInv'
  <1> SUFFICES ASSUME RecoveryInv, [Next]_vars PROVE RecoveryInv'
    OBVIOUS
  <1>1. FileTypes /\ SnapInv /\ SyncedInv /\ EntryInv /\ CheckpointInv /\ NameInv /\ AppendInv
    BY DEF RecoveryInv
  <1>2. FileTypes' /\ SnapInv' /\ SyncedInv' /\ EntryInv' /\ NameInv' /\ AppendInv'
    BY <1>1, TypesStep, SnapStep, SyncedStep, EntryStep, NameStep, AppendInvStep
  <1>3. CheckpointInv'
    BY <1>1, <1>2, CheckpointStep
  <1>4. ServedInv'
    BY <1>2, ServedStep
  <1> QED
    BY <1>2, <1>3, <1>4 DEF RecoveryInv

\* The invariant holds of every life.
LEMMA RecoveryCorrect ==
  ASSUME SafeLives
  PROVE  Spec => []RecoveryInv
  BY RecoveryInit, RecoveryStep, PTL DEF Spec

\* No checkpoint lies behind the end of a log that a crash may leave.
LEMMA LogsLong ==
  ASSUME SafeLives, RecoveryInv, mode = "LEGACY_HYBRID", NEW log \in LogsAfterCrash
  PROVE  CheckpointBound \in Nat /\ log \in Seq(Cell) /\ CheckpointBound <= Len(log)
  <1> USE DEF RecoveryInv
  <1>1. CheckpointBound \in Nat /\ CheckpointBound <= Len(aof)
    BY BoundIs
  <1>2. CASE log = aof
    BY <1>1, <1>2 DEF FileTypes, TypeOK
  <1>3. CASE "POWER" \in config.crashes /\ log \in AofsLeft
    <2>1. "KILL" \notin config.crashes
      BY <1>3, Modes DEF FileTypes
    <2>2. CheckpointBound = synced
      BY <2>1 DEF CheckpointBound
    <2>3. log \in Seq(Cell) /\ Len(log) \in synced .. Len(aof)
      BY <1>3, LogLeft DEF FileTypes
    <2> QED
      BY <1>1, <2>2, <2>3
  <1> QED
    BY <1>2, <1>3, NameStays DEF FileTypes

\* CheckpointsInLog: whatever a kill or a power loss leaves of snapshot.db and
\* appendonly.aof, the checkpoint lies on a command boundary and not behind the
\* end of the AOF (CheckpointInLog), unless both happen to the same files or a
\* power loss can take the name of an AOF that was synchronised.
THEOREM CheckpointsInLog ==
  ASSUME SafeLives
  PROVE  Spec => []CheckpointInLog
  <1>1. RecoveryInv => CheckpointInLog
    <2> SUFFICES ASSUME RecoveryInv, mode = "LEGACY_HYBRID",
                        NEW file \in SnapshotsAfterCrash \ {NoFile}, NEW log \in LogsAfterCrash
                 PROVE  file.off <= Len(log) /\ file.off % CmdLen = 0
      BY DEF CheckpointInLog
    <2>1. file \in entries
      BY AfterCrash DEF RecoveryInv
    <2>2. file.off \in Nat /\ file.off % CmdLen = 0 /\ file.off <= CheckpointBound
      BY <2>1 DEF RecoveryInv, CheckpointInv
    <2>3. CheckpointBound \in Nat /\ log \in Seq(Cell) /\ CheckpointBound <= Len(log)
      BY LogsLong
    <2> QED
      BY <2>2, <2>3
  <1> QED
    BY <1>1, RecoveryCorrect, PTL

\* RestartsRecoverAll: in the modes with a log, a restart between two commands
\* finds in snapshot and AOF together exactly what the process serves
\* (RestartRecoversAll), after any number of commands, saves and crashes of a life
\* that SafeLives allows.
THEOREM RestartsRecoverAll ==
  ASSUME SafeLives
  PROVE  Spec => []RestartRecoversAll
  <1>1. RecoveryInv => RestartRecoversAll
    <2> SUFFICES ASSUME RecoveryInv, Ready, mode # "SNAPSHOT"
                 PROVE  Recovery(snap, aof) = [db |-> mem, ok |-> TRUE]
      BY DEF RestartRecoversAll
    <2> USE DEF RecoveryInv
    <2>1. proc = "RUNNING" /\ op.kind # "APPEND"
      BY DEF Ready, Idle
    <2>2. Logged = aof /\ Served = mem /\ offset = Len(aof)
      BY <2>1, LoggedIs DEF Served
    <2>3. snap \in SnapshotsAfterCrash /\ snap \in entries /\ Safe(snap)
      BY AfterCrash DEF SnapInv, EntriesSafe
    <2>4. Replay(Base(snap), aof, From(snap)) = [db |-> mem, pos |-> Len(aof)]
      BY <2>1, <2>2, <2>3 DEF ServedInv
    <2>5. \/ snap = NoFile \/ mode = "AOF"
          \/ Whole(snap) /\ snap.off >= 0
      BY <2>3, Modes DEF Safe, CheckpointInv, FileTypes
    <2> QED
      BY <2>4, <2>5, RecoveryIs
  <1> QED
    BY <1>1, RecoveryCorrect, PTL

-----------------------------------------------------------------------------
(* What an append leaves to a power loss.                                   *)

\* A log that a crash may leave after a cell was written is one that it could have
\* left before, or one cell longer.
LEMMA ShorterLog ==
  ASSUME SafeLives, FileTypes, FileTypes', EntryInv, EntryInv', proc = "RUNNING", AppendWrite,
         NEW log \in LogsAfterCrash'
  PROVE  \/ log \in LogsAfterCrash
         \/ \E old \in LogsAfterCrash, x \in Cell :
              /\ log = Append(old, x) /\ old \in Seq(Cell) /\ Len(old) = Len(aof)
              /\ x = Hole \/ x = Encode(op.cmd)[op.written + 1]
  <1>1. PICK y \in Cell : y = Encode(op.cmd)[op.written + 1] /\ aof' = Append(aof, y)
    BY AppendWriteIs
  <1>2. config' = config /\ synced' = synced
    BY DEF AppendWrite
  <1>3. aof \in Seq(Cell) /\ Len(aof) \in Nat /\ synced \in 0 .. Len(aof) /\ TypeOK
    BY DEF FileTypes, TypeOK
  <1>4. /\ aof' \in Seq(Cell) /\ Len(aof') = Len(aof) + 1 /\ aof'[Len(aof) + 1] = y
        /\ \A i \in 1 .. Len(aof) : aof'[i] = aof[i]
    BY <1>1, <1>3
  <1>5. CASE log = aof'
    <2>1. aof \in LogsAfterCrash
      BY DEF LogsAfterCrash
    <2> QED
      BY <1>1, <1>3, <1>5, <2>1
  <1>6. CASE "POWER" \in config.crashes /\ log \in AofsLeft'
    <2> DEFINE left(m) == {[i \in 1 .. m |-> IF i <= synced \/ i \in some THEN aof'[i] ELSE Hole]
                              : some \in SUBSET (synced + 1 .. m)}
    <2>0. AofsLeft' = UNION {left(m) : m \in synced .. Len(aof')}
      BY <1>2 DEF AofsLeft
    <2> HIDE DEF left
    <2>a. PICK n \in synced .. Len(aof) + 1 : log \in left(n)
      BY <2>0, <1>4, <1>6
    <2>1. log \in {[i \in 1 .. n |-> IF i <= synced \/ i \in kept THEN aof'[i] ELSE Hole]
                     : kept \in SUBSET (synced + 1 .. n)}
      BY <2>a DEF left
    <2>2. PICK kept \in SUBSET (synced + 1 .. n) :
            log = [i \in 1 .. n |-> IF i <= synced \/ i \in kept THEN aof'[i] ELSE Hole]
      BY <2>1
    <2>3. AofsLeft \subseteq LogsAfterCrash
      BY <1>3, <1>6, NameStays
    <2>4. CASE n <= Len(aof)
      <3>1. \A i \in 1 .. n : aof'[i] = aof[i]
        BY <1>3, <1>4, <2>4
      <3>2. log = [i \in 1 .. n |-> IF i <= synced \/ i \in kept THEN aof[i] ELSE Hole]
        BY <2>2, <3>1
      <3>3. n \in synced .. Len(aof)
        BY <1>3, <2>4
      <3>4. log \in AofsLeft
        BY <3>2, <3>3, IsLeft
      <3> QED
        BY <2>3, <3>4
    <2>5. CASE n = Len(aof) + 1
      <3> DEFINE few == kept \ {n}
                 old == [i \in 1 .. Len(aof) |->
                           IF i <= synced \/ i \in few THEN aof[i] ELSE Hole]
      <3>1. few \in SUBSET (synced + 1 .. Len(aof)) /\ Len(aof) \in synced .. Len(aof)
        <4>1. ASSUME NEW i \in few PROVE i \in synced + 1 .. Len(aof)
          <5>1. i \in synced + 1 .. n /\ i # n
            OBVIOUS
          <5> QED
            BY <1>3, <2>5, <5>1
        <4>2. Len(aof) \in synced .. Len(aof)
          BY <1>3
        <4> QED
          BY <4>1, <4>2
      <3>2. old \in AofsLeft
        <4> HIDE DEF few
        <4> QED
          BY <3>1, IsLeft
      <3>3. old \in Seq(Cell) /\ Len(old) = Len(aof)
        <4>1. old \in Seq(Cell)
          BY <1>3, <3>2, LogLeft
        <4> QED
          BY <1>3, <4>1
      <3>4. ASSUME NEW i \in 1 .. Len(aof) PROVE log[i] = old[i]
        <4>1. i \in 1 .. n /\ i # n
          BY <1>3, <2>5
        <4> QED
          BY <1>4, <2>2, <4>1
      <3>5. PICK x \in Cell : x = log[n] /\ (x = Hole \/ x = y)
        <4>1. n \in 1 .. n
          BY <1>3, <2>5
        <4>2. log[n] = Hole \/ log[n] = y
          BY <1>4, <2>2, <2>5, <4>1
        <4> QED
          BY <4>2 DEF Cell
      <3> HIDE DEF old
      <3>6. log = Append(old, x)
        <4>0. Append(old, x) \in Seq(Cell)
          BY <3>3, <3>5
        <4>1. PICK more \in Seq(Cell) : more = Append(old, x)
          BY <4>0
        <4>2. /\ Len(more) = n /\ more[n] = x
              /\ \A i \in 1 .. Len(aof) : more[i] = old[i]
          BY <2>5, <3>3, <4>1
        <4>3. ASSUME NEW i \in 1 .. n PROVE more[i] = log[i]
          <5>1. CASE i = n
            BY <3>5, <4>2, <5>1
          <5>2. CASE i # n
            <6>1. i \in 1 .. Len(aof)
              BY <1>3, <2>5, <5>2
            <6> QED
              BY <3>4, <4>2, <6>1
          <5> QED
            BY <5>1, <5>2
        <4>4. more = [i \in 1 .. n |-> more[i]]
          BY <1>3, <2>5, <4>2
        <4>5. log = [i \in 1 .. n |-> log[i]]
          BY <2>2
        <4> QED
          BY <4>1, <4>3, <4>4, <4>5
      <3> QED
        BY <1>1, <2>3, <3>2, <3>3, <3>5, <3>6
    <2> QED
      BY <1>3, <2>4, <2>5
  <1> QED
    BY <1>2, <1>5, <1>6, NameStaysNext DEF FileTypes

\* A log that a crash may leave differs from the AOF by holes only.
LEMMA LogCells ==
  ASSUME SafeLives, FileTypes, EntryInv, NEW log \in LogsAfterCrash
  PROVE  /\ log \in Seq(Cell) /\ Len(log) \in 0 .. Len(aof)
         /\ \A i \in 1 .. Len(log) : log[i] = aof[i] \/ log[i] = Hole
  <1>1. aof \in Seq(Cell) /\ Len(aof) \in Nat /\ synced \in 0 .. Len(aof) /\ TypeOK
    BY DEF FileTypes, TypeOK
  <1>2. CASE log = aof
    BY <1>1, <1>2
  <1>3. CASE log \in AofsLeft
    <2>1. /\ log \in Seq(Cell) /\ Len(log) \in synced .. Len(aof)
          /\ \A i \in 1 .. Len(log) : log[i] = aof[i] \/ (log[i] = Hole /\ i > synced)
      BY <1>1, <1>3, LogLeft
    <2> QED
      BY <1>1, <2>1
  <1> QED
    BY <1>1, <1>2, <1>3, NameStays

\* A cell written by an append leaves nothing to recover but what could be recovered
\* before, and the engine with the command.
LEMMA NothingElseLeft ==
  ASSUME SafeLives, RecoveryInv, FileTypes', EntryInv', proc = "RUNNING", AppendWrite,
         NEW file \in SnapshotsAfterCrash, NEW log \in LogsAfterCrash'
  PROVE  \/ \E old \in LogsAfterCrash : Recovery(file, log).db = Recovery(file, old).db
         \/ Recovery(file, log).db = Execute(op.before, op.cmd)
  <1> USE DEF RecoveryInv
  <1>1. CASE log \in LogsAfterCrash
    BY <1>1
  <1>2. ASSUME NEW old \in LogsAfterCrash, NEW x \in Cell,
               log = Append(old, x), old \in Seq(Cell), Len(old) = Len(aof),
               x = Hole \/ x = Encode(op.cmd)[op.written + 1]
        PROVE  \/ Recovery(file, log).db = Recovery(file, old).db
               \/ Recovery(file, log).db = Execute(op.before, op.cmd)
    <2>0. /\ op.kind = "APPEND" /\ mode # "SNAPSHOT" /\ op.cmd \in Command
          /\ op.written + 1 \in 1 .. CmdLen /\ op.written \in Nat
          /\ Len(aof) = offset + op.written /\ offset \in Nat
          /\ CmdLen \in Nat /\ CmdLen > 0
      <3>1. FileTypes /\ TypeOK /\ LengthInv /\ AppendInv /\ offset \in Nat
        BY DEF FileTypes, TypeOK
      <3>2. op.kind = "APPEND"
        BY DEF AppendWrite
      <3>3. op.cmd \in Command /\ op.written \in 0 .. CmdLen
        BY ONLY <3>1, <3>2, Doing
      <3>4. op.written + 1 \in 1 .. CmdLen
        BY <3>1, AppendWriteIs
      <3>5. mode # "SNAPSHOT"
        BY ONLY <3>1, <3>2 DEF AppendInv
      <3>6. Len(aof) = offset + op.written
        BY <3>1, <3>2 DEF LengthInv
      <3>7. CmdLen \in Nat /\ CmdLen > 0
        BY ONLY EngineAssumption
      <3> QED
        BY ONLY <3>1, <3>2, <3>3, <3>4, <3>5, <3>6, <3>7
    <2>a. old \in Seq(Cell)
      BY <1>2
    <2>1. /\ log \in Seq(Cell) /\ Len(log) = Len(old) + 1 /\ log[Len(old) + 1] = x
          /\ \A i \in 1 .. Len(old) : log[i] = old[i]
      BY <1>2
    <2>2. PICK d \in Database, from \in Nat : /\ d = Base(file) /\ from = From(file)
                                              /\ from <= offset /\ from <= Len(old)
      <3>1. Base(file) \in Database /\ From(file) \in Nat /\ From(file) <= offset
        BY <2>0, AfterCrash, BaseFrom
      <3>2. From(file) <= Len(old)
        BY <1>2, <2>0, <3>1
      <3> QED
        BY <3>1, <3>2
    <2>3. PICK e \in Database, q \in Nat :
            /\ Replay(d, old, from) = [db |-> e, pos |-> q]
            /\ ~Goes(old, q, e) /\ q <= Len(old)
      <3>1. from \in 0 .. Len(old)
        BY <2>2
      <3> QED
        BY <1>2, <3>1, ReplayInFile
    <2>4. /\ Recovery(file, old).db = e
          /\ Recovery(file, log).db = Replay(d, log, from).db
      BY <2>0, <2>2, <2>3, RecoveryIs
    <2>5. from \in 0 .. Len(old) /\ Len(old) <= Len(log)
      BY <1>2, <2>1, <2>2
    <2>6. CASE ~Goes(log, q, e)
      <3>1. Replay(d, log, from) = [db |-> e, pos |-> q]
        BY <2>a, <2>1, <2>3, <2>5, <2>6, ReplayExtended
      <3> QED
        BY <2>4, <3>1
    <2>7. CASE Goes(log, q, e)
      <3>1. q + CmdLen <= Len(old) + 1
        BY <2>1, <2>7 DEF Goes, CommandAt
      <3>2. ~(q + CmdLen <= Len(old))
        <4> SUFFICES ASSUME q + CmdLen <= Len(old) PROVE FALSE
          OBVIOUS
        <4>1. \A i \in 1 .. CmdLen : q + i \in 1 .. Len(old)
          BY <2>0
        <4>2. \A i \in 1 .. CmdLen : old[q + i] = log[q + i]
          BY <2>1, <4>1
        <4> QED
          BY <1>2, <2>1, <2>3, <2>7, <4>2, GoesAlike
      <3>3. q + CmdLen = Len(old) + 1
        BY <1>2, <2>0, <3>1, <3>2
      <3>4. \A i \in 1 .. CmdLen : log[q + i] = Encode(log[q + 1].cmd)[i]
        <4>1. q + CmdLen <= Len(log)
          BY <2>1, <3>1
        <4> QED
          BY <2>1, <2>7, <4>1, CommandCells DEF Goes
      <3>5. x = [cmd |-> log[q + 1].cmd, part |-> CmdLen]
        <4>1. CmdLen \in 1 .. CmdLen
          BY <2>0
        <4> QED
          BY <2>1, <3>3, <3>4, <4>1 DEF Encode
      <3>6. x = [cmd |-> op.cmd, part |-> op.written + 1]
        <4>1. x # Hole
          BY <3>5 DEF Hole
        <4>2. Encode(op.cmd)[op.written + 1] = [cmd |-> op.cmd, part |-> op.written + 1]
          BY <2>0, EncodeCells
        <4> QED
          BY <1>2, <4>1, <4>2
      <3>7. log[q + 1].cmd = op.cmd /\ op.written + 1 = CmdLen
        BY <3>5, <3>6
      <3>8. q = offset
        <4>1. q + CmdLen = (offset + op.written) + 1
          BY <1>2, <2>0, <3>3
        <4>2. PICK w \in Nat, o \in Nat, m \in Nat :
                w = op.written /\ o = offset /\ m = CmdLen
          BY <2>0
        <4>3. q + m = (o + w) + 1 /\ w + 1 = m
          BY <3>7, <4>1, <4>2
        <4>4. q = o
          BY <4>3
        <4> QED
          BY <4>2, <4>4
      <3>9. Replay(d, log, from) = [db |-> Execute(e, op.cmd), pos |-> q + CmdLen]
        <4>1. Len(log) < q + CmdLen + CmdLen
          BY <2>0, <2>1, <3>3
        <4> QED
          BY <2>a, <2>1, <2>3, <2>5, <2>7, <3>7, <4>1, ReplayExtended
      <3>10. /\ Logged \in Seq(Cell) /\ Len(Logged) = offset
             /\ \A i \in 1 .. offset : Logged[i] = aof[i]
        BY LoggedIs
      <3>11. \A i \in 1 .. Len(Logged) : i <= Len(old) => old[i] = Logged[i] \/ old[i] = Hole
        BY <1>2, <2>0, <3>10, LogCells
      <3>12. Replay(d, Logged, from) = [db |-> e, pos |-> offset]
        <4>1. from \in 0 .. Len(Logged)
          BY <2>2, <3>10
        <4> QED
          BY <1>2, <2>2, <2>3, <3>8, <3>10, <3>11, <4>1, ReplayWithHoles
      <3>13. Replay(d, Logged, from) = [db |-> op.before, pos |-> offset]
        BY <2>0, <2>2 DEF ServedInv, Served
      <3>14. e = op.before
        BY <3>12, <3>13
      <3> QED
        BY <2>4, <3>9, <3>14
    <2> QED
      BY <2>6, <2>7
  <1> QED
    BY <1>1, <1>2, ShorterLog

-----------------------------------------------------------------------------
(* The process implements the durable store.                                *)

\* The engine that a recovery yields depends on the mode and the files only.
LEMMA RecoveryFixed ==
  ASSUME NEW CONSTANT file, NEW CONSTANT log, config' = config
  PROVE  Recovery(file, log)' = Recovery(file, log)
  BY DEF Recovery, mode

\* What is recoverable in the next state.
LEMMA SafeNext ==
  ASSUME config' = config
  PROVE  SafeStates' = {Recovery(file, log).db : file \in SnapshotsAfterCrash',
                                                 log \in LogsAfterCrash'}
  <1>1. SafeStates' = {Recovery(file, log)'.db : file \in SnapshotsAfterCrash',
                                                 log \in LogsAfterCrash'}
    BY DEF SafeStates
  <1> QED
    BY <1>1, RecoveryFixed

\* With the files of the snapshot and the logs, what is recoverable stays.
LEMMA SafeKept ==
  ASSUME config' = config, SnapshotsAfterCrash' = SnapshotsAfterCrash,
         LogsAfterCrash' = LogsAfterCrash
  PROVE  SafeStates' = SafeStates
  <1>1. SafeStates' = {Recovery(file, log).db : file \in SnapshotsAfterCrash',
                                                log \in LogsAfterCrash'}
    BY SafeNext
  <1>2. SafeStates = {Recovery(file, log).db : file \in SnapshotsAfterCrash,
                                               log \in LogsAfterCrash}
    BY DEF SafeStates
  <1> QED
    BY <1>1, <1>2

\* There is something to recover.
LEMMA SafeSome == SafeStates # {} /\ Recovery(snap, aof).db \in SafeStates
  <1>1. snap \in SnapshotsAfterCrash /\ aof \in LogsAfterCrash
    BY DEF SnapshotsAfterCrash, LogsAfterCrash
  <1> QED
    BY <1>1 DEF SafeStates

\* The engine of the durable store is the engine of the process.
LEMMA SameEngine ==
  /\ Durable!Command = Command /\ Durable!EmptyDb = EmptyDb
  /\ \A d, c : Durable!ExecStatus(d, c) = ExecStatus(d, c)
  /\ \A d, c : Durable!Execute(d, c) = Execute(d, c)
  <1>1. \A S : Durable!Cardinality(S) = Cardinality(S)
    BY DEF Durable!Cardinality, Cardinality
  <1>2. \A d : Durable!Stored(d) = Stored(d)
    BY DEF Durable!Stored, Stored
  <1>3. \A d, c : Durable!ExecStatus(d, c) = ExecStatus(d, c)
    BY <1>1, <1>2 DEF Durable!ExecStatus, ExecStatus
  <1>4. \A d, c : Durable!Execute(d, c) = Execute(d, c)
    BY DEF Durable!Execute, Execute
  <1> QED
    BY <1>3, <1>4 DEF Durable!Command, Command, Durable!EmptyDb, EmptyDb

\* The steps of the durable store, in the terms of the process.
LEMMA StoreWrites ==
  ASSUME Visible # Down, NEW c \in Command, ExecStatus(Visible, c) = "OK",
         Visible' = Execute(Visible, c), config' = config,
         SafeStates' = IF mode # "SNAPSHOT" THEN {Execute(Visible, c)} ELSE SafeStates
  PROVE  Durable!AbsNext
  <1>1. (mode # "SNAPSHOT")' = (mode # "SNAPSHOT")
    BY DEF mode
  <1>2. Durable!Write(c)
    BY <1>1, SameEngine DEF Durable!Write
  <1> QED
    BY <1>2, SameEngine DEF Durable!AbsNext

\* A step of a write on its way to the file: the abstract store may lose a state that
\* was safe, or gain the one the write leads to.
LEMMA StoreWritesOn ==
  ASSUME Visible # Down, mode # "SNAPSHOT", NEW c \in Command, Visible' = Visible,
         config' = config, SafeStates' # {},
         SafeStates' \subseteq SafeStates \cup {Execute(Visible, c)}
  PROVE  Durable!AbsNext
  <1>1. (mode # "SNAPSHOT")' = (mode # "SNAPSHOT")
    BY DEF mode
  <1>2. Durable!WriteUnderWay(c)
    BY <1>1, SameEngine DEF Durable!WriteUnderWay, Durable!SafeAmong
  <1> QED
    BY <1>2, SameEngine DEF Durable!AbsNext

\* A save that completes (abstract Save): what is served becomes all that is safe.
LEMMA StoreSaves ==
  ASSUME Visible # Down, mode = "SNAPSHOT", Visible' = Visible, config' = config,
         SafeStates' = {Visible}
  PROVE  Durable!AbsNext
  <1>1. (mode # "SNAPSHOT")' = (mode # "SNAPSHOT")
    BY DEF mode
  <1>2. Durable!Save
    BY <1>1 DEF Durable!Save
  <1> QED
    BY <1>2 DEF Durable!AbsNext

\* A step of a save on its way to the disk: only what is served may become safe.
LEMMA StoreSavesOn ==
  ASSUME Visible # Down, mode = "SNAPSHOT", Visible' = Visible, config' = config,
         SafeStates' # {}, SafeStates' \subseteq SafeStates \cup {Visible}
  PROVE  Durable!AbsNext
  <1>1. (mode # "SNAPSHOT")' = (mode # "SNAPSHOT")
    BY DEF mode
  <1>2. Durable!SaveUnderWay
    BY <1>1 DEF Durable!SaveUnderWay, Durable!SafeAmong
  <1> QED
    BY <1>2 DEF Durable!AbsNext

\* A crash (abstract Crash): nothing is served, and nothing new becomes safe.
LEMMA StoreCrashes ==
  ASSUME Visible' = Down, config' = config, SafeStates' # {}, SafeStates' \subseteq SafeStates
  PROVE  Durable!AbsNext
  <1>1. (mode # "SNAPSHOT")' = (mode # "SNAPSHOT")
    BY DEF mode
  <1>2. Durable!Crash
    BY <1>1 DEF Durable!Crash, Durable!SafeAmong
  <1> QED
    BY <1>2 DEF Durable!AbsNext

\* A restart (abstract Recover): a safe state is served again.
LEMMA StoreRecovers ==
  ASSUME Visible = Down, Visible' \in SafeStates, config' = config, SafeStates' = SafeStates
  PROVE  Durable!AbsNext
  <1>1. (mode # "SNAPSHOT")' = (mode # "SNAPSHOT")
    BY DEF mode
  <1>2. Durable!Recover
    BY <1>1 DEF Durable!Recover
  <1> QED
    BY <1>2 DEF Durable!AbsNext

\* A step that changes neither what is served nor what is safe is a stutter.
LEMMA StoreStays ==
  ASSUME Visible' = Visible, config' = config, SafeStates' = SafeStates
  PROVE  UNCHANGED Durable!absVars
  <1>1. (mode # "SNAPSHOT")' = (mode # "SNAPSHOT")
    BY DEF mode
  <1> QED
    BY <1>1 DEF Durable!absVars

-----------------------------------------------------------------------------

\* The logs that a crash may leave when all of the AOF is durable.
LEMMA NothingToLose ==
  ASSUME SafeLives, FileTypes, EntryInv, "POWER" \in config.crashes => synced = Len(aof)
  PROVE  LogsAfterCrash = {aof}
  <1>1. ASSUME "POWER" \in config.crashes, NEW log \in AofsLeft PROVE log = aof
    <2>1. aof \in Seq(Cell) /\ Len(aof) \in Nat /\ TypeOK /\ synced = Len(aof)
      BY <1>1 DEF FileTypes, TypeOK
    <2>2. /\ log \in Seq(Cell) /\ Len(log) = Len(aof)
          /\ \A i \in 1 .. Len(log) : log[i] = aof[i] \/ (log[i] = Hole /\ i > synced)
      BY <2>1, LogLeft
    <2>3. \A i \in 1 .. Len(aof) : log[i] = aof[i]
      BY <2>1, <2>2
    <2> QED
      BY <2>1, <2>2, <2>3
  <1> QED
    BY <1>1, NameStays DEF FileTypes

\* In the snapshot mode the files recover to the engine in the snapshot.
LEMMA SnapshotRecovers ==
  ASSUME mode = "SNAPSHOT", NEW file, NEW log
  PROVE  Recovery(file, log).db = IF file = NoFile THEN EmptyDb ELSE file.db
  BY DEF Recovery

\* In the modes with a log, between two commands and with nothing to lose, there
\* is only one engine to recover.
LEMMA OnlyServed ==
  ASSUME RecoveryInv, mode # "SNAPSHOT", proc = "RUNNING", op.kind # "APPEND",
         LogsAfterCrash = {aof}
  PROVE  SafeStates = {mem}
  <1>1. Logged = aof /\ Served = mem
    BY LoggedIs DEF Served, RecoveryInv
  <1>2. \A file \in SnapshotsAfterCrash : Recovery(file, aof).db = mem
    BY <1>1, RecoveryIs DEF RecoveryInv, ServedInv
  <1>3. snap \in SnapshotsAfterCrash
    BY AfterCrash DEF RecoveryInv
  <1> QED
    BY <1>2, <1>3 DEF SafeStates

\* SyncedWritesKept: in a life that SafeLives allows, once all of the AOF is written
\* and synchronised no crash leaves files that recover to anything but what is
\* served (SyncedIsKept), whatever snapshots are under way.
THEOREM SyncedWritesKept ==
  ASSUME SafeLives
  PROVE  Spec => []SyncedIsKept
  <1>1. RecoveryInv => SyncedIsKept
    <2> SUFFICES ASSUME RecoveryInv, Ready, mode # "SNAPSHOT", synced = Len(aof)
                 PROVE  SafeStates = {mem}
      BY DEF SyncedIsKept
    <2>1. proc = "RUNNING" /\ op.kind # "APPEND"
      BY DEF Ready, Idle
    <2>2. LogsAfterCrash = {aof}
      BY NothingToLose DEF RecoveryInv
    <2> QED
      BY <2>1, <2>2, OnlyServed
  <1> QED
    BY <1>1, RecoveryCorrect, PTL

\* The same of the next state.
LEMMA NothingToLoseNext ==
  ASSUME SafeLives
  PROVE  FileTypes' /\ EntryInv' /\ ("POWER" \in config'.crashes => synced' = Len(aof')) =>
           LogsAfterCrash' = {aof'}
  <1>1. FileTypes /\ EntryInv /\ ("POWER" \in config.crashes => synced = Len(aof)) =>
          LogsAfterCrash = {aof}
    BY NothingToLose
  <1>2. (FileTypes /\ EntryInv /\ ("POWER" \in config.crashes => synced = Len(aof)) =>
           LogsAfterCrash = {aof})'
    BY <1>1, PTL
  <1> QED
    BY <1>2

\* With nothing to lose there is only one engine to recover.
OneEngine ==
  SafeLives /\ RecoveryInv /\ mode # "SNAPSHOT" /\ proc = "RUNNING" /\ op.kind # "APPEND"
    /\ ("POWER" \in config.crashes => synced = Len(aof)) => SafeStates = {mem}

\* It holds in the next state, too.
LEMMA OneEngineNext == OneEngine'
  <1>1. OneEngine
    BY NothingToLose, OnlyServed DEF RecoveryInv, OneEngine
  <1> QED
    BY <1>1, PTL

\* There is something to recover in the next state.
LEMMA SafeSomeNext == SafeStates' # {}
  <1>1. SafeStates # {}
    BY SafeSome
  <1>2. (SafeStates # {})'
    BY <1>1, PTL
  <1> QED
    BY <1>2

\* The logs that a crash may leave depend on the AOF and what of it is durable.
LEMMA LogsKept ==
  ASSUME config' = config, aof' = aof, synced' = synced, SafeLives, TypeOK, TypeOK', EntryInv,
         EntryInv'
  PROVE  LogsAfterCrash' = LogsAfterCrash
  <1>1. AofsLeft' = AofsLeft
    BY DEF AofsLeft
  <1> QED
    BY <1>1, NameStays, NameStaysNext

\* Clients see the engine of a running process.
LEMMA VisibleIs ==
  ASSUME TypeOK
  PROVE  /\ proc = "RUNNING" => Visible \in Database /\ Visible # Down /\ Visible = Served
         /\ proc # "RUNNING" => Visible = Down
  <1>1. op.kind = "APPEND" => op.before \in Database
    BY Doing
  <1> QED
    BY <1>1, PersistenceAssumption DEF Visible, Served, TypeOK

\* A new snapshot changes what is recoverable in the snapshot mode only.
LEMMA SaveSafe ==
  ASSUME SafeLives, RecoveryInv, RecoveryInv', SaveRename \/ SaveDone, mode # "SNAPSHOT"
  PROVE  SafeStates' = SafeStates
  <1>1. /\ op.kind = "SAVE" /\ proc = "RUNNING" /\ proc' = "RUNNING"
        /\ UNCHANGED <<config, mem, aof, synced>>
    BY DEF SaveRename, SaveDone, SaveStage, RecoveryInv, FileTypes, LengthInv, Idle
  <1>2. op'.kind # "APPEND"
    <2>1. op = [kind |-> "SAVE", stage |-> op.stage]
      BY <1>1, Doing DEF RecoveryInv, FileTypes
    <2> QED
      BY <2>1 DEF SaveRename, SaveDone, Idle
  <1>3. CASE mode = "AOF"
    <2>1. \A file, other, log : Recovery(file, log).db = Recovery(other, log).db
      BY <1>3 DEF Recovery
    <2>2. SafeStates' = {Recovery(file, log).db : file \in SnapshotsAfterCrash',
                                                  log \in LogsAfterCrash}
      BY <1>1, SafeNext, LogsKept DEF RecoveryInv, FileTypes
    <2>3. SafeStates = {Recovery(file, log).db : file \in SnapshotsAfterCrash,
                                                 log \in LogsAfterCrash}
      BY DEF SafeStates
    <2>4. SnapshotsAfterCrash # {} /\ SnapshotsAfterCrash' # {}
      BY DEF SnapshotsAfterCrash
    <2> QED
      BY <2>1, <2>2, <2>3, <2>4
  <1>4. CASE mode = "LEGACY_HYBRID"
    <2>1. "POWER" \in config.crashes => synced = Len(aof)
      BY <1>1, <1>4, Modes DEF RecoveryInv, SyncedInv, FileTypes
    <2>2. SafeStates = {mem}
      BY <1>1, <1>4, <2>1, NothingToLose, OnlyServed DEF RecoveryInv
    <2>3. mode' = mode
      BY <1>1 DEF mode
    <2>4. SafeStates' = {mem'}
      BY <1>1, <1>2, <1>4, <2>1, <2>3, OneEngineNext DEF OneEngine
    <2> QED
      BY <1>1, <2>2, <2>4
  <1> QED
    BY <1>3, <1>4, Modes DEF RecoveryInv, FileTypes

\* Every step of the process is a step of the durable store, or none.
LEMMA StoreStep ==
  ASSUME SafeLives, RecoveryInv, RecoveryInv', [Next]_vars
  PROVE  [Durable!AbsNext]_(Durable!absVars)
  <1>0. FileTypes /\ FileTypes' /\ TypeOK /\ TypeOK' /\ SnapInv /\ SnapInv'
    BY DEF RecoveryInv, FileTypes
  <1>a. config' = config
    BY DEF Next, vars, Start, ClientWrite, AppendWrite, AppendSync, SaveBegin, SaveWrite, SaveSync,
           SaveRename, SaveDone, SaveFails, Kill, PowerLoss, Crashed
  <1>b. /\ SnapshotsAfterCrash = {snap} \cup (IF "POWER" \in config.crashes THEN entries ELSE {})
        /\ SnapshotsAfterCrash' = {snap'} \cup (IF "POWER" \in config.crashes THEN entries' ELSE {})
        /\ snap \in entries
    BY <1>0, <1>a, AfterCrash, AfterCrashNext DEF SnapInv, EntriesSafe
  <1>c. ASSUME UNCHANGED <<aof, synced, snap, entries>> PROVE SafeStates' = SafeStates
    BY <1>0, <1>a, <1>b, <1>c, LogsKept, SafeKept DEF RecoveryInv
  <1>d. SafeStates' = {Recovery(file, log).db : file \in SnapshotsAfterCrash',
                                                log \in LogsAfterCrash'}
    BY <1>a, SafeNext
  <1>e. /\ proc = "RUNNING" => Visible \in Database /\ Visible # Down /\ Visible = Served
        /\ proc # "RUNNING" => Visible = Down
    BY <1>0, VisibleIs
  <1>1. CASE Start
    <2>1. Visible = Down /\ SafeStates' = SafeStates
      BY <1>1, <1>c, <1>e DEF Start
    <2>2. CASE Recovery(snap, aof).ok
      <3>1. Visible' = Recovery(snap, aof).db
        BY <1>0, <1>1, <2>2 DEF Start, Visible, FileTypes, LengthInv, Idle
      <3> QED
        BY <1>a, <2>1, <3>1, SafeSome, StoreRecovers
    <2>3. CASE ~Recovery(snap, aof).ok
      <3>1. Visible' = Down
        BY <1>1, <2>3 DEF Start, Visible
      <3> QED
        BY <1>a, <2>1, <3>1, StoreStays
    <2> QED
      BY <2>2, <2>3
  <1>2. ASSUME NEW c \in Command, ClientWrite(c) PROVE [Durable!AbsNext]_(Durable!absVars)
    <2>1. /\ proc = "RUNNING" /\ proc' = proc /\ op = Idle /\ ExecStatus(mem, c) = "OK"
          /\ mem' = Execute(mem, c) /\ UNCHANGED <<aof, synced, snap, entries>>
      BY <1>2 DEF ClientWrite, Ready
    <2>2. Visible = mem /\ Visible # Down /\ SafeStates' = SafeStates
      BY <1>c, <1>e, <2>1 DEF Served, Idle
    <2>3. CASE mode = "SNAPSHOT"
      <3>1. Visible' = Execute(mem, c)
        BY <1>2, <2>1, <2>3 DEF ClientWrite, Visible, Idle
      <3> QED
        BY <1>a, <2>1, <2>2, <2>3, <3>1, StoreWrites
    <2>4. CASE mode # "SNAPSHOT"
      <3>1. op' = [kind |-> "APPEND", cmd |-> c, before |-> mem, written |-> 0]
        BY <1>2, <2>4 DEF ClientWrite
      <3>2. Visible' = mem
        BY <2>1, <3>1 DEF Visible
      <3> QED
        BY <1>a, <2>2, <3>2, StoreStays
    <2> QED
      BY <2>3, <2>4
  <1>3. CASE AppendWrite
    <2>1. /\ proc = "RUNNING" /\ proc' = proc /\ op.kind = "APPEND" /\ mode # "SNAPSHOT"
          /\ op.cmd \in Command /\ UNCHANGED <<snap, entries>>
      BY <1>0, <1>3, Doing DEF AppendWrite, FileTypes, LengthInv, Idle, RecoveryInv, AppendInv
    <2>2. op' = [kind |-> "APPEND", cmd |-> op.cmd, before |-> op.before,
                 written |-> op.written + 1]
      BY <1>0, <1>3, <2>1, AppendWriteIs
    <2>3. Visible = op.before /\ Visible' = op.before /\ Visible # Down
      BY <1>e, <2>1, <2>2 DEF Visible
    <2>4. ASSUME NEW x \in SafeStates'
          PROVE  x \in SafeStates \cup {Execute(Visible, op.cmd)}
      <3>1. PICK file \in SnapshotsAfterCrash', log \in LogsAfterCrash' :
              x = Recovery(file, log).db
        BY <1>d, <2>4
      <3>2. file \in SnapshotsAfterCrash
        BY <1>b, <2>1
      <3>3. \/ \E old \in LogsAfterCrash : x = Recovery(file, old).db
            \/ x = Execute(op.before, op.cmd)
        BY <1>0, <1>3, <2>1, <3>1, <3>2, NothingElseLeft DEF RecoveryInv
      <3> QED
        BY <2>3, <3>2, <3>3 DEF SafeStates
    <2> QED
      BY <1>a, <2>1, <2>3, <2>4, SafeSomeNext, StoreWritesOn
  <1>4. CASE AppendSync
    <2>1. /\ proc = "RUNNING" /\ proc' = proc /\ op.kind = "APPEND" /\ op' = Idle
          /\ synced' = Len(aof) /\ UNCHANGED <<mem, aof>> /\ op.cmd \in Command
      BY <1>0, <1>4, Doing DEF AppendSync, SyncAof, FileTypes, LengthInv, Idle
    <2>2. /\ mode # "SNAPSHOT" /\ ExecStatus(op.before, op.cmd) = "OK"
          /\ mem = Execute(op.before, op.cmd)
      BY <2>1 DEF RecoveryInv, AppendInv
    <2>3. Visible = op.before /\ Visible # Down /\ Visible' = mem
      BY <1>e, <2>1 DEF Visible, Idle
    <2>4. SafeStates' = {mem}
      <3>1. mode' = mode
        BY <1>a DEF mode
      <3> QED
        BY <2>1, <2>2, <3>1, OneEngineNext DEF Idle, OneEngine
    <2> QED
      BY <1>a, <2>1, <2>2, <2>3, <2>4, StoreWrites
  <1>5. CASE SaveBegin \/ SaveWrite \/ SaveSync \/ SaveFails
    <2>1. /\ proc = "RUNNING" /\ proc' = proc /\ op.kind # "APPEND"
          /\ UNCHANGED <<mem, aof, synced, snap, entries>>
      BY <1>0, <1>5 DEF SaveBegin, SaveWrite, SaveSync, SaveFails, SaveStage, Ready, Idle,
                        FileTypes, LengthInv
    <2>2. op'.kind # "APPEND"
      <3>1. CASE SaveBegin
        BY <3>1 DEF SaveBegin
      <3>2. CASE SaveWrite \/ SaveSync \/ SaveFails
        <4>1. op = [kind |-> "SAVE", stage |-> op.stage]
          BY <1>0, <3>2, Doing DEF SaveWrite, SaveSync, SaveFails, SaveStage
        <4> QED
          BY <3>2, <4>1 DEF SaveWrite, SaveSync, SaveFails, Idle
      <3> QED
        BY <1>5, <3>1, <3>2
    <2>3. Visible' = Visible
      BY <2>1, <2>2 DEF Visible
    <2> QED
      BY <1>a, <1>c, <2>1, <2>3, StoreStays
  <1>6. CASE SaveRename \/ SaveDone
    <2>1. /\ op.kind = "SAVE" /\ proc = "RUNNING" /\ proc' = "RUNNING"
          /\ UNCHANGED <<mem, aof, synced>>
      BY <1>0, <1>6 DEF SaveRename, SaveDone, SaveStage, FileTypes, LengthInv, Idle
    <2>2. op'.kind # "APPEND"
      <3>1. op = [kind |-> "SAVE", stage |-> op.stage]
        BY <1>0, <2>1, Doing
      <3> QED
        BY <1>6, <3>1 DEF SaveRename, SaveDone, Idle
    <2>3. Visible' = Visible /\ Visible = mem /\ Visible # Down
      BY <1>e, <2>1, <2>2 DEF Visible
    <2>4. CASE mode # "SNAPSHOT"
      BY <1>6, <1>a, <2>3, <2>4, SaveSafe, StoreStays
    <2>5. CASE mode = "SNAPSHOT" /\ SaveRename
      <3>1. /\ tmp \in Snapshot /\ tmp.db = mem /\ snap' = tmp /\ entries' = entries \cup {tmp}
        BY <1>0, <2>5 DEF SaveRename, SaveStage, FileTypes, SavedInv
      <3>2. ASSUME NEW x \in SafeStates' PROVE x \in SafeStates \cup {Visible}
        <4>1. PICK file \in SnapshotsAfterCrash', log \in LogsAfterCrash' :
                x = Recovery(file, log).db
          BY <1>d, <3>2
        <4>2. x = IF file = NoFile THEN EmptyDb ELSE file.db
          BY <2>5, <4>1, SnapshotRecovers
        <4>3. CASE file = tmp
          BY <2>3, <3>1, <4>2, <4>3, NoFileAssumption
        <4>4. CASE file \in SnapshotsAfterCrash
          <5>1. x = Recovery(file, aof).db /\ aof \in LogsAfterCrash
            BY <2>5, <4>2, SnapshotRecovers DEF LogsAfterCrash
          <5> QED
            BY <4>4, <5>1 DEF SafeStates
        <4> QED
          BY <1>b, <3>1, <4>1, <4>3, <4>4
      <3> QED
        BY <1>a, <2>3, <2>5, <3>2, SafeSomeNext, StoreSavesOn
    <2>6. CASE mode = "SNAPSHOT" /\ SaveDone
      <3>1. snap \in Snapshot /\ snap.db = mem /\ snap' = snap /\ entries' = {snap}
        BY <1>0, <2>6 DEF SaveDone, FileTypes, SavedInv
      <3>2. SnapshotsAfterCrash' = {snap}
        BY <1>b, <3>1
      <3>3. ASSUME NEW x \in SafeStates' PROVE x = Visible
        <4>1. PICK log \in LogsAfterCrash' : x = Recovery(snap, log).db
          BY <1>d, <3>2, <3>3
        <4> QED
          BY <2>3, <2>6, <3>1, <4>1, SnapshotRecovers, NoFileAssumption
      <3>4. SafeStates' = {Visible}
        BY <3>3, SafeSomeNext
      <3> QED
        BY <1>a, <2>3, <2>6, <3>4, StoreSaves
    <2> QED
      BY <1>6, <2>4, <2>5, <2>6
  <1>7. CASE Kill
    <2>1. Visible' = Down /\ SafeStates' = SafeStates
      BY <1>7, <1>c DEF Kill, Crashed, Visible
    <2> QED
      BY <1>a, <2>1, SafeSome, StoreCrashes
  <1>8. CASE PowerLoss
    <2>1. /\ proc' = "DOWN" /\ "POWER" \in config.crashes /\ aof' \in AofsLeft
          /\ synced' = Len(aof') /\ snap' \in SnapshotsLeft /\ entries' = {snap'}
      BY <1>8, NameStays DEF PowerLoss, Crashed, FileTypes, RecoveryInv
    <2>2. Visible' = Down
      BY <2>1 DEF Visible
    <2>3. SnapshotsAfterCrash' = {snap'} /\ snap' \in SnapshotsAfterCrash
      BY <1>0, <1>b, <2>1, SafeFilesStay DEF SnapInv
    <2>4. LogsAfterCrash' = {aof'}
      BY <1>0, <2>1, NothingToLoseNext DEF RecoveryInv
    <2>5. aof' \in LogsAfterCrash
      BY <1>0, <2>1, NameStays DEF RecoveryInv
    <2>6. SafeStates' \subseteq SafeStates
      BY <1>d, <2>3, <2>4, <2>5 DEF SafeStates
    <2> QED
      BY <1>a, <2>2, <2>6, SafeSomeNext, StoreCrashes
  <1>9. CASE UNCHANGED vars
    <2>1. Visible' = Visible /\ SafeStates' = SafeStates
      BY <1>9, <1>c DEF vars, Visible
    <2> QED
      BY <1>a, <2>1, StoreStays
  <1> QED
    BY <1>1, <1>2, <1>3, <1>4, <1>5, <1>6, <1>7, <1>8, <1>9 DEF Next

\* SurvivesCrashes: the process implements the durable store (Survives): what a
\* client was told is stored is served again after every crash that the next start
\* recovers from, plus at most the operation that was under way.  SafeLives is
\* needed: kills and power losses in the hybrid mode, and a file system on which the
\* fsync of a new AOF does not keep its name, lose answered writes.
THEOREM SurvivesCrashes ==
  ASSUME SafeLives
  PROVE  Spec => Survives
  <1>1. Init => Durable!AbsInit
    <2> SUFFICES ASSUME Init PROVE Durable!AbsInit
      OBVIOUS
    <2>1. RecoveryInv
      BY RecoveryInit
    <2>2. /\ proc = "DOWN" /\ aof = <<>> /\ synced = 0 /\ snap = NoFile /\ entries = {NoFile}
          /\ Len(aof) = 0 /\ aof \in Seq(Cell)
      BY DEF Init
    <2>3. Visible = Down
      BY <2>2 DEF Visible
    <2>4. SnapshotsAfterCrash = {NoFile} /\ LogsAfterCrash = {aof}
      BY <2>1, <2>2, AfterCrash, NothingToLose DEF RecoveryInv
    <2>5. EmptyDb \in Database
      BY DEF EmptyDb, Database
    <2>6. Recovery(NoFile, aof).db = EmptyDb
      <3>1. Replay(EmptyDb, aof, 0) = [db |-> EmptyDb, pos |-> 0]
        BY <2>2, <2>5, ReplayAtEnd
      <3> QED
        BY <3>1 DEF Recovery
    <2>7. SafeStates = {EmptyDb}
      BY <2>4, <2>6 DEF SafeStates
    <2>8. (mode # "SNAPSHOT") \in BOOLEAN
      OBVIOUS
    <2> QED
      BY <2>3, <2>7, <2>8, SameEngine DEF Durable!AbsInit
  <1>2. RecoveryInv /\ RecoveryInv' /\ [Next]_vars => [Durable!AbsNext]_(Durable!absVars)
    BY StoreStep
  <1> QED
    BY <1>1, <1>2, RecoveryCorrect, PTL DEF Spec, Survives, Durable!AbsSpec

-----------------------------------------------------------------------------
(***************************************************************************)
(* What a directory holds over lives as a Replica and as a Primary, for    *)
(* any sizes, any number of installations and any number of crashes.       *)
(*                                                                         *)
(* InstallInv keeps the invariants of Persistence that do not speak of     *)
(* crashes (FileTypes, SnapInv, AppendInv), says what each stage of an     *)
(* installation has reached (StageInv), that a follower has executed a     *)
(* prefix of the Primary's log (FollowInv), and that the two files lead to *)
(* what is served unless they are torn (CheckInv, LeadsInv).               *)
(***************************************************************************)


\* The lives of a directory that replicates: replication needs the hybrid mode
\* (validate_config), and kills and power losses do not meet, since persistence
\* alone does not stand both.
ReplicatingLives ==
    \A life \in Scenario : /\ life.mode = "LEGACY_HYBRID"
                           /\ ~({"KILL", "POWER"} \subseteq life.crashes)

\* An offset between two commands of the Primary's AOF.
Boundary(off) ==
    /\ off \in 0 .. Len(upstream)
    /\ Replay(EmptyDb, SubSeq(upstream, 1, off), 0).pos = off

UpstreamInv == upstream \in Seq(Cell) /\ Boundary(Len(upstream))

\* Which life does what: a Replica appends and saves only while it follows.
RoleInv ==
    /\ proc = "DOWN" => inst = "NONE"
    /\ proc = "RUNNING" => role \in {"PRIMARY", "REPLICA"}
    /\ role = "PRIMARY" => inst = "NONE"
    /\ op # Idle => role = "PRIMARY" \/ inst = "FOLLOW"

\* What an ftruncate cut is a log; without kills all but the append under way is
\* durable, unless an installation has ended before the sync of its ftruncate.
DurableInv ==
    /\ before \subseteq Seq(Cell)
    /\ "KILL" \notin config.crashes /\ inst \notin {"SYNC", "GONE"} =>
           synced = IF op.kind = "APPEND" THEN offset ELSE Len(aof)

\* The file holds the Primary's engine at O.
HoldsPoint(file) ==
    file \in Snapshot /\ file.db = UpstreamDb(point) /\ file.off = point

\* The installation, stage by stage.
StageInv ==
    /\ inst \in {"RECEIVE", "RENAME"} => HoldsPoint(tmp) /\ Boundary(point)
    /\ inst = "RENAME" => Safe(tmp)
    /\ inst \in {"LOAD", "TRUNCATE", "SYNC"} => HoldsPoint(snap) /\ Boundary(point)
    /\ inst \in {"TRUNCATE", "SYNC"} => mem = snap.db
    /\ inst = "SYNC" => offset = point /\ ~torn

\* A Replica that follows has executed the Primary's AOF up to its own offset.
FollowInv ==
    inst = "FOLLOW" =>
        /\ ~torn /\ Boundary(offset) /\ Served = UpstreamDb(offset)
        /\ op.kind = "APPEND" => /\ CommandAt(upstream, offset)
                                 /\ op.cmd = upstream[offset + 1].cmd

\* The checkpoint is not behind the AOF, nor behind what power loss leaves of it.
CheckInv ==
    /\ \A file \in entries : file # NoFile => file.off \in Nat
    /\ ~torn /\ snap # NoFile =>
          /\ snap.off <= Len(aof)
          /\ proc = "RUNNING" => snap.off <= offset
          /\ "KILL" \notin config.crashes /\ entries = {snap} /\ before = {} =>
                snap.off <= synced

\* The two files lead to what is served.
LeadsInv ==
    proc = "RUNNING" /\ ~torn /\ (role = "PRIMARY" \/ inst = "FOLLOW") =>
        Replay(Base(snap), Logged, From(snap)) = [db |-> Served, pos |-> offset]

InstallInv == /\ FileTypes /\ SnapInv /\ AppendInv /\ UpstreamInv /\ RoleInv /\ DurableInv
              /\ StageInv /\ FollowInv /\ CheckInv /\ LeadsInv

-----------------------------------------------------------------------------
(* Lives, steps and the Primary's log.                                      *)

\* What a replicating life is.
LEMMA Lives ==
  ASSUME ReplicatingLives, TypeOK
  PROVE  /\ mode = "LEGACY_HYBRID"
         /\ "POWER" \in config.crashes => "KILL" \notin config.crashes
  BY DEF ReplicatingLives, TypeOK, mode

\* The command at a boundary of a log is a write command.
LEMMA CommandThere ==
  ASSUME NEW file \in Seq(Cell), NEW p \in Nat, CommandAt(file, p)
  PROVE  file[p + 1].cmd \in Command /\ p + CmdLen \in Nat /\ p + CmdLen <= Len(file)
  <1>1. CmdLen \in Nat /\ CmdLen > 0 /\ p + CmdLen <= Len(file) /\ file[p + 1] # Hole
    BY EngineAssumption DEF CommandAt
  <1>2. p + 1 \in 1 .. Len(file)
    BY <1>1
  <1>3. file[p + 1] \in Cell
    BY <1>2
  <1> QED
    BY <1>1, <1>3 DEF Cell

\* The steps that this module has in common with Persistence.
SharedStep ==
    \/ StartPrimary \/ (\E c \in Command : PrimaryWrite(c)) \/ Follow
    \/ Save \/ SaveReplaces \/ LogWrite \/ LogSync \/ KillProcess

\* The steps of the installation, which leave the commands alone.
InstallStep ==
    \/ StartReplica \/ BeginSync \/ ReceiveChunk \/ CommitSync \/ CommitRename
    \/ Load \/ Truncate \/ TruncateSync \/ InstallFails

\* Every step is one of these, a crash, or one of the Primary.
LEMMA StepKinds ==
  ASSUME [InstallNext]_allVars
  PROVE  \/ SharedStep \/ InstallStep \/ LosePower
         \/ (\E c \in Command : UpstreamWrite(c)) \/ UNCHANGED allVars
  BY DEF InstallNext, SharedStep, InstallStep

\* A shared step is a step of Persistence.
LEMMA SharedIsNext ==
  ASSUME FileTypes, UpstreamInv, SharedStep
  PROVE  Next
  <1>1. CASE StartPrimary
    BY <1>1 DEF StartPrimary, Next
  <1>2. CASE \E c \in Command : PrimaryWrite(c)
    BY <1>2 DEF PrimaryWrite, Next
  <1>3. CASE Follow
    <2>1. CommandAt(upstream, offset) /\ ClientWrite(upstream[offset + 1].cmd)
      BY <1>3 DEF Follow
    <2>2. upstream \in Seq(Cell) /\ offset \in Nat
      BY DEF UpstreamInv, FileTypes, TypeOK
    <2>3. upstream[offset + 1].cmd \in Command
      BY <2>1, <2>2, CommandThere
    <2> QED
      BY <2>1, <2>3 DEF Next
  <1>4. CASE Save \/ SaveReplaces
    BY <1>4 DEF Save, SaveReplaces, Next
  <1>5. CASE LogWrite \/ LogSync \/ KillProcess
    BY <1>5 DEF LogWrite, LogSync, KillProcess, Next
  <1> QED
    BY <1>1, <1>2, <1>3, <1>4, <1>5 DEF SharedStep

\* Only the Primary's writes change its log.
LEMMA UpstreamSame ==
  ASSUME SharedStep \/ InstallStep \/ LosePower \/ UNCHANGED allVars
  PROVE  upstream' = upstream
  <1>1. CASE SharedStep
    BY <1>1 DEF SharedStep, StartPrimary, PrimaryWrite, Follow, Save, SaveReplaces, LogWrite,
           LogSync, KillProcess, LifeEnds, installVars
  <1>2. CASE InstallStep
    BY <1>2 DEF InstallStep, StartReplica, BeginSync, ReceiveChunk, CommitSync, CommitRename,
           Load, Truncate, TruncateSync, InstallFails, installVars
  <1>3. CASE LosePower \/ UNCHANGED allVars
    BY <1>3 DEF LosePower, LifeEnds, allVars, installVars
  <1> QED
    BY <1>1, <1>2, <1>3

\* The first cells of a log.
LEMMA FirstCells ==
  ASSUME NEW file \in Seq(Cell), NEW n \in 0 .. Len(file)
  PROVE  /\ SubSeq(file, 1, n) \in Seq(Cell) /\ Len(SubSeq(file, 1, n)) = n
         /\ \A i \in 1 .. n : SubSeq(file, 1, n)[i] = file[i]
  <1>1. Len(file) \in Nat /\ n \in Nat /\ n <= Len(file)
    OBVIOUS
  <1> QED
    BY <1>1

\* Two logs with the same first cells.
LEMMA SameCells ==
  ASSUME NEW a \in Seq(Cell), NEW b \in Seq(Cell), Len(a) = Len(b),
         \A i \in 1 .. Len(a) : a[i] = b[i]
  PROVE  a = b
  OBVIOUS

\* Two logs, one behind the other.
LEMMA JoinedCells ==
  ASSUME NEW a \in Seq(Cell), NEW b \in Seq(Cell)
  PROVE  /\ a \o b \in Seq(Cell) /\ Len(a \o b) = Len(a) + Len(b)
         /\ \A i \in 1 .. Len(a) : (a \o b)[i] = a[i]
         /\ \A i \in 1 .. Len(b) : (a \o b)[Len(a) + i] = b[i]
  OBVIOUS

\* What the Primary's log is at an offset does not change.
LEMMA UpstreamPrefix ==
  ASSUME upstream \in Seq(Cell), NEW c \in Command, upstream' = upstream \o Encode(c)
  PROVE  /\ upstream' \in Seq(Cell) /\ Len(upstream') = Len(upstream) + CmdLen
         /\ \A i \in 1 .. Len(upstream) : upstream'[i] = upstream[i]
         /\ \A i \in 1 .. CmdLen : upstream'[Len(upstream) + i] = Encode(c)[i]
         /\ \A off \in 0 .. Len(upstream) : SubSeq(upstream', 1, off) = SubSeq(upstream, 1, off)
  <1>0. CmdLen \in Nat /\ CmdLen > 0
    BY EngineAssumption
  <1>1. Encode(c) \in Seq(Cell) /\ Len(Encode(c)) = CmdLen
    BY <1>0, EncodeCells DEF Encode
  <1>2. /\ upstream' \in Seq(Cell) /\ Len(upstream') = Len(upstream) + CmdLen
        /\ \A i \in 1 .. Len(upstream) : upstream'[i] = upstream[i]
        /\ \A i \in 1 .. CmdLen : upstream'[Len(upstream) + i] = Encode(c)[i]
    <2>1. PICK code \in Seq(Cell) : code = Encode(c)
      BY <1>1
    <2>2. upstream' = upstream \o code /\ Len(code) = CmdLen
      BY <1>1, <2>1
    <2> QED
      BY <2>1, <2>2, JoinedCells
  <1>3. ASSUME NEW off \in 0 .. Len(upstream)
        PROVE  SubSeq(upstream', 1, off) = SubSeq(upstream, 1, off)
    <2>1. off \in 0 .. Len(upstream') /\ Len(upstream) \in Nat /\ off \in 0 .. Len(upstream)
      BY <1>0, <1>2
    <2>2. PICK a \in Seq(Cell) : a = SubSeq(upstream, 1, off)
      BY FirstCells
    <2>3. PICK b \in Seq(Cell) : b = SubSeq(upstream', 1, off)
      BY <1>2, <2>1, FirstCells
    <2>4. Len(a) = off /\ \A i \in 1 .. off : a[i] = upstream[i]
      BY <2>2, FirstCells
    <2>5. Len(b) = off /\ \A i \in 1 .. off : b[i] = upstream'[i]
      BY <1>2, <2>1, <2>3, FirstCells
    <2>6. \A i \in 1 .. off : b[i] = a[i]
      BY <1>2, <2>1, <2>4, <2>5
    <2>7. a = b
      BY <2>4, <2>5, <2>6, SameCells
    <2> QED
      BY <2>2, <2>3, <2>7
  <1> QED
    BY <1>2, <1>3

\* The prefix of a log, of which a longer prefix has one more command.
LEMMA PrefixExtended ==
  ASSUME NEW file \in Seq(Cell), NEW off \in Nat, CommandAt(file, off), NEW e \in Database,
         Replay(EmptyDb, SubSeq(file, 1, off), 0) = [db |-> e, pos |-> off],
         ExecStatus(e, file[off + 1].cmd) = "OK"
  PROVE  Replay(EmptyDb, SubSeq(file, 1, off + CmdLen), 0)
           = [db |-> Execute(e, file[off + 1].cmd), pos |-> off + CmdLen]
  <1>0. CmdLen \in Nat /\ CmdLen > 0 /\ EmptyDb \in Database /\ off + CmdLen <= Len(file)
    BY EngineAssumption DEF EmptyDb, Database, CommandAt
  <1>a. off \in 0 .. Len(file) /\ off + CmdLen \in 0 .. Len(file)
    BY <1>0
  <1>1. PICK short \in Seq(Cell) : short = SubSeq(file, 1, off)
    BY <1>a, FirstCells
  <1>2. PICK long \in Seq(Cell) : long = SubSeq(file, 1, off + CmdLen)
    BY <1>a, FirstCells
  <1>3. /\ Len(short) = off /\ Len(long) = off + CmdLen
        /\ \A i \in 1 .. off : short[i] = file[i]
        /\ \A i \in 1 .. off + CmdLen : long[i] = file[i]
    BY <1>a, <1>1, <1>2, FirstCells
  <1>4. \A i \in 1 .. CmdLen : long[off + i] = file[off + i]
    BY <1>0, <1>3
  <1>5. Goes(file, off, e)
    BY DEF Goes
  <1>6. Goes(long, off, e) /\ long[off + 1].cmd = file[off + 1].cmd
    <2>1. off + CmdLen <= Len(long)
      BY <1>0, <1>3
    <2> QED
      BY <1>4, <1>5, <2>1, GoesAlike
  <1>7. /\ 0 \in 0 .. Len(short) /\ Len(short) <= Len(long)
        /\ Len(long) < off + CmdLen + CmdLen
        /\ \A i \in 1 .. Len(short) : long[i] = short[i]
    <2>1. \A i \in 1 .. off : i \in 1 .. off + CmdLen
      BY <1>0
    <2>2. \A i \in 1 .. off : long[i] = short[i]
      BY <1>3, <2>1
    <2>3. 0 \in 0 .. off /\ off <= off + CmdLen /\ off + CmdLen < off + CmdLen + CmdLen
      BY <1>0
    <2> QED
      BY <1>3, <2>2, <2>3
  <1>8. Replay(EmptyDb, short, 0) = [db |-> e, pos |-> off]
    BY <1>1
  <1>9. Replay(EmptyDb, long, 0) = [db |-> Execute(e, long[off + 1].cmd), pos |-> off + CmdLen]
    BY <1>0, <1>6, <1>7, <1>8, ReplayExtended
  <1> QED
    BY <1>2, <1>6, <1>9

\* What is at a boundary of the Primary's log.
LEMMA BoundaryIs ==
  ASSUME upstream \in Seq(Cell), NEW off \in 0 .. Len(upstream)
  PROVE  /\ UpstreamDb(off) \in Database
         /\ Boundary(off) <=> Replay(EmptyDb, SubSeq(upstream, 1, off), 0)
                                = [db |-> UpstreamDb(off), pos |-> off]
  <1>1. EmptyDb \in Database
    BY DEF EmptyDb, Database
  <1>2. PICK file \in Seq(Cell) : file = SubSeq(upstream, 1, off)
    BY FirstCells
  <1>3. Len(file) = off
    BY <1>2, FirstCells
  <1>4. PICK end : end = Replay(EmptyDb, file, 0)
    OBVIOUS
  <1>5. end = [db |-> end.db, pos |-> end.pos] /\ end.db \in Database
    BY <1>1, <1>3, <1>4, ReplayInFile
  <1>6. UpstreamDb(off) = end.db
    BY <1>2, <1>4 DEF UpstreamDb
  <1> QED
    BY <1>2, <1>4, <1>5, <1>6 DEF Boundary

-----------------------------------------------------------------------------
(* The files of Persistence, whatever the role.                             *)

\* A step that leaves the thread idle.
LEMMA IdleFiles ==
  ASSUME op' = Idle, TypeOK', proc' = "RUNNING" => offset' = Len(aof'), EntriesSafe'
  PROVE  FileTypes' /\ SnapInv' /\ AppendInv'
  <1>1. op'.kind = "IDLE"
    BY DEF Idle
  <1>2. offset' \in Nat /\ offset' + 0 = offset'
    <2>1. offset' \in 0 .. Len(aof') /\ aof' \in Seq(Cell)
      BY DEF TypeOK
    <2>2. Len(aof') \in Nat
      BY <2>1
    <2>3. PICK n \in Nat : n = offset'
      BY <2>1, <2>2
    <2>4. n + 0 = n
      OBVIOUS
    <2> QED
      BY <2>3, <2>4
  <1>3. LengthInv'
    BY <1>1, <1>2 DEF LengthInv
  <1>4. SavedInv' /\ OpShape' /\ TmpShape' /\ RenameSafe' /\ AppendInv'
    BY <1>1 DEF SavedInv, OpShape, TmpShape, RenameSafe, AppendInv, SaveStage
  <1> QED
    BY <1>3, <1>4 DEF FileTypes, SnapInv

\* The installation never meets an append or a SAVE.
LEMMA InstallIdle ==
  ASSUME FileTypes, RoleInv, InstallStep
  PROVE  /\ op = Idle /\ op' = Idle /\ config' = config /\ crashes' = crashes
         /\ proc' = "RUNNING" /\ (proc = "RUNNING" => offset = Len(aof))
         /\ role' = "REPLICA" /\ inst' # "NONE"
  <1>1. op = Idle
    <2>1. CASE StartReplica
      BY <2>1 DEF StartReplica, FileTypes, LengthInv
    <2>2. CASE ~StartReplica
      BY <2>2 DEF InstallStep, At, BeginSync, ReceiveChunk, CommitSync, CommitRename, Load,
                  Truncate, TruncateSync, InstallFails, RoleInv
    <2> QED
      BY <2>1, <2>2
  <1>2. proc = "RUNNING" => offset = Len(aof)
    BY <1>1 DEF FileTypes, TypeOK, LengthInv, Idle
  <1>3. op' = op /\ config' = config /\ crashes' = crashes /\ proc' = "RUNNING"
    BY DEF InstallStep, At, StartReplica, BeginSync, ReceiveChunk, CommitSync, CommitRename,
           Load, Truncate, TruncateSync, InstallFails
  <1>4. role' = "REPLICA" /\ inst' # "NONE"
    BY DEF InstallStep, At, StartReplica, BeginSync, ReceiveChunk, CommitSync, CommitRename,
           Load, Truncate, TruncateSync, InstallFails, installVars, RoleInv
  <1> QED
    BY <1>1, <1>2, <1>3, <1>4

\* kvs_aof_reset_to_offset leaves a log of the length it is asked for.
LEMMA ResetCells ==
  ASSUME NEW file \in Seq(Cell), NEW n \in Nat
  PROVE  ResetToOffset(file, n) \in Seq(Cell) /\ Len(ResetToOffset(file, n)) = n
  <1>1. Hole \in Cell
    BY DEF Cell
  <1>2. \A i \in 1 .. n : (IF i <= Len(file) THEN file[i] ELSE Hole) \in Cell
    BY <1>1
  <1> QED
    BY <1>2 DEF ResetToOffset

\* Every step of the installation keeps types and files.
LEMMA InstallFiles ==
  ASSUME FileTypes, SnapInv, UpstreamInv, RoleInv, StageInv, InstallStep
  PROVE  FileTypes' /\ SnapInv' /\ AppendInv'
  <1>0. /\ op = Idle /\ op' = Idle /\ config' = config /\ crashes' = crashes
        /\ proc' = "RUNNING" /\ (proc = "RUNNING" => offset = Len(aof))
    BY InstallIdle
  <1>1. TypeOK /\ EntriesSafe /\ EmptyDb \in Database /\ aof \in Seq(Cell) /\ Len(aof) \in Nat
    BY DEF FileTypes, SnapInv, EmptyDb, Database, TypeOK
  <1>2. CASE StartReplica
    <2>1. TypeOK' /\ offset' = Len(aof')
      BY <1>0, <1>1, <1>2 DEF StartReplica, TypeOK
    <2>2. EntriesSafe'
      BY <1>1, <1>2 DEF StartReplica, EntriesSafe
    <2> QED
      BY <1>0, <2>1, <2>2, IdleFiles
  <1>3. CASE BeginSync
    <2>0. upstream \in Seq(Cell)
      BY DEF UpstreamInv
    <2>1. UpstreamDb(Len(upstream)) \in Database /\ Len(upstream) \in Nat
      <3>1. PICK n \in Nat : n = Len(upstream)
        BY <2>0
      <3>2. n \in 0 .. Len(upstream)
        BY <3>1
      <3>3. UpstreamDb(n) \in Database
        BY <2>0, <3>2, BoundaryIs
      <3> QED
        BY <3>1, <3>3
    <2>2. 0 \in 0 .. SnapLen
      BY PersistenceAssumption
    <2>3. tmp' \in Snapshot
      BY <1>3, <2>1, <2>2 DEF BeginSync, Snapshot
    <2>4. TypeOK' /\ offset' = Len(aof')
      BY <1>0, <1>1, <1>3, <2>3 DEF BeginSync, At, TypeOK
    <2>5. EntriesSafe'
      BY <1>1, <1>3 DEF BeginSync, EntriesSafe
    <2> QED
      BY <1>0, <2>4, <2>5, IdleFiles
  <1>4. CASE ReceiveChunk \/ CommitSync
    <2>1. tmp \in Snapshot
      BY <1>4 DEF ReceiveChunk, CommitSync, At, StageInv, HoldsPoint
    <2>2. tmp' \in Snapshot
      <3>1. CASE ReceiveChunk
        <4>1. tmp.len \in 0 .. SnapLen /\ tmp.len # SnapLen
          BY <2>1, <3>1 DEF ReceiveChunk, Whole, Snapshot
        <4>2. tmp.len + 1 \in 0 .. SnapLen
          BY <4>1, PersistenceAssumption
        <4> QED
          BY <2>1, <3>1, <4>2 DEF ReceiveChunk, Snapshot
      <3>2. CASE CommitSync
        BY <2>1, <3>2 DEF CommitSync, Snapshot
      <3> QED
        BY <1>4, <3>1, <3>2
    <2>3. TypeOK' /\ offset' = Len(aof')
      BY <1>0, <1>1, <1>4, <2>2 DEF ReceiveChunk, CommitSync, At, TypeOK
    <2>4. EntriesSafe'
      BY <1>1, <1>4 DEF ReceiveChunk, CommitSync, EntriesSafe
    <2> QED
      BY <1>0, <2>3, <2>4, IdleFiles
  <1>5. CASE CommitRename
    <2>1. tmp \in Snapshot /\ Safe(tmp)
      BY <1>5 DEF CommitRename, At, StageInv, HoldsPoint
    <2>2. TypeOK' /\ offset' = Len(aof')
      BY <1>0, <1>1, <1>5, <2>1 DEF CommitRename, At, TypeOK
    <2>3. EntriesSafe'
      <3>1. snap' = tmp /\ entries' = entries \cup {tmp}
        BY <1>5 DEF CommitRename
      <3>2. \A file \in entries' : Safe(file)
        BY <1>1, <2>1, <3>1 DEF EntriesSafe
      <3> QED
        BY <3>1, <3>2 DEF EntriesSafe, Safe, Whole
    <2> QED
      BY <1>0, <2>2, <2>3, IdleFiles
  <1>6. CASE Load
    <2>1. snap \in Snapshot
      BY <1>6 DEF Load, At, StageInv, HoldsPoint
    <2>2. TypeOK' /\ offset' = Len(aof')
      BY <1>0, <1>1, <1>6, <2>1 DEF Load, At, TypeOK, Snapshot
    <2>3. EntriesSafe'
      BY <1>1, <1>6 DEF Load, EntriesSafe
    <2> QED
      BY <1>0, <2>2, <2>3, IdleFiles
  <1>7. CASE Truncate
    <2>1. point \in Nat
      BY <1>7 DEF Truncate, At, StageInv, Boundary, UpstreamInv
    <2>2. aof' \in Seq(Cell) /\ Len(aof') = point
      BY <1>1, <1>7, <2>1, ResetCells DEF Truncate
    <2>3. synced' \in 0 .. point /\ offset' = point
      BY <1>1, <1>7, <2>1 DEF Truncate, TypeOK
    <2>4. TypeOK' /\ offset' = Len(aof')
      BY <1>0, <1>1, <1>7, <2>1, <2>2, <2>3 DEF Truncate, At, TypeOK
    <2>5. EntriesSafe'
      BY <1>1, <1>7 DEF Truncate, EntriesSafe
    <2> QED
      BY <1>0, <2>4, <2>5, IdleFiles
  <1>8. CASE TruncateSync \/ InstallFails
    <2>1. TypeOK' /\ offset' = Len(aof')
      BY <1>0, <1>1, <1>8 DEF TruncateSync, SyncAof, InstallFails, At, TypeOK
    <2>2. EntriesSafe'
      BY <1>1, <1>8 DEF TruncateSync, SyncAof, InstallFails, EntriesSafe
    <2> QED
      BY <1>0, <2>1, <2>2, IdleFiles
  <1> QED
    BY <1>2, <1>3, <1>4, <1>5, <1>6, <1>7, <1>8 DEF InstallStep

\* So does a power loss.
LEMMA PowerFiles ==
  ASSUME FileTypes, SnapInv, DurableInv, LosePower
  PROVE  /\ FileTypes' /\ SnapInv' /\ AppendInv'
         /\ aof' \in Seq(Cell) /\ synced' = Len(aof') /\ snap' \in entries /\ entries' = {snap'}
         /\ proc' = "DOWN" /\ op' = Idle /\ config' = config /\ "POWER" \in config.crashes
  <1>0. TypeOK /\ EntriesSafe /\ EmptyDb \in Database /\ crashes \in Nat
    BY DEF FileTypes, SnapInv, EmptyDb, Database, TypeOK
  <1>1. /\ proc' = "DOWN" /\ op' = Idle /\ config' = config /\ "POWER" \in config.crashes
        /\ crashes' = crashes + 1 /\ mem' = EmptyDb /\ offset' = 0 /\ tmp' = NoFile
        /\ synced' = Len(aof') /\ entries' = {snap'} /\ snap' \in SnapshotsLeft
        /\ (aof' \in AofsLeft \cup before \/ aof' = <<>>) /\ named' \in BOOLEAN
    BY DEF LosePower, Crashed, LogLeftOf
  <1>2. aof' \in Seq(Cell)
    <2>1. CASE aof' \in AofsLeft
      BY <1>0, <2>1, LogLeft
    <2>2. CASE aof' \in before
      BY <2>2 DEF DurableInv
    <2>3. CASE aof' = <<>>
      BY <2>3
    <2> QED
      BY <1>1, <2>1, <2>2, <2>3
  <1>3. snap' \in entries
    BY <1>0, <1>1, SafeFilesStay
  <1>4. EntriesSafe'
    <2>1. PICK file : file = snap' /\ Safe(file) /\ file \in entries
      BY <1>0, <1>3 DEF EntriesSafe
    <2> QED
      BY <1>1, <2>1 DEF EntriesSafe, Safe, Whole
  <1>5. TypeOK'
    <2>1. Len(aof') \in Nat /\ 0 \in 0 .. Len(aof') /\ Len(aof') \in 0 .. Len(aof')
      BY <1>2
    <2> QED
      BY <1>0, <1>1, <1>2, <1>3, <2>1 DEF TypeOK
  <1> QED
    BY <1>1, <1>2, <1>3, <1>4, <1>5, IdleFiles

\* Every step keeps types and files.
LEMMA FilesStep ==
  ASSUME FileTypes, SnapInv, AppendInv, UpstreamInv, RoleInv, DurableInv, StageInv,
         [InstallNext]_allVars
  PROVE  FileTypes' /\ SnapInv' /\ AppendInv'
  <1>1. CASE SharedStep
    BY <1>1, SharedIsNext, TypesStep, SnapStep, AppendInvStep
  <1>2. CASE InstallStep
    BY <1>2, InstallFiles
  <1>3. CASE LosePower
    BY <1>3, PowerFiles
  <1>4. CASE (\E c \in Command : UpstreamWrite(c)) \/ UNCHANGED allVars
    <2>1. UNCHANGED vars
      BY <1>4 DEF UpstreamWrite, allVars
    <2> QED
      BY <2>1, TypesStep, SnapStep, AppendInvStep
  <1> QED
    BY <1>1, <1>2, <1>3, <1>4, StepKinds

-----------------------------------------------------------------------------
(* The Primary's log, the roles and the stages.                             *)

\* The Primary's log only grows, and by whole commands that it has executed.
LEMMA UpstreamStep ==
  ASSUME UpstreamInv, [InstallNext]_allVars
  PROVE  /\ UpstreamInv' /\ Len(upstream) <= Len(upstream')
         /\ \A off \in 0 .. Len(upstream) :
               UpstreamDb(off)' = UpstreamDb(off) /\ (Boundary(off) => Boundary(off)')
  <1>0. upstream \in Seq(Cell) /\ Boundary(Len(upstream)) /\ Len(upstream) \in Nat
    BY DEF UpstreamInv
  <1>1. CASE upstream' = upstream
    <2>1. UpstreamInv' /\ Len(upstream) <= Len(upstream')
      BY <1>0, <1>1 DEF UpstreamInv, Boundary
    <2>2. ASSUME NEW off \in 0 .. Len(upstream)
          PROVE  UpstreamDb(off)' = UpstreamDb(off) /\ (Boundary(off) => Boundary(off)')
      BY <1>1 DEF UpstreamDb, Boundary
    <2> QED
      BY <2>1, <2>2
  <1>2. CASE \E c \in Command : UpstreamWrite(c)
    <2>1. PICK c \in Command : UpstreamWrite(c)
      BY <1>2
    <2>2. PICK n \in Nat : n = Len(upstream)
      BY <1>0
    <2>3. n \in 0 .. Len(upstream)
      BY <2>2
    <2>4. ExecStatus(UpstreamDb(n), c) = "OK" /\ upstream' = upstream \o Encode(c)
      BY <2>1, <2>2 DEF UpstreamWrite
    <2>5. /\ upstream' \in Seq(Cell) /\ Len(upstream') = n + CmdLen
          /\ \A i \in 1 .. CmdLen : upstream'[n + i] = Encode(c)[i]
          /\ \A off \in 0 .. n : SubSeq(upstream', 1, off) = SubSeq(upstream, 1, off)
      BY <1>0, <2>2, <2>4, UpstreamPrefix
    <2>6. CmdLen \in Nat /\ CmdLen > 0 /\ n + CmdLen \in 0 .. n + CmdLen
      BY EngineAssumption
    <2>7. \A off \in 0 .. n : /\ UpstreamDb(off)' = UpstreamDb(off)
                              /\ Boundary(off) => Boundary(off)'
      <3> SUFFICES ASSUME NEW off \in 0 .. n
                   PROVE  /\ UpstreamDb(off)' = UpstreamDb(off)
                          /\ Boundary(off) => Boundary(off)'
        OBVIOUS
      <3>1. SubSeq(upstream', 1, off) = SubSeq(upstream, 1, off)
        BY <2>5
      <3>2. off \in 0 .. Len(upstream')
        BY <2>5, <2>6
      <3> QED
        BY <3>1, <3>2 DEF UpstreamDb, Boundary
    <2>8. PICK e \in Database : e = UpstreamDb(n)
      BY <1>0, <2>3, BoundaryIs
    <2>9. Replay(EmptyDb, SubSeq(upstream, 1, n), 0) = [db |-> e, pos |-> n]
      BY <1>0, <2>2, <2>3, <2>8, BoundaryIs
    <2>10. PICK file \in Seq(Cell) : file = upstream'
      BY <2>5
    <2>11. file[n + 1] = [cmd |-> c, part |-> 1] /\ n + CmdLen <= Len(file)
      <3>1. 1 \in 1 .. CmdLen
        BY <2>6
      <3> QED
        BY <2>5, <2>6, <2>10, <3>1, EncodeCells
    <2>12. file[n + 1].cmd = c /\ file[n + 1] # Hole
      <3>1. [cmd |-> c, part |-> 1].cmd = c /\ [cmd |-> c, part |-> 1] # Hole
        BY DEF Hole
      <3> QED
        BY <2>11, <3>1
    <2>13. \A i \in 1 .. CmdLen : file[n + i] = Encode(file[n + 1].cmd)[i]
      BY <2>5, <2>10, <2>12
    <2>14. CommandAt(file, n)
      BY <2>11, <2>12, <2>13, CommandCells
    <2>15. Replay(EmptyDb, SubSeq(file, 1, n), 0) = [db |-> e, pos |-> n]
      <3>1. SubSeq(file, 1, n) = SubSeq(upstream, 1, n)
        BY <2>2, <2>3, <2>5, <2>10
      <3> QED
        BY <2>9, <3>1
    <2>16. Replay(EmptyDb, SubSeq(file, 1, n + CmdLen), 0)
             = [db |-> Execute(e, c), pos |-> n + CmdLen]
      BY <2>4, <2>8, <2>12, <2>14, <2>15, PrefixExtended
    <2>17. Boundary(Len(upstream))'
      BY <2>5, <2>6, <2>10, <2>16 DEF Boundary
    <2> QED
      BY <2>2, <2>5, <2>6, <2>7, <2>17 DEF UpstreamInv
  <1> QED
    BY <1>1, <1>2, StepKinds, UpstreamSame

\* Every step keeps the roles apart.
LEMMA RoleStep ==
  ASSUME FileTypes, UpstreamInv, RoleInv, DurableInv, SnapInv, [InstallNext]_allVars
  PROVE  RoleInv'
  <1>1. CASE StartPrimary
    <2>1. op = Idle /\ proc = "DOWN"
      BY <1>1 DEF StartPrimary, Start, FileTypes, LengthInv
    <2>2. op' = op /\ inst' = inst /\ role' = "PRIMARY" /\ proc' # "DOWN"
      BY <1>1 DEF StartPrimary, Start
    <2> QED
      BY <2>1, <2>2 DEF RoleInv
  <1>2. CASE InstallStep
    <2>1. op' = Idle /\ proc' = "RUNNING" /\ role' = "REPLICA"
      BY <1>2, InstallIdle
    <2> QED
      BY <2>1 DEF RoleInv
  <1>3. CASE LosePower \/ KillProcess
    <2>1. op' = Idle /\ proc' = "DOWN" /\ role' = "NONE" /\ inst' = "NONE"
      BY <1>3 DEF LosePower, KillProcess, Kill, Crashed, LifeEnds
    <2> QED
      BY <2>1 DEF RoleInv
  <1>4. CASE (\E c \in Command : PrimaryWrite(c)) \/ Follow
    <2>1. UNCHANGED <<proc, role, inst>> /\ (role = "PRIMARY" \/ inst = "FOLLOW")
      BY <1>4 DEF PrimaryWrite, Follow, ClientWrite, At, installVars
    <2> QED
      BY <2>1 DEF RoleInv
  <1>5. CASE Save \/ SaveReplaces \/ LogWrite \/ LogSync
    <2>1. UNCHANGED <<proc, role, inst>> /\ (op = Idle => role = "PRIMARY" \/ inst = "FOLLOW")
      BY <1>5 DEF Save, SaveReplaces, LogWrite, LogSync, SaveBegin, SaveWrite, SaveSync, SaveRename,
                  SaveDone, SaveFails, SaveStage, AppendWrite, AppendSync, Idle, installVars
    <2> QED
      BY <2>1 DEF RoleInv
  <1>6. CASE (\E c \in Command : UpstreamWrite(c)) \/ UNCHANGED allVars
    <2>1. UNCHANGED <<proc, role, inst, op>>
      BY <1>6 DEF UpstreamWrite, allVars, vars, installVars
    <2> QED
      BY <2>1 DEF RoleInv
  <1> QED
    BY <1>1, <1>2, <1>3, <1>4, <1>5, <1>6, StepKinds DEF SharedStep

\* The steps of a process that serves: a Primary, or a Replica that follows.
Serves == proc = "RUNNING" /\ (role = "PRIMARY" \/ inst = "FOLLOW")

\* A shared step but start and crash is one of a process that serves.
LEMMA SharedServes ==
  ASSUME FileTypes, RoleInv, SharedStep, ~StartPrimary, ~KillProcess
  PROVE  /\ Serves /\ UNCHANGED <<proc, role, inst, point, upstream, config>>
         /\ before' \in {before, {}} /\ inst \notin {"SYNC", "GONE", "OFFLINE", "RECEIVE",
                                                     "RENAME", "LOAD", "TRUNCATE"}
  <1>1. /\ UNCHANGED <<proc, role, inst, point, upstream, config>>
        /\ before' \in {before, {}}
    BY DEF SharedStep, PrimaryWrite, Follow, Save, SaveReplaces, LogWrite, LogSync, installVars,
           ClientWrite, SaveBegin, SaveWrite, SaveSync, SaveRename, SaveDone, SaveFails,
           AppendWrite, AppendSync
  <1>2. proc = "RUNNING" /\ (op = Idle => role = "PRIMARY" \/ inst = "FOLLOW")
    <2>1. proc # "RUNNING" => op = Idle
      BY DEF FileTypes, LengthInv
    <2>2. \/ proc = "RUNNING" /\ op = Idle /\ (role = "PRIMARY" \/ inst = "FOLLOW")
          \/ op # Idle
      BY DEF SharedStep, PrimaryWrite, Follow, Save, SaveReplaces, LogWrite, LogSync, At, Ready,
             ClientWrite, SaveBegin, SaveWrite, SaveSync, SaveRename, SaveDone, SaveFails,
             AppendWrite, AppendSync, SaveStage, Idle
    <2> QED
      BY <2>1, <2>2
  <1>3. role = "PRIMARY" \/ inst = "FOLLOW"
    BY <1>2 DEF RoleInv
  <1> QED
    BY <1>1, <1>2, <1>3 DEF Serves, RoleInv

\* Every step keeps DurableInv.
LEMMA DurableStep ==
  ASSUME ReplicatingLives, FileTypes, SnapInv, UpstreamInv, RoleInv, DurableInv,
         [InstallNext]_allVars
  PROVE  DurableInv'
  <1>0. /\ TypeOK /\ aof \in Seq(Cell) /\ before \subseteq Seq(Cell)
        /\ "POWER" \in config.crashes => "KILL" \notin config.crashes
    BY Lives DEF FileTypes, TypeOK, DurableInv
  <1>1. CASE SharedStep /\ ~StartPrimary /\ ~KillProcess
    <2>1. /\ inst' = inst /\ config' = config /\ before' \in {before, {}}
          /\ inst \notin {"SYNC", "GONE"}
      BY <1>1, SharedServes
    <2>2. DurableInv => SyncedInv
      BY <2>1 DEF DurableInv, SyncedInv
    <2>3. SyncedInv'
      BY <1>1, <2>2, SharedIsNext, SyncedStep
    <2> QED
      BY <1>0, <2>1, <2>3 DEF DurableInv, SyncedInv
  <1>2. CASE StartPrimary
    <2>1. /\ inst' = inst /\ config' = config /\ before' = before /\ proc = "DOWN"
      BY <1>2 DEF StartPrimary, Start
    <2>2. SyncedInv
      BY <2>1 DEF DurableInv, SyncedInv, RoleInv
    <2>3. SyncedInv'
      BY <1>2, <2>2, SharedIsNext, SyncedStep DEF SharedStep
    <2> QED
      BY <1>0, <2>1, <2>3 DEF DurableInv, SyncedInv
  <1>3. CASE KillProcess
    <2>1. "KILL" \in config'.crashes /\ before' = before
      BY <1>3 DEF KillProcess, Kill, Crashed
    <2> QED
      BY <1>0, <2>1 DEF DurableInv
  <1>4. CASE LosePower
    <2>1. aof' \in Seq(Cell) /\ synced' = Len(aof') /\ op' = Idle /\ before' = {}
      BY <1>4, PowerFiles DEF LosePower
    <2> QED
      BY <2>1 DEF DurableInv, Idle
  <1>5. CASE InstallStep
    <2>1. op = Idle /\ op' = Idle /\ config' = config
      BY <1>5, InstallIdle
    <2>2. before' \subseteq Seq(Cell)
      BY <1>0, <1>5 DEF InstallStep, StartReplica, BeginSync, ReceiveChunk, CommitSync,
                        CommitRename, Load, Truncate, TruncateSync, InstallFails, installVars
    <2>3. ASSUME "KILL" \notin config.crashes, inst' \notin {"SYNC", "GONE"}
          PROVE  synced' = Len(aof')
      <3>1. CASE TruncateSync
        BY <3>1 DEF TruncateSync, SyncAof
      <3>2. CASE ~TruncateSync
        <4>1. inst \notin {"SYNC", "GONE"} /\ aof' = aof /\ synced' = synced
          BY <1>5, <2>3, <3>2 DEF InstallStep, At, StartReplica, BeginSync, ReceiveChunk,
             CommitSync, CommitRename, Load, Truncate, InstallFails, installVars, RoleInv
        <4> QED
          BY <2>1, <2>3, <4>1 DEF DurableInv, Idle
      <3> QED
        BY <3>1, <3>2
    <2> QED
      BY <2>1, <2>2, <2>3 DEF DurableInv, Idle
  <1>6. CASE (\E c \in Command : UpstreamWrite(c)) \/ UNCHANGED allVars
    <2>1. UNCHANGED <<config, inst, op, synced, offset, aof, before>>
      BY <1>6 DEF UpstreamWrite, allVars, vars, installVars
    <2> QED
      BY <2>1 DEF DurableInv
  <1> QED
    BY <1>1, <1>2, <1>3, <1>4, <1>5, <1>6, StepKinds

\* A file that holds the Primary's engine at O goes on to do so, while O stays.
LEMMA PointKept ==
  ASSUME UpstreamInv, [InstallNext]_allVars, Boundary(point), point' = point, NEW CONSTANT file,
         HoldsPoint(file)
  PROVE  HoldsPoint(file)' /\ Boundary(point)'
  <1>1. PICK n : n = point
    OBVIOUS
  <1>2. n \in 0 .. Len(upstream) /\ Boundary(n)
    BY <1>1 DEF Boundary
  <1>3. UpstreamDb(n)' = UpstreamDb(n) /\ Boundary(n)'
    BY <1>2, UpstreamStep
  <1>4. UpstreamDb(point)' = UpstreamDb(point) /\ Boundary(point)'
    BY <1>1, <1>3 DEF UpstreamDb, Boundary
  <1> QED
    BY <1>4 DEF HoldsPoint

\* Every step keeps StageInv.
LEMMA StageStep ==
  ASSUME FileTypes, SnapInv, UpstreamInv, RoleInv, DurableInv, StageInv, [InstallNext]_allVars
  PROVE  StageInv'
  <1>1. CASE SharedStep \/ LosePower
    <2>1. inst' \notin {"SYNC", "GONE", "OFFLINE", "RECEIVE", "RENAME", "LOAD", "TRUNCATE"}
      <3>1. CASE StartPrimary
        BY <3>1 DEF StartPrimary, Start, RoleInv
      <3>2. CASE KillProcess \/ LosePower
        BY <3>2 DEF KillProcess, LosePower, LifeEnds
      <3>3. CASE SharedStep /\ ~StartPrimary /\ ~KillProcess
        BY <3>3, SharedServes
      <3> QED
        BY <1>1, <3>1, <3>2, <3>3
    <2> QED
      BY <2>1 DEF StageInv
  <1>2. CASE StartReplica \/ TruncateSync \/ InstallFails
    <2>1. inst' \in {"OFFLINE", "FOLLOW", "GONE"}
      BY <1>2 DEF StartReplica, TruncateSync, InstallFails
    <2> QED
      BY <2>1 DEF StageInv
  <1>3. CASE BeginSync
    <2>1. /\ inst' = "RECEIVE" /\ point' = Len(upstream) /\ upstream' = upstream
          /\ tmp'.db = UpstreamDb(Len(upstream)) /\ tmp'.off = Len(upstream)
      BY <1>3 DEF BeginSync
    <2>2. Boundary(point)'
      BY <2>1 DEF UpstreamInv, Boundary
    <2>3. UpstreamDb(point)' = UpstreamDb(Len(upstream))
      BY <2>1 DEF UpstreamDb
    <2>4. tmp' \in Snapshot
      <3>1. /\ tmp' = [db |-> UpstreamDb(Len(upstream)), off |-> Len(upstream), len |-> 0,
                       durable |-> FALSE]
        BY <1>3 DEF BeginSync
      <3>2. upstream \in Seq(Cell) /\ Len(upstream) \in Nat /\ 0 \in 0 .. SnapLen
        BY PersistenceAssumption DEF UpstreamInv
      <3>3. PICK n \in Nat : n = Len(upstream)
        BY <3>2
      <3>4. UpstreamDb(n) \in Database
        <4>1. n \in 0 .. Len(upstream)
          BY <3>3
        <4> QED
          BY <3>2, <4>1, BoundaryIs
      <3> QED
        BY <3>1, <3>2, <3>3, <3>4 DEF Snapshot
    <2> QED
      BY <2>1, <2>2, <2>3, <2>4 DEF StageInv, HoldsPoint
  <1>4. CASE ReceiveChunk \/ CommitSync
    <2>1. /\ inst = "RECEIVE" /\ HoldsPoint(tmp) /\ Boundary(point) /\ point' = point
          /\ inst' \in {"RECEIVE", "RENAME"}
      BY <1>4 DEF ReceiveChunk, CommitSync, At, StageInv, installVars
    <2>2. PICK file : file = tmp'
      OBVIOUS
    <2>3. tmp \in Snapshot /\ tmp.db = UpstreamDb(point) /\ tmp.off = point
      BY <2>1 DEF HoldsPoint
    <2>4. file \in Snapshot /\ file.db = tmp.db /\ file.off = tmp.off
      <3>1. CASE ReceiveChunk
        <4>1. tmp.len \in 0 .. SnapLen /\ tmp.len # SnapLen
          BY <2>3, <3>1 DEF ReceiveChunk, Whole, Snapshot
        <4>2. tmp.len + 1 \in 0 .. SnapLen
          BY <4>1, PersistenceAssumption
        <4> QED
          BY <2>2, <2>3, <3>1, <4>2 DEF ReceiveChunk, Snapshot
      <3>2. CASE CommitSync
        BY <2>2, <2>3, <3>2 DEF CommitSync, Snapshot
      <3> QED
        BY <1>4, <3>1, <3>2
    <2>5. HoldsPoint(file)
      BY <2>3, <2>4 DEF HoldsPoint
    <2>6. HoldsPoint(file)' /\ Boundary(point)'
      BY <2>1, <2>5, PointKept
    <2>7. HoldsPoint(tmp)'
      BY <2>2, <2>6 DEF HoldsPoint
    <2>8. inst' = "RENAME" => Safe(tmp)'
      <3>1. CASE ReceiveChunk
        BY <2>1, <3>1 DEF ReceiveChunk, installVars
      <3>2. CASE CommitSync
        <4>1. tmp' = [tmp EXCEPT !.durable = TRUE] /\ tmp.len = SnapLen
          BY <3>2 DEF CommitSync, Whole
        <4>2. tmp'.durable = TRUE /\ tmp'.len = SnapLen
          BY <2>3, <4>1 DEF Snapshot
        <4> QED
          BY <4>2 DEF Safe, Whole
      <3> QED
        BY <1>4, <3>1, <3>2
    <2> QED
      BY <2>1, <2>6, <2>7, <2>8 DEF StageInv
  <1>5. CASE CommitRename
    <2>1. /\ inst' = "LOAD" /\ snap' = tmp /\ point' = point /\ HoldsPoint(tmp) /\ Boundary(point)
      BY <1>5 DEF CommitRename, At, StageInv
    <2>2. PICK file : file = tmp
      OBVIOUS
    <2>3. HoldsPoint(file)' /\ Boundary(point)'
      BY <2>1, <2>2, PointKept
    <2>4. HoldsPoint(snap)'
      BY <2>1, <2>2, <2>3 DEF HoldsPoint
    <2> QED
      BY <2>1, <2>3, <2>4 DEF StageInv
  <1>6. CASE Load \/ Truncate
    <2>1. /\ inst \in {"LOAD", "TRUNCATE"} /\ snap' = snap /\ point' = point
          /\ HoldsPoint(snap) /\ Boundary(point) /\ inst' \in {"TRUNCATE", "SYNC"}
          /\ mem' = snap.db /\ (inst' = "SYNC" => offset' = point /\ ~torn')
      BY <1>6 DEF Load, Truncate, At, StageInv
    <2>2. PICK file : file = snap
      OBVIOUS
    <2>3. HoldsPoint(file)' /\ Boundary(point)'
      BY <2>1, <2>2, PointKept
    <2>4. HoldsPoint(snap)'
      BY <2>1, <2>2, <2>3 DEF HoldsPoint
    <2> QED
      BY <2>1, <2>3, <2>4 DEF StageInv
  <1>7. CASE (\E c \in Command : UpstreamWrite(c)) \/ UNCHANGED allVars
    <2>1. UNCHANGED <<inst, tmp, snap, mem, offset, point, torn>>
      BY <1>7 DEF UpstreamWrite, allVars, vars, installVars
    <2>2. PICK file, other : file = tmp /\ other = snap
      OBVIOUS
    <2>3. inst \in {"RECEIVE", "RENAME"} => HoldsPoint(file)' /\ Boundary(point)'
      BY <2>1, <2>2, PointKept DEF StageInv
    <2>4. inst \in {"LOAD", "TRUNCATE", "SYNC"} => HoldsPoint(other)' /\ Boundary(point)'
      BY <2>1, <2>2, PointKept DEF StageInv
    <2>5. inst \in {"RECEIVE", "RENAME"} => HoldsPoint(tmp)'
      BY <2>1, <2>2, <2>3 DEF HoldsPoint
    <2>6. inst \in {"LOAD", "TRUNCATE", "SYNC"} => HoldsPoint(snap)'
      BY <2>1, <2>2, <2>4 DEF HoldsPoint
    <2>7. inst = "RENAME" => Safe(tmp)'
      BY <2>1 DEF StageInv, Safe, Whole
    <2> QED
      BY <2>1, <2>3, <2>4, <2>5, <2>6, <2>7 DEF StageInv
  <1> QED
    BY <1>1, <1>2, <1>3, <1>4, <1>5, <1>6, <1>7, StepKinds DEF InstallStep

-----------------------------------------------------------------------------
(* What is followed, and what the files lead to.                            *)

\* A boundary of the Primary's log goes on to be one.
LEMMA OffsetKept ==
  ASSUME UpstreamInv, [InstallNext]_allVars, Boundary(offset)
  PROVE  /\ offset \in 0 .. Len(upstream)
         /\ offset' = offset => Boundary(offset)' /\ UpstreamDb(offset)' = UpstreamDb(offset)
  <1>1. PICK n : n = offset
    OBVIOUS
  <1>2. n \in 0 .. Len(upstream) /\ Boundary(n)
    BY <1>1 DEF Boundary
  <1>3. UpstreamDb(n)' = UpstreamDb(n) /\ Boundary(n)'
    BY <1>2, UpstreamStep
  <1> QED
    BY <1>1, <1>2, <1>3 DEF UpstreamDb, Boundary

\* Every step keeps FollowInv.
LEMMA FollowStep ==
  ASSUME ReplicatingLives, FileTypes, SnapInv, AppendInv, UpstreamInv, RoleInv, DurableInv,
         StageInv, FollowInv, [InstallNext]_allVars
  PROVE  FollowInv'
  <1>0. TypeOK /\ mode = "LEGACY_HYBRID" /\ offset \in Nat /\ upstream \in Seq(Cell)
        /\ CmdLen \in Nat /\ CmdLen > 0 /\ Len(upstream) \in Nat
    BY Lives, EngineAssumption DEF FileTypes, TypeOK, UpstreamInv
  <1>1. CASE inst' # "FOLLOW"
    BY <1>1 DEF FollowInv
  <1>2. CASE InstallStep /\ inst' = "FOLLOW"
    <2>1. TruncateSync
      BY <1>2 DEF InstallStep, At, StartReplica, BeginSync, ReceiveChunk, CommitSync,
                  CommitRename, Load, Truncate, TruncateSync, InstallFails, installVars
    <2>2. /\ inst = "SYNC" /\ offset = point /\ mem = snap.db /\ HoldsPoint(snap)
          /\ Boundary(point) /\ ~torn
      BY <2>1 DEF TruncateSync, SyncAof, At, StageInv
    <2>3. offset' = offset /\ op' = Idle /\ mem' = mem /\ torn' = torn
      BY <1>2, <2>1, InstallIdle DEF TruncateSync, SyncAof
    <2>4. Boundary(offset)' /\ UpstreamDb(offset)' = UpstreamDb(offset)
      BY <2>2, <2>3, OffsetKept
    <2> QED
      BY <2>2, <2>3, <2>4 DEF FollowInv, Served, Idle, HoldsPoint
  <1>3. CASE /\ inst' = "FOLLOW" /\ inst = "FOLLOW" /\ torn' \in {torn, FALSE}
             /\ offset' = offset /\ Served' = Served
             /\ upstream' = upstream /\ (op'.kind = "APPEND" => op'.cmd = upstream[offset + 1].cmd
                                                                /\ CommandAt(upstream, offset))
    <2>1. ~torn /\ Boundary(offset) /\ Served = UpstreamDb(offset)
      BY <1>3 DEF FollowInv
    <2>2. Boundary(offset)' /\ UpstreamDb(offset)' = UpstreamDb(offset)
      BY <1>3, <2>1, OffsetKept
    <2>3. op'.kind = "APPEND" => CommandAt(upstream, offset)'
      BY <1>3 DEF CommandAt
    <2> QED
      BY <1>3, <2>1, <2>2, <2>3 DEF FollowInv
  <1>4. CASE inst' = "FOLLOW" /\ SharedStep
    <2>0. /\ inst = "FOLLOW" /\ proc = "RUNNING" /\ upstream' = upstream /\ ~StartPrimary
          /\ ~KillProcess /\ role # "PRIMARY"
      <3>1. ~StartPrimary /\ ~KillProcess
        BY <1>4 DEF StartPrimary, Start, RoleInv, KillProcess, LifeEnds
      <3>2. inst = "FOLLOW" /\ proc = "RUNNING" /\ upstream' = upstream
        BY <1>4, <3>1, SharedServes DEF Serves
      <3> QED
        BY <3>1, <3>2 DEF RoleInv
    <2>1. ~torn /\ Boundary(offset) /\ Served = UpstreamDb(offset)
      BY <2>0 DEF FollowInv
    <2>2. CASE Follow
      <3>1. /\ CommandAt(upstream, offset) /\ ClientWrite(upstream[offset + 1].cmd)
            /\ torn' = torn /\ offset' = offset /\ op = Idle
        BY <2>2 DEF Follow, installVars, ClientWrite, Ready
      <3>2. op' = [kind |-> "APPEND", cmd |-> upstream[offset + 1].cmd, before |-> mem,
                   written |-> 0]
        BY <1>0, <3>1 DEF ClientWrite
      <3>3. Served' = Served
        BY <3>1, <3>2 DEF Served, Idle
      <3>4. op'.cmd = upstream[offset + 1].cmd
        BY <3>2
      <3> QED
        BY <1>3, <1>4, <2>0, <3>1, <3>3, <3>4
    <2>3. CASE Save \/ SaveReplaces
      <3>1. /\ torn' \in {torn, FALSE} /\ offset' = offset /\ mem' = mem
            /\ op.kind # "APPEND" /\ op'.kind # "APPEND"
        <4>1. torn' \in {torn, FALSE} /\ offset' = offset /\ mem' = mem
          BY <2>3 DEF Save, SaveReplaces, installVars, SaveBegin, SaveWrite, SaveSync, SaveRename,
                      SaveDone, SaveFails
        <4>2. op.kind # "APPEND"
          BY <2>3 DEF Save, SaveReplaces, SaveBegin, SaveWrite, SaveSync, SaveRename, SaveDone,
                      SaveFails, SaveStage, Ready, Idle
        <4>3. op' = op \/ op' = Idle \/ op' = [kind |-> "SAVE", stage |-> "WRITE"]
              \/ \E s : op' = [op EXCEPT !.stage = s]
          BY <2>3 DEF Save, SaveReplaces, SaveBegin, SaveWrite, SaveSync, SaveRename, SaveDone,
                      SaveFails
        <4>4. op = Idle \/ op = [kind |-> "SAVE", stage |-> op.stage]
          BY <1>0, <4>2, Doing
        <4>5. op'.kind # "APPEND"
          BY <4>2, <4>3, <4>4 DEF Idle
        <4> QED
          BY <4>1, <4>2, <4>5
      <3>2. Served' = Served
        BY <3>1 DEF Served
      <3> QED
        BY <1>3, <1>4, <2>0, <3>1, <3>2
    <2>4. CASE LogWrite
      <3>1. /\ op' = [kind |-> "APPEND", cmd |-> op.cmd, before |-> op.before,
                      written |-> op.written + 1]
            /\ op.kind = "APPEND" /\ torn' = torn /\ offset' = offset
        BY <2>0, <2>4, AppendWriteIs DEF LogWrite, AppendWrite, installVars
      <3>2. Served' = Served /\ op'.cmd = op.cmd
        BY <3>1 DEF Served
      <3>3. op.cmd = upstream[offset + 1].cmd /\ CommandAt(upstream, offset)
        BY <2>0, <3>1 DEF FollowInv
      <3> QED
        BY <1>3, <1>4, <2>0, <3>1, <3>2, <3>3
    <2>5. CASE LogSync
      <3>1. /\ op.kind = "APPEND" /\ op' = Idle /\ offset' = offset + CmdLen /\ mem' = mem
            /\ torn' = torn
        BY <2>5 DEF LogSync, AppendSync, SyncAof
      <3>2. PICK n \in Nat : n = offset
        BY <1>0
      <3>3. PICK e \in Database : e = op.before
        BY <1>0, <3>1, Doing
      <3>4. /\ ExecStatus(e, op.cmd) = "OK" /\ mem = Execute(e, op.cmd)
            /\ CommandAt(upstream, n) /\ op.cmd = upstream[n + 1].cmd /\ e = UpstreamDb(n)
            /\ Boundary(n)
        BY <2>0, <2>1, <3>1, <3>2, <3>3 DEF AppendInv, FollowInv, Served
      <3>5. n \in 0 .. Len(upstream)
        BY <3>4 DEF Boundary
      <3>6. Replay(EmptyDb, SubSeq(upstream, 1, n), 0) = [db |-> e, pos |-> n]
        BY <1>0, <3>4, <3>5, BoundaryIs
      <3>7. Replay(EmptyDb, SubSeq(upstream, 1, n + CmdLen), 0)
              = [db |-> Execute(e, op.cmd), pos |-> n + CmdLen]
        BY <1>0, <3>4, <3>6, PrefixExtended
      <3>8. n + CmdLen \in 0 .. Len(upstream)
        BY <1>0, <3>4 DEF CommandAt
      <3>9. Boundary(n + CmdLen) /\ UpstreamDb(n + CmdLen) = Execute(e, op.cmd)
        BY <3>7, <3>8 DEF Boundary, UpstreamDb
      <3>10. Boundary(offset)' /\ UpstreamDb(offset)' = mem
        BY <2>0, <3>1, <3>2, <3>4, <3>9 DEF Boundary, UpstreamDb
      <3> QED
        BY <1>4, <2>1, <3>1, <3>10 DEF FollowInv, Served, Idle
    <2>6. CASE \E c \in Command : PrimaryWrite(c)
      BY <2>0, <2>6 DEF PrimaryWrite
    <2> QED
      BY <1>4, <2>0, <2>2, <2>3, <2>4, <2>5, <2>6 DEF SharedStep
  <1>5. CASE (\E c \in Command : UpstreamWrite(c)) \/ UNCHANGED allVars
    <2>1. UNCHANGED <<inst, torn, offset, op, mem>>
      BY <1>5 DEF UpstreamWrite, allVars, vars, installVars
    <2>2. CASE inst = "FOLLOW"
      <3>1. /\ ~torn /\ Boundary(offset) /\ Served = UpstreamDb(offset)
            /\ op.kind = "APPEND" => /\ CommandAt(upstream, offset)
                                     /\ op.cmd = upstream[offset + 1].cmd
        BY <2>2 DEF FollowInv
      <3>2. Boundary(offset)' /\ UpstreamDb(offset)' = UpstreamDb(offset)
        BY <2>1, <3>1, OffsetKept
      <3>3. Served' = Served
        BY <2>1 DEF Served
      <3>4. CASE op.kind = "APPEND"
        <4>1. PICK a \in Seq(Cell), b \in Seq(Cell) : a = upstream /\ b = upstream'
          BY <1>0, UpstreamStep DEF UpstreamInv
        <4>2. Len(a) <= Len(b) /\ \A i \in 1 .. Len(a) : b[i] = a[i]
          <5>1. CASE upstream' = upstream
            BY <4>1, <5>1
          <5>2. ASSUME NEW c \in Command, UpstreamWrite(c)
                PROVE  Len(a) <= Len(b) /\ \A i \in 1 .. Len(a) : b[i] = a[i]
            <6>1. upstream' = upstream \o Encode(c)
              BY <5>2 DEF UpstreamWrite
            <6> QED
              BY <1>0, <4>1, <6>1, UpstreamPrefix
          <5> QED
            BY <1>5, <5>1, <5>2, UpstreamSame
        <4>3. PICK n \in Nat : n = offset
          BY <1>0
        <4>4. CommandAt(a, n) /\ n + CmdLen <= Len(a)
          BY <3>1, <3>4, <4>1, <4>3 DEF CommandAt
        <4>5. /\ n + CmdLen <= Len(b) /\ \A i \in 1 .. CmdLen : b[n + i] = a[n + i]
          BY <1>0, <4>2, <4>4
        <4>6. CommandAt(b, n) /\ b[n + 1] = a[n + 1]
          BY <4>4, <4>5, SameCommand
        <4>7. CommandAt(upstream, offset)' /\ upstream'[offset + 1] = upstream[offset + 1]
          BY <2>1, <4>1, <4>3, <4>6 DEF CommandAt
        <4> QED
          BY <2>1, <3>1, <3>2, <3>3, <3>4, <4>7 DEF FollowInv
      <3> QED
        BY <2>1, <3>1, <3>2, <3>3, <3>4 DEF FollowInv
    <2> QED
      BY <2>1, <2>2 DEF FollowInv
  <1>6. CASE LosePower
    BY <1>1, <1>6 DEF LosePower, LifeEnds
  <1> QED
    BY <1>1, <1>2, <1>4, <1>5, <1>6, StepKinds

\* A step that does not touch the files keeps CheckInv.
LEMMA CheckSame ==
  ASSUME CheckInv, UNCHANGED <<snap, entries, aof, synced, offset, proc, torn, before, config>>
  PROVE  CheckInv'
  BY DEF CheckInv

\* The checkpoint a SAVE writes.
LEMMA SavedCheckpoint ==
  ASSUME ReplicatingLives, FileTypes, SaveRename
  PROVE  /\ snap' = tmp /\ entries' = entries \cup {tmp} /\ tmp \in Snapshot
         /\ tmp.db = mem /\ tmp.off = offset /\ op.kind = "SAVE"
         /\ proc = "RUNNING" /\ offset = Len(aof)
         /\ UNCHANGED <<config, proc, mem, offset, aof, synced>> /\ op'.kind = "SAVE"
  <1>1. /\ op.kind = "SAVE" /\ op.stage = "RENAME" /\ snap' = tmp /\ entries' = entries \cup {tmp}
        /\ UNCHANGED <<config, proc, mem, offset, aof, synced>>
        /\ op' = [op EXCEPT !.stage = "SYNCDIR"]
    BY DEF SaveRename, SaveStage
  <1>2. tmp \in Snapshot /\ tmp.db = mem /\ tmp.off = Checkpoint /\ TypeOK
    BY <1>1 DEF FileTypes, SavedInv
  <1>3. Checkpoint = offset
    BY <1>2, Lives DEF Checkpoint
  <1>4. proc = "RUNNING"
    BY <1>1 DEF FileTypes, LengthInv, Idle
  <1>5. offset = Len(aof)
    BY <1>1, <1>4, LoggedIs
  <1>6. op' = [kind |-> "SAVE", stage |-> "SYNCDIR"]
    BY <1>1, <1>2, Doing
  <1> QED
    BY <1>1, <1>2, <1>3, <1>4, <1>5, <1>6

\* Every step keeps CheckInv.
LEMMA CheckStep ==
  ASSUME ReplicatingLives, FileTypes, SnapInv, AppendInv, UpstreamInv, RoleInv, DurableInv,
         StageInv, CheckInv, [InstallNext]_allVars
  PROVE  CheckInv'
  <1>0. /\ TypeOK /\ mode = "LEGACY_HYBRID" /\ offset \in 0 .. Len(aof) /\ aof \in Seq(Cell)
        /\ Len(aof) \in Nat /\ synced \in 0 .. Len(aof) /\ snap \in entries
        /\ "POWER" \in config.crashes => "KILL" \notin config.crashes
    BY Lives DEF FileTypes, TypeOK, SnapInv, EntriesSafe
  <1>1. CASE \/ BeginSync \/ ReceiveChunk \/ CommitSync \/ Load \/ InstallFails \/ Follow
             \/ (\E c \in Command : PrimaryWrite(c) \/ UpstreamWrite(c)) \/ UNCHANGED allVars
    <2>1. UNCHANGED <<snap, entries, aof, synced, offset, proc, torn, before, config>>
      BY <1>1 DEF BeginSync, ReceiveChunk, CommitSync, Load, InstallFails, Follow, PrimaryWrite,
                  UpstreamWrite, ClientWrite, allVars, vars, installVars
    <2> QED
      BY <2>1, CheckSame
  <1>2. CASE StartPrimary \/ StartReplica
    <2>1. /\ UNCHANGED <<snap, entries, aof, synced, torn, before, config>>
          /\ proc' = "RUNNING" => offset' = Len(aof)
      BY <1>2 DEF StartPrimary, Start, StartReplica
    <2> QED
      BY <2>1 DEF CheckInv
  <1>3. CASE CommitRename
    <2>1. torn' = TRUE /\ entries' = entries \cup {tmp} /\ tmp.off \in Nat
      <3>1. HoldsPoint(tmp) /\ Boundary(point)
        BY <1>3 DEF CommitRename, At, StageInv
      <3>2. tmp.off \in Nat
        BY <3>1 DEF HoldsPoint, Boundary, UpstreamInv
      <3> QED
        BY <1>3, <3>2 DEF CommitRename
    <2> QED
      BY <2>1 DEF CheckInv
  <1>4. CASE Truncate
    <2>1. /\ HoldsPoint(snap) /\ Boundary(point) /\ snap' = snap /\ entries' = entries
          /\ before' = before \cup {aof} /\ aof' = ResetToOffset(aof, point) /\ offset' = point
      BY <1>4 DEF Truncate, At, StageInv
    <2>2. point \in Nat /\ snap.off = point
      BY <2>1 DEF HoldsPoint, Boundary, UpstreamInv
    <2>3. Len(aof') = point
      BY <1>0, <2>1, <2>2, ResetCells
    <2>4. before' # {}
      BY <2>1
    <2> QED
      BY <2>1, <2>2, <2>3, <2>4 DEF CheckInv
  <1>5. CASE TruncateSync
    <2>1. UNCHANGED <<config, proc, offset, aof, snap, entries, torn>> /\ synced' = Len(aof)
      BY <1>5 DEF TruncateSync, SyncAof
    <2> QED
      BY <2>1 DEF CheckInv
  <1>6. CASE Save
    <2>1. CASE ~SaveDone
      <3>1. UNCHANGED <<snap, entries, aof, synced, offset, proc, torn, before, config>>
        BY <1>6, <2>1 DEF Save, SaveBegin, SaveWrite, SaveSync, SaveFails, installVars
      <3> QED
        BY <3>1, CheckSame
    <2>2. CASE SaveDone
      <3>1. /\ UNCHANGED <<snap, aof, synced, offset, proc, torn, before, config>>
            /\ entries' = {snap} /\ op.kind = "SAVE"
        BY <1>6, <2>2 DEF Save, SaveDone, SaveStage, installVars
      <3>2. inst \notin {"SYNC", "GONE"}
        <4>1. SharedStep
          BY <1>6 DEF SharedStep
        <4>2. ~StartPrimary /\ ~KillProcess
          BY <3>1 DEF StartPrimary, Start, KillProcess, Kill, Crashed, LifeEnds, FileTypes,
                      LengthInv, Idle
        <4> QED
          BY <4>1, <4>2, SharedServes
      <3>3. "KILL" \notin config.crashes => synced = Len(aof)
        BY <3>1, <3>2 DEF DurableInv
      <3> QED
        BY <1>0, <3>1, <3>3 DEF CheckInv
    <2> QED
      BY <2>1, <2>2
  <1>7. CASE SaveReplaces
    <2>1. /\ snap' = tmp /\ entries' = entries \cup {tmp} /\ tmp.off = offset
          /\ op.kind = "SAVE" /\ offset = Len(aof) /\ proc = "RUNNING"
          /\ UNCHANGED <<config, proc, offset, aof, synced>>
      BY <1>7, SavedCheckpoint DEF SaveReplaces
    <2>2. inst \notin {"SYNC", "GONE"}
      BY <2>1 DEF RoleInv, Idle
    <2>3. "KILL" \notin config.crashes => synced = Len(aof)
      BY <2>1, <2>2 DEF DurableInv
    <2> QED
      BY <1>0, <2>1, <2>3 DEF CheckInv
  <1>8. CASE LogWrite
    <2>1. proc = "RUNNING"
      BY <1>8 DEF LogWrite, AppendWrite, FileTypes, LengthInv, Idle
    <2>2. /\ UNCHANGED <<snap, entries, synced, offset, proc, torn, before, config>>
          /\ Len(aof') = Len(aof) + 1
      BY <1>8, <2>1, AppendWriteIs DEF LogWrite, AppendWrite, installVars
    <2>3. ~torn /\ snap # NoFile => snap.off <= Len(aof) + 1
      BY <1>0 DEF CheckInv
    <2> QED
      BY <2>2, <2>3 DEF CheckInv
  <1>9. CASE LogSync
    <2>1. proc = "RUNNING"
      BY <1>9 DEF LogSync, AppendSync, SyncAof, FileTypes, LengthInv, Idle
    <2>2. /\ UNCHANGED <<snap, entries, aof, proc, torn, config>>
          /\ synced' = Len(aof) /\ offset' = Len(aof)
      BY <1>9, <2>1 DEF LogSync, AppendSync, SyncAof, FileTypes, LengthInv
    <2> QED
      BY <2>2 DEF CheckInv
  <1>10. CASE KillProcess
    <2>1. /\ UNCHANGED <<snap, entries, aof, torn, config>>
          /\ proc' = "DOWN" /\ "KILL" \in config.crashes
      BY <1>10 DEF KillProcess, Kill, Crashed
    <2> QED
      BY <2>1 DEF CheckInv
  <1>11. CASE LosePower
    <2>1. /\ aof' \in Seq(Cell) /\ synced' = Len(aof') /\ snap' \in entries /\ entries' = {snap'}
          /\ proc' = "DOWN" /\ config' = config /\ "POWER" \in config.crashes
      BY <1>11, PowerFiles
    <2>2. CASE ~torn' /\ snap' # NoFile
      <3>1. ~torn /\ entries = {snap} /\ before = {}
        BY <1>11, <2>2 DEF LosePower
      <3>2. snap' = snap
        BY <2>1, <3>1
      <3>3. aof' \in AofsLeft
        BY <1>11, <2>2, <3>1, <3>2 DEF LosePower, LogLeftOf
      <3>4. synced <= Len(aof')
        BY <1>0, <3>3, LogLeft
      <3>5. snap.off <= synced /\ snap.off \in Nat
        BY <1>0, <2>1, <2>2, <3>1, <3>2 DEF CheckInv
      <3>6. snap.off <= Len(aof')
        BY <1>0, <2>1, <3>4, <3>5
      <3> QED
        BY <2>1, <3>2, <3>5, <3>6 DEF CheckInv
    <2>3. CASE ~(~torn' /\ snap' # NoFile)
      BY <2>1, <2>3 DEF CheckInv
    <2> QED
      BY <2>2, <2>3
  <1> QED
    BY <1>1, <1>2, <1>3, <1>4, <1>5, <1>6, <1>7, <1>8, <1>9, <1>10, <1>11
       DEF InstallNext

\* What a recovery from the official files begins with.
LEMMA BeginsWith ==
  ASSUME ReplicatingLives, FileTypes, SnapInv, CheckInv, ~torn
  PROVE  /\ Base(snap) \in Database /\ From(snap) \in 0 .. Len(aof)
         /\ proc = "RUNNING" => From(snap) \in 0 .. offset
         /\ snap = NoFile \/ (Whole(snap) /\ snap.off >= 0)
  <1>0. /\ mode = "LEGACY_HYBRID" /\ snap \in Snapshot \cup {NoFile} /\ Len(aof) \in Nat
        /\ offset \in Nat /\ EmptyDb \in Database /\ snap \in entries /\ Safe(snap)
    BY Lives DEF FileTypes, TypeOK, SnapInv, EntriesSafe, EmptyDb, Database
  <1>1. CASE snap = NoFile
    BY <1>0, <1>1 DEF Base, From
  <1>2. CASE snap # NoFile
    <2>1. Base(snap) = snap.db /\ From(snap) = snap.off /\ snap.db \in Database
      BY <1>0, <1>2 DEF Base, From, Snapshot
    <2>2. /\ snap.off \in Nat /\ snap.off <= Len(aof)
          /\ proc = "RUNNING" => snap.off <= offset
      BY <1>0, <1>2 DEF CheckInv
    <2>3. Whole(snap)
      BY <1>0, <1>2 DEF Safe
    <2> QED
      BY <1>0, <2>1, <2>2, <2>3
  <1> QED
    BY <1>1, <1>2

\* A step that does not touch the files or what is served keeps LeadsInv.
LEMMA LeadsSame ==
  ASSUME LeadsInv, Serves, torn' = torn, UNCHANGED <<config, snap, offset>>,
         Logged' = Logged, Served' = Served
  PROVE  LeadsInv'
  BY DEF LeadsInv, Serves, Base, From, mode

\* Every step keeps LeadsInv.
LEMMA LeadsStep ==
  ASSUME ReplicatingLives, FileTypes, FileTypes', SnapInv, AppendInv, UpstreamInv, RoleInv,
         DurableInv, StageInv, FollowInv, CheckInv, LeadsInv, [InstallNext]_allVars
  PROVE  LeadsInv'
  <1>0. /\ TypeOK /\ mode = "LEGACY_HYBRID" /\ aof \in Seq(Cell) /\ Len(aof) \in Nat
        /\ offset \in Nat /\ mem \in Database
    BY Lives DEF FileTypes, TypeOK
  <1>1. CASE StartPrimary
    <2>1. SUFFICES ASSUME proc' = "RUNNING", ~torn' PROVE LeadsInv'
      BY DEF LeadsInv
    <2>2. PICK found : found = Recovery(snap, aof)
      OBVIOUS
    <2>3. /\ found.ok /\ mem' = found.db /\ offset' = Len(aof) /\ op' = op /\ proc = "DOWN"
          /\ UNCHANGED <<config, aof, snap, torn>>
      BY <1>1, <2>1, <2>2 DEF StartPrimary, Start
    <2>4. op = Idle /\ ~torn
      BY <2>1, <2>3 DEF FileTypes, LengthInv
    <2>5. Base(snap) \in Database /\ From(snap) \in 0 .. Len(aof)
      BY <2>4, BeginsWith
    <2>6. PICK end : end = Replay(Base(snap), aof, From(snap))
      OBVIOUS
    <2>7. found.db = end.db /\ end.pos = Len(aof)
      BY <1>0, <2>2, <2>3, <2>6, RecoveryIs
    <2>8. end = [db |-> end.db, pos |-> end.pos]
      BY <1>0, <2>5, <2>6, ReplayInFile
    <2>9. Logged' = aof /\ Served' = mem'
      BY <1>0, <2>3, <2>4 DEF Logged, Served, Idle
    <2>10. Base(snap)' = Base(snap) /\ From(snap)' = From(snap)
      BY <2>3 DEF Base, From, mode
    <2> QED
      BY <2>3, <2>6, <2>7, <2>8, <2>9, <2>10 DEF LeadsInv
  <1>2. CASE InstallStep
    <2>1. op' = Idle /\ role' = "REPLICA" /\ config' = config
      BY <1>2, InstallIdle
    <2>2. CASE TruncateSync
      <3>1. /\ offset = point /\ mem = snap.db /\ HoldsPoint(snap)
            /\ UNCHANGED <<snap, aof, mem, offset>> /\ proc = "RUNNING"
        BY <2>2 DEF TruncateSync, SyncAof, At, StageInv
      <3>2. offset = Len(aof)
        BY <1>2, <3>1, InstallIdle
      <3>3. snap \in Snapshot /\ snap.off = offset
        BY <3>1 DEF HoldsPoint
      <3>4. snap # NoFile
        BY <3>3, NoFileAssumption
      <3>5. Base(snap)' = mem /\ From(snap)' = Len(aof)
        BY <1>0, <2>1, <3>1, <3>2, <3>3, <3>4 DEF Base, From, mode
      <3>6. Logged' = aof /\ Served' = mem
        BY <1>0, <2>1, <3>1, <3>2 DEF Logged, Served, Idle
      <3>7. Replay(mem, aof, Len(aof)) = [db |-> mem, pos |-> Len(aof)]
        BY <1>0, ReplayAtEnd
      <3> QED
        BY <3>1, <3>2, <3>5, <3>6, <3>7 DEF LeadsInv
    <2>3. CASE ~TruncateSync
      <3>1. inst' # "FOLLOW"
        BY <1>2, <2>3 DEF InstallStep, At, StartReplica, BeginSync, ReceiveChunk, CommitSync,
                          CommitRename, Load, Truncate, InstallFails, installVars
      <3> QED
        BY <2>1, <3>1 DEF LeadsInv
    <2> QED
      BY <2>2, <2>3
  <1>3. CASE LosePower \/ KillProcess
    <2>1. proc' = "DOWN"
      BY <1>3 DEF LosePower, KillProcess, Kill, Crashed
    <2> QED
      BY <2>1 DEF LeadsInv
  <1>4. CASE (\E c \in Command : UpstreamWrite(c)) \/ UNCHANGED allVars
    <2>1. UNCHANGED <<config, proc, role, inst, op, mem, snap, aof, offset, torn>>
      BY <1>4 DEF UpstreamWrite, allVars, vars, installVars
    <2>2. Logged' = Logged /\ Served' = Served
      BY <2>1 DEF Logged, Served
    <2> QED
      BY <2>1, <2>2 DEF LeadsInv, Base, From, mode
  <1>5. CASE SharedStep /\ ~StartPrimary /\ ~KillProcess
    <2>0. Serves /\ UNCHANGED <<proc, role, inst, config>> /\ proc = "RUNNING"
      BY <1>5, SharedServes DEF Serves
    <2>1. CASE (\E c \in Command : PrimaryWrite(c)) \/ Follow
      <3>1. PICK c : ClientWrite(c)
        BY <2>1 DEF PrimaryWrite, Follow
      <3>2. /\ op = Idle /\ UNCHANGED <<config, offset, aof, snap>> /\ torn' = torn
            /\ op' = [kind |-> "APPEND", cmd |-> c, before |-> mem, written |-> 0]
        BY <1>0, <2>1, <3>1 DEF PrimaryWrite, Follow, ClientWrite, Ready, installVars
      <3>3. Logged' = Logged /\ Served' = Served
        BY <3>2 DEF Logged, Served, Idle
      <3> QED
        BY <2>0, <3>2, <3>3, LeadsSame
    <2>2. CASE Save
      <3>1. UNCHANGED <<config, offset, aof, snap, mem>> /\ torn' = torn
        BY <2>2 DEF Save, installVars, SaveBegin, SaveWrite, SaveSync, SaveDone, SaveFails
      <3>2. op.kind # "APPEND"
        BY <2>2 DEF Save, SaveBegin, SaveWrite, SaveSync, SaveDone, SaveFails, SaveStage, Ready,
                    Idle
      <3>3. \/ op' = op \/ op' = Idle \/ op' = [kind |-> "SAVE", stage |-> "WRITE"]
            \/ \E s : op' = [op EXCEPT !.stage = s]
        BY <2>2 DEF Save, SaveBegin, SaveWrite, SaveSync, SaveDone, SaveFails
      <3>4. op = Idle \/ op = [kind |-> "SAVE", stage |-> op.stage]
        BY <1>0, <3>2, Doing
      <3>5. op'.kind # "APPEND"
        BY <3>2, <3>3, <3>4 DEF Idle
      <3>6. Logged' = Logged /\ Served' = Served
        BY <3>1, <3>2, <3>5 DEF Logged, Served
      <3> QED
        BY <2>0, <3>1, <3>6, LeadsSame
    <2>3. CASE SaveReplaces
      <3>1. /\ snap' = tmp /\ tmp \in Snapshot /\ tmp.db = mem /\ tmp.off = offset
            /\ offset = Len(aof) /\ op'.kind = "SAVE"
            /\ UNCHANGED <<config, mem, offset, aof>>
        BY <2>3, SavedCheckpoint DEF SaveReplaces
      <3>2. tmp # NoFile
        BY <3>1, NoFileAssumption
      <3>3. Base(snap)' = mem /\ From(snap)' = Len(aof)
        BY <1>0, <3>1, <3>2 DEF Base, From, mode
      <3>4. Logged' = aof /\ Served' = mem
        BY <1>0, <3>1 DEF Logged, Served
      <3>5. Replay(mem, aof, Len(aof)) = [db |-> mem, pos |-> Len(aof)]
        BY <1>0, ReplayAtEnd
      <3> QED
        BY <3>1, <3>3, <3>4, <3>5 DEF LeadsInv
    <2>4. CASE LogWrite
      <3>1. /\ aof' = Append(aof, Encode(op.cmd)[op.written + 1])
            /\ Encode(op.cmd)[op.written + 1] \in Cell
            /\ aof' \in Seq(Cell) /\ Len(aof') = Len(aof) + 1
            /\ op' = [kind |-> "APPEND", cmd |-> op.cmd, before |-> op.before,
                      written |-> op.written + 1]
            /\ UNCHANGED <<config, offset, snap>> /\ torn' = torn /\ op.kind = "APPEND"
        BY <2>0, <2>4, AppendWriteIs DEF LogWrite, AppendWrite, installVars
      <3>2. Served' = Served
        BY <3>1 DEF Served
      <3>3. Logged' = Logged
        <4>1. PICK x \in Cell : aof' = Append(aof, x)
          BY <3>1
        <4>2. PICK n \in Nat : n = offset
          BY <1>0
        <4>3. n \in 0 .. Len(aof)
          BY <1>0, <4>2 DEF TypeOK
        <4>4. SubSeq(aof', 1, n) = SubSeq(aof, 1, n)
          <5>1. PICK file \in Seq(Cell) : file = aof'
            BY <3>1
          <5>2. Len(file) = Len(aof) + 1 /\ \A i \in 1 .. Len(aof) : file[i] = aof[i]
            BY <1>0, <3>1, <4>1, <5>1
          <5>3. n \in 0 .. Len(file)
            BY <1>0, <4>3, <5>2
          <5>4. PICK a \in Seq(Cell), b \in Seq(Cell) :
                  a = SubSeq(aof, 1, n) /\ b = SubSeq(file, 1, n)
            BY <1>0, <4>3, <5>3, FirstCells
          <5>5. Len(a) = n /\ \A i \in 1 .. n : a[i] = aof[i]
            BY <1>0, <4>3, <5>4, FirstCells
          <5>6. Len(b) = n /\ \A i \in 1 .. n : b[i] = file[i]
            BY <5>3, <5>4, FirstCells
          <5>7. \A i \in 1 .. n : a[i] = b[i]
            BY <1>0, <4>3, <5>2, <5>5, <5>6
          <5>8. a = b
            BY <5>5, <5>6, <5>7, SameCells
          <5> QED
            BY <5>1, <5>4, <5>8
        <4> QED
          BY <3>1, <4>1, <4>2, <4>4 DEF Logged
      <3> QED
        BY <2>0, <3>1, <3>2, <3>3, LeadsSame
    <2>5. CASE LogSync
      <3>1. /\ op.kind = "APPEND" /\ op.written = CmdLen /\ op' = Idle
            /\ offset' = offset + CmdLen
            /\ UNCHANGED <<config, mem, aof, snap, torn>>
        BY <2>5 DEF LogSync, AppendSync, SyncAof
      <3>2. SUFFICES ASSUME ~torn PROVE LeadsInv'
        BY <3>1 DEF LeadsInv
      <3>3. Base(snap) \in Database /\ From(snap) \in 0 .. offset
        BY <2>0, <3>2, BeginsWith
      <3>4. Replay(Base(snap), Logged, From(snap)) = [db |-> op.before, pos |-> offset]
        BY <2>0, <3>1, <3>2 DEF LeadsInv, Serves, Served
      <3>5. Replay(Base(snap), aof, From(snap)) = [db |-> mem, pos |-> offset + CmdLen]
        BY <2>0, <3>1, <3>3, <3>4, AppendExecuted
      <3>6. offset' = Len(aof)
        BY <2>0, <3>1 DEF FileTypes, LengthInv
      <3>7. Logged' = aof /\ Served' = mem
        BY <1>0, <3>1, <3>6 DEF Logged, Served, Idle
      <3>8. Base(snap)' = Base(snap) /\ From(snap)' = From(snap)
        BY <3>1 DEF Base, From, mode
      <3> QED
        BY <3>1, <3>5, <3>7, <3>8 DEF LeadsInv
    <2> QED
      BY <1>5, <2>1, <2>2, <2>3, <2>4, <2>5 DEF SharedStep
  <1> QED
    BY <1>1, <1>2, <1>3, <1>4, <1>5, StepKinds

-----------------------------------------------------------------------------

\* The invariant holds before the first start.
LEMMA InstallInvInit ==
  ASSUME ReplicatingLives
  PROVE  InstallInit => InstallInv
  <1> SUFFICES ASSUME InstallInit PROVE InstallInv
    OBVIOUS
  <1>1. /\ Init /\ role = "NONE" /\ inst = "NONE" /\ before = {} /\ upstream = <<>> /\ torn = FALSE
    BY DEF InstallInit
  <1>2. /\ config \in Scenario /\ proc = "DOWN" /\ op = Idle /\ aof = <<>> /\ synced = 0
        /\ snap = NoFile /\ entries = {NoFile}
    BY <1>1 DEF Init
  <1>3. FileTypes /\ SnapInv
    BY <1>1, TypesInit, SnapInit
  <1>4. AppendInv
    BY <1>2 DEF AppendInv, Idle
  <1>5. UpstreamInv
    <2>1. EmptyDb \in Database /\ <<>> \in Seq(Cell) /\ Len(<<>>) = 0
      BY DEF EmptyDb, Database
    <2>2. Replay(EmptyDb, <<>>, 0) = [db |-> EmptyDb, pos |-> 0]
      BY <2>1, ReplayAtEnd
    <2>3. SubSeq(<<>>, 1, 0) = <<>>
      <3>1. PICK file \in Seq(Cell) : file = <<>>
        BY <2>1
      <3>2. SubSeq(file, 1, 0) \in Seq(Cell) /\ Len(SubSeq(file, 1, 0)) = 0 /\ Len(file) = 0
        BY <2>1, <3>1, FirstCells
      <3> QED
        BY <3>1, <3>2
    <2>4. Replay(EmptyDb, SubSeq(<<>>, 1, 0), 0).pos = 0
      <3>1. Replay(EmptyDb, <<>>, 0).pos = 0
        BY <2>2
      <3> QED
        BY <2>3, <3>1
    <2>5. upstream \in Seq(Cell) /\ Len(upstream) = 0
      BY <1>1, <2>1
    <2>6. Replay(EmptyDb, SubSeq(upstream, 1, Len(upstream)), 0).pos = Len(upstream)
      BY <1>1, <2>4, <2>5
    <2>7. 0 \in 0 .. 0
      OBVIOUS
    <2> QED
      BY <2>5, <2>6, <2>7 DEF UpstreamInv, Boundary
  <1>6. RoleInv /\ StageInv /\ FollowInv /\ LeadsInv
    BY <1>1, <1>2 DEF RoleInv, StageInv, FollowInv, LeadsInv
  <1>7. DurableInv /\ CheckInv
    BY <1>1, <1>2 DEF DurableInv, CheckInv, Idle
  <1> QED
    BY <1>3, <1>4, <1>5, <1>6, <1>7 DEF InstallInv

\* Every step keeps it.
LEMMA InstallInvStep ==
  ASSUME ReplicatingLives
  PROVE  InstallInv /\ [InstallNext]_allVars => InstallInv'
  <1> SUFFICES ASSUME InstallInv, [InstallNext]_allVars PROVE InstallInv'
    OBVIOUS
  <1>0. /\ FileTypes /\ SnapInv /\ AppendInv /\ UpstreamInv /\ RoleInv /\ DurableInv
        /\ StageInv /\ FollowInv /\ CheckInv /\ LeadsInv
    BY DEF InstallInv
  <1>1. FileTypes' /\ SnapInv' /\ AppendInv'
    BY <1>0, FilesStep
  <1>2. UpstreamInv' /\ RoleInv'
    BY <1>0, UpstreamStep, RoleStep
  <1>3. DurableInv' /\ StageInv'
    BY <1>0, DurableStep, StageStep
  <1>4. FollowInv' /\ CheckInv'
    BY <1>0, FollowStep, CheckStep
  <1>5. LeadsInv'
    BY <1>0, <1>1, LeadsStep
  <1> QED
    BY <1>1, <1>2, <1>3, <1>4, <1>5 DEF InstallInv

\* So it holds always.
LEMMA InstallCorrect ==
  ASSUME ReplicatingLives
  PROVE  InstallSpec => []InstallInv
  BY InstallInvInit, InstallInvStep, PTL DEF InstallSpec

\* The files of a process that serves, with nothing under way, recover to what it serves.
LEMMA ServesRecoverable ==
  ASSUME ReplicatingLives, InstallInv, Serves, op = Idle, ~torn
  PROVE  Recovery(snap, aof) = [db |-> mem, ok |-> TRUE]
  <1>0. TypeOK /\ mode = "LEGACY_HYBRID"
    BY Lives DEF InstallInv, FileTypes
  <1>1. Logged = aof /\ offset = Len(aof) /\ Served = mem
    BY LoggedIs DEF InstallInv, Serves, Idle, Served
  <1>2. Replay(Base(snap), aof, From(snap)) = [db |-> mem, pos |-> Len(aof)]
    BY <1>1 DEF InstallInv, LeadsInv, Serves
  <1>3. snap = NoFile \/ (Whole(snap) /\ snap.off >= 0)
    BY BeginsWith DEF InstallInv
  <1> QED
    BY <1>0, <1>2, <1>3, RecoveryIs

\* FollowersArePromotable: a Replica that follows serves the Primary's engine at its
\* own offset, and its two files recover to that (FollowerPromotable), after any
\* number of installations, lives in either role and crashes of one kind, on either
\* kind of file system.
THEOREM FollowersArePromotable ==
  ASSUME ReplicatingLives
  PROVE  InstallSpec => []FollowerPromotable
  <1>1. InstallInv => FollowerPromotable
    <2> SUFFICES ASSUME InstallInv, At("FOLLOW"), op = Idle
                 PROVE  /\ mem = UpstreamDb(offset)
                        /\ Recovery(snap, aof) = [db |-> mem, ok |-> TRUE]
      BY DEF FollowerPromotable
    <2>1. Serves
      BY DEF At, Serves
    <2>2. ~torn /\ Served = UpstreamDb(offset)
      BY DEF At, InstallInv, FollowInv
    <2>3. mem = UpstreamDb(offset)
      BY <2>2 DEF Served, Idle
    <2> QED
      BY <2>1, <2>2, <2>3, ServesRecoverable
  <1> QED
    BY <1>1, InstallCorrect, PTL

\* PromotedIsRecoverable: no installation or SAVE leaves half a snapshot under the
\* official name, and what a Primary serves is what its next start would recover,
\* except behind the interruptions that torn records (PromotedRecoverable).
THEOREM PromotedIsRecoverable ==
  ASSUME ReplicatingLives
  PROVE  InstallSpec => []PromotedRecoverable
  <1>1. InstallInv => PromotedRecoverable
    <2> SUFFICES ASSUME InstallInv PROVE PromotedRecoverable
      OBVIOUS
    <2>1. SnapshotWhole
      <3>1. SnapInv
        BY DEF InstallInv
      <3>2. SnapshotsAfterCrash \subseteq entries /\ \A file \in entries : Safe(file)
        BY <3>1, AfterCrash DEF SnapInv, EntriesSafe
      <3> QED
        BY <3>2 DEF SnapshotWhole, Safe
    <2>2. ASSUME role = "PRIMARY", Ready, ~torn
          PROVE  Recovery(snap, aof) = [db |-> mem, ok |-> TRUE]
      <3>1. Serves /\ op = Idle
        BY <2>2 DEF Ready, Serves
      <3> QED
        BY <2>2, <3>1, ServesRecoverable
    <2> QED
      BY <2>1, <2>2 DEF PromotedRecoverable
  <1> QED
    BY <1>1, InstallCorrect, PTL
=============================================================================
