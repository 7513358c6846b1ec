------------------------------ MODULE KVEngine ------------------------------
(***************************************************************************)
(* The key-value engine as the rest of the program sees it, and the        *)
(* append-only command log (AOF) written from it.                          *)
(*                                                                         *)
(* The four engines (array, hash table, red-black tree, skip list) are     *)
(* selected by the first letter of the command and share no state, so one  *)
(* of them stands for all: a map from keys to values.  Only the outcome    *)
(* that kvs_filter_protocol turns into an execution status is kept.        *)
(***************************************************************************)
EXTENDS Integers, Sequences, FiniteSets

CONSTANTS
    Key,        \* keys
    Value,      \* values
    Absent,     \* the value of a key that is not stored
    Capacity,   \* KVS_ARRAY_SIZE: how many keys the engine can hold
    CmdLen      \* how many AOF cells one encoded command occupies

ASSUME EngineAssumption ==
    /\ Absent \notin Value
    /\ Capacity \in Nat
    /\ CmdLen \in Nat \ {0}

-----------------------------------------------------------------------------
(* The engine.                                                              *)

Database == [Key -> Value \cup {Absent}]

EmptyDb == [k \in Key |-> Absent]

Stored(db) == {k \in Key : db[k] # Absent}

\* The write commands; the read commands change nothing and are never logged.
Command == [op : {"SET", "MOD"}, key : Key, val : Value]
           \cup [op : {"DEL"}, key : Key, val : {Absent}]

\* kvs_filter_protocol: the status of a write command.  SET replaces the value
\* of a stored key and inserts a new key only while the array has room.
ExecStatus(db, c) ==
    IF c.op = "SET"
    THEN IF db[c.key] # Absent \/ Cardinality(Stored(db)) < Capacity
         THEN "OK" ELSE "FAILED"
    ELSE IF db[c.key] # Absent THEN "OK" ELSE "NOT_FOUND"

\* The engine after a write command that returned OK.
Execute(db, c) == [db EXCEPT ![c.key] = c.val]

-----------------------------------------------------------------------------
(* The AOF.  An encoded command is CmdLen cells long, so that a read, a     *)
(* send or a crash may cut it; offsets count cells.  Hole is a byte that no *)
(* command wrote: what ftruncate() extends a file with, or what an earlier  *)
(* life of the process left in it.                                          *)

Hole == [hole |-> TRUE]

Cell == [cmd : Command, part : 1 .. CmdLen] \cup {Hole}

\* kvs_encode_command: the cells of one command.
Encode(c) == [i \in 1 .. CmdLen |-> [cmd |-> c, part |-> i]]

\* Mutant: a file shorter than the checkpoint is left as it is.
BugNeverExtend(file, offset) ==
    IF offset <= Len(file) THEN SubSeq(file, 1, offset) ELSE file

\* kvs_aof_reset_to_offset: ftruncate() cuts a longer file and extends a
\* shorter one.
ResetToOffset(file, offset) ==
    [i \in 1 .. offset |-> IF i <= Len(file) THEN file[i] ELSE Hole]

\* One complete command is encoded at offset pos of the file.
CommandAt(file, pos) ==
    /\ pos + CmdLen <= Len(file)
    /\ file[pos + 1] # Hole
    /\ SubSeq(file, pos + 1, pos + CmdLen) = Encode(file[pos + 1].cmd)

\* kvs_aof_replay from a checkpoint: where it stops and the engine it leaves.
\* It goes on while a complete command follows and executes with status OK, and
\* has recovered the file when it stops at its end.  A checkpoint at or behind
\* the end replays nothing and is no error.
Replay(db, file, start) ==
    LET step[s \in [db : Database, pos : Nat]] ==
            IF CommandAt(file, s.pos)
            THEN IF ExecStatus(s.db, file[s.pos + 1].cmd) = "OK"
                 THEN [db  |-> Execute(s.db, file[s.pos + 1].cmd),
                       pos |-> s.pos + CmdLen]
                 ELSE s
            ELSE s
        after[n \in Nat] ==
            IF n = 0
            THEN [db |-> db, pos |-> IF start < Len(file) THEN start
                                     ELSE Len(file)]
            ELSE step[after[n - 1]]
    IN  after[Len(file) \div CmdLen]
=============================================================================
