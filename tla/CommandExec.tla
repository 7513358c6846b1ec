---------------------------- MODULE CommandExec ----------------------------
(***************************************************************************)
(* The command executor of kvstore.c: kvs_execute_fields and what it calls *)
(* (kvs_fields_to_tokens, kvs_execute_tokens, kvs_filter_protocol,         *)
(* kvs_encode_value_to_output), with its three callers.  A request comes   *)
(* from a client, from the Primary (REPLICATION) or from the AOF           *)
(* (RECOVERY); one executor serves all of them over the four engines, and  *)
(* what it logs for the first two the third must be able to repeat.        *)
(*                                                                         *)
(* A call is one action: nothing else runs while a command is executed.    *)
(***************************************************************************)
EXTENDS Integers, Sequences, FiniteSets

CONSTANTS
    Key, Value,     \* keys and values
    Absent,         \* the value of a key that is not stored
    Engine,         \* the engines, among "array", "rbtree", "hash", "skiplist"
    ArraySize,      \* KVS_ARRAY_SIZE
    MaxLog          \* bound on the commands in the AOF

ASSUME ExecAssumption ==
    /\ Absent \notin Value
    /\ IsFiniteSet(Key)
    /\ Engine \subseteq {"array", "rbtree", "hash", "skiplist"}
    /\ ArraySize \in Nat /\ MaxLog \in Nat

VARIABLES
    role,       \* kvs_server_role
    mode,       \* kvs_persistence_mode
    alive,      \* the process has not called exit()
    online,     \* kvs_replication_is_online
    db,         \* the engines
    aof,        \* the commands in the AOF
    snapshot,   \* the snapshot file: the engines and the AOF offset it stands for
    last        \* who sent the last request and what became of it

vars == <<role, mode, alive, online, db, aof, snapshot, last>>

-----------------------------------------------------------------------------
Op == {"SET", "GET", "DEL", "MOD", "EXIST"}

\* kvs_is_write_command
Writes == {"SET", "DEL", "MOD"}

\* The number of fields of a command, its name included.
Arity(op) == IF op \in {"SET", "MOD"} THEN 3 ELSE 2

\* A parsed request: the name of a command of an engine or another word, the
\* fields, how many there are, and whether one of them contains a NUL byte.
Request ==
    [engine : Engine, op : Op, key : Key, val : Value, count : 2..3, nul : {FALSE}]
    \cup [engine : {Absent}, op : {"PING", "SAVE", "OTHER"}, key : {Absent},
          val : {Absent}, count : 1..2, nul : BOOLEAN]

Known(r) == r.op \in Op

Source == {"client", "replication", "recovery"}

\* There is room for one byte.
BugSpace == 1

\* BUFFER_LENGTH, which server_reader makes room for before each command.
Space == 1024

\* The bytes of each reply that is not a value, and of the text that
\* kvs_filter_protocol writes in its place before.
ReplyLength(text) ==
    CASE text \in {"ok", "one", "zero", "nil", "pong"} -> 7
      [] text = "exec"                                 -> 49
      [] OTHER                                         -> 51

\* The reply fits behind the replies already in the buffer, or the caller is
\* told to close the connection.
Sent(text) == IF ReplyLength(text) < Space THEN text ELSE "closed"

-----------------------------------------------------------------------------
(***************************************************************************)
(* The engines.                                                            *)
(***************************************************************************)

Empty == [e \in Engine |-> [k \in Key |-> Absent]]

Stored(d, e) == {k \in Key : d[e][k] # Absent}

\* The status of a command when memory does not run out: the array is full at
\* ArraySize keys, and the hash table reports the deletion of a missing key
\* as an error.
Status(d, r) ==
    LET found == d[r.engine][r.key] # Absent
    IN CASE r.op = "SET" -> IF found \/ r.engine # "array"
                               \/ Cardinality(Stored(d, "array")) < ArraySize
                            THEN "OK" ELSE "FAILED"
         [] r.op = "MOD" -> IF found THEN "OK" ELSE "NOT_FOUND"
         [] r.op = "DEL" -> IF found THEN "OK"
                            ELSE IF r.engine = "hash" THEN "FAILED" ELSE "NOT_FOUND"
         [] r.op = "EXIST" -> IF found THEN "FOUND" ELSE "NOT_FOUND"
         [] r.op = "GET" -> "FAILED"    \* not set for GET

\* The engines after a command whose status is OK.
Applied(d, r) ==
    [d EXCEPT ![r.engine][r.key] = IF r.op = "DEL" THEN Absent ELSE r.val]

\* One command of the AOF, executed by kvs_recovery_fields_protocol on what
\* the commands before it left.
Recover(state, r) ==
    IF state.ok /\ ~r.nul /\ Known(r) /\ r.op # "GET"
       /\ r.count = Arity(r.op) /\ Status(state.db, r) = "OK"
    THEN [ok |-> TRUE, db |-> Applied(state.db, r)]
    ELSE [ok |-> FALSE, db |-> state.db]

\* kvs_aof_replay: the commands of the log in order, from the engines d.
Recovered(d, log) ==
    LET after[n \in 0..Len(log)] ==
            IF n = 0 THEN [ok |-> TRUE, db |-> d] ELSE Recover(after[n - 1], log[n])
    IN  after[Len(log)]

\* The restart: the snapshot, then the commands behind its offset.
Restarted == Recovered(snapshot.db, SubSeq(aof, snapshot.offset + 1, Len(aof)))

-----------------------------------------------------------------------------
Init ==
    /\ \/ role = "standalone" /\ mode \in {"snapshot", "aof"}
       \/ role \in {"primary", "replica"} /\ mode = "hybrid"
    /\ alive = TRUE
    /\ online = FALSE
    /\ db = Empty
    /\ aof = <<>>
    /\ snapshot = [db |-> Empty, offset |-> 0]
    /\ last = [source |-> "none", out |-> "none"]

\* The request has been dealt with and out is what the caller gets: "closed"
\* stands for -1 of this call.  That the caller then closes the connection, and
\* drops the replies to earlier requests that it has not sent, is
\* ClientConnection's ReplyFails.
Result(s, out) == last' = [source |-> s, out |-> out]

Unchanged == UNCHANGED <<role, mode, alive, online, db, aof, snapshot>>

\* The state of the Replica is not looked at.
BugEarlyReply(r) ==
    IF r.nul THEN "nul"
    ELSE IF r.op = "PING" THEN IF r.count = 1 THEN "pong" ELSE "arity"
    ELSE IF r.op = "SAVE" THEN IF r.count = 1 THEN "none" ELSE "arity"
    ELSE IF ~Known(r) THEN "unknown"
    ELSE IF r.count = Arity(r.op) THEN "none" ELSE "arity"

\* The replies of kvs_execute_fields to a client that are given before a
\* command is looked up, in the order of its tests; "none" when there is none.
EarlyReply(r) ==
    IF r.nul THEN "nul"
    ELSE IF r.op = "PING" THEN IF r.count = 1 THEN "pong" ELSE "arity"
    ELSE IF role = "replica" /\ ~online THEN "loading"
    ELSE IF r.op = "SAVE" THEN IF r.count = 1 THEN "none" ELSE "arity"
    ELSE IF ~Known(r) THEN "unknown"
    ELSE IF r.count = Arity(r.op) THEN "none" ELSE "arity"

\* A client's request that is answered without being executed, or whose
\* tokens cannot be allocated.
Turned(r) ==
    /\ \/ EarlyReply(r) # "none" /\ Result("client", Sent(EarlyReply(r)))
       \/ ~r.nul /\ Result("client", "closed")
    /\ Unchanged

\* SAVE: kvs_save_current_snapshot, which may fail, and is not supported when
\* there is only the AOF.
Save(r) ==
    /\ r.op = "SAVE" /\ EarlyReply(r) = "none"
    /\ \/ /\ mode # "aof"
          /\ snapshot' = [db |-> db, offset |-> Len(aof)]
          /\ Result("client", Sent("ok"))
       \/ /\ UNCHANGED snapshot
          /\ Result("client", Sent("failed"))
    /\ UNCHANGED <<role, mode, alive, online, db, aof>>

\* A GET of a client: the value, for which the buffer may have to grow and
\* fail to, or nil.
Get(r) ==
    /\ r.op = "GET" /\ EarlyReply(r) = "none"
    /\ IF db[r.engine][r.key] = Absent
       THEN Result("client", Sent("nil"))
       ELSE Result("client", "value") \/ Result("client", "closed")
    /\ Unchanged

\* Any status but an error counts as success.
BugStatuses(s, r) ==
    {IF Status(db, r) = "NOT_FOUND" THEN "OK" ELSE Status(db, r)}

\* The statuses that a command may end with: memory may run out in any call
\* that allocates, and a client may not write to a Replica, which leaves the
\* status as it was set at the beginning.
Statuses(s, r) ==
    IF role = "replica" /\ s = "client" /\ r.op \in Writes THEN {"FAILED"}
    ELSE {Status(db, r)} \cup (IF r.op \in {"SET", "MOD"} THEN {"FAILED"} ELSE {})

\* What a client is told about a command that ended with this status.
Reply(op, status) ==
    IF status = "FAILED" THEN "failed"
    ELSE IF op \in {"SET", "MOD"} /\ status = "OK" THEN "ok"
    ELSE IF op = "MOD" THEN "missing"
    ELSE IF status \in {"OK", "FOUND"} THEN "one" ELSE "zero"

\* kvs_filter_protocol for a command of an engine.  A write that succeeds is
\* logged unless there are only snapshots; when that fails the process exits.
\* The text written here has to fit too, before the client's reply replaces it.
Run(s, r) ==
    \E status \in Statuses(s, r) :
       LET logged == status = "OK" /\ r.op \in Writes /\ mode # "snapshot"
           text == IF ReplyLength("exec") < Space THEN Sent(Reply(r.op, status))
                   ELSE "closed"
           out == IF s = "client" THEN text
                  ELSE IF status = "OK" THEN "ok" ELSE "closed"
       IN /\ db' = IF status = "OK" THEN Applied(db, r) ELSE db
          /\ UNCHANGED <<role, mode, snapshot>>
          /\ \/ /\ logged => Len(aof) < MaxLog
                /\ aof' = IF logged THEN Append(aof, r) ELSE aof
                /\ online' = (online /\ (s = "replication" => out = "ok"))
                /\ Result(s, out)
                /\ UNCHANGED alive
             \/ /\ logged
                /\ alive' = FALSE
                /\ Result(s, "exited")
                /\ UNCHANGED <<aof, online>>

\* A request of a client, as kvs_network_protocol passes it on.
Client(r) ==
    /\ alive
    /\ \/ Turned(r)
       \/ Save(r)
       \/ Get(r)
       \/ Known(r) /\ r.op # "GET" /\ EarlyReply(r) = "none" /\ Run("client", r)

\* A command that the Primary logged, at a Replica that has its snapshot;
\* anything but the status OK ends the connection to the Primary.
Replicated(r) ==
    /\ alive /\ role = "replica" /\ online
    /\ r.op \in Writes /\ r.count = Arity(r.op)
    /\ Run("replication", r)

\* kvs_install_replication_snapshot has replaced the engines, and the AOF is
\* cut to the snapshot's offset.
Install(d) ==
    /\ alive /\ role = "replica" /\ ~online
    /\ db' = d
    /\ aof' = <<>>
    /\ snapshot' = [db |-> d, offset |-> 0]
    /\ online' = TRUE
    /\ Result("none", "none")
    /\ UNCHANGED <<role, mode, alive>>

\* The connection to the Primary ends.
PrimaryLost ==
    /\ alive /\ role = "replica" /\ online
    /\ online' = FALSE
    /\ Result("none", "none")
    /\ UNCHANGED <<role, mode, alive, db, aof, snapshot>>

\* The process starts again: a Replica with empty engines and its files, the
\* others with what kvs_aof_replay makes of the files.
Restart ==
    /\ mode # "snapshot" => Restarted.ok
    /\ alive' = TRUE
    /\ online' = FALSE
    /\ db' = IF role = "replica" THEN Empty
             ELSE IF mode = "snapshot" THEN snapshot.db ELSE Restarted.db
    /\ Result("none", "none")
    /\ UNCHANGED <<role, mode, aof, snapshot>>

Next ==
    \/ \E r \in Request : Client(r)
    \/ \E r \in Request : Replicated(r)
    \/ \E e \in Engine, k \in Key, v \in Value : Install([Empty EXCEPT ![e][k] = v])
    \/ PrimaryLost
    \/ Restart

Spec == Init /\ [][Next]_vars

-----------------------------------------------------------------------------
\* The variables have the shape of the executor's state.
TypeOK ==
    /\ role \in {"standalone", "primary", "replica"}
    /\ mode \in {"snapshot", "aof", "hybrid"}
    /\ alive \in BOOLEAN /\ online \in BOOLEAN
    /\ db \in [Engine -> [Key -> Value \cup {Absent}]]
    /\ \A i \in 1..Len(aof) : aof[i] \in Request
    /\ Len(aof) <= MaxLog
    /\ snapshot.offset \in 0..Len(aof)

\* What the executor has logged for clients or for the Primary, the executor
\* itself repeats from the snapshot without one refusal, and ends with the
\* engines of the process that is running: the array is full at the same
\* command, a deletion finds its key, and no write is missing from the log.
LogRepeats ==
    /\ TypeOK
    /\ alive /\ mode # "snapshot" /\ (role = "replica" => online) =>
           Restarted = [ok |-> TRUE, db |-> db]

\* While a Replica is not ONLINE a client learns nothing of its data, and at
\* no time does a client's request change its engines or its log.
ReadOnlyStep ==
    role = "replica" /\ last'.source = "client" =>
        /\ db' = db /\ aof' = aof
        /\ ~online => last'.out \in {"pong", "loading", "nul", "arity", "closed"}

\* A call of kvs_execute_fields that returns an error reply or -1 has changed
\* nothing: its reply cannot fail to fit between the change and the answer,
\* because there is room for the reply of every write before the command begins.
RefusedStep ==
    last'.source = "client" /\ last'.out \notin {"ok", "one", "exited"} =>
        db' = db /\ aof' = aof

\* The one request for which kvs_execute_fields returns an error reply or -1 was
\* not executed: there is room for the reply of every write before it begins.
\* (What a client knows of the requests before it when the connection is closed
\* is ClientConnection's RepliesInOrder.)  A client of a Replica changes nothing,
\* and learns nothing before it is ONLINE.
RefusedUnchanged == [][RefusedStep /\ ReadOnlyStep]_vars
=============================================================================
