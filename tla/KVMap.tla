------------------------------- MODULE KVMap --------------------------------
(***************************************************************************)
(* What each of the four engines promises: the map of KVEngine, on which   *)
(* the persistence and the replication models are built, with the return   *)
(* values of the kvs_array_, kvs_hash_, kvs_rbtree_ and kvs_skiplist_      *)
(* functions.  Memory may run out in any call that allocates; such a call  *)
(* changes nothing.                                                        *)
(***************************************************************************)
EXTENDS Integers

CONSTANTS
    Key,        \* keys
    Value,      \* values
    Absent,     \* NULL: the value of a key that is not stored
    Capacity,   \* how many keys the engine can hold
    DelMissing  \* what DEL of a key that is not stored returns

VARIABLES
    map,        \* what is stored
    up,         \* the engine is created
    reply       \* the last call and what it returned

vars == <<map, up, reply>>

E == INSTANCE KVEngine WITH CmdLen <- 1

Reply(op, k, ret) == [op |-> op, key |-> k, ret |-> ret]

Init == map = E!EmptyDb /\ up = FALSE /\ reply = Reply("NONE", Absent, 0)

Create ==
    /\ ~up
    /\ \E ok \in BOOLEAN :
           up' = ok /\ reply' = Reply("CREATE", Absent, IF ok THEN 0 ELSE -1)
    /\ UNCHANGED map

NotFound(c) == IF c.op = "DEL" THEN DelMissing ELSE 1

Write(c) ==
    /\ up
    /\ reply'.op = c.op /\ reply'.key = c.key
    /\ LET db == map
           status == E!ExecStatus(db, c)
       IN
       \/ /\ status = "OK" /\ reply'.ret = 0
          /\ map' = E!Execute(db, c)
       \/ /\ status = "NOT_FOUND" /\ reply'.ret = NotFound(c)
          /\ UNCHANGED map
       \/ /\ status = "FAILED" /\ reply'.ret = -1
          /\ UNCHANGED map
       \/ /\ status = "OK" /\ c.op # "DEL"      \* out of memory
          /\ reply'.ret \in {-1, -2}
          /\ UNCHANGED map
    /\ reply' = Reply(c.op, c.key, reply'.ret)
    /\ UNCHANGED up

Get(k) ==
    /\ up
    /\ reply'.op = "GET" /\ reply'.key = k
    /\ reply' = Reply("GET", k, map[k])
    /\ UNCHANGED <<map, up>>

Exist(k) ==
    /\ up
    /\ reply'.op = "EXIST" /\ reply'.key = k
    /\ reply' = Reply("EXIST", k, IF map[k] = Absent THEN 1 ELSE 0)
    /\ UNCHANGED <<map, up>>

Destroy ==
    /\ up
    /\ up' = FALSE /\ reply' = Reply("DESTROY", Absent, 0)
    /\ map' = E!EmptyDb

Next ==
    \/ Create \/ Destroy
    \/ \E c \in E!Command : Write(c)
    \/ \E k \in Key : Get(k) \/ Exist(k)

Spec == Init /\ [][Next]_vars
=============================================================================
