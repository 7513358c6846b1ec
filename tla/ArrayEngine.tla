---------------------------- MODULE ArrayEngine -----------------------------
(***************************************************************************)
(* The array engine (src/engines/kvs_array.c): a table of KVS_ARRAY_SIZE   *)
(* slots of which the first `total' are in use.                            *)
(***************************************************************************)
EXTENDS Integers, FiniteSets

CONSTANTS
    Key, Value,
    Absent,     \* NULL
    Size        \* KVS_ARRAY_SIZE

ArrayAssumption ==
    /\ Absent \notin Key \cup Value
    /\ Size \in Nat

VARIABLES
    table,      \* slot -> [key, val]
    total,      \* inst->total
    up,         \* inst->table is allocated
    heap,       \* blocks of memory the engine holds
    reply       \* the last call and what it returned

vars == <<table, total, up, heap, reply>>

Slot == 1 .. Size
EmptySlot == [key |-> Absent, val |-> Absent]

Reply(op, k, ret) == [op |-> op, key |-> k, ret |-> ret]

Init ==
    /\ table = [i \in Slot |-> EmptySlot] /\ total = 0
    /\ up = FALSE /\ heap = 0 /\ reply = Reply("NONE", Absent, 0)

\* The slots the loops over the table find a key in.
Found(k) == {i \in 1 .. total : table[i].key = k}

First(slots) == CHOOSE i \in slots : \A j \in slots : i <= j

Create ==
    /\ ~up
    /\ \/ heap' = 1 /\ up' = TRUE /\ reply' = Reply("CREATE", Absent, 0)
       \/ reply' = Reply("CREATE", Absent, -1) /\ UNCHANGED <<heap, up>>
    /\ table' = [i \in Slot |-> EmptySlot] /\ total' = 0

\* Mutant: the old value is freed first.
BugOverwrite(op, k, v) ==
    \/ /\ table' = [table EXCEPT ![First(Found(k))].val = v]
       /\ reply' = Reply(op, k, 0)
       /\ UNCHANGED <<total, up, heap>>
    \/ /\ table' = [table EXCEPT ![First(Found(k))].val = Absent]
       /\ reply' = Reply(op, k, -2)
       /\ UNCHANGED <<total, up, heap>>

\* The new value is allocated before the old one is freed.
Overwrite(op, k, v) ==
    \/ /\ table' = [table EXCEPT ![First(Found(k))].val = v]
       /\ reply' = Reply(op, k, 0)
       /\ UNCHANGED <<total, up, heap>>
    \/ reply' = Reply(op, k, -2) /\ UNCHANGED <<table, total, up, heap>>

Mod(k, v) ==
    /\ up
    /\ \/ Found(k) # {} /\ Overwrite("MOD", k, v)
       \/ /\ Found(k) = {}
          /\ reply' = Reply("MOD", k, 1) /\ UNCHANGED <<table, total, up, heap>>

\* How many blocks SET frees when its allocation number `failed' fails.
Undone(failed) == failed - 1

Full == total >= Size

\* The slot of a new key: one without a key, or the next one.
Place == IF Found(Absent) # {} THEN First(Found(Absent)) ELSE total + 1

\* SET tries MOD first, so that a stored key is overwritten in a full table.
Set(k, v) ==
    /\ up
    /\ \/ Found(k) # {} /\ Overwrite("SET", k, v)
       \/ /\ Found(k) = {} /\ Full
          /\ reply' = Reply("SET", k, -1) /\ UNCHANGED <<table, total, up, heap>>
       \/ /\ Found(k) = {} /\ ~Full
          /\ \E failed \in 1 .. 2 : heap' = heap + (failed - 1) - Undone(failed)
          /\ reply' = Reply("SET", k, -2) /\ UNCHANGED <<table, total, up>>
       \/ /\ Found(k) = {} /\ ~Full
          /\ table' = [table EXCEPT ![Place] = [key |-> k, val |-> v]]
          /\ total' = total + 1
          /\ heap' = heap + 2
          /\ reply' = Reply("SET", k, 0) /\ UNCHANGED up

\* Mutant: the last slot is not moved into the gap.
BugClosed(i) == [table EXCEPT ![i] = EmptySlot]

\* The last slot in use takes the place of slot i.
Closed(i) ==
    [table EXCEPT ![i] = IF i # total THEN table[total] ELSE @, ![total] = EmptySlot]

Del(k) ==
    /\ up
    /\ \/ /\ Found(k) = {}
          /\ reply' = Reply("DEL", k, 1) /\ UNCHANGED <<table, total, heap>>
       \/ /\ Found(k) # {}
          /\ table' = Closed(First(Found(k)))
          /\ total' = total - 1
          /\ heap' = heap - 2
          /\ reply' = Reply("DEL", k, 0)
    /\ UNCHANGED up

\* Mutant: a missing key's value is looked for in the first slot.
BugValueOf(k) == IF total = 0 THEN Absent ELSE table[1].val

ValueOf(k) == IF Found(k) = {} THEN Absent ELSE table[First(Found(k))].val

Get(k) ==
    /\ up
    /\ reply' = Reply("GET", k, ValueOf(k))
    /\ UNCHANGED <<table, total, up, heap>>

Exist(k) ==
    /\ up
    /\ reply' = Reply("EXIST", k, IF ValueOf(k) = Absent THEN 1 ELSE 0)
    /\ UNCHANGED <<table, total, up, heap>>

\* kvs_array_destory.
Destroy ==
    /\ up
    /\ heap' = heap - 2 * total - 1
    /\ table' = [i \in Slot |-> EmptySlot] /\ total' = 0
    /\ up' = FALSE /\ reply' = Reply("DESTROY", Absent, 0)

Next ==
    \/ Create \/ Destroy
    \/ \E k \in Key, v \in Value : Set(k, v) \/ Mod(k, v)
    \/ \E k \in Key : Del(k) \/ Get(k) \/ Exist(k)

Spec == Init /\ [][Next]_vars

-----------------------------------------------------------------------------
(* Properties.                                                              *)

\* The variables have the shape of the table; a slot holds a key and a value or
\* neither.
TypeOK ==
    /\ table \in [Slot -> [key : Key, val : Value] \cup {EmptySlot}]
    /\ total \in 0 .. Size
    /\ up \in BOOLEAN
    /\ heap \in Nat

\* The first total slots hold different keys, the others nothing: DEL, which
\* compares the key of every slot below total, never meets a NULL key, and the
\* slot SET writes is never taken.
Compact ==
    /\ \A i \in Slot : i <= total <=> table[i].key # Absent
    /\ \A i, j \in 1 .. total : table[i].key = table[j].key => i = j

\* Whichever allocation fails, the engine holds exactly the table and a key and
\* a value per stored key; nothing after destroy.
NoLeak == heap = IF up THEN 1 + 2 * total ELSE 0

\* What kvs_array_foreach visits.
Contents ==
    [k \in Key |-> IF Found(k) = {} THEN Absent ELSE table[First(Found(k))].val]

Map == INSTANCE KVMap WITH map <- Contents, Capacity <- Size, DelMissing <- 1
=============================================================================
