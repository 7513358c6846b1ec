------------------------------ MODULE SkipList ------------------------------
(***************************************************************************)
(* The skip list engine (src/engines/kvs_skiplist.c).  A node is named by  *)
(* its key, a number in the order of strcmp; its forward array has an      *)
(* index per level it takes part in.                                       *)
(***************************************************************************)
EXTENDS Integers, Sequences, FiniteSets

CONSTANTS
    Key,        \* a set of positive integers
    Value,
    Absent,     \* the NULL that GET returns
    MaxLevel    \* KVS_SKIPLIST_MAX_LEVEL

SkipListAssumption ==
    /\ Key \subseteq Nat \ {0} /\ IsFiniteSet(Key)
    /\ Absent \notin Value
    /\ MaxLevel \in Nat

VARIABLES
    level,      \* skipList->level
    forward,    \* node -> its forward array; the header is a node
    val,        \* node -> its value
    up,         \* the header is allocated
    heap,       \* blocks of memory the engine holds
    reply       \* the last call and what it returned

list == <<level, forward, val>>
vars == <<level, forward, val, up, heap, reply>>

Header == 0
Null == -1

Live == DOMAIN val

-----------------------------------------------------------------------------
(* Walking.                                                                 *)

\* The inner while: along level i up to the last node before key k.
RECURSIVE Along(_, _, _)
Along(i, n, k) ==
    IF forward[n][i] # Null /\ forward[n][i] < k
    THEN Along(i, forward[n][i], k) ELSE n

\* update[]: where each level is left; levels above the list start at the header.
Update(k) ==
    LET at[i \in 0 .. MaxLevel] ==
            IF i > level THEN Header ELSE
            Along(i, IF i = level THEN Header ELSE at[i + 1], k)
    IN  at

\* skiplist_search_node: the node, or NULL.
SearchNode(k) ==
    LET n == forward[Update(k)[0]][0] IN IF n = k THEN n ELSE Null

-----------------------------------------------------------------------------
(* The interface.                                                           *)

Reply(op, k, ret) == [op |-> op, key |-> k, ret |-> ret]

EmptyForward == [n \in {Header} |-> [i \in 0 .. MaxLevel |-> Null]]
NoValue == [k \in {} |-> Absent]

Init ==
    /\ level = 0 /\ forward = EmptyForward /\ val = NoValue
    /\ up = FALSE /\ heap = 0 /\ reply = Reply("NONE", Absent, 0)

\* Mutant: the key is forgotten when there is no memory for the value.
BugUndone(failed) == <<0, 1, 1, 3>>[failed]

\* skiplist_create_node: how many blocks it frees when allocation number
\* `failed' fails: node, key, value and forward array, in this order.
Undone(failed) == <<0, 1, 2, 3>>[failed]

NodeFails == \E failed \in 1 .. 4 : heap' = heap + (failed - 1) - Undone(failed)

Create ==
    /\ ~up
    /\ \/ heap' = heap + 4 /\ up' = TRUE /\ reply' = Reply("CREATE", Absent, 0)
       \/ NodeFails /\ reply' = Reply("CREATE", Absent, -1) /\ UNCHANGED up
    /\ level' = 0 /\ forward' = EmptyForward /\ val' = NoValue

\* A new value is allocated before the old one is freed.
Overwrite(op, k, v) ==
    \/ /\ val' = [val EXCEPT ![k] = v]
       /\ reply' = Reply(op, k, 0) /\ UNCHANGED <<level, forward, up, heap>>
    \/ reply' = Reply(op, k, -2) /\ UNCHANGED list /\ UNCHANGED <<up, heap>>

\* The forward arrays with a new node of height h behind update.
Inserted(k, h, update) ==
    [n \in Live \cup {Header, k} |->
        IF n = k THEN [i \in 0 .. h |-> forward[update[i]][i]]
        ELSE [i \in DOMAIN forward[n] |->
                 IF i <= h /\ update[i] = n THEN k ELSE forward[n][i]]]

\* h is what skiplist_random_level returns.
Set(k, v, h) ==
    /\ up
    /\ LET update == Update(k) IN
       \/ forward[update[0]][0] = k /\ Overwrite("SET", k, v)
       \/ /\ forward[update[0]][0] # k
          /\ \/ /\ level' = IF h > level THEN h ELSE level
                /\ forward' = Inserted(k, h, update)
                /\ val' = [n \in Live \cup {k} |-> IF n = k THEN v ELSE val[n]]
                /\ heap' = heap + 4 /\ reply' = Reply("SET", k, 0)
             \/ NodeFails /\ reply' = Reply("SET", k, -2) /\ UNCHANGED list
          /\ UNCHANGED up

Mod(k, v) ==
    /\ up
    /\ \/ SearchNode(k) # Null /\ Overwrite("MOD", k, v)
       \/ /\ SearchNode(k) = Null
          /\ reply' = Reply("MOD", k, 1) /\ UNCHANGED list /\ UNCHANGED <<up, heap>>

\* The levels from which del unlinks the node: it stops at the first one whose
\* predecessor does not point to it.
Unlinked(k, update) ==
    {i \in 0 .. level : \A j \in 0 .. i : forward[update[j]][j] = k}

\* Mutant: only the highest level is looked at.
BugLowered(f) ==
    IF level > 0 /\ f[Header][level] = Null THEN level - 1 ELSE level

\* The level shrinks past every level that has become empty.
Lowered(f) ==
    CHOOSE l \in 0 .. level :
        /\ \A i \in l + 1 .. level : f[Header][i] = Null
        /\ l > 0 => f[Header][l] # Null

Del(k) ==
    /\ up
    /\ LET update == Update(k)
           cut == Unlinked(k, update)
           f == [n \in (Live \ {k}) \cup {Header} |->
                    [i \in DOMAIN forward[n] |->
                        IF i \in cut /\ update[i] = n THEN forward[k][i]
                        ELSE forward[n][i]]]
       IN
       \/ /\ forward[update[0]][0] = k
          /\ forward' = f /\ level' = Lowered(f)
          /\ val' = [n \in Live \ {k} |-> val[n]]
          /\ heap' = heap - 4
          /\ reply' = Reply("DEL", k, 0)
       \/ /\ forward[update[0]][0] # k
          /\ reply' = Reply("DEL", k, 1) /\ UNCHANGED list /\ UNCHANGED heap
    /\ UNCHANGED up

Get(k) ==
    /\ up
    /\ reply' = Reply("GET", k, IF SearchNode(k) = Null THEN Absent ELSE val[k])
    /\ UNCHANGED list /\ UNCHANGED <<up, heap>>

Exist(k) ==
    /\ up
    /\ reply' = Reply("EXIST", k, IF SearchNode(k) = Null THEN 1 ELSE 0)
    /\ UNCHANGED list /\ UNCHANGED <<up, heap>>

\* The nodes of level i behind n, in order.
RECURSIVE Behind(_, _)
Behind(n, i) ==
    IF forward[n][i] = Null THEN <<>>
    ELSE <<forward[n][i]>> \o Behind(forward[n][i], i)

\* kvs_skiplist_destory follows level 0, then frees the header.
Destroy ==
    /\ up
    /\ heap' = heap - 4 * Len(Behind(Header, 0)) - 4
    /\ level' = 0 /\ forward' = EmptyForward /\ val' = NoValue
    /\ up' = FALSE /\ reply' = Reply("DESTROY", Absent, 0)

Next ==
    \/ Create \/ Destroy
    \/ \E k \in Key, v \in Value, h \in 0 .. MaxLevel : Set(k, v, h)
    \/ \E k \in Key, v \in Value : Mod(k, v)
    \/ \E k \in Key : Del(k) \/ Get(k) \/ Exist(k)

Spec == Init /\ [][Next]_vars

-----------------------------------------------------------------------------
(* Properties.                                                              *)

\* The variables have the shape of the list; no pointer leads to a freed node.
TypeOK ==
    /\ Live \subseteq Key
    /\ level \in 0 .. MaxLevel
    /\ DOMAIN forward = Live \cup {Header}
    /\ \A n \in DOMAIN forward, i \in 0 .. MaxLevel :
           i \in DOMAIN forward[n] => forward[n][i] \in Live \cup {Null}
    /\ heap \in Nat

\* Level i links, in order, exactly the nodes that reach it: no pointer to a
\* freed node is left on any level, and none that insertion should have set is
\* missing.  The list is as high as its highest node, no higher: above, the
\* header's pointers are NULL, as the next insertion takes for granted.
Levels ==
    /\ \A i \in 0 .. MaxLevel :
           LET chain == Behind(Header, i) IN
           /\ {chain[j] : j \in DOMAIN chain} = {n \in Live : i \in DOMAIN forward[n]}
           /\ \A j \in 2 .. Len(chain) : chain[j - 1] < chain[j]
           /\ i > level => chain = <<>>
    /\ level > 0 => forward[Header][level] # Null

\* Whichever allocation fails, the engine holds exactly four blocks per node
\* and four for the header; nothing after destroy.
NoLeak == heap = IF up THEN 4 + 4 * Cardinality(Live) ELSE 0

\* What kvs_skiplist_foreach visits.
Contents ==
    LET chain == Behind(Header, 0)
        seen == {chain[j] : j \in DOMAIN chain}
    IN  [k \in Key |-> IF k \in seen THEN val[k] ELSE Absent]

Map == INSTANCE KVMap WITH
    map <- Contents, Capacity <- Cardinality(Key), DelMissing <- 1
=============================================================================
