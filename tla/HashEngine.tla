----------------------------- MODULE HashEngine -----------------------------
(***************************************************************************)
(* The hash table engine (src/engines/kvs_hash.c): a table of chains of    *)
(* nodes; a new node becomes the head of its chain.                        *)
(***************************************************************************)
EXTENDS Integers, Sequences, FiniteSets

CONSTANTS
    AnyKey,     \* the keys of the calls, as sequences of characters
    Value,
    Absent,     \* NULL
    MaxTableSize

\* A character is a signed char, as gcc has it on x86; kvs_fields_to_tokens lets
\* every one but NUL into a key.  A key fits in a request, so there are finitely
\* many.
HashAssumption ==
    /\ AnyKey \subseteq Seq((-128 .. 127) \ {0}) /\ IsFiniteSet(AnyKey)
    /\ Absent \notin Value
    /\ MaxTableSize \in Nat \ {0}

VARIABLES
    nodes,      \* index -> the chain: [key, val] records, head first
    count,      \* hash->count
    up,         \* hash->nodes is allocated
    heap,       \* blocks of memory the engine holds
    reply,      \* the last call and what it returned
    stray       \* a call has used memory in front of the table

vars == <<nodes, count, up, heap, reply, stray>>

Index == 0 .. MaxTableSize - 1
EmptyTable == [i \in Index |-> <<>>]

Reply(op, k, ret) == [op |-> op, key |-> k, ret |-> ret]

Init ==
    /\ nodes = EmptyTable /\ count = 0
    /\ up = FALSE /\ heap = 0 /\ reply = Reply("NONE", Absent, 0)
    /\ stray = FALSE

\* The % of C: the remainder has the sign of the dividend.
Rem(a, b) == IF a >= 0 THEN a % b ELSE -((-a) % b)

\* _hash.
Hash(key) ==
    LET sum[i \in 0 .. Len(key)] == IF i = 0 THEN 0 ELSE sum[i - 1] + key[i]
    IN  Rem(sum[Len(key)], MaxTableSize)

\* The keys that have a chain in the table.
Key == {k \in AnyKey : Hash(k) \in Index}

\* The chain a key belongs to.
Chain(k) == nodes[Hash(k)]

\* The positions of a key in its chain; a walk ends at the first.
Found(k) == {i \in DOMAIN Chain(k) : Chain(k)[i].key = k}

First(places) == CHOOSE i \in places : \A j \in places : i <= j

Create ==
    /\ ~up
    /\ \/ heap' = 1 /\ up' = TRUE /\ reply' = Reply("CREATE", Absent, 0)
       \/ reply' = Reply("CREATE", Absent, -1) /\ UNCHANGED <<heap, up>>
    /\ nodes' = EmptyTable /\ count' = 0

\* The new value is allocated before the old one is freed.
Overwrite(op, k, v) ==
    \/ /\ nodes' = [nodes EXCEPT ![Hash(k)][First(Found(k))].val = v]
       /\ reply' = Reply(op, k, 0) /\ UNCHANGED <<count, up, heap>>
    \/ reply' = Reply(op, k, -2) /\ UNCHANGED <<nodes, count, up, heap>>

\* _create_node: how many blocks it frees when its allocation number `failed'
\* fails: the node, the key and the value are allocated in this order.
Undone(failed) == <<0, 1, 2>>[failed]

\* A new node becomes the head of the chain.
Inserted(k, v) == <<[key |-> k, val |-> v]>> \o Chain(k)

Set(k, v) ==
    /\ up
    /\ \/ Found(k) # {} /\ Overwrite("SET", k, v)
       \/ /\ Found(k) = {}
          /\ nodes' = [nodes EXCEPT ![Hash(k)] = Inserted(k, v)]
          /\ count' = count + 1
          /\ heap' = heap + 3
          /\ reply' = Reply("SET", k, 0) /\ UNCHANGED up
       \/ /\ Found(k) = {}
          /\ \E failed \in 1 .. 3 : heap' = heap + (failed - 1) - Undone(failed)
          /\ reply' = Reply("SET", k, -1) /\ UNCHANGED <<nodes, count, up>>

Mod(k, v) ==
    /\ up
    /\ \/ Found(k) # {} /\ Overwrite("MOD", k, v)
       \/ /\ Found(k) = {}
          /\ reply' = Reply("MOD", k, 1) /\ UNCHANGED <<nodes, count, up, heap>>

\* Mutant: the chain is cut at the node.
BugWithout(chain, i) == SubSeq(chain, 1, i - 1)

\* The node is unlinked, whether it is the head or not.
Without(chain, i) == SubSeq(chain, 1, i - 1) \o SubSeq(chain, i + 1, Len(chain))

\* A missing key is an error here, unlike in the other engines.
Del(k) ==
    /\ up
    /\ \/ /\ Found(k) = {}
          /\ reply' = Reply("DEL", k, -1) /\ UNCHANGED <<nodes, count, heap>>
       \/ /\ Found(k) # {}
          /\ nodes' = [nodes EXCEPT ![Hash(k)] = Without(Chain(k), First(Found(k)))]
          /\ count' = count - 1
          /\ heap' = heap - 3
          /\ reply' = Reply("DEL", k, 0)
    /\ UNCHANGED up

ValueOf(k) == IF Found(k) = {} THEN Absent ELSE Chain(k)[First(Found(k))].val

Get(k) ==
    /\ up
    /\ reply' = Reply("GET", k, ValueOf(k))
    /\ UNCHANGED <<nodes, count, up, heap>>

Exist(k) ==
    /\ up
    /\ reply' = Reply("EXIST", k, IF ValueOf(k) = Absent THEN 1 ELSE 0)
    /\ UNCHANGED <<nodes, count, up, heap>>

\* The nodes of all chains.
Stored == UNION {{<<i, p>> : p \in DOMAIN nodes[i]} : i \in Index}

\* kvs_hash_destory frees every chain, then the table.
Destroy ==
    /\ up
    /\ heap' = heap - 3 * Cardinality(Stored) - 1
    /\ nodes' = EmptyTable /\ count' = 0
    /\ up' = FALSE /\ reply' = Reply("DESTROY", Absent, 0)

Calls ==
    \/ Create \/ Destroy
    \/ \E k \in Key, v \in Value : Set(k, v) \/ Mod(k, v)
    \/ \E k \in Key : Del(k) \/ Get(k) \/ Exist(k)

\* What the calls but GET may return.
Returns == [SET |-> {0, -1, -2}, MOD |-> {0, 1, -2}, DEL |-> {0, -1}, EXIST |-> {0, 1}]

\* hash->nodes[idx] with a negative idx is a word in front of the table: a header
\* of the allocator, an object of somebody else, or no memory at all.  The process
\* faults, or the word is taken for a chain and the call returns anything, with a
\* node linked to it or unlinked from it.  Nothing is said of what follows.
Stray(k) ==
    /\ up /\ Hash(k) \notin Index
    /\ stray' = TRUE
    /\ \/ /\ nodes' = EmptyTable /\ count' = 0 /\ heap' = 0
          /\ up' = FALSE /\ reply' = Reply("FAULT", k, 0)
       \/ /\ \E v \in Value \cup {Absent} : reply' = Reply("GET", k, v)
          /\ UNCHANGED <<nodes, count, up, heap>>
       \/ \E op \in DOMAIN Returns, n \in {-1, 0, 1} : \E ret \in Returns[op] :
          /\ n = 1 => op = "SET" /\ ret = 0
          /\ n = -1 <=> op = "DEL" /\ ret = 0
          /\ count' = count + n /\ heap' = heap + 3 * n
          /\ reply' = Reply(op, k, ret) /\ UNCHANGED <<nodes, up>>

Next ==
    /\ ~stray
    /\ \/ Calls /\ UNCHANGED stray
       \/ \E k \in AnyKey : Stray(k)

Spec == Init /\ [][Next]_vars

-----------------------------------------------------------------------------
(* Properties.                                                              *)

\* The variables have the shape of the table; every node has a key and a value.
TypeOK ==
    /\ stray \in BOOLEAN
    /\ ~stray =>
          /\ nodes \in [Index -> Seq([key : Key, val : Value])]
          /\ count \in Nat
          /\ up \in BOOLEAN
          /\ heap \in Nat

\* Every node lies in the chain of its key, no key has two nodes, and the count
\* is the number of nodes: neither insertion at the head nor unlinking in the
\* middle of a chain loses the nodes that share it.  As long as every key that
\* was used has a chain.
Chained ==
    ~stray =>
        /\ \A e \in Stored : Hash(nodes[e[1]][e[2]].key) = e[1]
        /\ \A e, f \in Stored : nodes[e[1]][e[2]].key = nodes[f[1]][f[2]].key => e = f
        /\ count = Cardinality(Stored)

\* Whichever allocation fails, the engine holds exactly the table and a node, a
\* key and a value per stored key; nothing after destroy.
NoLeak == ~stray => heap = IF up THEN 1 + 3 * Cardinality(Stored) ELSE 0

\* What kvs_hash_foreach visits: the nodes, chain by chain.
Contents ==
    [k \in Key |->
        IF \E e \in Stored : nodes[e[1]][e[2]].key = k
        THEN LET e == CHOOSE e \in Stored : nodes[e[1]][e[2]].key = k
             IN  nodes[e[1]][e[2]].val
        ELSE Absent]

Map == INSTANCE KVMap WITH
    map <- Contents, Capacity <- Cardinality(Key), DelMissing <- -1

\* The engine is the map of KVMap, over the keys that have a chain, until a call
\* is made with a key that has none.
MapUntilStray == Map!Init /\ [][stray' \/ Map!Next]_(Map!vars)
=============================================================================
