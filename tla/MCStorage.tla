----------------------------- MODULE MCStorage ------------------------------
(***************************************************************************)
(* The four engines and the allocator for TLC.  They share no state: a     *)
(* behaviour is one of one part, chosen by the initial state: the          *)
(* allocator stays in its initial state when an engine runs, and the       *)
(* variables of the engines that do not run hold nothing.  The tree and    *)
(* the skip list are there twice, with many keys for their shape and with  *)
(* two values for what they store.                                         *)
(***************************************************************************)
EXTENDS Allocator

VARIABLES
    part,                                   \* what this behaviour is one of
    table, total,                           \* ArrayEngine
    nodes, count, stray,                    \* HashEngine
    tree,                                   \* RBTree
    level, forward, val,                    \* SkipList
    up, heap, reply                         \* every engine

arrayVars == <<table, total>>
hashVars == <<nodes, count, stray>>
listVars == <<level, forward, val>>
engineVars == <<up, heap, reply>>
allVars == <<part, arrayVars, hashVars, tree, listVars, engineVars, vars>>

None == "-"
Absent == "NULL"

\* Four keys for a table of three slots.
Array == INSTANCE ArrayEngine WITH
    Key <- {"k1", "k2", "k3", "k4"}, Value <- {"a", "b"}, Size <- 3

\* Three keys that share a chain, another, and one that has no chain.  The codes
\* below 0 are those of characters above 127.
Hash == INSTANCE HashEngine WITH
    AnyKey <- {<<1>>, <<1, 2>>, <<-1, 4>>, <<-2>>, <<-1>>}, Value <- {"a", "b"},
    MaxTableSize <- 2

\* Enough keys for every case of both fixups, and for one that moves up first.
Tree == INSTANCE RBTree WITH Key <- 1 .. 8, Value <- {"a"}

\* Enough for a successor that is not a child, and to tell values apart.
TreeMap == INSTANCE RBTree WITH Key <- 1 .. 4, Value <- {"a", "b"}

List == INSTANCE SkipList WITH Key <- 1 .. 4, Value <- {"a"}, MaxLevel <- 2
ListMap == INSTANCE SkipList WITH Key <- 1 .. 3, Value <- {"a", "b"}, MaxLevel <- 2

\* Two size classes with slabs of two blocks and of one; an object of size 4 is a large one.
TwoClasses == <<1, 3>>
TwoAndOne == <<2, 1>>

ASSUME StorageAssumption ==
    /\ Array!ArrayAssumption /\ Hash!HashAssumption
    /\ Tree!TreeAssumption /\ TreeMap!TreeAssumption
    /\ List!SkipListAssumption /\ ListMap!SkipListAssumption

NoArray == table = None /\ total = None
NoHash == nodes = None /\ count = None /\ stray = None
NoTree == tree = None
NoList == level = None /\ forward = None /\ val = None
NoEngine == NoArray /\ NoHash /\ NoTree /\ NoList /\ up = None /\ heap = None /\ reply = None

StorageInit ==
    /\ Init
    /\ \/ part = "array" /\ Array!Init /\ NoHash /\ NoTree /\ NoList
       \/ part = "hash" /\ Hash!Init /\ NoArray /\ NoTree /\ NoList
       \/ part = "tree" /\ Tree!Init /\ NoArray /\ NoHash /\ NoList
       \/ part = "tree map" /\ TreeMap!Init /\ NoArray /\ NoHash /\ NoList
       \/ part = "list" /\ List!Init /\ NoArray /\ NoHash /\ NoTree
       \/ part = "list map" /\ ListMap!Init /\ NoArray /\ NoHash /\ NoTree
       \/ part = "pool" /\ NoEngine

\* The calls that change the shape; the others are in the smaller instances.
TreeWrites ==
    \/ Tree!Create \/ Tree!Destroy
    \/ \E k \in 1 .. 8 : Tree!Set(k, "a") \/ Tree!Del(k)

ListWrites ==
    \/ List!Create \/ List!Destroy
    \/ \E k \in 1 .. 4 : (\E h \in 0 .. 2 : List!Set(k, "a", h)) \/ List!Del(k)

StorageNext ==
    \/ /\ part = "array" /\ Array!Next
       /\ UNCHANGED <<part, hashVars, tree, listVars, vars>>
    \/ /\ part = "hash" /\ Hash!Next
       /\ UNCHANGED <<part, arrayVars, tree, listVars, vars>>
    \/ /\ part = "tree" /\ TreeWrites
       /\ UNCHANGED <<part, arrayVars, hashVars, listVars, vars>>
    \/ /\ part = "tree map" /\ TreeMap!Next
       /\ UNCHANGED <<part, arrayVars, hashVars, listVars, vars>>
    \/ /\ part = "list" /\ ListWrites
       /\ UNCHANGED <<part, arrayVars, hashVars, tree, vars>>
    \/ /\ part = "list map" /\ ListMap!Next
       /\ UNCHANGED <<part, arrayVars, hashVars, tree, vars>>
    \/ /\ part = "pool" /\ Next
       /\ UNCHANGED <<part, arrayVars, hashVars, tree, listVars, engineVars>>

StorageSpec == StorageInit /\ [][StorageNext]_allVars

-----------------------------------------------------------------------------
(* The properties of the allocator are those of Allocator.                  *)

\* After any sequence of calls and failing allocations the structure of an
\* engine is intact.  Array: the slots below total hold different keys, the others
\* nothing, so that DEL never compares with a NULL key.  Hash: every node lies in
\* the chain of its key, once, unless a call had a key without a chain.  Tree:
\* foreach visits every node once and in order, and the fixups keep the colours.
\* Skip list: each level links in order exactly the nodes that reach it, and the
\* list is as high as its highest node.
EnginesIntact ==
    /\ part = "array" => Array!TypeOK /\ Array!Compact
    /\ part = "hash" => Hash!TypeOK /\ Hash!Chained
    /\ part = "tree" => Tree!TypeOK /\ Tree!Linked /\ Tree!RedBlack
    /\ part = "tree map" => TreeMap!TypeOK
    /\ part = "list" => List!TypeOK /\ List!Levels
    /\ part = "list map" => ListMap!TypeOK

\* Whichever allocation of a SET fails, and whatever is deleted, an engine holds
\* exactly the memory of the keys it stores, and none after destroy.
NoLeak ==
    /\ part = "array" => Array!NoLeak
    /\ part = "hash" => Hash!NoLeak
    /\ part = "tree" => Tree!NoLeak
    /\ part = "list" => List!NoLeak

RefInit ==
    /\ part = "array" => Array!Map!Init
    /\ part = "hash" => Hash!Map!Init
    /\ part = "tree map" => TreeMap!Map!Init
    /\ part = "list map" => ListMap!Map!Init

RefNext ==
    /\ part = "array" => [Array!Map!Next]_(Array!Map!vars)
    /\ part = "hash" => [stray' \/ Hash!Map!Next]_(Hash!Map!vars)
    /\ part = "tree map" => [TreeMap!Map!Next]_(TreeMap!Map!vars)
    /\ part = "list map" => [ListMap!Map!Next]_(ListMap!Map!vars)

\* Every engine implements KVMap: what its traversal finds changes as a map
\* does, and every call returns what it would return for that map, whichever
\* keys collide, whatever heights nodes have, whichever allocation fails.  Of the
\* hash engine this holds for the keys whose index lies in the table, and until
\* a call is made with another.
Refines == RefInit /\ [][RefNext]_allVars
=============================================================================
