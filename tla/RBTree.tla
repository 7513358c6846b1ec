------------------------------- MODULE RBTree -------------------------------
(***************************************************************************)
(* The red-black tree engine (src/engines/kvs_rbtree.c): nodes linked by   *)
(* pointers, the sentinel nil, rotations, both fixups, and the calls of    *)
(* the kvs_rbtree_ interface with the memory they take and give back.      *)
(*                                                                         *)
(* The code has a left and a right form of each rotation and of each case  *)
(* of the fixups; a direction d stands for both.  Keys are numbers, in     *)
(* the order of strcmp.  Addresses cannot be observed, so between calls a  *)
(* node is named after the key it holds.                                   *)
(***************************************************************************)
EXTENDS Integers, Sequences, FiniteSets

CONSTANTS
    Key,        \* a set of positive integers
    Value,
    Absent      \* NULL

TreeAssumption ==
    /\ Key \subseteq Nat \ {0} /\ IsFiniteSet(Key)
    /\ Absent \notin Value

VARIABLES
    tree,       \* [root, node]: node gives the fields of every live node
    up,         \* inst->nil is allocated
    heap,       \* blocks of memory the engine holds
    reply       \* the last call and what it returned

vars == <<tree, up, heap, reply>>

Nil == 0
Stale == -1     \* an address nothing lives at
Left == 1
Right == 2
Opposite(d) == 3 - d

Color(t, n) == t.node[n].color
Parent(t, n) == t.node[n].parent
Child(t, n, d) == t.node[n].child[d]
Side(t, n) == IF n = Child(t, Parent(t, n), Left) THEN Left ELSE Right

Paint(t, n, c) == [t EXCEPT !.node[n].color = c]
SetParent(t, n, p) == [t EXCEPT !.node[n].parent = p]
SetChild(t, n, d, c) == [t EXCEPT !.node[n].child[d] = c]

\* y takes the place of x below x's parent.
Replace(t, x, y) ==
    IF Parent(t, x) = Nil THEN [t EXCEPT !.root = y]
    ELSE SetChild(t, Parent(t, x), Side(t, x), y)

\* kvs_rbtree_create.
EmptyTree ==
    [root |-> Nil,
     node |-> [n \in {Nil} |-> [child |-> <<Nil, Nil>>, parent |-> Nil,
                                color |-> "BLACK", key |-> Nil, val |-> Absent]]]

-----------------------------------------------------------------------------
(* The tree.                                                                *)

RECURSIVE Minimum(_, _)
Minimum(t, x) == IF Child(t, x, Left) = Nil THEN x ELSE Minimum(t, Child(t, x, Left))

\* rbtree_search: the node, or nil.
RECURSIVE SearchFrom(_, _, _)
SearchFrom(t, n, k) ==
    IF n = Nil \/ k = t.node[n].key THEN n
    ELSE SearchFrom(t, Child(t, n, IF k < t.node[n].key THEN Left ELSE Right), k)

Search(t, k) == SearchFrom(t, t.root, k)

\* Mutant: the subtree that changes sides keeps its old parent.
BugRotate(t, x, d) ==
    LET y == Child(t, x, Opposite(d))
        t1 == SetChild(t, x, Opposite(d), Child(t, y, d))
        t2 == Replace(SetParent(t1, y, Parent(t, x)), x, y)
    IN  SetParent(SetChild(t2, y, d, x), x, y)

\* rbtree_left_rotate (d = Left) and rbtree_right_rotate.
Rotate(t, x, d) ==
    LET y == Child(t, x, Opposite(d))
        b == Child(t, y, d)
        t1 == SetChild(t, x, Opposite(d), b)
        t2 == IF b = Nil THEN t1 ELSE SetParent(t1, b, x)
        t3 == Replace(SetParent(t2, y, Parent(t, x)), x, y)
    IN  SetParent(SetChild(t3, y, d, x), x, y)

\* The rotation of insert_fixup that moves an inner grandchild outwards.
Straighten(t, z, d) ==
    IF z = Child(t, Parent(t, z), Opposite(d))
    THEN [t |-> Rotate(t, Parent(t, z), d), z |-> Parent(t, z)]
    ELSE [t |-> t, z |-> z]

RECURSIVE InsertFixup(_, _)
InsertFixup(t, z) ==
    LET p == Parent(t, z) IN
    IF Color(t, p) # "RED" THEN Paint(t, t.root, "BLACK")
    ELSE LET g == Parent(t, p)
             d == Side(t, p)
             y == Child(t, g, Opposite(d))
         IN  IF Color(t, y) = "RED"
             THEN InsertFixup(Paint(Paint(Paint(t, p, "BLACK"), y, "BLACK"), g, "RED"), g)
             ELSE LET s == Straighten(t, z, d)
                      q == Parent(s.t, s.z)
                      h == Parent(s.t, q)
                      t1 == Paint(Paint(s.t, q, "BLACK"), h, "RED")
                  IN  InsertFixup(Rotate(t1, h, Opposite(d)), s.z)

RECURSIVE LeafFor(_, _, _)
LeafFor(t, n, k) ==
    LET c == Child(t, n, IF k < t.node[n].key THEN Left ELSE Right)
    IN  IF c = Nil THEN n ELSE LeafFor(t, c, k)

\* rbtree_insert of a key that is not stored, into a node named after it.
Insert(t, k, v) ==
    LET y == IF t.root = Nil THEN Nil ELSE LeafFor(t, t.root, k)
        z == [child |-> <<Nil, Nil>>, parent |-> y, color |-> "RED",
              key |-> k, val |-> v]
        t1 == [t EXCEPT !.node = [n \in DOMAIN t.node \cup {k} |->
                                      IF n = k THEN z ELSE t.node[n]]]
        t2 == IF y = Nil THEN [t1 EXCEPT !.root = k]
              ELSE SetChild(t1, y, IF k < t.node[y].key THEN Left ELSE Right, k)
    IN  InsertFixup(t2, k)

\* delete_fixup: the sibling w of x on the side d of their parent p; its child
\* on x's side is near, the other one far.
RECURSIVE DeleteFixup(_, _)
DeleteFixup(t, x) ==
    IF x = t.root \/ Color(t, x) # "BLACK" THEN Paint(t, x, "BLACK")
    ELSE
    LET p == Parent(t, x)
        d == Side(t, x)
        o == Opposite(d)
        w0 == Child(t, p, o)
        t1 == IF Color(t, w0) = "RED"
              THEN Rotate(Paint(Paint(t, w0, "BLACK"), p, "RED"), p, d) ELSE t
        w1 == Child(t1, p, o)
        near == Child(t1, w1, d)
        far == Child(t1, w1, o)
        t2 == IF Color(t1, far) = "BLACK"
              THEN Rotate(Paint(Paint(t1, near, "BLACK"), w1, "RED"), w1, o) ELSE t1
        w2 == Child(t2, p, o)
        t3 == Paint(Paint(Paint(t2, w2, Color(t2, p)), p, "BLACK"),
                    Child(t2, w2, o), "BLACK")
    IN  IF Color(t1, near) = "BLACK" /\ Color(t1, far) = "BLACK"
        THEN DeleteFixup(Paint(t1, w1, "RED"), p)
        ELSE LET t4 == Rotate(t3, p, d) IN Paint(t4, t4.root, "BLACK")

\* Mutant: the fixup is left out when the node that moves up is nil.
BugRepaired(t, y, x) ==
    IF Color(t, y) = "BLACK" /\ x # Nil THEN DeleteFixup(t, x) ELSE t

\* The last step of rbtree_delete: taking a black node out needs a fixup.
Repaired(t, y, x) == IF Color(t, y) = "BLACK" THEN DeleteFixup(t, x) ELSE t

\* z and y exchange what they hold.
Exchange(t, z, y) ==
    [t EXCEPT !.node[z].key = t.node[y].key, !.node[z].val = t.node[y].val,
              !.node[y].key = t.node[z].key, !.node[y].val = t.node[z].val]

\* rbtree_delete: the tree and the node y that is cut out of it, which is z or
\* z's successor; y then takes z's key and value, to be freed with it.
Delete(t, z) ==
    LET y == IF Child(t, z, Left) = Nil \/ Child(t, z, Right) = Nil
             THEN z ELSE Minimum(t, Child(t, z, Right))
        x == IF Child(t, y, Left) # Nil THEN Child(t, y, Left)
             ELSE Child(t, y, Right)
        t1 == Replace(SetParent(t, x, Parent(t, y)), y, x)
    IN  [tree |-> Repaired(Exchange(t1, z, y), y, x), out |-> y]

\* rbtree_node_free; the nodes left are named after their keys.  What nil's
\* parent points to from now on is never read before it is written again.
Freed(t, y) ==
    LET live == DOMAIN t.node \ {y, Nil}
        name == [n \in live \cup {Nil} |-> t.node[n].key]
        holder == [k \in {name[n] : n \in live} |->
                      CHOOSE n \in live : name[n] = k]
        Renamed(n) == [t.node[n] EXCEPT
                          !.child = [d \in {Left, Right} |-> name[@[d]]],
                          !.parent = name[@]]
    IN  [root |-> name[t.root],
         node |-> [k \in {Nil} \cup DOMAIN holder |->
                      IF k = Nil THEN [t.node[Nil] EXCEPT !.parent = Stale]
                      ELSE Renamed(holder[k])]]

-----------------------------------------------------------------------------
(* The interface.                                                           *)

Reply(op, k, ret) == [op |-> op, key |-> k, ret |-> ret]

Init == tree = EmptyTree /\ up = FALSE /\ heap = 0 /\ reply = Reply("NONE", Absent, 0)

Create ==
    /\ ~up
    /\ \/ heap' = 1 /\ up' = TRUE /\ reply' = Reply("CREATE", Absent, 0)
       \/ reply' = Reply("CREATE", Absent, -1) /\ UNCHANGED <<heap, up>>
    /\ tree' = EmptyTree

\* A new value is allocated before the old one is freed.
Overwrite(op, k, n, v) ==
    \/ /\ tree' = [tree EXCEPT !.node[n].val = v]
       /\ reply' = Reply(op, k, 0) /\ UNCHANGED <<up, heap>>
    \/ reply' = Reply(op, k, -2) /\ UNCHANGED <<tree, up, heap>>

\* How many blocks a SET frees when its allocation number `failed' fails: the
\* node, the key and the value are allocated in this order.
Undone(failed) == <<0, 1, 2>>[failed]

Set(k, v) ==
    /\ up
    /\ LET n == Search(tree, k) IN
       \/ n # Nil /\ Overwrite("SET", k, n, v)
       \/ /\ n = Nil
          /\ tree' = Insert(tree, k, v)
          /\ heap' = heap + 3
          /\ reply' = Reply("SET", k, 0) /\ UNCHANGED up
       \/ \E failed \in 1 .. 3 :
             /\ n = Nil
             /\ heap' = heap + (failed - 1) - Undone(failed)
             /\ reply' = Reply("SET", k, -2) /\ UNCHANGED <<tree, up>>

Mod(k, v) ==
    /\ up
    /\ LET n == Search(tree, k) IN
       \/ n # Nil /\ Overwrite("MOD", k, n, v)
       \/ n = Nil /\ reply' = Reply("MOD", k, 1) /\ UNCHANGED <<tree, up, heap>>

Del(k) ==
    /\ up
    /\ LET n == Search(tree, k) IN
       \/ /\ n = Nil
          /\ reply' = Reply("DEL", k, 1) /\ UNCHANGED <<tree, up, heap>>
       \/ /\ n # Nil
          /\ tree' = LET d == Delete(tree, n) IN Freed(d.tree, d.out)
          /\ heap' = heap - 3
          /\ reply' = Reply("DEL", k, 0) /\ UNCHANGED up

\* nil->value is NULL.
Get(k) ==
    /\ up
    /\ reply' = Reply("GET", k, tree.node[Search(tree, k)].val)
    /\ UNCHANGED <<tree, up, heap>>

Exist(k) ==
    /\ up
    /\ reply' = Reply("EXIST", k, IF Search(tree, k) = Nil THEN 1 ELSE 0)
    /\ UNCHANGED <<tree, up, heap>>

\* Mutant: nil is freed with the last node, and again.
\* kvs_rbtree_destory deletes the minimum until the tree is empty.
RECURSIVE Emptied(_, _)
Emptied(t, blocks) ==
    IF t.root = Nil THEN blocks - 1
    ELSE LET d == Delete(t, Minimum(t, t.root)) IN Emptied(Freed(d.tree, d.out), blocks - 3)

Destroy ==
    /\ up
    /\ heap' = Emptied(tree, heap)
    /\ tree' = EmptyTree /\ up' = FALSE /\ reply' = Reply("DESTROY", Absent, 0)

Next ==
    \/ Create \/ Destroy
    \/ \E k \in Key, v \in Value : Set(k, v) \/ Mod(k, v)
    \/ \E k \in Key : Del(k) \/ Get(k) \/ Exist(k)

Spec == Init /\ [][Next]_vars

-----------------------------------------------------------------------------
(* Properties.                                                              *)

Live == DOMAIN tree.node \ {Nil}

\* The variables have the shape of the tree; no pointer leads to a freed node.
TypeOK ==
    /\ Live \subseteq Key
    /\ tree.root \in Live \cup {Nil}
    /\ \A n \in Live : /\ tree.node[n].parent \in Live \cup {Nil}
                       /\ tree.node[n].color \in {"RED", "BLACK"}
                       /\ tree.node[n].val \in Value
    /\ heap \in Nat

\* kvs_rbtree_foreach_node: the nodes in the order of their visit.
RECURSIVE Visit(_)
Visit(n) ==
    IF n = Nil THEN <<>>
    ELSE Visit(Child(tree, n, Left)) \o <<n>> \o Visit(Child(tree, n, Right))

\* After any sequence of calls foreach visits the keys in order, each once, and
\* no node is lost; every child knows its parent, the root has none.
Linked ==
    /\ LET seen == Visit(tree.root) IN
       /\ \A i \in 2 .. Len(seen) : tree.node[seen[i - 1]].key < tree.node[seen[i]].key
       /\ Len(seen) = Cardinality(Live)
    /\ tree.root # Nil => Parent(tree, tree.root) = Nil
    /\ \A n \in Live, d \in {Left, Right} :
           Child(tree, n, d) # Nil => Parent(tree, Child(tree, n, d)) = n

RECURSIVE BlackHeights(_)
BlackHeights(n) ==
    IF n = Nil THEN {0}
    ELSE {h + (IF Color(tree, n) = "BLACK" THEN 1 ELSE 0) :
             h \in BlackHeights(Child(tree, n, Left)) \cup
                   BlackHeights(Child(tree, n, Right))}

\* The fixups keep the tree balanced: the root and nil are black, no red node
\* has a red child, every path down meets the same number of black nodes.
RedBlack ==
    /\ Color(tree, tree.root) = "BLACK" /\ Color(tree, Nil) = "BLACK"
    /\ \A n \in Live : Color(tree, n) = "RED" =>
           \A d \in {Left, Right} : Color(tree, Child(tree, n, d)) = "BLACK"
    /\ Cardinality(BlackHeights(tree.root)) = 1

\* Whichever allocation fails and whatever is deleted, the engine holds exactly
\* nil and a node, a key and a value per stored key; nothing after destroy.
NoLeak == heap = IF up THEN 1 + 3 * Cardinality(Live) ELSE 0

\* What a traversal, for a snapshot for example, finds.
Contents ==
    LET seen == Visit(tree.root)
        found == {tree.node[seen[i]].key : i \in DOMAIN seen}
    IN  [k \in Key |-> IF k \in found THEN tree.node[k].val ELSE Absent]

Map == INSTANCE KVMap WITH
    map <- Contents, Capacity <- Cardinality(Key), DelMissing <- 1
=============================================================================
