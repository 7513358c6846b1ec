----------------------------- MODULE Allocator ------------------------------
(***************************************************************************)
(* The pool allocator (src/memory/kvs_allocator.c): size classes whose     *)
(* blocks are cut from slabs, and large objects with a mapping each.       *)
(*                                                                         *)
(* A region is a mapping aligned to KVS_SLAB_SIZE, so that free finds the  *)
(* region of a pointer; a pointer is a region and a block of it (block 0   *)
(* of a large one).  mmap and munmap may fail, MaxFaults times.            *)
(***************************************************************************)
EXTENDS Integers, Sequences, FiniteSets

CONSTANTS
    BlockSize,   \* pools[].block_size: the size classes, in ascending order
    Blocks,      \* how many blocks a slab of each class has
    Sizes,       \* the sizes that are asked for
    Region,      \* addresses of regions: a finite set of positive integers
    MaxFaults    \* bound: failing system calls

ASSUME AllocatorAssumption ==
    /\ BlockSize \in Seq(Nat \ {0}) /\ BlockSize # <<>>
    /\ \A c \in 2 .. Len(BlockSize) : BlockSize[c - 1] < BlockSize[c]
    /\ Blocks \in [DOMAIN BlockSize -> Nat \ {0}]
    /\ Sizes \subseteq Nat \ {0}
    /\ Region \subseteq Nat \ {0} /\ IsFiniteSet(Region)
    /\ MaxFaults \in Nat

VARIABLES
    initialized, \* allocator_initialized
    aborted,     \* the process called abort()
    mapped,      \* the regions that are mapped
    pools,       \* class -> its slabs, head first
    slab,        \* a mapped slab's class, free list, bitmap and used_count
    large,       \* a large region's prev and next
    head,        \* large_regions
    live,        \* history: [region, block, size] of what callers hold
    faults       \* failed system calls

vars == <<initialized, aborted, mapped, pools, slab, large, head, live, faults>>

Class == DOMAIN BlockSize
Block == UNION {1 .. Blocks[c] : c \in Class}
Null == 0

Init ==
    /\ initialized = FALSE /\ aborted = FALSE
    /\ mapped = {} /\ pools = [c \in Class |-> <<>>]
    /\ slab = <<>> /\ large = <<>> /\ head = Null
    /\ live = {} /\ faults = 0

Fault(n) == faults + n <= MaxFaults /\ faults' = faults + n

\* kvs_allocator_init.
Start ==
    /\ ~initialized
    /\ initialized' = TRUE
    /\ pools' = [c \in Class |-> <<>>]
    /\ UNCHANGED <<aborted, mapped, slab, large, head, live, faults>>

\* The function f with x |-> v, and without x.
With(f, x, v) == [y \in DOMAIN f \cup {x} |-> IF y = x THEN v ELSE f[y]]
Without(f, x) == [y \in DOMAIN f \ {x} |-> f[y]]

-----------------------------------------------------------------------------
(* Allocation.                                                              *)

Running == initialized /\ ~aborted

\* Mutant: the block may be a little too small.
BugFitting(size) == {c \in Class : size <= BlockSize[c] + 1}

\* The classes whose blocks hold the object; find_size_class takes the first.
Fitting(size) == {c \in Class : size <= BlockSize[c]}

FindSizeClass(size) == CHOOSE c \in Fitting(size) : \A d \in Fitting(size) : c <= d

\* region_memory_alloc: mmap fails, or trimming to the aligned part fails and
\* the mapping is given back; when that fails too, it is lost.
NewRegion == CHOOSE r \in Region \ mapped : \A q \in Region \ mapped : r <= q

RegionFails ==
    /\ \/ Fault(1) /\ UNCHANGED mapped
       \/ Fault(2) /\ Region \ mapped # {} /\ mapped' = mapped \cup {NewRegion}
    /\ UNCHANGED <<initialized, aborted, pools, slab, large, head, live>>

\* slab_create links the blocks one before the other.
NewSlab(c) ==
    [class |-> c, free |-> [i \in 1 .. Blocks[c] |-> Blocks[c] + 1 - i],
     bitmap |-> {}, used |-> 0]

\* slab_alloc_block.
Taken(s) ==
    [s EXCEPT !.free = Tail(@), !.bitmap = @ \cup {Head(s.free)}, !.used = @ + 1]

\* The slabs of a class that have a free block, by their place in the list.
Usable(c) == {i \in DOMAIN pools[c] : slab[pools[c][i]].free # <<>>}

\* pool_alloc_small from the first slab that has a free block.
AllocSmall(size) ==
    /\ Running /\ Fitting(size) # {}
    /\ LET c == FindSizeClass(size) IN
       /\ Usable(c) # {}
       /\ LET r == pools[c][CHOOSE i \in Usable(c) : \A j \in Usable(c) : i <= j] IN
          /\ slab' = [slab EXCEPT ![r] = Taken(@)]
          /\ live' = live \cup {[region |-> r, block |-> Head(slab[r].free), size |-> size]}
    /\ UNCHANGED <<initialized, aborted, mapped, pools, large, head, faults>>

\* pool_alloc_small when all slabs are full: a new one becomes the head.
AllocSlab(size) ==
    /\ Running /\ Fitting(size) # {}
    /\ LET c == FindSizeClass(size) IN
       /\ Usable(c) = {}
       /\ \/ RegionFails
          \/ /\ Region \ mapped # {}
             /\ LET s == NewSlab(c) IN
                /\ mapped' = mapped \cup {NewRegion}
                /\ slab' = With(slab, NewRegion, Taken(s))
                /\ pools' = [pools EXCEPT ![c] = <<NewRegion>> \o @]
                /\ live' = live \cup {[region |-> NewRegion, block |-> Head(s.free),
                                       size |-> size]}
             /\ UNCHANGED <<initialized, aborted, large, head, faults>>

\* large -> prev/next after l became the head.
Linked(l, r) ==
    With(IF head = Null THEN l ELSE [l EXCEPT ![head].prev = r],
         r, [prev |-> Null, next |-> head])

\* pool_alloc_large.
AllocLarge(size) ==
    /\ Running /\ Fitting(size) = {}
    /\ \/ RegionFails
       \/ /\ Region \ mapped # {}
          /\ mapped' = mapped \cup {NewRegion}
          /\ large' = Linked(large, NewRegion)
          /\ head' = NewRegion
          /\ live' = live \cup {[region |-> NewRegion, block |-> 0, size |-> size]}
          /\ UNCHANGED <<initialized, aborted, pools, slab, faults>>

-----------------------------------------------------------------------------
(* Release.                                                                 *)

\* Mutant: the bitmap is not looked at.
BugValid(s, i) == s.used # 0

\* pool_free_small accepts a block that is in use.
Valid(s, i) == i \in s.bitmap /\ s.used # 0

\* kvs_allocator_free of a block of a slab: of a live object, or, by mistake, of
\* a block that is free already.
FreeSmall(r, i) ==
    /\ Running /\ r \in DOMAIN slab /\ i \in 1 .. Blocks[slab[r].class]
    /\ \/ /\ Valid(slab[r], i)
          /\ slab' = [slab EXCEPT ![r].bitmap = @ \ {i}, ![r].used = @ - 1,
                                  ![r].free = <<i>> \o @]
          /\ live' = {p \in live : <<p.region, p.block>> # <<r, i>>}
          /\ UNCHANGED aborted
       \/ /\ ~Valid(slab[r], i)
          /\ aborted' = TRUE /\ UNCHANGED <<slab, live>>
    /\ UNCHANGED <<initialized, mapped, pools, large, head, faults>>

\* Mutant: the neighbour behind keeps its prev.
BugUnlinked(l, r) ==
    IF l[r].prev = Null THEN l ELSE [l EXCEPT ![l[r].prev].next = l[r].next]

\* The neighbours of r are linked to each other.
Unlinked(l, r) ==
    LET p == l[r].prev
        n == l[r].next
        l1 == IF p = Null THEN l ELSE [l EXCEPT ![p].next = n]
    IN  IF n = Null THEN l1 ELSE [l1 EXCEPT ![n].prev = p]

\* pool_free_large; when munmap fails the links are restored, and the caller aborts.
FreeLarge(r) ==
    /\ Running /\ r \in DOMAIN large
    /\ \/ /\ mapped' = mapped \ {r}
          /\ large' = Without(Unlinked(large, r), r)
          /\ head' = IF large[r].prev = Null THEN large[r].next ELSE head
          /\ live' = {p \in live : p.region # r}
          /\ UNCHANGED <<aborted, faults>>
       \/ Fault(1) /\ aborted' = TRUE /\ UNCHANGED <<mapped, large, head, live>>
    /\ UNCHANGED <<initialized, pools, slab>>

Idle == head = Null /\ \A r \in DOMAIN slab : slab[r].used = 0

\* kvs_allocator_destroy refuses while an object is in use.
DestroyRefused == Running /\ ~Idle /\ UNCHANGED vars

\* What pool_destroy has unmapped when it has dealt with the classes below c and
\* with k slabs of class c, each list from its head.
Gone(c, k) ==
    (UNION {{pools[d][i] : i \in DOMAIN pools[d]} : d \in 1 .. c - 1})
        \cup {pools[c][i] : i \in 1 .. k}

\* Mutant: the list is cut only when all slabs of the class are unmapped.
BugRemaining(c, k) ==
    [d \in Class |-> IF d < c \/ (d = c /\ k = Len(pools[d])) THEN <<>> ELSE pools[d]]

\* Each list is cut as soon as its head is unmapped.
Remaining(c, k) ==
    [d \in Class |-> IF d < c THEN <<>>
                     ELSE IF d = c THEN SubSeq(pools[d], k + 1, Len(pools[d]))
                     ELSE pools[d]]

\* pool_destroy unmaps every slab, or stops at the first munmap that fails, after
\* which the allocator stays initialized and destroy may be called again.
Destroy(c, k) ==
    /\ Running /\ Idle /\ k <= Len(pools[c])
    /\ IF c = Len(BlockSize) /\ k = Len(pools[c])
       THEN initialized' = FALSE /\ UNCHANGED faults
       ELSE k < Len(pools[c]) /\ Fault(1) /\ UNCHANGED initialized
    /\ mapped' = mapped \ Gone(c, k)
    /\ slab' = [r \in DOMAIN slab \ Gone(c, k) |-> slab[r]]
    /\ pools' = Remaining(c, k)
    /\ UNCHANGED <<aborted, large, head, live>>

Next ==
    \/ Start \/ DestroyRefused
    \/ \E size \in Sizes : AllocSmall(size) \/ AllocSlab(size) \/ AllocLarge(size)
    \/ \E r \in Region : FreeLarge(r) \/ \E i \in Block : FreeSmall(r, i)
    \/ \E c \in Class, k \in 0 .. Cardinality(Region) : Destroy(c, k)

Spec == Init /\ [][Next]_vars

-----------------------------------------------------------------------------
(* Properties.                                                              *)

\* The variables have the shape of the pools; the free list of a slab has only
\* blocks of that slab.
TypeOK ==
    /\ initialized \in BOOLEAN /\ aborted \in BOOLEAN
    /\ mapped \subseteq Region
    /\ \A c \in Class : pools[c] \in Seq(Region)
    /\ \A r \in DOMAIN slab :
           /\ slab[r].class \in Class
           /\ slab[r].free \in Seq(1 .. Blocks[slab[r].class])
           /\ slab[r].used \in 0 .. Blocks[slab[r].class]
    /\ head \in Region \cup {Null}
    /\ faults \in 0 .. MaxFaults

LiveIn(r) == {p.block : p \in {q \in live : q.region = r}}

\* No block is handed out twice, whatever is freed, even twice: no two objects in
\* use have the same block; in every slab
\* the bitmap marks exactly the blocks that callers hold, the free list has each
\* of the others once, and used_count, on which destroy relies, counts the
\* marked ones.
BlocksAccounted ==
    /\ \A p, q \in live : p.region = q.region /\ p.block = q.block => p = q
    /\ \A r \in DOMAIN slab :
        LET s == slab[r] IN
        /\ s.bitmap = LiveIn(r)
        /\ {s.free[i] : i \in DOMAIN s.free} = (1 .. Blocks[s.class]) \ s.bitmap
        /\ Len(s.free) = Blocks[s.class] - Cardinality(s.bitmap)
        /\ s.used = Cardinality(s.bitmap)

\* Every object fits its block, and none was given a larger block than needed.
ObjectsFit ==
    \A p \in live :
        IF p.block = 0 THEN \A c \in Class : p.size > BlockSize[c]
        ELSE LET c == slab[p.region].class IN
             p.size <= BlockSize[c] /\ \A d \in 1 .. c - 1 : p.size > BlockSize[d]

\* large_regions, read forwards and backwards, has exactly the large objects in
\* use, also behind a munmap that failed.
LargeList ==
    /\ DOMAIN large = {p.region : p \in {q \in live : q.block = 0}}
    /\ head = Null <=> large = <<>>
    /\ head # Null => large[head].prev = Null
    /\ \A r \in DOMAIN large :
           /\ large[r].next # Null => large[large[r].next].prev = r
           /\ large[r].prev # Null => large[large[r].prev].next = r
           /\ large[r].prev = Null => r = head

InPools == UNION {{pools[c][i] : i \in DOMAIN pools[c]} : c \in Class}

\* Nothing mapped is forgotten and nothing unmapped is kept: every slab is in
\* the list of its class and mapped, also between a destroy that failed half way
\* and the next try; when destroy succeeds only mappings are left that were lost
\* to two failing system calls each.
RegionsOwned ==
    /\ InPools = DOMAIN slab /\ InPools \subseteq mapped
    /\ DOMAIN large \subseteq mapped
    /\ 2 * Cardinality(mapped \ (DOMAIN slab \cup DOMAIN large)) <= faults
    /\ ~initialized => InPools = {} /\ DOMAIN large = {}

\* The allocator never hands out a block twice, even when one is freed twice:
\* bitmap, free list and used_count of a slab agree with what callers hold.  Every
\* object has the smallest block it fits, large_regions has exactly the large
\* ones, and every region stays mapped and known to the pool, also between a
\* destroy that failed half way and the next try.
PoolSound ==
    /\ TypeOK
    /\ BlocksAccounted
    /\ ObjectsFit
    /\ LargeList
    /\ RegionsOwned
=============================================================================
