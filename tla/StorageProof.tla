---------------------------- MODULE StorageProof ----------------------------
(***************************************************************************)
(* What stores the keys: the pool allocator for every table of size        *)
(* classes, every number of regions and any number of failing system       *)
(* calls, then the array engine and the hash engine for every set of keys  *)
(* and every size of their tables, the latter until a key leaves its table.*)
(*                                                                         *)
(* Allocator.  The bitmap, the free list and used_count of a slab are tied *)
(* to the objects that callers hold (Accounts), the list of a class to its *)
(* slabs (Lists), and the links of the large regions to one sequence of    *)
(* them (Chain): prev and next alone would allow a detached ring, which    *)
(* kvs_allocator_destroy would not see.                                    *)
(*                                                                         *)
(* Engines.  What a table holds is a function of its slots and of `total', *)
(* or of its chains (ContentsOf, MapOf), so that the states before and     *)
(* after a call are two arguments of one lemma.                            *)
(***************************************************************************)
EXTENDS Allocator, FiniteSetTheorems, FunctionTheorems, WellFoundedInduction, TLAPS

-----------------------------------------------------------------------------
(* The inductive invariant.                                                 *)

SlabRecord == [class : Class, free : Seq(Nat), bitmap : SUBSET Nat, used : Nat]
LinkRecord == [prev : Region \cup {Null}, next : Region \cup {Null}]
Object == [region : Region, block : Nat, size : Nat]

Types ==
    /\ initialized \in BOOLEAN /\ aborted \in BOOLEAN
    /\ mapped \in SUBSET Region
    /\ pools \in [Class -> Seq(Region)]
    /\ slab \in [DOMAIN slab -> SlabRecord] /\ DOMAIN slab \subseteq Region
    /\ large \in [DOMAIN large -> LinkRecord] /\ DOMAIN large \subseteq Region
    /\ live \in SUBSET Object
    /\ faults \in 0 .. MaxFaults

\* The slab s accounts for the blocks L in use: each block is in use or free, and
\* free once.
Accounts(s, L) ==
    /\ s.bitmap = L /\ L \subseteq 1 .. Blocks[s.class]
    /\ s.free \in Seq(1 .. Blocks[s.class])
    /\ {s.free[i] : i \in DOMAIN s.free} = (1 .. Blocks[s.class]) \ L
    /\ \A i, j \in DOMAIN s.free : s.free[i] = s.free[j] => i = j
    /\ IsFiniteSet(L) /\ s.used = Cardinality(L)
    /\ Len(s.free) + s.used = Blocks[s.class]

Slabs == \A r \in DOMAIN slab : Accounts(slab[r], LiveIn(r))

\* The object p has a region and a block of the right kind and size.
Placed(p) ==
    IF p.block = 0
    THEN p.region \in DOMAIN large /\ \A c \in Class : p.size > BlockSize[c]
    ELSE /\ p.region \in DOMAIN slab
         /\ p.size <= BlockSize[slab[p.region].class]
         /\ \A d \in 1 .. slab[p.region].class - 1 : p.size > BlockSize[d]

Owners ==
    /\ \A p \in live : Placed(p)
    /\ \A p, q \in live : p.region = q.region /\ p.block = q.block => p = q
    /\ \A r \in DOMAIN large : \E p \in live : p.region = r /\ p.block = 0

Lists ==
    /\ \A c \in Class : \A i \in DOMAIN pools[c] :
           pools[c][i] \in DOMAIN slab /\ slab[pools[c][i]].class = c
    /\ \A c \in Class : \A i, j \in DOMAIN pools[c] : pools[c][i] = pools[c][j] => i = j
    /\ \A r \in DOMAIN slab : \E i \in DOMAIN pools[slab[r].class] : pools[slab[r].class][i] = r

\* s, of n regions, is the list of the links l that begins at h.
Chain(n, s, l, h) ==
    /\ s \in [1 .. n -> DOMAIN l]
    /\ \A i, j \in 1 .. n : s[i] = s[j] => i = j
    /\ \A r \in DOMAIN l : \E i \in 1 .. n : s[i] = r
    /\ h = IF n = 0 THEN Null ELSE s[1]
    /\ \A i \in 1 .. n : /\ l[s[i]].prev = IF i = 1 THEN Null ELSE s[i - 1]
                         /\ l[s[i]].next = IF i = n THEN Null ELSE s[i + 1]

Large == \E n \in Nat : \E s : Chain(n, s, large, head)

Lost == mapped \ (DOMAIN slab \cup DOMAIN large)

Mapped ==
    /\ DOMAIN slab \cup DOMAIN large \subseteq mapped
    /\ DOMAIN slab \cap DOMAIN large = {}
    /\ 2 * Cardinality(Lost) <= faults
    /\ ~initialized => DOMAIN slab = {} /\ DOMAIN large = {}

PoolInv == Types /\ Slabs /\ Owners /\ Lists /\ Large /\ Mapped

-----------------------------------------------------------------------------
(* Numbers, choices and sequences.                                          *)

\* A set of natural numbers that is not empty has a least member.
LEMMA LeastExists ==
    ASSUME NEW S, S \subseteq Nat, S # {}
    PROVE  \E x \in S : \A y \in S : x <= y
<1>1. IsWellFoundedOn(OpToRel(<, Nat), Nat)
    BY NatLessThanWellFounded
<1>2. PICK x \in S : \A y \in S : ~ (<<y, x>> \in OpToRel(<, Nat))
    BY <1>1, WFMin
<1>3. \A y \in S : ~ (y < x)
    BY <1>2 DEF OpToRel
<1>4. \A y \in S : x \in Nat /\ y \in Nat
    OBVIOUS
<1> QED
    BY <1>3, <1>4

\* The constants, element by element.
LEMMA ConstantFacts ==
    /\ Class = 1 .. Len(BlockSize) /\ Len(BlockSize) \in Nat /\ Len(BlockSize) >= 1
    /\ \A c \in Class : c \in Nat /\ c >= 1 /\ BlockSize[c] \in Nat
    /\ \A c \in Class : Blocks[c] \in Nat /\ Blocks[c] >= 1
    /\ \A r \in Region : r \in Nat /\ r # Null
    /\ IsFiniteSet(Region) /\ MaxFaults \in Nat
    /\ Null \notin Region
<1>1. BlockSize \in Seq(Nat \ {0}) /\ BlockSize # <<>> /\ Blocks \in [DOMAIN BlockSize -> Nat \ {0}]
    BY AllocatorAssumption
<1>2. /\ Class = 1 .. Len(BlockSize) /\ Len(BlockSize) \in Nat /\ Len(BlockSize) >= 1
      /\ \A c \in Class : BlockSize[c] \in Nat \ {0}
    BY <1>1 DEF Class
<1>3. \A c \in Class : Blocks[c] \in Nat \ {0}
    BY <1>1 DEF Class
<1>4. \A c \in Class : c \in Nat /\ c >= 1
    BY <1>2
<1> QED
    BY <1>2, <1>3, <1>4, AllocatorAssumption DEF Null

\* find_size_class finds the smallest class that fits.
LEMMA SizeClass ==
    ASSUME NEW size \in Sizes, Fitting(size) # {}
    PROVE  /\ FindSizeClass(size) \in Class /\ size \in Nat
           /\ size <= BlockSize[FindSizeClass(size)]
           /\ \A d \in 1 .. FindSizeClass(size) - 1 : size > BlockSize[d]
<1> DEFINE F == Fitting(size)
           c == FindSizeClass(size)
<1>1. F \subseteq Nat /\ F \subseteq Class
    BY ConstantFacts DEF Fitting
<1>2. \E x \in F : \A y \in F : x <= y
    BY <1>1, LeastExists
<1>3. c \in F /\ \A y \in F : c <= y
    BY <1>2 DEF FindSizeClass
<1> HIDE DEF c
<1>4. c \in Class /\ size <= BlockSize[c]
    BY <1>3 DEF Fitting
<1>5. size \in Nat
    BY AllocatorAssumption
<1>6. ASSUME NEW d \in 1 .. c - 1 PROVE size > BlockSize[d]
    <2>1. c \in Nat /\ c \in 1 .. Len(BlockSize) /\ Len(BlockSize) \in Nat
        BY <1>4, ConstantFacts
    <2>2. d \in Class /\ ~(c <= d)
        BY <2>1, ConstantFacts
    <2>3. d \notin F
        BY <1>3, <2>2
    <2>4. ~(size <= BlockSize[d]) /\ BlockSize[d] \in Nat
        BY <2>2, <2>3, ConstantFacts DEF Fitting
    <2> QED
        BY <1>5, <2>4
<1> QED
    BY <1>4, <1>5, <1>6 DEF c

\* The region that is mapped next.
LEMMA NewRegionFacts ==
    ASSUME Types, Region \ mapped # {}
    PROVE  NewRegion \in Region /\ NewRegion \notin mapped
<1>1. Region \ mapped \subseteq Nat
    BY ConstantFacts
<1>2. \E x \in Region \ mapped : \A y \in Region \ mapped : x <= y
    BY <1>1, LeastExists
<1> QED
    BY <1>2 DEF NewRegion

\* The first slab with a free block.
LEMMA UsableFacts ==
    ASSUME PoolInv, NEW c \in Class, Usable(c) # {}
    PROVE  LET r == pools[c][CHOOSE i \in Usable(c) : \A j \in Usable(c) : i <= j]
           IN  r \in DOMAIN slab /\ slab[r].class = c /\ slab[r].free # <<>>
<1>1. Usable(c) \subseteq Nat /\ Usable(c) \subseteq DOMAIN pools[c]
    <2>1. pools[c] \in Seq(Region)
        BY DEF PoolInv, Types
    <2>2. DOMAIN pools[c] \subseteq Nat
        BY <2>1
    <2> QED
        BY <2>2 DEF Usable
<1>2. \E x \in Usable(c) : \A y \in Usable(c) : x <= y
    BY <1>1, LeastExists
<1> DEFINE i == CHOOSE i \in Usable(c) : \A j \in Usable(c) : i <= j
<1>3. i \in Usable(c)
    BY <1>2
<1> HIDE DEF i
<1>4. i \in DOMAIN pools[c] /\ slab[pools[c][i]].free # <<>>
    BY <1>3 DEF Usable
<1>5. pools[c][i] \in DOMAIN slab /\ slab[pools[c][i]].class = c
    BY <1>4 DEF PoolInv, Lists
<1> QED
    BY <1>4, <1>5 DEF i

\* What is behind the first element.
LEMMA TailFacts ==
    ASSUME NEW T, NEW s \in Seq(T), s # <<>>
    PROVE  /\ Tail(s) \in Seq(T)
           /\ Len(s) \in Nat /\ Len(s) >= 1
           /\ Len(Tail(s)) = Len(s) - 1
           /\ Head(s) = s[1] /\ Head(s) \in T
           /\ DOMAIN s = 1 .. Len(s) /\ DOMAIN Tail(s) = 1 .. Len(s) - 1
           /\ \A i \in 1 .. Len(s) - 1 : i + 1 \in 1 .. Len(s) /\ Tail(s)[i] = s[i + 1]
    OBVIOUS

\* One more in front.
LEMMA FrontFacts ==
    ASSUME NEW T, NEW s \in Seq(T), NEW x \in T
    PROVE  /\ <<x>> \o s \in Seq(T)
           /\ Len(s) \in Nat /\ Len(<<x>> \o s) = Len(s) + 1
           /\ DOMAIN s = 1 .. Len(s) /\ DOMAIN (<<x>> \o s) = 1 .. Len(s) + 1
           /\ (<<x>> \o s)[1] = x
           /\ \A i \in 1 .. Len(s) : (<<x>> \o s)[i + 1] = s[i]
    OBVIOUS

-----------------------------------------------------------------------------
(* A slab and the blocks in use.                                            *)

\* slab_create: every block is free.
LEMMA NewSlabAccounts ==
    ASSUME NEW c \in Class
    PROVE  /\ NewSlab(c) \in SlabRecord /\ NewSlab(c).class = c
           /\ Accounts(NewSlab(c), {}) /\ NewSlab(c).free # <<>>
<1> DEFINE n == Blocks[c]
           f == [i \in 1 .. n |-> n + 1 - i]
<1>1. n \in Nat /\ n >= 1
    BY ConstantFacts
<1> HIDE DEF n
<1>2. f \in Seq(1 .. n) /\ f \in Seq(Nat) /\ Len(f) = n /\ DOMAIN f = 1 .. n /\ f # <<>>
    BY <1>1
<1>3. \A i, j \in DOMAIN f : f[i] = f[j] => i = j
    BY <1>1
<1>4. {f[i] : i \in DOMAIN f} = 1 .. n
    <2>1. ASSUME NEW x \in 1 .. n PROVE x \in {f[i] : i \in DOMAIN f}
        <3>1. n + 1 - x \in 1 .. n /\ n + 1 - (n + 1 - x) = x
            BY <1>1
        <3>2. f[n + 1 - x] = x
            BY <3>1
        <3> QED
            BY <1>2, <3>1, <3>2
    <2>2. \A i \in DOMAIN f : f[i] \in 1 .. n
        BY <1>1
    <2> QED
        BY <2>1, <2>2
<1>5. NewSlab(c) = [class |-> c, free |-> f, bitmap |-> {}, used |-> 0]
    BY DEF NewSlab, n
<1> HIDE DEF f
<1>6. NewSlab(c) \in SlabRecord
    BY <1>2, <1>5 DEF SlabRecord
<1>7. IsFiniteSet({}) /\ Cardinality({}) = 0
    BY FS_EmptySet
<1>8. /\ NewSlab(c).class = c /\ NewSlab(c).free = f
      /\ NewSlab(c).bitmap = {} /\ NewSlab(c).used = 0
    BY <1>5
<1>9. Accounts(NewSlab(c), {})
    <2> DEFINE t == NewSlab(c)
    <2>1. (1 .. n) \ {} = 1 .. n /\ n + 0 = n
        BY <1>1
    <2>2. t.free = f /\ t.bitmap = {} /\ t.used = 0 /\ Blocks[t.class] = n
        BY <1>8 DEF n
    <2> HIDE DEF t
    <2>3. Accounts(t, {})
        BY <1>2, <1>3, <1>4, <1>7, <2>1, <2>2 DEF Accounts
    <2> QED
        BY <2>3 DEF t
<1> QED
    BY <1>2, <1>6, <1>8, <1>9

\* slab_alloc_block takes a block that nobody has.
LEMMA TakenAccounts ==
    ASSUME NEW s \in SlabRecord, NEW L, Accounts(s, L), s.free # <<>>
    PROVE  /\ Taken(s) \in SlabRecord /\ Taken(s).class = s.class
           /\ Head(s.free) \in Nat /\ Head(s.free) # 0 /\ Head(s.free) \notin L
           /\ Accounts(Taken(s), L \cup {Head(s.free)})
<1> DEFINE n == Blocks[s.class]
           f == s.free
           h == Head(f)
           t == Taken(s)
<1>1. s.class \in Class /\ n \in Nat /\ f \in Seq(1 .. n) /\ f # <<>> /\ s.bitmap = L
    BY ConstantFacts DEF SlabRecord, Accounts
<1>2. t.class = s.class /\ t.free = Tail(f) /\ t.bitmap = L \cup {h} /\ t.used = s.used + 1
    BY <1>1 DEF Taken, SlabRecord
<1>3. /\ {f[i] : i \in DOMAIN f} = (1 .. n) \ L
      /\ \A i, j \in DOMAIN f : f[i] = f[j] => i = j
      /\ L \subseteq 1 .. n /\ IsFiniteSet(L) /\ s.used = Cardinality(L)
      /\ Len(f) + s.used = n
    BY DEF Accounts
<1>4. s.used \in Nat
    BY DEF SlabRecord
<1> HIDE DEF t, n, f
<1>5. /\ Tail(f) \in Seq(1 .. n)
      /\ Len(f) \in Nat /\ Len(f) >= 1
      /\ Len(Tail(f)) = Len(f) - 1
      /\ h = f[1] /\ h \in 1 .. n
      /\ DOMAIN f = 1 .. Len(f) /\ DOMAIN Tail(f) = 1 .. Len(f) - 1
      /\ \A i \in 1 .. Len(f) - 1 : i + 1 \in 1 .. Len(f) /\ Tail(f)[i] = f[i + 1]
    BY <1>1, TailFacts
<1> HIDE DEF h
<1>6. h \in Nat /\ h # 0 /\ h \notin L
    BY <1>1, <1>3, <1>5
<1>7. IsFiniteSet(L \cup {h}) /\ Cardinality(L \cup {h}) = s.used + 1
    BY <1>3, <1>6, FS_AddElement
<1>8. \A i, j \in DOMAIN Tail(f) : Tail(f)[i] = Tail(f)[j] => i = j
    BY <1>3, <1>5
<1>9. {Tail(f)[i] : i \in DOMAIN Tail(f)} = (1 .. n) \ (L \cup {h})
    <2>1. ASSUME NEW i \in DOMAIN Tail(f) PROVE Tail(f)[i] \in (1 .. n) \ (L \cup {h})
        <3>1. i + 1 \in DOMAIN f /\ 1 \in DOMAIN f /\ Tail(f)[i] = f[i + 1] /\ i + 1 # 1
            BY <1>5
        <3>2. f[i + 1] \in (1 .. n) \ L /\ f[i + 1] # f[1]
            BY <1>3, <3>1
        <3> QED
            BY <1>5, <3>1, <3>2
    <2>2. ASSUME NEW x \in (1 .. n) \ (L \cup {h})
          PROVE  x \in {Tail(f)[i] : i \in DOMAIN Tail(f)}
        <3>1. PICK j \in DOMAIN f : f[j] = x
            BY <1>3
        <3>2. j # 1 /\ j \in 1 .. Len(f)
            BY <1>5, <3>1
        <3>3. j - 1 \in 1 .. Len(f) - 1 /\ (j - 1) + 1 = j
            BY <1>5, <3>2
        <3>4. j - 1 \in DOMAIN Tail(f) /\ Tail(f)[j - 1] = x
            BY <1>5, <3>1, <3>3
        <3> QED
            BY <3>4
    <2> QED
        BY <2>1, <2>2
<1>10. t \in SlabRecord
    <2>1. Tail(f) \in Seq(Nat)
        BY <1>1, <1>5
    <2>2. s.bitmap \cup {h} \in SUBSET Nat /\ s.used + 1 \in Nat
        BY <1>4, <1>6 DEF SlabRecord
    <2> QED
        BY <2>1, <2>2 DEF SlabRecord, Taken, t, f, h
<1>11. Accounts(t, L \cup {h})
    <2>1. L \cup {h} \subseteq 1 .. n
        BY <1>3, <1>5
    <2>2. Len(Tail(f)) + (s.used + 1) = n
        BY <1>1, <1>3, <1>4, <1>5
    <2> QED
        BY <1>2, <1>5, <1>7, <1>8, <1>9, <2>1, <2>2 DEF Accounts, n
<1> QED
    BY <1>2, <1>6, <1>10, <1>11 DEF t, h, f

\* The slab after pool_free_small of the block i.
GivenBack(s, i) ==
    [s EXCEPT !.bitmap = @ \ {i}, !.used = @ - 1, !.free = <<i>> \o @]

\* pool_free_small puts the block in front of the free list.
LEMMA GivenBackAccounts ==
    ASSUME NEW s \in SlabRecord, NEW L, Accounts(s, L), NEW i, Valid(s, i)
    PROVE  /\ GivenBack(s, i) \in SlabRecord /\ GivenBack(s, i).class = s.class
           /\ Accounts(GivenBack(s, i), L \ {i})
<1> DEFINE n == Blocks[s.class]
           f == s.free
           g == <<i>> \o f
           t == GivenBack(s, i)
<1>1. s.class \in Class /\ n \in Nat /\ f \in Seq(1 .. n) /\ s.bitmap = L
    BY ConstantFacts DEF SlabRecord, Accounts
<1>2. t.class = s.class /\ t.free = g /\ t.bitmap = L \ {i} /\ t.used = s.used - 1
    BY <1>1 DEF GivenBack, SlabRecord
<1>3. /\ {f[j] : j \in DOMAIN f} = (1 .. n) \ L
      /\ \A j, k \in DOMAIN f : f[j] = f[k] => j = k
      /\ L \subseteq 1 .. n /\ IsFiniteSet(L) /\ s.used = Cardinality(L)
      /\ Len(f) + s.used = n
    BY DEF Accounts
<1>4. s.used \in Nat /\ s.used # 0 /\ i \in L /\ i \in 1 .. n
    BY <1>1, <1>3 DEF SlabRecord, Valid
<1> HIDE DEF t, n, f
<1>5. /\ g \in Seq(1 .. n)
      /\ Len(f) \in Nat /\ Len(g) = Len(f) + 1
      /\ DOMAIN f = 1 .. Len(f) /\ DOMAIN g = 1 .. Len(f) + 1
      /\ g[1] = i
      /\ \A j \in 1 .. Len(f) : g[j + 1] = f[j]
    BY <1>1, <1>4, FrontFacts
<1> HIDE DEF g
<1>6. IsFiniteSet(L \ {i}) /\ Cardinality(L \ {i}) = s.used - 1
    BY <1>3, <1>4, FS_RemoveElement
<1>7. \A j \in DOMAIN g : j # 1 => /\ j - 1 \in DOMAIN f /\ g[j] = f[j - 1]
                                   /\ g[j] \in (1 .. n) \ L
    <2>1. \A j \in DOMAIN g : j # 1 => j - 1 \in 1 .. Len(f) /\ (j - 1) + 1 = j
        BY <1>5
    <2>2. \A j \in DOMAIN g : j # 1 => j - 1 \in DOMAIN f /\ g[j] = f[j - 1]
        BY <1>5, <2>1
    <2> QED
        BY <1>3, <2>2
<1>8. \A j, k \in DOMAIN g : g[j] = g[k] => j = k
    <2> SUFFICES ASSUME NEW j \in DOMAIN g, NEW k \in DOMAIN g, g[j] = g[k] PROVE j = k
        OBVIOUS
    <2>1. j \in Nat /\ k \in Nat
        BY <1>5
    <2>2. CASE j = 1
        BY <1>4, <1>5, <1>7, <2>2
    <2>3. CASE k = 1
        BY <1>4, <1>5, <1>7, <2>3
    <2>4. CASE j # 1 /\ k # 1
        <3>1. j - 1 = k - 1
            BY <1>3, <1>7, <2>4
        <3> QED
            BY <2>1, <3>1
    <2> QED
        BY <2>2, <2>3, <2>4
<1>9. {g[j] : j \in DOMAIN g} = (1 .. n) \ (L \ {i})
    <2>1. ASSUME NEW j \in DOMAIN g PROVE g[j] \in (1 .. n) \ (L \ {i})
        BY <1>4, <1>5, <1>7
    <2>2. ASSUME NEW x \in (1 .. n) \ (L \ {i}) PROVE x \in {g[j] : j \in DOMAIN g}
        <3>1. CASE x = i
            <4>1. 1 \in DOMAIN g
                BY <1>5
            <4> QED
                BY <1>5, <3>1, <4>1
        <3>2. CASE x # i
            <4>1. PICK j \in DOMAIN f : f[j] = x
                BY <1>3, <3>2
            <4>2. j + 1 \in DOMAIN g /\ g[j + 1] = x
                BY <1>5, <4>1
            <4> QED
                BY <4>2
        <3> QED
            BY <3>1, <3>2
    <2> QED
        BY <2>1, <2>2
<1>10. t \in SlabRecord
    <2>1. g \in Seq(Nat)
        BY <1>1, <1>5
    <2>2. s.bitmap \ {i} \in SUBSET Nat /\ s.used - 1 \in Nat
        BY <1>4 DEF SlabRecord
    <2> QED
        BY <2>1, <2>2 DEF SlabRecord, GivenBack, t, f, g
<1>11. Accounts(t, L \ {i})
    <2>1. L \ {i} \subseteq 1 .. n
        BY <1>3
    <2>2. Len(g) + (s.used - 1) = n
        BY <1>1, <1>3, <1>4, <1>5
    <2> QED
        BY <1>2, <1>5, <1>6, <1>8, <1>9, <2>1, <2>2 DEF Accounts, n
<1> QED
    BY <1>2, <1>10, <1>11 DEF t

-----------------------------------------------------------------------------
(* The initial state and the start.                                         *)

\* Before kvs_allocator_init nothing is mapped.
LEMMA InitHolds ==
    ASSUME Init PROVE PoolInv
<1>1. slab = <<>> /\ large = <<>> /\ DOMAIN slab = {} /\ DOMAIN large = {} /\ live = {}
    BY DEF Init
<1>2. IsFiniteSet({}) /\ Cardinality({}) = 0
    BY FS_EmptySet
<1>3. Types
    <2>1. slab \in [DOMAIN slab -> SlabRecord] /\ large \in [DOMAIN large -> LinkRecord]
        BY <1>1
    <2>2. pools \in [Class -> Seq(Region)]
        BY DEF Init
    <2>3. initialized \in BOOLEAN /\ aborted \in BOOLEAN /\ mapped \in SUBSET Region
        BY DEF Init
    <2>4. faults \in 0 .. MaxFaults
        BY ConstantFacts DEF Init
    <2>5. DOMAIN slab \subseteq Region /\ DOMAIN large \subseteq Region /\ live \in SUBSET Object
        BY <1>1
    <2> QED
        BY <2>1, <2>2, <2>3, <2>4, <2>5 DEF Types
<1>4. Slabs /\ Owners
    BY <1>1 DEF Slabs, Owners
<1>5. Lists
    BY <1>1 DEF Init, Lists
<1>6. Large
    <2>1. Chain(0, <<>>, large, head)
        BY <1>1 DEF Init, Chain
    <2> QED
        BY <2>1 DEF Large
<1>7. Mapped
    <2>1. Lost = {}
        BY DEF Init, Lost
    <2> QED
        BY <1>1, <1>2, <2>1 DEF Init, Mapped
<1> QED
    BY <1>3, <1>4, <1>5, <1>6, <1>7 DEF PoolInv

\* What a step that leaves the slabs, the large regions and the objects alone
\* preserves.
LEMMA SameObjects ==
    ASSUME PoolInv, UNCHANGED <<slab, large, head, live, pools>>
    PROVE  Slabs' /\ Owners' /\ Lists' /\ Large'
<1>1. \A r : LiveIn(r)' = LiveIn(r)
    BY DEF LiveIn
<1>2. Slabs'
    BY <1>1 DEF PoolInv, Slabs
<1>3. Owners'
    BY DEF PoolInv, Owners, Placed
<1>4. Lists'
    BY DEF PoolInv, Lists
<1>5. Large'
    BY DEF PoolInv, Large
<1> QED
    BY <1>2, <1>3, <1>4, <1>5

\* kvs_allocator_init finds the pools empty, also after a destroy.
LEMMA StartHolds ==
    ASSUME PoolInv, Start PROVE PoolInv'
<1>1. DOMAIN slab = {} /\ DOMAIN large = {}
    BY DEF PoolInv, Mapped, Start
<1>2. pools' = pools
    <2>1. \A c \in Class : DOMAIN pools[c] = {}
        BY <1>1 DEF PoolInv, Lists
    <2>2. \A c \in Class : pools[c] = <<>>
        BY <2>1 DEF PoolInv, Types
    <2>3. pools = [c \in Class |-> <<>>]
        BY <2>2 DEF PoolInv, Types
    <2> QED
        BY <2>3 DEF Start
<1>3. Slabs' /\ Owners' /\ Lists' /\ Large'
    BY <1>2, SameObjects DEF Start
<1>4. Types'
    BY <1>2 DEF PoolInv, Types, Start
<1>5. Mapped'
    BY <1>1 DEF PoolInv, Mapped, Lost, Start
<1> QED
    BY <1>3, <1>4, <1>5 DEF PoolInv

\* region_memory_alloc fails: at most the mapping is lost, for two failures.
LEMMA RegionFailsHolds ==
    ASSUME PoolInv, Running, RegionFails PROVE PoolInv'
<1>1. Slabs' /\ Owners' /\ Lists' /\ Large'
    BY SameObjects DEF RegionFails
<1>2. faults \in 0 .. MaxFaults /\ MaxFaults \in Nat /\ mapped \in SUBSET Region
    BY ConstantFacts DEF PoolInv, Types
<1>3. CASE Fault(1) /\ UNCHANGED mapped
    <2>1. faults' \in 0 .. MaxFaults /\ faults' >= faults
        BY <1>2, <1>3 DEF Fault
    <2>2. Types'
        BY <1>3, <2>1 DEF PoolInv, Types, RegionFails
    <2>3. Lost' = Lost /\ IsFiniteSet(Lost) /\ Cardinality(Lost) \in Nat
        <3>1. IsFiniteSet(Lost)
            BY <1>2, ConstantFacts, FS_Subset DEF Lost
        <3>2. Cardinality(Lost) \in Nat
            BY <3>1, FS_CardinalityType
        <3> QED
            BY <1>3, <3>1, <3>2 DEF Lost, RegionFails
    <2>4. 2 * Cardinality(Lost) <= faults'
        BY <1>2, <2>1, <2>3 DEF PoolInv, Mapped
    <2>5. Mapped'
        BY <1>3, <2>3, <2>4 DEF PoolInv, Mapped, RegionFails
    <2> QED
        BY <1>1, <2>2, <2>5 DEF PoolInv
<1>4. CASE Fault(2) /\ Region \ mapped # {} /\ mapped' = mapped \cup {NewRegion}
    <2>1. faults' \in 0 .. MaxFaults /\ faults' = faults + 2
        BY <1>2, <1>4 DEF Fault
    <2>2. NewRegion \in Region /\ NewRegion \notin mapped
        BY <1>4, NewRegionFacts DEF PoolInv
    <2>3. Types'
        BY <1>4, <2>1, <2>2 DEF PoolInv, Types, RegionFails
    <2>4. /\ IsFiniteSet(Lost) /\ Cardinality(Lost) \in Nat
          /\ Lost' = Lost \cup {NewRegion} /\ NewRegion \notin Lost
        <3>1. IsFiniteSet(Lost)
            BY <1>2, ConstantFacts, FS_Subset DEF Lost
        <3>2. Cardinality(Lost) \in Nat
            BY <3>1, FS_CardinalityType
        <3>3. Lost' = Lost \cup {NewRegion} /\ NewRegion \notin Lost
            BY <1>4, <2>2 DEF Lost, RegionFails, PoolInv, Mapped
        <3> QED
            BY <3>1, <3>2, <3>3
    <2>5. Cardinality(Lost') = Cardinality(Lost) + 1
        BY <2>4, FS_AddElement
    <2>6. 2 * Cardinality(Lost') <= faults'
        BY <1>2, <2>1, <2>4, <2>5 DEF PoolInv, Mapped
    <2>7. Mapped'
        BY <1>4, <2>6 DEF PoolInv, Mapped, RegionFails, Running
    <2> QED
        BY <1>1, <2>3, <2>7 DEF PoolInv
<1> QED
    BY <1>3, <1>4 DEF RegionFails

-----------------------------------------------------------------------------
(* Allocation.                                                              *)

\* The blocks in use after one more object.
LEMMA LiveAdded ==
    ASSUME NEW r, NEW b, NEW z, live' = live \cup {[region |-> r, block |-> b, size |-> z]}
    PROVE  /\ LiveIn(r)' = LiveIn(r) \cup {b}
           /\ \A q : q # r => LiveIn(q)' = LiveIn(q)
<1> DEFINE o == [region |-> r, block |-> b, size |-> z]
<1>1. o.region = r /\ o.block = b
    OBVIOUS
<1> HIDE DEF o
<1>2. live' = live \cup {o}
    BY DEF o
<1>3. LiveIn(r)' = LiveIn(r) \cup {b}
    BY <1>1, <1>2 DEF LiveIn
<1>4. ASSUME NEW q, q # r PROVE LiveIn(q)' = LiveIn(q)
    BY <1>1, <1>2, <1>4 DEF LiveIn
<1> QED
    BY <1>3, <1>4

\* One more object at a place nobody has.
LEMMA OwnersAdded ==
    ASSUME PoolInv, NEW r \in Region, NEW b \in Nat, NEW z \in Nat,
           live' = live \cup {[region |-> r, block |-> b, size |-> z]},
           b \notin LiveIn(r),
           \A p \in live : Placed(p)',
           Placed([region |-> r, block |-> b, size |-> z])',
           \A q \in DOMAIN large' : q \in DOMAIN large \/ (q = r /\ b = 0)
    PROVE  Owners' /\ (live \in SUBSET Object)'
<1> DEFINE o == [region |-> r, block |-> b, size |-> z]
<1>1. o.region = r /\ o.block = b /\ o \in Object
    BY DEF Object
<1>2. Placed(o)'
    OBVIOUS
<1> HIDE DEF o
<1>3. live' = live \cup {o}
    BY DEF o
<1>4. \A p \in live' : Placed(p)'
    BY <1>2, <1>3
<1>5. \A p \in live : ~(p.region = r /\ p.block = b)
    BY DEF LiveIn
<1>6. \A p, q \in live' : p.region = q.region /\ p.block = q.block => p = q
    BY <1>1, <1>3, <1>5 DEF PoolInv, Owners
<1>7. \A q \in DOMAIN large' : \E p \in live' : p.region = q /\ p.block = 0
    BY <1>1, <1>3 DEF PoolInv, Owners
<1>8. Owners'
    BY <1>4, <1>6, <1>7 DEF Owners
<1> QED
    BY <1>1, <1>3, <1>8 DEF PoolInv, Types

\* The lists stay right while no slab comes, goes or changes its class.
LEMMA SameLists ==
    ASSUME PoolInv, UNCHANGED pools, DOMAIN slab' = DOMAIN slab,
           \A q \in DOMAIN slab : slab'[q].class = slab[q].class
    PROVE  Lists'
<1>1. ASSUME NEW c \in Class, NEW i \in DOMAIN pools[c]
      PROVE  pools[c][i] \in DOMAIN slab' /\ slab'[pools[c][i]].class = c
    BY DEF PoolInv, Lists
<1>2. \A c \in Class : \A i, j \in DOMAIN pools[c] : pools[c][i] = pools[c][j] => i = j
    BY DEF PoolInv, Lists
<1>3. ASSUME NEW r \in DOMAIN slab
      PROVE  \E i \in DOMAIN pools[slab'[r].class] : pools[slab'[r].class][i] = r
    BY DEF PoolInv, Lists
<1> QED
    BY <1>1, <1>2, <1>3 DEF Lists

\* pool_alloc_small gives out a block of the first slab that has one.
LEMMA AllocSmallHolds ==
    ASSUME PoolInv, NEW size \in Sizes, AllocSmall(size) PROVE PoolInv'
<1> DEFINE c == FindSizeClass(size)
<1> PICK r : r = pools[c][CHOOSE i \in Usable(c) : \A j \in Usable(c) : i <= j]
    OBVIOUS
<1> PICK b : b = Head(slab[r].free)
    OBVIOUS
<1>1. Fitting(size) # {} /\ Usable(c) # {}
    BY DEF AllocSmall
<1>2. /\ c \in Class /\ size \in Nat /\ size <= BlockSize[c]
      /\ \A d \in 1 .. c - 1 : size > BlockSize[d]
    BY <1>1, SizeClass
<1>3. /\ slab' = [slab EXCEPT ![r] = Taken(slab[r])]
      /\ live' = live \cup {[region |-> r, block |-> b, size |-> size]}
      /\ UNCHANGED <<initialized, aborted, mapped, pools, large, head, faults>>
    BY DEF AllocSmall
<1>4. r \in DOMAIN slab /\ slab[r].class = c /\ slab[r].free # <<>>
    BY <1>1, <1>2, UsableFacts
<1> HIDE DEF c
<1>5. slab[r] \in SlabRecord /\ Accounts(slab[r], LiveIn(r)) /\ r \in Region
    BY <1>4 DEF PoolInv, Types, Slabs
<1>6. /\ Taken(slab[r]) \in SlabRecord /\ Taken(slab[r]).class = c
      /\ b \in Nat /\ b # 0 /\ b \notin LiveIn(r)
      /\ Accounts(Taken(slab[r]), LiveIn(r) \cup {b})
    BY <1>4, <1>5, TakenAccounts
<1>7. /\ DOMAIN slab' = DOMAIN slab /\ slab'[r] = Taken(slab[r])
      /\ \A q \in DOMAIN slab : q # r => slab'[q] = slab[q]
      /\ \A q \in DOMAIN slab : slab'[q].class = slab[q].class
      /\ \A q \in DOMAIN slab : slab'[q] \in SlabRecord
    BY <1>3, <1>4, <1>6 DEF PoolInv, Types
<1>8. slab' \in [DOMAIN slab' -> SlabRecord]
    BY <1>3, <1>6 DEF PoolInv, Types
<1>9. Slabs'
    <2>1. LiveIn(r)' = LiveIn(r) \cup {b} /\ \A q : q # r => LiveIn(q)' = LiveIn(q)
        BY <1>3, LiveAdded
    <2> SUFFICES ASSUME NEW q \in DOMAIN slab PROVE Accounts(slab'[q], LiveIn(q)')
        BY <1>7 DEF Slabs
    <2>2. CASE q = r
        BY <1>6, <1>7, <2>1, <2>2
    <2>3. CASE q # r
        BY <1>7, <2>1, <2>3 DEF PoolInv, Slabs
    <2> QED
        BY <2>2, <2>3
<1>10. Owners' /\ (live \in SUBSET Object)'
    <2>1. \A p \in live : Placed(p)'
        BY <1>3, <1>7 DEF PoolInv, Owners, Placed
    <2>2. Placed([region |-> r, block |-> b, size |-> size])'
        BY <1>2, <1>4, <1>6, <1>7 DEF Placed
    <2> QED
        BY <1>2, <1>3, <1>5, <1>6, <2>1, <2>2, OwnersAdded
<1>11. Lists'
    BY <1>3, <1>7, SameLists
<1>12. Large'
    BY <1>3 DEF PoolInv, Large
<1>13. Mapped'
    BY <1>3, <1>7 DEF PoolInv, Mapped, Lost
<1>14. Types'
    BY <1>3, <1>7, <1>8, <1>10 DEF PoolInv, Types
<1> QED
    BY <1>9, <1>10, <1>11, <1>12, <1>13, <1>14 DEF PoolInv

\* With adds one entry.
LEMMA WithFacts ==
    ASSUME NEW f, NEW x, NEW v
    PROVE  /\ DOMAIN With(f, x, v) = DOMAIN f \cup {x}
           /\ With(f, x, v)[x] = v
           /\ \A y \in DOMAIN f : y # x => With(f, x, v)[y] = f[y]
           /\ \A T : f \in [DOMAIN f -> T] /\ v \in T => With(f, x, v) \in [DOMAIN f \cup {x} -> T]
    BY DEF With

\* A region that is not mapped belongs to nobody.
LEMMA NewRegionFree ==
    ASSUME PoolInv, Region \ mapped # {}
    PROVE  /\ NewRegion \in Region /\ NewRegion \notin mapped
           /\ NewRegion \notin DOMAIN slab /\ NewRegion \notin DOMAIN large
           /\ LiveIn(NewRegion) = {}
<1>1. NewRegion \in Region /\ NewRegion \notin mapped
    BY NewRegionFacts DEF PoolInv
<1>2. NewRegion \notin DOMAIN slab /\ NewRegion \notin DOMAIN large
    BY <1>1 DEF PoolInv, Mapped
<1>3. \A p \in live : p.region \in DOMAIN slab \/ p.region \in DOMAIN large
    BY DEF PoolInv, Owners, Placed
<1>4. LiveIn(NewRegion) = {}
    BY <1>2, <1>3 DEF LiveIn
<1> QED
    BY <1>1, <1>2, <1>4

\* pool_alloc_small puts a new slab in front of the list of its class.
LEMMA AllocSlabHolds ==
    ASSUME PoolInv, NEW size \in Sizes, AllocSlab(size) PROVE PoolInv'
<1> DEFINE c == FindSizeClass(size)
           s == NewSlab(c)
           b == Head(s.free)
<1> PICK r : r = NewRegion
    OBVIOUS
<1>1. CASE RegionFails
    BY <1>1, RegionFailsHolds DEF AllocSlab
<1>2. CASE ~RegionFails
    <2>1. /\ Fitting(size) # {} /\ Region \ mapped # {} /\ Running
          /\ mapped' = mapped \cup {r}
          /\ slab' = With(slab, r, Taken(s))
          /\ pools' = [pools EXCEPT ![c] = <<r>> \o pools[c]]
          /\ live' = live \cup {[region |-> r, block |-> b, size |-> size]}
          /\ UNCHANGED <<initialized, aborted, large, head, faults>>
        BY <1>2 DEF AllocSlab
    <2>2. /\ c \in Class /\ size \in Nat /\ size <= BlockSize[c]
          /\ \A d \in 1 .. c - 1 : size > BlockSize[d]
        BY <2>1, SizeClass
    <2>3. /\ r \in Region /\ r \notin mapped /\ LiveIn(r) = {}
          /\ r \notin DOMAIN slab /\ r \notin DOMAIN large
        BY <2>1, NewRegionFree
    <2>4. s \in SlabRecord /\ s.class = c /\ Accounts(s, {}) /\ s.free # <<>>
        BY <2>2, NewSlabAccounts
    <2> HIDE DEF c, s
    <2>5. /\ Taken(s) \in SlabRecord /\ Taken(s).class = c
          /\ b \in Nat /\ b # 0 /\ Accounts(Taken(s), {} \cup {b})
        BY <2>4, TakenAccounts
    <2> HIDE DEF b
    <2>6. /\ DOMAIN slab' = DOMAIN slab \cup {r} /\ slab'[r] = Taken(s)
          /\ \A q \in DOMAIN slab : q # r => slab'[q] = slab[q]
          /\ slab' \in [DOMAIN slab' -> SlabRecord]
        <3>1. slab \in [DOMAIN slab -> SlabRecord]
            BY DEF PoolInv, Types
        <3>2. slab' = With(slab, r, Taken(s)) /\ Taken(s) \in SlabRecord
            BY <2>1, <2>5
        <3>3. /\ DOMAIN slab' = DOMAIN slab \cup {r} /\ slab'[r] = Taken(s)
              /\ \A q \in DOMAIN slab : q # r => slab'[q] = slab[q]
            BY <3>2 DEF With
        <3>4. slab' \in [DOMAIN slab \cup {r} -> SlabRecord]
            BY <3>1, <3>2, WithFacts
        <3> QED
            BY <3>3, <3>4
    <2>7. \A q \in DOMAIN slab : slab'[q] = slab[q]
        BY <2>3, <2>6
    <2>8. Slabs'
        <3>1. LiveIn(r)' = LiveIn(r) \cup {b} /\ \A q : q # r => LiveIn(q)' = LiveIn(q)
            BY <2>1, LiveAdded
        <3> SUFFICES ASSUME NEW q \in DOMAIN slab \cup {r} PROVE Accounts(slab'[q], LiveIn(q)')
            BY <2>6 DEF Slabs
        <3>2. CASE q = r
            BY <2>3, <2>5, <2>6, <3>1, <3>2
        <3>3. CASE q # r
            BY <2>7, <3>1, <3>3 DEF PoolInv, Slabs
        <3> QED
            BY <3>2, <3>3
    <2>9. Owners' /\ (live \in SUBSET Object)'
        <3>1. \A p \in live : Placed(p)'
            BY <2>1, <2>6, <2>7 DEF PoolInv, Owners, Placed
        <3>2. Placed([region |-> r, block |-> b, size |-> size])'
            BY <2>2, <2>5, <2>6 DEF Placed
        <3> QED
            BY <2>1, <2>2, <2>3, <2>5, <3>1, <3>2, OwnersAdded
    <2>10. /\ pools' \in [Class -> Seq(Region)]
           /\ \A d \in Class : d # c => pools'[d] = pools[d]
           /\ pools'[c] = <<r>> \o pools[c] /\ pools[c] \in Seq(Region)
        <3>1. pools[c] \in Seq(Region) /\ pools \in [Class -> Seq(Region)]
            BY <2>2 DEF PoolInv, Types
        <3>2. <<r>> \o pools[c] \in Seq(Region)
            BY <2>3, <3>1, FrontFacts
        <3> QED
            BY <2>1, <2>2, <3>1, <3>2
    <2>11. /\ Len(pools[c]) \in Nat /\ DOMAIN pools[c] = 1 .. Len(pools[c])
           /\ DOMAIN pools'[c] = 1 .. Len(pools[c]) + 1
           /\ pools'[c][1] = r
           /\ \A i \in 1 .. Len(pools[c]) : pools'[c][i + 1] = pools[c][i]
        BY <2>3, <2>10, FrontFacts
    <2>12. \A i \in DOMAIN pools'[c] :
               i # 1 => /\ i - 1 \in DOMAIN pools[c] /\ pools'[c][i] = pools[c][i - 1]
                        /\ pools'[c][i] \in DOMAIN slab /\ slab[pools'[c][i]].class = c
        <3>1. \A i \in 1 .. Len(pools[c]) + 1 : i # 1 => i - 1 \in 1 .. Len(pools[c]) /\ (i - 1) + 1 = i
            BY <2>11
        <3>2. \A i \in DOMAIN pools'[c] : i # 1 => i - 1 \in DOMAIN pools[c] /\ pools'[c][i] = pools[c][i - 1]
            BY <2>11, <3>1
        <3> QED
            BY <2>2, <3>2 DEF PoolInv, Lists
    <2>13. Lists'
        <3>1. ASSUME NEW d \in Class, NEW i \in DOMAIN pools'[d]
              PROVE  pools'[d][i] \in DOMAIN slab' /\ slab'[pools'[d][i]].class = d
            <4>1. CASE d = c /\ i = 1
                BY <2>5, <2>6, <2>11, <4>1
            <4>2. CASE d = c /\ i # 1
                BY <2>6, <2>7, <2>12, <4>2
            <4>3. CASE d # c
                <5>1. pools'[d] = pools[d]
                    BY <2>10, <4>3
                <5>2. pools[d][i] \in DOMAIN slab /\ slab[pools[d][i]].class = d
                    BY <5>1 DEF PoolInv, Lists
                <5> QED
                    BY <2>6, <2>7, <5>1, <5>2
            <4> QED
                BY <4>1, <4>2, <4>3
        <3>2. ASSUME NEW d \in Class, NEW i \in DOMAIN pools'[d], NEW j \in DOMAIN pools'[d],
                     pools'[d][i] = pools'[d][j]
              PROVE  i = j
            <4>1. CASE d # c
                BY <2>10, <3>2, <4>1 DEF PoolInv, Lists
            <4>2. CASE d = c /\ (i = 1 \/ j = 1)
                BY <2>3, <2>11, <2>12, <3>2, <4>2
            <4>3. CASE d = c /\ i # 1 /\ j # 1
                <5>1. i - 1 = j - 1
                    BY <2>12, <3>2, <4>3 DEF PoolInv, Lists
                <5>2. i \in Nat /\ j \in Nat
                    BY <2>11, <4>3
                <5> QED
                    BY <5>1, <5>2
            <4> QED
                BY <4>1, <4>2, <4>3
        <3>3. ASSUME NEW q \in DOMAIN slab'
              PROVE  \E i \in DOMAIN pools'[slab'[q].class] : pools'[slab'[q].class][i] = q
            <4>1. CASE q = r
                <5>1. 1 \in DOMAIN pools'[c]
                    BY <2>11
                <5> QED
                    BY <2>5, <2>6, <2>11, <4>1, <5>1
            <4>2. CASE q # r
                <5>1. q \in DOMAIN slab /\ slab'[q] = slab[q]
                    BY <2>6, <4>2
                <5>2. PICK i \in DOMAIN pools[slab[q].class] : pools[slab[q].class][i] = q
                    BY <5>1 DEF PoolInv, Lists
                <5>3. slab[q].class \in Class
                    BY <5>1 DEF PoolInv, Types, SlabRecord
                <5>4. CASE slab[q].class # c
                    BY <2>10, <5>1, <5>2, <5>3, <5>4
                <5>5. CASE slab[q].class = c
                    <6>1. i + 1 \in DOMAIN pools'[c] /\ pools'[c][i + 1] = q
                        BY <2>11, <5>2, <5>5
                    <6> QED
                        BY <5>1, <5>5, <6>1
                <5> QED
                    BY <5>4, <5>5
            <4> QED
                BY <4>1, <4>2
        <3> QED
            BY <3>1, <3>2, <3>3 DEF Lists
    <2>14. Large'
        BY <2>1 DEF PoolInv, Large
    <2>15. Mapped'
        <3>1. Lost' = Lost
            BY <2>1, <2>3, <2>6 DEF Lost
        <3> QED
            BY <2>1, <2>3, <2>6, <3>1 DEF PoolInv, Mapped, Running
    <2>16. Types'
        BY <2>1, <2>3, <2>6, <2>9, <2>10 DEF PoolInv, Types
    <2> QED
        BY <2>8, <2>9, <2>13, <2>14, <2>15, <2>16 DEF PoolInv
<1> QED
    BY <1>1, <1>2

-----------------------------------------------------------------------------
(* The list of large regions.                                               *)

\* The members of the list are not Null.
LEMMA ChainMembers ==
    ASSUME NEW n \in Nat, NEW s, NEW l, NEW h, Chain(n, s, l, h), DOMAIN l \subseteq Region
    PROVE  /\ \A i \in 1 .. n : s[i] \in DOMAIN l /\ s[i] \in Region /\ s[i] # Null
           /\ h = Null <=> n = 0
           /\ DOMAIN l = {} <=> n = 0
<1>1. \A i \in 1 .. n : s[i] \in DOMAIN l
    BY DEF Chain
<1>2. \A i \in 1 .. n : s[i] \in Region /\ s[i] # Null
    BY <1>1, ConstantFacts
<1>3. n # 0 => 1 \in 1 .. n
    OBVIOUS
<1>4. h = IF n = 0 THEN Null ELSE s[1]
    BY DEF Chain
<1>5. n = 0 => 1 .. n = {}
    OBVIOUS
<1>6. \A r \in DOMAIN l : \E i \in 1 .. n : s[i] = r
    BY DEF Chain
<1> QED
    BY <1>1, <1>2, <1>3, <1>4, <1>5, <1>6

\* The links after r became the head of a list that began at h.
Pushed(l, h, r) ==
    With(IF h = Null THEN l ELSE [l EXCEPT ![h].prev = r],
         r, [prev |-> Null, next |-> h])

\* k differs from l in the links at the front only.
IsPushed(l, h, r, k) ==
    /\ k \in [DOMAIN l \cup {r} -> LinkRecord]
    /\ DOMAIN k = DOMAIN l \cup {r}
    /\ k[r].prev = Null /\ k[r].next = h
    /\ \A q \in DOMAIN l : /\ k[q].next = l[q].next
                           /\ k[q].prev = IF q = h THEN r ELSE l[q].prev

\* What pushing does to each link.
LEMMA PushedLinks ==
    ASSUME NEW l, NEW h, NEW r \in Region, l \in [DOMAIN l -> LinkRecord],
           r \notin DOMAIN l, h = Null \/ h \in DOMAIN l, DOMAIN l \subseteq Region
    PROVE  IsPushed(l, h, r, Pushed(l, h, r))
<1> DEFINE l1 == IF h = Null THEN l ELSE [l EXCEPT ![h].prev = r]
           v == [prev |-> Null, next |-> h]
<1>1. v \in LinkRecord /\ v.prev = Null /\ v.next = h
    BY DEF LinkRecord
<1>2. Null \notin DOMAIN l
    BY ConstantFacts
<1>3. /\ l1 \in [DOMAIN l -> LinkRecord] /\ DOMAIN l1 = DOMAIN l
      /\ \A q \in DOMAIN l : /\ l1[q].next = l[q].next
                             /\ l1[q].prev = IF q = h THEN r ELSE l[q].prev
    <2>1. CASE h = Null
        BY <1>2, <2>1
    <2>2. CASE h # Null
        <3>1. h \in DOMAIN l /\ l[h] \in LinkRecord
            BY <2>2
        <3>2. [l[h] EXCEPT !.prev = r] \in LinkRecord
            BY <3>1 DEF LinkRecord
        <3>3. l1 = [l EXCEPT ![h] = [l[h] EXCEPT !.prev = r]]
            BY <2>2
        <3>4. [l[h] EXCEPT !.prev = r].next = l[h].next /\ [l[h] EXCEPT !.prev = r].prev = r
            BY <3>1 DEF LinkRecord
        <3> DEFINE w == [l[h] EXCEPT !.prev = r]
        <3> HIDE DEF w, l1
        <3>5. l1 = [l EXCEPT ![h] = w] /\ w \in LinkRecord /\ w.next = l[h].next /\ w.prev = r
            BY <3>2, <3>3, <3>4 DEF w
        <3> QED
            BY <3>1, <3>5
    <2> QED
        BY <2>1, <2>2
<1>4. Pushed(l, h, r) = With(l1, r, v)
    BY DEF Pushed
<1> HIDE DEF l1, v
<1>5. Pushed(l, h, r) = [y \in DOMAIN l1 \cup {r} |-> IF y = r THEN v ELSE l1[y]]
    BY <1>4 DEF With
<1>6. /\ DOMAIN Pushed(l, h, r) = DOMAIN l \cup {r} /\ Pushed(l, h, r)[r] = v
      /\ \A q \in DOMAIN l : Pushed(l, h, r)[q] = l1[q]
    BY <1>3, <1>5
<1>7. Pushed(l, h, r) \in [DOMAIN l \cup {r} -> LinkRecord]
    BY <1>1, <1>3, <1>5
<1> QED
    BY <1>1, <1>3, <1>6, <1>7 DEF IsPushed

\* pool_alloc_large puts the region in front of the list.
LEMMA ChainPushed ==
    ASSUME NEW n \in Nat, NEW s, NEW l, NEW h, NEW r \in Region, Chain(n, s, l, h),
           l \in [DOMAIN l -> LinkRecord], r \notin DOMAIN l, DOMAIN l \subseteq Region
    PROVE  /\ \E t : Chain(n + 1, t, Pushed(l, h, r), r)
           /\ Pushed(l, h, r) \in [DOMAIN l \cup {r} -> LinkRecord]
<1> DEFINE m == n + 1
           t == [i \in 1 .. m |-> IF i = 1 THEN r ELSE s[i - 1]]
           k == Pushed(l, h, r)
<1>1. /\ \A i \in 1 .. n : s[i] \in DOMAIN l /\ s[i] \in Region /\ s[i] # Null
      /\ h = Null <=> n = 0
    BY ChainMembers
<1>2. /\ \A i, j \in 1 .. n : s[i] = s[j] => i = j
      /\ \A q \in DOMAIN l : \E i \in 1 .. n : s[i] = q
      /\ h = IF n = 0 THEN Null ELSE s[1]
      /\ \A i \in 1 .. n : /\ l[s[i]].prev = IF i = 1 THEN Null ELSE s[i - 1]
                           /\ l[s[i]].next = IF i = n THEN Null ELSE s[i + 1]
    BY DEF Chain
<1>3. n # 0 => 1 \in 1 .. n
    OBVIOUS
<1>4. h = Null \/ h \in DOMAIN l
    BY <1>1, <1>2, <1>3
<1>5. /\ k \in [DOMAIN l \cup {r} -> LinkRecord]
      /\ DOMAIN k = DOMAIN l \cup {r}
      /\ k[r].prev = Null /\ k[r].next = h
      /\ \A q \in DOMAIN l : /\ k[q].next = l[q].next
                             /\ k[q].prev = IF q = h THEN r ELSE l[q].prev
    <2>1. IsPushed(l, h, r, k)
        BY <1>4, PushedLinks
    <2> HIDE DEF k
    <2> QED
        BY <2>1 DEF IsPushed
<1> HIDE DEF k
<1>6. /\ m \in Nat /\ m # 0 /\ DOMAIN t = 1 .. m /\ t[1] = r /\ 1 \in 1 .. m
      /\ \A i \in 1 .. m : i # 1 => i - 1 \in 1 .. n /\ t[i] = s[i - 1]
      /\ \A i \in 1 .. n : i + 1 \in 1 .. m /\ t[i + 1] = s[i]
    OBVIOUS
<1>7. t \in [1 .. m -> DOMAIN k]
    <2>1. \A i \in 1 .. m : t[i] \in DOMAIN k
        BY <1>1, <1>5, <1>6
    <2> QED
        BY <2>1
<1> HIDE DEF t
<1>8. \A i, j \in 1 .. m : t[i] = t[j] => i = j
    <2> SUFFICES ASSUME NEW i \in 1 .. m, NEW j \in 1 .. m, t[i] = t[j] PROVE i = j
        OBVIOUS
    <2>1. CASE i = 1 \/ j = 1
        BY <1>1, <1>6, <2>1
    <2>2. CASE i # 1 /\ j # 1
        <3>1. i - 1 = j - 1
            BY <1>2, <1>6, <2>2
        <3> QED
            BY <3>1
    <2> QED
        BY <2>1, <2>2
<1>9. \A q \in DOMAIN k : \E i \in 1 .. m : t[i] = q
    BY <1>2, <1>5, <1>6
<1>10. ASSUME NEW i \in 1 .. m
       PROVE  /\ k[t[i]].prev = IF i = 1 THEN Null ELSE t[i - 1]
              /\ k[t[i]].next = IF i = m THEN Null ELSE t[i + 1]
    <2>1. CASE i = 1
        <3>1. k[t[i]].prev = Null /\ k[t[i]].next = h
            BY <1>5, <1>6, <2>1
        <3>2. i = m <=> n = 0
            BY <2>1
        <3>3. n # 0 => t[i + 1] = s[1]
            BY <1>3, <1>6, <2>1
        <3> QED
            BY <1>2, <2>1, <3>1, <3>2, <3>3
    <2>2. CASE i # 1
        <3> DEFINE j == i - 1
        <3>1. j \in 1 .. n /\ t[i] = s[j] /\ s[j] \in DOMAIN l /\ i = j + 1
            BY <1>1, <1>6, <2>2
        <3>2. /\ i = m <=> j = n
              /\ j # n => j + 1 \in 1 .. n /\ t[i + 1] = s[j + 1]
            BY <1>6, <3>1
        <3>3. k[t[i]].next = IF i = m THEN Null ELSE t[i + 1]
            BY <1>2, <1>5, <3>1, <3>2
        <3>4. s[j] = h <=> j = 1
            <4>1. n # 0 /\ 1 \in 1 .. n
                BY <3>1
            <4> QED
                BY <1>2, <3>1, <4>1
        <3>5. j # 1 => j - 1 \in 1 .. n /\ t[j] = s[j - 1] /\ j \in 1 .. m
            BY <1>6, <3>1
        <3>6. k[t[i]].prev = t[j]
            <4>1. CASE j = 1
                BY <1>5, <1>6, <3>1, <3>4, <4>1
            <4>2. CASE j # 1
                BY <1>2, <1>5, <3>1, <3>4, <3>5, <4>2
            <4> QED
                BY <4>1, <4>2
        <3> QED
            BY <2>2, <3>3, <3>6
    <2> QED
        BY <2>1, <2>2
<1>11. Chain(m, t, k, r)
    BY <1>6, <1>7, <1>8, <1>9, <1>10 DEF Chain
<1> QED
    BY <1>5, <1>11 DEF k

\* pool_alloc_large puts the object in a region of its own.
LEMMA AllocLargeHolds ==
    ASSUME PoolInv, NEW size \in Sizes, AllocLarge(size) PROVE PoolInv'
<1> PICK r : r = NewRegion
    OBVIOUS
<1>1. CASE RegionFails
    BY <1>1, RegionFailsHolds DEF AllocLarge
<1>2. CASE ~RegionFails
    <2>1. /\ Fitting(size) = {} /\ Region \ mapped # {} /\ Running
          /\ mapped' = mapped \cup {r}
          /\ large' = Linked(large, r) /\ head' = r
          /\ live' = live \cup {[region |-> r, block |-> 0, size |-> size]}
          /\ UNCHANGED <<initialized, aborted, pools, slab, faults>>
        BY <1>2 DEF AllocLarge
    <2>2. size \in Nat /\ \A c \in Class : size > BlockSize[c]
        <3>1. size \in Nat
            BY AllocatorAssumption
        <3>2. \A c \in Class : ~(size <= BlockSize[c]) /\ BlockSize[c] \in Nat
            BY <2>1, ConstantFacts DEF Fitting
        <3> QED
            BY <3>1, <3>2
    <2>3. /\ r \in Region /\ r \notin mapped /\ LiveIn(r) = {}
          /\ r \notin DOMAIN slab /\ r \notin DOMAIN large
        BY <2>1, NewRegionFree
    <2>4. large \in [DOMAIN large -> LinkRecord] /\ DOMAIN large \subseteq Region
        BY DEF PoolInv, Types
    <2>5. PICK n \in Nat : \E s : Chain(n, s, large, head)
        BY DEF PoolInv, Large
    <2>6. PICK s : Chain(n, s, large, head)
        BY <2>5
    <2>7. /\ \E t : Chain(n + 1, t, Pushed(large, head, r), r)
          /\ Pushed(large, head, r) \in [DOMAIN large \cup {r} -> LinkRecord]
        BY <2>3, <2>4, <2>6, ChainPushed
    <2>8. large' = Pushed(large, head, r)
        BY <2>1 DEF Linked, Pushed
    <2>9. large' \in [DOMAIN large \cup {r} -> LinkRecord] /\ DOMAIN large' = DOMAIN large \cup {r}
        BY <2>7, <2>8
    <2>10. Large'
        <3>1. n + 1 \in Nat
            OBVIOUS
        <3>2. \E t : Chain(n + 1, t, large', head')
            BY <2>1, <2>7, <2>8
        <3> QED
            BY <3>1, <3>2 DEF Large
    <2>11. Slabs'
        <3>1. \A q : q # r => LiveIn(q)' = LiveIn(q)
            BY <2>1, LiveAdded
        <3> QED
            BY <2>1, <2>3, <3>1 DEF PoolInv, Slabs
    <2>12. Owners' /\ (live \in SUBSET Object)'
        <3>1. \A p \in live : Placed(p)'
            BY <2>1, <2>9 DEF PoolInv, Owners, Placed
        <3>2. Placed([region |-> r, block |-> 0, size |-> size])'
            BY <2>2, <2>9 DEF Placed
        <3> QED
            BY <2>1, <2>2, <2>3, <2>9, <3>1, <3>2, OwnersAdded
    <2>13. Lists'
        BY <2>1, SameLists
    <2>14. Mapped'
        <3>1. Lost' = Lost
            BY <2>1, <2>3, <2>9 DEF Lost
        <3> QED
            BY <2>1, <2>3, <2>9, <3>1 DEF PoolInv, Mapped, Running
    <2>15. Types'
        BY <2>1, <2>3, <2>9, <2>12 DEF PoolInv, Types
    <2> QED
        BY <2>10, <2>11, <2>12, <2>13, <2>14, <2>15 DEF PoolInv
<1> QED
    BY <1>1, <1>2

-----------------------------------------------------------------------------
(* Release.                                                                 *)

\* A step that only aborts the process, or only counts a failure.
LEMMA AbortHolds ==
    ASSUME PoolInv, UNCHANGED <<initialized, mapped, pools, slab, large, head, live>>,
           aborted' \in BOOLEAN, faults' \in 0 .. MaxFaults, faults' >= faults
    PROVE  PoolInv'
<1>1. Slabs' /\ Owners' /\ Lists' /\ Large'
    BY SameObjects
<1>2. Types'
    BY DEF PoolInv, Types
<1>3. Lost' = Lost /\ Cardinality(Lost) \in Nat
    <2>1. IsFiniteSet(Lost)
        BY ConstantFacts, FS_Subset DEF Lost, PoolInv, Types
    <2> QED
        BY <2>1, FS_CardinalityType DEF Lost
<1>4. 2 * Cardinality(Lost) <= faults'
    <2>1. faults \in Nat /\ faults' \in Nat /\ 2 * Cardinality(Lost) <= faults
        BY ConstantFacts DEF PoolInv, Types, Mapped
    <2> QED
        BY <1>3, <2>1
<1>5. Mapped'
    BY <1>3, <1>4 DEF PoolInv, Mapped
<1> QED
    BY <1>1, <1>2, <1>5 DEF PoolInv

\* A step that changes nothing.
LEMMA UnchangedHolds ==
    ASSUME PoolInv, UNCHANGED vars PROVE PoolInv'
<1>1. UNCHANGED <<initialized, aborted, mapped, pools, slab, large, head, live, faults>>
    BY DEF vars
<1>2. aborted' \in BOOLEAN /\ faults' \in 0 .. MaxFaults /\ faults' >= faults
    BY <1>1, ConstantFacts DEF PoolInv, Types
<1> QED
    BY <1>1, <1>2, AbortHolds

\* pool_free_small takes back a block in use and aborts for any other.
LEMMA FreeSmallHolds ==
    ASSUME PoolInv, NEW r \in Region, NEW b \in Block, FreeSmall(r, b) PROVE PoolInv'
<1>1. CASE ~Valid(slab[r], b)
    <2>1. aborted' = TRUE /\ UNCHANGED <<initialized, mapped, pools, slab, large, head, live, faults>>
        BY <1>1 DEF FreeSmall
    <2>2. faults' \in 0 .. MaxFaults /\ faults' >= faults
        BY <2>1, ConstantFacts DEF PoolInv, Types
    <2> QED
        BY <2>1, <2>2, AbortHolds
<1>2. CASE Valid(slab[r], b)
    <2>1. /\ r \in DOMAIN slab /\ b \in 1 .. Blocks[slab[r].class]
          /\ slab' = [slab EXCEPT ![r].bitmap = @ \ {b}, ![r].used = @ - 1, ![r].free = <<b>> \o @]
          /\ live' = {p \in live : <<p.region, p.block>> # <<r, b>>}
          /\ UNCHANGED <<initialized, aborted, mapped, pools, large, head, faults>>
        BY <1>2 DEF FreeSmall
    <2>2. slab[r] \in SlabRecord /\ Accounts(slab[r], LiveIn(r))
        BY <2>1 DEF PoolInv, Types, Slabs
    <2>3. /\ GivenBack(slab[r], b) \in SlabRecord /\ GivenBack(slab[r], b).class = slab[r].class
          /\ Accounts(GivenBack(slab[r], b), LiveIn(r) \ {b})
        BY <1>2, <2>2, GivenBackAccounts
    <2>4. slab' = [slab EXCEPT ![r] = GivenBack(slab[r], b)]
        BY <2>1 DEF GivenBack
    <2>5. /\ DOMAIN slab' = DOMAIN slab /\ slab'[r] = GivenBack(slab[r], b)
          /\ \A q \in DOMAIN slab : q # r => slab'[q] = slab[q]
          /\ slab' \in [DOMAIN slab -> SlabRecord]
        BY <2>1, <2>3, <2>4 DEF PoolInv, Types
    <2>6. \A q \in DOMAIN slab : slab'[q].class = slab[q].class
        BY <2>3, <2>5
    <2>7. b # 0
        <3>1. Blocks[slab[r].class] \in Nat
            BY <2>2, ConstantFacts DEF SlabRecord
        <3> QED
            BY <2>1, <3>1
    <2>8. live' = {p \in live : ~(p.region = r /\ p.block = b)}
        BY <2>1
    <2>9. LiveIn(r)' = LiveIn(r) \ {b} /\ \A q : q # r => LiveIn(q)' = LiveIn(q)
        BY <2>8 DEF LiveIn
    <2>10. Slabs'
        <3> SUFFICES ASSUME NEW q \in DOMAIN slab PROVE Accounts(slab'[q], LiveIn(q)')
            BY <2>5 DEF Slabs
        <3>1. CASE q = r
            BY <2>3, <2>5, <2>9, <3>1
        <3>2. CASE q # r
            BY <2>5, <2>9, <3>2 DEF PoolInv, Slabs
        <3> QED
            BY <3>1, <3>2
    <2>11. Owners' /\ (live \in SUBSET Object)'
        <3>1. \A p \in live' : Placed(p)'
            BY <2>1, <2>5, <2>6, <2>8 DEF PoolInv, Owners, Placed
        <3>2. \A p, q \in live' : p.region = q.region /\ p.block = q.block => p = q
            BY <2>8 DEF PoolInv, Owners
        <3>3. \A q \in DOMAIN large : \E p \in live' : p.region = q /\ p.block = 0
            BY <2>7, <2>8 DEF PoolInv, Owners
        <3>4. Owners'
            BY <2>1, <3>1, <3>2, <3>3 DEF Owners
        <3> QED
            BY <2>8, <3>4 DEF PoolInv, Types
    <2>12. Lists'
        BY <2>1, <2>5, <2>6, SameLists
    <2>13. Large' /\ Mapped'
        BY <2>1, <2>5 DEF PoolInv, Large, Mapped, Lost
    <2>14. Types'
        BY <2>1, <2>5, <2>11 DEF PoolInv, Types
    <2> QED
        BY <2>10, <2>11, <2>12, <2>13, <2>14 DEF PoolInv
<1> QED
    BY <1>1, <1>2

\* k is l without r, whose neighbours are linked to each other.
IsRemoved(l, r, k) ==
    /\ k \in [DOMAIN l \ {r} -> LinkRecord]
    /\ DOMAIN k = DOMAIN l \ {r}
    /\ \A q \in DOMAIN l \ {r} :
           /\ k[q].next = IF q = l[r].prev THEN l[r].next ELSE l[q].next
           /\ k[q].prev = IF q = l[r].next THEN l[r].prev ELSE l[q].prev

\* A changed link, as a function of the links.
LEMMA OneLink ==
    ASSUME NEW l, l \in [DOMAIN l -> LinkRecord], NEW p \in DOMAIN l, NEW v \in Region \cup {Null}
    PROVE  /\ [l EXCEPT ![p].next = v] \in [DOMAIN l -> LinkRecord]
           /\ \A q \in DOMAIN l :
                  /\ [l EXCEPT ![p].next = v][q].next = IF q = p THEN v ELSE l[q].next
                  /\ [l EXCEPT ![p].next = v][q].prev = l[q].prev
           /\ [l EXCEPT ![p].prev = v] \in [DOMAIN l -> LinkRecord]
           /\ \A q \in DOMAIN l :
                  /\ [l EXCEPT ![p].prev = v][q].prev = IF q = p THEN v ELSE l[q].prev
                  /\ [l EXCEPT ![p].prev = v][q].next = l[q].next
<1>1. l[p] \in LinkRecord
    OBVIOUS
<1>2. PICK w : w = [l[p] EXCEPT !.next = v]
    OBVIOUS
<1>3. w \in LinkRecord /\ w.next = v /\ w.prev = l[p].prev
    BY <1>1, <1>2 DEF LinkRecord
<1>4. [l EXCEPT ![p].next = v] = [l EXCEPT ![p] = w]
    BY <1>2
<1>5. PICK x : x = [l[p] EXCEPT !.prev = v]
    OBVIOUS
<1>6. x \in LinkRecord /\ x.prev = v /\ x.next = l[p].next
    BY <1>1, <1>5 DEF LinkRecord
<1>7. [l EXCEPT ![p].prev = v] = [l EXCEPT ![p] = x]
    BY <1>5
<1>8. /\ [l EXCEPT ![p] = w] \in [DOMAIN l -> LinkRecord]
      /\ \A q \in DOMAIN l : [l EXCEPT ![p] = w][q] = IF q = p THEN w ELSE l[q]
    BY <1>3
<1>9. /\ [l EXCEPT ![p] = x] \in [DOMAIN l -> LinkRecord]
      /\ \A q \in DOMAIN l : [l EXCEPT ![p] = x][q] = IF q = p THEN x ELSE l[q]
    BY <1>6
<1> QED
    BY <1>3, <1>4, <1>6, <1>7, <1>8, <1>9

\* What unlinking does to each link.
LEMMA RemovedLinks ==
    ASSUME NEW l, l \in [DOMAIN l -> LinkRecord], DOMAIN l \subseteq Region, NEW r \in DOMAIN l,
           l[r].prev = Null \/ l[r].prev \in DOMAIN l,
           l[r].next = Null \/ l[r].next \in DOMAIN l
    PROVE  IsRemoved(l, r, Without(Unlinked(l, r), r))
<1>1. PICK p : p = l[r].prev
    OBVIOUS
<1>2. PICK n : n = l[r].next
    OBVIOUS
<1>3. Null \notin DOMAIN l
    BY ConstantFacts
<1>4. p \in Region \cup {Null} /\ n \in Region \cup {Null}
    BY <1>1, <1>2
<1>5. PICK l1 : l1 = IF p = Null THEN l ELSE [l EXCEPT ![p].next = n]
    OBVIOUS
<1>6. /\ l1 \in [DOMAIN l -> LinkRecord] /\ DOMAIN l1 = DOMAIN l
      /\ \A q \in DOMAIN l : /\ l1[q].next = IF q = p THEN n ELSE l[q].next
                             /\ l1[q].prev = l[q].prev
    <2>1. CASE p = Null
        BY <1>3, <1>5, <2>1
    <2>2. CASE p # Null
        <3>1. p \in DOMAIN l /\ l1 = [l EXCEPT ![p].next = n]
            BY <1>1, <1>5, <2>2
        <3>2. l1 \in [DOMAIN l -> LinkRecord]
            BY <1>4, <3>1, OneLink
        <3>3. \A q \in DOMAIN l : l1[q].next = (IF q = p THEN n ELSE l[q].next) /\ l1[q].prev = l[q].prev
            BY <1>4, <3>1, OneLink
        <3> QED
            BY <3>2, <3>3
    <2> QED
        BY <2>1, <2>2
<1>7. PICK l2 : l2 = IF n = Null THEN l1 ELSE [l1 EXCEPT ![n].prev = p]
    OBVIOUS
<1>8. /\ l2 \in [DOMAIN l -> LinkRecord] /\ DOMAIN l2 = DOMAIN l
      /\ \A q \in DOMAIN l : /\ l2[q].prev = IF q = n THEN p ELSE l1[q].prev
                             /\ l2[q].next = l1[q].next
    <2>1. CASE n = Null
        BY <1>3, <1>6, <1>7, <2>1
    <2>2. CASE n # Null
        <3>1. n \in DOMAIN l1 /\ l2 = [l1 EXCEPT ![n].prev = p] /\ l1 \in [DOMAIN l1 -> LinkRecord]
            BY <1>2, <1>6, <1>7, <2>2
        <3>2. l2 \in [DOMAIN l1 -> LinkRecord]
            BY <1>4, <3>1, OneLink
        <3>3. \A q \in DOMAIN l1 : l2[q].prev = (IF q = n THEN p ELSE l1[q].prev) /\ l2[q].next = l1[q].next
            BY <1>4, <3>1, OneLink
        <3> QED
            BY <1>6, <3>2, <3>3
    <2> QED
        BY <2>1, <2>2
<1>9. Unlinked(l, r) = l2
    BY <1>1, <1>2, <1>5, <1>7 DEF Unlinked
<1>10. PICK k : k = Without(l2, r)
    OBVIOUS
<1>11. /\ k \in [DOMAIN l \ {r} -> LinkRecord] /\ DOMAIN k = DOMAIN l \ {r}
       /\ \A q \in DOMAIN l \ {r} : k[q] = l2[q]
    BY <1>8, <1>10 DEF Without
<1>12. IsRemoved(l, r, k)
    BY <1>1, <1>2, <1>6, <1>8, <1>11 DEF IsRemoved
<1> QED
    BY <1>9, <1>10, <1>12

\* pool_free_large takes the region out of the list.
LEMMA ChainRemoved ==
    ASSUME NEW n \in Nat, NEW s, NEW l, NEW h, NEW r \in DOMAIN l, Chain(n, s, l, h),
           l \in [DOMAIN l -> LinkRecord], DOMAIN l \subseteq Region
    PROVE  /\ n >= 1 /\ \E t : Chain(n - 1, t, Without(Unlinked(l, r), r),
                                     IF l[r].prev = Null THEN l[r].next ELSE h)
           /\ IsRemoved(l, r, Without(Unlinked(l, r), r))
<1>1. /\ \A i \in 1 .. n : s[i] \in DOMAIN l /\ s[i] \in Region /\ s[i] # Null
      /\ h = Null <=> n = 0
    BY ChainMembers
<1>2. /\ \A i, j \in 1 .. n : s[i] = s[j] => i = j
      /\ \A q \in DOMAIN l : \E i \in 1 .. n : s[i] = q
      /\ h = IF n = 0 THEN Null ELSE s[1]
      /\ \A i \in 1 .. n : /\ l[s[i]].prev = IF i = 1 THEN Null ELSE s[i - 1]
                           /\ l[s[i]].next = IF i = n THEN Null ELSE s[i + 1]
    BY DEF Chain
<1>3. PICK k \in 1 .. n : s[k] = r
    BY <1>2
<1>4. n >= 1 /\ h = s[1] /\ k \in Nat
    BY <1>2, <1>3
<1>5. /\ l[r].prev = IF k = 1 THEN Null ELSE s[k - 1]
      /\ l[r].next = IF k = n THEN Null ELSE s[k + 1]
    BY <1>2, <1>3
<1>6. (k # 1 => k - 1 \in 1 .. n) /\ (k # n => k + 1 \in 1 .. n)
    BY <1>3
<1>7. l[r].prev = Null \/ l[r].prev \in DOMAIN l
    BY <1>1, <1>5, <1>6
<1>8. l[r].next = Null \/ l[r].next \in DOMAIN l
    BY <1>1, <1>5, <1>6
<1>9. PICK g : g = Without(Unlinked(l, r), r)
    OBVIOUS
<1>10. IsRemoved(l, r, g)
    BY <1>7, <1>8, <1>9, RemovedLinks
<1>11. /\ DOMAIN g = DOMAIN l \ {r}
       /\ \A q \in DOMAIN l \ {r} :
              /\ g[q].next = IF q = l[r].prev THEN l[r].next ELSE l[q].next
              /\ g[q].prev = IF q = l[r].next THEN l[r].prev ELSE l[q].prev
    BY <1>10 DEF IsRemoved
<1>12. PICK m \in Nat : m = n - 1
    BY <1>4
<1>13. PICK t : t = [i \in 1 .. m |-> IF i < k THEN s[i] ELSE s[i + 1]]
    OBVIOUS
<1>14. /\ DOMAIN t = 1 .. m
       /\ \A i \in 1 .. m : i < k => i \in 1 .. n /\ i # k /\ t[i] = s[i]
       /\ \A i \in 1 .. m : ~(i < k) => i + 1 \in 1 .. n /\ i + 1 # k /\ t[i] = s[i + 1]
    BY <1>3, <1>12, <1>13
<1>15. \A i \in 1 .. n : i # k => s[i] \in DOMAIN l \ {r}
    BY <1>1, <1>2, <1>3
<1>16. t \in [1 .. m -> DOMAIN g]
    <2>1. \A i \in 1 .. m : t[i] \in DOMAIN g
        BY <1>11, <1>14, <1>15
    <2> QED
        BY <1>13, <2>1
<1>17. ASSUME NEW i \in 1 .. m, NEW j \in 1 .. m, t[i] = t[j] PROVE i = j
    <2>1. CASE i < k /\ j < k
        BY <1>2, <1>14, <1>17, <2>1
    <2>2. CASE i < k /\ ~(j < k)
        <3>1. i = j + 1
            BY <1>2, <1>14, <1>17, <2>2
        <3> QED
            BY <1>3, <2>2, <3>1
    <2>3. CASE ~(i < k) /\ j < k
        <3>1. j = i + 1
            BY <1>2, <1>14, <1>17, <2>3
        <3> QED
            BY <1>3, <2>3, <3>1
    <2>4. CASE ~(i < k) /\ ~(j < k)
        <3>1. i + 1 = j + 1
            BY <1>2, <1>14, <1>17, <2>4
        <3> QED
            BY <3>1
    <2> QED
        BY <2>1, <2>2, <2>3, <2>4
<1>18. ASSUME NEW q \in DOMAIN g PROVE \E i \in 1 .. m : t[i] = q
    <2>1. PICK i \in 1 .. n : s[i] = q
        BY <1>2, <1>11
    <2>2. i # k
        BY <1>3, <1>11, <2>1
    <2>3. CASE i < k
        <3>1. i \in 1 .. m
            BY <1>3, <1>12, <2>3
        <3> QED
            BY <1>14, <2>1, <2>3, <3>1
    <2>4. CASE i > k
        <3>1. i - 1 \in 1 .. m /\ ~(i - 1 < k) /\ (i - 1) + 1 = i
            BY <1>3, <1>12, <2>4
        <3>2. t[i - 1] = q
            BY <1>14, <2>1, <3>1
        <3> QED
            BY <3>1, <3>2
    <2> QED
        BY <1>3, <2>2, <2>3, <2>4
<1>19. ASSUME NEW i \in 1 .. m PROVE g[t[i]].next = IF i = m THEN Null ELSE t[i + 1]
    <2>1. CASE i < k - 1
        <3>1. i < k /\ k # 1 /\ i # m /\ i # n /\ i + 1 \in 1 .. m /\ i + 1 < k /\ k - 1 \in 1 .. n /\ i # k - 1
            BY <1>3, <1>12, <2>1
        <3>2. t[i] = s[i] /\ t[i + 1] = s[i + 1] /\ i \in 1 .. n /\ i # k
            BY <1>14, <3>1
        <3>3. s[i] # l[r].prev /\ s[i] \in DOMAIN l \ {r}
            BY <1>2, <1>5, <1>15, <3>1, <3>2
        <3>4. g[s[i]].next = l[s[i]].next
            BY <1>11, <3>3
        <3> QED
            BY <1>2, <3>1, <3>2, <3>4
    <2>2. CASE i = k - 1
        <3>1. i < k /\ k # 1 /\ (i = m <=> k = n) /\ (i # m => i + 1 \in 1 .. m /\ ~(i + 1 < k) /\ (i + 1) + 1 = k + 1)
            BY <1>3, <1>12, <2>2
        <3>2. t[i] = s[k - 1] /\ (i # m => t[i + 1] = s[k + 1])
            BY <1>14, <2>2, <3>1
        <3>3. s[k - 1] = l[r].prev /\ s[k - 1] \in DOMAIN l \ {r}
            BY <1>5, <1>6, <1>14, <1>15, <2>2, <3>1
        <3>4. g[s[k - 1]].next = l[r].next
            BY <1>11, <3>3
        <3> QED
            BY <1>5, <3>1, <3>2, <3>4
    <2>3. CASE ~(i < k)
        <3>1. (i = m <=> i + 1 = n) /\ (i # m => i + 1 \in 1 .. m /\ ~(i + 1 < k)) /\ i + 1 # k - 1
            BY <1>3, <1>12, <2>3
        <3>2. /\ t[i] = s[i + 1] /\ i + 1 \in 1 .. n /\ i + 1 # k
              /\ i # m => t[i + 1] = s[(i + 1) + 1]
            BY <1>14, <2>3, <3>1
        <3>3. s[i + 1] # l[r].prev /\ s[i + 1] \in DOMAIN l \ {r}
            BY <1>1, <1>2, <1>5, <1>6, <1>15, <3>1, <3>2
        <3>4. g[s[i + 1]].next = l[s[i + 1]].next
            BY <1>11, <3>3
        <3> QED
            BY <1>2, <3>1, <3>2, <3>4
    <2> QED
        BY <1>3, <2>1, <2>2, <2>3
<1>20. ASSUME NEW i \in 1 .. m PROVE g[t[i]].prev = IF i = 1 THEN Null ELSE t[i - 1]
    <2>1. CASE i < k
        <3>1. (i # 1 => i - 1 \in 1 .. m /\ i - 1 < k) /\ i # k + 1
            BY <1>3, <1>12, <2>1
        <3>2. t[i] = s[i] /\ i \in 1 .. n /\ i # k /\ (i # 1 => t[i - 1] = s[i - 1])
            BY <1>14, <2>1, <3>1
        <3>3. s[i] # l[r].next /\ s[i] \in DOMAIN l \ {r}
            BY <1>1, <1>2, <1>5, <1>6, <1>15, <3>1, <3>2
        <3>4. g[s[i]].prev = l[s[i]].prev
            BY <1>11, <3>3
        <3> QED
            BY <1>2, <3>2, <3>4
    <2>2. CASE i = k
        <3>1. k # n /\ (k # 1 => i - 1 \in 1 .. m /\ i - 1 < k)
            BY <1>3, <1>12, <2>2
        <3>2. t[i] = s[k + 1] /\ k + 1 \in 1 .. n /\ k + 1 # k /\ (k # 1 => t[i - 1] = s[k - 1])
            BY <1>14, <2>2, <3>1
        <3>3. s[k + 1] = l[r].next /\ s[k + 1] \in DOMAIN l \ {r}
            BY <1>5, <1>15, <3>1, <3>2
        <3>4. g[s[k + 1]].prev = l[r].prev
            BY <1>11, <3>3
        <3> QED
            BY <1>5, <2>2, <3>2, <3>4
    <2>3. CASE i > k
        <3>1. i # 1 /\ i - 1 \in 1 .. m /\ ~(i - 1 < k) /\ (i - 1) + 1 = i /\ ~(i < k) /\ i + 1 # k + 1
              /\ i + 1 # 1 /\ (i + 1) - 1 = i
            BY <1>3, <1>12, <2>3
        <3>2. t[i] = s[i + 1] /\ i + 1 \in 1 .. n /\ i + 1 # k /\ t[i - 1] = s[i]
            BY <1>14, <3>1
        <3>3. s[i + 1] # l[r].next /\ s[i + 1] \in DOMAIN l \ {r}
            BY <1>1, <1>2, <1>5, <1>6, <1>15, <3>1, <3>2
        <3>4. g[s[i + 1]].prev = l[s[i + 1]].prev
            BY <1>11, <3>3
        <3> QED
            BY <1>2, <3>1, <3>2, <3>4
    <2> QED
        BY <1>3, <2>1, <2>2, <2>3
<1>21. (IF l[r].prev = Null THEN l[r].next ELSE h) = IF m = 0 THEN Null ELSE t[1]
    <2>1. CASE k = 1
        <3>1. l[r].prev = Null /\ (m = 0 <=> k = n) /\ (m # 0 => 1 \in 1 .. m /\ ~(1 < k))
            BY <1>5, <1>12, <2>1
        <3>2. m # 0 => t[1] = s[k + 1]
            BY <1>14, <2>1, <3>1
        <3> QED
            BY <1>5, <3>1, <3>2
    <2>2. CASE k # 1
        <3>1. m # 0 /\ 1 \in 1 .. m /\ 1 < k
            BY <1>3, <1>12, <2>2
        <3>2. l[r].prev # Null /\ t[1] = s[1]
            BY <1>1, <1>5, <1>6, <1>14, <2>2, <3>1
        <3> QED
            BY <1>4, <3>1, <3>2
    <2> QED
        BY <2>1, <2>2
<1>22. Chain(m, t, g, IF l[r].prev = Null THEN l[r].next ELSE h)
    BY <1>16, <1>17, <1>18, <1>19, <1>20, <1>21 DEF Chain
<1> QED
    BY <1>4, <1>9, <1>10, <1>12, <1>22

\* pool_free_large unmaps the region, or leaves everything as it was and aborts.
LEMMA FreeLargeHolds ==
    ASSUME PoolInv, NEW r \in Region, FreeLarge(r) PROVE PoolInv'
<1>1. CASE Fault(1) /\ aborted' = TRUE /\ UNCHANGED <<mapped, large, head, live>>
    <2>1. faults' \in 0 .. MaxFaults /\ faults' >= faults
        BY <1>1, ConstantFacts DEF Fault, PoolInv, Types
    <2>2. UNCHANGED <<initialized, mapped, pools, slab, large, head, live>> /\ aborted' \in BOOLEAN
        BY <1>1 DEF FreeLarge
    <2> QED
        BY <2>1, <2>2, AbortHolds
<1>2. CASE ~(Fault(1) /\ aborted' = TRUE /\ UNCHANGED <<mapped, large, head, live>>)
    <2>1. /\ r \in DOMAIN large /\ Running
          /\ mapped' = mapped \ {r}
          /\ large' = Without(Unlinked(large, r), r)
          /\ head' = IF large[r].prev = Null THEN large[r].next ELSE head
          /\ live' = {p \in live : p.region # r}
          /\ UNCHANGED <<initialized, aborted, pools, slab, faults>>
        BY <1>2 DEF FreeLarge
    <2>2. large \in [DOMAIN large -> LinkRecord] /\ DOMAIN large \subseteq Region
        BY DEF PoolInv, Types
    <2>3. PICK n \in Nat : \E s : Chain(n, s, large, head)
        BY DEF PoolInv, Large
    <2>4. PICK s : Chain(n, s, large, head)
        BY <2>3
    <2>5. /\ n >= 1 /\ \E t : Chain(n - 1, t, Without(Unlinked(large, r), r),
                                    IF large[r].prev = Null THEN large[r].next ELSE head)
          /\ IsRemoved(large, r, Without(Unlinked(large, r), r))
        BY <2>1, <2>2, <2>4, ChainRemoved
    <2>6. Large'
        <3>1. n - 1 \in Nat
            BY <2>5
        <3>2. \E t : Chain(n - 1, t, large', head')
            BY <2>1, <2>5
        <3> QED
            BY <3>1, <3>2 DEF Large
    <2>7. DOMAIN large' = DOMAIN large \ {r} /\ large' \in [DOMAIN large \ {r} -> LinkRecord]
        BY <2>1, <2>5 DEF IsRemoved
    <2>8. \A q : q # r => LiveIn(q)' = LiveIn(q)
        BY <2>1 DEF LiveIn
    <2>9. r \notin DOMAIN slab
        BY <2>1 DEF PoolInv, Mapped
    <2>10. Slabs'
        BY <2>1, <2>8, <2>9 DEF PoolInv, Slabs
    <2>11. Owners'
        <3>1. \A p \in live' : Placed(p)'
            BY <2>1, <2>7 DEF PoolInv, Owners, Placed
        <3>2. \A p, q \in live' : p.region = q.region /\ p.block = q.block => p = q
            BY <2>1 DEF PoolInv, Owners
        <3>3. \A q \in DOMAIN large' : \E p \in live' : p.region = q /\ p.block = 0
            BY <2>1, <2>7 DEF PoolInv, Owners
        <3> QED
            BY <3>1, <3>2, <3>3 DEF Owners
    <2>12. Lists'
        BY <2>1, SameLists
    <2>13. Mapped'
        <3>1. Lost' = Lost
            BY <2>1, <2>7 DEF Lost
        <3> QED
            BY <2>1, <2>7, <2>9, <3>1 DEF PoolInv, Mapped, Running
    <2>14. Types'
        BY <2>1, <2>7 DEF PoolInv, Types
    <2> QED
        BY <2>6, <2>10, <2>11, <2>12, <2>13, <2>14 DEF PoolInv
<1> QED
    BY <1>1, <1>2

-----------------------------------------------------------------------------
(* Destroy.                                                                 *)

\* When pool_destroy goes ahead nobody holds an object.
LEMMA IdleFacts ==
    ASSUME PoolInv, Idle PROVE DOMAIN large = {} /\ live = {}
<1>1. PICK n \in Nat : \E s : Chain(n, s, large, head)
    BY DEF PoolInv, Large
<1>2. PICK s : Chain(n, s, large, head)
    BY <1>1
<1>3. head = Null /\ DOMAIN large \subseteq Region
    BY DEF Idle, PoolInv, Types
<1>4. DOMAIN large = {}
    BY <1>2, <1>3, ChainMembers
<1>5. ASSUME NEW r \in DOMAIN slab PROVE LiveIn(r) = {}
    <2>1. IsFiniteSet(LiveIn(r)) /\ slab[r].used = Cardinality(LiveIn(r)) /\ slab[r].used = 0
        BY DEF PoolInv, Slabs, Accounts, Idle
    <2> QED
        BY <2>1, FS_EmptySet
<1>6. ASSUME NEW p \in live PROVE FALSE
    <2>1. Placed(p)
        BY DEF PoolInv, Owners
    <2>2. p.region \in DOMAIN slab
        BY <1>4, <2>1 DEF Placed
    <2>3. p.block \in LiveIn(p.region)
        BY DEF LiveIn
    <2> QED
        BY <1>5, <2>2, <2>3
<1> QED
    BY <1>4, <1>6

\* The slabs that are gone, by class and place.
LEMMA GoneFacts ==
    ASSUME PoolInv, NEW c \in Class, NEW k \in Nat, k <= Len(pools[c])
    PROVE  /\ Gone(c, k) \subseteq DOMAIN slab
           /\ \A d \in Class : \A i \in DOMAIN pools[d] :
                  pools[d][i] \in Gone(c, k) <=> d < c \/ (d = c /\ i <= k)
<1>1. c \in 1 .. Len(BlockSize) /\ Len(BlockSize) \in Nat /\ Class = 1 .. Len(BlockSize)
    BY ConstantFacts
<1>2. \A d \in Class : Len(pools[d]) \in Nat /\ DOMAIN pools[d] = 1 .. Len(pools[d])
    BY DEF PoolInv, Types
<1>3. 1 .. k \subseteq DOMAIN pools[c] /\ 1 .. c - 1 \subseteq Class
    <2>1. 1 .. c - 1 \subseteq Class
        BY <1>1
    <2>2. Len(pools[c]) \in Nat /\ DOMAIN pools[c] = 1 .. Len(pools[c])
        BY <1>2
    <2>3. 1 .. k \subseteq 1 .. Len(pools[c])
        BY <2>2
    <2> QED
        BY <2>1, <2>2, <2>3
<1>4. \A d \in Class : \A i \in DOMAIN pools[d] : pools[d][i] \in DOMAIN slab /\ slab[pools[d][i]].class = d
    BY DEF PoolInv, Lists
<1>5. \A x : x \in Gone(c, k) <=> \/ \E d \in 1 .. c - 1 : \E i \in DOMAIN pools[d] : x = pools[d][i]
                                  \/ \E i \in 1 .. k : x = pools[c][i]
    <2> DEFINE Of(d) == {pools[d][i] : i \in DOMAIN pools[d]}
               Below == UNION {Of(d) : d \in 1 .. c - 1}
               Here == {pools[c][i] : i \in 1 .. k}
    <2>1. Gone(c, k) = Below \cup Here
        BY Zenon DEF Gone
    <2>2. \A x : x \in Here <=> \E i \in 1 .. k : x = pools[c][i]
        BY Zenon
    <2>3. \A x, d : x \in Of(d) <=> \E i \in DOMAIN pools[d] : x = pools[d][i]
        BY Zenon
    <2> HIDE DEF Of
    <2>4. \A x : x \in Below <=> \E d \in 1 .. c - 1 : x \in Of(d)
        BY Zenon
    <2> HIDE DEF Below, Here
    <2> QED
        BY <2>1, <2>2, <2>3, <2>4
<1>6. Gone(c, k) \subseteq DOMAIN slab
    BY <1>3, <1>4, <1>5
<1>7. ASSUME NEW d \in Class, NEW i \in DOMAIN pools[d]
      PROVE  pools[d][i] \in Gone(c, k) <=> d < c \/ (d = c /\ i <= k)
    <2>1. d \in Nat /\ d >= 1 /\ c \in Nat /\ i \in Nat /\ i >= 1
        BY <1>2, ConstantFacts
    <2>2. d < c => d \in 1 .. c - 1
        BY <2>1
    <2>3. i <= k => i \in 1 .. k
        BY <2>1
    <2>4. d < c \/ (d = c /\ i <= k) => pools[d][i] \in Gone(c, k)
        BY <1>5, <2>2, <2>3
    <2>5. ASSUME pools[d][i] \in Gone(c, k) PROVE d < c \/ (d = c /\ i <= k)
        <3>1. CASE \E e \in 1 .. c - 1 : \E j \in DOMAIN pools[e] : pools[d][i] = pools[e][j]
            <4>1. PICK e \in 1 .. c - 1 : \E j \in DOMAIN pools[e] : pools[d][i] = pools[e][j]
                BY <3>1
            <4>2. e = d
                BY <1>3, <1>4, <4>1
            <4> QED
                BY <2>1, <4>1, <4>2
        <3>2. CASE \E j \in 1 .. k : pools[d][i] = pools[c][j]
            <4>1. PICK j \in 1 .. k : pools[d][i] = pools[c][j]
                BY <3>2
            <4>2. j \in DOMAIN pools[c] /\ c = d
                BY <1>3, <1>4, <4>1
            <4>3. i = j
                BY <4>1, <4>2 DEF PoolInv, Lists
            <4> QED
                BY <2>1, <4>1, <4>2, <4>3
        <3> QED
            BY <1>5, <2>5, <3>1, <3>2
    <2> QED
        BY <2>4, <2>5
<1> QED
    BY <1>6, <1>7

\* What is left of a list when its first k are gone.
LEMMA RestFacts ==
    ASSUME NEW T, NEW s \in Seq(T), NEW k \in Nat, k <= Len(s)
    PROVE  LET t == SubSeq(s, k + 1, Len(s)) IN
           /\ t \in Seq(T) /\ DOMAIN t = 1 .. Len(s) - k
           /\ \A i \in 1 .. Len(s) - k : i + k \in DOMAIN s /\ t[i] = s[i + k]
<1>1. Len(s) \in Nat /\ DOMAIN s = 1 .. Len(s)
    OBVIOUS
<1> DEFINE t == SubSeq(s, k + 1, Len(s))
<1>2. t = [i \in 1 .. (Len(s) - (k + 1) + 1) |-> s[i + (k + 1) - 1]]
    BY <1>1
<1>3. Len(s) - (k + 1) + 1 = Len(s) - k /\ Len(s) - k \in Nat
    BY <1>1
<1>4. \A i \in 1 .. Len(s) - k : i + (k + 1) - 1 = i + k /\ i + k \in 1 .. Len(s)
    BY <1>1
<1> HIDE DEF t
<1>5. DOMAIN t = 1 .. Len(s) - k /\ \A i \in 1 .. Len(s) - k : t[i] = s[i + k]
    BY <1>2, <1>3, <1>4
<1>6. \A i \in 1 .. Len(s) - k : s[i + k] \in T
    BY <1>1, <1>4
<1>7. t = [i \in 1 .. Len(s) - k |-> s[i + k]]
    BY <1>2, <1>3, <1>4
<1>8. t \in Seq(T)
    BY <1>3, <1>6, <1>7
<1> QED
    BY <1>1, <1>4, <1>5, <1>8 DEF t

\* f lists what the classes have after pool_destroy dealt with those below c and
\* with k slabs of c.
IsCut(c, k, f) ==
    /\ f \in [Class -> Seq(Region)]
    /\ \A d \in Class : d < c => DOMAIN f[d] = {}
    /\ \A d \in Class : d > c => f[d] = pools[d]
    /\ DOMAIN f[c] = 1 .. Len(pools[c]) - k
    /\ \A i \in 1 .. Len(pools[c]) - k : i + k \in DOMAIN pools[c] /\ f[c][i] = pools[c][i + k]

\* The lists of a destroy that stopped.
LEMMA RemainingFacts ==
    ASSUME PoolInv, NEW c \in Class, NEW k \in Nat, k <= Len(pools[c])
    PROVE  IsCut(c, k, Remaining(c, k))
<1>1. PICK t : t = SubSeq(pools[c], k + 1, Len(pools[c]))
    OBVIOUS
<1>2. \A d \in Class : pools[d] \in Seq(Region)
    BY DEF PoolInv, Types
<1>3. /\ t \in Seq(Region) /\ DOMAIN t = 1 .. Len(pools[c]) - k
      /\ \A i \in 1 .. Len(pools[c]) - k : i + k \in DOMAIN pools[c] /\ t[i] = pools[c][i + k]
    BY <1>1, <1>2, RestFacts
<1>4. Remaining(c, k) = [d \in Class |-> IF d < c THEN <<>> ELSE IF d = c THEN t ELSE pools[d]]
    BY <1>1 DEF Remaining
<1>5. c \in Nat /\ \A d \in Class : d \in Nat
    BY ConstantFacts
<1>6. \A d \in Class : Remaining(c, k)[d] = IF d < c THEN <<>> ELSE IF d = c THEN t ELSE pools[d]
    BY <1>4
<1>7. Remaining(c, k) \in [Class -> Seq(Region)]
    <2>1. <<>> \in Seq(Region)
        OBVIOUS
    <2> QED
        BY <1>2, <1>3, <1>4, <2>1
<1>8. \A d \in Class : d < c => DOMAIN Remaining(c, k)[d] = {}
    BY <1>6
<1>9. \A d \in Class : d > c => Remaining(c, k)[d] = pools[d]
    BY <1>5, <1>6
<1>10. Remaining(c, k)[c] = t
    BY <1>5, <1>6
<1> QED
    BY <1>3, <1>7, <1>8, <1>9, <1>10 DEF IsCut

\* pool_destroy leaves lists and slabs in agreement, wherever it stops.
LEMMA DestroyHolds ==
    ASSUME PoolInv, NEW c \in Class, NEW k \in Nat, Destroy(c, k) PROVE PoolInv'
<1> PICK G : G = Gone(c, k)
    OBVIOUS
<1>1. /\ Running /\ Idle /\ k <= Len(pools[c])
      /\ mapped' = mapped \ G
      /\ slab' = [r \in DOMAIN slab \ G |-> slab[r]]
      /\ pools' = Remaining(c, k)
      /\ UNCHANGED <<aborted, large, head, live>>
    BY DEF Destroy
<1>2. DOMAIN large = {} /\ live = {}
    BY <1>1, IdleFacts
<1>3. /\ G \subseteq DOMAIN slab
      /\ \A d \in Class : \A i \in DOMAIN pools[d] :
             pools[d][i] \in G <=> d < c \/ (d = c /\ i <= k)
    BY <1>1, GoneFacts
<1>4. /\ pools' \in [Class -> Seq(Region)]
      /\ \A d \in Class : d < c => DOMAIN pools'[d] = {}
      /\ \A d \in Class : d > c => pools'[d] = pools[d]
      /\ DOMAIN pools'[c] = 1 .. Len(pools[c]) - k
      /\ \A i \in 1 .. Len(pools[c]) - k :
             i + k \in DOMAIN pools[c] /\ pools'[c][i] = pools[c][i + k]
    <2>1. IsCut(c, k, pools')
        BY <1>1, RemainingFacts
    <2> QED
        BY <2>1 DEF IsCut
<1>5. /\ DOMAIN slab' = DOMAIN slab \ G
      /\ \A r \in DOMAIN slab' : slab'[r] = slab[r]
      /\ slab' \in [DOMAIN slab' -> SlabRecord]
    BY <1>1 DEF PoolInv, Types
<1>6. c \in Nat /\ \A d \in Class : d \in Nat
    BY ConstantFacts
<1>7. Len(pools[c]) \in Nat /\ DOMAIN pools[c] = 1 .. Len(pools[c])
    BY DEF PoolInv, Types
<1>8. /\ \A d \in Class : \A i \in DOMAIN pools[d] :
             pools[d][i] \in DOMAIN slab /\ slab[pools[d][i]].class = d
      /\ \A d \in Class : \A i, j \in DOMAIN pools[d] : pools[d][i] = pools[d][j] => i = j
      /\ \A r \in DOMAIN slab : \E i \in DOMAIN pools[slab[r].class] : pools[slab[r].class][i] = r
    BY DEF PoolInv, Lists
<1>9. \A i \in 1 .. Len(pools[c]) - k : i \in Nat /\ ~(i + k <= k)
    BY <1>7
<1>10. ASSUME NEW d \in Class, NEW i \in DOMAIN pools'[d]
       PROVE  pools'[d][i] \in DOMAIN slab' /\ slab'[pools'[d][i]].class = d
    <2>1. CASE d = c
        <3>1. i + k \in DOMAIN pools[c] /\ pools'[d][i] = pools[c][i + k] /\ ~(i + k <= k)
            BY <1>4, <1>9, <2>1
        <3>2. pools[c][i + k] \notin G
            BY <1>3, <1>6, <3>1
        <3>3. pools[c][i + k] \in DOMAIN slab' /\ slab[pools[c][i + k]].class = c
            BY <1>5, <1>8, <3>1, <3>2
        <3> QED
            BY <1>5, <2>1, <3>1, <3>3
    <2>2. CASE d > c
        <3>1. pools'[d] = pools[d] /\ i \in DOMAIN pools[d]
            BY <1>4, <2>2
        <3>2. pools[d][i] \notin G
            BY <1>3, <1>6, <2>2, <3>1
        <3>3. pools[d][i] \in DOMAIN slab' /\ slab[pools[d][i]].class = d
            BY <1>5, <1>8, <3>1, <3>2
        <3> QED
            BY <1>5, <3>1, <3>3
    <2> QED
        BY <1>4, <1>6, <2>1, <2>2
<1>11. ASSUME NEW d \in Class, NEW i \in DOMAIN pools'[d], NEW j \in DOMAIN pools'[d],
              pools'[d][i] = pools'[d][j]
       PROVE  i = j
    <2>1. CASE d = c
        <3>1. i + k = j + k
            BY <1>4, <1>8, <1>11, <2>1
        <3> QED
            BY <1>4, <1>9, <2>1, <3>1
    <2>2. CASE d > c
        <3>1. pools'[d] = pools[d]
            BY <1>4, <2>2
        <3> QED
            BY <1>8, <1>11, <3>1
    <2> QED
        BY <1>4, <1>6, <2>1, <2>2
<1>12. ASSUME NEW r \in DOMAIN slab'
       PROVE  \E i \in DOMAIN pools'[slab'[r].class] : pools'[slab'[r].class][i] = r
    <2>1. r \in DOMAIN slab /\ r \notin G /\ slab'[r] = slab[r]
        BY <1>5
    <2>2. PICK d \in Class : d = slab[r].class
        BY <2>1 DEF PoolInv, Types, SlabRecord
    <2>3. PICK i \in DOMAIN pools[d] : pools[d][i] = r
        BY <1>8, <2>1, <2>2
    <2>4. ~(d < c) /\ ~(d = c /\ i <= k)
        BY <1>3, <2>1, <2>3
    <2>5. CASE d > c
        BY <1>4, <2>1, <2>2, <2>3, <2>5
    <2>6. CASE d = c
        <3>1. i \in Nat /\ i - k \in 1 .. Len(pools[c]) - k /\ (i - k) + k = i
            BY <1>7, <2>3, <2>4, <2>6
        <3>2. i - k \in DOMAIN pools'[c] /\ pools'[c][i - k] = r
            BY <1>4, <2>3, <2>6, <3>1
        <3> QED
            BY <2>1, <2>2, <2>6, <3>2
    <2> QED
        BY <1>6, <2>4, <2>5, <2>6
<1>13. Lists'
    BY <1>10, <1>11, <1>12 DEF Lists
<1>14. Slabs'
    <2>1. \A r : LiveIn(r)' = LiveIn(r)
        BY <1>1 DEF LiveIn
    <2> QED
        BY <1>5, <2>1 DEF PoolInv, Slabs
<1>15. Owners'
    BY <1>1, <1>2 DEF Owners
<1>16. Large'
    BY <1>1 DEF PoolInv, Large
<1>17. /\ initialized' \in BOOLEAN /\ faults' \in 0 .. MaxFaults /\ faults' >= faults
       /\ ~initialized' => c = Len(BlockSize) /\ k = Len(pools[c])
    <2>1. faults \in 0 .. MaxFaults /\ MaxFaults \in Nat
        BY ConstantFacts DEF PoolInv, Types
    <2>2. CASE c = Len(BlockSize) /\ k = Len(pools[c])
        <3>1. initialized' = FALSE /\ faults' = faults
            BY <2>2 DEF Destroy
        <3>2. initialized' \in BOOLEAN
            BY <3>1
        <3>3. faults' \in 0 .. MaxFaults /\ faults' >= faults
            BY <2>1, <3>1
        <3> QED
            BY <2>2, <3>2, <3>3
    <2>3. CASE ~(c = Len(BlockSize) /\ k = Len(pools[c]))
        <3>1. initialized' = initialized /\ Fault(1) /\ initialized \in BOOLEAN /\ initialized
            BY <2>3 DEF Destroy, Running, PoolInv, Types
        <3> QED
            BY <2>1, <3>1 DEF Fault
    <2> QED
        BY <2>2, <2>3
<1>18. ~initialized' => DOMAIN slab' = {}
    <2> SUFFICES ASSUME ~initialized', NEW r \in DOMAIN slab' PROVE FALSE
        OBVIOUS
    <2>1. r \in DOMAIN slab /\ r \notin G
        BY <1>5
    <2>2. PICK d \in Class : d = slab[r].class
        BY <2>1 DEF PoolInv, Types, SlabRecord
    <2>3. PICK i \in DOMAIN pools[d] : pools[d][i] = r
        BY <1>8, <2>1, <2>2
    <2>4. d \in 1 .. c /\ (d = c => i <= k)
        <3>1. c = Len(BlockSize) /\ Class = 1 .. Len(BlockSize)
            BY <1>17, ConstantFacts
        <3>2. d = c => i <= k
            BY <1>7, <1>17, <2>3
        <3> QED
            BY <3>1, <3>2
    <2> QED
        BY <1>3, <1>6, <2>1, <2>3, <2>4
<1>19. Mapped'
    <2>1. Lost' = Lost
        BY <1>1, <1>2, <1>3, <1>5 DEF Lost
    <2>2. 2 * Cardinality(Lost) <= faults'
        <3>1. IsFiniteSet(Lost)
            BY ConstantFacts, FS_Subset DEF Lost, PoolInv, Types
        <3>2. Cardinality(Lost) \in Nat
            BY <3>1, FS_CardinalityType
        <3>3. faults \in Nat /\ faults' \in Nat /\ 2 * Cardinality(Lost) <= faults
            BY <1>17, ConstantFacts DEF PoolInv, Types, Mapped
        <3> QED
            BY <1>17, <3>2, <3>3
    <2> QED
        BY <1>1, <1>2, <1>5, <1>18, <2>1, <2>2 DEF PoolInv, Mapped
<1>20. Types'
    BY <1>1, <1>4, <1>5, <1>17 DEF PoolInv, Types
<1> QED
    BY <1>13, <1>14, <1>15, <1>16, <1>19, <1>20 DEF PoolInv

-----------------------------------------------------------------------------
(* The theorems.                                                            *)

\* The bookkeeping of the pools agrees with what callers hold, whatever they
\* allocate and free, also when a block is freed twice, when mmap or munmap
\* fails and when a destroy stopped half way is tried again.
THEOREM PoolInvariant == Spec => []PoolInv
<1>1. Init => PoolInv
    BY InitHolds
<1>2. ASSUME PoolInv, [Next]_vars PROVE PoolInv'
    <2>1. CASE Start
        BY <1>2, <2>1, StartHolds
    <2>2. CASE DestroyRefused
        BY <1>2, <2>2, UnchangedHolds DEF DestroyRefused
    <2>3. ASSUME NEW size \in Sizes, AllocSmall(size) \/ AllocSlab(size) \/ AllocLarge(size)
          PROVE  PoolInv'
        BY <1>2, <2>3, AllocSmallHolds, AllocSlabHolds, AllocLargeHolds
    <2>4. ASSUME NEW r \in Region, FreeLarge(r) \/ \E i \in Block : FreeSmall(r, i)
          PROVE  PoolInv'
        BY <1>2, <2>4, FreeLargeHolds, FreeSmallHolds
    <2>5. ASSUME NEW c \in Class, NEW k \in 0 .. Cardinality(Region), Destroy(c, k)
          PROVE  PoolInv'
        <3>1. Cardinality(Region) \in Nat
            BY ConstantFacts, FS_CardinalityType
        <3>2. k \in Nat
            BY <3>1
        <3> QED
            BY <1>2, <2>5, <3>2, DestroyHolds
    <2>6. CASE UNCHANGED vars
        BY <1>2, <2>6, UnchangedHolds
    <2> QED
        BY <1>2, <2>1, <2>2, <2>3, <2>4, <2>5, <2>6 DEF Next
<1> QED
    BY <1>1, <1>2, PTL DEF Spec

\* What the invariant says of the lists and of the objects.
LEMMA InvariantIsSound ==
    ASSUME PoolInv PROVE PoolSound
<1>1. PICK n \in Nat : \E s : Chain(n, s, large, head)
    BY DEF PoolInv, Large
<1>2. PICK s : Chain(n, s, large, head)
    BY <1>1
<1>3. large \in [DOMAIN large -> LinkRecord] /\ DOMAIN large \subseteq Region
    BY DEF PoolInv, Types
<1>4. /\ \A i \in 1 .. n : s[i] \in DOMAIN large /\ s[i] \in Region /\ s[i] # Null
      /\ head = Null <=> n = 0
      /\ DOMAIN large = {} <=> n = 0
    BY <1>2, <1>3, ChainMembers
<1>5. /\ \A r \in DOMAIN large : \E i \in 1 .. n : s[i] = r
      /\ head = IF n = 0 THEN Null ELSE s[1]
      /\ \A i \in 1 .. n : /\ large[s[i]].prev = IF i = 1 THEN Null ELSE s[i - 1]
                           /\ large[s[i]].next = IF i = n THEN Null ELSE s[i + 1]
    BY <1>2 DEF Chain
<1>6. n # 0 => 1 \in 1 .. n
    OBVIOUS
<1>7. TypeOK
    <2>1. head \in Region \cup {Null}
        BY <1>4, <1>5, <1>6
    <2>2. ASSUME NEW r \in DOMAIN slab
          PROVE  /\ slab[r].class \in Class
                 /\ slab[r].free \in Seq(1 .. Blocks[slab[r].class])
                 /\ slab[r].used \in 0 .. Blocks[slab[r].class]
        <3>1. slab[r] \in SlabRecord /\ Accounts(slab[r], LiveIn(r))
            BY DEF PoolInv, Types, Slabs
        <3>2. slab[r].class \in Class /\ slab[r].used \in Nat
            BY <3>1 DEF SlabRecord
        <3>3. /\ slab[r].free \in Seq(1 .. Blocks[slab[r].class])
              /\ Len(slab[r].free) + slab[r].used = Blocks[slab[r].class]
            BY <3>1 DEF Accounts
        <3>4. Len(slab[r].free) \in Nat /\ Blocks[slab[r].class] \in Nat
            BY <3>2, <3>3, ConstantFacts
        <3>5. slab[r].used \in 0 .. Blocks[slab[r].class]
            BY <3>2, <3>3, <3>4
        <3> QED
            BY <3>2, <3>3, <3>5
    <2> QED
        BY <2>1, <2>2 DEF TypeOK, PoolInv, Types
<1>8. BlocksAccounted
    <2>1. \A p, q \in live : p.region = q.region /\ p.block = q.block => p = q
        BY DEF PoolInv, Owners
    <2>2. ASSUME NEW r \in DOMAIN slab
          PROVE  /\ slab[r].bitmap = LiveIn(r)
                 /\ {slab[r].free[i] : i \in DOMAIN slab[r].free}
                        = (1 .. Blocks[slab[r].class]) \ slab[r].bitmap
                 /\ Len(slab[r].free) = Blocks[slab[r].class] - Cardinality(slab[r].bitmap)
                 /\ slab[r].used = Cardinality(slab[r].bitmap)
        <3>1. slab[r] \in SlabRecord /\ Accounts(slab[r], LiveIn(r))
            BY DEF PoolInv, Types, Slabs
        <3>2. slab[r].class \in Class /\ slab[r].used \in Nat
            BY <3>1 DEF SlabRecord
        <3>3. /\ slab[r].bitmap = LiveIn(r)
              /\ {slab[r].free[i] : i \in DOMAIN slab[r].free} = (1 .. Blocks[slab[r].class]) \ LiveIn(r)
              /\ slab[r].used = Cardinality(LiveIn(r))
              /\ slab[r].free \in Seq(1 .. Blocks[slab[r].class])
              /\ Len(slab[r].free) + slab[r].used = Blocks[slab[r].class]
            BY <3>1 DEF Accounts
        <3>4. Len(slab[r].free) \in Nat /\ Blocks[slab[r].class] \in Nat
            BY <3>2, <3>3, ConstantFacts
        <3>5. Len(slab[r].free) = Blocks[slab[r].class] - slab[r].used
            BY <3>2, <3>3, <3>4
        <3> QED
            BY <3>3, <3>5
    <2> QED
        BY <2>1, <2>2 DEF BlocksAccounted
<1>9. ObjectsFit
    BY DEF PoolInv, Owners, Placed, ObjectsFit
<1>10. LargeList
    <2>1. DOMAIN large = {p.region : p \in {q \in live : q.block = 0}}
        <3>1. \A p \in {q \in live : q.block = 0} : p.region \in DOMAIN large
            BY DEF PoolInv, Owners, Placed
        <3>2. \A r \in DOMAIN large : \E p \in {q \in live : q.block = 0} : p.region = r
            BY DEF PoolInv, Owners
        <3> QED
            BY <3>1, <3>2
    <2>2. head = Null <=> large = <<>>
        <3>1. large = <<>> => DOMAIN large = {}
            OBVIOUS
        <3>2. DOMAIN large = {} => large = <<>>
            BY <1>3
        <3> QED
            BY <1>4, <3>1, <3>2
    <2>3. head # Null => large[head].prev = Null
        BY <1>4, <1>5, <1>6
    <2>4. ASSUME NEW r \in DOMAIN large
          PROVE  /\ large[r].next # Null => large[large[r].next].prev = r
                 /\ large[r].prev # Null => large[large[r].prev].next = r
                 /\ large[r].prev = Null => r = head
        <3>1. PICK i \in 1 .. n : s[i] = r
            BY <1>5
        <3>2. /\ i # n => i + 1 \in 1 .. n /\ i + 1 # 1 /\ (i + 1) - 1 = i
              /\ i # 1 => i - 1 \in 1 .. n /\ i - 1 # n /\ (i - 1) + 1 = i
              /\ n # 0
            BY <3>1
        <3>3. /\ large[r].prev = IF i = 1 THEN Null ELSE s[i - 1]
              /\ large[r].next = IF i = n THEN Null ELSE s[i + 1]
            BY <1>5, <3>1
        <3>4. CASE i = 1
            BY <1>4, <1>5, <3>1, <3>2, <3>3, <3>4
        <3>5. CASE i # 1
            <4>1. large[r].prev = s[i - 1] /\ s[i - 1] # Null /\ large[s[i - 1]].next = s[i]
                <5>1. PICK j \in 1 .. n : j = i - 1
                    BY <3>2, <3>5
                <5>2. j # n /\ j + 1 = i
                    BY <3>2, <3>5, <5>1
                <5>3. large[s[j]].next = s[i] /\ s[j] # Null
                    BY <1>4, <1>5, <5>2
                <5> QED
                    BY <3>3, <3>5, <5>1, <5>3
            <4>2. large[r].next # Null => large[large[r].next].prev = r
                BY <1>4, <1>5, <3>1, <3>2, <3>3
            <4> QED
                BY <3>1, <4>1, <4>2
        <3> QED
            BY <3>4, <3>5
    <2> QED
        BY <2>1, <2>2, <2>3, <2>4 DEF LargeList
<1>11. RegionsOwned
    <2>1. InPools = DOMAIN slab
        <3>1. ASSUME NEW x \in InPools PROVE x \in DOMAIN slab
            <4>1. PICK c \in Class : x \in {pools[c][i] : i \in DOMAIN pools[c]}
                BY DEF InPools
            <4> QED
                BY <4>1 DEF PoolInv, Lists
        <3>2. ASSUME NEW x \in DOMAIN slab PROVE x \in InPools
            <4>1. slab[x].class \in Class
                BY DEF PoolInv, Types, SlabRecord
            <4>2. x \in {pools[slab[x].class][i] : i \in DOMAIN pools[slab[x].class]}
                BY DEF PoolInv, Lists
            <4> QED
                BY <4>1, <4>2 DEF InPools
        <3> QED
            BY <3>1, <3>2
    <2> QED
        BY <2>1 DEF PoolInv, Mapped, Lost, RegionsOwned
<1> QED
    BY <1>7, <1>8, <1>9, <1>10, <1>11 DEF PoolSound

\* No block is handed out twice, no object gets a block that is too small, the
\* list of large regions has exactly the large objects, and nothing mapped is
\* forgotten but what two failing system calls each have lost: what
\* kvs_allocator.c promises, for every table of size classes.
THEOREM PoolStaysSound == Spec => []PoolSound
    BY PoolInvariant, InvariantIsSound, PTL

-----------------------------------------------------------------------------
(* The array engine and the hash engine, which share no state with the      *)
(* allocator.                                                               *)

CONSTANTS Key, AnyKey, Value, Absent, Size, MaxTableSize

VARIABLES table, total, nodes, count, up, heap, reply, stray

A == INSTANCE ArrayEngine
H == INSTANCE HashEngine

-----------------------------------------------------------------------------
(* The inductive invariant.                                                 *)

\* The table t has its first n slots in use, by different keys.
Shape(t, n) ==
    /\ n \in 0 .. Size
    /\ t \in [A!Slot -> [key : Key, val : Value] \cup {A!EmptySlot}]
    /\ \A i \in A!Slot : i <= n <=> t[i].key # Absent
    /\ \A i, j \in 1 .. n : t[i].key = t[j].key => i = j

ArrayInv ==
    /\ Shape(table, total)
    /\ up \in BOOLEAN
    /\ A!NoLeak
    /\ ~up => total = 0

-----------------------------------------------------------------------------
(* What a table holds.                                                      *)

FoundIn(t, n, k) == {i \in 1 .. n : t[i].key = k}

ContentsOf(t, n) ==
    [k \in Key |-> IF FoundIn(t, n, k) = {} THEN Absent
                   ELSE t[A!First(FoundIn(t, n, k))].val]

\* A slot in use holds a key and a value, and is where that key is found.
LEMMA SlotInUse ==
    ASSUME A!ArrayAssumption, NEW t, NEW n, Shape(t, n), NEW i \in 1 .. n
    PROVE  /\ n \in Nat /\ i \in A!Slot
           /\ t[i] \in [key : Key, val : Value] /\ t[i].val # Absent
           /\ FoundIn(t, n, t[i].key) = {i}
           /\ A!First(FoundIn(t, n, t[i].key)) = i
           /\ ContentsOf(t, n)[t[i].key] = t[i].val
<1>1. n \in Nat /\ n <= Size /\ Size \in Nat
    BY DEF A!ArrayAssumption, Shape
<1>2. i \in A!Slot /\ i <= n
    BY <1>1 DEF A!Slot
<1>3. t[i].key # Absent
    BY <1>2 DEF Shape
<1>4. t[i] \in [key : Key, val : Value]
    BY <1>2, <1>3 DEF Shape, A!EmptySlot
<1>5. t[i].val # Absent /\ t[i].key \in Key
    BY <1>4 DEF A!ArrayAssumption
<1>6. FoundIn(t, n, t[i].key) = {i}
    BY DEF Shape, FoundIn
<1>7. A!First({i}) = i
    <2>1. i <= i
        BY <1>1
    <2> QED
        BY <2>1 DEF A!First
<1>8. ContentsOf(t, n)[t[i].key] = t[A!First(FoundIn(t, n, t[i].key))].val
    BY <1>5, <1>6 DEF ContentsOf
<1> QED
    BY <1>1, <1>2, <1>4, <1>5, <1>6, <1>7, <1>8

\* A key that no slot in use holds is absent.
LEMMA NotInUse ==
    ASSUME NEW t, NEW n, NEW k \in Key, \A i \in 1 .. n : t[i].key # k
    PROVE  FoundIn(t, n, k) = {} /\ ContentsOf(t, n)[k] = Absent
    BY DEF FoundIn, ContentsOf

\* A map agrees with the table when it has the value of every slot in use, and
\* nothing for the keys of no slot.
LEMMA ContentsAre ==
    ASSUME A!ArrayAssumption, NEW t, NEW n, Shape(t, n),
           NEW m, m = [k \in Key |-> m[k]],
           \A i \in 1 .. n : m[t[i].key] = t[i].val,
           \A k \in Key : (\A i \in 1 .. n : t[i].key # k) => m[k] = Absent
    PROVE  ContentsOf(t, n) = m
<1>1. ASSUME NEW k \in Key PROVE ContentsOf(t, n)[k] = m[k]
    <2>1. CASE \A i \in 1 .. n : t[i].key # k
        BY <2>1, NotInUse
    <2>2. CASE \E i \in 1 .. n : t[i].key = k
        <3>1. PICK i \in 1 .. n : t[i].key = k
            BY <2>2
        <3>2. ContentsOf(t, n)[k] = t[i].val
            BY <3>1, SlotInUse
        <3> QED
            BY <3>1, <3>2
    <2> QED
        BY <2>1, <2>2
<1>2. ContentsOf(t, n) = [k \in Key |-> ContentsOf(t, n)[k]]
    BY DEF ContentsOf
<1> QED
    BY <1>1, <1>2

\* The table holds as many keys as it has slots in use.
LEMMA StoredCount ==
    ASSUME A!ArrayAssumption, NEW t, NEW n, Shape(t, n)
    PROVE  Cardinality({k \in Key : ContentsOf(t, n)[k] # Absent}) = n
<1> DEFINE S == {k \in Key : ContentsOf(t, n)[k] # Absent}
           f == [i \in 1 .. n |-> t[i].key]
<1>1. n \in Nat
    BY DEF A!ArrayAssumption, Shape
<1>2. IsFiniteSet(1 .. n) /\ Cardinality(1 .. n) = n
    BY <1>1, FS_Interval
<1>3. \A i \in 1 .. n : f[i] \in S
    BY SlotInUse
<1>4. \A k \in S : \E i \in 1 .. n : f[i] = k
    BY NotInUse
<1>5. \A i, j \in 1 .. n : f[i] = f[j] => i = j
    BY DEF Shape
<1>6. f \in Bijection(1 .. n, S)
    BY <1>3, <1>4, <1>5 DEF Bijection, Injection, Surjection, IsInjective
<1>7. ExistsBijection(1 .. n, S)
    BY <1>6 DEF ExistsBijection
<1> QED
    BY <1>2, <1>7, FS_Bijection

-----------------------------------------------------------------------------
(* The map behind the table.                                                *)

\* The refinement mapping, before and after a step.
LEMMA Mapping ==
    /\ A!Contents = ContentsOf(table, total)
    /\ A!Contents' = ContentsOf(table', total')
    /\ \A k : A!Found(k) = FoundIn(table, total, k)
    BY DEF A!Contents, ContentsOf, A!Found, FoundIn

\* What KVMap's engine tells of a map.
LEMMA MapStatus ==
    ASSUME NEW m, NEW c
    PROVE  /\ A!Map!E!ExecStatus(m, c) =
                IF c.op = "SET"
                THEN IF m[c.key] # Absent \/ Cardinality({k \in Key : m[k] # Absent}) < Size
                     THEN "OK" ELSE "FAILED"
                ELSE IF m[c.key] # Absent THEN "OK" ELSE "NOT_FOUND"
           /\ A!Map!E!Execute(m, c) = [m EXCEPT ![c.key] = c.val]
           /\ A!Map!E!EmptyDb = [k \in Key |-> Absent]
    BY DEF A!Map!E!ExecStatus, A!Map!E!Stored, A!Map!E!Execute, A!Map!E!EmptyDb,
           A!Map!E!Cardinality, Cardinality

\* Every call of the map's Next, one by one.
LEMMA MapCalls ==
    /\ A!Map!Create \/ A!Map!Destroy => A!Map!Next
    /\ \A c \in A!Map!E!Command : A!Map!Write(c) => A!Map!Next
    /\ \A k \in Key : A!Map!Get(k) \/ A!Map!Exist(k) => A!Map!Next
    /\ \A k \in Key, v \in Value :
           /\ [op |-> "SET", key |-> k, val |-> v] \in A!Map!E!Command
           /\ [op |-> "MOD", key |-> k, val |-> v] \in A!Map!E!Command
           /\ [op |-> "DEL", key |-> k, val |-> Absent] \in A!Map!E!Command
    BY DEF A!Map!Next, A!Map!E!Command

-----------------------------------------------------------------------------
(* The calls.                                                               *)

\* What holds between a state and the next.
ArrayStep == ArrayInv' /\ [A!Map!Next]_(A!Map!vars)

\* An empty table.
LEMMA EmptyTable ==
    ASSUME A!ArrayAssumption
    PROVE  /\ Shape([i \in A!Slot |-> A!EmptySlot], 0)
           /\ \A t : ContentsOf(t, 0) = [k \in Key |-> Absent]
<1>1. Size \in Nat /\ 0 \in 0 .. Size
    BY DEF A!ArrayAssumption
<1>2. \A i \in A!Slot : ~(i <= 0)
    BY <1>1 DEF A!Slot
<1>3. \A t : \A k \in Key : FoundIn(t, 0, k) = {}
    BY DEF FoundIn
<1> QED
    BY <1>1, <1>2, <1>3 DEF Shape, A!EmptySlot, ContentsOf

\* A call that leaves the table alone leaves the map alone.
LEMMA SameTable ==
    ASSUME ArrayInv, UNCHANGED <<table, total, up, heap>>
    PROVE  ArrayInv' /\ A!Contents' = A!Contents /\ up' = up
    BY Mapping DEF ArrayInv, Shape, A!NoLeak

LEMMA CreateStep ==
    ASSUME A!ArrayAssumption, ArrayInv, A!Create
    PROVE  ArrayStep
<1>1. Shape(table', total') /\ total' = 0 /\ total = 0 /\ up' \in BOOLEAN
    BY EmptyTable DEF ArrayInv, A!Create
<1>2. heap' = IF up' THEN 1 + 2 * total' ELSE 0
    BY <1>1 DEF ArrayInv, A!Create, A!NoLeak
<1>3. ArrayInv'
    BY <1>1, <1>2 DEF ArrayInv, A!NoLeak, Shape
<1>4. A!Contents' = A!Contents
    BY <1>1, EmptyTable, Mapping
<1>5. \E ok \in BOOLEAN : up' = ok /\ reply' = A!Reply("CREATE", Absent, IF ok THEN 0 ELSE -1)
    <2>1. up = FALSE
        BY DEF ArrayInv, A!Create
    <2>2. \/ up' = TRUE /\ reply' = A!Reply("CREATE", Absent, 0)
          \/ up' = FALSE /\ reply' = A!Reply("CREATE", Absent, -1)
        BY <2>1 DEF A!Create
    <2> QED
        BY <2>2
<1>6. A!Map!Create
    BY <1>4, <1>5 DEF A!Create, A!Map!Create, A!Map!Reply, A!Reply
<1> QED
    BY <1>3, <1>6, MapCalls DEF ArrayStep

LEMMA DestroyStep ==
    ASSUME A!ArrayAssumption, ArrayInv, A!Destroy
    PROVE  ArrayStep
<1>1. Shape(table', total') /\ total' = 0 /\ up' = FALSE /\ up
    BY EmptyTable DEF A!Destroy
<1>2. heap' = 0
    <2>1. total \in Nat /\ heap = 1 + 2 * total /\ heap' = heap - 2 * total - 1
        BY <1>1 DEF A!ArrayAssumption, ArrayInv, A!Destroy, A!NoLeak, Shape
    <2> QED
        BY <2>1
<1>3. ArrayInv'
    BY <1>1, <1>2 DEF ArrayInv, A!NoLeak, Shape
<1>4. A!Contents' = [k \in Key |-> Absent]
    BY <1>1, EmptyTable, Mapping
<1>5. A!Map!Destroy
    BY <1>1, <1>4, MapStatus DEF A!Destroy, A!Map!Destroy, A!Map!Reply, A!Reply
<1> QED
    BY <1>3, <1>5, MapCalls DEF ArrayStep

\* What a call finds of a key, in the table and in the map.
LEMMA Lookup ==
    ASSUME A!ArrayAssumption, ArrayInv, NEW k \in Key
    PROVE  /\ A!Contents[k] = A!ValueOf(k)
           /\ A!Found(k) = {} => A!Contents[k] = Absent
           /\ A!Found(k) # {} =>
                 /\ A!First(A!Found(k)) \in 1 .. total
                 /\ table[A!First(A!Found(k))].key = k
                 /\ A!Contents[k] # Absent
<1>1. A!Contents[k] = A!ValueOf(k)
    BY DEF A!Contents, A!ValueOf
<1>2. A!Found(k) = {} => A!Contents[k] = Absent
    BY <1>1 DEF A!ValueOf
<1>3. ASSUME A!Found(k) # {}
      PROVE  /\ A!First(A!Found(k)) \in 1 .. total
             /\ table[A!First(A!Found(k))].key = k
             /\ A!Contents[k] # Absent
    <2>1. PICK i \in 1 .. total : table[i].key = k
        BY <1>3 DEF A!Found
    <2>2. A!First(A!Found(k)) = i /\ A!Contents[k] = table[i].val /\ table[i].val # Absent
        BY <2>1, SlotInUse, Mapping DEF ArrayInv
    <2> QED
        BY <2>1, <2>2
<1> QED
    BY <1>1, <1>2, <1>3

LEMMA ReadStep ==
    ASSUME A!ArrayAssumption, ArrayInv, NEW k \in Key, A!Get(k) \/ A!Exist(k)
    PROVE  ArrayStep
<1>1. UNCHANGED <<table, total, up, heap>> /\ up
    BY DEF A!Get, A!Exist
<1>2. ArrayInv' /\ A!Contents' = A!Contents /\ up' = up
    BY <1>1, SameTable
<1>3. CASE A!Get(k)
    BY <1>1, <1>2, <1>3, Lookup, MapCalls DEF A!Get, A!Map!Get, A!Map!Reply, A!Reply, ArrayStep
<1>4. CASE A!Exist(k)
    BY <1>1, <1>2, <1>4, Lookup, MapCalls DEF A!Exist, A!Map!Exist, A!Map!Reply, A!Reply, ArrayStep
<1> QED
    BY <1>3, <1>4

\* A write that returns ret as KVMap allows is one of its steps.
LEMMA Writes ==
    ASSUME NEW c \in A!Map!E!Command, NEW ret, up, up' = up,
           reply' = A!Reply(c.op, c.key, ret),
           LET status == A!Map!E!ExecStatus(A!Contents, c) IN
           \/ status = "OK" /\ ret = 0 /\ A!Contents' = A!Map!E!Execute(A!Contents, c)
           \/ status = "NOT_FOUND" /\ ret = 1 /\ A!Contents' = A!Contents
           \/ status = "FAILED" /\ ret = -1 /\ A!Contents' = A!Contents
           \/ status = "OK" /\ c.op # "DEL" /\ ret \in {-1, -2} /\ A!Contents' = A!Contents
    PROVE  [A!Map!Next]_(A!Map!vars)
<1>1. reply'.op = c.op /\ reply'.key = c.key /\ reply'.ret = ret
    BY DEF A!Reply
<1>2. reply' = A!Map!Reply(c.op, c.key, reply'.ret)
    BY <1>1 DEF A!Reply, A!Map!Reply
<1>3. A!Map!NotFound(c) = 1
    BY DEF A!Map!NotFound
<1>4. A!Map!Write(c)
    BY <1>1, <1>2, <1>3 DEF A!Map!Write
<1> QED
    BY <1>4, MapCalls

\* A call that refuses leaves everything as it is.
LEMMA RefusedStep ==
    ASSUME A!ArrayAssumption, ArrayInv, NEW k \in Key, NEW v \in Value, up,
           UNCHANGED <<table, total, up, heap>>,
           \/ A!Found(k) = {} /\ reply' = A!Reply("MOD", k, 1)
           \/ A!Found(k) = {} /\ total >= Size /\ reply' = A!Reply("SET", k, -1)
           \/ A!Found(k) = {} /\ ~(total >= Size) /\ reply' = A!Reply("SET", k, -2)
           \/ A!Found(k) # {} /\ reply' = A!Reply("SET", k, -2)
           \/ A!Found(k) # {} /\ reply' = A!Reply("MOD", k, -2)
    PROVE  ArrayStep
<1> DEFINE set == [op |-> "SET", key |-> k, val |-> v]
           mod == [op |-> "MOD", key |-> k, val |-> v]
<1>1. ArrayInv' /\ A!Contents' = A!Contents /\ up' = up
    BY SameTable
<1>2. Cardinality({q \in Key : A!Contents[q] # Absent}) = total
    BY StoredCount, Mapping DEF ArrayInv
<1>3. total \in Nat /\ Size \in Nat
    BY DEF ArrayInv, Shape, A!ArrayAssumption
<1>4. /\ A!Map!E!ExecStatus(A!Contents, set) =
            IF A!Contents[k] # Absent \/ total < Size THEN "OK" ELSE "FAILED"
      /\ A!Map!E!ExecStatus(A!Contents, mod) = IF A!Contents[k] # Absent THEN "OK" ELSE "NOT_FOUND"
    BY <1>2, MapStatus
<1>5. set \in A!Map!E!Command /\ mod \in A!Map!E!Command
    BY MapCalls
<1>6. /\ A!Found(k) = {} => A!Contents[k] = Absent
      /\ A!Found(k) # {} => A!Contents[k] # Absent
    BY Lookup
<1>7. CASE A!Found(k) = {} /\ reply' = A!Reply("MOD", k, 1)
    <2>1. [A!Map!Next]_(A!Map!vars)
        BY <1>1, <1>4, <1>5, <1>6, <1>7, Writes
    <2> QED
        BY <1>1, <2>1 DEF ArrayStep
<1>9. CASE A!Found(k) = {} /\ total >= Size /\ reply' = A!Reply("SET", k, -1)
    <2>1. [A!Map!Next]_(A!Map!vars)
        BY <1>1, <1>3, <1>4, <1>5, <1>6, <1>9, Writes
    <2> QED
        BY <1>1, <2>1 DEF ArrayStep
<1>10. CASE A!Found(k) = {} /\ ~(total >= Size) /\ reply' = A!Reply("SET", k, -2)
    <2>1. [A!Map!Next]_(A!Map!vars)
        BY <1>1, <1>3, <1>4, <1>5, <1>6, <1>10, Writes
    <2> QED
        BY <1>1, <2>1 DEF ArrayStep
<1>11. CASE A!Found(k) # {} /\ reply' = A!Reply("SET", k, -2)
    <2>1. [A!Map!Next]_(A!Map!vars)
        BY <1>1, <1>4, <1>5, <1>6, <1>11, Writes
    <2> QED
        BY <1>1, <2>1 DEF ArrayStep
<1>12. CASE A!Found(k) # {} /\ reply' = A!Reply("MOD", k, -2)
    <2>1. [A!Map!Next]_(A!Map!vars)
        BY <1>1, <1>4, <1>5, <1>6, <1>12, Writes
    <2> QED
        BY <1>1, <2>1 DEF ArrayStep
<1> QED
    BY <1>7, <1>9, <1>10, <1>11, <1>12

\* The table and the map after a step that has written to the table.
LEMMA WrittenStep ==
    ASSUME A!ArrayAssumption, ArrayInv, up, up' = up,
           NEW c \in A!Map!E!Command, reply' = A!Reply(c.op, c.key, 0),
           A!Map!E!ExecStatus(A!Contents, c) = "OK",
           Shape(table', total'), heap' = 1 + 2 * total',
           ContentsOf(table', total') = [A!Contents EXCEPT ![c.key] = c.val]
    PROVE  ArrayStep
<1>1. ArrayInv'
    BY DEF ArrayInv, A!NoLeak, Shape
<1>2. A!Contents' = A!Map!E!Execute(A!Contents, c)
    BY Mapping, MapStatus
<1>3. [A!Map!Next]_(A!Map!vars)
    BY <1>2, Writes
<1> QED
    BY <1>1, <1>3 DEF ArrayStep

\* The value of a stored key is replaced.
LEMMA OverwriteStep ==
    ASSUME A!ArrayAssumption, ArrayInv, up, NEW k \in Key, NEW v \in Value,
           A!Found(k) # {}, NEW op \in {"SET", "MOD"}, A!Overwrite(op, k, v)
    PROVE  ArrayStep
<1>1. CASE reply' = A!Reply(op, k, -2) /\ UNCHANGED <<table, total, up, heap>>
    BY <1>1, RefusedStep
<1>2. CASE /\ table' = [table EXCEPT ![A!First(A!Found(k))].val = v]
           /\ reply' = A!Reply(op, k, 0) /\ UNCHANGED <<total, up, heap>>
    <2> DEFINE i == A!First(A!Found(k))
               c == [op |-> op, key |-> k, val |-> v]
               m == [A!Contents EXCEPT ![k] = v]
    <2>1. i \in 1 .. total /\ table[i].key = k /\ A!Contents[k] # Absent
        BY Lookup
    <2> HIDE DEF i
    <2>2. i \in A!Slot /\ table[i] \in [key : Key, val : Value] /\ Shape(table, total)
        BY <2>1, SlotInUse DEF ArrayInv
    <2>3. table' = [table EXCEPT ![i] = [key |-> k, val |-> v]] /\ total' = total
        <3>1. [table[i] EXCEPT !.val = v] = [key |-> k, val |-> v]
            BY <2>1, <2>2
        <3>2. table' = [table EXCEPT ![i] = [table[i] EXCEPT !.val = v]] /\ total' = total
            BY <1>2 DEF i
        <3> QED
            BY <3>1, <3>2
    <2>4. /\ \A j \in A!Slot : table'[j].key = table[j].key
          /\ \A j \in A!Slot : j # i => table'[j] = table[j]
          /\ table'[i].val = v
        BY <2>1, <2>2, <2>3 DEF Shape
    <2>5. Shape(table', total')
        <3>1. table' \in [A!Slot -> [key : Key, val : Value] \cup {A!EmptySlot}]
            BY <2>2, <2>3 DEF Shape
        <3>2. \A j \in 1 .. total : j \in A!Slot
            BY <2>2, SlotInUse
        <3>3. \A j \in A!Slot : j <= total' <=> table'[j].key # Absent
            BY <2>2, <2>3, <2>4 DEF Shape
        <3>4. \A j, l \in 1 .. total' : table'[j].key = table'[l].key => j = l
            BY <2>2, <2>3, <2>4, <3>2 DEF Shape
        <3> QED
            BY <2>2, <2>3, <3>1, <3>3, <3>4 DEF Shape
    <2>6. ContentsOf(table', total') = m
        <3>1. m = [q \in Key |-> m[q]] /\ m[k] = v /\ \A q \in Key : q # k => m[q] = A!Contents[q]
            BY DEF A!Contents
        <3> HIDE DEF m
        <3>2. ASSUME NEW j \in 1 .. total' PROVE m[table'[j].key] = table'[j].val
            <4>1. j \in 1 .. total /\ j \in A!Slot /\ table[j].key \in Key
                  /\ A!Contents[table[j].key] = table[j].val
                BY <2>2, <2>3, SlotInUse, Mapping
            <4>2. CASE j = i
                BY <2>1, <2>4, <3>1, <4>1, <4>2
            <4>3. CASE j # i
                <5>1. table[j].key # k
                    BY <2>1, <2>2, <4>1, <4>3 DEF Shape
                <5> QED
                    BY <2>4, <3>1, <4>1, <4>3, <5>1
            <4> QED
                BY <4>2, <4>3
        <3>3. ASSUME NEW q \in Key, \A j \in 1 .. total' : table'[j].key # q PROVE m[q] = Absent
            <4>1. \A j \in 1 .. total : table[j].key # q
                BY <2>2, <2>3, <2>4, <3>3, SlotInUse
            <4> QED
                BY <2>1, <3>1, <4>1, NotInUse, Mapping
        <3> QED
            BY <2>5, <3>1, <3>2, <3>3, ContentsAre
    <2>7. c \in A!Map!E!Command /\ A!Map!E!ExecStatus(A!Contents, c) = "OK"
        <3>1. c \in A!Map!E!Command
            BY MapCalls
        <3>2. c.key = k
            OBVIOUS
        <3> HIDE DEF c
        <3>3. A!Contents[c.key] # Absent
            BY <2>1, <3>2
        <3>4. A!Map!E!ExecStatus(A!Contents, c) = "OK"
            BY <3>3, MapStatus
        <3> QED
            BY <3>1, <3>4
    <2>8. heap' = 1 + 2 * total'
        BY <1>2 DEF ArrayInv, A!NoLeak
    <2> QED
        BY <1>2, <2>5, <2>6, <2>7, <2>8, WrittenStep
<1> QED
    BY <1>1, <1>2 DEF A!Overwrite

\* A new key takes the slot behind the last one in use.
LEMMA InsertStep ==
    ASSUME A!ArrayAssumption, ArrayInv, up, NEW k \in Key, NEW v \in Value,
           A!Found(k) = {}, ~A!Full,
           table' = [table EXCEPT ![A!Place] = [key |-> k, val |-> v]],
           total' = total + 1, heap' = heap + 2,
           reply' = A!Reply("SET", k, 0), up' = up
    PROVE  ArrayStep
<1> DEFINE n == total + 1
           c == [op |-> "SET", key |-> k, val |-> v]
           m == [A!Contents EXCEPT ![k] = v]
<1>1. total \in Nat /\ Size \in Nat /\ total < Size /\ n \in A!Slot /\ n \in 0 .. Size
    BY DEF ArrayInv, Shape, A!ArrayAssumption, A!Full, A!Slot
<1>2. Shape(table, total) /\ Absent \notin Key
    BY DEF ArrayInv, A!ArrayAssumption
<1>3. A!Place = n
    <2>1. \A i \in 1 .. total : table[i].key # Absent
        BY <1>2, SlotInUse
    <2>2. A!Found(Absent) = {}
        BY <2>1 DEF A!Found
    <2> QED
        BY <2>2 DEF A!Place
<1> HIDE DEF n
<1>4. /\ table'[n] = [key |-> k, val |-> v]
      /\ \A j \in A!Slot : j # n => table'[j] = table[j]
      /\ total' = n
    BY <1>1, <1>2, <1>3 DEF Shape, n
<1>5. \A j \in 1 .. n : j = n \/ j \in 1 .. total
    BY <1>1 DEF n
<1>6. \A j \in 1 .. total : j \in A!Slot /\ j # n /\ j \in 1 .. n /\ table[j].key # k
    BY <1>1, NotInUse DEF n, A!Slot, A!Found
<1>7. Shape(table', total')
    <2>1. table' \in [A!Slot -> [key : Key, val : Value] \cup {A!EmptySlot}]
        BY <1>1, <1>2, <1>3 DEF Shape
    <2>2. ASSUME NEW j \in A!Slot PROVE j <= n <=> table'[j].key # Absent
        <3>1. CASE j = n
            BY <1>1, <1>2, <1>4, <3>1
        <3>2. CASE j # n
            <4>1. j <= n <=> j <= total
                BY <1>1, <3>2 DEF n, A!Slot
            <4> QED
                BY <1>2, <1>4, <3>2, <4>1 DEF Shape
        <3> QED
            BY <3>1, <3>2
    <2>3. ASSUME NEW j \in 1 .. n, NEW l \in 1 .. n, table'[j].key = table'[l].key
          PROVE  j = l
        <3>1. CASE j \in 1 .. total /\ l \in 1 .. total
            BY <1>2, <1>4, <1>6, <2>3, <3>1 DEF Shape
        <3>2. CASE j = n /\ l \in 1 .. total
            BY <1>4, <1>6, <2>3, <3>2
        <3>3. CASE l = n /\ j \in 1 .. total
            BY <1>4, <1>6, <2>3, <3>3
        <3> QED
            BY <1>5, <3>1, <3>2, <3>3
    <2> QED
        BY <1>1, <1>4, <2>1, <2>2, <2>3 DEF Shape
<1>8. ContentsOf(table', total') = m
    <2>1. m = [q \in Key |-> m[q]] /\ m[k] = v /\ \A q \in Key : q # k => m[q] = A!Contents[q]
        BY DEF A!Contents
    <2> HIDE DEF m
    <2>2. ASSUME NEW j \in 1 .. total' PROVE m[table'[j].key] = table'[j].val
        <3>1. CASE j = n
            BY <1>4, <2>1, <3>1
        <3>2. CASE j \in 1 .. total
            <4>1. table[j].key \in Key /\ A!Contents[table[j].key] = table[j].val
                BY <1>2, <3>2, SlotInUse, Mapping
            <4> QED
                BY <1>4, <1>6, <2>1, <3>2, <4>1
        <3> QED
            BY <1>4, <1>5, <3>1, <3>2
    <2>3. ASSUME NEW q \in Key, \A j \in 1 .. total' : table'[j].key # q PROVE m[q] = Absent
        <3>1. n \in 1 .. n
            BY <1>1 DEF n
        <3>2. q # k
            BY <1>4, <2>3, <3>1
        <3>3. \A j \in 1 .. total : table[j].key # q
            BY <1>4, <1>6, <2>3
        <3> QED
            BY <2>1, <3>2, <3>3, NotInUse, Mapping
    <2>4. \A j \in 1 .. total' : m[table'[j].key] = table'[j].val
        BY <2>2
    <2>5. \A q \in Key : (\A j \in 1 .. total' : table'[j].key # q) => m[q] = Absent
        BY <2>3
    <2>6. m = [q \in Key |-> m[q]]
        BY <2>1
    <2> QED
        BY ONLY A!ArrayAssumption, <1>7, <2>4, <2>5, <2>6, ContentsAre
<1>9. c \in A!Map!E!Command /\ A!Map!E!ExecStatus(A!Contents, c) = "OK"
    <2>1. Cardinality({q \in Key : A!Contents[q] # Absent}) = total
        BY <1>2, StoredCount, Mapping
    <2> QED
        <3>1. c \in A!Map!E!Command
            BY MapCalls
        <3>2. c.op = "SET"
            OBVIOUS
        <3> QED
            BY <1>1, <2>1, <3>1, <3>2, MapStatus
<1>10. heap' = 1 + 2 * total'
    <2>1. heap = 1 + 2 * total
        BY DEF ArrayInv, A!NoLeak
    <2> QED
        BY <1>1, <2>1
<1> QED
    BY <1>7, <1>8, <1>9, <1>10, WrittenStep

\* The last slot in use closes the gap that a deleted key leaves.
LEMMA DeleteStep ==
    ASSUME A!ArrayAssumption, ArrayInv, up, NEW k \in Key, A!Found(k) # {},
           table' = A!Closed(A!First(A!Found(k))),
           total' = total - 1, heap' = heap - 2,
           reply' = A!Reply("DEL", k, 0), up' = up
    PROVE  ArrayStep
<1> DEFINE i == A!First(A!Found(k))
           From(j) == IF j = i THEN total ELSE j
           c == [op |-> "DEL", key |-> k, val |-> Absent]
           m == [A!Contents EXCEPT ![k] = Absent]
<1>1. i \in 1 .. total /\ table[i].key = k /\ A!Contents[k] # Absent
    BY Lookup
<1>2. Shape(table, total) /\ Absent \notin Key /\ total \in Nat /\ Size \in Nat /\ total <= Size
    BY DEF ArrayInv, A!ArrayAssumption, Shape
<1>3. table' = A!Closed(i)
    OBVIOUS
<1> HIDE DEF i
<1>4. i \in A!Slot /\ total \in A!Slot /\ total \in 1 .. total /\ DOMAIN table = A!Slot
    BY <1>1, <1>2 DEF A!Slot, Shape
<1>5. /\ table'[total] = A!EmptySlot
      /\ \A j \in A!Slot : j # i /\ j # total => table'[j] = table[j]
      /\ i # total => table'[i] = table[total]
    BY <1>3, <1>4 DEF A!Closed
<1>6. \A j \in 1 .. total' : /\ j \in A!Slot /\ From(j) \in 1 .. total /\ From(j) # i
                             /\ j # total /\ table'[j] = table[From(j)]
    <2>1. ASSUME NEW j \in 1 .. total'
          PROVE  j \in A!Slot /\ From(j) \in 1 .. total /\ From(j) # i /\ j # total
        BY <1>1, <1>2 DEF A!Slot
    <2>2. ASSUME NEW j \in 1 .. total' PROVE table'[j] = table[From(j)]
        BY <1>5, <2>1
    <2> QED
        BY <2>1, <2>2
<1>7. \A l \in 1 .. total : l # i => \E j \in 1 .. total' : From(j) = l
    <2> SUFFICES ASSUME NEW l \in 1 .. total, l # i
                 PROVE  \E j \in 1 .. total' : From(j) = l
        OBVIOUS
    <2>1. CASE l = total
        <3>1. i \in 1 .. total' /\ From(i) = l
            BY <1>1, <1>2, <2>1
        <3> QED
            BY <3>1
    <2>2. CASE l # total
        <3>1. l \in 1 .. total' /\ From(l) = l
            BY <1>1, <1>2, <2>2
        <3> QED
            BY <3>1
    <2> QED
        BY <2>1, <2>2
<1>8. \A j, l \in 1 .. total' : From(j) = From(l) => j = l
    BY <1>2, <1>6
<1> HIDE DEF From
<1>9. Shape(table', total')
    <2>1. total' \in 0 .. Size
        BY <1>1, <1>2
    <2>2. table' \in [A!Slot -> [key : Key, val : Value] \cup {A!EmptySlot}]
        BY <1>2, <1>3, <1>4 DEF A!Closed, Shape
    <2>3. ASSUME NEW j \in A!Slot PROVE j <= total' <=> table'[j].key # Absent
        <3>1. j \in Nat /\ 1 <= j
            BY <1>2 DEF A!Slot
        <3>2. CASE j <= total'
            <4>1. j \in 1 .. total'
                BY <1>2, <3>1, <3>2
            <4>2. table'[j] = table[From(j)] /\ From(j) \in 1 .. total
                BY <1>6, <4>1
            <4>3. table[From(j)].key \in Key
                BY <1>2, <4>2, SlotInUse
            <4> QED
                BY <1>2, <3>2, <4>2, <4>3
        <3>3. CASE j = total
            BY <1>2, <1>5, <3>3 DEF A!EmptySlot
        <3>4. CASE ~(j <= total)
            <4>1. j # i /\ j # total /\ ~(j <= total')
                BY <1>1, <1>2, <3>1, <3>4
            <4>2. table'[j] = table[j]
                BY <1>5, <4>1
            <4>3. table[j].key = Absent
                BY <1>2, <3>4 DEF Shape
            <4> QED
                BY <4>1, <4>2, <4>3
        <3>5. j <= total' \/ j = total \/ ~(j <= total)
            BY <1>2, <3>1
        <3> QED
            BY <3>2, <3>3, <3>4, <3>5
    <2>4. ASSUME NEW j \in 1 .. total', NEW l \in 1 .. total', table'[j].key = table'[l].key
          PROVE  j = l
        <3>1. From(j) = From(l)
            BY <1>2, <1>6, <2>4 DEF Shape
        <3> QED
            BY <1>8, <3>1
    <2> QED
        BY <2>1, <2>2, <2>3, <2>4 DEF Shape
<1>10. ContentsOf(table', total') = m
    <2>1. m = [q \in Key |-> m[q]] /\ m[k] = Absent /\ \A q \in Key : q # k => m[q] = A!Contents[q]
        BY DEF A!Contents
    <2> HIDE DEF m
    <2>2. ASSUME NEW j \in 1 .. total' PROVE m[table'[j].key] = table'[j].val
        <3>1. table'[j] = table[From(j)] /\ From(j) \in 1 .. total /\ From(j) # i
            BY <1>6
        <3>2. /\ table[From(j)].key \in Key
              /\ A!Contents[table[From(j)].key] = table[From(j)].val
            BY <1>2, <3>1, SlotInUse, Mapping
        <3>3. table[From(j)].key # k
            BY <1>1, <1>2, <3>1 DEF Shape
        <3> QED
            BY <2>1, <3>1, <3>2, <3>3
    <2>3. ASSUME NEW q \in Key, \A j \in 1 .. total' : table'[j].key # q, q # k
          PROVE  m[q] = Absent
        <3>1. ASSUME NEW l \in 1 .. total PROVE table[l].key # q
            <4>1. CASE l = i
                BY <1>1, <2>3, <4>1
            <4>2. CASE l # i
                <5>1. PICK j \in 1 .. total' : From(j) = l
                    BY <1>7, <4>2
                <5> QED
                    BY <1>6, <2>3, <5>1
            <4> QED
                BY <4>1, <4>2
        <3> QED
            BY <2>1, <2>3, <3>1, NotInUse, Mapping
    <2>4. \A j \in 1 .. total' : m[table'[j].key] = table'[j].val
        BY <2>2
    <2>5. \A q \in Key : (\A j \in 1 .. total' : table'[j].key # q) => m[q] = Absent
        BY <2>1, <2>3
    <2>6. m = [q \in Key |-> m[q]]
        BY <2>1
    <2> QED
        BY ONLY A!ArrayAssumption, <1>9, <2>4, <2>5, <2>6, ContentsAre
<1>11. c \in A!Map!E!Command /\ A!Map!E!ExecStatus(A!Contents, c) = "OK"
    <2>1. c \in [op : {"DEL"}, key : Key, val : {Absent}] /\ c.key = k /\ c.op = "DEL"
        OBVIOUS
    <2>2. c \in A!Map!E!Command
        BY <2>1 DEF A!Map!E!Command
    <2> HIDE DEF c
    <2>3. A!Contents[c.key] # Absent
        BY <1>1, <2>1
    <2>4. A!Map!E!ExecStatus(A!Contents, c) = "OK"
        BY <2>1, <2>3, MapStatus
    <2> QED
        BY <2>2, <2>4
<1>12. heap' = 1 + 2 * total'
    <2>1. heap = 1 + 2 * total
        BY DEF ArrayInv, A!NoLeak
    <2> QED
        BY <1>2, <2>1
<1> QED
    BY <1>9, <1>10, <1>11, <1>12, WrittenStep

-----------------------------------------------------------------------------
(* The theorems.                                                            *)

LEMMA ArrayInit ==
    ASSUME A!ArrayAssumption, A!Init
    PROVE  ArrayInv /\ A!Map!Init
<1>1. Shape(table, total) /\ total = 0 /\ up = FALSE
    BY EmptyTable DEF A!Init
<1>2. ArrayInv
    BY <1>1 DEF A!Init, ArrayInv, A!NoLeak
<1>3. A!Contents = A!Map!E!EmptyDb
    BY <1>1, EmptyTable, Mapping, MapStatus
<1> QED
    BY <1>1, <1>2, <1>3 DEF A!Init, A!Map!Init, A!Map!Reply, A!Reply

LEMMA SetStep ==
    ASSUME A!ArrayAssumption, ArrayInv, NEW k \in Key, NEW v \in Value, A!Set(k, v)
    PROVE  ArrayStep
<1>1. CASE A!Found(k) # {} /\ A!Overwrite("SET", k, v)
    BY <1>1, OverwriteStep DEF A!Set
<1>2. CASE /\ A!Found(k) = {} /\ A!Full
           /\ reply' = A!Reply("SET", k, -1) /\ UNCHANGED <<table, total, up, heap>>
    BY <1>2, RefusedStep DEF A!Set, A!Full
<1>3. CASE /\ A!Found(k) = {} /\ ~A!Full
           /\ \E failed \in 1 .. 2 : heap' = heap + (failed - 1) - A!Undone(failed)
           /\ reply' = A!Reply("SET", k, -2) /\ UNCHANGED <<table, total, up>>
    <2>1. heap \in Nat
        <3>1. total \in Nat
            BY DEF ArrayInv, Shape, A!ArrayAssumption
        <3> QED
            BY <3>1 DEF ArrayInv, A!NoLeak
    <2>2. heap' = heap
        BY <1>3, <2>1 DEF A!Undone
    <2> QED
        BY <1>3, <2>2, RefusedStep DEF A!Set, A!Full
<1>4. CASE /\ A!Found(k) = {} /\ ~A!Full
           /\ table' = [table EXCEPT ![A!Place] = [key |-> k, val |-> v]]
           /\ total' = total + 1
           /\ heap' = heap + 2
           /\ reply' = A!Reply("SET", k, 0) /\ UNCHANGED up
    BY <1>4, InsertStep DEF A!Set
<1> QED
    BY <1>1, <1>2, <1>3, <1>4 DEF A!Set

LEMMA ModStep ==
    ASSUME A!ArrayAssumption, ArrayInv, NEW k \in Key, NEW v \in Value, A!Mod(k, v)
    PROVE  ArrayStep
<1>1. CASE A!Found(k) # {} /\ A!Overwrite("MOD", k, v)
    BY <1>1, OverwriteStep DEF A!Mod
<1>2. CASE /\ A!Found(k) = {}
           /\ reply' = A!Reply("MOD", k, 1) /\ UNCHANGED <<table, total, up, heap>>
    BY <1>2, RefusedStep DEF A!Mod
<1> QED
    BY <1>1, <1>2 DEF A!Mod

\* Every call keeps the invariant and is a step of the map.
LEMMA ArrayNext ==
    ASSUME A!ArrayAssumption, ArrayInv, [A!Next]_(A!vars)
    PROVE  ArrayStep
<1>1. CASE A!Create
    BY <1>1, CreateStep
<1>2. CASE A!Destroy
    BY <1>2, DestroyStep
<1>3. CASE \E k \in Key, v \in Value : A!Set(k, v)
    BY <1>3, SetStep
<1>4. CASE \E k \in Key, v \in Value : A!Mod(k, v)
    BY <1>4, ModStep
<1>5. CASE \E k \in Key : A!Del(k)
    <2>1. PICK k \in Key : A!Del(k)
        BY <1>5
    <2>2. CASE A!Found(k) # {}
        BY <2>1, <2>2, DeleteStep DEF A!Del
    <2>3. CASE A!Found(k) = {}
        <3>1. /\ reply' = A!Reply("DEL", k, 1) /\ UNCHANGED <<table, total, up, heap>> /\ up
              /\ A!Contents[k] = Absent
            BY <2>1, <2>3, Lookup DEF A!Del
        <3>2. ArrayInv' /\ A!Contents' = A!Contents /\ up' = up
            BY <3>1, SameTable
        <3> DEFINE c == [op |-> "DEL", key |-> k, val |-> Absent]
        <3>3. /\ c \in [op : {"DEL"}, key : Key, val : {Absent}]
              /\ c.key = k /\ c.op = "DEL"
            OBVIOUS
        <3>4. c \in A!Map!E!Command
            BY <3>3 DEF A!Map!E!Command
        <3> HIDE DEF c
        <3>5. A!Map!E!ExecStatus(A!Contents, c) = "NOT_FOUND"
            BY <3>1, <3>3, MapStatus
        <3>6. [A!Map!Next]_(A!Map!vars)
            BY <3>1, <3>2, <3>3, <3>4, <3>5, Writes
        <3> QED
            BY <3>2, <3>6 DEF ArrayStep
    <2> QED
        BY <2>2, <2>3
<1>6. CASE \E k \in Key : A!Get(k) \/ A!Exist(k)
    BY <1>6, ReadStep
<1>7. CASE UNCHANGED A!vars
    <2>1. ArrayInv' /\ A!Contents' = A!Contents /\ up' = up /\ reply' = reply
        BY <1>7, SameTable DEF A!vars
    <2> QED
        BY <2>1 DEF ArrayStep, A!Map!vars
<1> QED
    BY <1>1, <1>2, <1>3, <1>4, <1>5, <1>6, <1>7 DEF A!Next

\* After any sequence of calls, whichever allocations fail, the slots below total
\* hold different keys and the others nothing, and the engine holds the memory of
\* its table and of the stored keys, and none after kvs_array_destory.
THEOREM ArrayStaysCompact ==
    ASSUME A!ArrayAssumption
    PROVE  A!Spec => [](A!TypeOK /\ A!Compact /\ A!NoLeak)
<1>1. A!Init => ArrayInv
    BY ArrayInit
<1>2. ArrayInv /\ [A!Next]_(A!vars) => ArrayInv'
    BY ArrayNext DEF ArrayStep
<1>3. ArrayInv => A!TypeOK /\ A!Compact /\ A!NoLeak
    <2>1. ArrayInv => heap \in Nat
        <3>1. ArrayInv => total \in Nat
            BY DEF ArrayInv, Shape, A!ArrayAssumption
        <3> QED
            BY <3>1 DEF ArrayInv, A!NoLeak
    <2> QED
        BY <2>1 DEF ArrayInv, Shape, A!TypeOK, A!Compact
<1> QED
    BY <1>1, <1>2, <1>3, PTL DEF A!Spec

\* kvs_array_set, mod, del, get and exist change what kvs_array_foreach visits as
\* KVMap's commands change a map, and return what they would return for it: a
\* stored key is overwritten in a full table, a new one is refused there, and a
\* deletion that moves the last slot loses no key.
THEOREM ArrayImplementsMap ==
    ASSUME A!ArrayAssumption
    PROVE  A!Spec => A!Map!Spec
<1>1. A!Init => ArrayInv /\ A!Map!Init
    BY ArrayInit
<1>2. ArrayInv /\ [A!Next]_(A!vars) => ArrayInv' /\ [A!Map!Next]_(A!Map!vars)
    BY ArrayNext DEF ArrayStep
<1> QED
    BY <1>1, <1>2, PTL DEF A!Spec, A!Map!Spec

-----------------------------------------------------------------------------
(* The hash engine.                                                         *)

Node == [key : H!Key, val : Value]

\* A function with one value replaced, a chain with one value replaced, and a
\* chain with a new head: named, so that the provers match them as terms.
Put(f, i, x) == [f EXCEPT ![i] = x]
Revalued(s, i, v) == [s EXCEPT ![i].val = v]
Headed(s, k, v) == <<[key |-> k, val |-> v]>> \o s

\* The constants of the hash engine.
LEMMA HashConstants ==
    ASSUME H!HashAssumption
    PROVE  /\ IsFiniteSet(H!Key)
           /\ Absent \notin Value
           /\ MaxTableSize \in Nat \ {0}
<1>1. /\ IsFiniteSet(AnyKey) /\ Absent \notin Value /\ MaxTableSize \in Nat \ {0}
    BY DEF H!HashAssumption, H!IsFiniteSet, IsFiniteSet
<1>2. H!Key \subseteq AnyKey
    BY DEF H!Key
<1> QED
    BY <1>1, <1>2, FS_Subset

\* A set that holds 0 and the successor of each of its numbers holds them all.
LEMMA NatSetInduction ==
    ASSUME NEW S, 0 \in S, \A n \in Nat : n \in S => n + 1 \in S
    PROVE  \A n \in Nat : n \in S
<1> DEFINE T == Nat \ S
           Below == OpToRel(<, Nat)
<1> SUFFICES ASSUME T # {} PROVE FALSE
    OBVIOUS
<1>1. IsWellFoundedOn(Below, Nat)
    BY NatLessThanWellFounded
<1>2. \A x, y \in Nat : <<x, y>> \in Below <=> x < y
    BY DEF OpToRel
<1>3. T \subseteq Nat
    OBVIOUS
<1> HIDE DEF T, Below
<1>4. PICK x \in T : \A y \in T : ~ (<<y, x>> \in Below)
    BY <1>1, <1>3, WFMin
<1>5. x \in Nat /\ x # 0 /\ x - 1 \in Nat /\ x - 1 < x
    BY <1>3 DEF T
<1>6. x - 1 \notin T
    BY <1>2, <1>4, <1>5
<1> QED
    BY <1>4, <1>5, <1>6 DEF T

\* f has the sums of the first characters of a key, up to N of them.
IsSum(f, k, N) == f = [i \in 0 .. N |-> IF i = 0 THEN 0 ELSE f[i - 1] + k[i]]

\* The same, sum by sum.
LEMMA SumSteps ==
    ASSUME NEW f, NEW k, NEW N \in Nat, IsSum(f, k, N)
    PROVE  f[0] = 0 /\ \A i \in 0 .. N : i # 0 => f[i] = f[i - 1] + k[i]
<1>1. 0 \in 0 .. N
    OBVIOUS
<1> QED
    BY <1>1 DEF IsSum

\* The sums exist.
LEMMA SumExists ==
    ASSUME NEW k
    PROVE  \A N \in Nat : \E f : IsSum(f, k, N)
<1> DEFINE S == {N \in Nat : \E f : IsSum(f, k, N)}
<1>1. 0 \in S
    <2>1. PICK f : f = [i \in 0 .. 0 |-> 0]
        OBVIOUS
    <2>2. \A i \in 0 .. 0 : i = 0
        OBVIOUS
    <2>3. IsSum(f, k, 0)
        BY <2>1, <2>2 DEF IsSum
    <2> QED
        BY <2>3
<1>2. ASSUME NEW N \in Nat, N \in S PROVE N + 1 \in S
    <2>1. PICK f : IsSum(f, k, N)
        BY <1>2
    <2>2. f[0] = 0 /\ \A i \in 0 .. N : i # 0 => f[i] = f[i - 1] + k[i]
        BY <2>1, SumSteps
    <2>3. PICK h : h = [i \in 0 .. N + 1 |-> IF i <= N THEN f[i] ELSE f[N] + k[N + 1]]
        OBVIOUS
    <2>4. (\A i \in 0 .. N : h[i] = f[i]) /\ h[N + 1] = f[N] + k[N + 1]
        BY <2>3
    <2>5. ASSUME NEW i \in 0 .. N + 1
          PROVE  h[i] = IF i = 0 THEN 0 ELSE h[i - 1] + k[i]
        <3>1. CASE i = 0
            BY <2>2, <2>4, <3>1
        <3>2. CASE i = N + 1
            <4>1. i # 0 /\ i - 1 = N /\ N \in 0 .. N
                BY <3>2
            <4> QED
                BY <2>4, <3>2, <4>1
        <3>3. CASE i # 0 /\ i # N + 1
            <4>1. i \in 0 .. N /\ i - 1 \in 0 .. N
                BY <3>3
            <4> QED
                BY <2>2, <2>4, <3>3, <4>1
        <3> QED
            BY <3>1, <3>2, <3>3
    <2>6. h = [i \in 0 .. N + 1 |-> h[i]]
        BY <2>3
    <2>7. IsSum(h, k, N + 1)
        BY <2>5, <2>6 DEF IsSum
    <2> QED
        BY <2>7
<1> HIDE DEF S
<1>3. \A N \in Nat : N \in S
    BY <1>1, <1>2, NatSetInduction
<1> QED
    BY <1>3 DEF S

\* A key that has a chain has it in the table.
LEMMA HashInTable ==
    ASSUME NEW k \in H!Key PROVE H!Hash(k) \in H!Index
    BY DEF H!Key

\* _hash does not leave the table for a key of characters up to 127.
LEMMA PlainInTable ==
    ASSUME H!HashAssumption, NEW k \in Seq(1 .. 127)
    PROVE  H!Hash(k) \in H!Index
<1> DEFINE f == CHOOSE f : IsSum(f, k, Len(k))
<1>1. k \in Seq(1 .. 127) /\ Len(k) \in Nat /\ \A i \in 1 .. Len(k) : k[i] \in Nat
    <2>1. PICK C : C = 1 .. 127
        OBVIOUS
    <2>2. k \in Seq(C) /\ C \subseteq Nat
        BY <2>1
    <2>3. Len(k) \in Nat /\ \A i \in 1 .. Len(k) : k[i] \in C
        BY ONLY <2>2
    <2> QED
        BY <2>2, <2>3
<1>2. \E g : IsSum(g, k, Len(k))
    BY <1>1, SumExists
<1>3. IsSum(f, k, Len(k))
    BY <1>2
<1>4. H!Hash(k) = H!Rem(f[Len(k)], MaxTableSize)
    BY DEF H!Hash, IsSum
<1> HIDE DEF f
<1>5. f[0] = 0 /\ \A i \in 0 .. Len(k) : i # 0 => f[i] = f[i - 1] + k[i]
    BY <1>1, <1>3, SumSteps
<1> DEFINE S == {n \in Nat : n <= Len(k) => f[n] \in Nat}
<1>6. 0 \in S
    BY <1>5
<1>7. ASSUME NEW n \in Nat, n \in S PROVE n + 1 \in S
    <2> SUFFICES ASSUME n + 1 <= Len(k) PROVE f[n + 1] \in Nat
        OBVIOUS
    <2>1. /\ n + 1 \in 0 .. Len(k) /\ n + 1 \in 1 .. Len(k) /\ n + 1 # 0
          /\ (n + 1) - 1 = n /\ n <= Len(k)
        BY <1>1
    <2>2. f[n] \in Nat /\ k[n + 1] \in Nat
        BY <1>1, <1>7, <2>1
    <2>3. f[n + 1] = f[n] + k[n + 1]
        BY <1>5, <2>1
    <2> QED
        BY <2>2, <2>3
<1> HIDE DEF S
<1>8. \A n \in Nat : n \in S
    BY <1>6, <1>7, NatSetInduction
<1>9. f[Len(k)] \in Nat
    BY <1>1, <1>8 DEF S
<1> QED
    BY <1>4, <1>9, HashConstants DEF H!Index, H!Rem

-----------------------------------------------------------------------------
(* One chain.                                                               *)

\* The chain s, of index i, has nodes of that index with different keys.
Good(s, i) ==
    /\ s \in Seq(Node)
    /\ \A p \in DOMAIN s : H!Hash(s[p].key) = i
    /\ \A p, q \in DOMAIN s : s[p].key = s[q].key => p = q

\* What a walk along the chain s finds of the key k.
ValueIn(s, k) ==
    IF \E p \in DOMAIN s : s[p].key = k
    THEN s[CHOOSE p \in DOMAIN s : s[p].key = k].val
    ELSE Absent

\* Two sequences, one behind the other.
LEMMA Joined ==
    ASSUME NEW S, NEW a \in Seq(S), NEW b \in Seq(S)
    PROVE  /\ a \o b \in Seq(S) /\ Len(a \o b) = Len(a) + Len(b)
           /\ DOMAIN (a \o b) = 1 .. Len(a) + Len(b)
           /\ \A p \in 1 .. Len(a) : (a \o b)[p] = a[p]
           /\ \A p \in 1 .. Len(b) : (a \o b)[Len(a) + p] = b[p]
    OBVIOUS

\* A node has a key and a value.
LEMMA GoodNode ==
    ASSUME H!HashAssumption, NEW s, NEW i, Good(s, i), NEW p \in DOMAIN s
    PROVE  s[p] \in Node /\ s[p].key \in H!Key /\ s[p].val \in Value /\ s[p].val # Absent
<1>1. s[p] \in Node
    BY DEF Good
<1> QED
    BY <1>1, HashConstants DEF Node

\* A walk finds the node of the key.
LEMMA ValueAt ==
    ASSUME H!HashAssumption, NEW s, NEW i, Good(s, i), NEW p \in DOMAIN s
    PROVE  ValueIn(s, s[p].key) = s[p].val
<1> DEFINE k == s[p].key
           c == CHOOSE q \in DOMAIN s : s[q].key = k
<1>1. c \in DOMAIN s /\ s[c].key = k
    OBVIOUS
<1> HIDE DEF c
<1>2. c = p
    BY <1>1 DEF Good
<1> QED
    BY <1>2 DEF ValueIn, c

\* A chain without a node of the key has no value for it.
LEMMA ValueNone ==
    ASSUME NEW s, NEW k, \A p \in DOMAIN s : s[p].key # k
    PROVE  ValueIn(s, k) = Absent
    BY DEF ValueIn

\* Two chains that share the node of a key, if there is one, agree on it.
LEMMA ValueSame ==
    ASSUME H!HashAssumption, NEW s, NEW t, NEW i, Good(s, i), Good(t, i), NEW k,
           \A p \in DOMAIN s : s[p].key = k => \E q \in DOMAIN t : t[q] = s[p],
           \A q \in DOMAIN t : t[q].key = k => \E p \in DOMAIN s : t[q] = s[p]
    PROVE  ValueIn(t, k) = ValueIn(s, k)
<1>1. CASE \E p \in DOMAIN s : s[p].key = k
    <2>1. PICK p \in DOMAIN s : s[p].key = k
        BY <1>1
    <2>2. PICK q \in DOMAIN t : t[q] = s[p]
        BY <2>1
    <2>3. ValueIn(s, k) = s[p].val
        BY <2>1, ValueAt
    <2>4. ValueIn(t, k) = t[q].val
        BY <2>1, <2>2, ValueAt
    <2> QED
        BY <2>2, <2>3, <2>4
<1>2. CASE \A p \in DOMAIN s : s[p].key # k
    <2>1. \A q \in DOMAIN t : t[q].key # k
        BY <1>2
    <2> QED
        BY <1>2, <2>1, ValueNone
<1> QED
    BY <1>1, <1>2

\* A new node in front of the chain.
LEMMA InsertChain ==
    ASSUME H!HashAssumption, NEW s, NEW k \in H!Key, NEW v \in Value,
           Good(s, H!Hash(k)), \A p \in DOMAIN s : s[p].key # k,
           NEW t, t = Headed(s, k, v)
    PROVE  /\ Good(t, H!Hash(k))
           /\ ValueIn(t, k) = v
           /\ \A q \in H!Key : q # k => ValueIn(t, q) = ValueIn(s, q)
<1> USE DEF Headed
<1> DEFINE n == [key |-> k, val |-> v]
<1>1. n \in Node /\ n.key = k /\ n.val = v
    BY DEF Node
<1>2. s \in Seq(Node) /\ Len(s) \in Nat /\ DOMAIN s = 1 .. Len(s)
    BY DEF Good
<1> HIDE DEF n
<1>3. t = <<n>> \o s
    BY DEF n
<1>4. /\ t \in Seq(Node) /\ DOMAIN t = 1 .. Len(s) + 1
      /\ t[1] = n
      /\ \A p \in 1 .. Len(s) : t[p + 1] = s[p]
    BY <1>1, <1>2, <1>3
<1>5. \A p \in DOMAIN t : p = 1 \/ (p - 1 \in 1 .. Len(s) /\ p - 1 \in DOMAIN s /\ t[p] = s[p - 1])
    BY <1>2, <1>4
<1>6. Good(t, H!Hash(k))
    <2>1. \A p \in DOMAIN t : H!Hash(t[p].key) = H!Hash(k)
        BY <1>1, <1>4, <1>5 DEF Good
    <2>2. ASSUME NEW p \in DOMAIN t, NEW q \in DOMAIN t, t[p].key = t[q].key PROVE p = q
        <3>1. CASE p = 1 /\ q = 1
            BY <3>1
        <3>2. CASE p = 1 /\ q # 1
            BY <1>1, <1>4, <1>5, <2>2, <3>2
        <3>3. CASE p # 1 /\ q = 1
            BY <1>1, <1>4, <1>5, <2>2, <3>3
        <3>4. CASE p # 1 /\ q # 1
            <4>1. p - 1 \in DOMAIN s /\ q - 1 \in DOMAIN s /\ s[p - 1].key = s[q - 1].key
                BY <1>5, <2>2, <3>4
            <4>2. p - 1 = q - 1
                BY <4>1 DEF Good
            <4> QED
                BY <1>2, <1>4, <4>2
        <3> QED
            BY <3>1, <3>2, <3>3, <3>4
    <2> QED
        BY <1>4, <2>1, <2>2 DEF Good
<1>7. ValueIn(t, k) = v
    <2>1. 1 \in DOMAIN t /\ t[1].key = k /\ t[1].val = v
        BY <1>1, <1>2, <1>4
    <2> QED
        BY <1>6, <2>1, ValueAt
<1>8. ASSUME NEW q \in H!Key, q # k PROVE ValueIn(t, q) = ValueIn(s, q)
    <2>1. \A p \in DOMAIN s : \E r \in DOMAIN t : t[r] = s[p]
        <3>1. ASSUME NEW p \in DOMAIN s PROVE p + 1 \in DOMAIN t /\ t[p + 1] = s[p]
            BY <1>2, <1>4
        <3> QED
            BY <3>1
    <2>2. \A r \in DOMAIN t : t[r].key = q => \E p \in DOMAIN s : t[r] = s[p]
        BY <1>1, <1>4, <1>5, <1>8
    <2>3. \A p \in DOMAIN s : s[p].key = q => \E r \in DOMAIN t : t[r] = s[p]
        BY <2>1
    <2>4. PICK i : i = H!Hash(k)
        OBVIOUS
    <2>5. Good(s, i) /\ Good(t, i)
        BY ONLY <1>6, Good(s, H!Hash(k)), <2>4
    <2> QED
        BY ONLY H!HashAssumption, <2>2, <2>3, <2>5, ValueSame
<1> QED
    BY <1>6, <1>7, <1>8

\* A node is taken out of the chain.
LEMMA UnlinkChain ==
    ASSUME H!HashAssumption, NEW s, NEW i, Good(s, i), NEW x \in DOMAIN s,
           NEW t, t = H!Without(s, x)
    PROVE  /\ Good(t, i)
           /\ ValueIn(t, s[x].key) = Absent
           /\ \A q \in H!Key : q # s[x].key => ValueIn(t, q) = ValueIn(s, q)
<1> DEFINE From(p) == IF p < x THEN p ELSE p + 1
<1>1. s \in Seq(Node) /\ Len(s) \in Nat /\ DOMAIN s = 1 .. Len(s) /\ x \in 1 .. Len(s)
    BY DEF Good
<1>2. /\ t \in Seq(Node) /\ DOMAIN t = 1 .. Len(s) - 1
      /\ \A p \in 1 .. Len(s) - 1 : t[p] = s[From(p)]
    <2>1. PICK N, a, b : /\ N = Len(s) /\ N \in Nat /\ a = SubSeq(s, 1, x - 1)
                        /\ b = SubSeq(s, x + 1, Len(s))
        BY <1>1
    <2>2. N \in Nat /\ x \in Nat /\ x - 1 \in Nat /\ N - x \in Nat /\ N - 1 \in Nat
        BY <1>1, <2>1
    <2>3. a \in Seq(Node) /\ Len(a) = x - 1 /\ \A p \in 1 .. x - 1 : a[p] = s[p]
        BY <1>1, <2>1, <2>2
    <2>4. b \in Seq(Node) /\ Len(b) = N - x /\ \A p \in 1 .. N - x : b[p] = s[x + p]
        BY <1>1, <2>1, <2>2
    <2>5. t = a \o b
        BY <2>1 DEF H!Without
    <2>6. t \in Seq(Node) /\ Len(t) = N - 1 /\ DOMAIN t = 1 .. N - 1
        <3>1. (x - 1) + (N - x) = N - 1
            BY ONLY <2>2
        <3>2. Len(a) + Len(b) = N - 1
            BY ONLY <3>1, <2>3, <2>4
        <3>3. /\ a \o b \in Seq(Node) /\ Len(a \o b) = Len(a) + Len(b)
              /\ DOMAIN (a \o b) = 1 .. Len(a) + Len(b)
            BY ONLY <2>3, <2>4, Joined
        <3> QED
            BY ONLY <2>5, <3>2, <3>3
    <2>7. /\ \A p \in 1 .. x - 1 : t[p] = a[p]
          /\ \A p \in 1 .. N - x : t[(x - 1) + p] = b[p]
        BY ONLY <2>3, <2>4, <2>5, Joined
    <2>8. ASSUME NEW p \in 1 .. N - 1 PROVE t[p] = s[From(p)]
        <3>1. CASE p < x
            BY <2>2, <2>3, <2>7, <3>1
        <3>2. CASE ~(p < x)
            <4>1. PICK r \in 1 .. N - x : (x - 1) + r = p /\ x + r = p + 1
                <5>1. p - x + 1 \in 1 .. N - x /\ (x - 1) + (p - x + 1) = p /\ x + (p - x + 1) = p + 1
                    BY <2>2, <3>2
                <5> QED
                    BY <5>1
            <4>2. t[(x - 1) + r] = b[r] /\ b[r] = s[x + r]
                BY ONLY <2>4, <2>7, <4>1
            <4>3. From(p) = p + 1
                BY <3>2
            <4> QED
                BY ONLY <4>1, <4>2, <4>3
        <3> QED
            BY <3>1, <3>2
    <2> QED
        BY <2>1, <2>6, <2>8
<1>3. \A p \in DOMAIN t : From(p) \in DOMAIN s /\ From(p) # x /\ t[p] = s[From(p)]
    BY <1>1, <1>2
<1>4. \A p, q \in DOMAIN t : From(p) = From(q) => p = q
    BY <1>1, <1>2
<1>5. \A r \in DOMAIN s : r # x => \E p \in DOMAIN t : From(p) = r
    <2> SUFFICES ASSUME NEW r \in DOMAIN s, r # x PROVE \E p \in DOMAIN t : From(p) = r
        OBVIOUS
    <2>1. CASE r < x
        <3>1. r \in DOMAIN t /\ From(r) = r
            BY <1>1, <1>2, <2>1
        <3> QED
            BY <3>1
    <2>2. CASE ~(r < x)
        <3>1. r - 1 \in DOMAIN t /\ From(r - 1) = r
            BY <1>1, <1>2, <2>2
        <3> QED
            BY <3>1
    <2> QED
        BY <2>1, <2>2
<1> HIDE DEF From
<1>6. Good(t, i)
    <2>1. \A p \in DOMAIN t : H!Hash(t[p].key) = i
        BY <1>3 DEF Good
    <2>2. ASSUME NEW p \in DOMAIN t, NEW q \in DOMAIN t, t[p].key = t[q].key PROVE p = q
        <3>1. From(p) = From(q)
            BY <1>3, <2>2 DEF Good
        <3> QED
            BY <1>4, <3>1
    <2> QED
        BY <1>2, <2>1, <2>2 DEF Good
<1>7. ValueIn(t, s[x].key) = Absent
    <2>1. \A p \in DOMAIN t : t[p].key # s[x].key
        BY <1>3 DEF Good
    <2> QED
        BY <2>1, ValueNone
<1>8. ASSUME NEW q \in H!Key, q # s[x].key PROVE ValueIn(t, q) = ValueIn(s, q)
    <2>1. \A p \in DOMAIN s : s[p].key = q => \E r \in DOMAIN t : t[r] = s[p]
        <3>1. ASSUME NEW p \in DOMAIN s, s[p].key = q PROVE \E r \in DOMAIN t : t[r] = s[p]
            <4>1. PICK r \in DOMAIN t : From(r) = p
                BY <1>5, <1>8, <3>1
            <4> QED
                BY <1>3, <4>1
        <3> QED
            BY <3>1
    <2>2. \A r \in DOMAIN t : \E p \in DOMAIN s : t[r] = s[p]
        BY <1>3
    <2> QED
        BY <1>6, <2>1, <2>2, ValueSame
<1> QED
    BY <1>6, <1>7, <1>8

\* A node gets another value.
LEMMA ReplaceChain ==
    ASSUME H!HashAssumption, NEW s, NEW i, Good(s, i), NEW x \in DOMAIN s, NEW v \in Value,
           NEW t, t = Revalued(s, x, v)
    PROVE  /\ Good(t, i)
           /\ ValueIn(t, s[x].key) = v
           /\ \A q \in H!Key : q # s[x].key => ValueIn(t, q) = ValueIn(s, q)
<1>1. s \in Seq(Node) /\ s[x] \in Node /\ s[x].key \in H!Key
    BY GoodNode DEF Good
<1>2. [s[x] EXCEPT !.val = v] = [key |-> s[x].key, val |-> v]
    BY <1>1 DEF Node
<1>3. PICK n : n = [key |-> s[x].key, val |-> v]
    OBVIOUS
<1>4. n \in Node /\ n.key = s[x].key /\ n.val = v
    BY <1>1, <1>3 DEF Node
<1>5. t = [s EXCEPT ![x] = n]
    BY <1>2, <1>3 DEF Revalued
<1>6. /\ t \in Seq(Node) /\ DOMAIN t = DOMAIN s
      /\ t[x] = n /\ \A p \in DOMAIN s : p # x => t[p] = s[p]
    BY <1>1, <1>4, <1>5
<1>7. \A p \in DOMAIN s : t[p].key = s[p].key
    BY <1>4, <1>6
<1>8. Good(t, i)
    BY <1>6, <1>7 DEF Good
<1>9. ValueIn(t, s[x].key) = v
    <2>1. x \in DOMAIN t /\ t[x].key = s[x].key /\ t[x].val = v
        BY <1>4, <1>6
    <2>2. ValueIn(t, t[x].key) = t[x].val
        BY ONLY H!HashAssumption, <1>8, <2>1, ValueAt
    <2> QED
        BY ONLY <2>1, <2>2
<1>10. ASSUME NEW q \in H!Key, q # s[x].key PROVE ValueIn(t, q) = ValueIn(s, q)
    <2>1. \A p \in DOMAIN s : s[p].key = q => p \in DOMAIN t /\ t[p] = s[p]
        BY <1>6, <1>10
    <2>2. \A p \in DOMAIN t : t[p].key = q => p \in DOMAIN s /\ t[p] = s[p]
        BY <1>4, <1>6, <1>10
    <2>3. \A p \in DOMAIN s : s[p].key = q => \E r \in DOMAIN t : t[r] = s[p]
        BY <2>1
    <2>4. \A r \in DOMAIN t : t[r].key = q => \E p \in DOMAIN s : t[r] = s[p]
        BY <2>2
    <2> QED
        BY ONLY H!HashAssumption, Good(s, i), <1>8, <2>3, <2>4, ValueSame
<1> QED
    BY <1>8, <1>9, <1>10

-----------------------------------------------------------------------------
(* The table of chains, and the map it holds.                               *)

Sound(t) ==
    /\ t \in [H!Index -> Seq(Node)]
    /\ \A i \in H!Index : Good(t[i], i)

MapOf(t) == [k \in H!Key |-> ValueIn(t[H!Hash(k)], k)]

StoredIn(t) == UNION {{<<i, p>> : p \in DOMAIN t[i]} : i \in H!Index}

KeysOf(m) == {k \in H!Key : m[k] # Absent}

\* The places of a table.
LEMMA Places ==
    ASSUME NEW t
    PROVE  \A e : e \in StoredIn(t) <=>
               \E i \in H!Index : \E p \in DOMAIN t[i] : e = <<i, p>>
    BY DEF StoredIn

\* A place has a node, which is where the map finds its key.
LEMMA PlaceNode ==
    ASSUME H!HashAssumption, NEW t, Sound(t), NEW i \in H!Index, NEW p \in DOMAIN t[i]
    PROVE  /\ t[i][p].key \in H!Key /\ H!Hash(t[i][p].key) = i
           /\ MapOf(t)[t[i][p].key] = t[i][p].val /\ t[i][p].val # Absent
<1>1. Good(t[i], i)
    BY DEF Sound
<1>2. t[i][p].key \in H!Key /\ t[i][p].val # Absent /\ H!Hash(t[i][p].key) = i
    BY <1>1, GoodNode DEF Good
<1>3. ValueIn(t[i], t[i][p].key) = t[i][p].val
    BY <1>1, ValueAt
<1> QED
    BY <1>2, <1>3 DEF MapOf

\* A key with a value has a place.
LEMMA KeyPlace ==
    ASSUME H!HashAssumption, NEW t, Sound(t), NEW k \in H!Key, MapOf(t)[k] # Absent
    PROVE  \E p \in DOMAIN t[H!Hash(k)] : t[H!Hash(k)][p].key = k
<1>1. ValueIn(t[H!Hash(k)], k) # Absent
    BY DEF MapOf
<1> QED
    BY <1>1, ValueNone

\* What kvs_hash_foreach visits is the map that walks along the chains find.
LEMMA VisitedIsMap ==
    ASSUME H!HashAssumption, NEW t, Sound(t)
    PROVE  [k \in H!Key |->
               IF \E e \in StoredIn(t) : t[e[1]][e[2]].key = k
               THEN LET e == CHOOSE e \in StoredIn(t) : t[e[1]][e[2]].key = k
                    IN  t[e[1]][e[2]].val
               ELSE Absent] = MapOf(t)
<1> SUFFICES ASSUME NEW k \in H!Key
             PROVE  (IF \E e \in StoredIn(t) : t[e[1]][e[2]].key = k
                     THEN LET e == CHOOSE e \in StoredIn(t) : t[e[1]][e[2]].key = k
                          IN  t[e[1]][e[2]].val
                     ELSE Absent) = MapOf(t)[k]
    BY DEF MapOf
<1>1. CASE \E e \in StoredIn(t) : t[e[1]][e[2]].key = k
    <2> DEFINE c == CHOOSE e \in StoredIn(t) : t[e[1]][e[2]].key = k
    <2>1. c \in StoredIn(t) /\ t[c[1]][c[2]].key = k
        BY <1>1
    <2> HIDE DEF c
    <2>2. PICK i, p : i \in H!Index /\ p \in DOMAIN t[i] /\ c = <<i, p>>
        BY <2>1, Places
    <2>3. t[i][p].key = k /\ t[c[1]][c[2]].val = t[i][p].val
        BY <2>1, <2>2
    <2>4. MapOf(t)[k] = t[i][p].val
        BY <2>2, <2>3, PlaceNode
    <2> QED
        BY <1>1, <2>3, <2>4 DEF c
<1>2. CASE \A e \in StoredIn(t) : t[e[1]][e[2]].key # k
    <2>1. MapOf(t)[k] = Absent
        <3> SUFFICES ASSUME MapOf(t)[k] # Absent PROVE FALSE
            OBVIOUS
        <3>1. PICK p \in DOMAIN t[H!Hash(k)] : t[H!Hash(k)][p].key = k
            BY KeyPlace
        <3>2. PICK e : e = <<H!Hash(k), p>>
            OBVIOUS
        <3>3. e \in StoredIn(t) /\ t[e[1]][e[2]].key = k
            BY <3>1, <3>2, HashInTable, Places
        <3> QED
            BY <1>2, <3>3
    <2> QED
        BY <1>2, <2>1
<1> QED
    BY <1>1, <1>2

\* There are as many nodes as keys with a value.
LEMMA NodeCount ==
    ASSUME H!HashAssumption, NEW t, Sound(t)
    PROVE  /\ IsFiniteSet(KeysOf(MapOf(t)))
           /\ Cardinality(StoredIn(t)) = Cardinality(KeysOf(MapOf(t)))
<1> DEFINE S == StoredIn(t)
           K == KeysOf(MapOf(t))
<1>1. IsFiniteSet(K)
    <2>1. K \subseteq H!Key
        BY DEF KeysOf
    <2> QED
        BY <2>1, HashConstants, FS_Subset
<1>2. PICK f : f = [e \in S |-> t[e[1]][e[2]].key]
    OBVIOUS
<1>3. ASSUME NEW e \in S
      PROVE  \E i \in H!Index : \E p \in DOMAIN t[i] :
                 /\ e = <<i, p>> /\ f[e] = t[i][p].key /\ f[e] \in K
                 /\ H!Hash(f[e]) = i
    <2>1. PICK i, p : i \in H!Index /\ p \in DOMAIN t[i] /\ e = <<i, p>>
        BY Places
    <2>2. f[e] = t[i][p].key
        BY <1>2, <2>1
    <2>3. f[e] \in K /\ H!Hash(f[e]) = i
        BY <2>1, <2>2, PlaceNode DEF KeysOf
    <2> QED
        BY <2>1, <2>2, <2>3
<1>4. ASSUME NEW e \in S, NEW g \in S, f[e] = f[g] PROVE e = g
    <2>1. PICK i, p :
              i \in H!Index /\ p \in DOMAIN t[i] /\ e = <<i, p>> /\ f[e] = t[i][p].key /\ H!Hash(f[e]) = i
        BY <1>3
    <2>2. PICK j, q :
              j \in H!Index /\ q \in DOMAIN t[j] /\ g = <<j, q>> /\ f[g] = t[j][q].key /\ H!Hash(f[g]) = j
        BY <1>3
    <2>3. i = j
        BY <1>4, <2>1, <2>2
    <2>4. p = q
        BY <1>4, <2>1, <2>2, <2>3 DEF Sound, Good
    <2> QED
        BY <2>1, <2>2, <2>3, <2>4
<1>5. ASSUME NEW k \in K PROVE \E e \in S : f[e] = k
    <2>1. k \in H!Key /\ MapOf(t)[k] # Absent
        BY DEF KeysOf
    <2>2. PICK p \in DOMAIN t[H!Hash(k)] : t[H!Hash(k)][p].key = k
        BY <2>1, KeyPlace
    <2>3. PICK e : e = <<H!Hash(k), p>>
        OBVIOUS
    <2>4. e \in S
        BY <2>1, <2>2, <2>3, HashInTable, Places
    <2> QED
        BY <1>2, <2>2, <2>3, <2>4
<1>6. f \in Bijection(S, K)
    <2>1. f \in [S -> K]
        BY <1>2, <1>3
    <2> HIDE DEF S, K
    <2> QED
        BY <2>1, <1>4, <1>5 DEF Bijection, Injection, Surjection, IsInjective
<1>7. ExistsBijection(S, K)
    BY <1>6 DEF ExistsBijection
<1>8. ExistsBijection(K, S)
    BY <1>7, Fun_ExistsBijSymmetric
<1> QED
    BY <1>1, <1>8, FS_Bijection

\* A map in which one key changes.
LEMMA KeyCount ==
    ASSUME H!HashAssumption, NEW m, DOMAIN m = H!Key, NEW k \in H!Key, NEW x,
           IsFiniteSet(KeysOf(m)), NEW w, w = Put(m, k, x)
    PROVE  /\ Cardinality(KeysOf(m)) \in Nat
           /\ m[k] # Absent /\ x # Absent =>
                 Cardinality(KeysOf(w)) = Cardinality(KeysOf(m))
           /\ m[k] = Absent /\ x # Absent =>
                 /\ Cardinality(KeysOf(w)) = Cardinality(KeysOf(m)) + 1
                 /\ Cardinality(KeysOf(m)) < Cardinality(H!Key)
           /\ m[k] # Absent /\ x = Absent =>
                 Cardinality(KeysOf(w)) = Cardinality(KeysOf(m)) - 1
<1>1. w[k] = x /\ \A q \in H!Key : q # k => w[q] = m[q]
    BY DEF Put
<1>2. Cardinality(KeysOf(m)) \in Nat
    BY FS_CardinalityType
<1>3. CASE m[k] # Absent /\ x # Absent
    <2>1. KeysOf(w) = KeysOf(m)
        BY <1>1, <1>3 DEF KeysOf
    <2> QED
        BY <1>2, <1>3, <2>1
<1>4. CASE m[k] = Absent /\ x # Absent
    <2>1. KeysOf(w) = KeysOf(m) \cup {k} /\ k \notin KeysOf(m) /\ KeysOf(m) \subseteq H!Key
        BY <1>1, <1>4 DEF KeysOf
    <2>2. Cardinality(KeysOf(w)) = Cardinality(KeysOf(m)) + 1
        BY <2>1, FS_AddElement
    <2>3. IsFiniteSet(H!Key)
        BY HashConstants
    <2>4. KeysOf(m) \subseteq H!Key /\ KeysOf(m) # H!Key
        BY <2>1
    <2>5. Cardinality(KeysOf(m)) <= Cardinality(H!Key) /\ Cardinality(KeysOf(m)) # Cardinality(H!Key)
          /\ Cardinality(H!Key) \in Nat
        BY <2>3, <2>4, FS_Subset, FS_CardinalityType
    <2>6. Cardinality(KeysOf(m)) < Cardinality(H!Key)
        BY <1>2, <2>5
    <2> QED
        BY <1>2, <1>4, <2>2, <2>6
<1>5. CASE m[k] # Absent /\ x = Absent
    <2>1. KeysOf(w) = KeysOf(m) \ {k} /\ k \in KeysOf(m)
        BY <1>1, <1>5 DEF KeysOf
    <2>2. Cardinality(KeysOf(w)) = Cardinality(KeysOf(m)) - 1
        BY <2>1, FS_RemoveElement
    <2> QED
        BY <1>2, <1>5, <2>2
<1> QED
    BY <1>2, <1>3, <1>4, <1>5

\* A table in which the chain of one key changes.
LEMMA OneChain ==
    ASSUME H!HashAssumption, NEW t, Sound(t), NEW k \in H!Key, NEW s, Good(s, H!Hash(k)),
           NEW x, ValueIn(s, k) = x,
           \A q \in H!Key : q # k => ValueIn(s, q) = ValueIn(t[H!Hash(k)], q),
           NEW u, u = Put(t, H!Hash(k), s)
    PROVE  Sound(u) /\ MapOf(u) = Put(MapOf(t), k, x)
<1>1. PICK h \in H!Index : h = H!Hash(k)
    BY HashInTable
<1>2. /\ s \in Seq(Node) /\ t \in [H!Index -> Seq(Node)]
      /\ u = [t EXCEPT ![h] = s]
    BY <1>1 DEF Sound, Good, Put
<1>3. /\ u \in [H!Index -> Seq(Node)]
      /\ u[h] = s /\ \A i \in H!Index : i # h => u[i] = t[i]
    BY <1>1, <1>2
<1>4. Sound(u)
    BY <1>1, <1>3 DEF Sound
<1>5. ASSUME NEW q \in H!Key PROVE MapOf(u)[q] = [MapOf(t) EXCEPT ![k] = x][q]
    <2>1. H!Hash(q) \in H!Index
        BY HashInTable
    <2>2. CASE q = k
        BY <1>1, <1>3, <2>2 DEF MapOf
    <2>3. CASE q # k /\ H!Hash(q) = h
        BY <1>1, <1>3, <2>3 DEF MapOf
    <2>4. CASE q # k /\ H!Hash(q) # h
        BY <1>3, <2>1, <2>4 DEF MapOf
    <2> QED
        BY <2>2, <2>3, <2>4
<1>6. MapOf(u) = [q \in H!Key |-> MapOf(u)[q]] /\ DOMAIN [MapOf(t) EXCEPT ![k] = x] = H!Key
    BY DEF MapOf
<1>7. MapOf(u) = [MapOf(t) EXCEPT ![k] = x]
    BY <1>5, <1>6 DEF MapOf
<1> QED
    BY <1>4, <1>7 DEF Put

-----------------------------------------------------------------------------
(* The calls of the hash engine.                                            *)

HashInv ==
    /\ Sound(nodes)
    /\ up \in BOOLEAN
    /\ count = Cardinality(StoredIn(nodes))
    /\ heap = IF up THEN 1 + 3 * Cardinality(StoredIn(nodes)) ELSE 0
    /\ ~up => nodes = H!EmptyTable

\* What holds between a state and the next.
HashStep == HashInv' /\ [H!Map!Next]_(H!Map!vars)

\* The definitions of the engine, with the table as an argument.
LEMMA HashMapping ==
    ASSUME H!HashAssumption
    PROVE  /\ H!Stored = StoredIn(nodes)
           /\ \A S : H!Cardinality(S) = Cardinality(S)
           /\ Sound(nodes) => H!Contents = MapOf(nodes)
           /\ Sound(nodes') => H!Contents' = MapOf(nodes')
<1>1. H!Stored = StoredIn(nodes) /\ H!Stored' = StoredIn(nodes')
    BY DEF H!Stored, StoredIn
<1>2. \A S : H!Cardinality(S) = Cardinality(S)
    BY DEF H!Cardinality, Cardinality
<1>3. ASSUME Sound(nodes) PROVE H!Contents = MapOf(nodes)
    <2>1. H!Contents =
            [k \in H!Key |->
               IF \E e \in StoredIn(nodes) : nodes[e[1]][e[2]].key = k
               THEN LET e == CHOOSE e \in StoredIn(nodes) : nodes[e[1]][e[2]].key = k
                    IN  nodes[e[1]][e[2]].val
               ELSE Absent]
        BY <1>1 DEF H!Contents
    <2> QED
        BY <1>3, <2>1, VisitedIsMap
<1>4. ASSUME Sound(nodes') PROVE H!Contents' = MapOf(nodes')
    <2>1. H!Contents' =
            [k \in H!Key |->
               IF \E e \in StoredIn(nodes') : nodes'[e[1]][e[2]].key = k
               THEN LET e == CHOOSE e \in StoredIn(nodes') : nodes'[e[1]][e[2]].key = k
                    IN  nodes'[e[1]][e[2]].val
               ELSE Absent]
        BY <1>1 DEF H!Contents
    <2> QED
        BY <1>4, <2>1, VisitedIsMap
<1> QED
    BY <1>1, <1>2, <1>3, <1>4

\* What KVMap's engine tells of a map that can hold every key.
LEMMA HashStatus ==
    ASSUME NEW m, NEW c
    PROVE  /\ H!Map!E!ExecStatus(m, c) =
                IF c.op = "SET"
                THEN IF m[c.key] # Absent \/ Cardinality(KeysOf(m)) < Cardinality(H!Key)
                     THEN "OK" ELSE "FAILED"
                ELSE IF m[c.key] # Absent THEN "OK" ELSE "NOT_FOUND"
           /\ H!Map!E!Execute(m, c) = [m EXCEPT ![c.key] = c.val]
           /\ H!Map!E!EmptyDb = [k \in H!Key |-> Absent]
    BY DEF H!Map!E!ExecStatus, H!Map!E!Stored, H!Map!E!Execute, H!Map!E!EmptyDb,
           H!Map!E!Cardinality, H!Cardinality, Cardinality, KeysOf

\* Every call of the map's Next, one by one.
LEMMA HashCalls ==
    /\ H!Map!Create \/ H!Map!Destroy => H!Map!Next
    /\ \A c \in H!Map!E!Command : H!Map!Write(c) => H!Map!Next
    /\ \A k \in H!Key : H!Map!Get(k) \/ H!Map!Exist(k) => H!Map!Next
    /\ \A k \in H!Key, v \in Value :
           /\ [op |-> "SET", key |-> k, val |-> v] \in H!Map!E!Command
           /\ [op |-> "MOD", key |-> k, val |-> v] \in H!Map!E!Command
    /\ \A k \in H!Key : [op |-> "DEL", key |-> k, val |-> Absent] \in H!Map!E!Command
    BY DEF H!Map!Next, H!Map!E!Command

\* A table of empty chains.
LEMMA NoNodes ==
    ASSUME H!HashAssumption
    PROVE  /\ Sound(H!EmptyTable)
           /\ Cardinality(StoredIn(H!EmptyTable)) = 0
           /\ MapOf(H!EmptyTable) = [k \in H!Key |-> Absent]
<1>1. \A i \in H!Index : H!EmptyTable[i] = <<>> /\ DOMAIN H!EmptyTable[i] = {}
    BY DEF H!EmptyTable
<1>2. H!EmptyTable \in [H!Index -> Seq(Node)]
    BY DEF H!EmptyTable
<1>3. \A i \in H!Index : Good(H!EmptyTable[i], i)
    <2>1. ASSUME NEW i \in H!Index, NEW s, s = <<>>, s \in Seq(Node), DOMAIN s = {}
          PROVE  Good(s, i)
        BY <2>1 DEF Good
    <2> QED
        BY <1>1, <1>2, <2>1
<1>4. StoredIn(H!EmptyTable) = {}
    BY <1>1 DEF StoredIn
<1>5. \A k \in H!Key : MapOf(H!EmptyTable)[k] = Absent
    BY <1>1, HashInTable DEF MapOf, ValueIn
<1>6. MapOf(H!EmptyTable) = [k \in H!Key |-> MapOf(H!EmptyTable)[k]]
    BY DEF MapOf
<1>7. Cardinality({}) = 0
    BY FS_EmptySet
<1> QED
    BY <1>2, <1>3, <1>4, <1>5, <1>6, <1>7 DEF Sound

\* A call that leaves the table alone leaves the map alone.
LEMMA SameNodes ==
    ASSUME H!HashAssumption, HashInv, UNCHANGED <<nodes, count, up, heap>>
    PROVE  HashInv' /\ H!Contents' = H!Contents /\ up' = up
<1>1. HashInv' /\ nodes' = nodes /\ up' = up
    BY DEF HashInv, Sound, StoredIn
<1>2. H!Contents' = H!Contents
    BY <1>1, HashMapping DEF HashInv
<1> QED
    BY <1>1, <1>2

LEMMA HashCreate ==
    ASSUME H!HashAssumption, HashInv, H!Create
    PROVE  HashStep
<1>1. up = FALSE /\ nodes = H!EmptyTable /\ nodes' = H!EmptyTable /\ count' = 0 /\ heap = 0
    BY DEF HashInv, H!Create
<1>2. \/ up' = TRUE /\ heap' = 1 /\ reply' = H!Reply("CREATE", Absent, 0)
      \/ up' = FALSE /\ heap' = 0 /\ reply' = H!Reply("CREATE", Absent, -1)
    BY <1>1 DEF H!Create
<1>3. Sound(nodes') /\ Cardinality(StoredIn(nodes')) = 0
    BY <1>1, NoNodes
<1>4. HashInv'
    <2>1. count' = Cardinality(StoredIn(nodes')) /\ (~up' => nodes' = H!EmptyTable) /\ up' \in BOOLEAN
        BY <1>1, <1>2, <1>3
    <2>2. heap' = IF up' THEN 1 + 3 * Cardinality(StoredIn(nodes')) ELSE 0
        BY <1>2, <1>3
    <2> QED
        BY <1>3, <2>1, <2>2 DEF HashInv
<1>5. H!Contents' = H!Contents
    BY <1>1, <1>3, HashMapping
<1>6. \E ok \in BOOLEAN : up' = ok /\ reply' = H!Map!Reply("CREATE", Absent, IF ok THEN 0 ELSE -1)
    <2>1. CASE up' = TRUE /\ reply' = H!Reply("CREATE", Absent, 0)
        BY <2>1 DEF H!Reply, H!Map!Reply
    <2>2. CASE up' = FALSE /\ reply' = H!Reply("CREATE", Absent, -1)
        BY <2>2 DEF H!Reply, H!Map!Reply
    <2> QED
        BY <1>2, <2>1, <2>2
<1>7. H!Map!Create
    BY <1>1, <1>5, <1>6 DEF H!Map!Create
<1> QED
    BY <1>4, <1>7, HashCalls DEF HashStep

LEMMA HashDestroy ==
    ASSUME H!HashAssumption, HashInv, H!Destroy
    PROVE  HashStep
<1>1. /\ up /\ up' = FALSE /\ nodes' = H!EmptyTable /\ count' = 0
      /\ reply' = H!Reply("DESTROY", Absent, 0)
      /\ heap' = heap - 3 * Cardinality(StoredIn(nodes)) - 1
    BY HashMapping DEF H!Destroy
<1>2. heap' = 0
    <2>1. Cardinality(StoredIn(nodes)) \in Nat
        BY NodeCount, FS_CardinalityType DEF HashInv
    <2>2. heap = 1 + 3 * Cardinality(StoredIn(nodes))
        BY <1>1 DEF HashInv
    <2> QED
        BY <1>1, <2>1, <2>2
<1>3. Sound(nodes') /\ Cardinality(StoredIn(nodes')) = 0 /\ MapOf(nodes') = [k \in H!Key |-> Absent]
    BY <1>1, NoNodes
<1>4. HashInv'
    BY <1>1, <1>2, <1>3 DEF HashInv
<1>5. H!Contents' = H!Map!E!EmptyDb
    BY <1>3, HashMapping, HashStatus
<1>6. H!Map!Destroy
    BY <1>1, <1>5 DEF H!Map!Destroy, H!Map!Reply, H!Reply
<1> QED
    BY <1>4, <1>6, HashCalls DEF HashStep

\* What a call finds of a key, in its chain and in the map.
LEMMA HashLookup ==
    ASSUME H!HashAssumption, HashInv, NEW k \in H!Key
    PROVE  /\ H!Contents = MapOf(nodes) /\ H!Contents[k] = H!ValueOf(k)
           /\ Good(nodes[H!Hash(k)], H!Hash(k))
           /\ H!Found(k) = {} => /\ H!Contents[k] = Absent
                                 /\ \A p \in DOMAIN nodes[H!Hash(k)] :
                                        nodes[H!Hash(k)][p].key # k
           /\ H!Found(k) # {} =>
                 /\ H!First(H!Found(k)) \in DOMAIN nodes[H!Hash(k)]
                 /\ nodes[H!Hash(k)][H!First(H!Found(k))].key = k
                 /\ H!Contents[k] # Absent
<1>1. PICK h \in H!Index : h = H!Hash(k)
    BY HashInTable
<1>2. H!Contents = MapOf(nodes) /\ Sound(nodes)
    BY HashMapping DEF HashInv
<1>3. Good(nodes[h], h) /\ MapOf(nodes)[k] = ValueIn(nodes[h], k)
    BY <1>1, <1>2 DEF Sound, MapOf
<1>4. H!Found(k) = {p \in DOMAIN nodes[h] : nodes[h][p].key = k}
    BY <1>1 DEF H!Found, H!Chain
<1>5. H!ValueOf(k) = IF H!Found(k) = {} THEN Absent ELSE nodes[h][H!First(H!Found(k))].val
    BY <1>1 DEF H!ValueOf, H!Chain
<1>6. CASE H!Found(k) = {}
    <2>1. \A p \in DOMAIN nodes[h] : nodes[h][p].key # k
        BY <1>4, <1>6
    <2>2. ValueIn(nodes[h], k) = Absent
        BY <2>1, ValueNone
    <2> QED
        BY <1>1, <1>2, <1>3, <1>5, <1>6, <2>1, <2>2
<1>7. CASE H!Found(k) # {}
    <2>1. PICK p \in DOMAIN nodes[h] : nodes[h][p].key = k
        BY <1>4, <1>7
    <2>2. H!Found(k) = {p}
        BY <1>3, <1>4, <2>1 DEF Good
    <2>3. p \in Nat
        <3>1. nodes[h] \in Seq(Node)
            BY <1>3 DEF Good
        <3> QED
            BY <2>1, <3>1
    <2>4. H!First({p}) = p
        BY <2>3 DEF H!First
    <2>5. ValueIn(nodes[h], k) = nodes[h][p].val /\ nodes[h][p].val # Absent
        BY <1>3, <2>1, ValueAt, GoodNode
    <2> QED
        BY <1>1, <1>2, <1>3, <1>5, <1>7, <2>1, <2>2, <2>4, <2>5
<1> QED
    BY <1>6, <1>7

LEMMA HashRead ==
    ASSUME H!HashAssumption, HashInv, NEW k \in H!Key, H!Get(k) \/ H!Exist(k)
    PROVE  HashStep
<1>1. UNCHANGED <<nodes, count, up, heap>> /\ up
    BY DEF H!Get, H!Exist
<1>2. HashInv' /\ H!Contents' = H!Contents /\ up' = up
    BY <1>1, SameNodes
<1>3. H!Contents[k] = H!ValueOf(k)
    BY HashLookup
<1>4. CASE H!Get(k)
    BY <1>1, <1>2, <1>3, <1>4, HashCalls DEF H!Get, H!Map!Get, H!Map!Reply, H!Reply, HashStep
<1>5. CASE H!Exist(k)
    BY <1>1, <1>2, <1>3, <1>5, HashCalls DEF H!Exist, H!Map!Exist, H!Map!Reply, H!Reply, HashStep
<1> QED
    BY <1>4, <1>5

\* A write that returns ret as KVMap allows is one of its steps.
LEMMA HashWrites ==
    ASSUME NEW c \in H!Map!E!Command, NEW ret, up, up' = up,
           reply' = H!Reply(c.op, c.key, ret),
           LET status == H!Map!E!ExecStatus(H!Contents, c) IN
           \/ status = "OK" /\ ret = 0 /\ H!Contents' = H!Map!E!Execute(H!Contents, c)
           \/ status = "NOT_FOUND" /\ ret = (IF c.op = "DEL" THEN -1 ELSE 1) /\ H!Contents' = H!Contents
           \/ status = "OK" /\ c.op # "DEL" /\ ret \in {-1, -2} /\ H!Contents' = H!Contents
    PROVE  [H!Map!Next]_(H!Map!vars)
<1>1. reply'.op = c.op /\ reply'.key = c.key /\ reply'.ret = ret
    BY DEF H!Reply
<1>2. reply' = H!Map!Reply(c.op, c.key, reply'.ret)
    BY <1>1 DEF H!Reply, H!Map!Reply
<1>3. H!Map!NotFound(c) = IF c.op = "DEL" THEN -1 ELSE 1
    BY DEF H!Map!NotFound
<1>4. H!Map!Write(c)
    BY <1>1, <1>2, <1>3 DEF H!Map!Write
<1> QED
    BY <1>4, HashCalls

\* A call that refuses leaves everything as it is.
LEMMA HashRefused ==
    ASSUME H!HashAssumption, HashInv, up, UNCHANGED <<nodes, count, up, heap>>,
           NEW c \in H!Map!E!Command, NEW ret, c.key \in H!Key,
           reply' = H!Reply(c.op, c.key, ret),
           \/ H!Contents[c.key] = Absent /\ c.op = "MOD" /\ ret = 1
           \/ H!Contents[c.key] = Absent /\ c.op = "DEL" /\ ret = -1
           \/ H!Contents[c.key] = Absent /\ c.op = "SET" /\ ret = -1
           \/ H!Contents[c.key] # Absent /\ c.op \in {"SET", "MOD"} /\ ret = -2
    PROVE  HashStep
<1>1. HashInv' /\ H!Contents' = H!Contents /\ up' = up
    BY SameNodes
<1> DEFINE m == H!Contents
<1>2. m = MapOf(nodes) /\ DOMAIN m = H!Key /\ IsFiniteSet(KeysOf(m))
    BY HashLookup, NodeCount DEF HashInv, MapOf
<1>3. m[c.key] = Absent => Cardinality(KeysOf(m)) < Cardinality(H!Key)
    <2>1. PICK x \in {c.val, TRUE, FALSE} : x # Absent
        OBVIOUS
    <2> HIDE DEF m
    <2> QED
        BY <1>2, <2>1, KeyCount
<1>4. H!Map!E!ExecStatus(m, c) =
          IF c.op = "SET" \/ m[c.key] # Absent THEN "OK" ELSE "NOT_FOUND"
    BY <1>3, HashStatus
<1>5. [H!Map!Next]_(H!Map!vars)
    BY <1>1, <1>4, HashWrites
<1> QED
    BY <1>1, <1>5 DEF HashStep

\* The table and the map after a step that has written to one chain.
LEMMA HashWritten ==
    ASSUME H!HashAssumption, HashInv, up, up' = up,
           NEW c \in H!Map!E!Command, c.key \in H!Key, reply' = H!Reply(c.op, c.key, 0),
           NEW s, Good(s, H!Hash(c.key)), ValueIn(s, c.key) = c.val,
           \A q \in H!Key : q # c.key => ValueIn(s, q) = ValueIn(nodes[H!Hash(c.key)], q),
           nodes' = [nodes EXCEPT ![H!Hash(c.key)] = s],
           \/ /\ H!Contents[c.key] # Absent /\ c.val # Absent
              /\ count' = count /\ heap' = heap
           \/ /\ H!Contents[c.key] = Absent /\ c.val # Absent /\ c.op = "SET"
              /\ count' = count + 1 /\ heap' = heap + 3
           \/ /\ H!Contents[c.key] # Absent /\ c.val = Absent
              /\ count' = count - 1 /\ heap' = heap - 3
    PROVE  HashStep
<1> DEFINE m == H!Contents
<1>0. PICK k, x, u : /\ k = c.key /\ x = c.val /\ u = nodes' /\ k \in H!Key
                     /\ Good(s, H!Hash(k)) /\ ValueIn(s, k) = x
                     /\ \A q \in H!Key : q # k => ValueIn(s, q) = ValueIn(nodes[H!Hash(k)], q)
                     /\ u = Put(nodes, H!Hash(k), s)
    BY DEF Put
<1>1. m = MapOf(nodes) /\ Sound(nodes) /\ DOMAIN m = H!Key
    BY HashMapping DEF HashInv, MapOf
<1>2. Sound(nodes') /\ MapOf(nodes') = Put(MapOf(nodes), k, c.val)
    <2>1. Sound(u) /\ MapOf(u) = Put(MapOf(nodes), k, x)
        BY ONLY H!HashAssumption, <1>0, <1>1, OneChain
    <2> QED
        BY ONLY <1>0, <2>1
<1>3. /\ IsFiniteSet(KeysOf(m))
      /\ Cardinality(StoredIn(nodes)) = Cardinality(KeysOf(m))
      /\ Cardinality(StoredIn(nodes')) = Cardinality(KeysOf(MapOf(nodes')))
    BY <1>1, <1>2, NodeCount
<1>4. H!Contents' = H!Map!E!Execute(m, c)
    <2>1. H!Contents' = Put(m, k, c.val)
        BY ONLY H!HashAssumption, <1>1, <1>2, HashMapping
    <2>2. H!Map!E!Execute(m, c) = Put(m, k, c.val)
        BY <1>0, HashStatus DEF Put
    <2> QED
        BY ONLY <2>1, <2>2
<1> HIDE DEF m
<1>5. PICK w : w = MapOf(nodes') /\ w = Put(m, k, c.val)
    BY <1>1, <1>2
<1>6. PICK n \in Nat : n = Cardinality(KeysOf(m)) /\ n = Cardinality(StoredIn(nodes))
    BY <1>3, FS_CardinalityType
<1>7. /\ m[k] # Absent /\ c.val # Absent => Cardinality(StoredIn(nodes')) = n
      /\ m[k] = Absent /\ c.val # Absent =>
            Cardinality(StoredIn(nodes')) = n + 1 /\ Cardinality(KeysOf(m)) < Cardinality(H!Key)
      /\ m[k] # Absent /\ c.val = Absent => Cardinality(StoredIn(nodes')) = n - 1
    <2>1. /\ m[k] # Absent /\ x # Absent => Cardinality(KeysOf(w)) = Cardinality(KeysOf(m))
          /\ m[k] = Absent /\ x # Absent =>
                /\ Cardinality(KeysOf(w)) = Cardinality(KeysOf(m)) + 1
                /\ Cardinality(KeysOf(m)) < Cardinality(H!Key)
          /\ m[k] # Absent /\ x = Absent => Cardinality(KeysOf(w)) = Cardinality(KeysOf(m)) - 1
        <3>1. DOMAIN m = H!Key /\ k \in H!Key /\ IsFiniteSet(KeysOf(m)) /\ w = Put(m, k, x)
            BY ONLY <1>0, <1>1, <1>3, <1>5
        <3> QED
            BY ONLY H!HashAssumption, <3>1, KeyCount
    <2>2. Cardinality(StoredIn(nodes')) = Cardinality(KeysOf(w))
        BY <1>3, <1>5
    <2> QED
        BY ONLY <1>0, <1>6, <2>1, <2>2
<1>8. count = n /\ heap = 1 + 3 * n
    BY <1>6 DEF HashInv
<1>9. count' = Cardinality(StoredIn(nodes')) /\ heap' = 1 + 3 * Cardinality(StoredIn(nodes'))
    <2>1. CASE m[k] # Absent /\ c.val # Absent
        BY <1>0, <1>7, <1>8, <2>1 DEF m
    <2>2. CASE m[k] = Absent /\ c.val # Absent
        BY <1>0, <1>7, <1>8, <2>2 DEF m
    <2>3. CASE m[k] # Absent /\ c.val = Absent
        BY <1>0, <1>7, <1>8, <2>3 DEF m
    <2> QED
        BY <1>0, <2>1, <2>2, <2>3 DEF m
<1>10. HashInv'
    BY <1>2, <1>9 DEF HashInv
<1>11. H!Map!E!ExecStatus(m, c) = "OK"
    <2>1. m[k] # Absent \/ (c.op = "SET" /\ Cardinality(KeysOf(m)) < Cardinality(H!Key))
        BY <1>0, <1>7 DEF m
    <2> QED
        BY <1>0, <2>1, HashStatus
<1>12. [H!Map!Next]_(H!Map!vars)
    BY <1>4, <1>11, HashWrites DEF m
<1> QED
    BY <1>10, <1>12 DEF HashStep

\* The value of a stored key is replaced.
LEMMA HashOverwrite ==
    ASSUME H!HashAssumption, HashInv, up, NEW k \in H!Key, NEW v \in Value,
           H!Found(k) # {}, NEW op \in {"SET", "MOD"}, H!Overwrite(op, k, v)
    PROVE  HashStep
<1>1. PICK c : c = [op |-> op, key |-> k, val |-> v]
    OBVIOUS
<1>2. c \in H!Map!E!Command /\ c.op = op /\ c.key = k /\ c.val = v /\ v # Absent
    BY <1>1, HashCalls, HashConstants
<1>3. PICK s, x : s = nodes[H!Hash(k)] /\ x = H!First(H!Found(k))
    OBVIOUS
<1>4. Good(s, H!Hash(k)) /\ x \in DOMAIN s /\ s[x].key = k /\ H!Contents[k] # Absent
    BY <1>3, HashLookup
<1>5. CASE reply' = H!Reply(op, k, -2) /\ UNCHANGED <<nodes, count, up, heap>>
    BY <1>2, <1>4, <1>5, HashRefused
<1>6. CASE /\ nodes' = [nodes EXCEPT ![H!Hash(k)][H!First(H!Found(k))].val = v]
           /\ reply' = H!Reply(op, k, 0) /\ UNCHANGED <<count, up, heap>>
    <2>1. PICK t : t = Revalued(s, x, v)
        OBVIOUS
    <2>2. nodes' = [nodes EXCEPT ![H!Hash(k)] = t]
        BY <1>3, <1>6, <2>1 DEF Revalued
    <2>3. /\ Good(t, H!Hash(k)) /\ ValueIn(t, k) = v
          /\ \A q \in H!Key : q # k => ValueIn(t, q) = ValueIn(s, q)
        <3>1. /\ Good(t, H!Hash(k)) /\ ValueIn(t, s[x].key) = v
              /\ \A q \in H!Key : q # s[x].key => ValueIn(t, q) = ValueIn(s, q)
            <4>1. v \in Value
                OBVIOUS
            <4> QED
                BY ONLY H!HashAssumption, <1>4, <2>1, <4>1, ReplaceChain
        <3> QED
            BY ONLY <1>4, <3>1
    <2>4. /\ up /\ up' = up /\ c \in H!Map!E!Command /\ c.key \in H!Key
          /\ reply' = H!Reply(c.op, c.key, 0)
          /\ Good(t, H!Hash(c.key)) /\ ValueIn(t, c.key) = c.val
          /\ \A q \in H!Key : q # c.key => ValueIn(t, q) = ValueIn(nodes[H!Hash(c.key)], q)
          /\ nodes' = [nodes EXCEPT ![H!Hash(c.key)] = t]
          /\ H!Contents[c.key] # Absent /\ c.val # Absent
          /\ count' = count /\ heap' = heap
        BY <1>2, <1>3, <1>4, <1>6, <2>2, <2>3
    <2> QED
        BY ONLY H!HashAssumption, HashInv, <2>4, HashWritten
<1> QED
    BY <1>5, <1>6 DEF H!Overwrite

LEMMA HashSet ==
    ASSUME H!HashAssumption, HashInv, NEW k \in H!Key, NEW v \in Value, H!Set(k, v)
    PROVE  HashStep
<1>1. up
    BY DEF H!Set
<1>2. PICK c : c = [op |-> "SET", key |-> k, val |-> v]
    OBVIOUS
<1>3. c \in H!Map!E!Command /\ c.op = "SET" /\ c.key = k /\ c.val = v /\ v # Absent
    BY <1>2, HashCalls, HashConstants
<1>4. CASE H!Found(k) # {} /\ H!Overwrite("SET", k, v)
    BY <1>1, <1>4, HashOverwrite
<1>5. CASE /\ H!Found(k) = {}
           /\ nodes' = [nodes EXCEPT ![H!Hash(k)] = H!Inserted(k, v)]
           /\ count' = count + 1
           /\ heap' = heap + 3
           /\ reply' = H!Reply("SET", k, 0) /\ UNCHANGED up
    <2>1. PICK s, t : s = nodes[H!Hash(k)] /\ t = H!Inserted(k, v)
        OBVIOUS
    <2>2. t = Headed(s, k, v)
        BY <2>1 DEF H!Inserted, H!Chain, Headed
    <2>3. /\ Good(s, H!Hash(k)) /\ H!Contents[k] = Absent
          /\ \A p \in DOMAIN s : s[p].key # k
        BY <1>5, <2>1, HashLookup
    <2>4. /\ Good(t, H!Hash(k)) /\ ValueIn(t, k) = v
          /\ \A q \in H!Key : q # k => ValueIn(t, q) = ValueIn(s, q)
        <3>1. k \in H!Key /\ v \in Value
            OBVIOUS
        <3> QED
            BY ONLY H!HashAssumption, <2>2, <2>3, <3>1, InsertChain
    <2> QED
        BY <1>1, <1>3, <1>5, <2>1, <2>3, <2>4, HashWritten
<1>6. CASE /\ H!Found(k) = {}
           /\ \E failed \in 1 .. 3 : heap' = heap + (failed - 1) - H!Undone(failed)
           /\ reply' = H!Reply("SET", k, -1) /\ UNCHANGED <<nodes, count, up>>
    <2>1. heap \in Nat
        <3>1. Cardinality(StoredIn(nodes)) \in Nat
            BY NodeCount, FS_CardinalityType DEF HashInv
        <3> QED
            BY <3>1 DEF HashInv
    <2>2. heap' = heap
        <3>1. PICK failed \in 1 .. 3 : heap' = heap + (failed - 1) - H!Undone(failed)
            BY <1>6
        <3>2. H!Undone(failed) = failed - 1
            BY DEF H!Undone
        <3> QED
            BY <2>1, <3>1, <3>2
    <2>3. H!Contents[k] = Absent
        BY <1>6, HashLookup
    <2> QED
        BY <1>1, <1>3, <1>6, <2>2, <2>3, HashRefused
<1> QED
    BY <1>4, <1>5, <1>6 DEF H!Set

LEMMA HashMod ==
    ASSUME H!HashAssumption, HashInv, NEW k \in H!Key, NEW v \in Value, H!Mod(k, v)
    PROVE  HashStep
<1>1. up
    BY DEF H!Mod
<1>2. CASE H!Found(k) # {} /\ H!Overwrite("MOD", k, v)
    BY <1>1, <1>2, HashOverwrite
<1>3. CASE /\ H!Found(k) = {}
           /\ reply' = H!Reply("MOD", k, 1) /\ UNCHANGED <<nodes, count, up, heap>>
    <2>1. PICK c : c = [op |-> "MOD", key |-> k, val |-> v]
        OBVIOUS
    <2>2. c \in H!Map!E!Command /\ c.op = "MOD" /\ c.key = k
        BY <2>1, HashCalls
    <2>3. H!Contents[k] = Absent
        BY <1>3, HashLookup
    <2> QED
        BY <1>1, <1>3, <2>2, <2>3, HashRefused
<1> QED
    BY <1>2, <1>3 DEF H!Mod

LEMMA HashDel ==
    ASSUME H!HashAssumption, HashInv, NEW k \in H!Key, H!Del(k)
    PROVE  HashStep
<1>1. up /\ up' = up
    BY DEF H!Del
<1>2. PICK c : c = [op |-> "DEL", key |-> k, val |-> Absent]
    OBVIOUS
<1>3. c \in H!Map!E!Command /\ c.op = "DEL" /\ c.key = k /\ c.val = Absent
    BY <1>2, HashCalls
<1>4. CASE H!Found(k) = {} /\ reply' = H!Reply("DEL", k, -1) /\ UNCHANGED <<nodes, count, heap>>
    <2>1. H!Contents[k] = Absent
        BY <1>4, HashLookup
    <2> QED
        BY <1>1, <1>3, <1>4, <2>1, HashRefused
<1>5. CASE /\ H!Found(k) # {}
           /\ nodes' = [nodes EXCEPT ![H!Hash(k)] = H!Without(H!Chain(k), H!First(H!Found(k)))]
           /\ count' = count - 1
           /\ heap' = heap - 3
           /\ reply' = H!Reply("DEL", k, 0)
    <2>1. PICK s, x, t : /\ s = nodes[H!Hash(k)] /\ x = H!First(H!Found(k))
                         /\ t = H!Without(s, x)
        OBVIOUS
    <2>2. nodes' = [nodes EXCEPT ![H!Hash(k)] = t]
        BY <1>5, <2>1 DEF H!Chain
    <2>3. Good(s, H!Hash(k)) /\ x \in DOMAIN s /\ s[x].key = k /\ H!Contents[k] # Absent
        BY <1>5, <2>1, HashLookup
    <2>4. /\ Good(t, H!Hash(k)) /\ ValueIn(t, k) = Absent
          /\ \A q \in H!Key : q # k => ValueIn(t, q) = ValueIn(s, q)
        BY <2>1, <2>3, UnlinkChain
    <2> QED
        <3>1. /\ up /\ up' = up /\ c \in H!Map!E!Command /\ c.key \in H!Key
              /\ reply' = H!Reply(c.op, c.key, 0)
              /\ Good(t, H!Hash(c.key)) /\ ValueIn(t, c.key) = c.val
              /\ \A q \in H!Key : q # c.key => ValueIn(t, q) = ValueIn(nodes[H!Hash(c.key)], q)
              /\ nodes' = [nodes EXCEPT ![H!Hash(c.key)] = t]
              /\ H!Contents[c.key] # Absent /\ c.val = Absent
              /\ count' = count - 1 /\ heap' = heap - 3
            BY <1>1, <1>3, <1>5, <2>1, <2>2, <2>3, <2>4
        <3> QED
            BY ONLY H!HashAssumption, HashInv, <3>1, HashWritten
<1> QED
    BY <1>4, <1>5 DEF H!Del

LEMMA HashInit ==
    ASSUME H!HashAssumption, H!Init
    PROVE  HashInv /\ H!Map!Init
<1>1. nodes = H!EmptyTable /\ count = 0 /\ up = FALSE /\ heap = 0
    BY DEF H!Init
<1>2. HashInv
    BY <1>1, NoNodes DEF HashInv
<1>3. H!Contents = H!Map!E!EmptyDb
    BY <1>1, NoNodes, HashMapping, HashStatus
<1> QED
    BY <1>1, <1>2, <1>3 DEF H!Init, H!Map!Init, H!Map!Reply, H!Reply

\* The invariant, until a call has no chain to look at.
HashSafe == stray \in BOOLEAN /\ (~stray => HashInv)

\* Every call keeps the invariant and is a step of the map, or goes astray.
LEMMA HashNext ==
    ASSUME H!HashAssumption, HashSafe, [H!Next]_(H!vars)
    PROVE  HashSafe' /\ [stray' \/ H!Map!Next]_(H!Map!vars)
<1>1. CASE stray' = TRUE
    BY <1>1 DEF HashSafe
<1>2. CASE stray' = FALSE
    <2>1. stray = FALSE /\ HashInv
        BY <1>2 DEF HashSafe, H!Next, H!vars
    <2>2. H!Calls \/ UNCHANGED H!vars
        BY <1>2 DEF H!Next, H!Stray
    <2>3. HashStep
        <3>1. CASE H!Create
            BY <2>1, <3>1, HashCreate
        <3>2. CASE H!Destroy
            BY <2>1, <3>2, HashDestroy
        <3>3. CASE \E k \in H!Key, v \in Value : H!Set(k, v)
            BY <2>1, <3>3, HashSet
        <3>4. CASE \E k \in H!Key, v \in Value : H!Mod(k, v)
            BY <2>1, <3>4, HashMod
        <3>5. CASE \E k \in H!Key : H!Del(k)
            BY <2>1, <3>5, HashDel
        <3>6. CASE \E k \in H!Key : H!Get(k) \/ H!Exist(k)
            BY <2>1, <3>6, HashRead
        <3>7. CASE UNCHANGED H!vars
            <4>1. HashInv' /\ H!Contents' = H!Contents /\ up' = up /\ reply' = reply
                BY <2>1, <3>7, SameNodes DEF H!vars
            <4> QED
                BY <4>1 DEF HashStep, H!Map!vars
        <3> QED
            BY <2>2, <3>1, <3>2, <3>3, <3>4, <3>5, <3>6, <3>7 DEF H!Calls
    <2> QED
        BY <1>2, <2>3 DEF HashStep, HashSafe
<1> QED
    BY <1>1, <1>2 DEF HashSafe, H!Next, H!Calls, H!Stray, H!vars

LEMMA HashStart ==
    ASSUME H!HashAssumption, H!Init
    PROVE  HashSafe /\ H!Map!Init
    BY HashInit DEF HashSafe, H!Init

\* After any sequence of calls, whichever keys share a chain and whichever
\* allocations fail, every node lies in the chain of its key, no key has two, count
\* is their number, and the engine holds the memory of its table and of its nodes,
\* and none after kvs_hash_destory; until a call is made with a key for which _hash
\* leaves the table.
THEOREM HashStaysChained ==
    ASSUME H!HashAssumption
    PROVE  H!Spec => [](H!TypeOK /\ H!Chained /\ H!NoLeak)
<1>1. H!Init => HashSafe
    BY HashStart
<1>2. HashSafe /\ [H!Next]_(H!vars) => HashSafe'
    BY HashNext
<1>3. HashSafe => H!TypeOK /\ H!Chained /\ H!NoLeak
    <2> SUFFICES ASSUME HashSafe PROVE H!TypeOK /\ H!Chained /\ H!NoLeak
        OBVIOUS
    <2> SUFFICES ASSUME stray = FALSE, HashInv PROVE H!TypeOK /\ H!Chained /\ H!NoLeak
        BY DEF HashSafe, H!TypeOK, H!Chained, H!NoLeak
    <2>1. Cardinality(StoredIn(nodes)) \in Nat
        BY NodeCount, FS_CardinalityType DEF HashInv
    <2>2. H!TypeOK
        <3>1. count \in Nat /\ heap \in Nat
            BY <2>1 DEF HashInv
        <3> QED
            BY <3>1 DEF HashInv, Sound, H!TypeOK, Node
    <2>3. H!NoLeak
        BY HashMapping DEF H!NoLeak, HashInv
    <2>4. ASSUME NEW e \in StoredIn(nodes)
          PROVE  \E i \in H!Index : \E p \in DOMAIN nodes[i] :
                     /\ e = <<i, p>> /\ nodes[e[1]][e[2]] = nodes[i][p] /\ e[1] = i
                     /\ H!Hash(nodes[i][p].key) = i
        <3>1. PICK i, p : i \in H!Index /\ p \in DOMAIN nodes[i] /\ e = <<i, p>>
            BY Places
        <3>2. H!Hash(nodes[i][p].key) = i
            BY <3>1, PlaceNode DEF HashInv
        <3> QED
            BY <3>1, <3>2
    <2>5. ASSUME NEW e \in StoredIn(nodes), NEW f \in StoredIn(nodes),
                 nodes[e[1]][e[2]].key = nodes[f[1]][f[2]].key
          PROVE  e = f
        <3>1. PICK i, p : /\ i \in H!Index /\ p \in DOMAIN nodes[i] /\ e = <<i, p>>
                          /\ nodes[e[1]][e[2]] = nodes[i][p] /\ H!Hash(nodes[i][p].key) = i
            BY <2>4
        <3>2. PICK j, q : /\ j \in H!Index /\ q \in DOMAIN nodes[j] /\ f = <<j, q>>
                          /\ nodes[f[1]][f[2]] = nodes[j][q] /\ H!Hash(nodes[j][q].key) = j
            BY <2>4
        <3>3. i = j
            BY <2>5, <3>1, <3>2
        <3>4. p = q
            BY <2>5, <3>1, <3>2, <3>3 DEF HashInv, Sound, Good
        <3> QED
            BY <3>1, <3>2, <3>3, <3>4
    <2>6. \A e \in StoredIn(nodes) : H!Hash(nodes[e[1]][e[2]].key) = e[1]
        BY <2>4
    <2>7. H!Chained
        BY <2>5, <2>6, HashMapping DEF H!Chained, HashInv
    <2> QED
        BY <2>2, <2>3, <2>7
<1> QED
    BY <1>1, <1>2, <1>3, PTL DEF H!Spec

\* kvs_hash_set, mod, del, get and exist change what kvs_hash_foreach visits as
\* KVMap's commands change a map, and return what they would return for it: neither
\* a new head nor a node unlinked in the middle of a chain loses the keys beside it.
\* This holds until a call is made with a key for which _hash leaves the table.
THEOREM HashImplementsMap ==
    ASSUME H!HashAssumption
    PROVE  H!Spec => H!MapUntilStray
<1>1. H!Init => HashSafe /\ H!Map!Init
    BY HashStart
<1>2. HashSafe /\ [H!Next]_(H!vars) => HashSafe' /\ [stray' \/ H!Map!Next]_(H!Map!vars)
    BY HashNext
<1> QED
    BY <1>1, <1>2, PTL DEF H!Spec, H!MapUntilStray

HashPlain == HashSafe /\ stray = FALSE

\* With keys of characters up to 127 no call leaves the table, and the engine is the
\* map of KVMap for ever; a character above 127 is negative for _hash.
THEOREM PlainKeysNeverStray ==
    ASSUME H!HashAssumption, AnyKey \subseteq Seq(1 .. 127)
    PROVE  H!Spec => [](stray = FALSE) /\ H!Map!Spec
<1>1. H!Init => HashPlain /\ H!Map!Init
    BY HashStart DEF H!Init, HashPlain
<1>2. ASSUME HashSafe, stray = FALSE, [H!Next]_(H!vars)
      PROVE  HashSafe' /\ stray' = FALSE /\ [H!Map!Next]_(H!Map!vars)
    <2>1. HashSafe' /\ [stray' \/ H!Map!Next]_(H!Map!vars)
        BY <1>2, HashNext
    <2>2. \A k \in AnyKey : ~H!Stray(k)
        BY PlainInTable DEF H!Stray
    <2>3. stray' = FALSE
        BY <1>2, <2>2 DEF H!Next, H!vars
    <2> QED
        BY <2>1, <2>3
<1>3. HashPlain /\ [H!Next]_(H!vars) => HashPlain' /\ [H!Map!Next]_(H!Map!vars)
    BY <1>2 DEF HashPlain
<1>4. HashPlain => stray = FALSE
    BY DEF HashPlain
<1> QED
    BY <1>1, <1>3, <1>4, PTL DEF H!Spec, H!Map!Spec
=============================================================================
