---------------------------- MODULE MemoryProofs ----------------------------
(***************************************************************************)
(* Proofs about the page allocator and the address spaces of module        *)
(* Memory, for any number of pages, any page size, any size of programs,   *)
(* any geometry of the page tables and any heap limit.                     *)
(***************************************************************************)
EXTENDS Memory, TasksProofs, SequenceTheorems

-----------------------------------------------------------------------------
(* The inductive invariant.                                                *)

HeapSet(sp) == {sp.heap[i] : i \in DOMAIN sp.heap}
Stacks(sp)  == {sp.kstack, sp.stack} \ {NoPage}

(* Within an address space every page has one purpose.                     *)
Separate(sp) ==
    /\ sp.kstack = sp.stack => sp.kstack = NoPage
    /\ Stacks(sp) \cap (sp.tables \cup sp.image \cup HeapSet(sp)) = {}
    /\ sp.tables \cap (sp.image \cup HeapSet(sp)) = {}
    /\ sp.image \cap HeapSet(sp) = {}
    /\ \A i, j \in DOMAIN sp.heap : sp.heap[i] = sp.heap[j] => i = j

(* The bitmap and its counter.                                             *)
BitmapOK ==
    /\ used \subseteq Pages
    /\ lost \subseteq used
    /\ KernelPages \subseteq used
    /\ free_pages = Cardinality(Pages \ used)
    /\ lost \cap KernelPages = {}

(* Whom the pages belong to.                                               *)
OwnersOK ==
    /\ \A s \in Slots : Separate(spaces[s])
    /\ \A s, r \in Slots : s # r => Owned(spaces[s]) \cap Owned(spaces[r]) = {}
    /\ AllOwned \subseteq used
    /\ used \subseteq AllOwned \cup lost \cup KernelPages
    /\ AllOwned \cap (lost \cup KernelPages) = {}

(* An empty slot owns nothing, and a user task has a leaf table for all of *)
(* its image and its heap: sbrk needs a page for a table only where the    *)
(* heap reaches a new region.                                              *)
SlotsOK ==
    \A s \in Slots :
        /\ tasks[s] = NoTask => Owned(spaces[s]) = {}
        /\ tasks[s].pid \notin {NoPid, IdlePid} =>
              TablesFor(Cardinality(spaces[s].image), Len(spaces[s].heap))
                  <= Cardinality(spaces[s].tables)

MemInv ==
    /\ TasksInv
    /\ spaces \in [Slots -> Space]
    /\ BitmapOK
    /\ OwnersOK
    /\ SlotsOK
    /\ HeapMapped

-----------------------------------------------------------------------------
(* Arithmetic of sizes.                                                    *)

LEMMA CeilDivType ==
    ASSUME NEW a \in Nat, NEW b \in Nat \ {0}
    PROVE  CeilDiv(a, b) \in Nat
BY DEF CeilDiv

(* More bytes do not need fewer pages, more pages not fewer tables.        *)
LEMMA CeilDivMonotonic ==
    ASSUME NEW a \in Nat, NEW c \in Nat, NEW b \in Nat \ {0}, a <= c
    PROVE  CeilDiv(a, b) <= CeilDiv(c, b)
<1> DEFINE x == a + b - 1
           y == c + b - 1
           q == x \div b
           r == y \div b
<1>1. x \in Nat /\ y \in Nat /\ x <= y
  OBVIOUS
<1> HIDE DEF x, y
<1>2. q \in Int /\ r \in Int /\ b * q <= x /\ y < b * r + b
  BY <1>1
<1> HIDE DEF q, r
<1>3. ASSUME q > r PROVE FALSE
  <2>1. q - r - 1 \in Nat
    BY <1>2, <1>3
  <2>2. b * (q - r - 1) >= 0
    BY <2>1
  <2>3. b * (q - r - 1) = b * q - b * r - b
    BY <1>2
  <2> QED
    BY <1>1, <1>2, <2>2, <2>3
<1> QED
  BY <1>2, <1>3 DEF CeilDiv, q, r, x, y

LEMMA CeilDivZero ==
    ASSUME NEW b \in Nat \ {0}
    PROVE  CeilDiv(0, b) = 0
BY DEF CeilDiv

-----------------------------------------------------------------------------
(* Counting.                                                               *)

LEMMA IntervalSize ==
    ASSUME NEW a \in Int, NEW n \in Nat
    PROVE  IsFiniteSet(a .. a + n - 1) /\ Cardinality(a .. a + n - 1) = n
<1> DEFINE b == a + n - 1
<1>1. b \in Int /\ (a > b <=> n = 0) /\ b - a + 1 = n
  OBVIOUS
<1> HIDE DEF b
<1>2. IsFiniteSet(a .. b) /\ Cardinality(a .. b) = IF a > b THEN 0 ELSE b - a + 1
  BY <1>1, FS_Interval
<1>3. Cardinality(a .. b) = n
  BY <1>1, <1>2
<1> QED
  BY <1>2, <1>3 DEF b

Distinct(f, D) == \A i, j \in D : f[i] = f[j] => i = j

(* As many values as arguments.                                            *)
LEMMA ImageSize ==
    ASSUME NEW f, NEW D, IsFiniteSet(D), Distinct(f, D)
    PROVE  /\ IsFiniteSet({f[i] : i \in D})
           /\ Cardinality({f[i] : i \in D}) = Cardinality(D)
<1> DEFINE T == {f[i] : i \in D}
           g == [i \in D |-> f[i]]
<1>1. g \in Bijection(D, T)
  BY DEF Bijection, Injection, Surjection, IsInjective, Distinct
<1>2. ExistsBijection(D, T)
  BY <1>1 DEF ExistsBijection
<1> QED
  BY <1>2, FS_Bijection

(* A part of a larger whole is smaller.                                    *)
LEMMA ProperSubset ==
    ASSUME NEW S, IsFiniteSet(S), NEW T \in SUBSET S, T # S
    PROVE  /\ IsFiniteSet(T) /\ Cardinality(T) \in Nat /\ Cardinality(S) \in Nat
           /\ Cardinality(T) < Cardinality(S)
<1>1. IsFiniteSet(T) /\ Cardinality(T) <= Cardinality(S) /\ Cardinality(T) # Cardinality(S)
  BY FS_Subset
<1>2. Cardinality(T) \in Nat /\ Cardinality(S) \in Nat
  BY <1>1, FS_CardinalityType
<1> QED
  BY <1>1, <1>2

LEMMA DisjointSize ==
    ASSUME NEW S, IsFiniteSet(S), NEW T, IsFiniteSet(T), S \cap T = {}
    PROVE  /\ IsFiniteSet(S \cup T)
           /\ Cardinality(S) \in Nat /\ Cardinality(T) \in Nat
           /\ Cardinality(S \cup T) = Cardinality(S) + Cardinality(T)
<1>1. /\ IsFiniteSet(S \cup T)
      /\ Cardinality(S \cup T) =
            Cardinality(S) + Cardinality(T) - Cardinality(S \cap T)
  BY FS_Union
<1>2. Cardinality(S \cap T) = 0
  BY FS_EmptySet
<1>3. Cardinality(S) \in Nat /\ Cardinality(T) \in Nat
  BY FS_CardinalityType
<1> QED
  BY <1>1, <1>2, <1>3

(* The order in which alloc hands out a set of pages leaves none out and   *)
(* takes none twice.                                                       *)
LEMMA InOrderBijective ==
    ASSUME NEW S \in SUBSET Int, IsFiniteSet(S)
    PROVE  LET n == Cardinality(S)
           IN  /\ n \in Nat
               /\ InOrder(S) \in [1 .. n -> S]
               /\ Distinct(InOrder(S), 1 .. n)
<1> DEFINE n == Cardinality(S)
           Below(p) == {q \in S : q < p}
           rank == [p \in S |-> Cardinality(Below(p))]
           R == {rank[p] : p \in S}
<1>1. n \in Nat
  BY FS_CardinalityType
<1>2. ASSUME NEW p \in S PROVE rank[p] \in 0 .. n - 1
  <2>1. Below(p) \in SUBSET S /\ Below(p) # S
    OBVIOUS
  <2>2. Cardinality(Below(p)) \in Nat /\ Cardinality(Below(p)) < n
    BY <2>1, ProperSubset
  <2> QED
    BY <1>1, <2>2
<1>3. ASSUME NEW p \in S, NEW q \in S, p < q PROVE rank[p] < rank[q]
  <2>1. Below(q) \in SUBSET S
    OBVIOUS
  <2>2. Below(p) \in SUBSET Below(q) /\ Below(p) # Below(q)
    <3>1. p \in Below(q) /\ p \notin Below(p)
      BY <1>3
    <3>2. \A x \in S : x < p => x < q
      BY <1>3
    <3> QED
      BY <3>1, <3>2
  <2>3. IsFiniteSet(Below(q))
    BY <2>1, FS_Subset
  <2>4. Cardinality(Below(p)) < Cardinality(Below(q))
    BY <2>2, <2>3, ProperSubset
  <2> QED
    BY <2>4
<1> HIDE DEF rank
<1>4. Distinct(rank, S)
  <2>1. SUFFICES ASSUME NEW p \in S, NEW q \in S, rank[p] = rank[q], p # q
                 PROVE  FALSE
    BY DEF Distinct
  <2>2. p < q \/ q < p
    BY <2>1
  <2>3. rank[p] \in Int /\ rank[q] \in Int
    BY <1>1, <1>2
  <2> QED
    BY <1>3, <2>1, <2>2, <2>3
<1>5. Cardinality(R) = n /\ R \in SUBSET (0 .. n - 1)
  BY <1>2, <1>4, ImageSize
<1>6. IsFiniteSet(0 .. n - 1) /\ Cardinality(0 .. n - 1) = n
  BY <1>1, FS_Interval
<1>7. R = 0 .. n - 1
  BY <1>5, <1>6, FS_Subset
<1>8. ASSUME NEW i \in 1 .. n
      PROVE  InOrder(S)[i] \in S /\ rank[InOrder(S)[i]] = i - 1
  <2>1. i - 1 \in R
    BY <1>1, <1>7
  <2>2. PICK p \in S : rank[p] = i - 1
    BY <2>1
  <2>3. \E q \in S : Cardinality(Below(q)) = i - 1
    BY <2>2 DEF rank
  <2>4. InOrder(S)[i] = CHOOSE q \in S : Cardinality(Below(q)) = i - 1
    BY DEF InOrder
  <2>5. InOrder(S)[i] \in S /\ Cardinality(Below(InOrder(S)[i])) = i - 1
    BY <2>3, <2>4
  <2> QED
    BY <2>5 DEF rank
<1>9. InOrder(S) \in [1 .. n -> S]
  <2> DEFINE f == InOrder(S)
             first(i) == CHOOSE p \in S : Cardinality({q \in S : q < p}) = i - 1
  <2>1. f = [i \in 1 .. n |-> f[i]]
    <3>1. f = [i \in 1 .. n |-> first(i)]
      BY DEF InOrder
    <3> HIDE DEF f, first, n
    <3> QED
      BY <3>1
  <2>2. \A i \in 1 .. n : f[i] \in S
    BY <1>8
  <2> HIDE DEF f
  <2> QED
    BY <2>1, <2>2 DEF f
<1>10. Distinct(InOrder(S), 1 .. n)
  BY <1>1, <1>8 DEF Distinct
<1> QED
  BY <1>1, <1>9, <1>10

(* What alloc finds, page after page, are the free pages, each once.       *)
LEMMA FreeIsFree ==
    ASSUME BitmapOK
    PROVE  /\ free_pages \in Nat
           /\ Free \in [1 .. free_pages -> Pages \ used]
           /\ Distinct(Free, 1 .. free_pages)
<1>1. Pages \ used \in SUBSET Int /\ IsFiniteSet(Pages \ used)
  <2>1. IsFiniteSet(Pages)
    BY FS_Interval, MemoryAssumption DEF Pages
  <2>2. Pages \in SUBSET Int
    BY DEF Pages
  <2> QED
    BY <2>1, <2>2, FS_Difference
<1> QED
  BY <1>1, InOrderBijective DEF Free, BitmapOK

(* A run of n of them, after the first k, is n free pages.                 *)
LEMMA PartOfFree ==
    ASSUME BitmapOK, NEW k \in Nat, NEW n \in Nat, k + n <= free_pages
    PROVE  /\ Part(Free, k, n) \in SUBSET (Pages \ used)
           /\ IsFiniteSet(Part(Free, k, n))
           /\ Cardinality(Part(Free, k, n)) = n
<1> DEFINE D == k + 1 .. k + n
<1>1. /\ free_pages \in Nat
      /\ Free \in [1 .. free_pages -> Pages \ used]
      /\ Distinct(Free, 1 .. free_pages)
  BY FreeIsFree
<1>2. D \in SUBSET (1 .. free_pages)
  BY <1>1
<1>3. IsFiniteSet(D) /\ Cardinality(D) = n
  BY FS_Interval
<1>4. Part(Free, k, n) = {Free[i] : i \in D}
  BY DEF Part
<1> HIDE DEF D
<1>5. Distinct(Free, D)
  BY <1>1, <1>2 DEF Distinct
<1>6. {Free[i] : i \in D} \in SUBSET (Pages \ used)
  BY <1>1, <1>2
<1> QED
  BY <1>3, <1>4, <1>5, <1>6, ImageSize

(* Two runs that do not overlap have no page in common.                    *)
LEMMA PartsApart ==
    ASSUME BitmapOK, NEW k \in Nat, NEW n \in Nat, NEW l \in Nat, NEW m \in Nat,
           k + n <= l, l + m <= free_pages
    PROVE  Part(Free, k, n) \cap Part(Free, l, m) = {}
BY FreeIsFree DEF Part, Distinct

-----------------------------------------------------------------------------
(* The three ways in which pages change hands.                             *)

LEMMA PagesFinite == IsFiniteSet(Pages)
BY FS_Interval, MemoryAssumption DEF Pages

(* The number of free pages after some are taken and others given back.    *)
LEMMA FreeCount ==
    ASSUME BitmapOK, NEW taken \in SUBSET (Pages \ used), NEW gone \in SUBSET used
    PROVE  /\ Cardinality(Pages \ ((used \cup taken) \ gone)) =
                  free_pages - Cardinality(taken) + Cardinality(gone)
           /\ IsFiniteSet(taken) /\ Cardinality(taken) \in Nat
           /\ IsFiniteSet(gone) /\ Cardinality(gone) \in Nat
<1> DEFINE F == Pages \ used
           G == F \ taken
<1>1. IsFiniteSet(F) /\ free_pages = Cardinality(F)
  BY PagesFinite, FS_Difference DEF BitmapOK
<1>2. IsFiniteSet(taken) /\ IsFiniteSet(gone)
  <2>1. gone \in SUBSET Pages
    BY DEF BitmapOK
  <2> QED
    BY <1>1, <2>1, PagesFinite, FS_Subset
<1>3. Cardinality(taken) \in Nat /\ Cardinality(gone) \in Nat /\ free_pages \in Nat
  BY <1>1, <1>2, FS_CardinalityType
<1>4. IsFiniteSet(G) /\ Cardinality(G) = free_pages - Cardinality(taken)
  <2>1. F \cap taken = taken
    OBVIOUS
  <2> QED
    BY <1>1, <2>1, FS_Difference
<1>5. G \cap gone = {}
  OBVIOUS
<1>6. Cardinality(G \cup gone) = Cardinality(G) + Cardinality(gone)
  BY <1>2, <1>4, <1>5, DisjointSize
<1>7. Pages \ ((used \cup taken) \ gone) = G \cup gone
  BY DEF BitmapOK
<1> QED
  BY <1>2, <1>3, <1>4, <1>6, <1>7

LEMMA OwnedIs ==
    ASSUME NEW sp
    PROVE  Owned(sp) = Stacks(sp) \cup sp.tables \cup sp.image \cup HeapSet(sp)
BY DEF Owned, Stacks, HeapSet

LEMMA NoSpaceOK == NoSpace \in Space /\ Owned(NoSpace) = {} /\ Separate(NoSpace)
<1>1. /\ NoSpace.kstack = NoPage /\ NoSpace.stack = NoPage
      /\ NoSpace.tables = {} /\ NoSpace.image = {}
      /\ NoSpace.heap = <<>> /\ NoSpace.heap_end = 0
  BY DEF NoSpace
<1>2. <<>> \in Seq(Pages) /\ DOMAIN NoSpace.heap = {}
  <2>1. <<>> \in Seq(Pages) /\ Len(<<>>) = 0
    BY EmptySeq
  <2> QED
    BY <1>1, <2>1
<1>3. NoSpace \in Space
  BY <1>2 DEF NoSpace, Space
<1>4. Stacks(NoSpace) = {} /\ HeapSet(NoSpace) = {}
  BY <1>1, <1>2 DEF Stacks, HeapSet
<1>5. Owned(NoSpace) = {}
  BY <1>1, <1>4, OwnedIs
<1>6. Separate(NoSpace)
  BY <1>1, <1>2, <1>4 DEF Separate
<1> QED
  BY <1>3, <1>5, <1>6

(* One task gets the free pages "taken" and gives back its pages "gone":   *)
(* fork, exec and sbrk.                                                    *)
LEMMA Exchange ==
    ASSUME BitmapOK, OwnersOK, spaces \in [Slots -> Space],
           NEW m \in Slots, NEW sp \in Space, Separate(sp),
           NEW taken \in SUBSET (Pages \ used),
           NEW gone \in SUBSET Owned(spaces[m]),
           Owned(sp) = (Owned(spaces[m]) \ gone) \cup taken,
           spaces' = [spaces EXCEPT ![m] = sp],
           used' = (used \cup taken) \ gone,
           free_pages' = free_pages - Cardinality(taken) + Cardinality(gone),
           lost' = lost
    PROVE  BitmapOK' /\ OwnersOK' /\ spaces' \in [Slots -> Space]
<1>1. /\ spaces' \in [Slots -> Space]
      /\ spaces'[m] = sp
      /\ \A s \in Slots \ {m} : spaces'[s] = spaces[s]
  OBVIOUS
<1>2. \A p : p \in AllOwned <=> \E s \in Slots : p \in Owned(spaces[s])
  BY DEF AllOwned
<1>3. \A p : p \in AllOwned' <=> \E s \in Slots : p \in Owned(spaces'[s])
  BY DEF AllOwned
<1>4. gone \in SUBSET used /\ gone \cap (lost \cup KernelPages) = {}
  BY <1>2 DEF OwnersOK
<1>5. BitmapOK'
  <2>1. free_pages' = Cardinality(Pages \ used')
    BY <1>4, FreeCount
  <2>2. /\ used' \subseteq Pages /\ lost' \subseteq used'
        /\ KernelPages \subseteq used' /\ lost' \cap KernelPages = {}
    BY <1>4 DEF BitmapOK
  <2> QED
    BY <2>1, <2>2 DEF BitmapOK, Pages, KernelPages
<1>6. \A s \in Slots : Separate(spaces'[s])
  BY <1>1 DEF OwnersOK
<1>7. \A s \in Slots : Owned(spaces[s]) \subseteq used
  BY <1>2 DEF OwnersOK
<1>8. \A s, r \in Slots : s # r => Owned(spaces'[s]) \cap Owned(spaces'[r]) = {}
  <2>1. \A s \in Slots \ {m} : Owned(spaces[s]) \cap Owned(sp) = {}
    BY <1>7 DEF OwnersOK
  <2>2. SUFFICES ASSUME NEW s \in Slots, NEW r \in Slots, s # r
                 PROVE  Owned(spaces'[s]) \cap Owned(spaces'[r]) = {}
    OBVIOUS
  <2>3. CASE s = m
    BY <1>1, <2>1, <2>2, <2>3
  <2>4. CASE r = m
    BY <1>1, <2>1, <2>2, <2>4
  <2>5. CASE s # m /\ r # m
    BY <1>1, <2>2, <2>5 DEF OwnersOK
  <2> QED
    BY <2>3, <2>4, <2>5
<1>9. AllOwned' \subseteq used'
  <2>1. ASSUME NEW s \in Slots \ {m} PROVE Owned(spaces'[s]) \subseteq used'
    BY <1>1, <1>7 DEF OwnersOK
  <2>2. Owned(spaces'[m]) \subseteq used'
    BY <1>1, <1>7
  <2> QED
    BY <1>3, <2>1, <2>2
<1>10. used' \subseteq AllOwned' \cup lost' \cup KernelPages
  <2>1. SUFFICES ASSUME NEW p \in used', p \notin lost, p \notin KernelPages
                 PROVE  p \in AllOwned'
    OBVIOUS
  <2>2. CASE p \in taken
    BY <1>1, <1>3, <2>2
  <2>3. CASE p \notin taken
    <3>1. PICK s \in Slots : p \in Owned(spaces[s])
      BY <1>2, <2>1, <2>3 DEF OwnersOK
    <3> QED
      BY <1>1, <1>3, <2>1, <2>3, <3>1
  <2> QED
    BY <2>2, <2>3
<1>11. AllOwned' \cap (lost' \cup KernelPages) = {}
  <2>1. SUFFICES ASSUME NEW p \in AllOwned' PROVE p \notin lost \cup KernelPages
    OBVIOUS
  <2>2. p \in taken \/ p \in AllOwned
    BY <1>1, <1>2, <1>3, <2>1
  <2> QED
    BY <2>2 DEF OwnersOK, BitmapOK
<1> QED
  BY <1>1, <1>5, <1>6, <1>8, <1>9, <1>10, <1>11 DEF OwnersOK, KernelPages

(* Pages are taken and then forgotten: a fork or an exec that fails.       *)
LEMMA Forget ==
    ASSUME BitmapOK, OwnersOK,
           NEW taken \in SUBSET (Pages \ used),
           spaces' = spaces, used' = used \cup taken, lost' = lost \cup taken,
           free_pages' = free_pages - Cardinality(taken)
    PROVE  BitmapOK' /\ OwnersOK'
<1>1. AllOwned' = AllOwned
  BY DEF AllOwned
<1>2. Cardinality(Pages \ used') = free_pages - Cardinality(taken)
  <2>1. {} \in SUBSET used /\ used' = (used \cup taken) \ {}
    OBVIOUS
  <2>2. Cardinality(Pages \ used') =
            free_pages - Cardinality(taken) + Cardinality({})
        /\ Cardinality(taken) \in Nat
    BY <2>1, FreeCount
  <2>3. free_pages \in Nat /\ Cardinality({}) = 0
    BY FreeIsFree, FS_EmptySet
  <2> QED
    BY <2>2, <2>3
<1>3. BitmapOK'
  <2>1. /\ used' \subseteq Pages /\ lost' \subseteq used'
        /\ KernelPages \subseteq used' /\ lost' \cap KernelPages = {}
    BY DEF BitmapOK
  <2> QED
    BY <1>2, <2>1 DEF BitmapOK, Pages, KernelPages
<1>4. /\ AllOwned \subseteq used'
      /\ used' \subseteq AllOwned \cup lost' \cup KernelPages
      /\ AllOwned \cap (lost' \cup KernelPages) = {}
  BY DEF OwnersOK
<1>5. OwnersOK'
  BY <1>1, <1>4 DEF OwnersOK, KernelPages
<1> QED
  BY <1>3, <1>5

(* free_task for the slots C.                                              *)
LEMMA ReleaseSlots ==
    ASSUME BitmapOK, OwnersOK, spaces \in [Slots -> Space],
           NEW C \in SUBSET Slots,
           Released(UNION {FreedWithSlot(s) : s \in C}),
           spaces' = [s \in Slots |-> IF s \in C THEN NoSpace ELSE spaces[s]],
           lost' = lost
    PROVE  BitmapOK' /\ OwnersOK' /\ spaces' \in [Slots -> Space]
<1> DEFINE G == UNION {FreedWithSlot(s) : s \in C}
<1>1. \A p : p \in AllOwned <=> \E s \in Slots : p \in Owned(spaces[s])
  BY DEF AllOwned
<1>2. \A p : p \in AllOwned' <=> \E s \in Slots : p \in Owned(spaces'[s])
  BY DEF AllOwned
<1>3. \A p : p \in G <=> \E s \in C : p \in Owned(spaces[s])
  BY DEF FreedWithSlot
<1> HIDE DEF G
<1>4. /\ spaces' \in [Slots -> Space]
      /\ \A s \in C : spaces'[s] = NoSpace
      /\ \A s \in Slots \ C : spaces'[s] = spaces[s]
  BY NoSpaceOK
<1>5. G \in SUBSET used /\ G \cap (lost \cup KernelPages) = {}
  BY <1>1, <1>3 DEF OwnersOK
<1>6. used' = (used \cup {}) \ G /\ free_pages' = free_pages + Cardinality(G)
  <2>1. G \cap used = G
    BY <1>5
  <2> QED
    BY <2>1 DEF Released, G
<1>7. Cardinality(Pages \ used') = free_pages'
  <2>1. {} \in SUBSET (Pages \ used)
    OBVIOUS
  <2>2. Cardinality(Pages \ used') =
            free_pages - Cardinality({}) + Cardinality(G)
        /\ Cardinality(G) \in Nat
    BY <1>5, <1>6, <2>1, FreeCount
  <2>3. free_pages \in Nat /\ Cardinality({}) = 0
    BY FreeIsFree, FS_EmptySet
  <2> QED
    BY <1>6, <2>2, <2>3
<1>8. BitmapOK'
  <2>1. /\ used' \subseteq Pages /\ lost' \subseteq used'
        /\ KernelPages \subseteq used' /\ lost' \cap KernelPages = {}
    BY <1>5, <1>6 DEF BitmapOK
  <2> QED
    BY <1>7, <2>1 DEF BitmapOK, Pages, KernelPages
<1>9. \A s \in Slots : Separate(spaces'[s])
  BY <1>4, NoSpaceOK DEF OwnersOK
<1>10. \A s, r \in Slots : s # r => Owned(spaces'[s]) \cap Owned(spaces'[r]) = {}
  <2>1. SUFFICES ASSUME NEW s \in Slots, NEW r \in Slots, s # r
                 PROVE  Owned(spaces'[s]) \cap Owned(spaces'[r]) = {}
    OBVIOUS
  <2>2. CASE s \in C \/ r \in C
    BY <1>4, <2>2, NoSpaceOK
  <2>3. CASE s \notin C /\ r \notin C
    BY <1>4, <2>1, <2>3 DEF OwnersOK
  <2> QED
    BY <2>2, <2>3
<1>11. AllOwned' \subseteq used'
  <2>1. ASSUME NEW s \in Slots \ C PROVE Owned(spaces[s]) \subseteq used \ G
    BY <1>1, <1>3 DEF OwnersOK
  <2> QED
    BY <1>2, <1>4, <1>6, <2>1, NoSpaceOK
<1>12. used' \subseteq AllOwned' \cup lost' \cup KernelPages
  <2>1. SUFFICES ASSUME NEW p \in used', p \notin lost, p \notin KernelPages
                 PROVE  p \in AllOwned'
    OBVIOUS
  <2>2. PICK s \in Slots : p \in Owned(spaces[s])
    BY <1>1, <1>6, <2>1 DEF OwnersOK
  <2>3. s \notin C
    BY <1>3, <1>6, <2>1, <2>2
  <2> QED
    BY <1>2, <1>4, <2>2, <2>3
<1>13. AllOwned' \subseteq AllOwned
  BY <1>1, <1>2, <1>4, NoSpaceOK
<1>14. AllOwned' \cap (lost' \cup KernelPages) = {}
  BY <1>13 DEF OwnersOK
<1> QED
  BY <1>4, <1>8, <1>9, <1>10, <1>11, <1>12, <1>14 DEF OwnersOK, KernelPages

-----------------------------------------------------------------------------
(* What the handlers start from.                                           *)

(* The task that makes the call is in the table.                           *)
LEMMA CallerSlot ==
    ASSUME TasksInv, current # IdlePid
    PROVE  /\ MySlot \in Slots
           /\ tasks[MySlot].pid = current
           /\ tasks[MySlot].pid \notin {NoPid, IdlePid}
<1>1. PICK s \in Slots : tasks[s].pid = current
  BY DEF TasksInv, Runs
<1>2. current \in Nat
  BY DEF TasksInv, TasksTypeOK
<1>3. MySlot = SlotOf(tasks, current)
  BY DEF MySlot
<1>4. MySlot \in Slots /\ tasks[MySlot].pid = current
  BY <1>1, <1>3 DEF SlotOf
<1> QED
  BY <1>2, <1>4 DEF NoPid

LEMMA SpaceFacts ==
    ASSUME NEW sp \in Space
    PROVE  /\ sp.kstack \in Pages \cup {NoPage} /\ sp.stack \in Pages \cup {NoPage}
           /\ sp.tables \in SUBSET Pages /\ IsFiniteSet(sp.tables)
           /\ Cardinality(sp.tables) \in Nat
           /\ sp.image \in SUBSET Pages /\ IsFiniteSet(sp.image)
           /\ Cardinality(sp.image) \in Nat
           /\ sp.heap \in Seq(Pages) /\ Len(sp.heap) \in Nat
           /\ sp.heap \in [1 .. Len(sp.heap) -> Pages]
           /\ DOMAIN sp.heap = 1 .. Len(sp.heap)
           /\ sp.heap_end \in Nat
           /\ NoPage \notin Pages
<1>1. /\ sp.kstack \in Pages \cup {NoPage} /\ sp.stack \in Pages \cup {NoPage}
      /\ sp.tables \in SUBSET Pages /\ sp.image \in SUBSET Pages
      /\ sp.heap \in Seq(Pages) /\ sp.heap_end \in Nat
  BY DEF Space
<1>2. IsFiniteSet(sp.tables) /\ IsFiniteSet(sp.image)
  BY <1>1, PagesFinite, FS_Subset
<1>3. Cardinality(sp.tables) \in Nat /\ Cardinality(sp.image) \in Nat
  BY <1>2, FS_CardinalityType
<1>4. NoPage \notin Pages
  BY DEF NoPage, Pages
<1> QED
  BY <1>1, <1>2, <1>3, <1>4, LenProperties

LEMMA TablesForFacts ==
    ASSUME NEW i \in Nat, NEW h \in Nat
    PROVE  /\ TablesFor(i, h) \in Nat
           /\ \A g \in Nat : g <= h => TablesFor(i, g) <= TablesFor(i, h)
<1>1. KernelTables \in Nat /\ RegionPages \in Nat \ {0}
  BY MemoryAssumption
<1>2. CeilDiv(i + h, RegionPages) \in Nat
  BY <1>1, CeilDivType
<1>3. ASSUME NEW g \in Nat, g <= h
      PROVE  /\ CeilDiv(i + g, RegionPages) \in Nat
             /\ CeilDiv(i + g, RegionPages) <= CeilDiv(i + h, RegionPages)
  <2>1. i + g \in Nat /\ i + h \in Nat /\ i + g <= i + h
    BY <1>3
  <2> QED
    BY <1>1, <2>1, CeilDivType, CeilDivMonotonic
<1> QED
  BY <1>1, <1>2, <1>3 DEF TablesFor

(* A sequence given by its elements.                                       *)
LEMMA HeapSeq ==
    ASSUME NEW n \in Nat, NEW f \in [1 .. n -> Pages]
    PROVE  f \in Seq(Pages) /\ Len(f) = n /\ DOMAIN f = 1 .. n
<1>1. f \in Seq(Pages)
  BY SeqDef
<1>2. Len(f) \in Nat /\ DOMAIN f = 1 .. Len(f) /\ DOMAIN f = 1 .. n
  BY <1>1, LenProperties
<1>3. Len(f) = n
  BY <1>2
<1> QED
  BY <1>1, <1>2, <1>3

-----------------------------------------------------------------------------
(* fork                                                                    *)

(* The child is made of the first ForkPages free pages, each used once.    *)
LEMMA ForkedOK ==
    ASSUME BitmapOK, MySpace \in Space, Enough(ForkPages)
    PROVE  /\ ForkPages \in Nat
           /\ Forked \in Space /\ Separate(Forked)
           /\ Owned(Forked) = Part(Free, 0, ForkPages)
           /\ Len(Forked.heap) = Len(MySpace.heap)
           /\ Forked.heap_end = MySpace.heap_end
           /\ TablesFor(Cardinality(Forked.image), Len(Forked.heap))
                  = Cardinality(Forked.tables)
<1> DEFINE i == Cardinality(MySpace.image)
           h == Len(MySpace.heap)
           t == TablesFor(i, h)
           n == 2 + t + i + h
           heap == [j \in 1 .. h |-> Free[2 + t + i + j]]
<1>1. i \in Nat /\ h \in Nat /\ t \in Nat /\ MySpace.heap_end \in Nat
  BY SpaceFacts, TablesForFacts
<1>2. ForkPages = n
  BY <1>1 DEF ForkPages, UserPages
<1>3. /\ Forked.kstack = Free[1] /\ Forked.stack = Free[2]
      /\ Forked.tables = Part(Free, 2, t) /\ Forked.image = Part(Free, 2 + t, i)
      /\ Forked.heap = heap /\ Forked.heap_end = MySpace.heap_end
  BY DEF Forked
<1>4. Forked = [kstack |-> Free[1], stack |-> Free[2], tables |-> Part(Free, 2, t),
                image |-> Part(Free, 2 + t, i), heap |-> heap,
                heap_end |-> MySpace.heap_end]
  BY DEF Forked
<1> HIDE DEF i, h, t
<1>5. n <= free_pages
  BY <1>2 DEF Enough
<1>6. /\ free_pages \in Nat
      /\ Free \in [1 .. free_pages -> Pages \ used]
      /\ Distinct(Free, 1 .. free_pages)
  BY FreeIsFree
<1>7. heap \in [1 .. h -> Pages]
  <2>1. ASSUME NEW j \in 1 .. h PROVE Free[2 + t + i + j] \in Pages
    <3>1. 2 + t + i + j \in 1 .. free_pages
      BY <1>1, <1>5, <1>6
    <3> QED
      BY <1>6, <3>1
  <2> QED
    BY <2>1
<1>8. heap \in Seq(Pages) /\ Len(heap) = h /\ DOMAIN heap = 1 .. h
  BY <1>1, <1>7, HeapSeq
<1>9. /\ Part(Free, 2, t) \in SUBSET (Pages \ used)
      /\ Cardinality(Part(Free, 2, t)) = t
      /\ Part(Free, 2 + t, i) \in SUBSET (Pages \ used)
      /\ Cardinality(Part(Free, 2 + t, i)) = i
      /\ Part(Free, 2 + t + i, h) \in SUBSET (Pages \ used)
  BY <1>1, <1>5, <1>6, PartOfFree
<1>10. Free[1] \in Pages /\ Free[2] \in Pages /\ Free[1] # Free[2]
  <2>1. 1 \in 1 .. free_pages /\ 2 \in 1 .. free_pages
    BY <1>1, <1>5, <1>6
  <2> QED
    BY <1>6, <2>1 DEF Distinct
<1>11. Forked \in Space
  BY <1>1, <1>4, <1>8, <1>9, <1>10 DEF Space
<1>12. HeapSet(Forked) = Part(Free, 2 + t + i, h)
  <2>1. HeapSet(Forked) = {Free[2 + t + i + j] : j \in 1 .. h}
    BY <1>3, <1>8 DEF HeapSet
  <2>2. ASSUME NEW j \in 1 .. h PROVE 2 + t + i + j \in 2 + t + i + 1 .. 2 + t + i + h
    BY <1>1
  <2>3. ASSUME NEW x \in 2 + t + i + 1 .. 2 + t + i + h
        PROVE  x - (2 + t + i) \in 1 .. h /\ x = 2 + t + i + (x - (2 + t + i))
    BY <1>1
  <2> QED
    BY <2>1, <2>2, <2>3 DEF Part
<1>13. Stacks(Forked) = Part(Free, 0, 2)
  <2>1. Stacks(Forked) = {Free[1], Free[2]}
    BY <1>3, <1>10, SpaceFacts DEF Stacks
  <2>2. 0 + 1 .. 0 + 2 = {1, 2}
    OBVIOUS
  <2> QED
    BY <2>1, <2>2 DEF Part
<1>14. Owned(Forked) = Part(Free, 0, n)
  <2>1. Owned(Forked) = Part(Free, 0, 2) \cup Part(Free, 2, t)
                           \cup Part(Free, 2 + t, i) \cup Part(Free, 2 + t + i, h)
    BY <1>3, <1>12, <1>13, OwnedIs
  <2>2. 0 + 1 .. 0 + n = (0 + 1 .. 0 + 2) \cup (2 + 1 .. 2 + t)
                          \cup (2 + t + 1 .. 2 + t + i)
                          \cup (2 + t + i + 1 .. 2 + t + i + h)
    BY <1>1
  <2> QED
    BY <2>1, <2>2 DEF Part
<1>15. Separate(Forked)
  <2>1. /\ Part(Free, 0, 2) \cap Part(Free, 2, t) = {}
        /\ Part(Free, 0, 2) \cap Part(Free, 2 + t, i) = {}
        /\ Part(Free, 0, 2) \cap Part(Free, 2 + t + i, h) = {}
    BY <1>1, <1>5, <1>6, PartsApart
  <2>2. /\ Part(Free, 2, t) \cap Part(Free, 2 + t, i) = {}
        /\ Part(Free, 2, t) \cap Part(Free, 2 + t + i, h) = {}
        /\ Part(Free, 2 + t, i) \cap Part(Free, 2 + t + i, h) = {}
    BY <1>1, <1>5, <1>6, PartsApart
  <2>3. \A j, k \in 1 .. h : heap[j] = heap[k] => j = k
    <3>1. ASSUME NEW j \in 1 .. h
          PROVE  heap[j] = Free[2 + t + i + j] /\ 2 + t + i + j \in 1 .. free_pages
      BY <1>1, <1>5, <1>6
    <3>2. SUFFICES ASSUME NEW j \in 1 .. h, NEW k \in 1 .. h, heap[j] = heap[k]
                   PROVE  j = k
      OBVIOUS
    <3>3. Free[2 + t + i + j] = Free[2 + t + i + k]
      BY <3>1, <3>2
    <3>4. 2 + t + i + j = 2 + t + i + k
      BY <1>6, <3>1, <3>3 DEF Distinct
    <3> QED
      BY <1>1, <3>4
  <2> HIDE DEF heap
  <2> QED
    BY <1>3, <1>8, <1>10, <1>12, <1>13, <2>1, <2>2, <2>3 DEF Separate
<1>16. TablesFor(Cardinality(Forked.image), Len(Forked.heap))
           = Cardinality(Forked.tables)
  BY <1>3, <1>8, <1>9 DEF t
<1>17. n \in Nat
  BY <1>1
<1> HIDE DEF n, heap
<1> QED
  BY <1>2, <1>3, <1>8, <1>11, <1>14, <1>15, <1>16, <1>17 DEF h

(* A call that changes nothing but its caller's address space and the      *)
(* bitmap.                                                                 *)
LEMMA MySpaceChanged ==
    ASSUME MemInv, current # IdlePid, UNCHANGED tasksVars,
           NEW sp \in Space, spaces' = [spaces EXCEPT ![MySlot] = sp],
           TablesFor(Cardinality(sp.image), Len(sp.heap)) <= Cardinality(sp.tables),
           Len(sp.heap) = CeilDiv(sp.heap_end, PageSize),
           sp.heap_end \in 0 .. HeapLimit
    PROVE  TasksInv' /\ SlotsOK' /\ HeapMapped'
<1>1. TasksInv /\ spaces \in [Slots -> Space] /\ SlotsOK /\ HeapMapped
  BY DEF MemInv
<1>2. /\ MySlot \in Slots
      /\ tasks[MySlot].pid \notin {NoPid, IdlePid}
  BY <1>1, CallerSlot
<1>3. TasksInv'
  BY <1>1, StutterStep
<1>4. spaces'[MySlot] = sp /\ \A s \in Slots \ {MySlot} : spaces'[s] = spaces[s]
  BY <1>1, <1>2
<1>5. tasks' = tasks
  BY DEF tasksVars
<1>6. tasks[MySlot] # NoTask
  BY <1>2 DEF NoTask, NewTask
<1>7. SlotsOK'
  BY <1>1, <1>2, <1>4, <1>5, <1>6 DEF SlotsOK
<1>8. HeapMapped'
  BY <1>1, <1>4 DEF HeapMapped
<1> QED
  BY <1>3, <1>7, <1>8

(* The parts of the invariant taken together.                              *)
LEMMA MemInvParts ==
    ASSUME TasksInv', spaces' \in [Slots -> Space], BitmapOK', OwnersOK',
           SlotsOK', HeapMapped'
    PROVE  MemInv'
BY DEF MemInv, Slots, Space, Pages, NoPage

LEMMA MemForkStep ==
    ASSUME MemInv, MemFork
    PROVE  MemInv'
<1> DEFINE f == FirstFrom(FreeSlots(tasks), 0)
           taken == Part(Free, 0, ForkPages)
<1>1. /\ TasksInv /\ spaces \in [Slots -> Space] /\ BitmapOK /\ OwnersOK
      /\ SlotsOK /\ HeapMapped
  BY DEF MemInv
<1>2. /\ Enough(ForkPages) /\ SysFork
      /\ spaces' = [spaces EXCEPT ![f] = Forked]
      /\ used' = used \cup taken /\ free_pages' = free_pages - ForkPages
      /\ lost' = lost
  BY DEF MemFork, Allocated
<1>3. TasksInv'
  BY <1>1, <1>2, ForkStep
<1>4. /\ current # IdlePid /\ FreeSlots(tasks) # {} /\ next_pid \in Nat
      /\ tasks' = [tasks EXCEPT ![f] = NewTask(next_pid, "Ready", current)]
  BY <1>1, <1>2 DEF SysFork, TasksInv, TasksTypeOK
<1>5. f \in Slots /\ tasks[f] = NoTask
  <2>1. FreeSlots(tasks) \in SUBSET Slots /\ 0 \in Slots
    BY TasksAssumption DEF FreeSlots, Slots
  <2>2. f \in FreeSlots(tasks)
    BY <1>4, <2>1, FirstFromInSet
  <2> QED
    BY <2>2 DEF FreeSlots
<1>6. MySlot \in Slots /\ MySpace \in Space
  BY <1>1, <1>4, CallerSlot DEF MySpace
<1>7. /\ ForkPages \in Nat
      /\ Forked \in Space /\ Separate(Forked)
      /\ Owned(Forked) = taken
      /\ Len(Forked.heap) = Len(MySpace.heap)
      /\ Forked.heap_end = MySpace.heap_end
      /\ TablesFor(Cardinality(Forked.image), Len(Forked.heap))
             = Cardinality(Forked.tables)
  BY <1>1, <1>2, <1>6, ForkedOK
<1>8. /\ taken \in SUBSET (Pages \ used) /\ Cardinality(taken) = ForkPages
      /\ free_pages \in Nat
  <2>1. free_pages \in Nat /\ 0 + ForkPages <= free_pages
    BY <1>1, <1>2, <1>7, FreeIsFree DEF Enough
  <2> QED
    BY <1>1, <1>7, <2>1, PartOfFree
<1> HIDE DEF f, taken
<1>9. BitmapOK' /\ OwnersOK' /\ spaces' \in [Slots -> Space]
  <2>1. /\ Owned(spaces[f]) = {} /\ {} \in SUBSET Owned(spaces[f])
        /\ Owned(Forked) = (Owned(spaces[f]) \ {}) \cup taken
        /\ used' = (used \cup taken) \ {}
    BY <1>1, <1>2, <1>5, <1>7 DEF SlotsOK
  <2>2. free_pages' = free_pages - Cardinality(taken) + Cardinality({})
    BY <1>2, <1>7, <1>8, FS_EmptySet
  <2> QED
    BY <1>1, <1>2, <1>5, <1>7, <1>8, <2>1, <2>2, Exchange
<1>10. /\ spaces'[f] = Forked
       /\ \A s \in Slots \ {f} : spaces'[s] = spaces[s] /\ tasks'[s] = tasks[s]
  BY <1>1, <1>2, <1>4, <1>5 DEF TasksInv, TasksTypeOK
<1>11. tasks'[f] # NoTask
  <2>1. tasks'[f] = NewTask(next_pid, "Ready", current)
    BY <1>1, <1>4, <1>5 DEF TasksInv, TasksTypeOK
  <2>2. tasks'[f].pid = next_pid /\ NoTask.pid = -1
    BY <2>1 DEF NewTask, NoTask, NoPid
  <2> QED
    BY <1>4, <2>2
<1>12. SlotsOK'
  <2>1. SUFFICES ASSUME NEW s \in Slots
                 PROVE  /\ tasks'[s] = NoTask => Owned(spaces'[s]) = {}
                        /\ tasks'[s].pid \notin {NoPid, IdlePid} =>
                              TablesFor(Cardinality(spaces'[s].image),
                                        Len(spaces'[s].heap))
                                  <= Cardinality(spaces'[s].tables)
    BY DEF SlotsOK
  <2>2. CASE s = f
    <3>1. Cardinality(Forked.tables) \in Nat
      BY <1>7, SpaceFacts
    <3> QED
      BY <1>7, <1>10, <1>11, <2>2, <3>1
  <2>3. CASE s # f
    BY <1>1, <1>10, <2>3 DEF SlotsOK
  <2> QED
    BY <2>2, <2>3
<1>13. HeapMapped'
  <2>1. ASSUME NEW s \in Slots
        PROVE  /\ Len(spaces'[s].heap) = CeilDiv(spaces'[s].heap_end, PageSize)
               /\ spaces'[s].heap_end \in 0 .. HeapLimit
    BY <1>1, <1>6, <1>7, <1>10 DEF HeapMapped, MySpace
  <2> QED
    BY <2>1 DEF HeapMapped
<1> QED
  BY <1>3, <1>9, <1>12, <1>13, MemInvParts

(* A failed call keeps its caller as it is.                                *)
LEMMA SameSpaces ==
    ASSUME MemInv, spaces' = spaces, tasks' = tasks
    PROVE  SlotsOK' /\ HeapMapped' /\ spaces' \in [Slots -> Space]
BY DEF MemInv, SlotsOK, HeapMapped

LEMMA MemForkNoSlotStep ==
    ASSUME MemInv, MemForkNoSlot
    PROVE  MemInv'
<1> DEFINE taken == Part(Free, 0, ForkPages)
<1>1. TasksInv /\ spaces \in [Slots -> Space] /\ BitmapOK /\ OwnersOK
  BY DEF MemInv
<1>2. /\ Enough(ForkPages) /\ SysForkNoSlot
      /\ used' = used \cup taken /\ free_pages' = free_pages - ForkPages
      /\ lost' = lost \cup taken /\ spaces' = spaces
  BY DEF MemForkNoSlot, Allocated
<1>3. TasksInv' /\ current # IdlePid /\ tasks' = tasks
  BY <1>1, <1>2, ForkNoSlotStep DEF SysForkNoSlot
<1>4. MySpace \in Space
  BY <1>1, <1>3, CallerSlot DEF MySpace
<1>5. taken \in SUBSET (Pages \ used) /\ Cardinality(taken) = ForkPages
  <2>1. ForkPages \in Nat /\ free_pages \in Nat
    BY <1>1, <1>2, <1>4, ForkedOK, FreeIsFree
  <2>2. 0 + ForkPages <= free_pages
    BY <1>2, <2>1 DEF Enough
  <2> QED
    BY <1>1, <2>1, <2>2, PartOfFree
<1>6. BitmapOK' /\ OwnersOK'
  BY <1>1, <1>2, <1>5, Forget
<1> QED
  BY <1>2, <1>3, <1>6, SameSpaces, MemInvParts

(* Running out of pages in fork or exec.                                   *)
LEMMA DropFreeStep ==
    ASSUME MemInv, DropFree, UNCHANGED <<tasksVars, spaces>>
    PROVE  MemInv'
<1>1. TasksInv /\ spaces \in [Slots -> Space] /\ BitmapOK /\ OwnersOK
  BY DEF MemInv
<1>2. tasks' = tasks /\ spaces' = spaces /\ UNCHANGED tasksVars
  BY DEF tasksVars
<1>3. TasksInv'
  BY <1>1, <1>2, StutterStep
<1>4. /\ Pages \ used \in SUBSET (Pages \ used)
      /\ used' = used \cup (Pages \ used) /\ lost' = lost \cup (Pages \ used)
      /\ free_pages' = free_pages - Cardinality(Pages \ used)
  <2>1. free_pages \in Nat
    BY <1>1, FreeIsFree
  <2> QED
    BY <1>1, <2>1 DEF DropFree, BitmapOK
<1>5. BitmapOK' /\ OwnersOK'
  BY <1>1, <1>2, <1>4, Forget
<1> QED
  BY <1>2, <1>3, <1>5, SameSpaces, MemInvParts

-----------------------------------------------------------------------------
(* exec                                                                    *)

(* The new address space is made of the first free pages and of the kernel *)
(* stack of the old one.                                                   *)
LEMMA LoadedOK ==
    ASSUME BitmapOK, MySpace \in Space, Owned(MySpace) \in SUBSET used,
           NEW image \in Nat, Enough(UserPages(image, 0))
    PROVE  LET sp == Loaded(image)
               n  == UserPages(image, 0)
           IN  /\ n \in Nat
               /\ sp \in Space /\ Separate(sp)
               /\ Owned(sp) = ({MySpace.kstack} \ {NoPage}) \cup Part(Free, 0, n)
               /\ Len(sp.heap) = 0 /\ sp.heap_end = 0
               /\ TablesFor(Cardinality(sp.image), Len(sp.heap))
                      = Cardinality(sp.tables)
<1> DEFINE t == TablesFor(image, 0)
           n == t + image + 1
           sp == Loaded(image)
           k == MySpace.kstack
<1>1. t \in Nat
  BY TablesForFacts
<1>2. UserPages(image, 0) = n
  BY <1>1 DEF UserPages
<1>3. /\ sp.kstack = k /\ sp.stack = Free[t + image + 1]
      /\ sp.tables = Part(Free, 0, t) /\ sp.image = Part(Free, t, image)
      /\ sp.heap = <<>> /\ sp.heap_end = 0
  BY DEF Loaded
<1>4. sp = [kstack |-> k, tables |-> Part(Free, 0, t),
            image |-> Part(Free, t, image), stack |-> Free[t + image + 1],
            heap |-> <<>>, heap_end |-> 0]
  BY DEF Loaded
<1>5. k \in Pages \cup {NoPage} /\ NoPage \notin Pages
  BY SpaceFacts
<1>6. k # NoPage => k \in used
  BY DEF Owned
<1> HIDE DEF t, sp, k
<1>7. /\ free_pages \in Nat
      /\ Free \in [1 .. free_pages -> Pages \ used]
      /\ n \in Nat /\ n <= free_pages
  BY <1>1, <1>2, FreeIsFree DEF Enough
<1>8. /\ Part(Free, 0, t) \in SUBSET (Pages \ used)
      /\ Cardinality(Part(Free, 0, t)) = t
      /\ Part(Free, t, image) \in SUBSET (Pages \ used)
      /\ Cardinality(Part(Free, t, image)) = image
      /\ Part(Free, t + image, 1) \in SUBSET (Pages \ used)
  BY <1>1, <1>7, PartOfFree
<1>9. Part(Free, t + image, 1) = {Free[t + image + 1]}
  <2>1. t + image + 1 .. t + image + 1 = {t + image + 1}
    BY <1>1
  <2> QED
    BY <2>1 DEF Part
<1>10. <<>> \in Seq(Pages) /\ Len(<<>>) = 0 /\ DOMAIN sp.heap = {}
  <2>1. <<>> \in Seq(Pages) /\ Len(<<>>) = 0
    BY EmptySeq
  <2> QED
    BY <1>3, <2>1
<1>11. sp \in Space
  BY <1>4, <1>5, <1>8, <1>9, <1>10 DEF Space
<1>12. HeapSet(sp) = {}
  BY <1>10 DEF HeapSet
<1>13. Stacks(sp) = ({k} \ {NoPage}) \cup Part(Free, t + image, 1)
  BY <1>3, <1>5, <1>8, <1>9 DEF Stacks
<1>14. Owned(sp) = ({k} \ {NoPage}) \cup Part(Free, 0, n)
  <2>1. Owned(sp) = ({k} \ {NoPage}) \cup Part(Free, t + image, 1)
                       \cup Part(Free, 0, t) \cup Part(Free, t, image)
    BY <1>3, <1>12, <1>13, OwnedIs
  <2>2. 0 + 1 .. 0 + n = (t + image + 1 .. t + image + 1)
                          \cup (0 + 1 .. 0 + t) \cup (t + 1 .. t + image)
    BY <1>1
  <2> QED
    BY <2>1, <2>2 DEF Part
<1>15. Separate(sp)
  <2>1. /\ Part(Free, 0, t) \cap Part(Free, t, image) = {}
        /\ Part(Free, 0, t) \cap Part(Free, t + image, 1) = {}
        /\ Part(Free, t, image) \cap Part(Free, t + image, 1) = {}
    BY <1>1, <1>7, PartsApart
  <2>2. ({k} \ {NoPage}) \cap (Pages \ used) = {} /\ k # Free[t + image + 1]
    BY <1>5, <1>6, <1>8, <1>9
  <2> QED
    BY <1>3, <1>8, <1>10, <1>12, <1>13, <2>1, <2>2 DEF Separate
<1>16. TablesFor(Cardinality(sp.image), Len(sp.heap)) = Cardinality(sp.tables)
  BY <1>3, <1>8, <1>10 DEF t
<1> QED
  BY <1>2, <1>3, <1>7, <1>10, <1>11, <1>14, <1>15, <1>16 DEF sp, k

LEMMA ExecStep ==
    ASSUME MemInv, NEW image \in Images, SysExec(image)
    PROVE  MemInv'
<1> DEFINE n == UserPages(image, 0)
           taken == Part(Free, 0, n)
           gone == ExecFreed(MySpace)
           sp == Loaded(image)
<1>1. TasksInv /\ spaces \in [Slots -> Space] /\ BitmapOK /\ OwnersOK
  BY DEF MemInv
<1>2. /\ current # IdlePid /\ Enough(n)
      /\ spaces' = [spaces EXCEPT ![MySlot] = sp]
      /\ used' = (used \cup taken) \ gone
      /\ free_pages' = free_pages - n + Cardinality(gone \cap used)
      /\ lost' = lost /\ UNCHANGED tasksVars
  BY DEF SysExec
<1>3. MySlot \in Slots /\ MySpace = spaces[MySlot] /\ MySpace \in Space
  BY <1>1, <1>2, CallerSlot DEF MySpace
<1>4. Owned(MySpace) \in SUBSET used
  BY <1>1, <1>3 DEF OwnersOK, AllOwned
<1>5. image \in Nat
  BY MemoryAssumption
<1>6. /\ n \in Nat /\ sp \in Space /\ Separate(sp)
      /\ Owned(sp) = ({MySpace.kstack} \ {NoPage}) \cup taken
      /\ Len(sp.heap) = 0 /\ sp.heap_end = 0
      /\ TablesFor(Cardinality(sp.image), Len(sp.heap)) = Cardinality(sp.tables)
  BY <1>1, <1>2, <1>3, <1>4, <1>5, LoadedOK
<1>7. taken \in SUBSET (Pages \ used) /\ Cardinality(taken) = n
  <2>1. free_pages \in Nat /\ 0 + n <= free_pages
    BY <1>1, <1>2, <1>6, FreeIsFree DEF Enough
  <2> QED
    BY <1>1, <1>6, <2>1, PartOfFree
<1>8. /\ gone \in SUBSET Owned(spaces[MySlot]) /\ gone \cap used = gone
      /\ Owned(spaces[MySlot]) \ gone = {MySpace.kstack} \ {NoPage}
  <2>1. gone = Owned(MySpace) \ {MySpace.kstack}
    BY DEF ExecFreed
  <2>2. ({MySpace.kstack} \ {NoPage}) \subseteq Owned(MySpace) /\ NoPage \notin Owned(MySpace)
    <3>1. NoPage \notin used
      BY <1>1 DEF BitmapOK, Pages, NoPage
    <3> QED
      BY <1>4, <3>1 DEF Owned
  <2> HIDE DEF gone
  <2> QED
    BY <1>3, <1>4, <2>1, <2>2
<1> HIDE DEF n, taken, gone, sp
<1>9. BitmapOK' /\ OwnersOK' /\ spaces' \in [Slots -> Space]
  <2>1. Owned(sp) = (Owned(spaces[MySlot]) \ gone) \cup taken
    BY <1>6, <1>8
  <2>2. free_pages' = free_pages - Cardinality(taken) + Cardinality(gone)
    BY <1>2, <1>7, <1>8
  <2> QED
    BY <1>1, <1>2, <1>3, <1>6, <1>7, <1>8, <2>1, <2>2, Exchange
<1>10. TasksInv' /\ SlotsOK' /\ HeapMapped'
  <2>1. /\ TablesFor(Cardinality(sp.image), Len(sp.heap)) <= Cardinality(sp.tables)
        /\ sp.heap_end \in 0 .. HeapLimit
        /\ Len(sp.heap) = CeilDiv(sp.heap_end, PageSize)
    BY <1>6, SpaceFacts, CeilDivZero, MemoryAssumption
  <2> QED
    BY <1>2, <1>6, <2>1, MySpaceChanged
<1> QED
  BY <1>9, <1>10, MemInvParts

-----------------------------------------------------------------------------
(* sbrk                                                                    *)

(* What the three outcomes have in common.                                 *)
LEMMA SbrkFacts ==
    ASSUME MemInv, NEW inc \in Increments, SbrkInRange(inc)
    PROVE  /\ TasksInv /\ spaces \in [Slots -> Space] /\ BitmapOK /\ OwnersOK
           /\ current # IdlePid /\ inc \in Int
           /\ MySlot \in Slots /\ MySpace = spaces[MySlot] /\ MySpace \in Space
           /\ Owned(MySpace) \in SUBSET used /\ Separate(MySpace)
           /\ MySpace.heap_end + inc \in 0 .. HeapLimit
           /\ Wanted(inc) \in Nat
           /\ Wanted(inc) = CeilDiv(MySpace.heap_end + inc, PageSize)
           /\ TablesFor(Cardinality(MySpace.image), Len(MySpace.heap))
                  <= Cardinality(MySpace.tables)
           /\ Len(MySpace.heap) = CeilDiv(MySpace.heap_end, PageSize)
           /\ MySpace.heap_end \in 0 .. HeapLimit
<1>1. /\ TasksInv /\ spaces \in [Slots -> Space] /\ BitmapOK /\ OwnersOK
      /\ SlotsOK /\ HeapMapped
  BY DEF MemInv
<1>2. current # IdlePid /\ MySpace.heap_end + inc \in 0 .. HeapLimit
  BY DEF SbrkInRange
<1>3. /\ MySlot \in Slots /\ MySpace = spaces[MySlot] /\ MySpace \in Space
      /\ tasks[MySlot].pid \notin {NoPid, IdlePid}
  BY <1>1, <1>2, CallerSlot DEF MySpace
<1>4. Owned(MySpace) \in SUBSET used /\ Separate(MySpace)
  BY <1>1, <1>3 DEF OwnersOK, AllOwned
<1>5. inc \in Int
  BY MemoryAssumption DEF Increments
<1>6. /\ Wanted(inc) \in Nat
      /\ Wanted(inc) = CeilDiv(MySpace.heap_end + inc, PageSize)
  BY <1>2, CeilDivType, MemoryAssumption DEF Wanted, AlignUp
<1>7. /\ TablesFor(Cardinality(MySpace.image), Len(MySpace.heap))
             <= Cardinality(MySpace.tables)
      /\ Len(MySpace.heap) = CeilDiv(MySpace.heap_end, PageSize)
      /\ MySpace.heap_end \in 0 .. HeapLimit
  BY <1>1, <1>3 DEF SlotsOK, HeapMapped
<1> QED
  BY <1>1, <1>2, <1>3, <1>4, <1>5, <1>6, <1>7

LEMMA SbrkShrinkStep ==
    ASSUME MemInv, NEW inc \in Increments, SysSbrkShrink(inc)
    PROVE  MemInv'
<1> DEFINE h == Wanted(inc)
           old == MySpace
           len == Len(old.heap)
           gone == {old.heap[i] : i \in h + 1 .. len}
           heap == SubSeq(old.heap, 1, h)
           sp == [old EXCEPT !.heap = heap, !.heap_end = old.heap_end + inc]
<1>1. /\ TasksInv /\ spaces \in [Slots -> Space] /\ BitmapOK /\ OwnersOK
      /\ current # IdlePid /\ inc \in Int
      /\ MySlot \in Slots /\ old = spaces[MySlot] /\ old \in Space
      /\ Owned(old) \in SUBSET used /\ Separate(old)
      /\ old.heap_end + inc \in 0 .. HeapLimit
      /\ h \in Nat /\ h = CeilDiv(old.heap_end + inc, PageSize)
      /\ TablesFor(Cardinality(old.image), len) <= Cardinality(old.tables)
  BY SbrkFacts DEF SysSbrkShrink
<1>2. /\ h < len
      /\ used' = used \ gone
      /\ free_pages' = free_pages + Cardinality(gone \cap used)
      /\ lost' = lost /\ UNCHANGED tasksVars
  BY DEF SysSbrkShrink, Released
<1>3. spaces' = [spaces EXCEPT ![MySlot] = sp]
  BY <1>1 DEF SysSbrkShrink, MySpace
<1>4. /\ len \in Nat /\ DOMAIN old.heap = 1 .. len
      /\ old.heap \in [1 .. len -> Pages]
      /\ Cardinality(old.image) \in Nat /\ Cardinality(old.tables) \in Nat
  BY <1>1, SpaceFacts
<1> HIDE DEF h, old, len
<1>5. /\ heap \in Seq(Pages) /\ Len(heap) = h /\ DOMAIN heap = 1 .. h
      /\ \A i \in 1 .. h : heap[i] = old.heap[i]
  <2>1. \A i \in 1 .. h : old.heap[i] \in Pages
    BY <1>1, <1>2, <1>4
  <2>2. /\ heap \in Seq(Pages)
        /\ Len(heap) = IF 1 <= h THEN h - 1 + 1 ELSE 0
        /\ \A i \in 1 .. h - 1 + 1 : heap[i] = old.heap[1 + i - 1]
    BY <1>1, <2>1, SubSeqProperties
  <2> HIDE DEF heap
  <2>3. Len(heap) = h /\ DOMAIN heap = 1 .. h
    BY <1>1, <2>2, LenProperties
  <2>4. ASSUME NEW i \in 1 .. h PROVE heap[i] = old.heap[i]
    <3>1. i \in 1 .. h - 1 + 1 /\ 1 + i - 1 = i
      BY <1>1
    <3> QED
      BY <2>2, <3>1
  <2> QED
    BY <2>2, <2>3, <2>4
<1> HIDE DEF heap
<1>6. /\ sp \in Space
      /\ sp.kstack = old.kstack /\ sp.stack = old.stack
      /\ sp.tables = old.tables /\ sp.image = old.image
      /\ sp.heap = heap /\ sp.heap_end = old.heap_end + inc
  <2>1. old.heap_end + inc \in Nat
    BY <1>1
  <2> QED
    BY <1>1, <1>5, <2>1 DEF Space
<1> HIDE DEF sp
<1>7. gone \in SUBSET HeapSet(old)
  BY <1>1, <1>4 DEF HeapSet
<1>8. HeapSet(sp) = HeapSet(old) \ gone
  <2>1. HeapSet(sp) = {old.heap[i] : i \in 1 .. h}
    BY <1>5, <1>6 DEF HeapSet
  <2>2. HeapSet(old) = {old.heap[i] : i \in 1 .. len}
    BY <1>4 DEF HeapSet
  <2>3. ASSUME NEW i \in 1 .. h
        PROVE  i \in 1 .. len /\ old.heap[i] \notin gone
    <3>1. i \in 1 .. len
      BY <1>1, <1>2, <1>4
    <3>2. ASSUME NEW j \in h + 1 .. len, old.heap[j] = old.heap[i] PROVE FALSE
      <4>1. j \in 1 .. len /\ j # i
        BY <1>1, <1>4
      <4> QED
        BY <1>1, <1>4, <3>1, <3>2, <4>1 DEF Separate
    <3> QED
      BY <3>1, <3>2
  <2>4. ASSUME NEW i \in 1 .. len, i \notin 1 .. h PROVE i \in h + 1 .. len
    BY <1>1, <1>4, <2>4
  <2> QED
    BY <2>1, <2>2, <2>3, <2>4
<1>9. Stacks(sp) = Stacks(old)
  BY <1>6 DEF Stacks
<1>10. Separate(sp)
  <2>1. \A i, j \in 1 .. h : heap[i] = heap[j] => i = j
    <3>1. \A i, j \in 1 .. len : old.heap[i] = old.heap[j] => i = j
      BY <1>1, <1>4 DEF Separate
    <3>2. \A i \in 1 .. h : i \in 1 .. len
      BY <1>1, <1>2, <1>4
    <3> QED
      BY <1>5, <3>1, <3>2
  <2> HIDE DEF gone
  <2> QED
    BY <1>1, <1>5, <1>6, <1>8, <1>9, <2>1 DEF Separate
<1>11. /\ gone \in SUBSET Owned(old) /\ gone \cap used = gone
       /\ Owned(sp) = (Owned(old) \ gone) \cup {}
  <2>1. gone \cap (Stacks(old) \cup old.tables \cup old.image) = {}
    BY <1>1, <1>7 DEF Separate
  <2>2. Owned(old) = Stacks(old) \cup old.tables \cup old.image \cup HeapSet(old)
    BY OwnedIs
  <2>3. Owned(sp) = Stacks(old) \cup old.tables \cup old.image \cup HeapSet(sp)
    BY <1>6, <1>9, OwnedIs
  <2> HIDE DEF gone
  <2> QED
    BY <1>1, <1>7, <1>8, <2>1, <2>2, <2>3
<1> HIDE DEF gone
<1>12. BitmapOK' /\ OwnersOK' /\ spaces' \in [Slots -> Space]
  <2>1. {} \in SUBSET (Pages \ used) /\ used' = (used \cup {}) \ gone
    BY <1>2
  <2>2. free_pages' = free_pages - Cardinality({}) + Cardinality(gone)
    <3>1. free_pages \in Nat /\ Cardinality({}) = 0
      BY <1>1, FreeIsFree, FS_EmptySet
    <3>2. Cardinality(gone) \in Nat
      BY <1>1, <1>11, FreeCount
    <3>3. free_pages' = free_pages + Cardinality(gone)
      BY <1>2, <1>11, Zenon
    <3> QED
      BY <3>1, <3>2, <3>3
  <2> QED
    BY <1>1, <1>2, <1>3, <1>6, <1>10, <1>11, <2>1, <2>2, Exchange
<1>13. TasksInv' /\ SlotsOK' /\ HeapMapped'
  <2>1. TablesFor(Cardinality(sp.image), Len(sp.heap)) <= Cardinality(sp.tables)
    <3>1. /\ TablesFor(Cardinality(old.image), h) \in Nat
          /\ TablesFor(Cardinality(old.image), len) \in Nat
          /\ TablesFor(Cardinality(old.image), h)
               <= TablesFor(Cardinality(old.image), len)
      BY <1>1, <1>2, <1>4, TablesForFacts
    <3> QED
      BY <1>1, <1>4, <1>5, <1>6, <3>1
  <2>2. /\ Len(sp.heap) = CeilDiv(sp.heap_end, PageSize)
        /\ sp.heap_end \in 0 .. HeapLimit
    BY <1>1, <1>5, <1>6
  <2> QED
    BY <1>1, <1>2, <1>3, <1>6, <2>1, <2>2, MySpaceChanged
<1> QED
  BY <1>12, <1>13, MemInvParts

(* Leaf tables for a larger heap, and the pages it costs.                  *)
LEMMA GainFacts ==
    ASSUME MySpace \in Space, NEW h \in Nat
    PROVE  /\ Gain(h) \in Nat
           /\ \A g \in Nat : g <= h => Gain(g) \in Nat /\ Gain(g) <= Gain(h)
           /\ TablesFor(Cardinality(MySpace.image), h)
                  <= Cardinality(MySpace.tables) + Gain(h)
           /\ TablesFor(Cardinality(MySpace.image), h) <= Cardinality(MySpace.tables)
                  => Gain(h) = 0
           /\ h >= Len(MySpace.heap) => Cost(h) \in Nat
<1> DEFINE T(k) == TablesFor(Cardinality(MySpace.image), k)
           c == Cardinality(MySpace.tables)
<1>1. Cardinality(MySpace.image) \in Nat /\ c \in Nat /\ Len(MySpace.heap) \in Nat
  BY SpaceFacts
<1>2. T(h) \in Nat /\ \A g \in Nat : g <= h => T(g) \in Nat /\ T(g) <= T(h)
  BY <1>1, TablesForFacts
<1>3. \A k : Gain(k) = IF T(k) > c THEN T(k) - c ELSE 0
  BY DEF Gain
<1>4. Cost(h) = h - Len(MySpace.heap) + Gain(h)
  BY DEF Cost
<1> HIDE DEF T, c
<1>5. Gain(h) \in Nat /\ T(h) <= c + Gain(h) /\ (T(h) <= c => Gain(h) = 0)
  BY <1>1, <1>2, <1>3
<1>6. \A g \in Nat : g <= h => Gain(g) \in Nat /\ Gain(g) <= Gain(h)
  BY <1>1, <1>2, <1>3
<1>7. h >= Len(MySpace.heap) => Cost(h) \in Nat
  BY <1>1, <1>4, <1>5
<1> QED
  BY <1>5, <1>6, <1>7 DEF T, c

(* The positions of the new heap pages among the pages taken.              *)
LEMMA HeapPosFacts ==
    ASSUME MySpace \in Space, NEW h \in Nat, h >= Len(MySpace.heap)
    PROVE  LET D == Len(MySpace.heap) + 1 .. h
           IN  /\ \A i \in D : HeapPos(i) \in 1 .. Cost(h)
               /\ \A i, j \in D : HeapPos(i) = HeapPos(j) => i = j
<1> DEFINE len == Len(MySpace.heap)
           D == len + 1 .. h
<1>1. len \in Nat /\ Gain(h) \in Nat
  BY SpaceFacts, GainFacts
<1>2. \A i : HeapPos(i) = i - len + Gain(i - 1)
  BY DEF HeapPos
<1>3. Cost(h) = h - len + Gain(h)
  BY DEF Cost
<1> HIDE DEF len
<1>4. ASSUME NEW i \in D
      PROVE  /\ i - 1 \in Nat /\ i \in Nat /\ i - 1 <= h
             /\ Gain(i - 1) \in Nat /\ Gain(i - 1) <= Gain(h)
  <2>1. i - 1 \in Nat /\ i \in Nat /\ i - 1 <= h
    BY <1>1
  <2> QED
    BY <2>1, GainFacts
<1>5. ASSUME NEW i \in D PROVE HeapPos(i) \in 1 .. Cost(h)
  <2>1. i \in Int /\ len + 1 <= i /\ i <= h
    BY <1>1
  <2>2. i - len + Gain(i - 1) \in 1 .. h - len + Gain(h)
    BY <1>1, <1>4, <2>1
  <2> QED
    BY <1>2, <1>3, <2>2
<1>6. ASSUME NEW i \in D, NEW j \in D, i < j PROVE HeapPos(i) < HeapPos(j)
  <2>1. i - 1 <= j - 1 /\ i \in Nat /\ j \in Nat /\ i - 1 \in Nat /\ j - 1 \in Nat
    BY <1>4, <1>6
  <2>2. Gain(i - 1) \in Nat /\ Gain(j - 1) \in Nat /\ Gain(i - 1) <= Gain(j - 1)
    BY <2>1, GainFacts
  <2> QED
    BY <1>1, <1>2, <1>6, <2>1, <2>2
<1>7. ASSUME NEW i \in D, NEW j \in D, HeapPos(i) = HeapPos(j) PROVE i = j
  <2>1. i \in Nat /\ j \in Nat /\ HeapPos(i) \in Int /\ HeapPos(j) \in Int
    BY <1>4, <1>5
  <2> QED
    BY <1>6, <1>7, <2>1
<1> QED
  BY <1>5, <1>7 DEF len

(* A heap that has grown: the old pages, then free ones.                   *)
LEMMA NewHeapOK ==
    ASSUME BitmapOK, MySpace \in Space, Separate(MySpace),
           Owned(MySpace) \in SUBSET used,
           NEW h \in Nat, h >= Len(MySpace.heap), Enough(Cost(h))
    PROVE  LET len   == Len(MySpace.heap)
               taken == Part(Free, 0, Cost(h))
               new   == {Free[HeapPos(i)] : i \in len + 1 .. h}
           IN  /\ NewHeap(h) \in Seq(Pages) /\ Len(NewHeap(h)) = h
               /\ DOMAIN NewHeap(h) = 1 .. h
               /\ Distinct(NewHeap(h), 1 .. h)
               /\ {NewHeap(h)[i] : i \in 1 .. h} = HeapSet(MySpace) \cup new
               /\ new \in SUBSET taken
               /\ IsFiniteSet(new) /\ Cardinality(new) = h - len
<1> DEFINE len == Len(MySpace.heap)
           old == MySpace.heap
           D == len + 1 .. h
           new == {Free[HeapPos(i)] : i \in D}
           heap == NewHeap(h)
<1>1. /\ len \in Nat /\ DOMAIN old = 1 .. len /\ old \in [1 .. len -> Pages]
      /\ h >= len
  BY SpaceFacts
<1>2. /\ free_pages \in Nat
      /\ Free \in [1 .. free_pages -> Pages \ used]
      /\ Distinct(Free, 1 .. free_pages)
      /\ Cost(h) \in Nat /\ Cost(h) <= free_pages
  BY FreeIsFree, GainFacts DEF Enough
<1>3. /\ \A i \in D : HeapPos(i) \in 1 .. Cost(h)
      /\ \A i, j \in D : HeapPos(i) = HeapPos(j) => i = j
  BY HeapPosFacts
<1>4. HeapSet(MySpace) = {old[i] : i \in 1 .. len} /\ HeapSet(MySpace) \in SUBSET used
  BY <1>1, OwnedIs DEF HeapSet
<1>5. \A i, j \in 1 .. len : old[i] = old[j] => i = j
  BY <1>1 DEF Separate
<1>6. heap = [i \in 1 .. h |-> IF i <= len THEN old[i] ELSE Free[HeapPos(i)]]
  BY DEF NewHeap
<1> HIDE DEF len, old
<1>7. ASSUME NEW i \in 1 .. len
      PROVE  i \in 1 .. h /\ heap[i] = old[i] /\ heap[i] \in Pages /\ heap[i] \in used
  <2>1. i \in 1 .. h /\ i <= len
    BY <1>1
  <2>2. heap[i] = old[i]
    BY <1>6, <2>1
  <2> HIDE DEF heap
  <2> QED
    BY <1>1, <1>4, <2>1, <2>2
<1>8. ASSUME NEW i \in D
      PROVE  /\ i \in 1 .. h /\ heap[i] = Free[HeapPos(i)]
             /\ heap[i] \in Pages \ used
             /\ HeapPos(i) \in 1 .. free_pages
  <2>1. i \in 1 .. h /\ ~(i <= len)
    BY <1>1
  <2>2. heap[i] = Free[HeapPos(i)]
    BY <1>6, <2>1
  <2>3. HeapPos(i) \in 1 .. free_pages
    <3>1. HeapPos(i) \in 1 .. Cost(h)
      BY <1>3
    <3> QED
      BY <1>2, <3>1
  <2> HIDE DEF heap
  <2> QED
    BY <1>2, <2>1, <2>2, <2>3
<1>9. \A i \in 1 .. h : i \in 1 .. len \/ i \in D
  BY <1>1
<1>10. heap \in [1 .. h -> Pages]
  <2>1. DOMAIN heap = 1 .. h /\ heap = [i \in 1 .. h |-> heap[i]]
    BY <1>6
  <2>2. \A i \in 1 .. h : heap[i] \in Pages
    BY <1>7, <1>8, <1>9
  <2> HIDE DEF heap
  <2> QED
    BY <2>1, <2>2
<1> HIDE DEF heap
<1>11. heap \in Seq(Pages) /\ Len(heap) = h /\ DOMAIN heap = 1 .. h
  BY <1>10, HeapSeq
<1>12. Distinct(heap, 1 .. h)
  <2>1. SUFFICES ASSUME NEW i \in 1 .. h, NEW j \in 1 .. h, heap[i] = heap[j]
                 PROVE  i = j
    BY DEF Distinct
  <2>2. CASE i \in 1 .. len /\ j \in 1 .. len
    BY <1>5, <1>7, <2>1, <2>2
  <2>3. CASE i \in D /\ j \in D
    <3>1. HeapPos(i) = HeapPos(j)
      BY <1>2, <1>8, <2>1, <2>3 DEF Distinct
    <3> QED
      BY <1>3, <2>3, <3>1
  <2>4. CASE i \in 1 .. len /\ j \in D
    BY <1>7, <1>8, <2>1, <2>4
  <2>5. CASE i \in D /\ j \in 1 .. len
    BY <1>7, <1>8, <2>1, <2>5
  <2> QED
    BY <1>9, <2>2, <2>3, <2>4, <2>5
<1>13. {heap[i] : i \in 1 .. h} = HeapSet(MySpace) \cup new
  <2>1. ASSUME NEW i \in 1 .. h PROVE heap[i] \in HeapSet(MySpace) \cup new
    BY <1>4, <1>7, <1>8, <1>9
  <2>2. ASSUME NEW x \in HeapSet(MySpace) \cup new
        PROVE  \E i \in 1 .. h : x = heap[i]
    BY <1>4, <1>7, <1>8
  <2> HIDE DEF new
  <2> QED
    BY <2>1, <2>2
<1>14. new \in SUBSET Part(Free, 0, Cost(h))
  BY <1>2, <1>3 DEF Part
<1>15. IsFiniteSet(new) /\ Cardinality(new) = h - len
  <2>1. IsFiniteSet(D) /\ Cardinality(D) = h - len
    <3>1. len + 1 \in Int /\ h \in Int
      BY <1>1
    <3>2. IsFiniteSet(D) /\ Cardinality(D) = IF len + 1 > h THEN 0 ELSE h - (len + 1) + 1
      BY <3>1, FS_Interval
    <3> HIDE DEF D
    <3> QED
      BY <1>1, <3>2
  <2>2. new = {heap[i] : i \in D}
    BY <1>8
  <2>3. Distinct(heap, D)
    BY <1>8, <1>12 DEF Distinct
  <2> HIDE DEF D, new
  <2> QED
    BY <2>1, <2>2, <2>3, ImageSize
<1> QED
  BY <1>11, <1>12, <1>13, <1>14, <1>15 DEF heap, len

LEMMA SbrkGrowStep ==
    ASSUME MemInv, NEW inc \in Increments, SysSbrkGrow(inc)
    PROVE  MemInv'
<1> DEFINE h == Wanted(inc)
           old == MySpace
           len == Len(old.heap)
           n == Cost(h)
           taken == Part(Free, 0, n)
           new == {Free[HeapPos(i)] : i \in len + 1 .. h}
           heap == NewHeap(h)
           tables == NewTables(h)
           sp == [old EXCEPT !.heap = heap, !.tables = tables,
                             !.heap_end = old.heap_end + inc]
<1>1. /\ TasksInv /\ spaces \in [Slots -> Space] /\ BitmapOK /\ OwnersOK
      /\ current # IdlePid /\ inc \in Int
      /\ MySlot \in Slots /\ old = spaces[MySlot] /\ old \in Space
      /\ Owned(old) \in SUBSET used /\ Separate(old)
      /\ old.heap_end + inc \in 0 .. HeapLimit
      /\ h \in Nat /\ h = CeilDiv(old.heap_end + inc, PageSize)
  BY SbrkFacts DEF SysSbrkGrow
<1>2. /\ h >= len /\ Enough(n)
      /\ used' = used \cup taken /\ free_pages' = free_pages - n
      /\ lost' = lost /\ UNCHANGED tasksVars
  BY DEF SysSbrkGrow, Allocated
<1>3. spaces' = [spaces EXCEPT ![MySlot] = sp]
  BY DEF SysSbrkGrow
<1>4. /\ heap \in Seq(Pages) /\ Len(heap) = h /\ DOMAIN heap = 1 .. h
      /\ Distinct(heap, 1 .. h)
      /\ {heap[i] : i \in 1 .. h} = HeapSet(old) \cup new
      /\ new \in SUBSET taken /\ IsFiniteSet(new) /\ Cardinality(new) = h - len
  BY <1>1, <1>2, NewHeapOK
<1>5. /\ len \in Nat /\ old.tables \in SUBSET Pages
      /\ IsFiniteSet(old.tables) /\ Cardinality(old.tables) \in Nat
      /\ old.image \in SUBSET Pages /\ Cardinality(old.image) \in Nat
  BY <1>1, SpaceFacts
<1>6. /\ free_pages \in Nat /\ n \in Nat /\ n <= free_pages
      /\ taken \in SUBSET (Pages \ used)
      /\ IsFiniteSet(taken) /\ Cardinality(taken) = n
  <2>1. free_pages \in Nat /\ n \in Nat /\ 0 + n <= free_pages
    BY <1>1, <1>2, FreeIsFree, GainFacts DEF Enough
  <2> QED
    BY <1>1, <2>1, PartOfFree
<1>7. n = h - len + Gain(h) /\ Gain(h) \in Nat
      /\ TablesFor(Cardinality(old.image), h) <= Cardinality(old.tables) + Gain(h)
  BY <1>1, GainFacts DEF Cost
<1>8. /\ Stacks(old) \in SUBSET used /\ old.tables \in SUBSET used
      /\ old.image \in SUBSET used /\ HeapSet(old) \in SUBSET used
      /\ Owned(old) = Stacks(old) \cup old.tables \cup old.image \cup HeapSet(old)
  BY <1>1, OwnedIs
<1>9. tables = old.tables \cup (taken \ {heap[i] : i \in 1 .. h})
  BY DEF NewTables
<1> HIDE DEF h, old, len, n, taken, new, heap, tables
<1>10. tables = old.tables \cup (taken \ new)
  BY <1>4, <1>6, <1>8, <1>9
<1>11. tables \in SUBSET Pages
       /\ Cardinality(tables) = Cardinality(old.tables) + Gain(h)
  <2>1. taken \cap new = new
    BY <1>4
  <2>2. IsFiniteSet(taken \ new) /\ Cardinality(taken \ new) = n - (h - len)
    <3>1. /\ IsFiniteSet(taken \ new)
          /\ Cardinality(taken \ new) = Cardinality(taken) - Cardinality(taken \cap new)
      BY <1>6, FS_Difference
    <3> QED
      BY <1>4, <1>6, <2>1, <3>1, Zenon
  <2>3. old.tables \cap (taken \ new) = {}
    BY <1>6, <1>8
  <2>4. Cardinality(tables) = Cardinality(old.tables) + Cardinality(taken \ new)
    BY <1>5, <1>10, <2>2, <2>3, DisjointSize
  <2>5. n - (h - len) = Gain(h)
    BY <1>1, <1>5, <1>6, <1>7
  <2>6. tables \in SUBSET Pages
    BY <1>5, <1>6, <1>10
  <2> QED
    BY <2>2, <2>4, <2>5, <2>6
<1>12. /\ sp \in Space
       /\ sp.kstack = old.kstack /\ sp.stack = old.stack
       /\ sp.tables = tables /\ sp.image = old.image
       /\ sp.heap = heap /\ sp.heap_end = old.heap_end + inc
  <2>1. old.heap_end + inc \in Nat
    BY <1>1
  <2> QED
    BY <1>1, <1>4, <1>11, <2>1 DEF Space
<1> HIDE DEF sp
<1>13. Stacks(sp) = Stacks(old) /\ HeapSet(sp) = HeapSet(old) \cup new
  <2>1. HeapSet(sp) = {heap[i] : i \in 1 .. h}
    BY <1>4, <1>12 DEF HeapSet
  <2> QED
    BY <1>4, <1>12, <2>1 DEF Stacks
<1>14. Separate(sp)
  <2>1. \A i, j \in DOMAIN heap : heap[i] = heap[j] => i = j
    BY <1>4 DEF Distinct
  <2>2. Stacks(old) \cap (tables \cup old.image \cup HeapSet(sp)) = {}
    BY <1>1, <1>4, <1>6, <1>8, <1>10, <1>13 DEF Separate
  <2>3. tables \cap (old.image \cup HeapSet(sp)) = {}
    BY <1>1, <1>4, <1>6, <1>8, <1>10, <1>13 DEF Separate
  <2>4. old.image \cap HeapSet(sp) = {}
    BY <1>1, <1>4, <1>6, <1>8, <1>13 DEF Separate
  <2>5. old.kstack = old.stack => old.kstack = NoPage
    BY <1>1 DEF Separate
  <2> QED
    BY <1>12, <1>13, <2>1, <2>2, <2>3, <2>4, <2>5 DEF Separate
<1>15. BitmapOK' /\ OwnersOK' /\ spaces' \in [Slots -> Space]
  <2>1. Owned(sp) = (Owned(spaces[MySlot]) \ {}) \cup taken
    <3>1. Owned(sp) = Stacks(old) \cup tables \cup old.image \cup HeapSet(sp)
      BY <1>12, <1>13, OwnedIs
    <3> QED
      BY <1>1, <1>4, <1>8, <1>10, <1>13, <3>1
  <2>2. {} \in SUBSET Owned(spaces[MySlot]) /\ used' = (used \cup taken) \ {}
    BY <1>2
  <2>3. free_pages' = free_pages - Cardinality(taken) + Cardinality({})
    <3>1. Cardinality({}) = 0
      BY FS_EmptySet
    <3> QED
      BY <1>2, <1>6, <3>1
  <2> QED
    BY <1>1, <1>2, <1>3, <1>6, <1>12, <1>14, <2>1, <2>2, <2>3, Exchange
<1>16. TasksInv' /\ SlotsOK' /\ HeapMapped'
  <2>1. TablesFor(Cardinality(sp.image), Len(sp.heap)) <= Cardinality(sp.tables)
    BY <1>4, <1>7, <1>11, <1>12
  <2>2. /\ Len(sp.heap) = CeilDiv(sp.heap_end, PageSize)
        /\ sp.heap_end \in 0 .. HeapLimit
    BY <1>1, <1>4, <1>12
  <2> QED
    BY <1>1, <1>2, <1>3, <1>12, <2>1, <2>2, MySpaceChanged
<1> QED
  BY <1>15, <1>16, MemInvParts

(* When memory runs out on the way, the way ends somewhere.                *)
LEMMA ReachedOK ==
    ASSUME MemInv, NEW inc \in Increments, SbrkInRange(inc),
           Wanted(inc) > Len(MySpace.heap), ~Enough(Cost(Wanted(inc)))
    PROVE  /\ Reached(inc) \in Nat /\ Reached(inc) >= Len(MySpace.heap)
           /\ Enough(Cost(Reached(inc)))
<1> DEFINE len == Len(MySpace.heap)
           w == Wanted(inc)
           R == len .. w
           D == {k \in R : ~Enough(Cost(k))}
<1>1. /\ BitmapOK /\ MySpace \in Space /\ w \in Nat
      /\ TablesFor(Cardinality(MySpace.image), len) <= Cardinality(MySpace.tables)
  BY SbrkFacts
<1>2. len \in Nat /\ w > len /\ ~Enough(Cost(w))
  BY <1>1, SpaceFacts
<1>3. free_pages \in Nat
  BY <1>1, FreeIsFree
<1>4. Cost(len) = 0
  <2>1. Gain(len) = 0
    BY <1>1, <1>2, GainFacts
  <2> QED
    BY <1>2, <2>1 DEF Cost
<1> HIDE DEF len, w
<1>5. Enough(Cost(len))
  BY <1>3, <1>4 DEF Enough
<1>6. D \in SUBSET Nat /\ w \in D
  BY <1>1, <1>2
<1>7. PICK d \in D : \A e \in D : d <= e
  BY <1>6, LeastOf
<1>8. d \in R /\ ~Enough(Cost(d)) /\ d # len
  BY <1>5, <1>7
<1>9. /\ d - 1 \in R /\ d - 1 \notin D /\ d - 1 + 1 = d
  BY <1>1, <1>2, <1>7, <1>8
<1>10. \E k \in R : Enough(Cost(k)) /\ ~Enough(Cost(k + 1))
  BY <1>8, <1>9
<1>11. Reached(inc) = CHOOSE k \in R : Enough(Cost(k)) /\ ~Enough(Cost(k + 1))
  BY DEF Reached, len, w
<1>12. Reached(inc) \in R /\ Enough(Cost(Reached(inc)))
  BY <1>10, <1>11
<1> QED
  BY <1>1, <1>2, <1>12 DEF len

LEMMA SbrkNoMemoryStep ==
    ASSUME MemInv, NEW inc \in Increments, SysSbrkNoMemory(inc)
    PROVE  MemInv'
<1> DEFINE k == Reached(inc)
           old == MySpace
           more == NewTables(k) \ old.tables
           tables == old.tables \cup more
           sp == [old EXCEPT !.tables = tables]
<1>1. /\ TasksInv /\ spaces \in [Slots -> Space] /\ BitmapOK /\ OwnersOK
      /\ current # IdlePid
      /\ MySlot \in Slots /\ old = spaces[MySlot] /\ old \in Space
      /\ Owned(old) \in SUBSET used /\ Separate(old)
      /\ TablesFor(Cardinality(old.image), Len(old.heap)) <= Cardinality(old.tables)
      /\ Len(old.heap) = CeilDiv(old.heap_end, PageSize)
      /\ old.heap_end \in 0 .. HeapLimit
  BY SbrkFacts DEF SysSbrkNoMemory
<1>2. /\ used' = used \cup more /\ free_pages' = free_pages - Cardinality(more)
      /\ lost' = lost /\ UNCHANGED tasksVars
  BY DEF SysSbrkNoMemory
<1>3. spaces' = [spaces EXCEPT ![MySlot] = sp]
  BY <1>1 DEF SysSbrkNoMemory
<1>4. k \in Nat /\ k >= Len(old.heap) /\ Enough(Cost(k))
  BY ReachedOK DEF SysSbrkNoMemory
<1>5. more \in SUBSET (Pages \ used)
  <2> HIDE DEF k
  <2>1. Cost(k) \in Nat /\ free_pages \in Nat /\ 0 + Cost(k) <= free_pages
    <3>1. Cost(k) \in Nat
      BY <1>1, <1>4, GainFacts
    <3>2. Cost(k) <= free_pages
      BY <1>4 DEF Enough
    <3> QED
      BY <1>1, <3>1, <3>2, FreeIsFree
  <2>2. Part(Free, 0, Cost(k)) \in SUBSET (Pages \ used)
    BY <1>1, <2>1, PartOfFree
  <2> QED
    BY <2>2 DEF NewTables
<1>6. /\ old.tables \in SUBSET Pages /\ IsFiniteSet(old.tables)
      /\ old.image \in SUBSET Pages
      /\ Cardinality(old.image) \in Nat /\ Cardinality(old.tables) \in Nat
      /\ Len(old.heap) \in Nat
  BY <1>1, SpaceFacts
<1> HIDE DEF k, old, more
<1>7. /\ sp \in Space
      /\ sp.kstack = old.kstack /\ sp.stack = old.stack
      /\ sp.tables = tables /\ sp.image = old.image
      /\ sp.heap = old.heap /\ sp.heap_end = old.heap_end
  <2>1. tables \in SUBSET Pages
    BY <1>5, <1>6
  <2> HIDE DEF tables
  <2> QED
    BY <1>1, <2>1 DEF Space
<1> HIDE DEF sp
<1>8. /\ Stacks(old) \in SUBSET used /\ old.tables \in SUBSET used
      /\ old.image \in SUBSET used /\ HeapSet(old) \in SUBSET used
      /\ Owned(old) = Stacks(old) \cup old.tables \cup old.image \cup HeapSet(old)
  BY <1>1, OwnedIs
<1>9. Stacks(sp) = Stacks(old) /\ HeapSet(sp) = HeapSet(old)
  BY <1>7 DEF Stacks, HeapSet
<1>10. Separate(sp)
  BY <1>1, <1>5, <1>7, <1>8, <1>9 DEF Separate
<1>11. BitmapOK' /\ OwnersOK' /\ spaces' \in [Slots -> Space]
  <2>1. Owned(sp) = (Owned(spaces[MySlot]) \ {}) \cup more
    <3>1. Owned(sp) = Stacks(old) \cup tables \cup old.image \cup HeapSet(old)
      BY <1>7, <1>9, OwnedIs
    <3> QED
      BY <1>1, <1>8, <3>1
  <2>2. {} \in SUBSET Owned(spaces[MySlot]) /\ used' = (used \cup more) \ {}
    BY <1>2
  <2>3. {} \in SUBSET used
    OBVIOUS
  <2>4. free_pages' = free_pages - Cardinality(more) + Cardinality({})
    <3>1. Cardinality({}) = 0 /\ free_pages \in Nat /\ Cardinality(more) \in Nat
      BY <1>1, <1>5, <2>3, FS_EmptySet, FreeIsFree, FreeCount
    <3> QED
      BY <1>2, <3>1
  <2> QED
    BY <1>1, <1>2, <1>3, <1>5, <1>7, <1>10, <2>1, <2>2, <2>4, Exchange
<1>12. TasksInv' /\ SlotsOK' /\ HeapMapped'
  <2>1. TablesFor(Cardinality(sp.image), Len(sp.heap)) <= Cardinality(sp.tables)
    <3>1. IsFiniteSet(tables) /\ old.tables \in SUBSET tables
      <4>1. tables \in SUBSET Pages
        BY <1>5, <1>6
      <4>2. IsFiniteSet(tables)
        BY <4>1, PagesFinite, FS_Subset
      <4> QED
        BY <4>2
    <3>2. Cardinality(old.tables) <= Cardinality(tables) /\ Cardinality(tables) \in Nat
      BY <3>1, FS_Subset, FS_CardinalityType
    <3>3. TablesFor(Cardinality(old.image), Len(old.heap)) \in Nat
      BY <1>6, TablesForFacts
    <3> HIDE DEF tables
    <3> QED
      BY <1>1, <1>6, <1>7, <3>2, <3>3
  <2> QED
    BY <1>1, <1>2, <1>3, <1>7, <2>1, MySpaceChanged
<1> QED
  BY <1>11, <1>12, MemInvParts

-----------------------------------------------------------------------------
(* The other traps                                                         *)

(* A slot keeps its task or is cleared.                                    *)
LEMMA OtherKeepsTasks ==
    ASSUME TasksInv,
           \/ Timer \/ SysYield
           \/ \E p \in 1 .. MaxPid : SysWaitpidReap(p) \/ SysWaitpidBlock(p)
           \/ \E code \in ExitCodes : SysExit(code)
    PROVE  \A s \in Slots : tasks'[s] = NoTask \/ tasks'[s].pid = tasks[s].pid
<1>1. /\ TableOK(tasks, next_pid, current) /\ next_pid \in Nat /\ current \in Nat
      /\ tasks \in [Slots -> Task]
  BY DEF TasksInv, TasksTypeOK
<1>2. PICK m \in Slots : tasks[m].pid = current /\ tasks[m].state = "Running"
  BY DEF TasksInv, Runs
<1>3. SlotOf(tasks, current) = m
  BY <1>1, <1>2, SlotOfPid DEF TableOK, NoPid
<1>4. CASE Timer \/ SysYield
  <2>1. Schedule(tasks)
    BY <1>4 DEF Timer, SysYield
  <2>2. KeepsTask(tasks, tasks')
    BY <1>1, <1>2, <2>1, ScheduleOK
  <2> QED
    BY <2>2 DEF KeepsTask
<1>5. ASSUME NEW p \in 1 .. MaxPid, SysWaitpidReap(p)
      PROVE  \A s \in Slots : tasks'[s] = NoTask \/ tasks'[s].pid = tasks[s].pid
  <2>1. PICK z \in Slots : tasks' = [tasks EXCEPT ![z] = NoTask]
    BY <1>5 DEF SysWaitpidReap
  <2> QED
    BY <1>1, <2>1
<1>6. ASSUME NEW p \in 1 .. MaxPid, SysWaitpidBlock(p)
      PROVE  \A s \in Slots : tasks'[s] = NoTask \/ tasks'[s].pid = tasks[s].pid
  <2> DEFINE t == Block(tasks, m, Child(p))
  <2>1. Schedule(t) /\ current # IdlePid
    BY <1>3, <1>6 DEF SysWaitpidBlock
  <2>2. PICK r \in Slots : IsChild(r, p) /\ tasks[r].state # "Zombie"
    BY <1>6 DEF SysWaitpidBlock
  <2>3. tasks[r].pid = p /\ tasks[r].parent = current /\ Live(tasks, r)
    <3>1. tasks[r].pid = p /\ tasks[r].parent = current
      BY <2>2 DEF IsChild
    <3>2. tasks[r].state # "Unused"
      BY <1>1, <3>1 DEF TableOK, UniquePids, NoTask, NewTask, NoPid
    <3>3. tasks[r].state \in TaskState
      BY <1>1 DEF Task
    <3> QED
      BY <2>2, <3>1, <3>2, <3>3 DEF Live, TaskState
  <2>4. Child(p) \in WaitChannel /\ Child(p) # NoWait /\ Child(p).on = p
    BY TasksAssumption DEF Child, WaitChannel, NoWait
  <2>5. TableOK(t, next_pid, current) /\ t[m].pid = current /\ t[m].state = "Sleeping"
    BY <1>1, <1>2, <2>1, <2>3, <2>4, BlockOK
  <2>6. \A s \in Slots : t[s].pid = tasks[s].pid
    BY <1>1 DEF Block, Task
  <2> HIDE DEF t
  <2>7. KeepsTask(t, tasks')
    BY <1>1, <2>1, <2>5, ScheduleOK
  <2> QED
    BY <2>6, <2>7 DEF KeepsTask
<1>7. ASSUME NEW code \in ExitCodes, SysExit(code)
      PROVE  \A s \in Slots : tasks'[s] = NoTask \/ tasks'[s].pid = tasks[s].pid
  <2> DEFINE t == ExitTable(code)
             d == Dispatch(t, 0)
  <2>1. SwitchTo(t, d) /\ current # IdlePid /\ code \in Int
    BY <1>7, TasksAssumption DEF SysExit, ExitTable
  <2>2. AfterExit(t, m)
    BY <1>1, <1>2, <2>1, ExitTableOK
  <2> HIDE DEF t
  <2>3. tasks' = [t EXCEPT ![d] = [t[d] EXCEPT !.state = "Running"]]
    BY <2>1 DEF SwitchTo
  <2> HIDE DEF d
  <2>4. \A s \in Slots : tasks'[s].pid = t[s].pid
    BY <2>2, <2>3 DEF AfterExit, Task
  <2> QED
    BY <1>2, <2>2, <2>4 DEF AfterExit
<1> QED
  BY <1>4, <1>5, <1>6, <1>7

LEMMA MemOtherStep ==
    ASSUME MemInv, MemOther
    PROVE  MemInv'
<1>1. /\ TasksInv /\ spaces \in [Slots -> Space] /\ BitmapOK /\ OwnersOK
      /\ SlotsOK /\ HeapMapped
  BY DEF MemInv
<1>2. /\ \/ Timer \/ SysYield
         \/ \E p \in 1 .. MaxPid : SysWaitpidReap(p) \/ SysWaitpidBlock(p)
         \/ \E code \in ExitCodes : SysExit(code)
      /\ Released(UNION {FreedWithSlot(s) : s \in Cleared})
      /\ spaces' = [s \in Slots |-> IF s \in Cleared THEN NoSpace ELSE spaces[s]]
      /\ lost' = lost
  BY DEF MemOther
<1>3. TasksInv'
  BY <1>1, <1>2, NextStep DEF TasksNext
<1>4. \A s \in Slots : tasks'[s] = NoTask \/ tasks'[s].pid = tasks[s].pid
  BY <1>1, <1>2, OtherKeepsTasks
<1>5. Cleared \in SUBSET Slots
  BY DEF Cleared
<1>6. BitmapOK' /\ OwnersOK' /\ spaces' \in [Slots -> Space]
  BY <1>1, <1>2, <1>5, ReleaseSlots
<1>7. NoTask.pid = NoPid
  BY DEF NoTask, NewTask
<1>8. /\ \A s \in Cleared : spaces'[s] = NoSpace /\ tasks'[s] = NoTask
      /\ \A s \in Slots \ Cleared :
            /\ spaces'[s] = spaces[s]
            /\ tasks'[s] = NoTask => tasks[s] = NoTask
  BY <1>2, <1>5 DEF Cleared
<1>9. SlotsOK'
  <2>1. SUFFICES ASSUME NEW s \in Slots
                 PROVE  /\ tasks'[s] = NoTask => Owned(spaces'[s]) = {}
                        /\ tasks'[s].pid \notin {NoPid, IdlePid} =>
                              TablesFor(Cardinality(spaces'[s].image),
                                        Len(spaces'[s].heap))
                                  <= Cardinality(spaces'[s].tables)
    BY DEF SlotsOK
  <2>2. CASE s \in Cleared
    BY <1>7, <1>8, <2>2, NoSpaceOK
  <2>3. CASE s \notin Cleared
    BY <1>1, <1>4, <1>7, <1>8, <2>3 DEF SlotsOK
  <2> QED
    BY <2>2, <2>3
<1>10. HeapMapped'
  <2>1. NoSpace.heap = <<>> /\ NoSpace.heap_end = 0 /\ Len(<<>>) = 0
    BY DEF NoSpace
  <2>2. CeilDiv(0, PageSize) = 0 /\ 0 \in 0 .. HeapLimit
    BY CeilDivZero, MemoryAssumption
  <2>3. ASSUME NEW s \in Slots
        PROVE  /\ Len(spaces'[s].heap) = CeilDiv(spaces'[s].heap_end, PageSize)
               /\ spaces'[s].heap_end \in 0 .. HeapLimit
    BY <1>1, <1>8, <2>1, <2>2 DEF HeapMapped
  <2> QED
    BY <2>3 DEF HeapMapped
<1> QED
  BY <1>3, <1>6, <1>9, <1>10, MemInvParts

-----------------------------------------------------------------------------
(* kernel_main                                                             *)

BootSize == UserPages(BootImage, 0) + 1     \* pages of a boot task

BootBase(s) == 2 * KernelTables + 1 + (s - 1) * BootSize

LEMMA BootSizes ==
    /\ KernelTables \in Nat \ {0} /\ BootImage \in Nat \ {0} /\ BootTasks \in Nat
    /\ TablesFor(BootImage, 0) \in Nat
    /\ BootSize = TablesFor(BootImage, 0) + BootImage + 2
    /\ BootSize \in Nat \ {0}
    /\ BootPages = 2 * KernelTables + 1 + BootTasks * BootSize
    /\ BootPages \in Nat /\ BootPages <= PhysPages /\ PhysPages \in Nat
<1>1. /\ KernelTables \in Nat \ {0} /\ BootImage \in Nat \ {0} /\ BootTasks \in Nat
      /\ PhysPages \in Nat /\ Mapped \in 0 .. PhysPages /\ BootPages <= Mapped
  BY MemoryAssumption, TasksAssumption
<1>2. TablesFor(BootImage, 0) \in Nat
  BY <1>1, TablesForFacts
<1>3. BootSize = TablesFor(BootImage, 0) + BootImage + 2
  BY <1>1, <1>2 DEF BootSize, UserPages
<1>4. BootPages = 2 * KernelTables + 1 + BootTasks * BootSize
  BY DEF BootPages, BootSize
<1>5. BootSize \in Nat \ {0}
  BY <1>1, <1>2, <1>3
<1>6. BootTasks * BootSize \in Nat
  BY <1>1, <1>5
<1> QED
  BY <1>1, <1>2, <1>3, <1>4, <1>5, <1>6

(* The boot tasks lie one behind the other and fill the boot pages.        *)
LEMMA BootLayout ==
    /\ \A s \in 1 .. BootTasks : /\ BootBase(s) \in Nat
                                 /\ 2 * KernelTables + 1 <= BootBase(s)
                                 /\ BootBase(s) + BootSize <= BootPages
    /\ \A s, r \in 1 .. BootTasks : s < r => BootBase(s) + BootSize <= BootBase(r)
    /\ \A p \in 2 * KernelTables + 1 .. BootPages - 1 :
          \E s \in 1 .. BootTasks : p \in BootBase(s) .. BootBase(s) + BootSize - 1
<1> DEFINE u == BootSize
           k == 2 * KernelTables + 1
<1>1. u \in Nat \ {0} /\ k \in Nat /\ BootTasks \in Nat /\ BootPages = k + BootTasks * u
  BY BootSizes
<1>2. \A s : BootBase(s) = k + (s - 1) * u
  BY DEF BootBase
<1> HIDE DEF u, k
<1>3. ASSUME NEW a \in Nat, NEW b \in Nat, a <= b PROVE a * u <= b * u /\ a * u \in Nat
  <2>1. b - a \in Nat
    BY <1>3
  <2>2. (b - a) * u \in Nat /\ a * u \in Nat /\ b * u \in Nat
    BY <1>1, <2>1
  <2>3. (b - a) * u = b * u - a * u
    BY <1>1
  <2> QED
    BY <2>2, <2>3
<1>4. ASSUME NEW s \in Nat \ {0}, NEW r \in Nat, s <= r
      PROVE  /\ (s - 1) * u \in Nat
             /\ (s - 1) * u + u <= r * u
  <2>1. s \in Nat /\ s - 1 \in Nat /\ s - 1 <= s
    OBVIOUS
  <2>2. s * u <= r * u /\ (s - 1) * u \in Nat
    BY <1>3, <1>4, <2>1
  <2>3. (s - 1) * u + u = s * u
    BY <1>1
  <2> QED
    BY <2>2, <2>3
<1>5. ASSUME NEW s \in 1 .. BootTasks
      PROVE  /\ BootBase(s) \in Nat
             /\ k <= BootBase(s) /\ BootBase(s) + u <= BootPages
  <2>1. s \in Nat \ {0} /\ s <= BootTasks
    BY <1>1
  <2>2. (s - 1) * u \in Nat /\ (s - 1) * u + u <= BootTasks * u
    BY <1>1, <1>4, <2>1
  <2> DEFINE y == (s - 1) * u
             z == BootTasks * u
  <2>3. z \in Nat /\ y \in Nat /\ y + u <= z
    BY <1>1, <2>2
  <2>4. BootBase(s) = k + y /\ BootPages = k + z
    BY <1>1, <1>2
  <2> HIDE DEF y, z
  <2> QED
    BY <1>1, <2>3, <2>4
<1>6. ASSUME NEW s \in 1 .. BootTasks, NEW r \in 1 .. BootTasks, s < r
      PROVE  BootBase(s) + u <= BootBase(r)
  <2>1. s \in Nat \ {0} /\ r - 1 \in Nat /\ s <= r - 1
    BY <1>1, <1>6
  <2>2. (s - 1) * u \in Nat /\ (s - 1) * u + u <= (r - 1) * u /\ (r - 1) * u \in Nat
    BY <1>1, <1>4, <2>1
  <2> QED
    BY <1>1, <1>2, <2>2
<1>7. ASSUME NEW p \in k .. BootPages - 1
      PROVE  \E s \in 1 .. BootTasks : p \in BootBase(s) .. BootBase(s) + u - 1
  <2> DEFINE x == p - k
             q == x \div u
  <2>1. BootTasks * u \in Nat
    BY <1>1
  <2>2. x \in Nat /\ x < BootTasks * u /\ p = k + x /\ p \in Int
    BY <1>1, <2>1
  <2> HIDE DEF x
  <2>3. q \in Int /\ u * q <= x /\ x < u * q + u
    BY <1>1, <2>2
  <2> HIDE DEF q
  <2>4. q \in Nat
    <3>1. ASSUME q <= -1 PROVE FALSE
      <4>1. -1 - q \in Nat
        BY <2>3, <3>1
      <4>2. u * (-1 - q) \in Nat /\ u * (-1 - q) = -u - u * q
        BY <1>1, <2>3, <4>1
      <4>3. u * q \in Int
        BY <1>1, <2>3
      <4> QED
        BY <1>1, <2>2, <2>3, <4>2, <4>3
    <3> QED
      BY <2>3, <3>1
  <2>5. u * q = q * u /\ q * u \in Nat
    BY <1>1, <2>4
  <2>6. q < BootTasks
    <3>1. ASSUME BootTasks <= q PROVE FALSE
      <4>1. BootTasks * u <= q * u
        BY <1>1, <1>3, <2>4, <3>1
      <4> QED
        BY <2>1, <2>2, <2>3, <2>5, <4>1
    <3> QED
      BY <1>1, <2>4, <3>1
  <2> DEFINE s == q + 1
  <2>7. s \in 1 .. BootTasks /\ s - 1 = q
    BY <1>1, <2>4, <2>6
  <2> HIDE DEF s
  <2>8. BootBase(s) = k + q * u
    <3>1. (s - 1) * u = q * u
      BY <2>7, Zenon
    <3> QED
      BY <1>2, <3>1, Zenon
  <2>9. p \in BootBase(s) .. BootBase(s) + u - 1
    BY <1>1, <2>2, <2>3, <2>5, <2>8
  <2> QED
    BY <2>7, <2>9
<1> QED
  BY <1>5, <1>6, <1>7 DEF u, k

LEMMA BootSpaceOK ==
    ASSUME NEW s \in 1 .. BootTasks
    PROVE  LET sp == BootSpace(s)
           IN  /\ sp \in Space /\ Separate(sp)
               /\ Owned(sp) = BootBase(s) .. BootBase(s) + BootSize - 1
               /\ sp.heap_end = 0 /\ Len(sp.heap) = 0
               /\ TablesFor(Cardinality(sp.image), Len(sp.heap))
                      = Cardinality(sp.tables)
<1> DEFINE sp == BootSpace(s)
           b == BootBase(s)
           t == TablesFor(BootImage, 0)
<1>1. /\ b \in Nat /\ t \in Nat /\ BootImage \in Nat
      /\ BootSize = t + BootImage + 2 /\ b + BootSize <= BootPages
      /\ BootPages \in Nat /\ BootPages <= PhysPages /\ PhysPages \in Nat
  BY BootSizes, BootLayout
<1>2. sp = [tables |-> b .. b + t - 1, image |-> b + t .. b + t + BootImage - 1,
            stack |-> b + t + BootImage, kstack |-> b + t + BootImage + 1,
            heap |-> <<>>, heap_end |-> 0]
  BY DEF BootSpace, BootBase, BootSize
<1>3. /\ sp.tables = b .. b + t - 1 /\ sp.image = b + t .. b + t + BootImage - 1
      /\ sp.stack = b + t + BootImage /\ sp.kstack = b + t + BootImage + 1
      /\ sp.heap = <<>> /\ sp.heap_end = 0
  BY <1>2
<1> HIDE DEF sp, b, t
<1>4. <<>> \in Seq(Pages) /\ Len(<<>>) = 0 /\ DOMAIN sp.heap = {}
  <2>1. <<>> \in Seq(Pages) /\ Len(<<>>) = 0
    BY EmptySeq
  <2> QED
    BY <1>3, <2>1
<1>5. /\ b .. b + t - 1 \in SUBSET Pages
      /\ b + t .. b + t + BootImage - 1 \in SUBSET Pages
      /\ b + t + BootImage \in Pages /\ b + t + BootImage + 1 \in Pages
  BY <1>1 DEF Pages
<1>6. sp \in Space
  BY <1>2, <1>4, <1>5 DEF Space
<1>7. HeapSet(sp) = {}
  BY <1>4 DEF HeapSet
<1>8. Stacks(sp) = {b + t + BootImage, b + t + BootImage + 1}
  BY <1>1, <1>3 DEF Stacks, NoPage
<1>9. Owned(sp) = b .. b + BootSize - 1
  <2>1. Owned(sp) = {b + t + BootImage, b + t + BootImage + 1}
                       \cup (b .. b + t - 1) \cup (b + t .. b + t + BootImage - 1)
    BY <1>3, <1>7, <1>8, OwnedIs
  <2> QED
    BY <1>1, <2>1
<1>10. Separate(sp)
  <2>1. /\ sp.kstack # sp.stack
        /\ Stacks(sp) \cap sp.tables = {} /\ Stacks(sp) \cap sp.image = {}
        /\ sp.tables \cap sp.image = {}
    BY <1>1, <1>3, <1>8
  <2> QED
    BY <1>4, <1>7, <2>1 DEF Separate
<1>11. Cardinality(sp.tables) = t /\ Cardinality(sp.image) = BootImage
  <2>1. b \in Int /\ b + t \in Int
    BY <1>1
  <2> QED
    BY <1>1, <1>3, <2>1, IntervalSize
<1> QED
  BY <1>3, <1>4, <1>6, <1>9, <1>10, <1>11 DEF sp, b, t

LEMMA MemInitInv == MemInit => MemInv
<1> SUFFICES ASSUME MemInit PROVE MemInv
  OBVIOUS
<1> DEFINE k == KernelTables
           Users == 1 .. BootTasks
           idle == [NoSpace EXCEPT !.kstack = k, !.tables = k + 1 .. 2 * k]
<1>1. TasksInv
  BY InitInv DEF MemInit
<1>2. /\ k \in Nat \ {0} /\ BootTasks \in Nat /\ BootPages \in Nat
      /\ BootPages <= PhysPages /\ PhysPages \in Nat /\ BootSize \in Nat \ {0}
      /\ BootTasks < MaxTasks /\ MaxTasks \in Nat
  BY BootSizes, TasksAssumption
<1>3. 2 * k + 1 <= BootPages
  <2>1. BootTasks * BootSize \in Nat
    BY <1>2
  <2> QED
    BY <1>2, <2>1, BootSizes
<1>4. /\ used = 0 .. BootPages - 1 /\ free_pages = PhysPages - BootPages /\ lost = {}
      /\ spaces = [s \in Slots |-> IF s = 0 THEN idle
                                   ELSE IF s <= BootTasks THEN BootSpace(s)
                                   ELSE NoSpace]
  BY DEF MemInit
<1>5. /\ 0 \in Slots /\ \A s \in Users : s \in Slots /\ s # 0
      /\ \A s \in Slots : s = 0 \/ s \in Users \/ s > BootTasks
  BY <1>2 DEF Slots
<1>6. /\ spaces[0] = idle
      /\ \A s \in Users : spaces[s] = BootSpace(s)
      /\ \A s \in Slots : s > BootTasks => spaces[s] = NoSpace
  <2>1. spaces[0] = idle
    BY <1>4, <1>5
  <2>2. ASSUME NEW s \in Users PROVE spaces[s] = BootSpace(s)
    <3>1. s \in Slots /\ s # 0 /\ s <= BootTasks
      BY <1>2, <1>5
    <3> HIDE DEF idle
    <3> QED
      BY <1>4, <3>1
  <2>3. ASSUME NEW s \in Slots, s > BootTasks PROVE spaces[s] = NoSpace
    <3>1. s # 0 /\ ~(s <= BootTasks)
      BY <1>2, <2>3 DEF Slots
    <3> HIDE DEF idle
    <3> QED
      BY <1>4, <3>1
  <2> QED
    BY <2>1, <2>2, <2>3
<1>7. /\ idle \in Space /\ Separate(idle) /\ Owned(idle) = k .. 2 * k
      /\ idle.heap = <<>> /\ idle.heap_end = 0
  <2>1. /\ idle.kstack = k /\ idle.stack = NoPage /\ idle.image = {}
        /\ idle.tables = k + 1 .. 2 * k /\ idle.heap = <<>> /\ idle.heap_end = 0
    BY DEF NoSpace
  <2>2. k \in Pages /\ k + 1 .. 2 * k \in SUBSET Pages
    BY <1>2, <1>3 DEF Pages
  <2>3. idle \in Space
    BY <2>2, NoSpaceOK DEF Space
  <2> HIDE DEF idle
  <2>4. DOMAIN idle.heap = {} /\ HeapSet(idle) = {}
    <3>1. DOMAIN idle.heap = {}
      BY <2>1
    <3> QED
      BY <3>1 DEF HeapSet
  <2>5. Stacks(idle) = {k}
    BY <1>2, <2>1 DEF Stacks, NoPage
  <2>6. Owned(idle) = k .. 2 * k
    <3>1. Owned(idle) = {k} \cup (k + 1 .. 2 * k)
      BY <2>1, <2>4, <2>5, OwnedIs
    <3> QED
      BY <1>2, <3>1
  <2>7. Separate(idle)
    <3>1. {k} \cap (k + 1 .. 2 * k) = {} /\ k # NoPage
      BY <1>2 DEF NoPage
    <3> QED
      BY <2>1, <2>4, <2>5, <3>1 DEF Separate
  <2> QED
    BY <2>1, <2>3, <2>6, <2>7
<1> HIDE DEF idle
<1>8. ASSUME NEW s \in Users
      PROVE  /\ BootSpace(s) \in Space /\ Separate(BootSpace(s))
             /\ Owned(BootSpace(s)) = BootBase(s) .. BootBase(s) + BootSize - 1
             /\ BootSpace(s).heap_end = 0 /\ Len(BootSpace(s).heap) = 0
             /\ TablesFor(Cardinality(BootSpace(s).image), Len(BootSpace(s).heap))
                    = Cardinality(BootSpace(s).tables)
  BY BootSpaceOK
<1>9. spaces \in [Slots -> Space]
  <2>1. \A s \in Slots : spaces[s] \in Space
    BY <1>5, <1>6, <1>7, <1>8, NoSpaceOK
  <2>2. spaces = [s \in Slots |-> spaces[s]]
    BY <1>4
  <2> QED
    BY <2>1, <2>2
<1>10. BitmapOK
  <2>1. Pages \ used = BootPages .. BootPages + (PhysPages - BootPages) - 1
    BY <1>2, <1>4 DEF Pages
  <2>2. Cardinality(Pages \ used) = PhysPages - BootPages
    <3>1. BootPages \in Int /\ PhysPages - BootPages \in Nat
      BY <1>2
    <3> QED
      BY <2>1, <3>1, IntervalSize
  <2>3. used \subseteq Pages /\ KernelPages \subseteq used
    BY <1>2, <1>3, <1>4 DEF Pages, KernelPages
  <2> QED
    BY <1>4, <2>2, <2>3 DEF BitmapOK
<1>11. /\ Owned(spaces[0]) = k .. 2 * k
       /\ \A s \in Users : Owned(spaces[s]) = BootBase(s) .. BootBase(s) + BootSize - 1
       /\ \A s \in Slots : s > BootTasks => Owned(spaces[s]) = {}
  BY <1>6, <1>7, <1>8, NoSpaceOK
<1>12. /\ \A s \in Users : /\ BootBase(s) \in Nat /\ 2 * k + 1 <= BootBase(s)
                           /\ BootBase(s) + BootSize <= BootPages
       /\ \A s, r \in Users : s < r => BootBase(s) + BootSize <= BootBase(r)
       /\ \A p \in 2 * k + 1 .. BootPages - 1 :
             \E s \in Users : p \in BootBase(s) .. BootBase(s) + BootSize - 1
  BY BootLayout
<1>13. \A s \in Slots : Owned(spaces[s]) \subseteq k .. BootPages - 1
  <2>1. k .. 2 * k \subseteq k .. BootPages - 1
    BY <1>2, <1>3
  <2>2. ASSUME NEW s \in Users
        PROVE  BootBase(s) .. BootBase(s) + BootSize - 1 \subseteq k .. BootPages - 1
    BY <1>2, <1>12
  <2> QED
    BY <1>5, <1>11, <2>1, <2>2
<1>14. \A s, r \in Slots : s # r => Owned(spaces[s]) \cap Owned(spaces[r]) = {}
  <2>1. ASSUME NEW s \in Users
        PROVE  (k .. 2 * k) \cap (BootBase(s) .. BootBase(s) + BootSize - 1) = {}
    BY <1>2, <1>12
  <2>2. ASSUME NEW s \in Users, NEW r \in Users, s # r
        PROVE  (BootBase(s) .. BootBase(s) + BootSize - 1)
                  \cap (BootBase(r) .. BootBase(r) + BootSize - 1) = {}
    <3>1. s < r \/ r < s
      BY <1>2, <2>2
    <3>2. \/ BootBase(s) + BootSize <= BootBase(r)
          \/ BootBase(r) + BootSize <= BootBase(s)
      BY <1>12, <3>1
    <3>3. BootBase(s) \in Nat /\ BootBase(r) \in Nat
      BY <1>12
    <3> QED
      BY <1>2, <3>2, <3>3
  <2>3. SUFFICES ASSUME NEW s \in Slots, NEW r \in Slots, s # r
                 PROVE  Owned(spaces[s]) \cap Owned(spaces[r]) = {}
    OBVIOUS
  <2>4. CASE s > BootTasks \/ r > BootTasks
    BY <1>11, <2>4
  <2>5. CASE s \in Users /\ r \in Users
    BY <1>11, <2>2, <2>3, <2>5
  <2>6. CASE s = 0 /\ r \in Users
    BY <1>11, <2>1, <2>6
  <2>7. CASE s \in Users /\ r = 0
    BY <1>11, <2>1, <2>7
  <2> QED
    BY <1>5, <2>3, <2>4, <2>5, <2>6, <2>7
<1>15. AllOwned = k .. BootPages - 1
  <2>1. AllOwned \subseteq k .. BootPages - 1
    BY <1>13 DEF AllOwned
  <2>2. ASSUME NEW p \in k .. BootPages - 1
        PROVE  \E s \in Slots : p \in Owned(spaces[s])
    <3>1. p \in k .. 2 * k \/ p \in 2 * k + 1 .. BootPages - 1
      BY <1>2
    <3> QED
      BY <1>5, <1>11, <1>12, <3>1
  <2> QED
    BY <2>1, <2>2 DEF AllOwned
<1>16. OwnersOK
  <2>1. \A s \in Slots : Separate(spaces[s])
    BY <1>5, <1>6, <1>7, <1>8, NoSpaceOK
  <2>2. /\ AllOwned \subseteq used /\ used \subseteq AllOwned \cup lost \cup KernelPages
        /\ AllOwned \cap (lost \cup KernelPages) = {}
    BY <1>2, <1>4, <1>15 DEF KernelPages
  <2> QED
    BY <1>14, <2>1, <2>2 DEF OwnersOK
<1>17. SlotsOK
  <2>1. ASSUME NEW s \in Slots, s \in {0} \cup Users
        PROVE  tasks[s].pid = s /\ tasks[s] # NoTask
    <3>1. s <= BootTasks /\ s \in Nat
      BY <1>2, <2>1
    <3>2. tasks[s] \in {NewTask(s, "Running", NoPid), NewTask(s, "Ready", NoPid)}
      BY <1>2, <3>1 DEF MemInit, TasksInit
    <3>3. tasks[s].pid = s /\ NoTask.pid = -1
      BY <3>2 DEF NewTask, NoTask, NoPid
    <3> QED
      BY <3>1, <3>3
  <2>2. ASSUME NEW s \in Slots, s > BootTasks
        PROVE  tasks[s].pid = NoPid
    <3>1. s # BootTasks /\ ~(s < BootTasks)
      BY <1>2, <2>2 DEF Slots
    <3>2. tasks[s] = NoTask
      BY <3>1 DEF MemInit, TasksInit
    <3> QED
      BY <3>2 DEF NoTask, NewTask
  <2>3. SUFFICES ASSUME NEW s \in Slots
                 PROVE  /\ tasks[s] = NoTask => Owned(spaces[s]) = {}
                        /\ tasks[s].pid \notin {NoPid, IdlePid} =>
                              TablesFor(Cardinality(spaces[s].image),
                                        Len(spaces[s].heap))
                                  <= Cardinality(spaces[s].tables)
    BY DEF SlotsOK
  <2>4. CASE s = 0
    BY <2>1, <2>4 DEF IdlePid
  <2>5. CASE s \in Users
    <3>1. Cardinality(BootSpace(s).tables) \in Nat
      BY <1>8, <2>5, SpaceFacts
    <3>2. spaces[s] = BootSpace(s) /\ tasks[s] # NoTask
      BY <1>6, <2>1, <2>5
    <3> QED
      BY <1>8, <2>5, <3>1, <3>2
  <2>6. CASE s > BootTasks
    BY <1>11, <2>2, <2>6
  <2> QED
    BY <1>5, <2>4, <2>5, <2>6
<1>18. HeapMapped
  <2>1. CeilDiv(0, PageSize) = 0 /\ 0 \in 0 .. HeapLimit
    BY CeilDivZero, MemoryAssumption
  <2>2. \A s \in Slots : Len(spaces[s].heap) = 0 /\ spaces[s].heap_end = 0
    <3>1. NoSpace.heap = <<>> /\ NoSpace.heap_end = 0 /\ Len(<<>>) = 0
      BY DEF NoSpace
    <3> QED
      BY <1>5, <1>6, <1>7, <1>8, <3>1
  <2> QED
    BY <2>1, <2>2 DEF HeapMapped
<1> QED
  BY <1>1, <1>9, <1>10, <1>16, <1>17, <1>18 DEF MemInv

-----------------------------------------------------------------------------
(* The specification.                                                      *)

(* A trap with no effect on pages.                                         *)
LEMMA MemStutterStep ==
    ASSUME MemInv, UNCHANGED <<tasksVars, used, free_pages, spaces, lost>>
    PROVE  MemInv'
<1>1. TasksInv /\ BitmapOK /\ OwnersOK
  BY DEF MemInv
<1>2. TasksInv'
  BY <1>1, StutterStep
<1>3. tasks' = tasks
  BY DEF tasksVars
<1>4. BitmapOK'
  BY <1>1 DEF BitmapOK, Pages, KernelPages
<1>5. OwnersOK'
  BY <1>1 DEF OwnersOK, AllOwned, KernelPages
<1> QED
  BY <1>2, <1>3, <1>4, <1>5, SameSpaces, MemInvParts

LEMMA MemNextStep ==
    ASSUME MemInv, [MemNext]_memoryVars
    PROVE  MemInv'
<1>1. CASE MemFork
  BY <1>1, MemForkStep
<1>2. CASE MemForkNoSlot
  BY <1>2, MemForkNoSlotStep
<1>3. CASE MemForkNoMemory
  BY <1>3, DropFreeStep DEF MemForkNoMemory
<1>4. ASSUME NEW image \in Images, SysExec(image) PROVE MemInv'
  BY <1>4, ExecStep
<1>5. ASSUME NEW image \in Images, SysExecNoMemory(image) PROVE MemInv'
  BY <1>5, DropFreeStep DEF SysExecNoMemory
<1>6. ASSUME NEW inc \in Increments, SysSbrkGrow(inc) PROVE MemInv'
  BY <1>6, SbrkGrowStep
<1>7. ASSUME NEW inc \in Increments, SysSbrkNoMemory(inc) PROVE MemInv'
  BY <1>7, SbrkNoMemoryStep
<1>8. ASSUME NEW inc \in Increments, SysSbrkShrink(inc) PROVE MemInv'
  BY <1>8, SbrkShrinkStep
<1>9. CASE MemOther
  BY <1>9, MemOtherStep
<1>10. CASE PageFault
  BY <1>10, MemStutterStep DEF PageFault
<1>11. CASE UNCHANGED memoryVars
  BY <1>11, MemStutterStep DEF memoryVars, memVars
<1> QED
  BY <1>1, <1>2, <1>3, <1>4, <1>5, <1>6, <1>7, <1>8, <1>9, <1>10, <1>11
     DEF MemNext

(* MemInv holds after every trap.                                          *)
THEOREM MemoryInvariant == MemSpec => []MemInv
<1>1. MemInit => MemInv
  BY MemInitInv
<1>2. MemInv /\ [MemNext]_memoryVars => MemInv'
  BY MemNextStep
<1> QED
  BY <1>1, <1>2, PTL DEF MemSpec

(* Pages of one purpose each are as many as the purposes need.             *)
LEMMA SeparateSize ==
    ASSUME NEW sp \in Space, Separate(sp)
    PROVE  Cardinality(Owned(sp)) =
               Cardinality({sp.kstack, sp.stack} \ {NoPage})
                 + Cardinality(sp.tables) + Cardinality(sp.image) + Len(sp.heap)
<1> DEFINE A == Stacks(sp)
           T == sp.tables
           I == sp.image
           H == HeapSet(sp)
           D == 1 .. Len(sp.heap)
<1>1. /\ IsFiniteSet(T) /\ IsFiniteSet(I) /\ Len(sp.heap) \in Nat
      /\ DOMAIN sp.heap = D
      /\ sp.kstack \in Pages \cup {NoPage} /\ sp.stack \in Pages \cup {NoPage}
  BY SpaceFacts
<1>2. IsFiniteSet(A)
  <2>1. A \in SUBSET Pages
    BY <1>1 DEF Stacks
  <2> QED
    BY <2>1, PagesFinite, FS_Subset
<1>3. IsFiniteSet(H) /\ Cardinality(H) = Len(sp.heap)
  <2>1. IsFiniteSet(D) /\ Cardinality(D) = Len(sp.heap)
    <3>1. 1 \in Int /\ 1 + Len(sp.heap) - 1 = Len(sp.heap)
      BY <1>1
    <3> QED
      BY <1>1, <3>1, IntervalSize
  <2>2. Distinct(sp.heap, D)
    BY <1>1 DEF Separate, Distinct
  <2>3. H = {sp.heap[i] : i \in D}
    BY <1>1 DEF HeapSet
  <2> HIDE DEF D, H
  <2> QED
    BY <2>1, <2>2, <2>3, ImageSize
<1>4. Owned(sp) = (A \cup T) \cup (I \cup H)
  BY OwnedIs
<1>5. A \cap T = {} /\ I \cap H = {} /\ (A \cup T) \cap (I \cup H) = {}
  BY DEF Separate
<1>6. A = {sp.kstack, sp.stack} \ {NoPage}
  BY DEF Stacks
<1> HIDE DEF A, T, I, H
<1>7. /\ IsFiniteSet(A \cup T) /\ Cardinality(A \cup T) = Cardinality(A) + Cardinality(T)
      /\ Cardinality(A) \in Nat /\ Cardinality(T) \in Nat
  BY <1>1, <1>2, <1>5, DisjointSize
<1>8. /\ IsFiniteSet(I \cup H) /\ Cardinality(I \cup H) = Cardinality(I) + Cardinality(H)
      /\ Cardinality(I) \in Nat /\ Cardinality(H) \in Nat
  BY <1>1, <1>3, <1>5, DisjointSize
<1>9. Cardinality(Owned(sp)) = Cardinality(A \cup T) + Cardinality(I \cup H)
  BY <1>4, <1>5, <1>7, <1>8, DisjointSize
<1>10. Cardinality(Owned(sp)) =
           Cardinality(A) + Cardinality(T) + Cardinality(I) + Len(sp.heap)
  BY <1>1, <1>3, <1>7, <1>8, <1>9
<1> QED
  BY <1>6, <1>10 DEF T, I

(* Address spaces and kernel stacks share no page with each other or with  *)
(* the kernel's page table, and within an address space stack, tables,     *)
(* image and heap are different pages: PageAllocator.alloc never hands out *)
(* a page twice, whatever fork, exec, sbrk, exit and waitpid do.           *)
THEOREM NoSharedPages == MemSpec => []PagesOwnedOnce
<1>1. MemInv => PagesOwnedOnce
  <2> SUFFICES ASSUME MemInv PROVE PagesOwnedOnce
    OBVIOUS
  <2>1. spaces \in [Slots -> Space] /\ OwnersOK
    BY DEF MemInv
  <2>2. \A s \in Slots : spaces[s] \in Space /\ Separate(spaces[s])
    BY <2>1 DEF OwnersOK
  <2>3. \A s \in Slots :
           LET sp == spaces[s]
           IN  Cardinality(Owned(sp)) =
                 Cardinality({sp.kstack, sp.stack} \ {NoPage})
                   + Cardinality(sp.tables) + Cardinality(sp.image) + Len(sp.heap)
    BY <2>2, SeparateSize
  <2>4. AllOwned \cap KernelPages = {}
    BY <2>1 DEF OwnersOK
  <2> QED
    BY <2>1, <2>3, <2>4 DEF PagesOwnedOnce, OwnersOK
<1> QED
  BY <1>1, MemoryInvariant, PTL

(* Whatever a task of the table refers to is marked in the bitmap: free    *)
(* and free_user_space never free a page that is still in use, a zombie's  *)
(* kernel stack included.                                                  *)
THEOREM NoUseAfterFree == MemSpec => []NothingDangling
<1>1. MemInv => NothingDangling
  BY DEF MemInv, OwnersOK, NothingDangling
<1> QED
  BY <1>1, MemoryInvariant, PTL

(* Only a fork or exec that fails loses pages, and free_pages counts the   *)
(* clear bits of the bitmap: alloc, which trusts it, neither fails while a *)
(* page is free nor scans in vain.                                         *)
THEOREM NoOtherLeak == MemSpec => []PagesAccounted
<1>1. MemInv => PagesAccounted
  BY DEF MemInv, OwnersOK, BitmapOK, PagesAccounted
<1> QED
  BY <1>1, MemoryInvariant, PTL

(* The heap of every task is mapped exactly up to heap_end, which stays    *)
(* below HEAP_LIMIT, also after an sbrk that ran out of memory half way.   *)
THEOREM HeapIsMapped == MemSpec => []HeapMapped
<1>1. MemInv => HeapMapped
  BY DEF MemInv
<1> QED
  BY <1>1, MemoryInvariant, PTL

(* Whatever Tasks promises of the process table holds with the memory      *)
(* added: running out of pages never leaves the table half changed.        *)
THEOREM TableSurvivesMemory ==
    MemSpec => [](PidsConsistent /\ OneRunning /\ RunnableCountExact)
<1>1. MemInv => PidsConsistent /\ OneRunning /\ RunnableCountExact
  BY InvImpliesAll DEF MemInv
<1> QED
  BY <1>1, MemoryInvariant, PTL

=============================================================================
