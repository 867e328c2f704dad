---------------------------- MODULE MallocProofs ----------------------------
(***************************************************************************)
(* Proofs about the allocator of module Malloc, for any alignment, any     *)
(* heap limit, any sizes and any calls of sbrk by the program, as long as  *)
(* no request is so large that its size wraps (NoHugeRequest).             *)
(***************************************************************************)
EXTENDS Malloc, TLAPS, FiniteSetTheorems, SequenceTheorems, WellFoundedInduction

-----------------------------------------------------------------------------
(* The inductive invariant, of the headers B, the free list F and the end  *)
(* E of a heap, and of the program's own areas ar.                         *)

Header == [size : Nat, free : BOOLEAN]

BlocksType(B) == B \in [DOMAIN B -> Header] /\ DOMAIN B \subseteq Nat
AreasType(ar) == ar \in [DOMAIN ar -> Nat \ {0}] /\ DOMAIN ar \subseteq Nat

(* Two intervals without a common byte.                                    *)
Apart(a, m, b, n) == a + m <= b \/ b + n <= a

(* Blocks and areas do not overlap, and every byte is in one of them.      *)
Tiled(B, E, ar) ==
    /\ \A a \in DOMAIN B : B[a].size >= MinBlockSize /\ a + B[a].size <= E
    /\ \A a, b \in DOMAIN B : a # b => Apart(a, B[a].size, b, B[b].size)
    /\ \A c \in DOMAIN ar : c + ar[c] <= E
    /\ \A c, d \in DOMAIN ar : c # d => Apart(c, ar[c], d, ar[d])
    /\ \A a \in DOMAIN B, c \in DOMAIN ar : Apart(a, B[a].size, c, ar[c])
    /\ \A x \in 0 .. E - 1 : \/ \E a \in DOMAIN B : Holds(x, a, B[a].size)
                             \/ \E c \in DOMAIN ar : Holds(x, c, ar[c])

FreeSet(B) == {a \in DOMAIN B : B[a].free}
UsedSet(B) == {a \in DOMAIN B : ~B[a].free}

Listed(F)   == {F[i] : i \in DOMAIN F}
Distinct(F) == \A i, j \in DOMAIN F : F[i] = F[j] => i = j

(* The free list has the free blocks, each once.                           *)
ListOK(B, F) ==
    F \in Seq(DOMAIN B) /\ Distinct(F) /\ Listed(F) = FreeSet(B)

HeapOK(h, ar) ==
    /\ h \in [blocks : {h.blocks}, free_list : {h.free_list}, end : {h.end}]
    /\ h.end \in 0 .. HeapLimit
    /\ BlocksType(h.blocks) /\ AreasType(ar)
    /\ Tiled(h.blocks, h.end, ar)
    /\ ListOK(h.blocks, h.free_list)

(* The blocks in use are those the program has a pointer to, and large     *)
(* enough.                                                                 *)
HeldOK(B, lv) ==
    /\ lv \in [{Ptr(a) : a \in UsedSet(B)} -> Nat]
    /\ \A a \in UsedSet(B) : lv[Ptr(a)] + HeaderSize <= B[a].size

MallocInv == HeapOK(heap, areas) /\ HeldOK(heap.blocks, live)

-----------------------------------------------------------------------------
(* Sequences and functions.                                                *)

LEMMA SeqFacts ==
    ASSUME NEW S, NEW F \in Seq(S)
    PROVE  /\ Len(F) \in Nat /\ DOMAIN F = 1 .. Len(F)
           /\ \A i \in 1 .. Len(F) : F[i] \in S
           /\ Listed(F) \in SUBSET S
           /\ \A T : Listed(F) \in SUBSET T => F \in Seq(T)
<1>1. /\ Len(F) \in Nat /\ DOMAIN F = 1 .. Len(F)
      /\ F \in [1 .. Len(F) -> S]
  BY LenProperties
<1>2. ASSUME NEW T, Listed(F) \in SUBSET T PROVE F \in Seq(T)
  <2>1. \A i \in 1 .. Len(F) : F[i] \in T
    BY <1>1, <1>2 DEF Listed
  <2>2. F \in [1 .. Len(F) -> T]
    BY <1>1, <2>1
  <2> QED
    BY <1>1, <2>2, SeqDef
<1> QED
  BY <1>1, <1>2 DEF Listed

(* An entry leaves the free list.                                          *)
LEMMA WithoutFacts ==
    ASSUME NEW S, NEW F \in Seq(S), NEW i \in DOMAIN F, Distinct(F)
    PROVE  LET G == Without(F, i)
           IN  /\ G \in Seq(S) /\ Distinct(G)
               /\ Listed(G) = Listed(F) \ {F[i]}
<1> DEFINE n == Len(F)
           P == SubSeq(F, 1, i - 1)
           Q == SubSeq(F, i + 1, n)
           G == P \o Q
           at(j) == IF j < i THEN j ELSE j + 1
<1>1. n \in Nat /\ DOMAIN F = 1 .. n /\ i \in 1 .. n /\ \A j \in 1 .. n : F[j] \in S
  BY SeqFacts
<1> HIDE DEF n
<1>2. /\ P \in Seq(S) /\ Len(P) = i - 1
      /\ \A j \in 1 .. i - 1 : P[j] = F[j]
  <2>1. \A j \in 1 .. i - 1 : F[j] \in S
    BY <1>1
  <2>2. 1 \in Int /\ i - 1 \in Int
    BY <1>1
  <2>3. /\ P \in Seq(S) /\ Len(P) = IF 1 <= i - 1 THEN i - 1 - 1 + 1 ELSE 0
        /\ \A j \in 1 .. i - 1 - 1 + 1 : P[j] = F[1 + j - 1]
    BY <2>1, <2>2, SubSeqProperties
  <2> HIDE DEF P
  <2>4. Len(P) = i - 1
    BY <1>1, <2>3
  <2>5. ASSUME NEW j \in 1 .. i - 1 PROVE P[j] = F[j]
    <3>1. j \in 1 .. i - 1 - 1 + 1 /\ 1 + j - 1 = j
      BY <1>1
    <3> QED
      BY <2>3, <3>1
  <2> QED
    BY <2>3, <2>4, <2>5
<1>3. /\ Q \in Seq(S) /\ Len(Q) = n - i
      /\ \A j \in 1 .. n - i : Q[j] = F[i + j]
  <2>1. \A j \in i + 1 .. n : F[j] \in S
    BY <1>1
  <2>2. i + 1 \in Int /\ n \in Int
    BY <1>1
  <2>3. /\ Q \in Seq(S) /\ Len(Q) = IF i + 1 <= n THEN n - (i + 1) + 1 ELSE 0
        /\ \A j \in 1 .. n - (i + 1) + 1 : Q[j] = F[i + 1 + j - 1]
    BY <2>1, <2>2, SubSeqProperties
  <2> HIDE DEF Q
  <2>4. Len(Q) = n - i
    BY <1>1, <2>3
  <2>5. ASSUME NEW j \in 1 .. n - i PROVE Q[j] = F[i + j]
    <3>1. j \in 1 .. n - (i + 1) + 1 /\ i + 1 + j - 1 = i + j
      BY <1>1
    <3> QED
      BY <2>3, <3>1
  <2> QED
    BY <2>3, <2>4, <2>5
<1> HIDE DEF P, Q
<1>4. /\ G \in Seq(S) /\ Len(G) = n - 1
      /\ \A j \in 1 .. n - 1 : G[j] = F[at(j)]
  <2>1. /\ G \in Seq(S) /\ Len(G) = Len(P) + Len(Q)
        /\ \A j \in 1 .. Len(P) + Len(Q) :
              G[j] = IF j <= Len(P) THEN P[j] ELSE Q[j - Len(P)]
    BY <1>2, <1>3, ConcatProperties
  <2> HIDE DEF G
  <2>2. Len(P) + Len(Q) = n - 1
    BY <1>1, <1>2, <1>3
  <2>3. ASSUME NEW j \in 1 .. n - 1 PROVE G[j] = F[at(j)]
    <3>1. G[j] = IF j <= i - 1 THEN P[j] ELSE Q[j - (i - 1)]
      BY <1>2, <2>1, <2>2
    <3>2. CASE j < i
      <4>1. j \in 1 .. i - 1 /\ j <= i - 1
        BY <1>1, <3>2
      <4> QED
        BY <1>2, <3>1, <3>2, <4>1
    <3>3. CASE ~(j < i)
      <4>1. ~(j <= i - 1) /\ j - (i - 1) \in 1 .. n - i /\ i + (j - (i - 1)) = j + 1
        BY <1>1, <3>3
      <4>2. Q[j - (i - 1)] = F[i + (j - (i - 1))]
        BY <1>3, <4>1
      <4> QED
        BY <3>1, <3>3, <4>1, <4>2
    <3> QED
      BY <3>2, <3>3
  <2> QED
    BY <2>1, <2>2, <2>3
<1> HIDE DEF G
<1>5. DOMAIN G = 1 .. n - 1
  BY <1>4, SeqFacts
<1>6. \A j \in 1 .. n - 1 : at(j) \in 1 .. n /\ at(j) # i
  BY <1>1
<1>7. \A j, k \in 1 .. n - 1 : at(j) = at(k) => j = k
  BY <1>1
<1>8. \A k \in 1 .. n : k # i => \E j \in 1 .. n - 1 : at(j) = k
  <2>1. SUFFICES ASSUME NEW k \in 1 .. n, k # i PROVE \E j \in 1 .. n - 1 : at(j) = k
    OBVIOUS
  <2>2. CASE k < i
    <3>1. k \in 1 .. n - 1 /\ at(k) = k
      BY <1>1, <2>2
    <3> QED
      BY <3>1
  <2>3. CASE k > i
    <3>1. k - 1 \in 1 .. n - 1 /\ at(k - 1) = k
      BY <1>1, <2>3
    <3> HIDE DEF at
    <3> QED
      BY <3>1
  <2> QED
    BY <1>1, <2>1, <2>2, <2>3
<1> HIDE DEF at
<1>9. Distinct(G)
  BY <1>1, <1>4, <1>5, <1>6, <1>7 DEF Distinct
<1>10. Listed(G) = Listed(F) \ {F[i]}
  <2>1. ASSUME NEW j \in 1 .. n - 1 PROVE G[j] \in Listed(F) \ {F[i]}
    <3>1. at(j) \in 1 .. n /\ at(j) # i /\ G[j] = F[at(j)]
      BY <1>4, <1>6
    <3> QED
      BY <1>1, <3>1 DEF Listed, Distinct
  <2>2. ASSUME NEW x \in Listed(F) \ {F[i]} PROVE x \in Listed(G)
    <3>1. PICK k \in 1 .. n : x = F[k] /\ k # i
      BY <1>1, <2>2 DEF Listed
    <3>2. PICK j \in 1 .. n - 1 : at(j) = k
      BY <1>8, <3>1
    <3> QED
      BY <1>4, <1>5, <3>1, <3>2 DEF Listed
  <2> QED
    BY <1>5, <2>1, <2>2 DEF Listed
<1>11. Without(F, i) = G
  BY DEF Without, G, P, Q, n
<1> QED
  BY <1>4, <1>9, <1>10, <1>11

(* An entry takes the place of another one.                                *)
LEMMA ReplaceFacts ==
    ASSUME NEW S, NEW F \in Seq(S), NEW G \in Seq(S), NEW i \in DOMAIN F,
           Distinct(F), DOMAIN G = DOMAIN F, G[i] \notin Listed(F),
           \A j \in DOMAIN F : j # i => G[j] = F[j]
    PROVE  Distinct(G) /\ Listed(G) = (Listed(F) \ {F[i]}) \cup {G[i]}
<1>1. Distinct(G)
  BY DEF Distinct, Listed
<1>2. Listed(G) = (Listed(F) \ {F[i]}) \cup {G[i]}
  BY DEF Listed, Distinct
<1> QED
  BY <1>1, <1>2

(* A new first entry.                                                      *)
LEMMA PushFacts ==
    ASSUME NEW S, NEW F \in Seq(S), Distinct(F), NEW x \in S, x \notin Listed(F)
    PROVE  LET G == <<x>> \o F
           IN  /\ G \in Seq(S) /\ Distinct(G)
               /\ Listed(G) = Listed(F) \cup {x}
<1> DEFINE G == <<x>> \o F
           n == Len(F)
<1>1. n \in Nat /\ DOMAIN F = 1 .. n
  BY SeqFacts
<1>2. <<x>> \in Seq(S) /\ Len(<<x>>) = 1 /\ <<x>>[1] = x
  OBVIOUS
<1>3. /\ G \in Seq(S) /\ Len(G) = 1 + n
      /\ \A j \in 1 .. 1 + n : G[j] = IF j <= 1 THEN <<x>>[j] ELSE F[j - 1]
  BY <1>2, ConcatProperties
<1> HIDE DEF G, n
<1>4. DOMAIN G = 1 .. 1 + n /\ G[1] = x /\ \A j \in 2 .. 1 + n : G[j] = F[j - 1]
  <2>1. DOMAIN G = 1 .. 1 + n
    BY <1>3, SeqFacts
  <2>2. G[1] = x
    BY <1>1, <1>2, <1>3
  <2>3. ASSUME NEW j \in 2 .. 1 + n PROVE G[j] = F[j - 1]
    <3>1. j \in 1 .. 1 + n /\ ~(j <= 1)
      BY <1>1
    <3> QED
      BY <1>3, <3>1
  <2> QED
    BY <2>1, <2>2, <2>3
<1>5. \A j \in 1 .. 1 + n : j = 1 \/ j \in 2 .. 1 + n
  BY <1>1
<1>6. \A j \in 2 .. 1 + n : j - 1 \in 1 .. n
  BY <1>1
<1>7. Distinct(G)
  <2>1. SUFFICES ASSUME NEW j \in 1 .. 1 + n, NEW k \in 1 .. 1 + n, G[j] = G[k]
                 PROVE  j = k
    BY <1>4 DEF Distinct
  <2>2. CASE j = 1 /\ k = 1
    BY <2>2
  <2>3. CASE j \in 2 .. 1 + n /\ k \in 2 .. 1 + n
    <3>1. j - 1 = k - 1
      BY <1>1, <1>4, <1>6, <2>1, <2>3 DEF Distinct
    <3> QED
      BY <2>3, <3>1
  <2>4. CASE j = 1 /\ k \in 2 .. 1 + n
    BY <1>1, <1>4, <1>6, <2>1, <2>4 DEF Listed
  <2>5. CASE k = 1 /\ j \in 2 .. 1 + n
    BY <1>1, <1>4, <1>6, <2>1, <2>5 DEF Listed
  <2> QED
    BY <1>5, <2>2, <2>3, <2>4, <2>5
<1>8. Listed(G) = Listed(F) \cup {x}
  <2>1. ASSUME NEW j \in 1 .. 1 + n PROVE G[j] \in Listed(F) \cup {x}
    BY <1>1, <1>4, <1>5, <1>6 DEF Listed
  <2>2. ASSUME NEW k \in 1 .. n PROVE F[k] \in Listed(G)
    <3>1. k + 1 \in 2 .. 1 + n /\ k + 1 - 1 = k /\ k + 1 \in 1 .. 1 + n
      BY <1>1
    <3>2. G[k + 1] = F[k]
      BY <1>4, <3>1
    <3> QED
      BY <1>4, <3>1, <3>2 DEF Listed
  <2>3. x \in Listed(G)
    BY <1>1, <1>4 DEF Listed
  <2> QED
    BY <1>1, <1>4, <2>1, <2>2, <2>3 DEF Listed
<1> QED
  BY <1>3, <1>7, <1>8 DEF G

-----------------------------------------------------------------------------
(* Sizes.                                                                  *)

LEMMA DivFacts ==
    ASSUME NEW x \in Nat, NEW d \in Nat \ {0}
    PROVE  /\ x \div d \in Nat
           /\ (x \div d) * d <= x
           /\ x < (x \div d) * d + d
<1> DEFINE q == x \div d
           r == x % d
<1>1. q \in Nat /\ r \in 0 .. d - 1 /\ x = d * q + r
  OBVIOUS
<1>2. q * d = d * q
  BY <1>1
<1> QED
  BY <1>1, <1>2

(* The block for a request that does not wrap holds the request and its    *)
(* header, and sbrk does not take its size for a negative one.             *)
LEMMA TotalFacts ==
    ASSUME NEW n \in Nat, n # 0, n <= WordMod - HeapLimit - 2 * Alignment
    PROVE  /\ Total(n) \in Nat
           /\ Total(n) >= MinBlockSize
           /\ Total(n) >= n + HeaderSize
           /\ \A e \in 0 .. HeapLimit :
                 e + Signed(Total(n)) \in 0 .. HeapLimit => Signed(Total(n)) = Total(n)
<1> DEFINE A == Alignment
           W == WordMod
           m == n + 2 * A - 1
           q == m \div A
           t == q * A
<1>1. A \in Nat /\ A > 0 /\ W \in Nat /\ HeapLimit \in Nat /\ 2 * HeapLimit < W
  BY MallocAssumption
<1>2. m \in Nat /\ m < W /\ n + A \in Nat /\ n + A < W
  BY <1>1
<1>3. (n + A) % W = n + A /\ (n + A) + A - 1 = m
  BY <1>1, <1>2
<1>4. m % W = m
  BY <1>1, <1>2
<1>5. AlignUp((n + HeaderSize) % W) = t
  <2>1. (n + HeaderSize) % W = n + A
    BY <1>3 DEF HeaderSize
  <2>2. AlignUp(n + A) = ((((n + A) + A - 1) % W) \div A) * A
    BY DEF AlignUp
  <2> QED
    BY <1>3, <1>4, <2>1, <2>2
<1>6. q \in Nat /\ t <= m /\ m < t + A
  BY <1>1, <1>2, DivFacts
<1>7. t \in Nat
  BY <1>1, <1>6
<1>8. Total(n) = IF t < 2 * A THEN 2 * A ELSE t
  BY <1>5 DEF Total, MinBlockSize
<1> HIDE DEF t, q
<1>9. Total(n) \in Nat /\ Total(n) >= 2 * A /\ Total(n) >= n + A /\ Total(n) < W - HeapLimit
  BY <1>1, <1>6, <1>7, <1>8
<1>10. ASSUME NEW e \in 0 .. HeapLimit, e + Signed(Total(n)) \in 0 .. HeapLimit
       PROVE  Signed(Total(n)) = Total(n)
  <2>1. Signed(Total(n)) = Total(n) \/ Signed(Total(n)) = Total(n) - W
    BY DEF Signed
  <2>2. Signed(Total(n)) # Total(n) - W
    BY <1>1, <1>9, <1>10
  <2> QED
    BY <2>1, <2>2
<1> QED
  BY <1>9, <1>10 DEF MinBlockSize, HeaderSize

(* calloc's check: the product it passes to malloc has not wrapped.        *)
LEMMA ProductFacts ==
    ASSUME NEW k \in Nat \ {0}, NEW n \in Nat, ProductFits(k, n)
    PROVE  k * n \in Nat /\ k * n < WordMod /\ (k * n) % WordMod = k * n
<1> DEFINE q == (WordMod - 1) \div k
           p == k * n
           c == k * q
<1>1. WordMod \in Nat /\ WordMod > 0
  BY MallocAssumption
<1>2. q \in Nat /\ q * k <= WordMod - 1
  BY <1>1, DivFacts
<1>3. n <= q
  BY DEF ProductFits
<1> HIDE DEF q
<1>4. k * n <= k * q /\ k * q = q * k /\ k * n \in Nat /\ k * q \in Nat
  <2>1. PICK d \in Nat : q = n + d
    <3>1. q - n \in Nat /\ q = n + (q - n)
      BY <1>2, <1>3
    <3> QED
      BY <3>1
  <2>2. k * q = k * n + k * d
    BY <2>1
  <2>3. k * d \in Nat /\ k * n \in Nat /\ k * q \in Nat
    BY <1>2, <2>1
  <2>4. k * q = q * k
    BY <1>2
  <2> QED
    BY <2>2, <2>3, <2>4
<1>5. p \in Nat /\ p < WordMod
  BY <1>1, <1>2, <1>4
<1> HIDE DEF p
<1>6. p % WordMod = p
  BY <1>1, <1>5
<1> QED
  BY <1>5, <1>6 DEF p

LEMMA LeastMember ==
    ASSUME NEW D \in SUBSET Nat, D # {}
    PROVE  \E d \in D : \A e \in D : d <= e
<1>1. PICK d \in D : \A e \in D : ~(<<e, d>> \in OpToRel(<, Nat))
  BY NatLessThanWellFounded, WFMin
<1>2. ASSUME NEW e \in D, e < d
      PROVE  <<e, d>> \in OpToRel(<, Nat)
  <2>1. <<e, d>> \in Nat \X Nat /\ <<e, d>>[1] < <<e, d>>[2]
    BY <1>2
  <2> QED
    BY <2>1, Zenon DEF OpToRel
<1>3. \A e \in D : ~(e < d)
  BY <1>1, <1>2, Zenon
<1> QED
  BY <1>3

(* The block that the walk along the free list stops at.                   *)
LEMMA FirstFitFacts ==
    ASSUME NEW h, h.free_list \in Seq(DOMAIN h.blocks), NEW t, Fits(h, t) # {}
    PROVE  /\ FirstFit(h, t) \in DOMAIN h.free_list
           /\ h.blocks[h.free_list[FirstFit(h, t)]].size >= t
<1> DEFINE D == Fits(h, t)
<1>1. D \in SUBSET Nat
  BY SeqFacts DEF Fits
<1>2. \E i \in D : \A j \in D : i <= j
  BY <1>1, LeastMember
<1>3. FirstFit(h, t) \in D
  BY <1>2 DEF FirstFit
<1> QED
  BY <1>3 DEF Fits

-----------------------------------------------------------------------------
(* What a call does to the headers.                                        *)

(* From headers B to headers C, block a becomes used, for n bytes at least,*)
(* and no other block in use changes.                                      *)
NewlyUsed(B, C, a, n) ==
    /\ a \notin UsedSet(B)
    /\ UsedSet(C) = UsedSet(B) \cup {a}
    /\ C[a].size >= n
    /\ \A b \in UsedSet(B) : C[b] = B[b]

(* Only flags change.                                                      *)
LEMMA SameSizes ==
    ASSUME NEW B, NEW C, NEW E, NEW ar, Tiled(B, E, ar),
           DOMAIN C = DOMAIN B, \A a \in DOMAIN B : C[a].size = B[a].size
    PROVE  Tiled(C, E, ar)
BY DEF Tiled

(* A block is set free or used.                                            *)
LEMMA FlagFacts ==
    ASSUME NEW B, BlocksType(B), NEW a \in DOMAIN B, NEW v \in BOOLEAN
    PROVE  LET C == [B EXCEPT ![a].free = v]
           IN  /\ BlocksType(C) /\ DOMAIN C = DOMAIN B
               /\ \A b \in DOMAIN B : C[b].size = B[b].size
               /\ C[a].free = v
               /\ \A b \in DOMAIN B : b # a => C[b] = B[b]
<1> DEFINE C == [B EXCEPT ![a].free = v]
<1>1. B[a] \in Header
  BY DEF BlocksType
<1>2. [B[a] EXCEPT !.free = v] \in Header /\ [B[a] EXCEPT !.free = v].size = B[a].size
  BY <1>1 DEF Header
<1>3. [B[a] EXCEPT !.free = v].free = v
  BY <1>1 DEF Header
<1> DEFINE r == [B[a] EXCEPT !.free = v]
<1>4. C = [B EXCEPT ![a] = r]
  OBVIOUS
<1> HIDE DEF r, C
<1>5. DOMAIN C = DOMAIN B /\ C[a] = r /\ \A b \in DOMAIN B : b # a => C[b] = B[b]
  BY <1>4
<1>6. r \in Header /\ r.size = B[a].size /\ r.free = v
  BY <1>2, <1>3 DEF r
<1>7. C \in [DOMAIN B -> Header]
  BY <1>4, <1>6 DEF BlocksType
<1>8. BlocksType(C)
  BY <1>5, <1>7 DEF BlocksType
<1>9. \A b \in DOMAIN B : C[b].size = B[b].size
  BY <1>5, <1>6
<1>10. C[a].free = v
  BY <1>5, <1>6
<1> QED
  BY <1>5, <1>8, <1>9, <1>10 DEF C

LEMMA UsedFacts ==
    ASSUME NEW B, BlocksType(B), NEW a \in DOMAIN B
    PROVE  LET C == [B EXCEPT ![a].free = FALSE]
           IN  /\ UsedSet(C) = UsedSet(B) \cup {a}
               /\ FreeSet(C) = FreeSet(B) \ {a}
<1> DEFINE C == [B EXCEPT ![a].free = FALSE]
<1>1. /\ DOMAIN C = DOMAIN B /\ C[a].free = FALSE
      /\ \A b \in DOMAIN B : b # a => C[b] = B[b]
  BY FlagFacts
<1> HIDE DEF C
<1>2. UsedSet(C) = UsedSet(B) \cup {a} /\ FreeSet(C) = FreeSet(B) \ {a}
  BY <1>1, Zenon DEF UsedSet, FreeSet
<1> QED
  BY <1>2 DEF C

LEMMA FreedFacts ==
    ASSUME NEW B, BlocksType(B), NEW a \in DOMAIN B
    PROVE  LET C == [B EXCEPT ![a].free = TRUE]
           IN  /\ UsedSet(C) = UsedSet(B) \ {a}
               /\ FreeSet(C) = FreeSet(B) \cup {a}
<1> DEFINE C == [B EXCEPT ![a].free = TRUE]
<1>1. /\ DOMAIN C = DOMAIN B /\ C[a].free = TRUE
      /\ \A b \in DOMAIN B : b # a => C[b] = B[b]
  BY FlagFacts
<1> HIDE DEF C
<1>2. UsedSet(C) = UsedSet(B) \ {a} /\ FreeSet(C) = FreeSet(B) \cup {a}
  BY <1>1, Zenon DEF UsedSet, FreeSet
<1> QED
  BY <1>2 DEF C

(* A header is written.                                                    *)
LEMMA HeaderWritten ==
    ASSUME NEW B, BlocksType(B), NEW a \in Nat, NEW r \in Header
    PROVE  LET C == Put(B, a, r)
           IN  /\ BlocksType(C) /\ DOMAIN C = DOMAIN B \cup {a}
               /\ C[a] = r
               /\ \A b \in DOMAIN B : b # a => C[b] = B[b]
<1> DEFINE C == Put(B, a, r)
           D == DOMAIN B \cup {a}
<1>1. /\ DOMAIN C = D /\ C[a] = r
      /\ \A b \in DOMAIN B : b # a => C[b] = B[b]
  BY DEF Put
<1>2. \A y \in D : (IF y = a THEN r ELSE B[y]) \in Header
  BY DEF BlocksType
<1>3. C \in [D -> Header]
  BY <1>2 DEF Put
<1> HIDE DEF C
<1>4. D \subseteq Nat
  BY DEF BlocksType
<1>5. BlocksType(C)
  BY <1>1, <1>3, <1>4 DEF BlocksType
<1> QED
  BY <1>1, <1>5 DEF C

LEMMA BlockTypes ==
    ASSUME NEW n \in Nat
    PROVE  /\ UsedBlock(n) \in Header /\ UsedBlock(n).size = n /\ UsedBlock(n).free = FALSE
           /\ FreeBlock(n) \in Header /\ FreeBlock(n).size = n /\ FreeBlock(n).free = TRUE
BY DEF UsedBlock, FreeBlock, Header

-----------------------------------------------------------------------------
(* The heap after each kind of call.                                       *)

(* request_more: the new block is beyond every other one.                  *)
LEMMA GrownOK ==
    ASSUME NEW h, NEW ar, HeapOK(h, ar), NEW t \in Nat, t >= MinBlockSize,
           Signed(t) = t, h.end + t \in 0 .. HeapLimit
    PROVE  HeapOK(Grown(h, t), ar) /\ NewlyUsed(h.blocks, Grown(h, t).blocks, h.end, t)
<1> DEFINE B == h.blocks
           F == h.free_list
           E == h.end
           C == Put(B, E, UsedBlock(t))
           g == Grown(h, t)
<1>1. /\ h \in [blocks : {B}, free_list : {F}, end : {E}] /\ E \in 0 .. HeapLimit
      /\ BlocksType(B) /\ AreasType(ar) /\ Tiled(B, E, ar) /\ ListOK(B, F)
  BY DEF HeapOK
<1>2. E \in Nat /\ HeapLimit \in Nat /\ Alignment \in Nat /\ Alignment > 0
  BY <1>1, MallocAssumption
<1>3. \A a \in DOMAIN B : a \in Nat /\ B[a].size \in Nat
  BY <1>1 DEF BlocksType, Header
<1>4. E \notin DOMAIN B
  <2>1. \A a \in DOMAIN B : a < E
    BY <1>1, <1>2, <1>3 DEF Tiled, MinBlockSize
  <2> QED
    BY <1>2, <2>1
<1>5. /\ BlocksType(C) /\ DOMAIN C = DOMAIN B \cup {E}
      /\ C[E] = UsedBlock(t) /\ C[E].size = t
      /\ \A b \in DOMAIN B : C[b] = B[b]
  <2> DEFINE r == UsedBlock(t)
  <2>1. r \in Header /\ r.size = t
    BY BlockTypes
  <2> HIDE DEF B, E, r
  <2>2. /\ BlocksType(C) /\ DOMAIN C = DOMAIN B \cup {E} /\ C[E] = r
        /\ \A b \in DOMAIN B : b # E => C[b] = B[b]
    BY <1>1, <1>2, <2>1, HeaderWritten DEF r
  <2> QED
    BY <1>4, <2>1, <2>2 DEF r
<1>6. C[E].free = FALSE
  BY <1>5, BlockTypes
<1>7. Removed(F, E) = F
  <2>1. \A i \in DOMAIN F : F[i] # E
    BY <1>1, <1>4, SeqFacts DEF ListOK
  <2> QED
    BY <2>1 DEF Removed
<1>8. /\ g \in [blocks : {C}, free_list : {F}, end : {E + t}]
      /\ g.blocks = C /\ g.free_list = F /\ g.end = E + t
  <2> DEFINE R == Removed(F, E)
             s == Signed(t)
  <2>1. g = [h EXCEPT !.blocks = C, !.free_list = R, !.end = E + s]
    BY DEF Grown
  <2>2. R = F /\ s = t
    BY <1>7
  <2> HIDE DEF C, R, s, g
  <2> QED
    BY <1>1, <2>1, <2>2
<1> HIDE DEF C, g
<1>9. UsedSet(C) = UsedSet(B) \cup {E} /\ FreeSet(C) = FreeSet(B)
  BY <1>4, <1>5, <1>6, Zenon DEF UsedSet, FreeSet
<1>10. ListOK(C, F)
  BY <1>1, <1>5, <1>9, SeqFacts DEF ListOK
<1>11. Tiled(C, E + t, ar)
  <2>1. ASSUME NEW c \in DOMAIN ar PROVE c \in Nat /\ ar[c] \in Nat /\ c + ar[c] <= E
    BY <1>1 DEF AreasType, Tiled
  <2>2. \A a \in DOMAIN B : B[a].size >= MinBlockSize /\ a + B[a].size <= E
    BY <1>1 DEF Tiled
  <2>3. \A a \in DOMAIN C : C[a].size >= MinBlockSize /\ a + C[a].size <= E + t
    BY <1>2, <1>3, <1>5, <2>2
  <2>4. \A a, b \in DOMAIN C : a # b => Apart(a, C[a].size, b, C[b].size)
    BY <1>1, <1>5, <2>2 DEF Apart, Tiled
  <2>5. \A c \in DOMAIN ar : c + ar[c] <= E + t
    BY <1>2, <2>1
  <2>6. \A a \in DOMAIN C, c \in DOMAIN ar : Apart(a, C[a].size, c, ar[c])
    BY <1>1, <1>5, <2>1 DEF Apart, Tiled
  <2>7. ASSUME NEW x \in 0 .. E + t - 1
        PROVE  \/ \E a \in DOMAIN C : Holds(x, a, C[a].size)
               \/ \E c \in DOMAIN ar : Holds(x, c, ar[c])
    <3>1. CASE x \in 0 .. E - 1
      BY <1>1, <1>5, <3>1 DEF Tiled
    <3>2. CASE x \notin 0 .. E - 1
      <4>1. Holds(x, E, C[E].size)
        BY <1>2, <1>5, <3>2 DEF Holds
      <4> QED
        BY <1>5, <4>1
    <3> QED
      BY <3>1, <3>2
  <2> QED
    BY <1>1, <2>3, <2>4, <2>5, <2>6, <2>7 DEF Tiled
<1>12. HeapOK(g, ar)
  BY <1>1, <1>5, <1>8, <1>10, <1>11 DEF HeapOK
<1>13. E \notin UsedSet(B) /\ C[E].size >= t /\ \A b \in UsedSet(B) : C[b] = B[b]
  BY <1>4, <1>5 DEF UsedSet
<1> QED
  BY <1>8, <1>9, <1>12, <1>13 DEF NewlyUsed, g

(* A block is taken as it is.                                              *)
LEMMA WholeOK ==
    ASSUME NEW h, NEW ar, HeapOK(h, ar), NEW t \in Nat, NEW i \in DOMAIN h.free_list,
           h.blocks[h.free_list[i]].size >= t,
           ~(h.blocks[h.free_list[i]].size >= t + MinBlockSize)
    PROVE  /\ HeapOK(Taken(h, i, t), ar)
           /\ NewlyUsed(h.blocks, Taken(h, i, t).blocks, h.free_list[i], t)
<1> DEFINE B == h.blocks
           F == h.free_list
           E == h.end
           a == F[i]
           C == [B EXCEPT ![a].free = FALSE]
           G == Without(F, i)
           g == Taken(h, i, t)
<1>1. /\ h \in [blocks : {B}, free_list : {F}, end : {E}] /\ E \in 0 .. HeapLimit
      /\ BlocksType(B) /\ AreasType(ar) /\ Tiled(B, E, ar) /\ ListOK(B, F)
  BY DEF HeapOK
<1>2. a \in DOMAIN B /\ a \in FreeSet(B)
  BY <1>1, SeqFacts DEF ListOK, Listed
<1>3. /\ BlocksType(C) /\ DOMAIN C = DOMAIN B
      /\ \A b \in DOMAIN B : C[b].size = B[b].size
      /\ \A b \in DOMAIN B : b # a => C[b] = B[b]
  <2>1. FALSE \in BOOLEAN
    OBVIOUS
  <2> HIDE DEF B, a
  <2> QED
    BY <1>1, <1>2, <2>1, FlagFacts, Zenon
<1>4. UsedSet(C) = UsedSet(B) \cup {a} /\ FreeSet(C) = FreeSet(B) \ {a}
  BY <1>1, <1>2, UsedFacts
<1>5. /\ g \in [blocks : {C}, free_list : {G}, end : {E}]
      /\ g.blocks = C /\ g.free_list = G /\ g.end = E
  <2>1. g = [h EXCEPT !.blocks = C, !.free_list = G]
    BY DEF Taken
  <2> HIDE DEF C, G, g
  <2> QED
    BY <1>1, <2>1
<1>6. G \in Seq(DOMAIN B) /\ Distinct(G) /\ Listed(G) = Listed(F) \ {a}
  BY <1>1, WithoutFacts DEF ListOK
<1> HIDE DEF C, g, G
<1>7. ListOK(C, G)
  BY <1>1, <1>3, <1>4, <1>6 DEF ListOK
<1>8. Tiled(C, E, ar)
  BY <1>1, <1>3, SameSizes
<1>9. HeapOK(g, ar)
  BY <1>1, <1>3, <1>5, <1>7, <1>8 DEF HeapOK
<1>10. a \notin UsedSet(B)
  BY <1>2, Zenon DEF UsedSet, FreeSet
<1>11. C[a].size >= t /\ \A b \in UsedSet(B) : C[b] = B[b]
  BY <1>2, <1>3, <1>10 DEF UsedSet
<1> QED
  BY <1>4, <1>5, <1>9, <1>10, <1>11 DEF NewlyUsed, g

(* A block is split: the remainder takes its place in the list.            *)
LEMMA SplitOK ==
    ASSUME NEW h, NEW ar, HeapOK(h, ar), NEW t \in Nat, t >= MinBlockSize,
           NEW i \in DOMAIN h.free_list,
           h.blocks[h.free_list[i]].size >= t + MinBlockSize
    PROVE  /\ HeapOK(Taken(h, i, t), ar)
           /\ NewlyUsed(h.blocks, Taken(h, i, t).blocks, h.free_list[i], t)
<1> DEFINE B == h.blocks
           F == h.free_list
           E == h.end
           a == F[i]
           z == B[a].size
           b == a + t
           A == Put(B, a, UsedBlock(t))
           C == Put(A, b, FreeBlock(z - t))
           G == [F EXCEPT ![i] = b]
           g == Taken(h, i, t)
<1>1. /\ h \in [blocks : {B}, free_list : {F}, end : {E}] /\ E \in 0 .. HeapLimit
      /\ BlocksType(B) /\ AreasType(ar) /\ Tiled(B, E, ar) /\ ListOK(B, F)
  BY DEF HeapOK
<1>2. a \in DOMAIN B /\ a \in FreeSet(B)
  BY <1>1, SeqFacts DEF ListOK, Listed
<1>3. Alignment \in Nat /\ Alignment > 0 /\ MinBlockSize = 2 * Alignment
  BY MallocAssumption DEF MinBlockSize
<1>4. \A c \in DOMAIN B : c \in Nat /\ B[c].size \in Nat
  BY <1>1 DEF BlocksType, Header
<1>5. /\ a \in Nat /\ z \in Nat /\ b \in Nat /\ z - t \in Nat
      /\ z - t >= MinBlockSize /\ z >= t + MinBlockSize /\ b # a
  <2>1. a \in Nat /\ z \in Nat
    BY <1>2, <1>4
  <2>2. z >= t + MinBlockSize
    OBVIOUS
  <2> HIDE DEF z, a
  <2> QED
    BY <1>3, <2>1, <2>2
<1>6. ASSUME NEW c \in DOMAIN B, c # a
      PROVE  /\ c # b
             /\ Apart(a, t, c, B[c].size) /\ Apart(c, B[c].size, a, t)
             /\ Apart(b, z - t, c, B[c].size) /\ Apart(c, B[c].size, b, z - t)
  <2>1. Apart(a, z, c, B[c].size) /\ B[c].size >= MinBlockSize
    BY <1>1, <1>2, <1>6 DEF Tiled
  <2>2. c \in Nat /\ B[c].size \in Nat
    BY <1>4
  <2> HIDE DEF B, a, z
  <2> QED
    BY <1>3, <1>5, <2>1, <2>2 DEF Apart
<1>7. b \notin DOMAIN B
  BY <1>5, <1>6
<1> DEFINE r == UsedBlock(t)
           s == FreeBlock(z - t)
<1>8. r \in Header /\ r.size = t /\ s \in Header /\ s.size = z - t
  <2> HIDE DEF z
  <2> QED
    BY <1>5, BlockTypes
<1>9. r.free = FALSE /\ s.free = TRUE
  BY DEF UsedBlock, FreeBlock
<1>10. /\ BlocksType(A) /\ DOMAIN A = DOMAIN B /\ A[a] = r
      /\ \A c \in DOMAIN B : c # a => A[c] = B[c]
  <2>1. A = Put(B, a, r) /\ DOMAIN B \cup {a} = DOMAIN B
    BY <1>2
  <2>2. BlocksType(B) /\ a \in Nat /\ r \in Header
    BY <1>1, <1>5, <1>8
  <2> HIDE DEF B, a, r
  <2>3. /\ BlocksType(Put(B, a, r)) /\ DOMAIN Put(B, a, r) = DOMAIN B \cup {a}
        /\ Put(B, a, r)[a] = r
        /\ \A c \in DOMAIN B : c # a => Put(B, a, r)[c] = B[c]
    BY <2>2, HeaderWritten
  <2> QED
    BY <2>1, <2>3
<1>11. /\ BlocksType(C) /\ DOMAIN C = DOMAIN A \cup {b} /\ C[b] = s
      /\ \A c \in DOMAIN A : c # b => C[c] = A[c]
  <2>1. C = Put(A, b, s)
    OBVIOUS
  <2>2. BlocksType(A) /\ b \in Nat /\ s \in Header
    BY <1>5, <1>8, <1>10
  <2> HIDE DEF A, b, s
  <2>3. /\ BlocksType(Put(A, b, s)) /\ DOMAIN Put(A, b, s) = DOMAIN A \cup {b}
        /\ Put(A, b, s)[b] = s
        /\ \A c \in DOMAIN A : c # b => Put(A, b, s)[c] = A[c]
    BY <2>2, HeaderWritten
  <2> QED
    BY <2>1, <2>3
<1>12. /\ DOMAIN C = DOMAIN B \cup {b}
       /\ C[a] = r /\ C[a].size = t /\ C[b] = s /\ C[b].size = z - t
       /\ \A c \in DOMAIN B : c # a => C[c] = B[c]
  <2> HIDE DEF A, b, z, r, s, C
  <2>1. C[a] = r /\ C[b] = s
    BY <1>2, <1>5, <1>10, <1>11
  <2>2. \A c \in DOMAIN B : c # a => C[c] = B[c]
    BY <1>6, <1>10, <1>11
  <2> QED
    BY <1>10, <1>11, <1>8, <2>1, <2>2
<1>13. C[a].free = FALSE /\ C[b].free = TRUE
  BY <1>12, <1>9, Zenon
<1>14. /\ g \in [blocks : {C}, free_list : {G}, end : {E}]
       /\ g.blocks = C /\ g.free_list = G /\ g.end = E
  <2>1. g = [h EXCEPT !.blocks = C, !.free_list = G]
    BY DEF Taken
  <2> HIDE DEF C, G, g
  <2> QED
    BY <1>1, <2>1
<1>15. b \notin Listed(F)
  BY <1>1, <1>7, SeqFacts DEF ListOK
<1>16. G \in Seq(DOMAIN B \cup {b}) /\ Distinct(G) /\ Listed(G) = (Listed(F) \ {a}) \cup {b}
  <2>1. F \in Seq(DOMAIN B) /\ i \in DOMAIN F /\ Distinct(F)
    BY <1>1 DEF ListOK
  <2> HIDE DEF B, F, b
  <2>2. b \notin Listed(F)
    BY <1>15
  <2> DEFINE S == DOMAIN B \cup {b}
             n == Len(F)
  <2>3. n \in Nat /\ DOMAIN F = 1 .. n /\ F \in Seq(S) /\ \A j \in 1 .. n : F[j] \in S
    BY <2>1, SeqFacts
  <2>4. /\ G \in [1 .. n -> S] /\ G[i] = b
        /\ \A j \in DOMAIN F : j # i => G[j] = F[j]
    BY <2>1, <2>3
  <2> HIDE DEF G, S, n
  <2>5. G \in Seq(S) /\ DOMAIN G = DOMAIN F
    BY <2>3, <2>4, SeqDef
  <2>6. Distinct(G) /\ Listed(G) = (Listed(F) \ {F[i]}) \cup {G[i]}
    BY <2>1, <2>2, <2>3, <2>4, <2>5, ReplaceFacts
  <2> QED
    BY <2>4, <2>5, <2>6 DEF S
<1> HIDE DEF A, C, G, g, b, z, r, s
<1>17. UsedSet(C) = UsedSet(B) \cup {a} /\ FreeSet(C) = (FreeSet(B) \ {a}) \cup {b}
  BY <1>2, <1>5, <1>7, <1>12, <1>13, Zenon DEF UsedSet, FreeSet
<1>18. ListOK(C, G)
  BY <1>1, <1>12, <1>16, <1>17 DEF ListOK
<1>19. Tiled(C, E, ar)
  <2>1. ASSUME NEW c \in DOMAIN ar
        PROVE  /\ c \in Nat /\ ar[c] \in Nat
               /\ Apart(a, t, c, ar[c]) /\ Apart(b, z - t, c, ar[c])
    <3>1. c \in Nat /\ ar[c] \in Nat
      BY <1>1 DEF AreasType
    <3>2. Apart(a, z, c, ar[c])
      BY <1>1, <1>2 DEF Tiled, z
    <3> QED
      BY <1>5, <3>1, <3>2 DEF Apart, b
  <2>2. a + z <= E /\ \A c \in DOMAIN B : B[c].size >= MinBlockSize /\ c + B[c].size <= E
    BY <1>1, <1>2 DEF Tiled, z
  <2>3. \A c \in DOMAIN C : C[c].size >= MinBlockSize /\ c + C[c].size <= E
    <3>1. a + t <= E /\ b + (z - t) <= E
      BY <1>1, <1>3, <1>5, <2>2 DEF b
    <3> QED
      BY <1>5, <1>12, <2>2, <3>1
  <2>4. Apart(a, t, b, z - t) /\ Apart(b, z - t, a, t)
    BY <1>5 DEF Apart, b
  <2>5. \A c, d \in DOMAIN C : c # d => Apart(c, C[c].size, d, C[d].size)
    BY <1>1, <1>6, <1>12, <2>4 DEF Tiled
  <2>6. \A c \in DOMAIN C, d \in DOMAIN ar : Apart(c, C[c].size, d, ar[d])
    BY <1>1, <1>12, <2>1 DEF Tiled
  <2>7. ASSUME NEW x \in 0 .. E - 1
        PROVE  \/ \E c \in DOMAIN C : Holds(x, c, C[c].size)
               \/ \E c \in DOMAIN ar : Holds(x, c, ar[c])
    <3>1. \/ \E c \in DOMAIN B : Holds(x, c, B[c].size)
          \/ \E c \in DOMAIN ar : Holds(x, c, ar[c])
      BY <1>1 DEF Tiled
    <3>2. ASSUME NEW c \in DOMAIN B, Holds(x, c, B[c].size)
          PROVE  \E d \in DOMAIN C : Holds(x, d, C[d].size)
      <4>1. CASE c = a
        <5>1. Holds(x, a, t) \/ Holds(x, b, z - t)
          <6>1. Holds(x, a, z)
            BY <3>2, <4>1 DEF z
          <6> QED
            BY <1>1, <1>5, <6>1 DEF Holds, b
        <5> QED
          BY <1>2, <1>12, <5>1
      <4>2. CASE c # a
        BY <1>12, <3>2, <4>2
      <4> QED
        BY <4>1, <4>2
    <3> QED
      BY <3>1, <3>2
  <2> QED
    BY <1>1, <2>3, <2>5, <2>6, <2>7 DEF Tiled
<1>20. HeapOK(g, ar)
  BY <1>1, <1>11, <1>14, <1>18, <1>19 DEF HeapOK
<1>21. a \notin UsedSet(B)
  BY <1>2, Zenon DEF UsedSet, FreeSet
<1>22. C[a].size >= t /\ \A c \in UsedSet(B) : C[c] = B[c]
  BY <1>12, <1>21 DEF UsedSet
<1> QED
  BY <1>14, <1>17, <1>20, <1>21, <1>22 DEF NewlyUsed, g

(* free: a block in use goes to the head of the list.                      *)
LEMMA FreedOK ==
    ASSUME NEW h, NEW ar, HeapOK(h, ar), NEW a \in UsedSet(h.blocks)
    PROVE  LET g == Freed(h, Ptr(a))
           IN  /\ HeapOK(g, ar)
               /\ UsedSet(g.blocks) = UsedSet(h.blocks) \ {a}
               /\ \A b \in UsedSet(g.blocks) : g.blocks[b] = h.blocks[b]
<1> DEFINE B == h.blocks
           F == h.free_list
           E == h.end
           C == [B EXCEPT ![a].free = TRUE]
           G == <<a>> \o F
           g == Freed(h, Ptr(a))
<1>1. /\ h \in [blocks : {B}, free_list : {F}, end : {E}] /\ E \in 0 .. HeapLimit
      /\ BlocksType(B) /\ AreasType(ar) /\ Tiled(B, E, ar) /\ ListOK(B, F)
  BY DEF HeapOK
<1>2. a \in DOMAIN B /\ a \in UsedSet(B)
  BY DEF UsedSet
<1>3. Hdr(Ptr(a)) = a
  <2>1. a \in Nat /\ Alignment \in Nat
    BY <1>1, <1>2, MallocAssumption DEF BlocksType
  <2> QED
    BY <2>1 DEF Hdr, Ptr, HeaderSize
<1>4. /\ BlocksType(C) /\ DOMAIN C = DOMAIN B
      /\ \A b \in DOMAIN B : C[b].size = B[b].size
      /\ \A b \in DOMAIN B : b # a => C[b] = B[b]
  <2>1. TRUE \in BOOLEAN
    OBVIOUS
  <2> HIDE DEF B
  <2> QED
    BY <1>1, <1>2, <2>1, FlagFacts, Zenon
<1>5. UsedSet(C) = UsedSet(B) \ {a} /\ FreeSet(C) = FreeSet(B) \cup {a}
  BY <1>1, <1>2, FreedFacts
<1>6. /\ g \in [blocks : {C}, free_list : {G}, end : {E}]
      /\ g.blocks = C /\ g.free_list = G /\ g.end = E
  <2>1. g = [h EXCEPT !.blocks = C, !.free_list = G]
    BY <1>3 DEF Freed
  <2> HIDE DEF C, G, g
  <2> QED
    BY <1>1, <2>1
<1>7. a \notin FreeSet(B)
  BY <1>2, Zenon DEF UsedSet, FreeSet
<1>8. G \in Seq(DOMAIN B) /\ Distinct(G) /\ Listed(G) = Listed(F) \cup {a}
  BY <1>1, <1>2, <1>7, PushFacts DEF ListOK
<1> HIDE DEF C, g, G
<1>9. ListOK(C, G)
  BY <1>1, <1>4, <1>5, <1>8 DEF ListOK
<1>10. Tiled(C, E, ar)
  BY <1>1, <1>4, SameSizes
<1>11. HeapOK(g, ar)
  BY <1>1, <1>4, <1>6, <1>9, <1>10 DEF HeapOK
<1>12. \A b \in UsedSet(C) : C[b] = B[b]
  BY <1>4, <1>5 DEF UsedSet
<1> QED
  BY <1>5, <1>6, <1>11, <1>12 DEF g

(* The program's own memory is beyond every block and area.                *)
LEMMA AreaOK ==
    ASSUME NEW h, NEW ar, HeapOK(h, ar), NEW n \in Nat \ {0},
           h.end + n \in 0 .. HeapLimit
    PROVE  HeapOK([h EXCEPT !.end = @ + n], Put(ar, h.end, n))
<1> DEFINE B == h.blocks
           F == h.free_list
           E == h.end
           br == Put(ar, E, n)
           g == [h EXCEPT !.end = @ + n]
<1>1. /\ h \in [blocks : {B}, free_list : {F}, end : {E}] /\ E \in 0 .. HeapLimit
      /\ BlocksType(B) /\ AreasType(ar) /\ Tiled(B, E, ar) /\ ListOK(B, F)
  BY DEF HeapOK
<1>2. E \in Nat /\ HeapLimit \in Nat
  BY <1>1, MallocAssumption
<1>3. \A c \in DOMAIN ar : c \in Nat /\ ar[c] \in Nat /\ ar[c] > 0 /\ c + ar[c] <= E
  BY <1>1 DEF AreasType, Tiled
<1>4. E \notin DOMAIN ar
  <2>1. \A c \in DOMAIN ar : c < E
    BY <1>2, <1>3
  <2> QED
    BY <1>2, <2>1
<1>5. DOMAIN br = DOMAIN ar \cup {E} /\ br[E] = n /\ \A c \in DOMAIN ar : br[c] = ar[c]
  <2> HIDE DEF E
  <2> QED
    BY <1>4 DEF Put
<1>6. AreasType(br)
  <2>1. \A y \in DOMAIN ar \cup {E} : (IF y = E THEN n ELSE ar[y]) \in Nat \ {0}
    BY <1>1 DEF AreasType
  <2>2. br \in [DOMAIN ar \cup {E} -> Nat \ {0}]
    BY <2>1 DEF Put
  <2> HIDE DEF br
  <2> QED
    BY <1>1, <1>2, <1>5, <2>2 DEF AreasType
<1>7. /\ g \in [blocks : {B}, free_list : {F}, end : {E + n}]
      /\ g.blocks = B /\ g.free_list = F /\ g.end = E + n
  BY <1>1
<1> HIDE DEF br, g
<1>8. Tiled(B, E + n, br)
  <2>1. \A a \in DOMAIN B :
           a \in Nat /\ B[a].size \in Nat /\ B[a].size >= MinBlockSize /\ a + B[a].size <= E
    BY <1>1 DEF Tiled, BlocksType, Header
  <2>2. \A a \in DOMAIN B : B[a].size >= MinBlockSize /\ a + B[a].size <= E + n
    BY <1>2, <2>1
  <2>3. \A c \in DOMAIN br : c + br[c] <= E + n
    BY <1>2, <1>3, <1>5
  <2>4. \A c, d \in DOMAIN br : c # d => Apart(c, br[c], d, br[d])
    BY <1>1, <1>3, <1>5 DEF Apart, Tiled
  <2>5. \A a \in DOMAIN B, c \in DOMAIN br : Apart(a, B[a].size, c, br[c])
    BY <1>1, <1>5, <2>1 DEF Apart, Tiled
  <2>6. ASSUME NEW x \in 0 .. E + n - 1
        PROVE  \/ \E a \in DOMAIN B : Holds(x, a, B[a].size)
               \/ \E c \in DOMAIN br : Holds(x, c, br[c])
    <3>1. CASE x \in 0 .. E - 1
      BY <1>1, <1>5, <3>1 DEF Tiled
    <3>2. CASE x \notin 0 .. E - 1
      <4>1. Holds(x, E, br[E])
        BY <1>2, <1>5, <3>2 DEF Holds
      <4> QED
        BY <1>5, <4>1
    <3> QED
      BY <3>1, <3>2
  <2> QED
    BY <1>1, <2>2, <2>3, <2>4, <2>5, <2>6 DEF Tiled
<1> QED
  BY <1>1, <1>6, <1>7, <1>8 DEF HeapOK, br, g

-----------------------------------------------------------------------------
(* malloc as a whole.                                                      *)

LEMMA AllocOK ==
    ASSUME NEW h, NEW ar, HeapOK(h, ar), NEW n \in Nat, CanAlloc(h, n),
           n <= WordMod - HeapLimit - 2 * Alignment
    PROVE  /\ HeapOK(Alloc(h, n), ar)
           /\ \E a : /\ Allocated(h, n) = Ptr(a)
                     /\ NewlyUsed(h.blocks, Alloc(h, n).blocks, a, n + HeaderSize)
<1> DEFINE t == Total(n)
           i == FirstFit(h, t)
<1>1. n # 0 /\ (Fits(h, t) # {} \/ SbrkGrants(h, Signed(t)))
  BY DEF CanAlloc
<1>2. /\ t \in Nat /\ t >= MinBlockSize /\ t >= n + HeaderSize
      /\ \A e \in 0 .. HeapLimit : e + Signed(t) \in 0 .. HeapLimit => Signed(t) = t
  BY <1>1, TotalFacts
<1>3. HeaderSize \in Nat
  BY MallocAssumption DEF HeaderSize
<1> HIDE DEF t
<1>4. ASSUME NEW B, NEW C, NEW a, BlocksType(C), NewlyUsed(B, C, a, t)
      PROVE  NewlyUsed(B, C, a, n + HeaderSize)
  <2>1. C[a].size \in Nat
    <3>1. a \in DOMAIN C
      BY <1>4 DEF NewlyUsed, UsedSet
    <3> QED
      BY <1>4, <3>1 DEF BlocksType, Header
  <2>2. C[a].size >= n + HeaderSize
    BY <1>2, <1>3, <1>4, <2>1 DEF NewlyUsed
  <2> QED
    BY <1>4, <2>2 DEF NewlyUsed
<1>5. CASE Fits(h, t) # {}
  <2>1. Alloc(h, n) = Taken(h, i, t) /\ Allocated(h, n) = Ptr(h.free_list[i])
    BY <1>5 DEF Alloc, Allocated, t
  <2>2. h.free_list \in Seq(DOMAIN h.blocks)
    BY DEF HeapOK, ListOK
  <2>3. i \in DOMAIN h.free_list /\ h.blocks[h.free_list[i]].size >= t
    BY <1>5, <2>2, FirstFitFacts
  <2> HIDE DEF i
  <2>4. /\ HeapOK(Taken(h, i, t), ar)
        /\ NewlyUsed(h.blocks, Taken(h, i, t).blocks, h.free_list[i], t)
    BY <1>2, <2>3, SplitOK, WholeOK
  <2>5. BlocksType(Taken(h, i, t).blocks)
    BY <2>4 DEF HeapOK
  <2> QED
    BY <1>4, <2>1, <2>4, <2>5
<1>6. CASE Fits(h, t) = {}
  <2>1. Alloc(h, n) = Grown(h, t) /\ Allocated(h, n) = Ptr(h.end)
    BY <1>6 DEF Alloc, Allocated, t
  <2>2. h.end \in 0 .. HeapLimit /\ h.end + Signed(t) \in 0 .. HeapLimit
    BY <1>1, <1>6 DEF HeapOK, SbrkGrants
  <2>3. Signed(t) = t /\ h.end + t \in 0 .. HeapLimit
    BY <1>2, <2>2
  <2>4. HeapOK(Grown(h, t), ar) /\ NewlyUsed(h.blocks, Grown(h, t).blocks, h.end, t)
    BY <1>2, <2>3, GrownOK
  <2>5. BlocksType(Grown(h, t).blocks)
    BY <2>4 DEF HeapOK
  <2> QED
    BY <1>4, <2>1, <2>4, <2>5
<1> QED
  BY <1>5, <1>6

-----------------------------------------------------------------------------
(* The program's pointers.                                                 *)

(* f without a value at x.                                                 *)
Dropped(f, x) == [q \in DOMAIN f \ {x} |-> f[q]]

LEMMA PtrInjective ==
    ASSUME NEW B, BlocksType(B)
    PROVE  \A a, b \in UsedSet(B) : Ptr(a) = Ptr(b) => a = b
<1>1. \A a \in UsedSet(B) : a \in Nat
  BY DEF UsedSet, BlocksType
<1>2. Alignment \in Nat
  BY MallocAssumption
<1> QED
  BY <1>1, <1>2 DEF Ptr, HeaderSize

(* malloc returns a pointer that the program does not have.                *)
LEMMA HeldAllocated ==
    ASSUME NEW B, NEW C, BlocksType(C), NEW lv, HeldOK(B, lv), NEW n \in Nat,
           NEW a, NewlyUsed(B, C, a, n + HeaderSize)
    PROVE  HeldOK(C, Put(lv, Ptr(a), n))
<1> DEFINE p == Ptr(a)
           mv == Put(lv, p, n)
           P == {Ptr(b) : b \in UsedSet(B)}
<1>1. /\ lv \in [P -> Nat]
      /\ \A b \in UsedSet(B) : lv[Ptr(b)] + HeaderSize <= B[b].size
  BY DEF HeldOK
<1>2. /\ a \notin UsedSet(B) /\ UsedSet(C) = UsedSet(B) \cup {a}
      /\ C[a].size >= n + HeaderSize /\ \A b \in UsedSet(B) : C[b] = B[b]
  BY DEF NewlyUsed
<1>3. C[a].size \in Nat /\ HeaderSize \in Nat
  BY <1>2, MallocAssumption DEF BlocksType, Header, UsedSet, HeaderSize
<1>4. mv \in [P \cup {p} -> Nat] /\ mv[p] = n /\ \A q \in P : q # p => mv[q] = lv[q]
  <2>1. \A q \in P \cup {p} : (IF q = p THEN n ELSE lv[q]) \in Nat
    BY <1>1
  <2> HIDE DEF p, P
  <2> QED
    BY <1>1, <2>1 DEF Put
<1> HIDE DEF mv
<1>5. P \cup {p} = {Ptr(b) : b \in UsedSet(C)}
  BY <1>2
<1>6. ASSUME NEW b \in UsedSet(C) PROVE mv[Ptr(b)] + HeaderSize <= C[b].size
  <2>1. CASE b = a
    BY <1>2, <1>3, <1>4, <2>1
  <2>2. CASE b # a
    <3>1. b \in UsedSet(B) /\ Ptr(b) \in P /\ Ptr(b) # p
      BY <1>2, <2>2, PtrInjective
    <3> QED
      BY <1>1, <1>2, <1>4, <3>1
  <2> QED
    BY <2>1, <2>2
<1> QED
  BY <1>4, <1>5, <1>6 DEF HeldOK, mv

(* free takes one away.                                                    *)
LEMMA HeldFreed ==
    ASSUME NEW B, BlocksType(B), NEW C, NEW lv, HeldOK(B, lv), NEW a \in UsedSet(B),
           UsedSet(C) = UsedSet(B) \ {a}, \A b \in UsedSet(C) : C[b] = B[b]
    PROVE  HeldOK(C, Dropped(lv, Ptr(a)))
<1> DEFINE mv == Dropped(lv, Ptr(a))
           P == {Ptr(b) : b \in UsedSet(B)}
           Q == {Ptr(b) : b \in UsedSet(C)}
<1>1. /\ lv \in [P -> Nat]
      /\ \A b \in UsedSet(B) : lv[Ptr(b)] + HeaderSize <= B[b].size
  BY DEF HeldOK
<1>2. DOMAIN lv = P /\ Q = P \ {Ptr(a)}
  BY <1>1, PtrInjective
<1> HIDE DEF P, Q
<1>3. mv \in [Q -> Nat] /\ \A q \in Q : mv[q] = lv[q]
  BY <1>1, <1>2 DEF Dropped
<1> HIDE DEF mv
<1>4. ASSUME NEW b \in UsedSet(C) PROVE mv[Ptr(b)] + HeaderSize <= C[b].size
  <2>1. Ptr(b) \in Q /\ b \in UsedSet(B) /\ C[b] = B[b]
    BY DEF Q
  <2> QED
    BY <1>1, <1>3, <2>1
<1> QED
  BY <1>3, <1>4 DEF HeldOK, mv, Q

LEMMA PutForget ==
    ASSUME NEW f, NEW p, NEW q, q # p, NEW n, NEW g, g = Put(f, q, n)
    PROVE  Dropped(g, p) = Put(Dropped(f, p), q, n)
<1>1. DOMAIN g = DOMAIN f \cup {q} /\ \A x \in DOMAIN f \cup {q} : g[x] = IF x = q THEN n ELSE f[x]
  BY DEF Put
<1>2. (DOMAIN f \cup {q}) \ {p} = (DOMAIN f \ {p}) \cup {q}
  OBVIOUS
<1> DEFINE e == Dropped(f, p)
           T == (DOMAIN f \ {p}) \cup {q}
<1>3. DOMAIN e \cup {q} = T /\ \A x \in DOMAIN f \ {p} : e[x] = f[x]
  BY DEF Dropped
<1>4. Put(e, q, n) = [x \in T |-> IF x = q THEN n ELSE e[x]]
  BY <1>3 DEF Put
<1> HIDE DEF e
<1>5. \A x \in T : g[x] = IF x = q THEN n ELSE e[x]
  BY <1>1, <1>3
<1>6. [x \in T |-> g[x]] = [x \in T |-> IF x = q THEN n ELSE e[x]]
  BY <1>5
<1> QED
  BY <1>1, <1>2, <1>4, <1>6 DEF e, Dropped

-----------------------------------------------------------------------------
(* Every step preserves the invariant.                                     *)

LEMMA InitOK == MallocInit => MallocInv
<1> SUFFICES ASSUME MallocInit PROVE MallocInv
  OBVIOUS
<1>1. /\ heap.blocks = << >> /\ heap.free_list = << >> /\ heap.end = 0
      /\ heap \in [blocks : {heap.blocks}, free_list : {heap.free_list}, end : {heap.end}]
      /\ live = << >> /\ areas = << >>
  BY DEF MallocInit
<1>2. DOMAIN << >> = {} /\ << >> \in [{} -> Nat] /\ << >> \in [{} -> Nat \ {0}]
      /\ << >> \in [{} -> Header] /\ << >> \in Seq({})
  OBVIOUS
<1>3. heap.end \in 0 .. HeapLimit
  BY <1>1, MallocAssumption
<1>4. BlocksType(heap.blocks) /\ AreasType(areas)
  BY <1>1, <1>2 DEF BlocksType, AreasType
<1>5. Tiled(heap.blocks, heap.end, areas)
  BY <1>1, <1>2 DEF Tiled
<1>6. ListOK(heap.blocks, heap.free_list)
  BY <1>1, <1>2 DEF ListOK, Distinct, Listed, FreeSet
<1>7. UsedSet(heap.blocks) = {}
  BY <1>1, <1>2 DEF UsedSet
<1>8. {Ptr(a) : a \in UsedSet(heap.blocks)} = {}
  BY <1>7
<1>9. HeldOK(heap.blocks, live)
  BY <1>1, <1>2, <1>7, <1>8 DEF HeldOK
<1> QED
  BY <1>1, <1>3, <1>4, <1>5, <1>6, <1>9 DEF MallocInv, HeapOK

(* malloc of m bytes, for malloc and calloc.                               *)
LEMMA AllocStep ==
    ASSUME MallocInv, NEW m \in Nat, m <= WordMod - HeapLimit - 2 * Alignment,
           CanAlloc(heap, m), heap' = Alloc(heap, m),
           live' = Put(live, Allocated(heap, m), m), areas' = areas
    PROVE  MallocInv'
<1>1. HeapOK(heap, areas) /\ HeldOK(heap.blocks, live)
  BY DEF MallocInv
<1>2. HeapOK(heap', areas')
  BY <1>1, AllocOK
<1>3. PICK a : /\ Allocated(heap, m) = Ptr(a)
               /\ NewlyUsed(heap.blocks, Alloc(heap, m).blocks, a, m + HeaderSize)
  BY <1>1, AllocOK
<1>4. BlocksType(Alloc(heap, m).blocks)
  BY <1>2 DEF HeapOK
<1>5. HeldOK(Alloc(heap, m).blocks, Put(live, Ptr(a), m))
  BY <1>1, <1>3, <1>4, HeldAllocated
<1>6. HeldOK(heap'.blocks, live')
  BY <1>3, <1>5
<1> QED
  BY <1>2, <1>6 DEF MallocInv

LEMMA HeldPointer ==
    ASSUME MallocInv, NEW p \in DOMAIN live
    PROVE  \E a \in UsedSet(heap.blocks) : p = Ptr(a) /\ Hdr(p) = a /\ a \in Nat
<1>1. PICK a \in UsedSet(heap.blocks) : p = Ptr(a)
  BY DEF MallocInv, HeldOK
<1>2. a \in Nat /\ Alignment \in Nat
  BY MallocAssumption DEF MallocInv, HeapOK, BlocksType, UsedSet
<1> QED
  BY <1>1, <1>2 DEF Ptr, Hdr, HeaderSize

LEMMA FreeStep ==
    ASSUME MallocInv, NEW p \in DOMAIN live, Free(p)
    PROVE  MallocInv'
<1>1. HeapOK(heap, areas) /\ HeldOK(heap.blocks, live) /\ BlocksType(heap.blocks)
  BY DEF MallocInv, HeapOK
<1>2. PICK a \in UsedSet(heap.blocks) : p = Ptr(a)
  BY HeldPointer
<1> DEFINE g == Freed(heap, Ptr(a))
<1>3. /\ HeapOK(g, areas) /\ UsedSet(g.blocks) = UsedSet(heap.blocks) \ {a}
      /\ \A b \in UsedSet(g.blocks) : g.blocks[b] = heap.blocks[b]
  BY <1>1, FreedOK
<1>4. heap' = g /\ areas' = areas /\ live' = Dropped(live, Ptr(a))
  BY <1>2 DEF Free, Forget, Dropped
<1> HIDE DEF g
<1>5. HeldOK(g.blocks, live')
  BY <1>1, <1>3, <1>4, HeldFreed
<1> QED
  BY <1>3, <1>4, <1>5 DEF MallocInv

LEMMA InPlaceStep ==
    ASSUME MallocInv, NEW p \in DOMAIN live, NEW n \in Sizes, ReallocInPlace(p, n)
    PROVE  MallocInv'
<1>1. PICK a \in UsedSet(heap.blocks) : p = Ptr(a) /\ Hdr(p) = a
  BY HeldPointer
<1>2. n \in Nat
  BY MallocAssumption
<1>3. HeapOK(heap, areas) /\ HeldOK(heap.blocks, live) /\ BlocksType(heap.blocks)
  BY DEF MallocInv, HeapOK
<1>4. heap' = heap /\ areas' = areas /\ live' = [live EXCEPT ![p] = n] /\ n <= OldPayload(p)
  BY DEF ReallocInPlace
<1>5. heap.blocks[a].size \in Nat /\ HeaderSize \in Nat
  BY <1>3, MallocAssumption DEF BlocksType, Header, UsedSet, HeaderSize
<1>6. n + HeaderSize <= heap.blocks[a].size
  BY <1>1, <1>2, <1>4, <1>5 DEF OldPayload
<1>7. live' \in [{Ptr(b) : b \in UsedSet(heap.blocks)} -> Nat]
  BY <1>2, <1>3, <1>4 DEF HeldOK
<1>8. ASSUME NEW b \in UsedSet(heap.blocks)
      PROVE  live'[Ptr(b)] + HeaderSize <= heap.blocks[b].size
  <2>1. CASE b = a
    BY <1>1, <1>4, <1>6, <2>1
  <2>2. CASE b # a
    <3>1. Ptr(b) # p /\ Ptr(b) \in DOMAIN live
      BY <1>1, <1>3, <2>2, PtrInjective DEF HeldOK
    <3>2. live'[Ptr(b)] = live[Ptr(b)]
      BY <1>4, <3>1
    <3> QED
      BY <1>3, <3>2 DEF HeldOK
  <2> QED
    BY <2>1, <2>2
<1>9. HeldOK(heap.blocks, live')
  BY <1>7, <1>8 DEF HeldOK
<1> QED
  BY <1>3, <1>4, <1>9 DEF MallocInv

(* The old block is in use while the new one is looked for, so that they   *)
(* are not the same.                                                       *)
LEMMA MoveStep ==
    ASSUME MallocInv, NEW p \in DOMAIN live, NEW n \in Nat, ReallocMove(p, n),
           n <= WordMod - HeapLimit - 2 * Alignment
    PROVE  MallocInv'
<1> DEFINE h == Alloc(heap, n)
           q == Allocated(heap, n)
           lv == Put(live, q, n)
<1>1. PICK a \in UsedSet(heap.blocks) : p = Ptr(a)
  BY HeldPointer
<1>2. HeapOK(heap, areas) /\ HeldOK(heap.blocks, live) /\ CanAlloc(heap, n)
  BY DEF MallocInv, ReallocMove
<1>3. HeapOK(h, areas)
  BY <1>2, AllocOK
<1>4. PICK b : q = Ptr(b) /\ NewlyUsed(heap.blocks, h.blocks, b, n + HeaderSize)
  BY <1>2, AllocOK
<1>5. heap' = Freed(h, p) /\ live' = Put(Dropped(live, p), q, n) /\ areas' = areas
  BY DEF ReallocMove, Forget, Dropped
<1> HIDE DEF h, q
<1>6. BlocksType(h.blocks)
  BY <1>3 DEF HeapOK
<1>7. HeldOK(h.blocks, lv)
  BY <1>2, <1>4, <1>6, HeldAllocated
<1>8. a \in UsedSet(h.blocks) /\ b \in UsedSet(h.blocks) /\ a # b
  BY <1>1, <1>4 DEF NewlyUsed
<1>9. q # p
  BY <1>1, <1>4, <1>6, <1>8, PtrInjective
<1> DEFINE g == Freed(h, Ptr(a))
<1>10. /\ HeapOK(g, areas) /\ UsedSet(g.blocks) = UsedSet(h.blocks) \ {a}
       /\ \A c \in UsedSet(g.blocks) : g.blocks[c] = h.blocks[c]
  BY <1>3, <1>8, FreedOK
<1>11. heap' = g
  BY <1>1, <1>5
<1> HIDE DEF g
<1>12. lv = Put(live, q, n)
  OBVIOUS
<1> HIDE DEF lv
<1>13. HeldOK(g.blocks, Dropped(lv, Ptr(a)))
  BY <1>6, <1>7, <1>8, <1>10, HeldFreed
<1>14. live' = Dropped(lv, p)
  BY <1>5, <1>9, <1>12, PutForget
<1>15. HeldOK(heap'.blocks, live')
  BY <1>1, <1>11, <1>13, <1>14
<1> QED
  BY <1>5, <1>10, <1>11, <1>15 DEF MallocInv

LEMMA SbrkStep ==
    ASSUME MallocInv, NEW n \in Steps, Sbrk(n)
    PROVE  MallocInv'
<1>1. n \in Nat \ {0}
  BY MallocAssumption
<1>2. /\ heap' = [heap EXCEPT !.end = @ + n] /\ areas' = Put(areas, heap.end, n)
      /\ live' = live /\ heap.end + n \in 0 .. HeapLimit
  BY DEF Sbrk, SbrkGrants
<1>3. HeapOK(heap, areas) /\ HeldOK(heap.blocks, live)
  BY DEF MallocInv
<1>4. HeapOK(heap', areas')
  BY <1>1, <1>2, <1>3, AreaOK
<1>5. heap'.blocks = heap.blocks
  BY <1>2, <1>3 DEF HeapOK
<1> QED
  BY <1>2, <1>3, <1>4, <1>5 DEF MallocInv

-----------------------------------------------------------------------------
(* The theorems.                                                           *)

(* No call of malloc, free, calloc, realloc or sbrk breaks the structure   *)
(* of the heap: headers, free list and the program's pointers, together.   *)
THEOREM MallocInvariant ==
    ASSUME NoHugeRequest
    PROVE  MallocSpec => []MallocInv
<1>1. MallocInit => MallocInv
  BY InitOK
<1>2. MallocInv /\ [MallocNext]_mallocVars => MallocInv'
  <2> SUFFICES ASSUME MallocInv, [MallocNext]_mallocVars PROVE MallocInv'
    OBVIOUS
  <2>1. ASSUME NEW n \in Sizes
        PROVE  n \in Nat /\ n <= WordMod - HeapLimit - 2 * Alignment
    <3>1. n \in Nat /\ n < WordMod
      BY MallocAssumption
    <3> QED
      BY <3>1 DEF NoHugeRequest
  <2>2. CASE \E n \in Sizes : Malloc(n)
    <3>1. PICK n \in Sizes : Malloc(n)
      BY <2>2
    <3> QED
      BY <2>1, <3>1, AllocStep DEF Malloc
  <2>3. CASE \E k \in Counts, n \in Sizes : Calloc(k, n)
    <3>1. PICK k \in Counts, n \in Sizes : Calloc(k, n)
      BY <2>3
    <3> DEFINE m == k * n
               w == m % WordMod
    <3>2. k \in Nat \ {0} /\ n \in Nat
      BY <2>1, MallocAssumption
    <3>3. m \in Nat /\ m < WordMod /\ w = m
      BY <3>1, <3>2, ProductFacts DEF Calloc
    <3>4. m \in Sizes \cup {i * j : i \in Counts, j \in Sizes}
      OBVIOUS
    <3>5. m <= WordMod - HeapLimit - 2 * Alignment
      BY <3>3, <3>4 DEF NoHugeRequest
    <3>6. /\ CanAlloc(heap, w) /\ heap' = Alloc(heap, w)
          /\ live' = Put(live, Allocated(heap, w), m) /\ areas' = areas
      BY <3>1 DEF Calloc
    <3> HIDE DEF m, w
    <3> QED
      BY <3>3, <3>5, <3>6, AllocStep
  <2>4. CASE \E p \in DOMAIN live :
                Free(p) \/ \E n \in Sizes : ReallocInPlace(p, n) \/ ReallocMove(p, n)
    BY <2>1, <2>4, FreeStep, InPlaceStep, MoveStep
  <2>5. CASE \E n \in Steps : Sbrk(n)
    BY <2>5, SbrkStep
  <2>6. CASE UNCHANGED mallocVars
    BY <2>6 DEF mallocVars, MallocInv
  <2> QED
    BY <2>2, <2>3, <2>4, <2>5, <2>6 DEF MallocNext
<1> QED
  BY <1>1, <1>2, PTL DEF MallocSpec

LEMMA OneMember ==
    ASSUME NEW S, S # {}, \A a, b \in S : a = b
    PROVE  Cardinality(S) = 1
<1>1. PICK a \in S : TRUE
  OBVIOUS
<1>2. S = {a}
  OBVIOUS
<1>3. Cardinality({a}) = 1
  BY FS_Singleton
<1> QED
  BY <1>2, <1>3, Zenon

(* Every byte of the heap belongs to one block or to one area that the     *)
(* program got from sbrk: malloc never hands out memory that is already in *)
(* use, and splitting a block loses nothing.                               *)
THEOREM HeapIsTiled ==
    ASSUME NoHugeRequest
    PROVE  MallocSpec => []BlocksTile
<1>1. MallocInv => BlocksTile
  <2> SUFFICES ASSUME MallocInv PROVE BlocksTile
    OBVIOUS
  <2> DEFINE B == heap.blocks
             E == heap.end
  <2>1. E \in Nat /\ BlocksType(B) /\ AreasType(areas) /\ Tiled(B, E, areas)
    BY MallocAssumption DEF MallocInv, HeapOK
  <2>2. ASSUME NEW x \in 0 .. E - 1
        PROVE  Cardinality({a \in DOMAIN B : Holds(x, a, B[a].size)})
                 + Cardinality({a \in DOMAIN areas : Holds(x, a, areas[a])}) = 1
    <3> DEFINE P == {a \in DOMAIN B : Holds(x, a, B[a].size)}
               Q == {a \in DOMAIN areas : Holds(x, a, areas[a])}
    <3>1. x \in Nat /\ \A a \in DOMAIN B : a \in Nat /\ B[a].size \in Nat
      BY <2>1 DEF BlocksType, Header
    <3>2. \A a \in DOMAIN areas : a \in Nat /\ areas[a] \in Nat
      BY <2>1 DEF AreasType
    <3>3. \A a, b \in P : a = b
      BY <2>1, <3>1 DEF Tiled, Apart, Holds
    <3>4. \A a, b \in Q : a = b
      BY <2>1, <3>1, <3>2 DEF Tiled, Apart, Holds
    <3>5. P = {} \/ Q = {}
      BY <2>1, <3>1, <3>2 DEF Tiled, Apart, Holds
    <3>6. P # {} \/ Q # {}
      BY <2>1 DEF Tiled
    <3> SUFFICES Cardinality(P) + Cardinality(Q) = 1
      OBVIOUS
    <3> HIDE DEF P, Q
    <3>7. CASE P # {}
      <4>1. Q = {} /\ Cardinality(Q) = 0
        BY <3>5, <3>7, FS_EmptySet
      <4>2. Cardinality(P) = 1
        BY <3>3, <3>7, OneMember
      <4> QED
        BY <4>1, <4>2
    <3>8. CASE Q # {}
      <4>1. P = {} /\ Cardinality(P) = 0
        BY <3>5, <3>8, FS_EmptySet
      <4>2. Cardinality(Q) = 1
        BY <3>4, <3>8, OneMember
      <4> QED
        BY <4>1, <4>2
    <3> QED
      BY <3>6, <3>7, <3>8
  <2>3. \A a \in DOMAIN B : a + B[a].size <= E
    BY <2>1 DEF Tiled
  <2> QED
    BY <2>2, <2>3 DEF BlocksTile
<1> QED
  BY <1>1, MallocInvariant, PTL

(* The free list is exactly the blocks that the program does not hold: no  *)
(* freed block is lost, none is listed twice or while it is in use.        *)
THEOREM FreeListIsExact ==
    ASSUME NoHugeRequest
    PROVE  MallocSpec => []FreeListExact
<1>1. MallocInv => FreeListExact
  <2> SUFFICES ASSUME MallocInv PROVE FreeListExact
    OBVIOUS
  <2> DEFINE B == heap.blocks
             F == heap.free_list
             n == Len(F)
             listed == {F[i] : i \in DOMAIN F}
  <2>1. BlocksType(B) /\ ListOK(B, F) /\ HeldOK(B, live)
    BY DEF MallocInv, HeapOK
  <2>2. n \in Nat /\ DOMAIN F = 1 .. n /\ listed = FreeSet(B) /\ Distinct(F)
    BY <2>1, SeqFacts DEF ListOK, Listed
  <2>3. Cardinality(listed) = n
    <3> DEFINE g == [i \in 1 .. n |-> F[i]]
    <3>1. g \in Bijection(1 .. n, listed)
      BY <2>2 DEF Bijection, Injection, Surjection, IsInjective, Distinct
    <3> HIDE DEF g, listed, n
    <3>2. ExistsBijection(1 .. n, listed)
      BY <3>1 DEF ExistsBijection
    <3>3. IsFiniteSet(1 .. n) /\ Cardinality(1 .. n) = n
      BY <2>2, FS_Interval
    <3> QED
      BY <3>2, <3>3, FS_Bijection
  <2>4. ASSUME NEW a \in DOMAIN B
        PROVE  /\ B[a].free <=> a \in listed
               /\ B[a].free <=> Ptr(a) \notin DOMAIN live
    <3>1. B[a].free \in BOOLEAN
      BY <2>1 DEF BlocksType, Header
    <3>2. B[a].free <=> a \in FreeSet(B)
      BY <3>1, Zenon DEF FreeSet
    <3>3. B[a].free <=> a \notin UsedSet(B)
      BY <3>1, Zenon DEF UsedSet
    <3>4. DOMAIN live = {Ptr(b) : b \in UsedSet(B)}
      BY <2>1 DEF HeldOK
    <3>5. \A b \in UsedSet(B) : Ptr(b) = Ptr(a) => b = a
      <4>1. Alignment \in Nat /\ a \in Nat /\ \A b \in UsedSet(B) : b \in Nat
        BY <2>1, MallocAssumption DEF BlocksType, UsedSet
      <4> QED
        BY <4>1 DEF Ptr, HeaderSize
    <3>6. Ptr(a) \in DOMAIN live <=> a \in UsedSet(B)
      BY <3>4, <3>5
    <3> HIDE DEF listed, B
    <3> QED
      BY <2>2, <3>2, <3>3, <3>6, Zenon
  <2> QED
    BY <2>3, <2>4, Zenon DEF FreeListExact
<1> QED
  BY <1>1, MallocInvariant, PTL

(* What the program holds is at least as large as what it asked for.       *)
THEOREM RequestsAreHonoured ==
    ASSUME NoHugeRequest
    PROVE  MallocSpec => []RequestHonoured
<1>1. MallocInv => RequestHonoured
  <2> SUFFICES ASSUME MallocInv, NEW p \in DOMAIN live
               PROVE  live[p] <= OldPayload(p)
    BY DEF RequestHonoured
  <2>1. PICK a \in UsedSet(heap.blocks) : p = Ptr(a) /\ Hdr(p) = a
    BY HeldPointer
  <2>2. live[p] \in Nat /\ live[p] + HeaderSize <= heap.blocks[a].size
    BY <2>1 DEF MallocInv, HeldOK
  <2>3. heap.blocks[a].size \in Nat /\ HeaderSize \in Nat
    BY MallocAssumption DEF MallocInv, HeapOK, BlocksType, Header, UsedSet, HeaderSize
  <2> QED
    BY <2>1, <2>2, <2>3 DEF OldPayload
<1> QED
  BY <1>1, MallocInvariant, PTL

=============================================================================
