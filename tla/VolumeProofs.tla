---------------------------- MODULE VolumeProofs ----------------------------
(***************************************************************************)
(* Proofs about the volume of the file server: chains, directories, paths, *)
(* and what each request does to them, for any volume and any paths of     *)
(* plain 8.3 names (PlainPaths).                                           *)
(***************************************************************************)
EXTENDS Files, TLAPS, FiniteSetTheorems, SequenceTheorems, WellFoundedInduction

-----------------------------------------------------------------------------
(* Numbers.                                                                *)

(* A set of naturals that is not empty has a least member: what stands for *)
(* induction in these proofs.                                              *)
LEMMA LeastIn ==
    ASSUME NEW D \in SUBSET Nat, D # {}
    PROVE  \E d \in D : \A e \in D : d <= e
<1>1. PICK d \in D : \A e \in D : ~(<<e, d>> \in OpToRel(<, Nat))
  BY NatLessThanWellFounded, WFMin
<1>2. ASSUME NEW e \in D, e < d
      PROVE  <<e, d>> \in OpToRel(<, Nat)
  <2>1. <<e, d>> \in Nat \X Nat /\ <<e, d>>[1] < <<e, d>>[2]
    BY <1>2
  <2> QED
    BY <2>1, Zenon DEF OpToRel
<1>3. \A e \in D : ~(e < d)
  BY <1>1, <1>2, Zenon
<1> QED
  BY <1>3

LEMMA MinFacts ==
    ASSUME NEW D \in SUBSET Nat, D # {}
    PROVE  Min(D) \in D /\ \A e \in D : Min(D) <= e
<1>1. \E d \in D : \A e \in D : d <= e
  BY LeastIn
<1> QED
  BY <1>1 DEF Min

LEMMA MinOfOne ==
    ASSUME NEW n \in Nat
    PROVE  Min({n}) = n
<1>1. {n} \in SUBSET Nat /\ {n} # {}
  OBVIOUS
<1> QED
  BY <1>1, MinFacts

(* A bounded set of naturals that is not empty has a greatest member.      *)
LEMMA MaxFacts ==
    ASSUME NEW n \in Nat, NEW D \in SUBSET (0 .. n), D # {}
    PROVE  Max(D) \in D /\ \A e \in D : e <= Max(D)
<1> DEFINE U == {n - d : d \in D}
<1>0. \A d \in D : d \in Nat /\ n - d \in Nat /\ n - d \in U
  OBVIOUS
<1>1. U \in SUBSET Nat /\ U # {}
  BY <1>0
<1>2. PICK u \in U : \A e \in U : u <= e
  BY <1>1, LeastIn
<1>3. PICK d \in D : u = n - d
  OBVIOUS
<1>4. \A e \in D : d >= e
  <2> HIDE DEF U
  <2> TAKE e \in D
  <2>1. n - d <= n - e
    BY <1>0, <1>2, <1>3
  <2> QED
    BY <1>0, <2>1
<1>5. \E x \in D : \A e \in D : x >= e
  BY <1>4
<1>6. Max(D) \in D /\ \A e \in D : Max(D) >= e
  BY <1>5 DEF Max
<1> QED
  BY <1>6

(* A property that holds of 1 and goes from each number to the next, as a  *)
(* set of numbers.                                                         *)
LEMMA CountUp ==
    ASSUME NEW n \in Nat, NEW D, 1 \in D,
           \A k \in 1 .. n - 1 : k \in D => k + 1 \in D
    PROVE  1 .. n \subseteq D
<1> SUFFICES ASSUME NEW bad \in 1 .. n, bad \notin D PROVE FALSE
  OBVIOUS
<1> DEFINE B == {k \in 1 .. n : k \notin D}
<1>1. B \in SUBSET Nat /\ B # {}
  OBVIOUS
<1>2. PICK b \in B : \A e \in B : b <= e
  BY <1>1, LeastIn
<1>3. b # 1
  OBVIOUS
<1>4. b - 1 \in 1 .. n - 1 /\ b - 1 \notin B
  BY <1>2, <1>3
<1>5. b - 1 \in D
  BY <1>4
<1>6. (b - 1) + 1 \in D
  BY <1>4, <1>5
<1> QED
  BY <1>6

LEMMA VolumeNumbers ==
    /\ TotalClusters \in Nat /\ TotalClusters >= 1
    /\ Slots \in Nat /\ Slots >= 1
    /\ Eoc = TotalClusters + 2
    /\ \A c : c \in Clusters <=> c \in Nat /\ 2 <= c /\ c < Eoc
    /\ 0 \notin Clusters
    /\ Root \in Clusters
BY VolumeAssumption DEF Eoc, Clusters, Root

-----------------------------------------------------------------------------
(* Chains.                                                                 *)

TypedFat(v) == v.fat \in [Clusters -> {Free} \cup (2 .. Eoc)]

(* What following the table from c gives.                                  *)
IsChain(v, c, s) ==
    /\ s \in Seq(Clusters)
    /\ Len(s) \in 1 .. TotalClusters
    /\ s[1] = c
    /\ \A k \in 1 .. Len(s) - 1 : Continues(v, s[k]) /\ s[k + 1] = v.fat[s[k]]
    /\ Len(s) < TotalClusters => ~Continues(v, s[Len(s)])

LEMMA ContinuesIn ==
    ASSUME NEW v, NEW c, Continues(v, c)
    PROVE  v.fat[c] \in Clusters
BY VolumeAssumption DEF Continues, Clusters, Eoc

NextOf(v) == [d \in Clusters \cup {0} |->
                 IF d # 0 /\ Continues(v, d) THEN v.fat[d] ELSE 0]

NthOf(v, c) ==
    CHOOSE f : f = [k \in 1 .. TotalClusters |->
                       IF k = 1 THEN c ELSE NextOf(v)[f[k - 1]]]

IsNth(v, c, f, n) ==
    f = [k \in 1 .. n |-> IF k = 1 THEN c ELSE NextOf(v)[f[k - 1]]]

LEMMA NthExists ==
    ASSUME NEW v, NEW c, NEW n \in Nat
    PROVE  \E f : IsNth(v, c, f, n)
<1> DEFINE B == {m \in Nat : ~\E f : IsNth(v, c, f, m)}
<1> SUFFICES ASSUME B # {} PROVE FALSE
  OBVIOUS
<1>1. PICK m \in B : \A e \in B : m <= e
  BY LeastIn
<1>2. m # 0
  <2> DEFINE f == [k \in 1 .. 0 |-> 0]
  <2>1. f = [k \in 1 .. 0 |-> IF k = 1 THEN c ELSE NextOf(v)[f[k - 1]]]
    OBVIOUS
  <2>2. IsNth(v, c, f, 0)
    BY <2>1 DEF IsNth
  <2> QED
    BY <2>2
<1>3. m - 1 \in Nat /\ m - 1 \notin B
  BY <1>1, <1>2
<1>4. PICK g : IsNth(v, c, g, m - 1)
  BY <1>3
<1>9. \A k \in 1 .. m - 1 : g[k] = IF k = 1 THEN c ELSE NextOf(v)[g[k - 1]]
  BY <1>4 DEF IsNth
<1> DEFINE last == IF m = 1 THEN c ELSE NextOf(v)[g[m - 1]]
<1> DEFINE f == [k \in 1 .. m |-> IF k = m THEN last ELSE g[k]]
<1>5. \A k \in 1 .. m : f[k] = IF k = 1 THEN c ELSE NextOf(v)[f[k - 1]]
  <2> TAKE k \in 1 .. m
  <2>1. CASE k = m
    BY <2>1
  <2>2. CASE k # m
    BY <1>9, <2>2
  <2> QED
    BY <2>1, <2>2
<1>6. f = [k \in 1 .. m |-> IF k = 1 THEN c ELSE NextOf(v)[f[k - 1]]]
  BY <1>5
<1>7. IsNth(v, c, f, m)
  BY <1>6 DEF IsNth
<1> QED
  BY <1>7

LEMMA NthIs ==
    ASSUME NEW v, NEW c
    PROVE  /\ NthOf(v, c) = [k \in 1 .. TotalClusters |->
                               IF k = 1 THEN c ELSE NextOf(v)[NthOf(v, c)[k - 1]]]
<1>1. \E f : f = [k \in 1 .. TotalClusters |->
                     IF k = 1 THEN c ELSE NextOf(v)[f[k - 1]]]
  <2>1. PICK f : IsNth(v, c, f, TotalClusters)
    BY NthExists, VolumeNumbers
  <2> QED
    BY <2>1 DEF IsNth
<1> QED
  BY <1>1 DEF NthOf

LEMMA ChainByNth ==
    ASSUME NEW v, NEW c
    PROVE  Chain(v, c) =
             [k \in 1 .. Max({k \in 0 .. TotalClusters :
                                 \A j \in 1 .. k : NthOf(v, c)[j] # 0})
                 |-> NthOf(v, c)[k]]
BY DEF Chain, NthOf, NextOf

LEMMA ChainIs ==
    ASSUME NEW v, TypedFat(v), NEW c \in Clusters
    PROVE  IsChain(v, c, Chain(v, c))
<1> DEFINE f == NthOf(v, c)
           D == {k \in 0 .. TotalClusters : \A j \in 1 .. k : f[j] # 0}
           n == Max(D)
           s == Chain(v, c)
<1>1. /\ f[1] = c
      /\ \A k \in 2 .. TotalClusters : f[k] = NextOf(v)[f[k - 1]]
  BY NthIs, VolumeNumbers
<1>2. \A k \in 1 .. TotalClusters : f[k] \in Clusters \cup {0}
  <2> DEFINE G == {k \in 1 .. TotalClusters : f[k] \in Clusters \cup {0}}
  <2>1. 1 \in G
    BY <1>1, VolumeNumbers
  <2>2. ASSUME NEW k \in 1 .. TotalClusters - 1, k \in G
        PROVE  k + 1 \in G
    <3>1. k + 1 \in 2 .. TotalClusters /\ f[k + 1] = NextOf(v)[f[k]]
      BY <1>1, VolumeNumbers
    <3>2. f[k] \in Clusters \cup {0}
      BY <2>2
    <3>3. NextOf(v)[f[k]] \in Clusters \cup {0}
      BY <3>2, ContinuesIn DEF NextOf
    <3> QED
      BY <3>1, <3>3, VolumeNumbers
  <2> HIDE DEF G
  <2>3. 1 .. TotalClusters \subseteq G
    BY <2>1, <2>2, CountUp, VolumeNumbers
  <2> QED
    BY <2>3 DEF G
<1>3. D \in SUBSET (0 .. TotalClusters) /\ 1 \in D
  BY <1>1, VolumeNumbers
<1>4. n \in D /\ \A e \in D : e <= n
  BY <1>3, MaxFacts, VolumeNumbers
<1>5. s = [k \in 1 .. n |-> f[k]]
  BY ChainByNth
<1> HIDE DEF f, s
<1>6. n \in 1 .. TotalClusters /\ \A j \in 1 .. n : f[j] # 0
  BY <1>3, <1>4
<1> HIDE DEF n
<1>7. s \in Seq(Clusters) /\ Len(s) = n /\ s[1] = c
  <2>1. n \in Nat /\ n >= 1 /\ \A k \in 1 .. n : f[k] \in Clusters
    BY <1>2, <1>6, VolumeNumbers
  <2>2. s \in [1 .. n -> Clusters] /\ s[1] = c
    BY <1>1, <1>5, <2>1
  <2> QED
    BY <2>1, <2>2, IsASeq, LenProperties
<1>8. ASSUME NEW k \in 1 .. n - 1
      PROVE  Continues(v, s[k]) /\ s[k + 1] = v.fat[s[k]]
  <2>1. f[k + 1] = NextOf(v)[f[k]] /\ f[k + 1] # 0 /\ f[k] \in Clusters
    BY <1>1, <1>2, <1>6, VolumeNumbers
  <2> QED
    BY <1>5, <1>6, <2>1 DEF NextOf
<1>9. ASSUME n < TotalClusters, Continues(v, s[n]) PROVE FALSE
  <2>1. f[n + 1] = NextOf(v)[f[n]] /\ f[n] \in Clusters /\ f[n] = s[n]
    BY <1>1, <1>2, <1>5, <1>6, <1>9, VolumeNumbers
  <2>2. f[n + 1] \in Clusters
    BY <1>9, <2>1, ContinuesIn, VolumeNumbers DEF NextOf
  <2>3. n + 1 \in D
    BY <1>6, <1>9, <2>2, VolumeNumbers
  <2> QED
    BY <1>4, <1>6, <2>3
<1> QED
  BY <1>6, <1>7, <1>8, <1>9 DEF IsChain, s

LEMMA ChainUnique ==
    ASSUME NEW v, NEW c, NEW s, NEW t, IsChain(v, c, s), IsChain(v, c, t)
    PROVE  s = t
<1>0. /\ s \in Seq(Clusters) /\ t \in Seq(Clusters)
      /\ Len(s) \in Nat /\ Len(t) \in Nat /\ Len(s) >= 1 /\ Len(t) >= 1
      /\ Len(s) <= TotalClusters /\ Len(t) <= TotalClusters
      /\ s[1] = c /\ t[1] = c
  BY VolumeNumbers DEF IsChain
<1>1. ASSUME NEW k \in 1 .. Len(s), k \in 1 .. Len(t)
      PROVE  s[k] = t[k]
  <2> DEFINE G == {j \in 1 .. k : s[j] = t[j]}
  <2>1. 1 \in G
    BY <1>0
  <2>2. ASSUME NEW j \in 1 .. k - 1, j \in G
        PROVE  j + 1 \in G
    <3>1. j \in 1 .. Len(s) - 1 /\ j \in 1 .. Len(t) - 1 /\ s[j] = t[j]
      BY <1>0, <1>1, <2>2
    <3>2. s[j + 1] = t[j + 1]
      BY <3>1 DEF IsChain
    <3> QED
      BY <3>2
  <2> HIDE DEF G
  <2>3. 1 .. k \subseteq G
    BY <2>1, <2>2, CountUp
  <2> QED
    BY <2>3 DEF G
<1>2. ~(Len(s) < Len(t))
  <2> SUFFICES ASSUME Len(s) < Len(t) PROVE FALSE
    OBVIOUS
  <2>1. Len(s) \in 1 .. Len(t) - 1 /\ Len(s) \in 1 .. Len(s) /\ Len(s) < TotalClusters
    BY <1>0, VolumeNumbers
  <2>2. s[Len(s)] = t[Len(s)]
    BY <1>1, <2>1
  <2>3. Continues(v, t[Len(s)]) /\ ~Continues(v, s[Len(s)])
    BY <2>1 DEF IsChain
  <2> QED
    BY <2>2, <2>3
<1>3. ~(Len(t) < Len(s))
  <2> SUFFICES ASSUME Len(t) < Len(s) PROVE FALSE
    OBVIOUS
  <2>1. Len(t) \in 1 .. Len(s) - 1 /\ Len(t) \in 1 .. Len(t) /\ Len(t) < TotalClusters
    BY <1>0, VolumeNumbers
  <2>2. s[Len(t)] = t[Len(t)]
    BY <1>0, <1>1, <2>1
  <2>3. Continues(v, s[Len(t)]) /\ ~Continues(v, t[Len(t)])
    BY <2>1 DEF IsChain
  <2> QED
    BY <2>2, <2>3
<1>4. Len(s) = Len(t)
  BY <1>0, <1>2, <1>3
<1> QED
  BY <1>0, <1>1, <1>4, SeqEqual

(* The part of the inductive invariant that is about chains: every cluster *)
(* can be labelled with the first cluster of the chain that it belongs to, *)
(* or with 0 when nothing leads to it.  A labelled cluster is allocated,   *)
(* as the first of its chain is, links to one of its own chain, not to the *)
(* first, and no two of a chain link to the same.                          *)
Labelled(v, own) ==
    /\ own \in [Clusters -> Clusters \cup {0}]
    /\ \A c \in Clusters : own[c] # 0 => v.fat[c] # Free /\ own[own[c]] = own[c]
    /\ \A c \in Clusters : own[c] # 0 /\ v.fat[c] \in Clusters =>
           own[v.fat[c]] = own[c] /\ v.fat[c] # own[c]
    /\ \A c, d \in Clusters :
           /\ own[c] # 0 /\ own[d] = own[c]
           /\ v.fat[c] \in Clusters /\ v.fat[d] = v.fat[c]
           => c = d

LEMMA ChainLabels ==
    ASSUME NEW v, NEW own, Labelled(v, own), NEW c \in Clusters, own[c] # 0,
           NEW s, IsChain(v, c, s), NEW k \in 1 .. Len(s)
    PROVE  s[k] \in Clusters /\ own[s[k]] = own[c]
<1>0. s \in Seq(Clusters) /\ Len(s) \in Nat /\ s[1] = c
  BY VolumeNumbers DEF IsChain
<1>1. \A j \in 1 .. Len(s) : s[j] \in Clusters
  BY <1>0, ElementOfSeq
<1> DEFINE G == {j \in 1 .. Len(s) : own[s[j]] = own[c]}
<1>2. 1 \in G
  BY <1>0
<1>3. ASSUME NEW j \in 1 .. Len(s) - 1, j \in G
      PROVE  j + 1 \in G
  <2>1. s[j] \in Clusters /\ own[s[j]] = own[c] /\ j + 1 \in 1 .. Len(s)
    BY <1>0, <1>1, <1>3
  <2>2. Continues(v, s[j]) /\ s[j + 1] = v.fat[s[j]]
    BY <1>3 DEF IsChain
  <2>3. v.fat[s[j]] \in Clusters
    BY <2>2, ContinuesIn
  <2>4. own[s[j + 1]] = own[s[j]]
    BY <2>1, <2>2, <2>3 DEF Labelled
  <2> QED
    BY <2>1, <2>4
<1> HIDE DEF G
<1>4. 1 .. Len(s) \subseteq G
  BY <1>0, <1>2, <1>3, CountUp
<1> QED
  BY <1>1, <1>4 DEF G

(* A cluster is in a chain once.                                           *)
LEMMA ChainOnce ==
    ASSUME NEW v, NEW own, Labelled(v, own), NEW h \in Clusters, own[h] = h,
           NEW s, IsChain(v, h, s),
           NEW j0 \in 1 .. Len(s), NEW k0 \in 1 .. Len(s), s[j0] = s[k0]
    PROVE  j0 = k0
<1>0. s \in Seq(Clusters) /\ Len(s) \in Nat /\ s[1] = h /\ h # 0
  BY VolumeNumbers DEF IsChain
<1>1. \A j \in 1 .. Len(s) : s[j] \in Clusters /\ own[s[j]] = h
  BY <1>0, ChainLabels
<1> DEFINE B == {j \in 1 .. Len(s) : \E k \in 1 .. Len(s) : j < k /\ s[j] = s[k]}
<1>2. ASSUME B # {} PROVE FALSE
  <2>0. B \in SUBSET Nat
    BY <1>0
  <2>1. PICK j \in B : \A e \in B : j <= e
    BY <1>2, <2>0, LeastIn
  <2>2. PICK k \in 1 .. Len(s) : j < k /\ s[j] = s[k]
    OBVIOUS
  <2>3. k - 1 \in 1 .. Len(s) - 1 /\ k - 1 \in 1 .. Len(s)
    BY <1>0, <2>2
  <2>4. Continues(v, s[k - 1]) /\ s[k] = v.fat[s[k - 1]]
    BY <2>3 DEF IsChain
  <2>5. v.fat[s[k - 1]] \in Clusters
    BY <2>4, ContinuesIn
  <2>6. s[k] # h
    BY <1>0, <1>1, <2>3, <2>4, <2>5 DEF Labelled
  <2>7. j # 1
    BY <1>0, <2>2, <2>6
  <2>8. j - 1 \in 1 .. Len(s) - 1 /\ j - 1 \in 1 .. Len(s)
    BY <1>0, <2>7
  <2>9. s[j] = v.fat[s[j - 1]]
    BY <2>8 DEF IsChain
  <2>10. s[j - 1] = s[k - 1]
    BY <1>0, <1>1, <2>2, <2>3, <2>4, <2>5, <2>8, <2>9, SMTT(30) DEF Labelled
  <2>11. j - 1 \in B
    BY <2>2, <2>3, <2>8, <2>10
  <2> QED
    BY <2>1, <2>11
<1> QED
  BY <1>2

(* No more clusters than there are.                                        *)
LEMMA InjectiveBound ==
    ASSUME NEW n \in Nat, NEW f \in [1 .. n -> Clusters],
           \A j, k \in 1 .. n : f[j] = f[k] => j = k
    PROVE  n <= TotalClusters
<1>1. IsFiniteSet(Clusters) /\ Cardinality(Clusters) = TotalClusters
  <2>1. IsFiniteSet(2 .. TotalClusters + 1)
        /\ Cardinality(2 .. TotalClusters + 1) =
             IF 2 > TotalClusters + 1 THEN 0 ELSE TotalClusters + 1 - 2 + 1
    BY FS_Interval, VolumeNumbers
  <2> QED
    BY <2>1, VolumeNumbers DEF Clusters
<1>2. IsFiniteSet(1 .. n) /\ Cardinality(1 .. n) = n
  <2>1. IsFiniteSet(1 .. n) /\ Cardinality(1 .. n) = IF 1 > n THEN 0 ELSE n - 1 + 1
    BY FS_Interval
  <2> QED
    BY <2>1
<1> SUFFICES ASSUME n > TotalClusters PROVE FALSE
  BY VolumeNumbers
<1>3. \E x, y \in 1 .. n : x # y /\ f[x] = f[y]
  BY <1>1, <1>2, FS_PigeonHole
<1> QED
  BY <1>3

LEMMA ChainEnds ==
    ASSUME NEW v, TypedFat(v), NEW own, Labelled(v, own),
           NEW h \in Clusters, own[h] = h, NEW s, IsChain(v, h, s)
    PROVE  v.fat[s[Len(s)]] = Eoc
<1>0. /\ s \in Seq(Clusters) /\ Len(s) \in 1 .. TotalClusters /\ s[1] = h /\ h # 0
      /\ Len(s) \in Nat /\ Len(s) \in 1 .. Len(s)
  BY VolumeNumbers DEF IsChain
<1>1. \A j \in 1 .. Len(s) : s[j] \in Clusters /\ own[s[j]] = h
  BY <1>0, ChainLabels
<1>2. \A j, k \in 1 .. Len(s) : s[j] = s[k] => j = k
  BY ChainOnce
<1> DEFINE x == v.fat[s[Len(s)]]
<1>3. x \in {Free} \cup (2 .. Eoc) /\ x # Free
  BY <1>0, <1>1 DEF TypedFat, Labelled
<1> SUFFICES ASSUME x \in Clusters PROVE FALSE
  BY <1>3, VolumeNumbers
<1> HIDE DEF x
<1>4. Continues(v, s[Len(s)])
  BY VolumeNumbers DEF Continues, x
<1>5. Len(s) = TotalClusters
  BY <1>0, <1>4, VolumeNumbers DEF IsChain
<1>6. \A i \in 1 .. Len(s) : s[i] # x
  <2> SUFFICES ASSUME NEW i \in 1 .. Len(s), s[i] = x PROVE FALSE
    OBVIOUS
  <2>1. x # h
    BY <1>0, <1>1 DEF Labelled, x
  <2>2. i - 1 \in 1 .. Len(s) - 1 /\ i - 1 \in 1 .. Len(s)
    BY <1>0, <2>1
  <2>3. s[i] = v.fat[s[i - 1]]
    BY <2>2 DEF IsChain
  <2> DEFINE c == s[i - 1]
             d == s[Len(s)]
  <2>4. /\ c \in Clusters /\ d \in Clusters /\ own[c] # 0 /\ own[d] = own[c]
        /\ v.fat[c] = x /\ v.fat[d] = x
    BY <1>0, <1>1, <2>2, <2>3 DEF x
  <2> HIDE DEF c, d
  <2>5. c = d
    BY <2>4 DEF Labelled
  <2> QED
    BY <1>0, <1>2, <2>2, <2>5 DEF c, d
<1> DEFINE n == Len(s) + 1
           f == [i \in 1 .. n |-> IF i = n THEN x ELSE s[i]]
<1>7. f \in [1 .. n -> Clusters]
  BY <1>0, <1>1
<1>8. \A j, k \in 1 .. n : f[j] = f[k] => j = k
  BY <1>0, <1>1, <1>2, <1>6
<1>9. n \in Nat /\ ~(n <= TotalClusters)
  BY <1>0, <1>5, VolumeNumbers
<1> HIDE DEF n, f
<1> QED
  BY <1>7, <1>8, <1>9, InjectiveBound

-----------------------------------------------------------------------------
(* Volumes.                                                                *)

Entries == [kind : {"entry"}, short : (Names \cup {".", ".."}) \X {0},
            dir : BOOLEAN, cluster : Clusters \cup {0}, size : 0 .. MaxOffset]

PlainUnits == {Zero, Deleted} \cup {Data(b) : b \in Bytes} \cup Entries

Volumes == [fat : [Clusters -> {Free} \cup (2 .. Eoc)],
            data : [Clusters -> [1 .. Slots -> PlainUnits]]]

LEMMA VolumesTyped ==
    ASSUME NEW v \in Volumes
    PROVE  /\ TypedFat(v)
           /\ v.fat \in [Clusters -> {Free} \cup (2 .. Eoc)]
           /\ v.data \in [Clusters -> [1 .. Slots -> PlainUnits]]
           /\ v = [fat |-> v.fat, data |-> v.data]
BY DEF Volumes, TypedFat

LEMMA ZeroSectorFacts ==
    /\ ZeroSector \in [1 .. Slots -> PlainUnits]
    /\ \A i \in 1 .. Slots : ZeroSector[i] = Zero
BY DEF ZeroSector, PlainUnits

LEMMA FormattedFacts ==
    /\ Formatted \in Volumes
    /\ \A c \in Clusters : /\ Formatted.fat[c] = IF c = Root THEN Eoc ELSE Free
                           /\ Formatted.data[c] = ZeroSector
<1>1. [c \in Clusters |-> IF c = Root THEN Eoc ELSE Free]
        \in [Clusters -> {Free} \cup (2 .. Eoc)]
  BY VolumeNumbers DEF Free
<1>2. [c \in Clusters |-> ZeroSector] \in [Clusters -> [1 .. Slots -> PlainUnits]]
  BY ZeroSectorFacts
<1> QED
  BY <1>1, <1>2 DEF Formatted, Volumes

LEMMA NewClusterFacts ==
    ASSUME NEW v, CanAlloc(v)
    PROVE  NewCluster(v) \in Clusters /\ v.fat[NewCluster(v)] = Free
<1>1. Findable(v) \in SUBSET Nat /\ Findable(v) # {}
  BY DEF CanAlloc, Findable
<1>2. NewCluster(v) \in Findable(v)
  BY <1>1, MinFacts DEF NewCluster
<1> QED
  BY <1>2, VolumeNumbers DEF Findable

LEMMA AllocFacts ==
    ASSUME NEW v \in Volumes, CanAlloc(v)
    PROVE  /\ AllocCluster(v) \in Volumes
           /\ \A c \in Clusters :
                /\ AllocCluster(v).fat[c] =
                     IF c = NewCluster(v) THEN Eoc ELSE v.fat[c]
                /\ AllocCluster(v).data[c] =
                     IF c = NewCluster(v) THEN ZeroSector ELSE v.data[c]
<1> DEFINE n == NewCluster(v)
<1>1. n \in Clusters
  BY NewClusterFacts
<1> HIDE DEF n
<1>2. AllocCluster(v) = [fat |-> [v.fat EXCEPT ![n] = Eoc],
                         data |-> [v.data EXCEPT ![n] = ZeroSector]]
  BY DEF AllocCluster, n
<1>3. [v.fat EXCEPT ![n] = Eoc] \in [Clusters -> {Free} \cup (2 .. Eoc)]
  BY <1>1, VolumesTyped, VolumeNumbers
<1>4. [v.data EXCEPT ![n] = ZeroSector] \in [Clusters -> [1 .. Slots -> PlainUnits]]
  BY <1>1, VolumesTyped, ZeroSectorFacts
<1>5. AllocCluster(v) \in Volumes
  BY <1>2, <1>3, <1>4 DEF Volumes
<1> QED
  BY <1>1, <1>2, <1>5, VolumesTyped DEF n

LEMMA GrowFacts ==
    ASSUME NEW v \in Volumes, CanAlloc(v), NEW last \in Clusters
    PROVE  /\ Grow(v, last) \in Volumes
           /\ \A c \in Clusters :
                /\ Grow(v, last).fat[c] =
                     IF c = last THEN NewCluster(v)
                     ELSE IF c = NewCluster(v) THEN Eoc ELSE v.fat[c]
                /\ Grow(v, last).data[c] =
                     IF c = NewCluster(v) THEN ZeroSector ELSE v.data[c]
<1> DEFINE n == NewCluster(v)
           a == AllocCluster(v)
<1>1. n \in Clusters
  BY NewClusterFacts
<1>2. /\ a \in Volumes
      /\ \A c \in Clusters : /\ a.fat[c] = IF c = n THEN Eoc ELSE v.fat[c]
                             /\ a.data[c] = IF c = n THEN ZeroSector ELSE v.data[c]
  BY AllocFacts
<1>3. Grow(v, last) = [a EXCEPT !.fat[last] = n]
  BY DEF Grow
<1> HIDE DEF n, a
<1>4. [a.fat EXCEPT ![last] = n] \in [Clusters -> {Free} \cup (2 .. Eoc)]
  BY <1>1, <1>2, VolumesTyped, VolumeNumbers
<1>5. Grow(v, last) = [fat |-> [a.fat EXCEPT ![last] = n], data |-> a.data]
  BY <1>2, <1>3, VolumesTyped
<1>6. Grow(v, last) \in Volumes
  BY <1>2, <1>4, <1>5, VolumesTyped DEF Volumes
<1> QED
  BY <1>1, <1>2, <1>5, <1>6, VolumesTyped DEF n

LEMMA FreeChainFacts ==
    ASSUME NEW v \in Volumes, NEW h \in Clusters
    PROVE  /\ FreeChain(v, h) \in Volumes
           /\ \A c \in Clusters :
                /\ FreeChain(v, h).fat[c] =
                     IF c \in Range(Chain(v, h)) THEN Free ELSE v.fat[c]
                /\ FreeChain(v, h).data[c] = v.data[c]
<1> DEFINE R == Range(Chain(v, h))
           f == [d \in Clusters |-> IF d \in R THEN Free ELSE v.fat[d]]
<1>1. ~(h < 2)
  BY VolumeNumbers
<1>2. FreeChain(v, h) = [v EXCEPT !.fat = f]
  BY <1>1 DEF FreeChain
<1> HIDE DEF R
<1>3. f \in [Clusters -> {Free} \cup (2 .. Eoc)]
  BY VolumesTyped
<1> HIDE DEF f
<1>4. FreeChain(v, h) = [fat |-> f, data |-> v.data]
  BY <1>2, VolumesTyped
<1>5. FreeChain(v, h) \in Volumes
  BY <1>3, <1>4, VolumesTyped DEF Volumes
<1> QED
  BY <1>4, <1>5 DEF f, R

LEMMA EmptiedFacts ==
    ASSUME NEW v \in Volumes, NEW h \in Clusters
    PROVE  /\ Emptied(v, h) \in Volumes
           /\ \A c \in Clusters :
                /\ Emptied(v, h).fat[c] = IF c = h THEN Eoc ELSE v.fat[c]
                /\ Emptied(v, h).data[c] = IF c = h THEN ZeroSector ELSE v.data[c]
<1>1. Emptied(v, h) = [fat |-> [v.fat EXCEPT ![h] = Eoc],
                       data |-> [v.data EXCEPT ![h] = ZeroSector]]
  <2> DEFINE u == [v EXCEPT !.fat[h] = Eoc]
  <2>1. u = [fat |-> [v.fat EXCEPT ![h] = Eoc], data |-> v.data]
    BY VolumesTyped
  <2>2. Emptied(v, h) = [u EXCEPT !.data[h] = ZeroSector]
    BY Zenon DEF Emptied
  <2> HIDE DEF u
  <2> QED
    BY <2>1, <2>2
<1>2. [v.fat EXCEPT ![h] = Eoc] \in [Clusters -> {Free} \cup (2 .. Eoc)]
  BY VolumesTyped, VolumeNumbers
<1>3. [v.data EXCEPT ![h] = ZeroSector] \in [Clusters -> [1 .. Slots -> PlainUnits]]
  BY VolumesTyped, ZeroSectorFacts
<1>4. Emptied(v, h) \in Volumes
  BY <1>1, <1>2, <1>3 DEF Volumes
<1> QED
  BY <1>1, <1>4, VolumesTyped

-----------------------------------------------------------------------------
(* What the routines do to the labels.                                     *)

(* A new chain of one cluster.                                             *)
LEMMA LabelNew ==
    ASSUME NEW v, NEW own, Labelled(v, own), NEW n \in Clusters, v.fat[n] = Free,
           NEW v2, v2.fat[n] = Eoc,
           \A c \in Clusters : c # n => v2.fat[c] = v.fat[c],
           NEW own2 \in [Clusters -> Clusters \cup {0}], own2[n] = n,
           \A c \in Clusters : c # n => own2[c] = own[c]
    PROVE  Labelled(v2, own2)
<1>1. own[n] = 0
  BY DEF Labelled
<1>2. \A c \in Clusters : own[c] # n
  BY <1>1, VolumeNumbers DEF Labelled
<1>3. \A c \in Clusters : own[c] # 0 => v.fat[c] # n
  BY <1>1 DEF Labelled
<1>4. \A c \in Clusters : own2[c] # 0 => v2.fat[c] # Free /\ own2[own2[c]] = own2[c]
  BY <1>2, VolumeNumbers DEF Labelled, Free
<1>5. ASSUME NEW c \in Clusters, own2[c] # 0, v2.fat[c] \in Clusters
      PROVE  /\ c # n /\ own2[c] = own[c] /\ v2.fat[c] = v.fat[c] /\ v.fat[c] # n
             /\ own2[v2.fat[c]] = own2[c] /\ v2.fat[c] # own2[c]
  BY <1>3, <1>5, VolumeNumbers DEF Labelled
<1>6. ASSUME NEW c \in Clusters, NEW d \in Clusters, own2[c] # 0, own2[d] = own2[c],
             v2.fat[c] \in Clusters, v2.fat[d] = v2.fat[c]
      PROVE  c = d
  BY <1>5, <1>6 DEF Labelled
<1> QED
  BY <1>4, <1>5, <1>6 DEF Labelled

(* A chain with one cluster more, n, after the cluster last.               *)
LEMMA LabelGrow ==
    ASSUME NEW v, NEW own, Labelled(v, own), NEW n \in Clusters, v.fat[n] = Free,
           NEW h \in Clusters, own[h] = h, NEW last \in Clusters, own[last] = h,
           NEW v2, v2.fat[last] = n, v2.fat[n] = Eoc,
           \A c \in Clusters : c # n /\ c # last => v2.fat[c] = v.fat[c],
           NEW own2 \in [Clusters -> Clusters \cup {0}], own2[n] = h,
           \A c \in Clusters : c # n => own2[c] = own[c]
    PROVE  Labelled(v2, own2)
<1>1. own[n] = 0 /\ n # h /\ n # last /\ h # 0
  BY VolumeNumbers DEF Labelled
<1>2. \A c \in Clusters : own[c] # n
  BY <1>1, VolumeNumbers DEF Labelled
<1>3. \A c \in Clusters : own[c] # 0 => v.fat[c] # n
  BY <1>1 DEF Labelled
<1>4. ASSUME NEW c \in Clusters, own2[c] # 0
      PROVE  v2.fat[c] # Free /\ own2[own2[c]] = own2[c]
  BY <1>1, <1>2, <1>4, VolumeNumbers DEF Labelled, Free
<1>5. ASSUME NEW c \in Clusters, own2[c] # 0, v2.fat[c] \in Clusters
      PROVE  /\ c # n /\ own2[c] = own[c]
             /\ IF c = last THEN v2.fat[c] = n ELSE v2.fat[c] = v.fat[c] /\ v.fat[c] # n
             /\ own2[v2.fat[c]] = own2[c] /\ v2.fat[c] # own2[c]
  BY <1>1, <1>3, <1>5, VolumeNumbers DEF Labelled
<1>6. ASSUME NEW c \in Clusters, NEW d \in Clusters, own2[c] # 0, own2[d] = own2[c],
             v2.fat[c] \in Clusters, v2.fat[d] = v2.fat[c]
      PROVE  c = d
  BY <1>5, <1>6 DEF Labelled
<1> QED
  BY <1>4, <1>5, <1>6 DEF Labelled

(* A chain that nothing leads to any more.                                 *)
LEMMA LabelDrop ==
    ASSUME NEW v, NEW own, Labelled(v, own), NEW h \in Clusters,
           NEW v2,
           \A c \in Clusters : own[c] # 0 /\ own[c] # h => v2.fat[c] = v.fat[c],
           NEW own2 \in [Clusters -> Clusters \cup {0}],
           \A c \in Clusters : own2[c] = IF own[c] = h THEN 0 ELSE own[c]
    PROVE  Labelled(v2, own2)
<1>1. \A c \in Clusters : own2[c] # 0 => /\ own[c] # 0 /\ own[c] # h
                                         /\ own2[c] = own[c] /\ v2.fat[c] = v.fat[c]
  OBVIOUS
<1>2. \A c \in Clusters : own2[c] # 0 => v2.fat[c] # Free /\ own2[own2[c]] = own2[c]
  BY <1>1 DEF Labelled
<1>3. \A c \in Clusters : own2[c] # 0 /\ v2.fat[c] \in Clusters =>
           own2[v2.fat[c]] = own2[c] /\ v2.fat[c] # own2[c]
  BY <1>1 DEF Labelled
<1>4. ASSUME NEW c \in Clusters, NEW d \in Clusters, own2[c] # 0, own2[d] = own2[c],
             v2.fat[c] \in Clusters, v2.fat[d] = v2.fat[c]
      PROVE  c = d
  BY <1>1, <1>4 DEF Labelled
<1> QED
  BY <1>2, <1>3, <1>4 DEF Labelled

(* A chain of which only the cluster x is left.                            *)
LEMMA LabelOnly ==
    ASSUME NEW v, NEW own, Labelled(v, own), NEW h \in Clusters,
           NEW x \in Clusters, own[x] = h, NEW v2, v2.fat[x] = Eoc,
           \A c \in Clusters : own[c] # 0 /\ own[c] # h => v2.fat[c] = v.fat[c],
           NEW own2 \in [Clusters -> Clusters \cup {0}],
           \A c \in Clusters : own2[c] = IF own[c] # h THEN own[c]
                                         ELSE IF c = x THEN x ELSE 0
    PROVE  Labelled(v2, own2)
<1>0. h # 0 /\ x # 0 /\ \A c \in Clusters : own[c] = x => h = x
  BY VolumeNumbers DEF Labelled
<1>1. \A c \in Clusters : own2[c] # 0 /\ c # x =>
          /\ own[c] # 0 /\ own[c] # h
          /\ own2[c] = own[c] /\ v2.fat[c] = v.fat[c] /\ own2[c] # x
  BY <1>0
<1>2. ASSUME NEW c \in Clusters, own2[c] # 0
      PROVE  v2.fat[c] # Free /\ own2[own2[c]] = own2[c]
  <2>1. CASE c = x
    BY <2>1, VolumeNumbers DEF Free
  <2>2. CASE c # x
    BY <1>1, <1>2, <2>2 DEF Labelled
  <2> QED
    BY <2>1, <2>2
<1>3. ASSUME NEW c \in Clusters, own2[c] # 0, v2.fat[c] \in Clusters
      PROVE  c # x /\ own2[v2.fat[c]] = own2[c] /\ v2.fat[c] # own2[c]
  <2>1. c # x
    BY <1>3, VolumeNumbers
  <2> QED
    BY <1>1, <1>3, <2>1 DEF Labelled
<1>4. ASSUME NEW c \in Clusters, NEW d \in Clusters, own2[c] # 0, own2[d] = own2[c],
             v2.fat[c] \in Clusters, v2.fat[d] = v2.fat[c]
      PROVE  c = d
  BY <1>1, <1>3, <1>4 DEF Labelled
<1> QED
  BY <1>2, <1>3, <1>4 DEF Labelled

(* The chain of h depends on its own clusters only.                        *)
LEMMA ChainFrame ==
    ASSUME NEW v \in Volumes, NEW v2 \in Volumes, NEW own, Labelled(v, own),
           NEW h \in Clusters, own[h] = h,
           \A c \in Clusters : own[c] = h => v2.fat[c] = v.fat[c]
    PROVE  Chain(v2, h) = Chain(v, h)
<1> DEFINE s == Chain(v, h)
<1>1. IsChain(v, h, s)
  BY ChainIs, VolumesTyped
<1>2. IsChain(v2, h, Chain(v2, h))
  BY ChainIs, VolumesTyped
<1> HIDE DEF s
<1>3. \A k \in 1 .. Len(s) : s[k] \in Clusters /\ own[s[k]] = h
  BY <1>1, ChainLabels, VolumeNumbers
<1>4. \A k \in 1 .. Len(s) : v2.fat[s[k]] = v.fat[s[k]]
  BY <1>3
<1>5. Len(s) \in Nat /\ Len(s) \in 1 .. Len(s)
  BY <1>1, VolumeNumbers DEF IsChain
<1>6. IsChain(v2, h, s)
  BY <1>1, <1>4, <1>5, SMTT(30) DEF IsChain, Continues
<1> QED
  BY <1>2, <1>6, ChainUnique DEF s

LEMMA ChainFacts ==
    ASSUME NEW v \in Volumes, NEW own, Labelled(v, own), NEW h \in Clusters, own[h] = h
    PROVE  /\ Chain(v, h) \in Seq(Clusters)
           /\ Len(Chain(v, h)) \in Nat /\ Len(Chain(v, h)) >= 1
           /\ DOMAIN Chain(v, h) = 1 .. Len(Chain(v, h))
           /\ \A k \in 1 .. Len(Chain(v, h)) :
                 Chain(v, h)[k] \in Clusters /\ own[Chain(v, h)[k]] = h
           /\ \A j, k \in 1 .. Len(Chain(v, h)) :
                 Chain(v, h)[j] = Chain(v, h)[k] => j = k
           /\ v.fat[Last(Chain(v, h))] = Eoc
<1> DEFINE s == Chain(v, h)
<1>1. IsChain(v, h, s)
  BY ChainIs, VolumesTyped
<1> HIDE DEF s
<1>2. /\ s \in Seq(Clusters) /\ Len(s) \in Nat /\ Len(s) >= 1
      /\ DOMAIN s = 1 .. Len(s)
  BY <1>1, VolumeNumbers DEF IsChain
<1>3. \A k \in 1 .. Len(s) : s[k] \in Clusters /\ own[s[k]] = h
  BY <1>1, ChainLabels, VolumeNumbers
<1>4. \A j, k \in 1 .. Len(s) : s[j] = s[k] => j = k
  BY <1>1, ChainOnce
<1>5. v.fat[Last(s)] = Eoc
  BY <1>1, ChainEnds, VolumesTyped DEF Last
<1> QED
  BY <1>2, <1>3, <1>4, <1>5 DEF s

LEMMA ChainGrown ==
    ASSUME NEW v \in Volumes, NEW own, Labelled(v, own),
           NEW h \in Clusters, own[h] = h, CanAlloc(v)
    PROVE  Chain(Grow(v, Last(Chain(v, h))), h) =
               Append(Chain(v, h), NewCluster(v))
<1> DEFINE s == Chain(v, h)
           n == NewCluster(v)
           last == Last(s)
           v2 == Grow(v, last)
           t == Append(s, n)
<1>0. IsChain(v, h, s)
  BY ChainIs, VolumesTyped
<1>1. /\ s \in Seq(Clusters) /\ Len(s) \in Nat /\ Len(s) >= 1
      /\ \A k \in 1 .. Len(s) : s[k] \in Clusters /\ own[s[k]] = h
      /\ \A j, k \in 1 .. Len(s) : s[j] = s[k] => j = k
  BY ChainFacts
<1>2. n \in Clusters /\ v.fat[n] = Free
  BY NewClusterFacts
<1> HIDE DEF s, n
<1>3. own[n] = 0 /\ h # 0
  BY <1>2, VolumeNumbers DEF Labelled
<1>4. last \in Clusters /\ last = s[Len(s)]
  BY <1>1 DEF Last
<1>5. \A k \in 1 .. Len(s) : s[k] # n
  BY <1>1, <1>3
<1>6. /\ v2 \in Volumes
      /\ \A c \in Clusters : v2.fat[c] = IF c = last THEN n
                                         ELSE IF c = n THEN Eoc ELSE v.fat[c]
  BY <1>4, GrowFacts DEF n
<1> HIDE DEF v2
<1>7. /\ t \in Seq(Clusters) /\ Len(t) = Len(s) + 1 /\ t[Len(s) + 1] = n
      /\ \A k \in 1 .. Len(s) : t[k] = s[k]
  BY <1>1, <1>2, AppendProperties
<1> HIDE DEF t
<1>8. \A j, k \in 1 .. Len(s) + 1 : t[j] = t[k] => j = k
  BY <1>1, <1>5, <1>7
<1>9. Len(s) + 1 <= TotalClusters
  <2>1. t \in [1 .. Len(s) + 1 -> Clusters]
    BY <1>7, LenProperties
  <2> QED
    BY <1>1, <1>8, <2>1, InjectiveBound
<1>10. ASSUME NEW k \in 1 .. Len(t) - 1
       PROVE  Continues(v2, t[k]) /\ t[k + 1] = v2.fat[t[k]]
  <2>1. CASE k = Len(s)
    <3>1. t[k] = last /\ v2.fat[t[k]] = n /\ t[k + 1] = n
      BY <1>1, <1>4, <1>6, <1>7, <2>1
    <3> QED
      BY <1>2, <3>1, VolumeNumbers DEF Continues
  <2>2. CASE k # Len(s)
    <3>1. k \in 1 .. Len(s) - 1 /\ k + 1 \in 1 .. Len(s) /\ k \in 1 .. Len(s)
      BY <1>1, <1>7, <2>2
    <3>2. t[k] = s[k] /\ t[k + 1] = s[k + 1] /\ s[k] # last /\ s[k] # n /\ s[k] \in Clusters
      BY <1>1, <1>4, <1>5, <1>7, <3>1
    <3>3. v2.fat[t[k]] = v.fat[s[k]]
      BY <1>6, <3>2
    <3> QED
      BY <1>0, <3>1, <3>2, <3>3 DEF IsChain, Continues
  <2> QED
    BY <2>1, <2>2
<1>11. ~Continues(v2, t[Len(t)])
  <2>1. v2.fat[t[Len(t)]] = Eoc
    BY <1>2, <1>4, <1>5, <1>6, <1>7, <1>1
  <2> QED
    BY <2>1, VolumeNumbers DEF Continues
<1>12. t[1] = h
  BY <1>0, <1>1, <1>7 DEF IsChain
<1>13. IsChain(v2, h, t)
  BY <1>1, <1>7, <1>9, <1>10, <1>11, <1>12, VolumeNumbers DEF IsChain
<1>14. IsChain(v2, h, Chain(v2, h))
  BY <1>6, ChainIs, VolumesTyped
<1>15. Chain(v2, h) = t
  BY <1>13, <1>14, ChainUnique
<1> QED
  BY <1>15 DEF v2, t, last, s, n

-----------------------------------------------------------------------------
(* The units along a chain.                                                *)

LEMMA Positions ==
    ASSUME NEW L \in Nat, NEW i \in 1 .. L * Slots
    PROVE  /\ i \in Nat
           /\ SectorOf(i) \in 1 .. L /\ SlotOf(i) \in 1 .. Slots
           /\ i = (SectorOf(i) - 1) * Slots + SlotOf(i)
BY VolumeAssumption DEF SectorOf, SlotOf

LEMMA PositionOf ==
    ASSUME NEW L \in Nat, NEW k \in 1 .. L, NEW u \in 1 .. Slots
    PROVE  /\ (k - 1) * Slots + u \in 1 .. L * Slots
           /\ SectorOf((k - 1) * Slots + u) = k
           /\ SlotOf((k - 1) * Slots + u) = u
<1> DEFINE i == (k - 1) * Slots + u
<1>1. (k - 1) * Slots \in Nat /\ (k - 1) * Slots <= (L - 1) * Slots
  BY VolumeAssumption
<1>2. (L - 1) * Slots + Slots = L * Slots /\ L * Slots \in Nat
  BY VolumeAssumption
<1>3. i \in 1 .. L * Slots
  BY <1>1, <1>2, VolumeAssumption
<1>4. i - 1 = (k - 1) * Slots + (u - 1) /\ u - 1 \in 0 .. Slots - 1
  BY <1>1, VolumeAssumption
<1>5. (i - 1) \div Slots = k - 1 /\ (i - 1) % Slots = u - 1
  BY <1>1, <1>4, VolumeAssumption
<1> QED
  BY <1>3, <1>5, VolumeAssumption DEF SectorOf, SlotOf

(* Positions are ordered by sector, then by slot.                          *)
LEMMA PositionOrder ==
    ASSUME NEW L \in Nat, NEW i \in 1 .. L * Slots, NEW j \in 1 .. L * Slots, i < j
    PROVE  \/ SectorOf(i) < SectorOf(j)
           \/ SectorOf(i) = SectorOf(j) /\ SlotOf(i) < SlotOf(j)
<1> DEFINE a == SectorOf(i)
           b == SectorOf(j)
           x == SlotOf(i)
           y == SlotOf(j)
<1>1. a \in 1 .. L /\ x \in 1 .. Slots /\ i = (a - 1) * Slots + x
  BY Positions
<1>2. b \in 1 .. L /\ y \in 1 .. Slots /\ j = (b - 1) * Slots + y
  BY Positions
<1> HIDE DEF a, b, x, y
<1>3. ~(b < a)
  <2> SUFFICES ASSUME b < a PROVE FALSE
    OBVIOUS
  <2>1. (b - 1) * Slots + Slots = b * Slots /\ b * Slots <= (a - 1) * Slots
    BY <1>1, <1>2, VolumeAssumption
  <2>2. (b - 1) * Slots \in Nat /\ (a - 1) * Slots \in Nat /\ Slots \in Nat
    BY <1>1, <1>2, VolumeAssumption
  <2> QED
    BY <1>1, <1>2, <2>1, <2>2
<1>4. a = b => x < y
  <2>1. (a - 1) * Slots \in Nat
    BY <1>1, VolumeAssumption
  <2> QED
    BY <1>1, <1>2, <2>1
<1> QED
  BY <1>1, <1>2, <1>3, <1>4 DEF a, b, x, y

LEMMA ContentIs ==
    ASSUME NEW v \in Volumes, NEW own, Labelled(v, own), NEW h \in Clusters, own[h] = h
    PROVE  /\ Content(v, h) \in Seq(PlainUnits)
           /\ DOMAIN Content(v, h) = 1 .. Len(Chain(v, h)) * Slots
           /\ Len(Content(v, h)) = Len(Chain(v, h)) * Slots
           /\ Len(Chain(v, h)) * Slots \in Nat
           /\ \A i \in 1 .. Len(Chain(v, h)) * Slots :
                /\ SectorOf(i) \in 1 .. Len(Chain(v, h)) /\ SlotOf(i) \in 1 .. Slots
                /\ Chain(v, h)[SectorOf(i)] \in Clusters
                /\ Content(v, h)[i] = v.data[Chain(v, h)[SectorOf(i)]][SlotOf(i)]
<1> DEFINE s == Chain(v, h)
           w == Content(v, h)
           m == Len(s) * Slots
<1>1. Len(s) \in Nat /\ \A k \in 1 .. Len(s) : s[k] \in Clusters
  BY ChainFacts
<1>2. w = [i \in 1 .. m |-> v.data[s[SectorOf(i)]][SlotOf(i)]]
  BY DEF Content, UnitsAlong, SectorOf, SlotOf
<1>3. m \in Nat
  BY <1>1, VolumeNumbers
<1> HIDE DEF s, w
<1>4. \A i \in 1 .. m : /\ SectorOf(i) \in 1 .. Len(s) /\ SlotOf(i) \in 1 .. Slots
                        /\ s[SectorOf(i)] \in Clusters
  BY <1>1, Positions
<1> HIDE DEF m
<1>5. \A i \in 1 .. m : v.data[s[SectorOf(i)]][SlotOf(i)] \in PlainUnits
  <2>1. \A c \in Clusters : v.data[c] \in [1 .. Slots -> PlainUnits]
    BY VolumesTyped
  <2>2. \A c \in Clusters, u \in 1 .. Slots : v.data[c][u] \in PlainUnits
    BY <2>1
  <2> QED
    BY <1>4, <2>2
<1>6. w \in [1 .. m -> PlainUnits]
  BY <1>2, <1>5
<1>7. w \in Seq(PlainUnits) /\ DOMAIN w = 1 .. m /\ Len(w) = m
  BY <1>3, <1>6
<1> QED
  BY <1>2, <1>3, <1>4, <1>7 DEF s, w, m

LEMMA ContentFrame ==
    ASSUME NEW v \in Volumes, NEW v2 \in Volumes, NEW own, Labelled(v, own),
           NEW own2, Labelled(v2, own2),
           NEW h \in Clusters, own[h] = h, own2[h] = h,
           \A c \in Clusters : own[c] = h => /\ v2.fat[c] = v.fat[c]
                                             /\ v2.data[c] = v.data[c]
    PROVE  Content(v2, h) = Content(v, h)
<1> DEFINE s == Chain(v, h)
           w == Content(v, h)
           w2 == Content(v2, h)
           m == Len(s) * Slots
<1>1. Chain(v2, h) = s
  BY ChainFrame
<1>2. \A k \in 1 .. Len(s) : s[k] \in Clusters /\ own[s[k]] = h
  BY ChainFacts
<1>3. /\ DOMAIN w = 1 .. m /\ w \in Seq(PlainUnits) /\ Len(w) = m
      /\ \A i \in 1 .. m : /\ SectorOf(i) \in 1 .. Len(s)
                           /\ w[i] = v.data[s[SectorOf(i)]][SlotOf(i)]
  BY ContentIs
<1>4. /\ DOMAIN w2 = 1 .. m /\ w2 \in Seq(PlainUnits) /\ Len(w2) = m
      /\ \A i \in 1 .. m : w2[i] = v2.data[s[SectorOf(i)]][SlotOf(i)]
  BY <1>1, ContentIs
<1> HIDE DEF s, w, w2, m
<1>5. \A i \in 1 .. m : w[i] = w2[i]
  BY <1>2, <1>3, <1>4, SMTT(30)
<1>6. w = w2
  BY <1>3, <1>4, <1>5, SeqEqual
<1> QED
  BY <1>6 DEF w, w2

(* A chain of one cluster.                                                 *)
LEMMA OneSector ==
    ASSUME NEW v \in Volumes, NEW own, Labelled(v, own), NEW h \in Clusters, own[h] = h,
           v.fat[h] = Eoc
    PROVE  Len(Chain(v, h)) = 1 /\ Content(v, h) = v.data[h]
<1> DEFINE s == Chain(v, h)
           w == Content(v, h)
           u == v.data[h]
<1>1. s[1] = h /\ Len(s) = 1
  <2>1. IsChain(v, h, s)
    BY VolumesTyped, ChainIs
  <2>2. ~Continues(v, h)
    BY VolumeNumbers DEF Continues
  <2> HIDE DEF s
  <2>3. s[1] = h /\ Len(s) \in 1 .. TotalClusters
        /\ \A k \in 1 .. Len(s) - 1 : Continues(v, s[k])
    BY <2>1 DEF IsChain
  <2>4. ~(Len(s) >= 2)
    BY <2>2, <2>3
  <2>5. Len(s) \in Nat /\ Len(s) >= 1
    BY <2>3, VolumeNumbers
  <2>6. Len(s) = 1
    <3> DEFINE l == Len(s)
    <3>1. l \in Nat /\ l >= 1 /\ ~(l >= 2)
      BY <2>4, <2>5
    <3> HIDE DEF l
    <3>2. l = 1
      BY <3>1
    <3> QED
      BY <3>2 DEF l
  <2> QED
    BY <2>3, <2>6
<1>2. /\ w \in Seq(PlainUnits) /\ Len(w) = Len(s) * Slots
      /\ \A i \in 1 .. Len(s) * Slots :
            /\ SectorOf(i) \in 1 .. Len(s) /\ SlotOf(i) \in 1 .. Slots
            /\ w[i] = v.data[s[SectorOf(i)]][SlotOf(i)]
  BY ContentIs
<1>3. Len(s) * Slots = Slots /\ Slots \in Nat /\ 1 * Slots = Slots
  BY <1>1, VolumeNumbers
<1>4. u \in [1 .. Slots -> PlainUnits]
  BY VolumesTyped
<1> HIDE DEF s, w, u
<1>5. ASSUME NEW i \in 1 .. Slots PROVE w[i] = u[i]
  <2>1. SectorOf(i) = 1 /\ SlotOf(i) \in 1 .. Slots /\ w[i] = u[SlotOf(i)]
    BY <1>1, <1>2, <1>3 DEF u
  <2>2. i = (SectorOf(i) - 1) * Slots + SlotOf(i)
    BY <1>3, Positions
  <2>3. SlotOf(i) = i
    BY <1>3, <2>1, <2>2
  <2> QED
    BY <2>1, <2>3
<1>6. u \in Seq(PlainUnits) /\ Len(u) = Slots /\ Len(w) = Slots
  BY <1>2, <1>3, <1>4
<1>7. w = u
  BY <1>2, <1>3, <1>5, <1>6, SeqEqual
<1> QED
  BY <1>1, <1>7 DEF s, w, u

-----------------------------------------------------------------------------
(* Directories.                                                            *)

DirUnits == {Zero, Deleted} \cup Entries

(* The units of a directory: entries and slots free for one, the slots     *)
(* never used behind all others, and no two entries of the same name.      *)
DirForm(w) ==
    /\ \A i \in DOMAIN w : w[i] \in DirUnits
    /\ \A i, j \in DOMAIN w : i < j /\ w[i] = Zero => w[j] = Zero
    /\ \A i, j \in DOMAIN w : /\ w[i].kind = "entry" /\ w[j].kind = "entry"
                              /\ w[i].short = w[j].short
                              => i = j

DirOK(v, d) == DirForm(Content(v, d))

HasName(w, i, name) == w[i].kind = "entry" /\ w[i].short = <<name, 0>>

LEMMA KindFacts ==
    /\ Zero.kind = "zero" /\ Deleted.kind = "deleted" /\ NoEntry.kind = "none"
    /\ Zero # Deleted
    /\ \A e \in Entries : e.kind = "entry" /\ e # Zero /\ e # Deleted /\ e # NoEntry
    /\ \A u \in DirUnits : /\ u.kind \in {"zero", "deleted", "entry"}
                           /\ u.kind = "entry" <=> u \in Entries
                           /\ u.kind = "zero" <=> u = Zero
                           /\ u \in PlainUnits
<1>1. Zero.kind = "zero" /\ Deleted.kind = "deleted" /\ NoEntry.kind = "none"
  BY DEF Zero, Deleted, NoEntry
<1>2. \A e \in Entries : e.kind = "entry"
  BY DEF Entries
<1> QED
  BY <1>1, <1>2 DEF DirUnits, PlainUnits

LEMMA Visible ==
    ASSUME NEW w \in Seq(PlainUnits), DirForm(w)
    PROVE  /\ BeforeZero(w) \in Seq(PlainUnits)
           /\ DOMAIN BeforeZero(w) = 1 .. Len(BeforeZero(w))
           /\ Len(BeforeZero(w)) \in Nat /\ Len(BeforeZero(w)) <= Len(w)
           /\ \A i \in DOMAIN BeforeZero(w) :
                 i \in DOMAIN w /\ BeforeZero(w)[i] = w[i] /\ w[i] # Zero
           /\ \A i \in DOMAIN w : w[i] # Zero => i \in DOMAIN BeforeZero(w)
<1> DEFINE Z == {j \in DOMAIN w : w[j] = Zero}
           D == {i - 1 : i \in Z} \cup {Len(w)}
           n == Min(D)
           b == BeforeZero(w)
<1>0. Len(w) \in Nat /\ DOMAIN w = 1 .. Len(w)
  OBVIOUS
<1>1. D \in SUBSET Nat /\ D # {}
  BY <1>0
<1>2. n \in D /\ \A e \in D : n <= e
  BY <1>1, MinFacts
<1>3. b = SubSeq(w, 1, n)
  BY DEF BeforeZero
<1>4. n \in Nat /\ n <= Len(w)
  BY <1>0, <1>1, <1>2
<1>5. ASSUME NEW i \in 1 .. n PROVE i \in DOMAIN w /\ w[i] # Zero
  <2>1. i \in DOMAIN w
    BY <1>0, <1>4
  <2>2. ASSUME w[i] = Zero PROVE FALSE
    <3>1. i - 1 \in D
      BY <2>1, <2>2
    <3>2. n <= i - 1
      BY <1>2, <3>1
    <3> QED
      BY <1>4, <3>2
  <2> QED
    BY <2>1, <2>2
<1>6. ASSUME NEW i \in DOMAIN w, w[i] # Zero PROVE i \in 1 .. n
  <2>1. CASE n = Len(w)
    BY <1>0, <2>1
  <2>2. CASE n # Len(w)
    <3>1. PICK z \in Z : n = z - 1
      BY <1>2, <2>2
    <3>2. ~(z < i) /\ z # i
      BY <1>6, <3>1 DEF DirForm
    <3> QED
      BY <1>0, <3>1, <3>2
  <2> QED
    BY <2>1, <2>2
<1> HIDE DEF D, n, b, Z
<1>7. /\ b \in Seq(PlainUnits) /\ Len(b) = n /\ DOMAIN b = 1 .. n
      /\ \A i \in 1 .. n : b[i] = w[i]
  <2>1. \A i \in 1 .. n : w[i] \in PlainUnits
    BY <1>0, <1>5
  <2> QED
    BY <1>0, <1>3, <1>4, <2>1
<1> QED
  BY <1>4, <1>5, <1>6, <1>7 DEF b

LEMMA NamedIs ==
    ASSUME NEW w \in Seq(PlainUnits), DirForm(w), NEW name
    PROVE  Named(BeforeZero(w), name) = {i \in DOMAIN w : HasName(w, i, name)}
<1> DEFINE b == BeforeZero(w)
<1>1. /\ DOMAIN b = 1 .. Len(b) /\ Len(b) \in Nat
      /\ \A i \in DOMAIN b : i \in DOMAIN w /\ b[i] = w[i] /\ w[i] # Zero
      /\ \A i \in DOMAIN w : w[i] # Zero => i \in DOMAIN b
  BY Visible
<1> HIDE DEF b
<1>2. ASSUME NEW i \in DOMAIN b PROVE GoesBy(b, i, name) <=> HasName(w, i, name)
  <2>1. ~(i > 1 /\ b[i - 1].kind = "lfn")
    <3> SUFFICES ASSUME i > 1 PROVE b[i - 1].kind # "lfn"
      OBVIOUS
    <3>1. i - 1 \in DOMAIN b
      BY <1>1, <1>2
    <3>2. b[i - 1] \in DirUnits
      BY <1>1, <3>1 DEF DirForm
    <3> QED
      BY <3>2, KindFacts
  <2> QED
    BY <1>1, <2>1 DEF GoesBy, HasName
<1>3. \A i \in DOMAIN w : HasName(w, i, name) => i \in DOMAIN b
  BY <1>1, KindFacts DEF HasName
<1> QED
  BY <1>1, <1>2, <1>3 DEF Named, b

LEMMA LookNone ==
    ASSUME NEW v, NEW d, Content(v, d) \in Seq(PlainUnits), DirOK(v, d), NEW name,
           \A i \in DOMAIN Content(v, d) : ~HasName(Content(v, d), i, name)
    PROVE  Matches(v, d, name) = {} /\ FindEntry(v, d, name) = NoEntry
<1>1. Matches(v, d, name) = {}
  BY NamedIs DEF Matches, Walked, DirOK
<1> QED
  BY <1>1 DEF Matches, FindEntry, FindIn, FirstOf

LEMMA LookAt ==
    ASSUME NEW v, NEW d, Content(v, d) \in Seq(PlainUnits), DirOK(v, d), NEW name,
           NEW i \in DOMAIN Content(v, d), HasName(Content(v, d), i, name)
    PROVE  /\ Matches(v, d, name) = {i}
           /\ FindEntry(v, d, name) = Content(v, d)[i]
           /\ FindEntry(v, d, name) \in Entries
           /\ FindEntry(v, d, name).short = <<name, 0>>
<1> DEFINE w == Content(v, d)
<1>0. i \in Nat
  OBVIOUS
<1> HIDE DEF w
<1>1. Matches(v, d, name) = {j \in DOMAIN w : HasName(w, j, name)}
  BY NamedIs DEF Matches, Walked, DirOK, w
<1>2. \A j \in DOMAIN w : HasName(w, j, name) => j = i
  BY DEF HasName, DirOK, DirForm, w
<1>3. Matches(v, d, name) = {i}
  BY <1>1, <1>2 DEF w
<1>4. Min({i}) = i
  BY <1>0, MinFacts
<1>5. FindEntry(v, d, name) = BeforeZero(w)[i]
  <2>1. Named(BeforeZero(w), name) = {i}
    BY <1>3 DEF Matches, Walked, w
  <2> QED
    BY <1>4, <2>1 DEF FindEntry, FindIn, FirstOf, Walked, w
<1>6. w[i] \in DirUnits /\ w[i].kind = "entry" /\ w[i].short = <<name, 0>>
  BY DEF HasName, DirOK, DirForm, w
<1>7. BeforeZero(w)[i] = w[i]
  BY <1>6, Visible, KindFacts DEF DirOK, w
<1> QED
  BY <1>3, <1>5, <1>6, <1>7, KindFacts DEF w

LEMMA LookCases ==
    ASSUME NEW v, NEW d, Content(v, d) \in Seq(PlainUnits), DirOK(v, d), NEW name
    PROVE  \/ /\ FindEntry(v, d, name) = NoEntry
              /\ \A i \in DOMAIN Content(v, d) : ~HasName(Content(v, d), i, name)
           \/ /\ FindEntry(v, d, name) \in Entries
              /\ FindEntry(v, d, name).short = <<name, 0>>
              /\ \E i \in DOMAIN Content(v, d) :
                    /\ HasName(Content(v, d), i, name)
                    /\ FindEntry(v, d, name) = Content(v, d)[i]
BY LookNone, LookAt

(* What a directory lists is what can be found in it.                      *)
LEMMA ListedAreFound ==
    ASSUME NEW v, NEW d, Content(v, d) \in Seq(PlainUnits), DirOK(v, d), NEW e
    PROVE  e \in EntriesOf(v, d)
             <=> e # NoEntry /\ \E n \in Names : e = FindEntry(v, d, n)
<1> DEFINE w == Content(v, d)
           b == BeforeZero(w)
<1>1. /\ \A i \in DOMAIN b : i \in DOMAIN w /\ b[i] = w[i] /\ w[i] # Zero
      /\ \A i \in DOMAIN w : w[i] # Zero => i \in DOMAIN b
  BY Visible DEF DirOK
<1>2. EntriesOf(v, d) = {b[i] : i \in {j \in DOMAIN b :
                                   b[j].kind = "entry" /\ b[j].short[1] \in Names}}
  BY DEF EntriesOf, ListedIn, Walked
<1> HIDE DEF b
<1>3. ASSUME e \in EntriesOf(v, d)
      PROVE  e # NoEntry /\ \E n \in Names : e = FindEntry(v, d, n)
  <2>1. PICK i \in DOMAIN b : e = b[i] /\ b[i].kind = "entry" /\ b[i].short[1] \in Names
    BY <1>2, <1>3
  <2>2. i \in DOMAIN w /\ e = w[i] /\ w[i] \in DirUnits
    BY <1>1, <2>1 DEF DirOK, DirForm
  <2>3. e \in Entries
    BY <2>1, <2>2, KindFacts
  <2>4. e.short = <<e.short[1], 0>>
    BY <2>3 DEF Entries
  <2>5. HasName(w, i, e.short[1])
    BY <2>1, <2>2, <2>4, Zenon DEF HasName
  <2>6. e = FindEntry(v, d, e.short[1])
    BY <2>2, <2>5, LookAt
  <2> QED
    BY <2>1, <2>3, <2>6, KindFacts
<1>4. ASSUME NEW n \in Names, e = FindEntry(v, d, n), e # NoEntry
      PROVE  e \in EntriesOf(v, d)
  <2>1. PICK i \in DOMAIN w : HasName(w, i, n) /\ e = w[i] /\ e \in Entries
                              /\ e.short = <<n, 0>>
    BY <1>4, LookCases
  <2>2. i \in DOMAIN b /\ b[i] = e /\ e.kind = "entry" /\ e.short[1] \in Names
    BY <1>1, <2>1, KindFacts
  <2> QED
    BY <1>2, <2>2
<1> QED
  BY <1>3, <1>4

(* The entries of other names stay where they are.                         *)
OthersKept(w, w2, name) ==
    \A n : n # name =>
        /\ \A i \in DOMAIN w : HasName(w, i, n) => i \in DOMAIN w2 /\ w2[i] = w[i]
        /\ \A i \in DOMAIN w2 : HasName(w2, i, n) => i \in DOMAIN w /\ w2[i] = w[i]

(* One entry more, e at position p: the first free slot, or behind all.    *)
PlacedAt(w, w2, p, e) ==
    /\ Len(w) <= Len(w2)
    /\ p \in 1 .. Len(w2) /\ p <= Len(w) + 1
    /\ \A i \in 1 .. p - 1 : w[i] \notin {Zero, Deleted}
    /\ p <= Len(w) => w[p] \in {Zero, Deleted}
    /\ \A i \in 1 .. Len(w2) :
           w2[i] = IF i = p THEN e ELSE IF i <= Len(w) THEN w[i] ELSE Zero

LEMMA PlacedForm ==
    ASSUME NEW w \in Seq(PlainUnits), DirForm(w), NEW w2 \in Seq(PlainUnits),
           NEW name, NEW e \in Entries, e.short = <<name, 0>>,
           \A i \in DOMAIN w : ~HasName(w, i, name),
           NEW p, PlacedAt(w, w2, p, e)
    PROVE  /\ DirForm(w2)
           /\ p \in DOMAIN w2 /\ w2[p] = e /\ HasName(w2, p, name)
           /\ OthersKept(w, w2, name)
<1> USE DEF PlacedAt
<1>0. /\ DOMAIN w = 1 .. Len(w) /\ DOMAIN w2 = 1 .. Len(w2)
      /\ Len(w) \in Nat /\ Len(w2) \in Nat /\ p \in Nat
  OBVIOUS
<1>1. \A i \in DOMAIN w2 : w2[i] \in DirUnits
  BY <1>0 DEF DirForm, DirUnits
<1>2. ASSUME NEW i \in DOMAIN w2, NEW j \in DOMAIN w2, i < j, w2[i] = Zero
      PROVE  w2[j] = Zero
  <2>1. i # p
    BY <1>0, <1>2, KindFacts
  <2>2. ~(i < p)
    BY <1>0, <1>2
  <2>3. j # p
    BY <1>0, <1>2, <2>1, <2>2
  <2>4. CASE j <= Len(w)
    <3>1. i \in DOMAIN w /\ j \in DOMAIN w /\ w[i] = Zero
      BY <1>0, <1>2, <2>1, <2>4
    <3> QED
      BY <1>0, <1>2, <2>3, <2>4, <3>1 DEF DirForm
  <2> QED
    BY <1>0, <2>3, <2>4
<1>3. ASSUME NEW i \in DOMAIN w2, i # p, w2[i].kind = "entry"
      PROVE  i \in DOMAIN w /\ w2[i] = w[i]
  BY <1>0, <1>3, KindFacts
<1>4. w2[p] = e /\ e.kind = "entry"
  BY <1>0, KindFacts
<1>5. HasName(w2, p, name)
  BY <1>4 DEF HasName
<1>6. ASSUME NEW i \in DOMAIN w2, NEW j \in DOMAIN w2,
             w2[i].kind = "entry", w2[j].kind = "entry", w2[i].short = w2[j].short
      PROVE  i = j
  <2>1. CASE i # p /\ j # p
    BY <1>3, <1>6, <2>1 DEF DirForm
  <2>2. CASE i = p /\ j # p
    BY <1>3, <1>4, <1>6, <2>2 DEF HasName
  <2>3. CASE i # p /\ j = p
    BY <1>3, <1>4, <1>6, <2>3 DEF HasName
  <2> QED
    BY <2>1, <2>2, <2>3
<1>7. ASSUME NEW n, n # name, NEW i \in DOMAIN w, HasName(w, i, n)
      PROVE  i \in DOMAIN w2 /\ w2[i] = w[i]
  <2>1. i # p
    BY <1>0, <1>7, KindFacts DEF HasName
  <2> QED
    BY <1>0, <2>1
<1>8. ASSUME NEW n, n # name, NEW i \in DOMAIN w2, HasName(w2, i, n)
      PROVE  i \in DOMAIN w /\ w2[i] = w[i]
  <2>1. i # p
    BY <1>4, <1>8 DEF HasName
  <2> QED
    BY <1>3, <1>8, <2>1 DEF HasName
<1>9. DirForm(w2)
  BY <1>1, <1>2, <1>6 DEF DirForm
<1>10. OthersKept(w, w2, name)
  BY <1>7, <1>8 DEF OthersKept
<1> QED
  BY <1>0, <1>4, <1>5, <1>9, <1>10

(* One unit that changes.                                                  *)
ChangedAt(w, w2, p, u) ==
    /\ w2 \in Seq(PlainUnits) /\ Len(w2) = Len(w)
    /\ \A i \in 1 .. Len(w) : w2[i] = IF i = p THEN u ELSE w[i]

(* An entry that keeps its name, or is marked deleted.                     *)
LEMMA ChangedForm ==
    ASSUME NEW w \in Seq(PlainUnits), DirForm(w), NEW w2, NEW name,
           NEW p \in 1 .. Len(w), HasName(w, p, name),
           NEW u, u = Deleted \/ (u \in Entries /\ u.short = <<name, 0>>),
           ChangedAt(w, w2, p, u)
    PROVE  /\ DirForm(w2)
           /\ \A i \in DOMAIN w2 : HasName(w2, i, name) => i = p
           /\ OthersKept(w, w2, name)
<1> USE DEF ChangedAt
<1>0. /\ DOMAIN w = 1 .. Len(w) /\ DOMAIN w2 = DOMAIN w
      /\ Len(w) \in Nat /\ p \in Nat /\ p \in DOMAIN w
  OBVIOUS
<1>1. \A i \in DOMAIN w2 : w2[i] \in DirUnits
  BY <1>0 DEF DirForm, DirUnits
<1>2. w[p] \in DirUnits /\ w[p].kind = "entry" /\ w[p].short = <<name, 0>>
  BY <1>0 DEF DirForm, HasName
<1>3. w[p] # Zero /\ u # Zero
  BY <1>2, KindFacts
<1>4. ASSUME NEW i \in DOMAIN w2, NEW j \in DOMAIN w2, i < j, w2[i] = Zero
      PROVE  w2[j] = Zero
  <2>1. i # p /\ w[i] = Zero
    BY <1>0, <1>3, <1>4
  <2>2. w[j] = Zero
    BY <1>0, <1>4, <2>1 DEF DirForm
  <2> QED
    BY <1>0, <1>3, <2>2
<1>5. w2[p] = u /\ u.kind = "entry" => u.short = <<name, 0>>
  BY <1>0, KindFacts
<1>6. ASSUME NEW i \in DOMAIN w2, NEW j \in DOMAIN w2,
             w2[i].kind = "entry", w2[j].kind = "entry", w2[i].short = w2[j].short
      PROVE  i = j
  <2>1. /\ w[i].kind = "entry" /\ w[i].short = w2[i].short
        /\ w[j].kind = "entry" /\ w[j].short = w2[j].short
    BY <1>0, <1>2, <1>5, <1>6
  <2> QED
    BY <1>0, <1>6, <2>1 DEF DirForm
<1>7. DirForm(w2)
  BY <1>1, <1>4, <1>6 DEF DirForm
<1>8. \A i \in DOMAIN w2 : HasName(w2, i, name) => i = p
  BY <1>0, <1>2 DEF HasName, DirForm
<1>9. ASSUME NEW n, n # name, NEW i \in DOMAIN w, HasName(w, i, n)
      PROVE  i \in DOMAIN w2 /\ w2[i] = w[i]
  <2>1. i # p
    BY <1>2, <1>9 DEF HasName
  <2> QED
    BY <1>0, <2>1
<1>10. ASSUME NEW n, n # name, NEW i \in DOMAIN w2, HasName(w2, i, n)
      PROVE  i \in DOMAIN w /\ w2[i] = w[i]
  <2>1. i # p
    BY <1>0, <1>5, <1>10 DEF HasName
  <2> QED
    BY <1>0, <2>1
<1>11. OthersKept(w, w2, name)
  BY <1>9, <1>10 DEF OthersKept
<1> QED
  BY <1>7, <1>8, <1>11

(* The other names are found as before.                                    *)
LEMMA LookSame ==
    ASSUME NEW v, NEW v2, NEW d,
           Content(v, d) \in Seq(PlainUnits), DirOK(v, d),
           Content(v2, d) \in Seq(PlainUnits), DirOK(v2, d), NEW name,
           OthersKept(Content(v, d), Content(v2, d), name), NEW n, n # name
    PROVE  FindEntry(v2, d, n) = FindEntry(v, d, n)
<1> DEFINE w == Content(v, d)
           w2 == Content(v2, d)
<1>1. CASE \E i \in DOMAIN w : HasName(w, i, n)
  <2>1. PICK i \in DOMAIN w : HasName(w, i, n)
    BY <1>1
  <2>2. i \in DOMAIN w2 /\ w2[i] = w[i]
    BY <2>1 DEF OthersKept
  <2>3. HasName(w2, i, n)
    BY <2>1, <2>2 DEF HasName
  <2>4. FindEntry(v, d, n) = w[i]
    BY <2>1, LookAt
  <2>5. FindEntry(v2, d, n) = w2[i]
    BY <2>2, <2>3, LookAt
  <2> QED
    BY <2>2, <2>4, <2>5
<1>2. CASE ~\E i \in DOMAIN w : HasName(w, i, n)
  <2>1. \A i \in DOMAIN w2 : ~HasName(w2, i, n)
    BY <1>2 DEF HasName, OthersKept
  <2>2. FindEntry(v2, d, n) = NoEntry
    BY <2>1, LookNone
  <2>3. FindEntry(v, d, n) = NoEntry
    BY <1>2, LookNone
  <2> QED
    BY <2>2, <2>3
<1> QED
  BY <1>1, <1>2

(* A sector of the volume is overwritten.                                  *)
WithSector(v, c, sector) == [v EXCEPT !.data[c] = sector]

LEMMA WithSectorFacts ==
    ASSUME NEW v \in Volumes, NEW c \in Clusters,
           NEW sector \in [1 .. Slots -> PlainUnits]
    PROVE  /\ WithSector(v, c, sector) \in Volumes
           /\ WithSector(v, c, sector).fat = v.fat
           /\ \A d \in Clusters : WithSector(v, c, sector).data[d] =
                                      IF d = c THEN sector ELSE v.data[d]
<1>1. WithSector(v, c, sector) =
          [fat |-> v.fat, data |-> [v.data EXCEPT ![c] = sector]]
  BY VolumesTyped, SMTT(30) DEF WithSector
<1>2. [v.data EXCEPT ![c] = sector] \in [Clusters -> [1 .. Slots -> PlainUnits]]
  BY VolumesTyped
<1>3. WithSector(v, c, sector) \in Volumes
  BY <1>1, <1>2, VolumesTyped DEF Volumes
<1> QED
  BY <1>1, <1>3, VolumesTyped

LEMMA LabelledByFat ==
    ASSUME NEW v, NEW v2, v2.fat = v.fat, NEW own, Labelled(v, own)
    PROVE  Labelled(v2, own)
BY DEF Labelled

(* What a chain holds after the k-th sector of it is overwritten.          *)
SectorPut(w, w2, k, sector) ==
    /\ w2 \in Seq(PlainUnits) /\ Len(w2) = Len(w)
    /\ \A i \in 1 .. Len(w) :
           w2[i] = IF SectorOf(i) = k THEN sector[SlotOf(i)] ELSE w[i]

LEMMA SectorContent ==
    ASSUME NEW v \in Volumes, NEW own, Labelled(v, own),
           NEW h \in Clusters, own[h] = h, NEW k \in 1 .. Len(Chain(v, h)),
           NEW sector \in [1 .. Slots -> PlainUnits], NEW v2,
           v2 = WithSector(v, Chain(v, h)[k], sector)
    PROVE  /\ v2 \in Volumes /\ v2.fat = v.fat /\ Labelled(v2, own)
           /\ Chain(v2, h) = Chain(v, h)
           /\ \A c \in Clusters : own[c] # h => v2.data[c] = v.data[c]
           /\ SectorPut(Content(v, h), Content(v2, h), k, sector)
<1> DEFINE s == Chain(v, h)
           w == Content(v, h)
           w2 == Content(v2, h)
           c0 == s[k]
<1>1. /\ Len(s) \in Nat
      /\ \A j \in 1 .. Len(s) : s[j] \in Clusters /\ own[s[j]] = h
      /\ \A i, j \in 1 .. Len(s) : s[i] = s[j] => i = j
  BY ChainFacts
<1>2. /\ v2 \in Volumes /\ v2.fat = v.fat
      /\ \A d \in Clusters : v2.data[d] = IF d = c0 THEN sector ELSE v.data[d]
  BY <1>1, WithSectorFacts
<1>3. Labelled(v2, own)
  BY <1>2, LabelledByFat
<1>4. Chain(v2, h) = s
  BY <1>2, ChainFrame
<1>5. /\ Len(w) = Len(s) * Slots
      /\ \A i \in 1 .. Len(s) * Slots :
            /\ SectorOf(i) \in 1 .. Len(s)
            /\ w[i] = v.data[s[SectorOf(i)]][SlotOf(i)]
  BY ContentIs
<1>6. /\ w2 \in Seq(PlainUnits) /\ Len(w2) = Len(s) * Slots
      /\ \A i \in 1 .. Len(s) * Slots : w2[i] = v2.data[s[SectorOf(i)]][SlotOf(i)]
  BY <1>2, <1>3, <1>4, ContentIs
<1> HIDE DEF s, w, w2
<1>7. ASSUME NEW i \in 1 .. Len(w)
      PROVE  w2[i] = IF SectorOf(i) = k THEN sector[SlotOf(i)] ELSE w[i]
  <2> DEFINE a == SectorOf(i)
             u == SlotOf(i)
  <2>1. a \in 1 .. Len(s) /\ w[i] = v.data[s[a]][u] /\ w2[i] = v2.data[s[a]][u]
    BY <1>5, <1>6
  <2> HIDE DEF a, u
  <2>2. s[a] = c0 <=> a = k
    BY <1>1, <2>1 DEF s
  <2>3. v2.data[s[a]] = IF a = k THEN sector ELSE v.data[s[a]]
    BY <1>1, <1>2, <2>1, <2>2
  <2> QED
    BY <2>1, <2>3 DEF a, u
<1>8. \A c \in Clusters : own[c] # h => v2.data[c] = v.data[c]
  BY <1>1, <1>2 DEF s
<1>9. SectorPut(w, w2, k, sector)
  BY <1>5, <1>6, <1>7 DEF SectorPut
<1> QED
  BY <1>2, <1>3, <1>4, <1>8, <1>9 DEF s, w, w2

(* A routine that changes one name in the directory d, and nothing else    *)
(* that is labelled.                                                       *)
DirStep(v, v2, own, own2, d, name, e) ==
    /\ v2 \in Volumes /\ Labelled(v2, own2)
    /\ \A c \in Clusters : own[c] # 0 => own2[c] = own[c]
    /\ \A c \in Clusters : own[c] # 0 /\ own[c] # d =>
           v2.fat[c] = v.fat[c] /\ v2.data[c] = v.data[c]
    /\ DirOK(v2, d)
    /\ FindEntry(v2, d, name) = e
    /\ \A n : n # name => FindEntry(v2, d, n) = FindEntry(v, d, n)

RunsOne(sector) == {s \in 0 .. Slots - 1 : sector[s + 1] \in {Zero, Deleted}}

LEMMA RunsIs ==
    ASSUME NEW sector
    PROVE  Runs(sector, 1) = RunsOne(sector)
<1>1. \A s : (\A i \in 1 .. 1 : sector[s + i] \in {Zero, Deleted})
               <=> sector[s + 1] \in {Zero, Deleted}
  OBVIOUS
<1> QED
  BY <1>1 DEF Runs, RunsOne

SlotSet(sector, s, e) == [i \in 1 .. Slots |-> IF i = s + 1 THEN e ELSE sector[i]]

LEMMA OverlayIs ==
    ASSUME NEW sector, NEW e, NEW s \in 0 .. Slots - 1
    PROVE  Overlay(sector, <<e>>, s) = SlotSet(sector, s, e)
<1>1. \A i \in 1 .. Slots : i - s \in DOMAIN <<e>> <=> i = s + 1
  BY VolumeNumbers
<1>2. Overlay(sector, <<e>>, s) =
          [i \in 1 .. Slots |-> IF i = s + 1 THEN e ELSE sector[i]]
  BY <1>1, VolumeNumbers DEF Overlay
<1> QED
  BY <1>2 DEF SlotSet

LEMMA SlotSetFacts ==
    ASSUME NEW sector \in [1 .. Slots -> PlainUnits], NEW e \in PlainUnits, NEW s
    PROVE  /\ SlotSet(sector, s, e) \in [1 .. Slots -> PlainUnits]
           /\ \A i \in 1 .. Slots :
                 SlotSet(sector, s, e)[i] = IF i = s + 1 THEN e ELSE sector[i]
BY DEF SlotSet

(* The first free slot along a chain: s + 1, of the k-th sector.           *)
FirstFree(v, ch, k, s) ==
    /\ k \in 1 .. Len(ch)
    /\ s \in RunsOne(v.data[ch[k]])
    /\ \A t \in RunsOne(v.data[ch[k]]) : s <= t
    /\ \A j \in 1 .. k - 1 : RunsOne(v.data[ch[j]]) = {}

LEMMA PlaceIs ==
    ASSUME NEW v \in Volumes, NEW c \in Clusters, NEW e,
           Runs(v.data[c], 1) # {}
    PROVE  \E s \in RunsOne(v.data[c]) :
              /\ \A t \in RunsOne(v.data[c]) : s <= t
              /\ Place(v, c, <<e>>) =
                   [ok |-> TRUE, v |-> WithSector(v, c, SlotSet(v.data[c], s, e))]
<1> DEFINE R == RunsOne(v.data[c])
<1>1. Runs(v.data[c], 1) = R
  BY RunsIs
<1>2. R \in SUBSET Nat /\ R # {}
  BY <1>1, VolumeNumbers DEF RunsOne
<1>3. Min(R) \in R /\ \A t \in R : Min(R) <= t
  BY <1>2, MinFacts
<1>4. Len(<<e>>) = 1
  OBVIOUS
<1>5. Min(R) \in 0 .. Slots - 1
  BY <1>3 DEF RunsOne
<1> HIDE DEF R
<1>6. Place(v, c, <<e>>) =
          [ok |-> TRUE, v |-> WithSector(v, c, Overlay(v.data[c], <<e>>, Min(R)))]
  <2>1. Runs(v.data[c], Len(<<e>>)) = R
    BY <1>1, <1>4
  <2>2. Place(v, c, <<e>>) =
          [ok |-> TRUE,
           v |-> WithSector(v, c, Overlay(v.data[c], <<e>>,
                                          Min(Runs(v.data[c], Len(<<e>>)))))]
    BY DEF Place, WithSector
  <2> QED
    BY <2>1, <2>2
<1>7. Overlay(v.data[c], <<e>>, Min(R)) = SlotSet(v.data[c], Min(R), e)
  BY <1>5, OverlayIs
<1> QED
  BY <1>3, <1>6, <1>7 DEF R

(* The content of the directory d after an entry is placed in it.          *)
LEMMA PlacedStep ==
    ASSUME NEW v \in Volumes, NEW own, Labelled(v, own),
           NEW d \in Clusters, own[d] = d, DirOK(v, d), NEW name,
           FindEntry(v, d, name) = NoEntry,
           NEW e \in Entries, e.short = <<name, 0>>,
           NEW v2 \in Volumes, NEW own2, Labelled(v2, own2), own2[d] = d, NEW p,
           PlacedAt(Content(v, d), Content(v2, d), p, e)
    PROVE  /\ DirOK(v2, d)
           /\ FindEntry(v2, d, name) = e
           /\ \A n : n # name => FindEntry(v2, d, n) = FindEntry(v, d, n)
<1> DEFINE w == Content(v, d)
           w2 == Content(v2, d)
<1>1. w \in Seq(PlainUnits) /\ w2 \in Seq(PlainUnits)
  BY ContentIs
<1>2. \A i \in DOMAIN w : ~HasName(w, i, name)
  BY <1>1, LookCases, KindFacts
<1>3. DirForm(w)
  BY DEF DirOK
<1>4. PlacedAt(w, w2, p, e)
  OBVIOUS
<1> HIDE DEF w, w2
<1>5. /\ DirForm(w2) /\ OthersKept(w, w2, name)
      /\ p \in DOMAIN w2 /\ w2[p] = e /\ HasName(w2, p, name)
  BY <1>1, <1>2, <1>3, <1>4, PlacedForm
<1>6. DirOK(v2, d)
  BY <1>5 DEF DirOK, w2
<1>7. FindEntry(v2, d, name) = e
  BY <1>1, <1>5, <1>6, LookAt DEF w2
<1>8. \A n : n # name => FindEntry(v2, d, n) = FindEntry(v, d, n)
  BY <1>1, <1>5, <1>6, LookSame DEF w, w2
<1> QED
  BY <1>6, <1>7, <1>8

(* create_dir_entry finds a slot: the first free one, in the k-th sector.  *)
LEMMA PlaceAtFirst ==
    ASSUME NEW v \in Volumes, NEW own, Labelled(v, own),
           NEW d \in Clusters, own[d] = d, NEW e \in Entries,
           NEW k, NEW s, FirstFree(v, Chain(v, d), k, s),
           NEW v2, v2 = WithSector(v, Chain(v, d)[k],
                                   SlotSet(v.data[Chain(v, d)[k]], s, e))
    PROVE  /\ v2 \in Volumes /\ v2.fat = v.fat /\ Labelled(v2, own)
           /\ \A x \in Clusters : own[x] # d => v2.data[x] = v.data[x]
           /\ \E p : PlacedAt(Content(v, d), Content(v2, d), p, e)
<1> DEFINE ch == Chain(v, d)
           c == ch[k]
           w == Content(v, d)
           w2 == Content(v2, d)
           sector == SlotSet(v.data[c], s, e)
           p == (k - 1) * Slots + (s + 1)
<1>1. Len(ch) \in Nat /\ \A j \in 1 .. Len(ch) : ch[j] \in Clusters
  BY ChainFacts
<1>2. k \in 1 .. Len(ch) /\ k \in Nat
  BY <1>1 DEF FirstFree
<1>3. c \in Clusters
  BY <1>1, <1>2
<1>6. /\ s \in 0 .. Slots - 1 /\ s + 1 \in 1 .. Slots
      /\ v.data[c][s + 1] \in {Zero, Deleted} /\ s \in Nat
  BY VolumeNumbers DEF FirstFree, RunsOne
<1>7. /\ sector \in [1 .. Slots -> PlainUnits]
      /\ \A i \in 1 .. Slots : sector[i] = IF i = s + 1 THEN e ELSE v.data[c][i]
  <2>1. v.data[c] \in [1 .. Slots -> PlainUnits] /\ e \in PlainUnits
    BY <1>3, VolumesTyped DEF PlainUnits
  <2> QED
    BY <2>1, SlotSetFacts
<1>8. v2 = WithSector(v, Chain(v, d)[k], sector)
  OBVIOUS
<1> HIDE DEF sector
<1>9. /\ v2 \in Volumes /\ v2.fat = v.fat /\ Labelled(v2, own)
      /\ \A x \in Clusters : own[x] # d => v2.data[x] = v.data[x]
      /\ w2 \in Seq(PlainUnits) /\ Len(w2) = Len(w)
      /\ \A i \in 1 .. Len(w) :
           w2[i] = IF SectorOf(i) = k THEN sector[SlotOf(i)] ELSE w[i]
  <2>1. /\ v2 \in Volumes /\ v2.fat = v.fat /\ Labelled(v2, own)
        /\ \A x \in Clusters : own[x] # d => v2.data[x] = v.data[x]
        /\ SectorPut(w, w2, k, sector)
    BY <1>2, <1>7, <1>8, SectorContent
  <2> QED
    BY <2>1 DEF SectorPut
<1>10. /\ w \in Seq(PlainUnits) /\ DOMAIN w = 1 .. Len(w) /\ Len(w) \in Nat
       /\ Len(w) = Len(ch) * Slots
       /\ \A i \in 1 .. Len(w) :
            /\ SectorOf(i) \in 1 .. Len(ch) /\ SlotOf(i) \in 1 .. Slots
            /\ w[i] = v.data[ch[SectorOf(i)]][SlotOf(i)]
  BY ContentIs
<1>11. FirstFree(v, ch, k, s)
  OBVIOUS
<1> HIDE DEF ch, w, w2
<1>12. /\ p \in 1 .. Len(w) /\ SectorOf(p) = k /\ SlotOf(p) = s + 1
  BY <1>1, <1>2, <1>6, <1>10, PositionOf
<1> HIDE DEF p
<1>13. ASSUME NEW i \in 1 .. Len(w)
       PROVE  w2[i] = IF i = p THEN e ELSE w[i]
  <2>1. CASE SectorOf(i) = k /\ SlotOf(i) = s + 1
    <3>1. i = p
      BY <1>1, <1>10, <2>1, Positions DEF p
    <3> QED
      BY <1>6, <1>7, <1>9, <2>1, <3>1
  <2>2. CASE SectorOf(i) = k /\ SlotOf(i) # s + 1
    <3>1. i # p
      BY <1>12, <2>2
    <3>2. w2[i] = v.data[c][SlotOf(i)] /\ w[i] = v.data[c][SlotOf(i)]
      BY <1>7, <1>9, <1>10, <2>2
    <3> QED
      BY <3>1, <3>2
  <2>3. CASE SectorOf(i) # k
    BY <1>9, <1>12, <2>3
  <2> QED
    BY <2>1, <2>2, <2>3
<1>14. w[p] \in {Zero, Deleted}
  BY <1>6, <1>10, <1>12
<1>15. ASSUME NEW i \in 1 .. p - 1 PROVE w[i] \notin {Zero, Deleted}
  <2> SUFFICES ASSUME w[i] \in {Zero, Deleted} PROVE FALSE
    OBVIOUS
  <2>0. i \in 1 .. Len(w) /\ i < p
    BY <1>10, <1>12
  <2> DEFINE a == SectorOf(i)
             u == SlotOf(i)
  <2>1. a \in 1 .. Len(ch) /\ u \in 1 .. Slots /\ w[i] = v.data[ch[a]][u]
    BY <1>10, <2>0
  <2>2. a < k \/ (a = k /\ u < s + 1)
    BY <1>1, <1>10, <1>12, <2>0, PositionOrder
  <2> HIDE DEF a, u
  <2>3. u - 1 \in RunsOne(v.data[ch[a]])
    BY <2>1, VolumeNumbers DEF RunsOne
  <2>4. ~(a < k)
    <3> SUFFICES ASSUME a < k PROVE FALSE
      OBVIOUS
    <3>1. a \in 1 .. k - 1
      BY <1>1, <1>2, <2>1
    <3>2. RunsOne(v.data[ch[a]]) = {}
      BY <1>11, <3>1 DEF FirstFree
    <3> QED
      BY <2>3, <3>2
  <2>5. a = k /\ u < s + 1
    BY <2>2, <2>4
  <2>6. s <= u - 1
    BY <1>11, <2>3, <2>5 DEF FirstFree
  <2> QED
    BY <1>6, <2>1, <2>5, <2>6
<1>16. PlacedAt(w, w2, p, e)
  BY <1>9, <1>10, <1>12, <1>13, <1>14, <1>15 DEF PlacedAt
<1> QED
  BY <1>9, <1>16 DEF w, w2

LEMMA PlaceOld ==
    ASSUME NEW v \in Volumes, NEW own, Labelled(v, own),
           NEW d \in Clusters, own[d] = d, DirOK(v, d), NEW name,
           FindEntry(v, d, name) = NoEntry,
           NEW e \in Entries, e.short = <<name, 0>>,
           NEW k, NEW s, FirstFree(v, Chain(v, d), k, s),
           NEW v2, v2 = WithSector(v, Chain(v, d)[k],
                                   SlotSet(v.data[Chain(v, d)[k]], s, e))
    PROVE  DirStep(v, v2, own, own, d, name, e)
<1>1. /\ v2 \in Volumes /\ v2.fat = v.fat /\ Labelled(v2, own)
      /\ \A x \in Clusters : own[x] # d => v2.data[x] = v.data[x]
      /\ \E p : PlacedAt(Content(v, d), Content(v2, d), p, e)
  BY PlaceAtFirst
<1>2. PICK p : PlacedAt(Content(v, d), Content(v2, d), p, e)
  BY <1>1
<1>3. /\ DirOK(v2, d)
      /\ FindEntry(v2, d, name) = e
      /\ \A n : n # name => FindEntry(v2, d, n) = FindEntry(v, d, n)
  BY <1>1, <1>2, PlacedStep
<1> QED
  BY <1>1, <1>3 DEF DirStep

(* A directory with one more empty sector shows the same entries.          *)
LEMMA GrownDir ==
    ASSUME NEW v \in Volumes, NEW own, Labelled(v, own),
           NEW d \in Clusters, own[d] = d, DirOK(v, d), CanAlloc(v),
           NEW g, g = Grow(v, Last(Chain(v, d))),
           NEW own2, own2 = [c \in Clusters |-> IF c = NewCluster(v) THEN d ELSE own[c]]
    PROVE  /\ g \in Volumes /\ Labelled(g, own2) /\ own2[d] = d
           /\ Chain(g, d) = Append(Chain(v, d), NewCluster(v))
           /\ \A c \in Clusters : own[c] # 0 => own2[c] = own[c]
           /\ \A c \in Clusters : own[c] # 0 => g.data[c] = v.data[c]
           /\ \A c \in Clusters : own[c] # 0 /\ own[c] # d => g.fat[c] = v.fat[c]
           /\ g.data[NewCluster(v)] = ZeroSector
           /\ DirOK(g, d)
           /\ \A n : FindEntry(g, d, n) = FindEntry(v, d, n)
<1> DEFINE s == Chain(v, d)
           t == Chain(g, d)
           n == NewCluster(v)
           last == Last(s)
           w == Content(v, d)
           w2 == Content(g, d)
           m == Len(s) * Slots
<1>1. /\ s \in Seq(Clusters) /\ Len(s) \in Nat /\ Len(s) >= 1
      /\ \A k \in 1 .. Len(s) : s[k] \in Clusters /\ own[s[k]] = d
  BY ChainFacts
<1>2. last \in Clusters /\ own[last] = d /\ last = s[Len(s)]
  BY <1>1 DEF Last
<1>3. n \in Clusters /\ v.fat[n] = Free /\ own[n] = 0 /\ d # 0 /\ n # d
  BY NewClusterFacts, VolumeNumbers DEF Labelled
<1>4. t = Append(s, n)
  BY ChainGrown
<1>5. /\ w \in Seq(PlainUnits) /\ DOMAIN w = 1 .. m /\ Len(w) = m /\ m \in Nat
      /\ \A i \in 1 .. m : /\ SectorOf(i) \in 1 .. Len(s)
                           /\ w[i] = v.data[s[SectorOf(i)]][SlotOf(i)]
  BY ContentIs
<1>6. DirForm(w)
  BY DEF DirOK
<1> HIDE DEF s, w, n
<1>7. /\ g \in Volumes
      /\ \A c \in Clusters :
           /\ g.fat[c] = IF c = last THEN n ELSE IF c = n THEN Eoc ELSE v.fat[c]
           /\ g.data[c] = IF c = n THEN ZeroSector ELSE v.data[c]
  BY <1>2, GrowFacts DEF n, s
<1>8. own2 \in [Clusters -> Clusters \cup {0}]
      /\ \A c \in Clusters : own2[c] = IF c = n THEN d ELSE own[c]
  BY DEF n, Labelled
<1>9. own2[d] = d
  BY <1>3, <1>8
<1>10. Labelled(g, own2)
  <2>1. g.fat[last] = n /\ g.fat[n] = Eoc /\ n # last
    BY <1>2, <1>3, <1>7
  <2>2. \A c \in Clusters : c # n /\ c # last => g.fat[c] = v.fat[c]
    BY <1>7
  <2>3. own2[n] = d /\ \A c \in Clusters : c # n => own2[c] = own[c]
    BY <1>3, <1>8
  <2> HIDE DEF last
  <2> QED
    BY <1>2, <1>3, <1>8, <2>1, <2>2, <2>3, LabelGrow
<1>11. /\ Len(t) = Len(s) + 1 /\ t[Len(s) + 1] = n
       /\ \A k \in 1 .. Len(s) : t[k] = s[k]
  BY <1>1, <1>3, <1>4, AppendProperties
<1>12. /\ w2 \in Seq(PlainUnits) /\ DOMAIN w2 = 1 .. Len(t) * Slots
       /\ Len(w2) = Len(t) * Slots
       /\ \A i \in 1 .. Len(t) * Slots :
            /\ SectorOf(i) \in 1 .. Len(t) /\ SlotOf(i) \in 1 .. Slots
            /\ w2[i] = g.data[t[SectorOf(i)]][SlotOf(i)]
  BY <1>7, <1>9, <1>10, ContentIs
<1> HIDE DEF t, w2
<1>13. /\ Len(w2) = m + Slots /\ DOMAIN w2 = 1 .. m + Slots
  BY <1>1, <1>11, <1>12, VolumeNumbers
<1>14. ASSUME NEW i \in 1 .. m PROVE w2[i] = w[i] /\ i \in DOMAIN w2
  <2>1. i \in 1 .. Len(t) * Slots
    BY <1>5, <1>12, <1>13, VolumeNumbers
  <2>2. SectorOf(i) \in 1 .. Len(s)
    BY <1>5
  <2> DEFINE a == SectorOf(i)
  <2>3. w2[i] = g.data[s[a]][SlotOf(i)]
    BY <1>11, <1>12, <2>1, <2>2
  <2>4. g.data[s[a]] = v.data[s[a]]
    BY <1>1, <1>3, <1>7, <2>2
  <2> QED
    BY <1>5, <1>12, <2>1, <2>3, <2>4
<1>15. ASSUME NEW i \in 1 .. m + Slots, i > m PROVE w2[i] = Zero
  <2>1. i \in 1 .. Len(t) * Slots
    BY <1>12, <1>13
  <2>2. SectorOf(i) \in 1 .. Len(s) + 1 /\ SlotOf(i) \in 1 .. Slots
    BY <1>11, <1>12, <2>1
  <2>3. SectorOf(i) = Len(s) + 1
    <3> SUFFICES ASSUME SectorOf(i) \in 1 .. Len(s) PROVE FALSE
      BY <1>1, <2>2
    <3> DEFINE a == SectorOf(i)
    <3>1. i = (a - 1) * Slots + SlotOf(i)
      BY <1>1, <1>11, <2>1, Positions
    <3>2. (a - 1) * Slots + SlotOf(i) \in 1 .. Len(s) * Slots
      BY <1>1, <2>2, PositionOf
    <3> QED
      BY <1>5, <1>15, <3>1, <3>2
  <2>4. w2[i] = g.data[n][SlotOf(i)]
    BY <1>11, <1>12, <2>1, <2>3
  <2> QED
    BY <1>3, <1>7, <2>2, <2>4, ZeroSectorFacts
<1> HIDE DEF m
<1>16. \A i \in DOMAIN w2 : IF i <= m THEN i \in DOMAIN w /\ w2[i] = w[i] ELSE w2[i] = Zero
  BY <1>5, <1>13, <1>14, <1>15, VolumeNumbers
<1>17. DirForm(w2)
  <2>1. \A i \in DOMAIN w2 : w2[i] \in DirUnits
    BY <1>6, <1>16 DEF DirForm, DirUnits
  <2>2. ASSUME NEW i \in DOMAIN w2, NEW j \in DOMAIN w2, i < j, w2[i] = Zero
        PROVE  w2[j] = Zero
    <3>1. CASE j <= m
      <4>1. i <= m
        BY <1>5, <1>13, <2>2, <3>1, VolumeNumbers
      <4> QED
        BY <1>6, <1>16, <2>2, <3>1, <4>1 DEF DirForm
    <3> QED
      BY <1>16, <3>1
  <2>3. \A i \in DOMAIN w2 : w2[i].kind = "entry" => i \in DOMAIN w /\ w2[i] = w[i]
    BY <1>16, KindFacts
  <2>4. ASSUME NEW i \in DOMAIN w2, NEW j \in DOMAIN w2, w2[i].kind = "entry",
               w2[j].kind = "entry", w2[i].short = w2[j].short
        PROVE  i = j
    BY <1>6, <2>3, <2>4 DEF DirForm
  <2> QED
    BY <2>1, <2>2, <2>4 DEF DirForm
<1>18. DirOK(g, d)
  BY <1>17 DEF DirOK, w2
<1>19. ASSUME NEW x PROVE FindEntry(g, d, x) = FindEntry(v, d, x)
  <2>1. PICK y : y # x
    <3>1. {x} # x \/ {} # x
      OBVIOUS
    <3> QED
      BY <3>1
  <2>2. OthersKept(w, w2, y)
    <3>1. \A i \in DOMAIN w : i \in DOMAIN w2 /\ w2[i] = w[i]
      BY <1>5, <1>14
    <3>2. \A i \in DOMAIN w2 : w2[i].kind = "entry" => i \in DOMAIN w /\ w2[i] = w[i]
      BY <1>16, KindFacts
    <3> QED
      BY <3>1, <3>2 DEF OthersKept, HasName
  <2> QED
    BY <1>5, <1>12, <1>18, <2>1, <2>2, LookSame DEF w, w2
<1>20. /\ \A c \in Clusters : own[c] # 0 => own2[c] = own[c]
       /\ \A c \in Clusters : own[c] # 0 => g.data[c] = v.data[c]
       /\ \A c \in Clusters : own[c] # 0 /\ own[c] # d => g.fat[c] = v.fat[c]
       /\ g.data[n] = ZeroSector
  BY <1>2, <1>3, <1>7, <1>8
<1> QED
  BY <1>4, <1>7, <1>9, <1>10, <1>18, <1>19, <1>20 DEF t, s, n

(* create_dir_entry makes the directory larger: the entry is the first of  *)
(* the new sector.                                                         *)
LEMMA PlaceNew ==
    ASSUME NEW v \in Volumes, NEW own, Labelled(v, own),
           NEW d \in Clusters, own[d] = d, DirOK(v, d), NEW name,
           FindEntry(v, d, name) = NoEntry,
           NEW e \in Entries, e.short = <<name, 0>>, CanAlloc(v),
           \A j \in 1 .. Len(Chain(v, d)) : RunsOne(v.data[Chain(v, d)[j]]) = {},
           NEW g, g = Grow(v, Last(Chain(v, d))),
           NEW v2, v2 = WithSector(g, NewCluster(v), SlotSet(g.data[NewCluster(v)], 0, e))
    PROVE  \E own2 : DirStep(v, v2, own, own2, d, name, e)
<1> DEFINE n == NewCluster(v)
           s == Chain(v, d)
           own2 == [c \in Clusters |-> IF c = n THEN d ELSE own[c]]
           k == Len(s) + 1
<1>1. /\ g \in Volumes /\ Labelled(g, own2) /\ own2[d] = d
      /\ Chain(g, d) = Append(s, n)
      /\ \A c \in Clusters : own[c] # 0 => own2[c] = own[c]
      /\ \A c \in Clusters : own[c] # 0 => g.data[c] = v.data[c]
      /\ \A c \in Clusters : own[c] # 0 /\ own[c] # d => g.fat[c] = v.fat[c]
      /\ g.data[n] = ZeroSector
      /\ DirOK(g, d)
      /\ \A x : FindEntry(g, d, x) = FindEntry(v, d, x)
  <2> DEFINE o == own2
  <2>1. o = [c \in Clusters |-> IF c = NewCluster(v) THEN d ELSE own[c]]
    OBVIOUS
  <2> HIDE DEF o
  <2>2. /\ g \in Volumes /\ Labelled(g, o) /\ o[d] = d
        /\ Chain(g, d) = Append(Chain(v, d), NewCluster(v))
        /\ \A c \in Clusters : own[c] # 0 => o[c] = own[c]
        /\ \A c \in Clusters : own[c] # 0 => g.data[c] = v.data[c]
        /\ \A c \in Clusters : own[c] # 0 /\ own[c] # d => g.fat[c] = v.fat[c]
        /\ g.data[NewCluster(v)] = ZeroSector
        /\ DirOK(g, d)
        /\ \A x : FindEntry(g, d, x) = FindEntry(v, d, x)
    BY <2>1, GrownDir
  <2> QED
    BY <2>2, Zenon DEF o
<1>2. /\ s \in Seq(Clusters) /\ Len(s) \in Nat
      /\ \A j \in 1 .. Len(s) : s[j] \in Clusters /\ own[s[j]] = d
  BY ChainFacts
<1>3. n \in Clusters /\ d # 0
  BY NewClusterFacts, VolumeNumbers
<1>4. \A j \in 1 .. Len(s) : RunsOne(v.data[s[j]]) = {}
  OBVIOUS
<1> HIDE DEF n, s, own2
<1> DEFINE t == Chain(g, d)
<1>5. /\ Len(t) = k /\ t[k] = n /\ \A j \in 1 .. Len(s) : t[j] = s[j]
  BY <1>1, <1>2, <1>3, AppendProperties
<1> HIDE DEF t
<1>6. FirstFree(g, t, k, 0)
  <2>1. k \in 1 .. Len(t)
    BY <1>2, <1>5
  <2>2. 0 \in RunsOne(g.data[t[k]])
    BY <1>1, <1>5, ZeroSectorFacts, VolumeNumbers DEF RunsOne
  <2>3. \A x \in RunsOne(g.data[t[k]]) : 0 <= x
    BY VolumeNumbers DEF RunsOne
  <2>4. ASSUME NEW j \in 1 .. k - 1 PROVE RunsOne(g.data[t[j]]) = {}
    <3>1. j \in 1 .. Len(s) /\ t[j] = s[j]
      BY <1>2, <1>5
    <3>2. g.data[t[j]] = v.data[s[j]]
      BY <1>1, <1>2, <1>3, <3>1
    <3> QED
      BY <1>4, <3>1, <3>2
  <2> QED
    BY <2>1, <2>2, <2>3, <2>4 DEF FirstFree
<1>7. v2 = WithSector(g, t[k], SlotSet(g.data[t[k]], 0, e))
  BY <1>5 DEF n
<1>8. FindEntry(g, d, name) = NoEntry
  BY <1>1
<1>9. DirStep(g, v2, own2, own2, d, name, e)
  <2> HIDE DEF k
  <2> QED
    BY <1>1, <1>6, <1>7, <1>8, PlaceOld DEF t
<1>10. DirStep(v, v2, own, own2, d, name, e)
  <2>1. /\ v2 \in Volumes /\ Labelled(v2, own2) /\ DirOK(v2, d)
        /\ FindEntry(v2, d, name) = e
    BY <1>9 DEF DirStep
  <2>2. ASSUME NEW c \in Clusters, own[c] # 0, own[c] # d
        PROVE  v2.fat[c] = v.fat[c] /\ v2.data[c] = v.data[c]
    <3>1. own2[c] # 0 /\ own2[c] # d
      BY <1>1, <2>2
    <3>2. v2.fat[c] = g.fat[c] /\ v2.data[c] = g.data[c]
      BY <1>9, <3>1 DEF DirStep
    <3> QED
      BY <1>1, <2>2, <3>2
  <2>3. \A x : x # name => FindEntry(v2, d, x) = FindEntry(v, d, x)
    BY <1>1, <1>9 DEF DirStep
  <2> QED
    BY <1>1, <2>1, <2>2, <2>3 DEF DirStep
<1> QED
  BY <1>10

LEMMA EntryIs ==
    ASSUME NEW name \in Names, NEW isDir \in BOOLEAN, NEW cl \in Clusters \cup {0},
           NEW sz \in 0 .. MaxOffset
    PROVE  /\ Entry(<<name, 0>>, isDir, cl, sz) \in Entries
           /\ Entry(<<name, 0>>, isDir, cl, sz).short = <<name, 0>>
           /\ Entry(<<name, 0>>, isDir, cl, sz).dir = isDir
           /\ Entry(<<name, 0>>, isDir, cl, sz).cluster = cl
           /\ Entry(<<name, 0>>, isDir, cl, sz).size = sz
<1> DEFINE short == <<name, 0>>
<1>1. short \in (Names \cup {".", ".."}) \X {0}
  OBVIOUS
<1> HIDE DEF short
<1>2. /\ Entry(short, isDir, cl, sz) \in Entries
      /\ Entry(short, isDir, cl, sz).short = short
      /\ Entry(short, isDir, cl, sz).cluster = cl
      /\ Entry(short, isDir, cl, sz).size = sz
  BY <1>1 DEF Entry, Entries
<1>3. Entry(short, isDir, cl, sz).dir = isDir
  BY Zenon DEF Entry
<1> QED
  BY <1>2, <1>3 DEF short

(* create_dir_entry, for a name of one slot that the directory has not.    *)
LEMMA CreateEntry ==
    ASSUME NEW v \in Volumes, NEW own, Labelled(v, own),
           NEW d \in Clusters, own[d] = d, DirOK(v, d), NEW name \in Valid83,
           FindEntry(v, d, name) = NoEntry, NEW isDir \in BOOLEAN,
           NEW cl \in Clusters \cup {0}, NEW sz \in 0 .. MaxOffset,
           NEW r, r = CreateDirEntry(v, d, name, isDir, cl, sz)
    PROVE  \/ r.ok = FALSE /\ r.v = v
           \/ /\ r.ok = TRUE
              /\ \E own2 : DirStep(v, r.v, own, own2, d, name,
                                   Entry(<<name, 0>>, isDir, cl, sz))
<1> DEFINE e == Entry(<<name, 0>>, isDir, cl, sz)
           ch == Chain(v, d)
           room == {k \in DOMAIN ch : Runs(v.data[ch[k]], 1) # {}}
           n == NewCluster(v)
           g == Grow(v, Last(ch))
<1>0. e \in Entries /\ e.short = <<name, 0>>
  BY EntryIs, VolumeAssumption
<1>1. EntrySet(name, e) = <<e>>
  <2>1. LfnCount[name] = 0
    BY VolumeAssumption
  <2> HIDE DEF e
  <2>2. [i \in 1 .. LfnCount[name] |-> Lfn(name)] = << >>
    BY <2>1
  <2>3. Append(<< >>, e) = <<e>>
    OBVIOUS
  <2> QED
    BY <2>2, <2>3, Zenon DEF EntrySet
<1>2. ShortName(v, d, name) = <<name, 0>>
  BY DEF ShortName
<1>3. r = PlaceAlong(v, ch, <<e>>)
  <2>1. r = PlaceAlong(v, ch, EntrySet(name, Entry(ShortName(v, d, name), isDir, cl, sz)))
    BY DEF CreateDirEntry
  <2> QED
    BY <1>1, <1>2, <2>1
<1> HIDE DEF e
<1>4. Len(<<e>>) = 1 /\ ~(1 > Slots)
  BY VolumeNumbers
<1>5. r = IF room # {} THEN Place(v, ch[Min(room)], <<e>>)
          ELSE IF CanAlloc(v) THEN Place(g, n, <<e>>)
          ELSE [ok |-> FALSE, v |-> v]
  <2>1. r = IF {k \in DOMAIN ch : Runs(v.data[ch[k]], Len(<<e>>)) # {}} # {}
            THEN Place(v, ch[Min({k \in DOMAIN ch : Runs(v.data[ch[k]], Len(<<e>>)) # {}})], <<e>>)
            ELSE IF Len(<<e>>) > Slots
            THEN [ok |-> FALSE, v |-> GrowUntilFull(v, Last(ch))]
            ELSE IF CanAlloc(v) THEN Place(g, n, <<e>>)
            ELSE [ok |-> FALSE, v |-> v]
    BY <1>3, Zenon DEF PlaceAlong
  <2> DEFINE one == Len(<<e>>)
  <2>2. one = 1
    BY <1>4
  <2>3. r = IF {k \in DOMAIN ch : Runs(v.data[ch[k]], one) # {}} # {}
            THEN Place(v, ch[Min({k \in DOMAIN ch : Runs(v.data[ch[k]], one) # {}})], <<e>>)
            ELSE IF one > Slots
            THEN [ok |-> FALSE, v |-> GrowUntilFull(v, Last(ch))]
            ELSE IF CanAlloc(v) THEN Place(g, n, <<e>>)
            ELSE [ok |-> FALSE, v |-> v]
    BY <2>1
  <2> HIDE DEF one, g, n, ch
  <2> QED
    BY <1>4, <2>2, <2>3
<1>6. /\ DOMAIN ch = 1 .. Len(ch) /\ Len(ch) \in Nat
      /\ \A j \in 1 .. Len(ch) : ch[j] \in Clusters
  BY ChainFacts
<1>7. CASE room # {}
  <2>1. room \in SUBSET Nat
    BY <1>6
  <2> DEFINE k == Min(room)
  <2>2. k \in room /\ \A j \in room : k <= j
    BY <1>7, <2>1, MinFacts
  <2>3. r = Place(v, ch[k], <<e>>)
    BY <1>5, <1>7
  <2> HIDE DEF k
  <2>4. k \in 1 .. Len(ch) /\ Runs(v.data[ch[k]], 1) # {} /\ ch[k] \in Clusters
    BY <1>6, <2>2
  <2>5. PICK s \in RunsOne(v.data[ch[k]]) :
          /\ \A t \in RunsOne(v.data[ch[k]]) : s <= t
          /\ Place(v, ch[k], <<e>>) =
               [ok |-> TRUE, v |-> WithSector(v, ch[k], SlotSet(v.data[ch[k]], s, e))]
    BY <2>4, PlaceIs
  <2>6. ASSUME NEW j \in 1 .. k - 1 PROVE RunsOne(v.data[ch[j]]) = {}
    <3>1. j \in DOMAIN ch /\ ~(k <= j)
      BY <1>6, <2>4
    <3>2. j \notin room
      BY <2>2, <3>1
    <3> QED
      BY <3>1, <3>2, RunsIs
  <2>7. FirstFree(v, ch, k, s)
    BY <2>4, <2>5, <2>6 DEF FirstFree
  <2> DEFINE v2 == WithSector(v, ch[k], SlotSet(v.data[ch[k]], s, e))
  <2>8. r.ok = TRUE /\ r.v = v2
    BY <2>3, <2>5
  <2>9. v2 = WithSector(v, Chain(v, d)[k], SlotSet(v.data[Chain(v, d)[k]], s, e))
    OBVIOUS
  <2> HIDE DEF v2
  <2>10. DirStep(v, v2, own, own, d, name, e)
    BY <1>0, <2>7, <2>9, PlaceOld
  <2> QED
    BY <2>8, <2>10 DEF e
<1>8. CASE room = {} /\ CanAlloc(v)
  <2>1. r = Place(g, n, <<e>>)
    BY <1>5, <1>8
  <2>2. \A j \in 1 .. Len(Chain(v, d)) : RunsOne(v.data[Chain(v, d)[j]]) = {}
    BY <1>6, <1>8, RunsIs
  <2>3. n \in Clusters
    BY <1>8, NewClusterFacts
  <2>4. g \in Volumes /\ g.data[n] = ZeroSector
    <3>1. Last(ch) \in Clusters
      BY <1>6, ChainFacts DEF Last
    <3> QED
      BY <1>8, <2>3, <3>1, GrowFacts
  <2>5. 0 \in RunsOne(ZeroSector) /\ \A t \in RunsOne(ZeroSector) : 0 <= t /\ t \in Nat
    BY ZeroSectorFacts, VolumeNumbers DEF RunsOne
  <2>6. PICK s \in RunsOne(g.data[n]) :
          /\ \A t \in RunsOne(g.data[n]) : s <= t
          /\ Place(g, n, <<e>>) =
               [ok |-> TRUE, v |-> WithSector(g, n, SlotSet(g.data[n], s, e))]
    <3>1. Runs(g.data[n], 1) # {}
      BY <2>4, <2>5, RunsIs
    <3> HIDE DEF g, n
    <3> QED
      BY <2>3, <2>4, <3>1, PlaceIs
  <2>7. s = 0
    BY <2>4, <2>5, <2>6
  <2> DEFINE v2 == WithSector(g, n, SlotSet(g.data[n], 0, e))
  <2>8. r.ok = TRUE /\ r.v = v2
    BY <2>1, <2>6, <2>7
  <2>9. v2 = WithSector(g, NewCluster(v), SlotSet(g.data[NewCluster(v)], 0, e))
    BY DEF v2
  <2>10. g = Grow(v, Last(Chain(v, d)))
    OBVIOUS
  <2> HIDE DEF v2, g
  <2>11. \E own2 : DirStep(v, v2, own, own2, d, name, e)
    BY <1>0, <1>8, <2>2, <2>9, <2>10, PlaceNew
  <2> QED
    BY <2>8, <2>11 DEF e
<1>9. CASE room = {} /\ ~CanAlloc(v)
  BY <1>5, <1>9
<1> QED
  BY <1>7, <1>8, <1>9

(* One unit of the directory d is overwritten where an entry is.           *)
LEMMA SlotContent ==
    ASSUME NEW v \in Volumes, NEW own, Labelled(v, own),
           NEW d \in Clusters, own[d] = d, NEW p \in DOMAIN Content(v, d),
           NEW u \in PlainUnits,
           NEW v2, v2 = WithSector(v, Chain(v, d)[SectorOf(p)],
                                   SlotSet(v.data[Chain(v, d)[SectorOf(p)]],
                                           SlotOf(p) - 1, u))
    PROVE  /\ v2 \in Volumes /\ v2.fat = v.fat /\ Labelled(v2, own)
           /\ \A x \in Clusters : own[x] # d => v2.data[x] = v.data[x]
           /\ ChangedAt(Content(v, d), Content(v2, d), p, u)
<1> DEFINE ch == Chain(v, d)
           w == Content(v, d)
           w2 == Content(v2, d)
           k == SectorOf(p)
           c == ch[k]
           sector == SlotSet(v.data[c], SlotOf(p) - 1, u)
<1>1. Len(ch) \in Nat
  BY ChainFacts
<1>2. /\ w \in Seq(PlainUnits) /\ DOMAIN w = 1 .. Len(w) /\ Len(w) \in Nat
      /\ Len(w) = Len(ch) * Slots
      /\ \A i \in 1 .. Len(w) :
            /\ SectorOf(i) \in 1 .. Len(ch) /\ SlotOf(i) \in 1 .. Slots
            /\ ch[SectorOf(i)] \in Clusters
            /\ w[i] = v.data[ch[SectorOf(i)]][SlotOf(i)]
  BY ContentIs
<1>3. p \in 1 .. Len(w)
  BY <1>2
<1>4. k \in 1 .. Len(ch) /\ c \in Clusters /\ SlotOf(p) \in 1 .. Slots
  BY <1>2, <1>3
<1>5. /\ sector \in [1 .. Slots -> PlainUnits]
      /\ \A i \in 1 .. Slots : sector[i] = IF i = (SlotOf(p) - 1) + 1 THEN u ELSE v.data[c][i]
  <2>1. v.data[c] \in [1 .. Slots -> PlainUnits]
    BY <1>4, VolumesTyped
  <2> QED
    BY <2>1, SlotSetFacts
<1>6. v2 = WithSector(v, Chain(v, d)[k], sector)
  OBVIOUS
<1> HIDE DEF sector, k
<1>7. /\ v2 \in Volumes /\ v2.fat = v.fat /\ Labelled(v2, own)
      /\ \A x \in Clusters : own[x] # d => v2.data[x] = v.data[x]
      /\ SectorPut(w, w2, k, sector)
  BY <1>4, <1>5, <1>6, SectorContent
<1> HIDE DEF ch, w, w2
<1>8. ASSUME NEW i \in 1 .. Len(w)
      PROVE  w2[i] = IF i = p THEN u ELSE w[i]
  <2>0. /\ i = (SectorOf(i) - 1) * Slots + SlotOf(i)
        /\ p = (k - 1) * Slots + SlotOf(p)
        /\ SlotOf(i) \in 1 .. Slots
    BY <1>1, <1>2, <1>3, Positions DEF k
  <2>1. CASE SectorOf(i) = k /\ SlotOf(i) = SlotOf(p)
    <3>1. i = p
      BY <2>0, <2>1
    <3>2. w2[i] = sector[SlotOf(p)]
      BY <1>7, <2>1 DEF SectorPut
    <3> QED
      BY <1>4, <1>5, <3>1, <3>2
  <2>2. CASE SectorOf(i) = k /\ SlotOf(i) # SlotOf(p)
    <3>1. i # p
      BY <2>2
    <3>2. w2[i] = sector[SlotOf(i)]
      BY <1>7, <2>2 DEF SectorPut
    <3>3. sector[SlotOf(i)] = v.data[c][SlotOf(i)]
      BY <1>4, <1>5, <2>0, <2>2
    <3> QED
      BY <1>2, <2>2, <3>1, <3>2, <3>3
  <2>3. CASE SectorOf(i) # k
    BY <1>7, <2>3 DEF SectorPut, k
  <2> QED
    BY <2>1, <2>2, <2>3
<1>9. ChangedAt(w, w2, p, u)
  BY <1>7, <1>8 DEF SectorPut, ChangedAt
<1> QED
  BY <1>7, <1>9 DEF w, w2

LEMMA ChangedStep ==
    ASSUME NEW v \in Volumes, NEW own, Labelled(v, own),
           NEW d \in Clusters, own[d] = d, DirOK(v, d), NEW name,
           NEW p \in DOMAIN Content(v, d), HasName(Content(v, d), p, name),
           NEW u, u = Deleted \/ (u \in Entries /\ u.short = <<name, 0>>),
           NEW v2, v2 = WithSector(v, Chain(v, d)[SectorOf(p)],
                                   SlotSet(v.data[Chain(v, d)[SectorOf(p)]],
                                           SlotOf(p) - 1, u))
    PROVE  DirStep(v, v2, own, own, d, name, IF u = Deleted THEN NoEntry ELSE u)
<1> DEFINE w == Content(v, d)
           w2 == Content(v2, d)
<1>1. w \in Seq(PlainUnits) /\ DOMAIN w = 1 .. Len(w)
  BY ContentIs
<1>2. u \in PlainUnits
  BY DEF PlainUnits
<1>3. /\ v2 \in Volumes /\ v2.fat = v.fat /\ Labelled(v2, own)
      /\ \A x \in Clusters : own[x] # d => v2.data[x] = v.data[x]
      /\ ChangedAt(w, w2, p, u)
  BY <1>2, SlotContent
<1>4. DirForm(w) /\ p \in 1 .. Len(w) /\ HasName(w, p, name)
  BY <1>1 DEF DirOK
<1> HIDE DEF w, w2
<1>5. /\ DirForm(w2) /\ OthersKept(w, w2, name)
      /\ \A i \in DOMAIN w2 : HasName(w2, i, name) => i = p
  BY <1>1, <1>3, <1>4, ChangedForm
<1>6. DirOK(v2, d)
  BY <1>5 DEF DirOK, w2
<1>8. w2 \in Seq(PlainUnits) /\ p \in DOMAIN w2 /\ w2[p] = u
  BY <1>1, <1>3, <1>4 DEF ChangedAt
<1>7. \A n : n # name => FindEntry(v2, d, n) = FindEntry(v, d, n)
  BY <1>1, <1>8, <1>5, <1>6, LookSame DEF w, w2
<1>9. CASE u = Deleted
  <2>1. \A i \in DOMAIN w2 : ~HasName(w2, i, name)
    BY <1>5, <1>8, <1>9, KindFacts DEF HasName
  <2>2. FindEntry(v2, d, name) = NoEntry
    BY <1>6, <1>8, <2>1, LookNone DEF w2
  <2> QED
    BY <1>3, <1>6, <1>7, <1>9, <2>2 DEF DirStep
<1>10. CASE u # Deleted
  <2>1. HasName(w2, p, name)
    BY <1>8, <1>10, KindFacts DEF HasName
  <2>2. FindEntry(v2, d, name) = u
    BY <1>6, <1>8, <2>1, LookAt DEF w2
  <2> QED
    BY <1>3, <1>6, <1>7, <1>10, <2>2 DEF DirStep
<1> QED
  BY <1>9, <1>10

(* update_dir_entry_size, for a name that the directory has.               *)
LEMMA UpdateEntry ==
    ASSUME NEW v \in Volumes, NEW own, Labelled(v, own),
           NEW d \in Clusters, own[d] = d, DirOK(v, d), NEW name \in Names,
           NEW e, e = FindEntry(v, d, name), e # NoEntry,
           NEW cl \in Clusters \cup {0}, NEW sz \in 0 .. MaxOffset,
           NEW r, r = UpdateDirEntrySize(v, d, name, sz, cl)
    PROVE  \/ /\ r.v = v
              /\ ~NamedInFull(Walked(v, d), Matches(v, d, name))
           \/ DirStep(v, r.v, own, own, d, name, Entry(<<name, 0>>, e.dir, cl, sz))
<1> DEFINE w == Content(v, d)
           ch == Chain(v, d)
           u == Entry(<<name, 0>>, e.dir, cl, sz)
<1>0. w \in Seq(PlainUnits)
  BY ContentIs
<1>1. DOMAIN w = 1 .. Len(ch) * Slots /\ Len(ch) \in Nat
  BY ContentIs, ChainFacts
<1>2. PICK p \in DOMAIN w : HasName(w, p, name) /\ e = w[p] /\ e \in Entries
                            /\ e.short = <<name, 0>>
  BY <1>0, LookCases
<1>3. Matches(v, d, name) = {p}
  BY <1>0, <1>2, LookAt
<1>4. p \in Nat /\ Min({p}) = p
  BY <1>0, MinOfOne
<1> DEFINE k == SectorOf(p)
           c == ch[k]
           v2 == UpdateAt(v, c, k, {p}, sz, cl)
<1>5. (r.v = v /\ ~NamedInFull(Walked(v, d), Matches(v, d, name))) \/ r.v = v2
  <2>1. r = UpdateFirst(v, ch, Walked(v, d), {p}, sz, cl)
    BY <1>3 DEF UpdateDirEntrySize
  <2>2. {p} # {}
    OBVIOUS
  <2>3. r = IF ~InFull(Walked(v, d), {p}) THEN [ok |-> TRUE, v |-> v]
            ELSE [ok |-> TRUE, v |-> v2]
    BY <1>4, <2>1, <2>2 DEF UpdateFirst
  <2> HIDE DEF v2
  <2> QED
    BY <1>3, <2>3 DEF NamedInFull
<1>6. e.dir \in BOOLEAN
  BY <1>2 DEF Entries
<1>7. u \in Entries /\ u.short = <<name, 0>>
  BY <1>6, EntryIs
<1>8. /\ k \in 1 .. Len(ch) /\ SlotOf(p) \in 1 .. Slots /\ c \in Clusters
      /\ w[p] = v.data[c][SlotOf(p)]
      /\ p = (k - 1) * Slots + SlotOf(p)
  BY <1>1, ContentIs, Positions
<1>9. v2 = WithSector(v, c, SlotSet(v.data[c], SlotOf(p) - 1, u))
  <2> DEFINE old == v.data[c]
             new == [i \in 1 .. Slots |->
                       IF (k - 1) * Slots + i \in {p}
                       THEN Entry(old[i].short, old[i].dir, cl, sz) ELSE old[i]]
  <2>1. v2 = WithSector(v, c, new)
    BY DEF UpdateAt, WithSector
  <2>2. \A i \in 1 .. Slots : (k - 1) * Slots + i \in {p} <=> i = (SlotOf(p) - 1) + 1
    <3> DEFINE base == (k - 1) * Slots
    <3>1. base \in Nat
      <4>1. k - 1 \in Nat
        BY <1>1, <1>8
      <4> HIDE DEF k
      <4> QED
        BY <4>1, VolumeNumbers
    <3>2. p = base + SlotOf(p) /\ SlotOf(p) \in 1 .. Slots
      BY <1>8
    <3> HIDE DEF base
    <3>3. \A i \in 1 .. Slots : base + i \in {p} <=> i = (SlotOf(p) - 1) + 1
      BY <3>1, <3>2, VolumeNumbers
    <3> QED
      BY <3>3 DEF base
  <2>3. old[SlotOf(p)] = e
    BY <1>2, <1>8
  <2>4. \A i \in 1 .. Slots :
           (IF (k - 1) * Slots + i \in {p}
            THEN Entry(old[i].short, old[i].dir, cl, sz) ELSE old[i])
           = (IF i = (SlotOf(p) - 1) + 1 THEN u ELSE old[i])
    <3> TAKE i \in 1 .. Slots
    <3>1. CASE i = (SlotOf(p) - 1) + 1
      <4>1. i = SlotOf(p)
        BY <1>8, <3>1
      <4>2. old[i].short = <<name, 0>> /\ old[i].dir = e.dir
        BY <1>2, <2>3, <4>1, Zenon
      <4>3. Entry(old[i].short, old[i].dir, cl, sz) = u
        BY <4>2, Zenon
      <4> QED
        BY <2>2, <3>1, <4>3, Zenon
    <3>2. CASE i # (SlotOf(p) - 1) + 1
      BY <2>2, <3>2, Zenon
    <3> QED
      BY <3>1, <3>2
  <2> HIDE DEF old, u
  <2>5. new = SlotSet(old, SlotOf(p) - 1, u)
    BY <2>4 DEF SlotSet
  <2> QED
    BY <2>1, <2>5 DEF old
<1> HIDE DEF v2, u
<1>10. DirStep(v, v2, own, own, d, name, u)
  <2>1. v2 = WithSector(v, Chain(v, d)[SectorOf(p)],
                        SlotSet(v.data[Chain(v, d)[SectorOf(p)]], SlotOf(p) - 1, u))
    BY <1>9
  <2>2. u # Deleted
    BY <1>7, KindFacts
  <2>3. DirStep(v, v2, own, own, d, name, IF u = Deleted THEN NoEntry ELSE u)
    BY <1>2, <1>7, <2>1, ChangedStep
  <2> QED
    BY <2>2, <2>3
<1> QED
  BY <1>5, <1>10 DEF u

(* delete_dir_entry, for a name that the directory has.                    *)
LEMMA DeleteEntry ==
    ASSUME NEW v \in Volumes, NEW own, Labelled(v, own),
           NEW d \in Clusters, own[d] = d, DirOK(v, d), NEW name,
           FindEntry(v, d, name) # NoEntry,
           NEW v2, v2 = DeleteDirEntry(v, d, name)
    PROVE  DirStep(v, v2, own, own, d, name, NoEntry)
<1> DEFINE w == Content(v, d)
           ch == Chain(v, d)
<1>0. w \in Seq(PlainUnits)
  BY ContentIs
<1>1. DOMAIN w = 1 .. Len(ch) * Slots
  BY ContentIs
<1>2. PICK p \in DOMAIN w : HasName(w, p, name)
  BY <1>0, LookCases
<1>3. Matches(v, d, name) = {p}
  BY <1>0, <1>2, LookAt
<1>4. p \in Nat /\ Min({p}) = p
  BY <1>0, MinOfOne
<1> DEFINE c == ch[SectorOf(p)]
<1>5. c \in Clusters /\ SlotOf(p) \in 1 .. Slots
  BY <1>1, ContentIs
<1>6. v2 = MarkDeleted(v, ch, p)
  BY <1>3, <1>4 DEF DeleteDirEntry
<1>7. v2 = WithSector(v, c, SlotSet(v.data[c], SlotOf(p) - 1, Deleted))
  <2> DEFINE old == v.data[c]
             at == SlotOf(p)
  <2>1. v2 = [v EXCEPT !.data[c] = [old EXCEPT ![at] = Deleted]]
    BY <1>6 DEF MarkDeleted
  <2>2. old \in [1 .. Slots -> PlainUnits]
    BY <1>5, VolumesTyped
  <2> HIDE DEF old, at
  <2>3. [old EXCEPT ![at] = Deleted] = SlotSet(old, at - 1, Deleted)
    <3>1. at \in 1 .. Slots /\ (at - 1) + 1 = at
      BY <1>5, VolumeNumbers DEF at
    <3> QED
      BY <2>2, <3>1 DEF SlotSet
  <2> QED
    BY <2>1, <2>3 DEF old, at, WithSector
<1>8. DirStep(v, v2, own, own, d, name, IF Deleted = Deleted THEN NoEntry ELSE Deleted)
  BY <1>2, <1>7, ChangedStep
<1> QED
  BY <1>8

-----------------------------------------------------------------------------
(* Writing.                                                                *)

LEMMA MinTwo ==
    ASSUME NEW a \in Int, NEW b \in Int
    PROVE  Min({a, b}) = IF a <= b THEN a ELSE b
<1> DEFINE m == IF a <= b THEN a ELSE b
<1>1. m \in {a, b} /\ \A y \in {a, b} : m <= y
  OBVIOUS
<1>2. \A x \in {a, b} : (\A y \in {a, b} : x <= y) => x = m
  OBVIOUS
<1> QED
  BY <1>1, <1>2 DEF Min

LEMMA MaxTwo ==
    ASSUME NEW a \in Int, NEW b \in Int
    PROVE  Max({a, b}) = IF a >= b THEN a ELSE b
<1> DEFINE m == IF a >= b THEN a ELSE b
<1>1. m \in {a, b} /\ \A y \in {a, b} : m >= y
  OBVIOUS
<1>2. \A x \in {a, b} : (\A y \in {a, b} : x >= y) => x = m
  OBVIOUS
<1> QED
  BY <1>1, <1>2 DEF Max

LEMMA Division ==
    ASSUME NEW a \in Nat
    PROVE  /\ a \div Slots \in Nat /\ a % Slots \in 0 .. Slots - 1
           /\ (a \div Slots) * Slots \in Nat
           /\ a = (a \div Slots) * Slots + (a % Slots)
<1>1. Slots \in Nat /\ Slots >= 1
  BY VolumeNumbers
<1>2. a \div Slots \in Nat
  BY <1>1
<1>3. a % Slots \in 0 .. Slots - 1
  BY <1>1
<1>4. a = (a \div Slots) * Slots + (a % Slots)
  BY <1>1
<1>5. (a \div Slots) * Slots \in Nat
  BY <1>1, <1>2
<1> QED
  BY <1>2, <1>3, <1>4, <1>5

(* The sector with what falls on it.                                       *)
LEMMA PatchedFacts ==
    ASSUME NEW old \in [1 .. Slots -> PlainUnits], NEW off \in Nat,
           NEW buf \in Seq(PlainUnits), NEW k \in Nat, k > off \div Slots
    PROVE  Patched(old, off, buf, k) \in [1 .. Slots -> PlainUnits]
<1> DEFINE q == off \div Slots
           r == off % Slots
           base == (k - 1) * Slots
           start == IF k = q + 1 THEN r ELSE 0
           end == Min({Slots, off + Len(buf) - base})
<1>1. q \in Nat /\ r \in 0 .. Slots - 1 /\ q * Slots \in Nat /\ off = q * Slots + r
  BY Division
<1>2. Slots \in Nat /\ Slots >= 1 /\ Len(buf) \in Nat
  BY VolumeNumbers
<1> HIDE DEF q, r
<1>3. base \in Int /\ base = q * Slots + (k - 1 - q) * Slots
  BY <1>1, <1>2
<1>4. k = q + 1 \/ (k - 1 - q) * Slots >= Slots
  BY <1>1, <1>2 DEF q
<1>5. base + start >= off
  <2>1. CASE k = q + 1
    BY <1>1, <1>2, <1>3, <2>1
  <2>2. CASE (k - 1 - q) * Slots >= Slots
    <3> DEFINE x == (k - 1 - q) * Slots
               y == q * Slots
    <3>1. base = y + x /\ x >= Slots /\ off = y + r /\ r < Slots /\ x \in Int /\ y \in Nat /\ r \in Nat
      BY <1>1, <1>2, <1>3, <2>2
    <3>2. start \in Nat
      BY <1>1
    <3> HIDE DEF x, y, base, start
    <3> QED
      BY <3>1, <3>2, <1>2
  <2> QED
    BY <1>4, <2>1, <2>2
<1>6. start \in Nat
  BY <1>1
<1> HIDE DEF base, start
<1>7. end <= off + Len(buf) - base /\ end \in Int
  <2> DEFINE z == off + Len(buf) - base
  <2>1. z \in Int /\ Slots \in Int
    BY <1>2, <1>3
  <2> HIDE DEF z
  <2>2. Min({Slots, z}) = IF Slots <= z THEN Slots ELSE z
    BY <2>1, MinTwo
  <2> QED
    BY <2>1, <2>2 DEF z
<1> HIDE DEF end
<1>8. ASSUME NEW u \in 1 .. Slots, start < u, u <= end
      PROVE  buf[base + u - off] \in PlainUnits
  <2>1. base + u - off \in 1 .. Len(buf)
    BY <1>2, <1>3, <1>5, <1>6, <1>7, <1>8, SMTT(30)
  <2> QED
    BY <2>1
<1>9. Zero \in PlainUnits
  BY DEF PlainUnits
<1> QED
  BY <1>8, <1>9 DEF Patched, base, start, end, q, r

(* A step on the chain of h: it may take clusters that belong to no chain, *)
(* and leaves all other chains as they are.                                *)
Keeps(v, v2, own, own2, h) ==
    /\ \A c \in Clusters : own[c] # 0 => own2[c] = own[c]
    /\ \A c \in Clusters : own[c] = 0 => own2[c] \in {0, h}
    /\ \A c \in Clusters : own[c] # 0 /\ own[c] # h =>
           v2.fat[c] = v.fat[c] /\ v2.data[c] = v.data[c]

LEMMA KeepsTwice ==
    ASSUME NEW v, NEW v2, NEW v3, NEW own, NEW own2, NEW own3, NEW h \in Clusters,
           Keeps(v, v2, own, own2, h), Keeps(v2, v3, own2, own3, h)
    PROVE  Keeps(v, v3, own, own3, h)
<1>1. h # 0
  BY VolumeNumbers
<1> QED
  BY <1>1 DEF Keeps

(* The state of the loop of write_file on the chain of h, at its k-th      *)
(* cluster or at the last one before the volume was full.                  *)
LoopState(s, k) ==
    /\ s.v \in Volumes /\ s.at \in Clusters
    /\ s.full \in BOOLEAN
    /\ s.n \in Nat /\ s.n >= 1
    /\ ~s.full => s.n = k
    /\ s.full => s.n < k

LoopLabels(v, own, h, s) ==
    /\ v.fat[h] = Eoc => s.v.fat[s.at] = Eoc
    /\ \E own2 : Labelled(s.v, own2) /\ own2[s.at] = h /\ Keeps(v, s.v, own, own2, h)

LoopOK(v, own, h, s, k) ==
    /\ LoopState(s, k) /\ LoopLabels(v, own, h, s)
    /\ s = [v |-> s.v, at |-> s.at, n |-> s.n, full |-> s.full]

LEMMA ArriveStep ==
    ASSUME NEW v, NEW own, NEW h \in Clusters, own[h] = h,
           NEW s, NEW k \in Nat, LoopOK(v, own, h, s, k),
           NEW s2, s2 = Arrive(s)
    PROVE  LoopOK(v, own, h, s2, k + 1)
<1> USE DEF LoopOK
<1>1. PICK own2 : Labelled(s.v, own2) /\ own2[s.at] = h /\ Keeps(v, s.v, own, own2, h)
  BY DEF LoopLabels
<1>0. h # 0 /\ s.at \in Clusters /\ s.v \in Volumes
  BY VolumeNumbers DEF LoopState
<1>2. CASE s.full
  <2>1. s2 = s
    BY <1>2 DEF Arrive
  <2>2. s.n \in Nat /\ s.n < k
    BY <1>2 DEF LoopState
  <2>3. s.n < k + 1
    BY <2>2
  <2>4. LoopState(s, k + 1)
    BY <1>2, <2>3 DEF LoopState
  <2> QED
    BY <2>1, <2>4
<1>3. CASE ~s.full /\ Continues(s.v, s.at)
  <2>1. s2 = [v |-> s.v, at |-> s.v.fat[s.at], n |-> s.n + 1, full |-> s.full]
    BY <1>3 DEF Arrive
  <2>2. s2.v = s.v /\ s2.at = s.v.fat[s.at] /\ s2.n = s.n + 1 /\ s2.full = s.full
    BY <2>1
  <2>3. s2.at \in Clusters
    BY <1>3, <2>2, ContinuesIn
  <2>4. own2[s2.at] = h
    BY <1>0, <1>1, <2>2, <2>3 DEF Labelled
  <2>5. v.fat[h] # Eoc
    <3>1. s.v.fat[s.at] # Eoc
      BY <2>2, <2>3, VolumeNumbers
    <3> QED
      BY <3>1 DEF LoopLabels
  <2>6. LoopState(s2, k + 1)
    BY <1>3, <2>2, <2>3 DEF LoopState
  <2>7. LoopLabels(v, own, h, s2)
    BY <1>1, <2>2, <2>4, <2>5 DEF LoopLabels
  <2> QED
    BY <2>1, <2>2, <2>6, <2>7
<1>4. CASE ~s.full /\ ~Continues(s.v, s.at) /\ CanAlloc(s.v)
  <2> DEFINE g == Grow(s.v, s.at)
             n == NewCluster(s.v)
             own3 == [c \in Clusters |-> IF c = n THEN h ELSE own2[c]]
  <2>1. s2 = [v |-> g, at |-> n, n |-> s.n + 1, full |-> s.full]
    BY <1>4 DEF Arrive
  <2>2. s2.v = g /\ s2.at = n /\ s2.n = s.n + 1 /\ s2.full = s.full
    BY <2>1
  <2>3. n \in Clusters /\ s.v.fat[n] = Free
    BY <1>4, NewClusterFacts
  <2>4. /\ g \in Volumes
        /\ \A c \in Clusters :
             /\ g.fat[c] = IF c = s.at THEN n ELSE IF c = n THEN Eoc ELSE s.v.fat[c]
             /\ g.data[c] = IF c = n THEN ZeroSector ELSE s.v.data[c]
    BY <1>0, <1>4, GrowFacts
  <2> HIDE DEF g, n
  <2>5. own2[n] = 0 /\ n # s.at
    BY <1>0, <1>1, <2>3 DEF Labelled
  <2>6. /\ own3 \in [Clusters -> Clusters \cup {0}]
        /\ \A c \in Clusters : own3[c] = IF c = n THEN h ELSE own2[c]
    BY <1>1 DEF Labelled
  <2> HIDE DEF own3
  <2>7. own2[h] = h
    BY <1>0, <1>1 DEF Keeps
  <2>8. Labelled(g, own3)
    <3>1. g.fat[s.at] = n /\ g.fat[n] = Eoc /\ own3[n] = h
      BY <1>0, <2>3, <2>4, <2>5, <2>6
    <3>2. \A c \in Clusters : c # n /\ c # s.at => g.fat[c] = s.v.fat[c]
      BY <2>4
    <3>3. \A c \in Clusters : c # n => own3[c] = own2[c]
      BY <2>6
    <3> QED
      BY <1>0, <1>1, <2>3, <2>6, <2>7, <3>1, <3>2, <3>3, LabelGrow
  <2>9. Keeps(s.v, g, own2, own3, h)
    <3>1. \A c \in Clusters : own2[c] # 0 => own3[c] = own2[c]
      BY <2>5, <2>6
    <3>2. \A c \in Clusters : own2[c] = 0 => own3[c] \in {0, h}
      BY <2>6
    <3>3. \A c \in Clusters : own2[c] # 0 /\ own2[c] # h =>
              g.fat[c] = s.v.fat[c] /\ g.data[c] = s.v.data[c]
      BY <1>1, <2>4, <2>5
    <3> QED
      BY <3>1, <3>2, <3>3 DEF Keeps
  <2>10. Keeps(v, g, own, own3, h)
    BY <1>1, <2>9, KeepsTwice
  <2>11. g.fat[n] = Eoc /\ own3[n] = h
    BY <2>3, <2>4, <2>5, <2>6
  <2>12. LoopState(s2, k + 1)
    BY <1>4, <2>2, <2>3, <2>4 DEF LoopState
  <2>13. LoopLabels(v, own, h, s2)
    BY <2>2, <2>8, <2>10, <2>11 DEF LoopLabels
  <2> QED
    BY <2>1, <2>2, <2>12, <2>13
<1>5. CASE ~s.full /\ ~Continues(s.v, s.at) /\ ~CanAlloc(s.v)
  <2>1. s2 = [v |-> s.v, at |-> s.at, n |-> s.n, full |-> TRUE]
    BY <1>5 DEF Arrive
  <2>2. s2.v = s.v /\ s2.at = s.at /\ s2.n = s.n /\ s2.full = TRUE
    BY <2>1
  <2>5. s.n \in Nat /\ s.n = k
    BY <1>5 DEF LoopState
  <2>6. s.n < k + 1
    BY <2>5
  <2>3. LoopState(s2, k + 1)
    BY <1>5, <2>2, <2>6 DEF LoopState
  <2>4. LoopLabels(v, own, h, s2)
    BY <2>2 DEF LoopLabels
  <2> QED
    BY <2>1, <2>2, <2>3, <2>4
<1>6. s.full \in BOOLEAN
  BY DEF LoopState
<1> QED
  BY <1>2, <1>3, <1>4, <1>5, <1>6

LEMMA PutStep ==
    ASSUME NEW v, NEW own, NEW h \in Clusters, own[h] = h,
           NEW s, NEW k \in Nat, LoopOK(v, own, h, s, k),
           NEW off \in Nat, NEW buf \in Seq(PlainUnits),
           NEW s2, s2 = Put(s, off, buf)
    PROVE  LoopOK(v, own, h, s2, k)
<1> USE DEF LoopOK
<1>1. CASE s.full \/ s.n <= off \div Slots \/ buf = <<>>
  <2>1. s2 = s
    BY <1>1 DEF Put
  <2> QED
    BY <2>1
<1>2. CASE ~(s.full \/ s.n <= off \div Slots \/ buf = <<>>)
  <2> DEFINE sector == Patched(s.v.data[s.at], off, buf, s.n)
             w == WithSector(s.v, s.at, sector)
  <2>1. s2 = [s EXCEPT !.v = w]
    BY <1>2 DEF Put, WithSector
  <2>2. s2 = [v |-> w, at |-> s.at, n |-> s.n, full |-> s.full]
    BY <2>1
  <2>3. s.v \in Volumes /\ s.at \in Clusters /\ s.n \in Nat
    BY DEF LoopState
  <2>4. s.v.data[s.at] \in [1 .. Slots -> PlainUnits]
    BY <2>3, VolumesTyped
  <2>5. s.n > off \div Slots
    BY <1>2, <2>3, Division
  <2>6. sector \in [1 .. Slots -> PlainUnits]
    BY <2>3, <2>4, <2>5, PatchedFacts
  <2> HIDE DEF sector
  <2>7. /\ w \in Volumes /\ w.fat = s.v.fat
        /\ \A d \in Clusters : w.data[d] = IF d = s.at THEN sector ELSE s.v.data[d]
    BY <2>3, <2>6, WithSectorFacts
  <2> HIDE DEF w
  <2>8. s2.v = w /\ s2.at = s.at /\ s2.n = s.n /\ s2.full = s.full
    BY <2>2
  <2>9. LoopState(s2, k)
    BY <2>7, <2>8 DEF LoopState
  <2>10. PICK own2 : Labelled(s.v, own2) /\ own2[s.at] = h /\ Keeps(v, s.v, own, own2, h)
    BY DEF LoopLabels
  <2>11. Labelled(w, own2)
    BY <2>7, <2>10, LabelledByFat
  <2>12. Keeps(s.v, w, own2, own2, h)
    BY <2>7, <2>10 DEF Keeps
  <2>13. Keeps(v, w, own, own2, h)
    BY <2>10, <2>12, KeepsTwice
  <2>14. LoopLabels(v, own, h, s2)
    BY <2>7, <2>8, <2>10, <2>11, <2>13 DEF LoopLabels
  <2> QED
    BY <2>2, <2>8, <2>9, <2>14
<1> QED
  BY <1>1, <1>2

(* The loop of write_file, from its first cluster to the n-th.             *)
FirstPut(v, c, off, buf) ==
    Put([v |-> v, at |-> c, n |-> 1, full |-> FALSE], off, buf)

IsLoop(v, c, off, buf, f, n) ==
    f = [k \in 1 .. n |-> IF k = 1 THEN FirstPut(v, c, off, buf)
                          ELSE Put(Arrive(f[k - 1]), off, buf)]

LoopOf(v, c, off, buf, n) ==
    CHOOSE f : f = [k \in 1 .. n |-> IF k = 1 THEN FirstPut(v, c, off, buf)
                                     ELSE Put(Arrive(f[k - 1]), off, buf)]

LEMMA LoopExists ==
    ASSUME NEW v, NEW c, NEW off, NEW buf, NEW n \in Nat
    PROVE  \E f : IsLoop(v, c, off, buf, f, n)
<1> DEFINE B == {m \in Nat : ~\E f : IsLoop(v, c, off, buf, f, m)}
<1> SUFFICES ASSUME B # {} PROVE FALSE
  OBVIOUS
<1>1. PICK m \in B : \A e \in B : m <= e
  BY LeastIn
<1>2. m # 0
  <2> DEFINE f == [k \in 1 .. 0 |-> 0]
  <2>1. f = [k \in 1 .. 0 |-> IF k = 1 THEN FirstPut(v, c, off, buf)
                              ELSE Put(Arrive(f[k - 1]), off, buf)]
    OBVIOUS
  <2>2. IsLoop(v, c, off, buf, f, 0)
    BY <2>1 DEF IsLoop
  <2> QED
    BY <2>2
<1>3. m - 1 \in Nat /\ m - 1 \notin B
  BY <1>1, <1>2
<1>4. PICK g : IsLoop(v, c, off, buf, g, m - 1)
  BY <1>3
<1>9. \A k \in 1 .. m - 1 : g[k] = IF k = 1 THEN FirstPut(v, c, off, buf)
                                   ELSE Put(Arrive(g[k - 1]), off, buf)
  BY <1>4 DEF IsLoop
<1> DEFINE last == IF m = 1 THEN FirstPut(v, c, off, buf)
                   ELSE Put(Arrive(g[m - 1]), off, buf)
<1> DEFINE f == [k \in 1 .. m |-> IF k = m THEN last ELSE g[k]]
<1>5. \A k \in 1 .. m : f[k] = IF k = 1 THEN FirstPut(v, c, off, buf)
                               ELSE Put(Arrive(f[k - 1]), off, buf)
  <2> TAKE k \in 1 .. m
  <2>1. CASE k = m
    BY <2>1
  <2>2. CASE k # m
    BY <1>9, <2>2
  <2> QED
    BY <2>1, <2>2
<1>6. f = [k \in 1 .. m |-> IF k = 1 THEN FirstPut(v, c, off, buf)
                            ELSE Put(Arrive(f[k - 1]), off, buf)]
  BY <1>5
<1>7. IsLoop(v, c, off, buf, f, m)
  BY <1>6 DEF IsLoop
<1> QED
  BY <1>7

LEMMA LoopIs ==
    ASSUME NEW v, NEW c, NEW off, NEW buf, NEW n \in Nat
    PROVE  IsLoop(v, c, off, buf, LoopOf(v, c, off, buf, n), n)
<1>1. \E f : f = [k \in 1 .. n |-> IF k = 1 THEN FirstPut(v, c, off, buf)
                                   ELSE Put(Arrive(f[k - 1]), off, buf)]
  <2>1. PICK f : IsLoop(v, c, off, buf, f, n)
    BY LoopExists
  <2> QED
    BY <2>1 DEF IsLoop
<1> QED
  BY <1>1 DEF LoopOf, IsLoop

NeededFor(off, buf) == Max({off, off + Len(buf) - 1}) \div Slots + 1

LEMMA WriteByLoop ==
    ASSUME NEW v, NEW c, NEW off, NEW buf
    PROVE  WriteFile(v, c, off, buf) =
             WriteReply(LoopOf(v, c, off, buf, NeededFor(off, buf))[NeededFor(off, buf)],
                        c, off, buf)
BY DEF WriteFile, LoopOf, NeededFor, FirstPut

LEMMA LoopInvariant ==
    ASSUME NEW v \in Volumes, NEW own, Labelled(v, own), NEW h \in Clusters, own[h] = h,
           NEW off \in Nat, NEW buf \in Seq(PlainUnits), NEW n \in Nat, n >= 1,
           NEW f, IsLoop(v, h, off, buf, f, n)
    PROVE  LoopOK(v, own, h, f[n], n)
<1> DEFINE s0 == [v |-> v, at |-> h, n |-> 1, full |-> FALSE]
           D == {k \in 1 .. n : LoopOK(v, own, h, f[k], k)}
<1>1. f[1] = Put(s0, off, buf)
  BY DEF IsLoop, FirstPut
<1>2. LoopOK(v, own, h, s0, 1)
  <2>1. s0.v = v /\ s0.at = h /\ s0.n = 1 /\ s0.full = FALSE
    OBVIOUS
  <2>2. LoopState(s0, 1)
    BY <2>1 DEF LoopState
  <2>3. Keeps(v, v, own, own, h)
    BY DEF Keeps
  <2>4. LoopLabels(v, own, h, s0)
    BY <2>1, <2>3 DEF LoopLabels
  <2> QED
    BY <2>1, <2>2, <2>4 DEF LoopOK
<1> HIDE DEF s0
<1>3. LoopOK(v, own, h, f[1], 1)
  BY <1>1, <1>2, PutStep
<1>4. ASSUME NEW k \in 1 .. n - 1, LoopOK(v, own, h, f[k], k)
      PROVE  LoopOK(v, own, h, f[k + 1], k + 1)
  <2>1. f[k + 1] = Put(Arrive(f[k]), off, buf)
    BY DEF IsLoop
  <2>2. k \in Nat /\ k + 1 \in Nat
    OBVIOUS
  <2> DEFINE s == f[k]
             t == Arrive(s)
  <2>3. LoopOK(v, own, h, t, k + 1)
    BY <1>4, <2>2, ArriveStep
  <2> HIDE DEF t
  <2> QED
    BY <2>1, <2>2, <2>3, PutStep DEF t
<1>5. 1 \in D
  BY <1>3
<1>6. \A k \in 1 .. n - 1 : k \in D => k + 1 \in D
  BY <1>4
<1> HIDE DEF D
<1>7. 1 .. n \subseteq D
  BY <1>5, <1>6, CountUp
<1> QED
  BY <1>7 DEF D

LEMMA WrittenBound ==
    ASSUME NEW off \in Nat, NEW buf \in Seq(PlainUnits), NEW n \in Nat,
           n < NeededFor(off, buf)
    PROVE  Max({0, n * Slots - off}) \in 0 .. Len(buf)
<1> DEFINE b == Len(buf)
           x == IF off >= off + b - 1 THEN off ELSE off + b - 1
           q == x \div Slots
<1>1. b \in Nat /\ Slots \in Nat /\ Slots >= 1
  BY VolumeNumbers
<1>2. x \in Nat /\ Max({off, off + b - 1}) = x
  BY <1>1, MaxTwo
<1>3. x <= off + b
  BY <1>1
<1> HIDE DEF b, x
<1>4. q \in Nat /\ q * Slots \in Nat /\ q * Slots <= x
  <2>1. q * Slots \in Nat /\ x = q * Slots + (x % Slots) /\ x % Slots \in Nat /\ q \in Nat
    BY <1>2, Division
  <2> DEFINE y == q * Slots
             z == x % Slots
  <2> HIDE DEF y, z
  <2> QED
    BY <2>1, <1>2 DEF y, z
<1>5. n <= q
  <2>1. n < q + 1
    BY <1>2 DEF NeededFor, b
  <2> HIDE DEF q
  <2> QED
    BY <1>4, <2>1
<1> HIDE DEF q
<1>6. n * Slots <= q * Slots /\ n * Slots \in Nat
  BY <1>1, <1>4, <1>5
<1> DEFINE y == n * Slots
           z == q * Slots
<1>7. y \in Nat /\ z \in Nat /\ y <= z /\ z <= x
  BY <1>4, <1>6
<1> HIDE DEF y, z
<1>8. Max({0, y - off}) = IF 0 >= y - off THEN 0 ELSE y - off
  BY <1>7, MaxTwo
<1>9. Max({0, y - off}) \in 0 .. b
  BY <1>1, <1>2, <1>3, <1>7, <1>8
<1> QED
  BY <1>9 DEF y, b

LEMMA NeededPositive ==
    ASSUME NEW off \in Nat, NEW buf \in Seq(PlainUnits)
    PROVE  NeededFor(off, buf) \in Nat /\ NeededFor(off, buf) >= 1
<1> DEFINE x == IF off >= off + Len(buf) - 1 THEN off ELSE off + Len(buf) - 1
<1>1. Len(buf) \in Nat
  OBVIOUS
<1>2. x \in Nat /\ Max({off, off + Len(buf) - 1}) = x
  BY <1>1, MaxTwo
<1>3. x \div Slots \in Nat
  BY <1>2, Division
<1> QED
  BY <1>2, <1>3 DEF NeededFor

(* The end of the chain that a write starts on when the chain is new.      *)
EndsAt(v, v2, h, x) == v.fat[h] = Eoc => x = h \/ v2.fat[x] = Eoc

(* What write_file replies, and does, on the chain of h.                   *)
Wrote(v, own, h, buf, r) ==
    /\ r.ok = TRUE /\ r.written \in 0 .. Len(buf)
    /\ r.v \in Volumes /\ r.last \in Clusters
    /\ EndsAt(v, r.v, h, r.last)
    /\ \E own2 : /\ Labelled(r.v, own2) /\ own2[r.last] = h
                 /\ Keeps(v, r.v, own, own2, h)

LEMMA WriteChain ==
    ASSUME NEW v \in Volumes, NEW own, Labelled(v, own), NEW h \in Clusters, own[h] = h,
           NEW off \in Nat, NEW buf \in Seq(PlainUnits),
           NEW r, r = WriteFile(v, h, off, buf)
    PROVE  Wrote(v, own, h, buf, r)
<1> DEFINE n == NeededFor(off, buf)
           f == LoopOf(v, h, off, buf, n)
           s == f[n]
<1>1. n \in Nat /\ n >= 1
  BY NeededPositive
<1>2. r = WriteReply(s, h, off, buf)
  BY WriteByLoop
<1>3. IsLoop(v, h, off, buf, f, n)
  BY <1>1, LoopIs
<1> HIDE DEF n, f
<1>4. LoopOK(v, own, h, s, n)
  BY <1>1, <1>3, LoopInvariant
<1> HIDE DEF s
<1>5. /\ r.ok = TRUE /\ r.v = s.v
      /\ r.written = IF ~s.full THEN Len(buf) ELSE Max({0, s.n * Slots - off})
      /\ r.last = IF s.n <= off \div Slots THEN h ELSE s.at
  BY <1>2 DEF WriteReply
<1>6. LoopState(s, n) /\ LoopLabels(v, own, h, s)
  BY <1>4 DEF LoopOK
<1>7. r.written \in 0 .. Len(buf)
  <2>1. CASE s.full
    <3>1. s.n \in Nat /\ s.n < n
      BY <1>6, <2>1 DEF LoopState
    <3>2. Max({0, s.n * Slots - off}) \in 0 .. Len(buf)
      BY <3>1, WrittenBound DEF n
    <3> QED
      BY <1>5, <2>1, <3>2
  <2>2. CASE ~s.full
    <3>1. Len(buf) \in 0 .. Len(buf)
      OBVIOUS
    <3> QED
      BY <1>5, <2>2, <3>1
  <2> QED
    BY <2>1, <2>2
<1>8. r.v \in Volumes /\ s.at \in Clusters /\ r.last \in {h, s.at}
  BY <1>5, <1>6 DEF LoopState
<1>9. PICK own2 : Labelled(s.v, own2) /\ own2[s.at] = h /\ Keeps(v, s.v, own, own2, h)
  BY <1>6 DEF LoopLabels
<1>10. own2[h] = h
  <2>1. h # 0
    BY VolumeNumbers
  <2> QED
    BY <1>9, <2>1 DEF Keeps
<1>11. own2[r.last] = h /\ r.last \in Clusters
  BY <1>8, <1>9, <1>10
<1>12. EndsAt(v, r.v, h, r.last)
  BY <1>5, <1>6, <1>8 DEF EndsAt, LoopLabels
<1> QED
  BY <1>5, <1>7, <1>8, <1>9, <1>11, <1>12 DEF Wrote

(* The first write to a file without clusters: what the reply names as the *)
(* last cluster becomes a chain of its own.                                *)
LEMMA WriteFresh ==
    ASSUME NEW v \in Volumes, NEW own, Labelled(v, own), CanAlloc(v),
           NEW off \in Nat, NEW buf \in Seq(PlainUnits),
           NEW r, r = WriteFile(AllocCluster(v), NewCluster(v), off, buf)
    PROVE  /\ r.ok = TRUE /\ r.written \in 0 .. Len(buf)
           /\ r.v \in Volumes /\ r.last \in Clusters /\ own[r.last] = 0
           /\ \E own2 : /\ Labelled(r.v, own2) /\ own2[r.last] = r.last
                        /\ Keeps(v, r.v, own, own2, r.last)
<1> DEFINE a == AllocCluster(v)
           n == NewCluster(v)
           own1 == [c \in Clusters |-> IF c = n THEN n ELSE own[c]]
<1>1. n \in Clusters /\ v.fat[n] = Free
  BY NewClusterFacts
<1>2. /\ a \in Volumes
      /\ \A c \in Clusters : /\ a.fat[c] = IF c = n THEN Eoc ELSE v.fat[c]
                             /\ a.data[c] = IF c = n THEN ZeroSector ELSE v.data[c]
  BY AllocFacts
<1>3. r = WriteFile(a, n, off, buf)
  OBVIOUS
<1> HIDE DEF a, n
<1>4. own[n] = 0 /\ n # 0 /\ \A c \in Clusters : own[c] # n
  BY <1>1, VolumeNumbers DEF Labelled
<1>5. /\ own1 \in [Clusters -> Clusters \cup {0}]
      /\ \A c \in Clusters : own1[c] = IF c = n THEN n ELSE own[c]
  BY <1>1 DEF Labelled
<1> HIDE DEF own1
<1>6. Labelled(a, own1) /\ own1[n] = n
  <2>1. a.fat[n] = Eoc /\ own1[n] = n
    BY <1>1, <1>2, <1>5
  <2>2. /\ \A c \in Clusters : c # n => a.fat[c] = v.fat[c]
        /\ \A c \in Clusters : c # n => own1[c] = own[c]
    BY <1>2, <1>5
  <2> QED
    BY <1>1, <1>5, <2>1, <2>2, LabelNew
<1>17. Wrote(a, own1, n, buf, r)
  BY <1>1, <1>2, <1>3, <1>6, WriteChain
<1>7. /\ r.ok = TRUE /\ r.written \in 0 .. Len(buf)
      /\ r.v \in Volumes /\ r.last \in Clusters
      /\ EndsAt(a, r.v, n, r.last)
      /\ \E own2 : /\ Labelled(r.v, own2) /\ own2[r.last] = n
                   /\ Keeps(a, r.v, own1, own2, n)
  BY <1>17 DEF Wrote
<1>8. PICK own2 : Labelled(r.v, own2) /\ own2[r.last] = n /\ Keeps(a, r.v, own1, own2, n)
  BY <1>7
<1> DEFINE x == r.last
           own3 == [c \in Clusters |-> IF own2[c] # n THEN own2[c]
                                       ELSE IF c = x THEN x ELSE 0]
<1>9. x \in Clusters /\ x # 0 /\ own[x] = 0
  <2>1. x = n \/ own1[x] = own[x]
    BY <1>5, <1>7
  <2>2. own1[x] # 0 => own1[x] = n
    BY <1>7, <1>8 DEF Keeps
  <2> QED
    BY <1>4, <1>7, <2>1, <2>2, VolumeNumbers
<1>10. /\ own3 \in [Clusters -> Clusters \cup {0}]
       /\ \A c \in Clusters : own3[c] = IF own2[c] # n THEN own2[c]
                                        ELSE IF c = x THEN x ELSE 0
  BY <1>8, <1>9 DEF Labelled
<1> HIDE DEF own3
<1>11. x = n \/ r.v.fat[x] = Eoc
  BY <1>1, <1>2, <1>7 DEF EndsAt
<1>12. \A c \in Clusters : own[c] # 0 => own1[c] = own[c] /\ own1[c] # n /\ own1[c] # 0
  BY <1>4, <1>5
<1>13. \A c \in Clusters : own[c] # 0 => /\ own2[c] = own[c]
                                         /\ r.v.fat[c] = v.fat[c] /\ r.v.data[c] = v.data[c]
  <2> SUFFICES ASSUME NEW c \in Clusters, own[c] # 0
               PROVE  own2[c] = own[c] /\ r.v.fat[c] = v.fat[c] /\ r.v.data[c] = v.data[c]
    OBVIOUS
  <2>1. own2[c] = own[c] /\ r.v.fat[c] = a.fat[c] /\ r.v.data[c] = a.data[c]
    BY <1>8, <1>12 DEF Keeps
  <2>2. c # n
    BY <1>4
  <2> QED
    BY <1>2, <2>1, <2>2
<1>14. \A c \in Clusters : own[c] = 0 => own2[c] \in {0, n}
  BY <1>5, <1>8 DEF Keeps
<1>15. CASE x = n
  <2>1. own2[x] = x
    BY <1>8, <1>15
  <2>2. Keeps(v, r.v, own, own2, x)
    BY <1>13, <1>14, <1>15 DEF Keeps
  <2> QED
    BY <1>7, <1>8, <1>9, <2>1, <2>2
<1>16. CASE x # n
  <2>1. r.v.fat[x] = Eoc
    BY <1>11, <1>16
  <2>2. Labelled(r.v, own3)
    BY <1>1, <1>8, <1>9, <1>10, <2>1, LabelOnly
  <2>3. own3[x] = x
    BY <1>8, <1>9, <1>10
  <2>4. Keeps(v, r.v, own, own3, x)
    <3>1. \A c \in Clusters : own[c] # 0 => own3[c] = own[c]
      BY <1>4, <1>10, <1>13
    <3>2. \A c \in Clusters : own[c] = 0 => own3[c] \in {0, x}
      BY <1>10, <1>14
    <3> QED
      BY <1>13, <3>1, <3>2 DEF Keeps
  <2> QED
    BY <1>7, <1>9, <2>2, <2>3, <2>4
<1> QED
  BY <1>15, <1>16

-----------------------------------------------------------------------------
(* Paths.                                                                  *)

(* What is at a path.                                                      *)
At(v, p) ==
    IF Len(p) = 1 THEN FindEntry(v, Root, p[1])
    ELSE Child(v, FindEntry(v, Root, p[1]), p[2])

(* The path of the directory that p is in, when that is not the root.      *)
Top(p) == [i \in 1 .. 1 |-> p[1]]

LEMMA PathForms ==
    ASSUME NEW p \in Paths
    PROVE  /\ p \in Seq(Names) /\ Len(p) \in {1, 2}
           /\ p[1] \in Names /\ (Len(p) = 2 => p[2] \in Names)
           /\ Last(p) = p[Len(p)] /\ Last(p) \in Names
           /\ Top(p) \in Paths /\ Len(Top(p)) = 1 /\ Top(p)[1] = p[1]
           /\ Len(p) = 1 => Top(p) = p
           /\ Front(p) = IF Len(p) = 1 THEN <<>> ELSE Top(p)
<1>1. PICK n \in 1 .. 2 : p \in [1 .. n -> Names]
  BY DEF Paths
<1>2. p \in Seq(Names) /\ Len(p) = n
  BY <1>1
<1>3. p[1] \in Names /\ p[n] \in Names /\ n \in {1, 2}
  BY <1>1
<1>4. Top(p) \in [1 .. 1 -> Names] /\ Top(p)[1] = p[1]
  BY <1>3 DEF Top
<1>5. Top(p) \in Paths /\ Len(Top(p)) = 1
  BY <1>4 DEF Paths
<1>6. Last(p) = p[n]
  BY <1>2 DEF Last
<1>7. n = 1 => Top(p) = p
  BY <1>1 DEF Top
<1>8. Front(p) = IF n = 1 THEN <<>> ELSE Top(p)
  <2>1. Front(p) = SubSeq(p, 1, n - 1)
    BY <1>2 DEF Front
  <2>2. CASE n = 1
    BY <1>2, <2>1, <2>2
  <2>3. CASE n = 2
    <3>1. Front(p) = SubSeq(p, 1, 1)
      BY <2>1, <2>3
    <3>2. SubSeq(p, 1, 1) = [i \in 1 .. 1 |-> p[i]]
      BY <1>2, <2>3
    <3> QED
      BY <2>3, <3>1, <3>2 DEF Top
  <2> QED
    BY <1>3, <2>2, <2>3
<1> QED
  BY <1>2, <1>3, <1>4, <1>5, <1>6, <1>7, <1>8

(* Paths are equal when their components are.                              *)
LEMMA PathsEqual ==
    ASSUME NEW p \in Paths, NEW q \in Paths, Len(p) = Len(q), p[1] = q[1],
           Len(p) = 2 => p[2] = q[2]
    PROVE  p = q
<1>1. PICK n \in 1 .. 2 : p \in [1 .. n -> Names]
  BY DEF Paths
<1>2. PICK m \in 1 .. 2 : q \in [1 .. m -> Names]
  BY DEF Paths
<1>3. n = m /\ Len(p) = n
  BY <1>1, <1>2
<1>4. \A i \in 1 .. n : p[i] = q[i]
  BY <1>3
<1> QED
  BY <1>1, <1>2, <1>3, <1>4

LEMMA PathOfTwo ==
    ASSUME NEW n \in Names, NEW m \in Names
    PROVE  \E p \in Paths : Len(p) = 2 /\ p[1] = n /\ p[2] = m
<1> DEFINE p == [i \in 1 .. 2 |-> IF i = 1 THEN n ELSE m]
<1>1. p \in [1 .. 2 -> Names] /\ p[1] = n /\ p[2] = m
  OBVIOUS
<1>2. p \in Paths /\ Len(p) = 2
  BY <1>1 DEF Paths
<1> QED
  BY <1>1, <1>2

LEMMA PathOfOne ==
    ASSUME NEW n \in Names
    PROVE  \E p \in Paths : Len(p) = 1 /\ p[1] = n
<1> DEFINE p == [i \in 1 .. 1 |-> n]
<1>1. p \in [1 .. 1 -> Names] /\ p[1] = n
  OBVIOUS
<1>2. p \in Paths /\ Len(p) = 1
  BY <1>1 DEF Paths
<1> QED
  BY <1>1, <1>2

(* The steps of resolve_path.                                              *)
FoundIn(v, path, n) ==
    CHOOSE f : f = [k \in 0 .. n |->
                       IF k = 0 THEN RootEntry
                       ELSE Component(path, k, Child(v, f[k - 1], path[k]))]

LEMMA FoundIs ==
    ASSUME NEW v, NEW path, NEW n \in 0 .. 2
    PROVE  FoundIn(v, path, n) =
             [k \in 0 .. n |->
                 IF k = 0 THEN RootEntry
                 ELSE Component(path, k, Child(v, FoundIn(v, path, n)[k - 1], path[k]))]
<1> DEFINE b == Component(path, 1, Child(v, RootEntry, path[1]))
           c == Component(path, 2, Child(v, b, path[2]))
           g == [k \in 0 .. n |-> IF k = 0 THEN RootEntry ELSE IF k = 1 THEN b ELSE c]
<1> HIDE DEF b, c
<1>1. \A k \in 0 .. n : g[k] = IF k = 0 THEN RootEntry
                               ELSE Component(path, k, Child(v, g[k - 1], path[k]))
  <2> TAKE k \in 0 .. n
  <2>1. CASE k = 0
    BY <2>1
  <2>2. CASE k = 1
    <3>1. g[1] = b /\ g[0] = RootEntry
      BY <2>2
    <3> QED
      BY <2>2, <3>1 DEF b
  <2>3. CASE k = 2
    <3>1. g[2] = c /\ g[1] = b
      BY <2>3
    <3> QED
      BY <2>3, <3>1 DEF c
  <2> QED
    BY <2>1, <2>2, <2>3
<1>2. g = [k \in 0 .. n |-> IF k = 0 THEN RootEntry
                            ELSE Component(path, k, Child(v, g[k - 1], path[k]))]
  BY <1>1
<1>3. \E f : f = [k \in 0 .. n |->
                     IF k = 0 THEN RootEntry
                     ELSE Component(path, k, Child(v, f[k - 1], path[k]))]
  BY <1>2
<1> QED
  BY <1>3 DEF FoundIn

LEMMA ResolveIs ==
    ASSUME NEW v, NEW path, Len(path) \in 0 .. 2
    PROVE  Resolve(v, path) =
             IF Len(path) = 0 THEN RootEntry
             ELSE IF Len(path) = 1 THEN FindEntry(v, Root, path[1])
             ELSE Component(path, 2, Child(v, FindEntry(v, Root, path[1]), path[2]))
<1> DEFINE n == Len(path)
           f == FoundIn(v, path, n)
<1>1. Resolve(v, path) = f[n]
  BY DEF Resolve, FoundIn
<1>2. f = [k \in 0 .. n |-> IF k = 0 THEN RootEntry
                            ELSE Component(path, k, Child(v, f[k - 1], path[k]))]
  BY FoundIs
<1> HIDE DEF n, f
<1>3. n \in 0 .. 2
  BY DEF n
<1>4. f[0] = RootEntry
  BY <1>2, <1>3
<1>5. n >= 1 => f[1] = Component(path, 1, Child(v, RootEntry, path[1]))
  BY <1>2, <1>3, <1>4
<1>6. Child(v, RootEntry, path[1]) = FindEntry(v, Root, path[1])
  BY DEF Child, RootEntry, Entry
<1>7. \A e : Component(path, 1, e) = e
  BY DEF Component, EndsPath
<1>8. n = 2 => f[2] = Component(path, 2, Child(v, f[1], path[2]))
  BY <1>2
<1>9. n >= 1 => f[1] = FindEntry(v, Root, path[1])
  BY <1>5, <1>6, <1>7
<1>10. CASE n = 0
  BY <1>1, <1>4, <1>10 DEF n
<1>11. CASE n = 1
  BY <1>1, <1>9, <1>11 DEF n
<1>12. CASE n = 2
  <2>1. f[1] = FindEntry(v, Root, path[1])
    BY <1>9, <1>12
  <2>2. f[2] = Component(path, 2, Child(v, FindEntry(v, Root, path[1]), path[2]))
    BY <1>8, <1>12, <2>1
  <2> QED
    BY <1>1, <1>12, <2>2 DEF n
<1> QED
  BY <1>3, <1>10, <1>11, <1>12

-----------------------------------------------------------------------------
(* The tree of directories.                                                *)

(* Paths whose names are 8.3 names as they stand, so that an entry takes   *)
(* one slot and its name is that of the path.  No file is the parent of    *)
(* another path, and the last name of a file's path does not occur in the  *)
(* name before it: what resolve_path and create_dir_entry do otherwise is  *)
(* the subject of the runs that expect a violation.                        *)
PlainPaths ==
    /\ Names \cap {".", ".."} = {}
    /\ \A q \in FilePaths \cup DirPaths :
           /\ Last(q) \in Valid83
           /\ Parent(q) \notin FilePaths
    /\ \A q \in FilePaths : EndsPath(q, Len(q))

(* The entry e may be at the path p.                                       *)
PlaceOK(v, own, p, e) ==
    /\ e \in Entries /\ e.short = <<Last(p), 0>>
    /\ e.cluster # Root
    /\ e.cluster # 0 => own[e.cluster] = e.cluster
    /\ e.dir => p \in DirPaths /\ e.cluster # 0 /\ (Len(p) = 1 => DirOK(v, e.cluster))
    /\ ~e.dir => p \in FilePaths

(* The part of the inductive invariant about the volume: the chains are    *)
(* separate, and every path leads to nothing, or to an entry that starts a *)
(* chain of its own.                                                       *)
Tree(v, own) ==
    /\ v \in Volumes /\ Labelled(v, own)
    /\ own[Root] = Root /\ DirOK(v, Root)
    /\ \A p \in Paths : At(v, p) # NoEntry => PlaceOK(v, own, p, At(v, p))
    /\ \A p, q \in Paths :
           /\ At(v, p) # NoEntry /\ At(v, q) # NoEntry
           /\ At(v, p).cluster # 0 /\ At(v, p).cluster = At(v, q).cluster
           => p = q

(* Every chain but that of h is as before.                                 *)
Frame(v, v2, own, own2, h) ==
    \A c \in Clusters : own[c] # 0 /\ own[c] # h =>
        own2[c] = own[c] /\ v2.fat[c] = v.fat[c] /\ v2.data[c] = v.data[c]

(* A directory is what it was when its chain is.                           *)
LEMMA SameDir ==
    ASSUME NEW v \in Volumes, NEW v2 \in Volumes, NEW own, Labelled(v, own),
           NEW own2, Labelled(v2, own2), NEW h, Frame(v, v2, own, own2, h),
           NEW d \in Clusters, own[d] = d, d # h
    PROVE  /\ own2[d] = d
           /\ Content(v2, d) = Content(v, d)
           /\ DirOK(v, d) => DirOK(v2, d)
           /\ \A n : FindEntry(v2, d, n) = FindEntry(v, d, n)
<1>1. d # 0
  BY VolumeNumbers
<1>2. own2[d] = d
  BY <1>1 DEF Frame
<1>3. \A c \in Clusters : own[c] = d => v2.fat[c] = v.fat[c] /\ v2.data[c] = v.data[c]
  BY <1>1 DEF Frame
<1>4. Content(v2, d) = Content(v, d)
  BY <1>2, <1>3, ContentFrame
<1> QED
  BY <1>2, <1>4 DEF DirOK, FindEntry, Walked

(* What the tree says about the first component of a path.                 *)
LEMMA TopFacts ==
    ASSUME NEW v, NEW own, Tree(v, own), NEW p \in Paths,
           NEW g, g = FindEntry(v, Root, p[1])
    PROVE  /\ g = At(v, Top(p))
           /\ Len(p) = 1 => At(v, p) = g
           /\ Len(p) = 2 => At(v, p) = Child(v, g, p[2])
           /\ g = NoEntry \/ g \in Entries
           /\ g # NoEntry => /\ PlaceOK(v, own, Top(p), g)
                             /\ g.kind = "entry"
                             /\ g.dir => /\ g.cluster \in Clusters
                                         /\ own[g.cluster] = g.cluster
                                         /\ DirOK(v, g.cluster)
                                         /\ g.cluster # Root
<1>1. Top(p) \in Paths /\ Len(Top(p)) = 1 /\ Top(p)[1] = p[1] /\ Len(p) \in {1, 2}
  BY PathForms
<1>2. g = At(v, Top(p))
  BY <1>1 DEF At
<1>3. (Len(p) = 1 => At(v, p) = g) /\ (Len(p) = 2 => At(v, p) = Child(v, g, p[2]))
  BY DEF At
<1>4. ASSUME g # NoEntry
      PROVE  /\ g \in Entries /\ PlaceOK(v, own, Top(p), g) /\ g.kind = "entry"
             /\ g.dir => /\ g.cluster \in Clusters /\ own[g.cluster] = g.cluster
                         /\ DirOK(v, g.cluster) /\ g.cluster # Root
  <2>1. PlaceOK(v, own, Top(p), g)
    BY <1>1, <1>2, <1>4 DEF Tree
  <2>2. g \in Entries /\ g.cluster \in Clusters \cup {0} /\ g.kind = "entry"
    BY <2>1 DEF PlaceOK, Entries
  <2> QED
    BY <1>1, <2>1, <2>2 DEF PlaceOK
<1> QED
  BY <1>2, <1>3, <1>4

(* A step on the chain of a file, or on clusters that nobody has.          *)
LEMMA TreeFrame ==
    ASSUME NEW v, NEW own, Tree(v, own), NEW v2 \in Volumes,
           NEW own2, Labelled(v2, own2), NEW h, h # Root, Frame(v, v2, own, own2, h),
           \A p \in Paths : /\ At(v, p) # NoEntry /\ At(v, p).cluster = h
                            => ~At(v, p).dir /\ own2[h] = h
    PROVE  /\ Tree(v2, own2)
           /\ \A p \in Paths : At(v2, p) = At(v, p)
<1>1. v \in Volumes /\ Labelled(v, own) /\ own[Root] = Root /\ DirOK(v, Root)
  BY DEF Tree
<1>2. Root \in Clusters
  BY VolumeNumbers
<1>3. /\ own2[Root] = Root /\ DirOK(v2, Root)
      /\ \A n : FindEntry(v2, Root, n) = FindEntry(v, Root, n)
  BY <1>1, <1>2, SameDir
<1>4. ASSUME NEW p \in Paths, NEW g, g = FindEntry(v, Root, p[1]), g # NoEntry, g.dir
      PROVE  /\ DirOK(v2, g.cluster)
             /\ \A n : FindEntry(v2, g.cluster, n) = FindEntry(v, g.cluster, n)
  <2>1. /\ g = At(v, Top(p)) /\ g.cluster \in Clusters
        /\ own[g.cluster] = g.cluster /\ DirOK(v, g.cluster)
    BY <1>4, TopFacts
  <2>2. Top(p) \in Paths
    BY PathForms
  <2>3. g.cluster # h
    BY <1>4, <2>1, <2>2
  <2> QED
    BY <1>1, <2>1, <2>3, SameDir
<1>5. ASSUME NEW p \in Paths PROVE At(v2, p) = At(v, p)
  <2> DEFINE g == FindEntry(v, Root, p[1])
  <2>1. FindEntry(v2, Root, p[1]) = g /\ Len(p) \in {1, 2}
    BY <1>3, PathForms
  <2>2. CASE Len(p) = 1
    BY <2>1, <2>2 DEF At
  <2>3. CASE Len(p) = 2
    <3>1. At(v2, p) = Child(v2, g, p[2]) /\ At(v, p) = Child(v, g, p[2])
      BY <2>1, <2>3 DEF At
    <3> HIDE DEF g
    <3>2. CASE g.kind = "entry" /\ g.dir
      <4>1. g # NoEntry
        BY <3>2, KindFacts
      <4>2. FindEntry(v2, g.cluster, p[2]) = FindEntry(v, g.cluster, p[2])
        BY <1>4, <3>2, <4>1 DEF g
      <4> QED
        BY <3>1, <3>2, <4>2 DEF Child
    <3>3. CASE ~(g.kind = "entry" /\ g.dir)
      BY <3>1, <3>3 DEF Child
    <3> QED
      BY <3>2, <3>3
  <2> QED
    BY <2>1, <2>2, <2>3
<1>6. ASSUME NEW p \in Paths, At(v2, p) # NoEntry
      PROVE  PlaceOK(v2, own2, p, At(v2, p))
  <2> DEFINE e == At(v, p)
  <2>1. At(v2, p) = e /\ PlaceOK(v, own, p, e)
    BY <1>5, <1>6 DEF Tree
  <2>2. ASSUME e.cluster # 0 PROVE own2[e.cluster] = e.cluster
    <3>1. e.cluster \in Clusters /\ own[e.cluster] = e.cluster
      BY <2>1, <2>2 DEF PlaceOK, Entries
    <3>2. CASE e.cluster = h
      BY <1>6, <2>1, <3>2
    <3>3. CASE e.cluster # h
      BY <2>2, <3>1, <3>3 DEF Frame
    <3> QED
      BY <3>2, <3>3
  <2>3. ASSUME e.dir, Len(p) = 1 PROVE DirOK(v2, e.cluster)
    <3>1. e = FindEntry(v, Root, p[1])
      BY <2>3 DEF At
    <3> QED
      BY <1>4, <1>6, <2>1, <2>3, <3>1
  <2> HIDE DEF e
  <2>4. PlaceOK(v2, own2, p, e)
    BY <2>1, <2>2, <2>3 DEF PlaceOK
  <2> QED
    BY <2>1, <2>4
<1>7. ASSUME NEW p \in Paths, NEW q \in Paths, At(v2, p) # NoEntry, At(v2, q) # NoEntry,
             At(v2, p).cluster # 0, At(v2, p).cluster = At(v2, q).cluster
      PROVE  p = q
  BY <1>5, <1>7 DEF Tree
<1>8. Tree(v2, own2)
  BY <1>3, <1>6, <1>7 DEF Tree
<1> QED
  BY <1>5, <1>8

(* The directory that p is in starts at the cluster d.                     *)
InDir(v, p, d) ==
    LET g == FindEntry(v, Root, p[1])
    IN  IF Len(p) = 1 THEN d = Root ELSE g # NoEntry /\ g.dir /\ d = g.cluster

(* No entry but one at p starts the chain of c.                            *)
OnlyAt(v, p, c) ==
    \A q \in Paths : At(v, q) # NoEntry /\ At(v, q).cluster = c => q = p

Below(p, q) == Len(p) = 1 /\ Len(q) = 2 /\ q[1] = p[1]

(* What a step that puts e at the path p, or removes what is there, does   *)
(* to all paths.                                                           *)
PathStep(v, v2, p, e) ==
    /\ At(v2, p) = e
    /\ \A q \in Paths : q # p => \/ At(v2, q) = At(v, q)
                                 \/ Below(p, q) /\ At(v2, q) = NoEntry

LEMMA TreeStep ==
    ASSUME NEW v, NEW own, Tree(v, own), NEW p \in Paths, NEW d, InDir(v, p, d),
           NEW v2, NEW own2, NEW e, DirStep(v, v2, own, own2, d, Last(p), e),
           e # NoEntry => /\ PlaceOK(v2, own2, p, e)
                          /\ e.cluster # 0 => OnlyAt(v, p, e.cluster),
           Len(p) = 1 => \A m \in Names : Child(v2, e, m) = NoEntry
    PROVE  Tree(v2, own2) /\ PathStep(v, v2, p, e)
<1> DEFINE g == FindEntry(v, Root, p[1])
           name == Last(p)
<1>1. v \in Volumes /\ Labelled(v, own) /\ own[Root] = Root /\ DirOK(v, Root)
  BY DEF Tree
<1>2. Root \in Clusters /\ Root # 0
  BY VolumeNumbers
<1>3. /\ v2 \in Volumes /\ Labelled(v2, own2) /\ DirOK(v2, d)
      /\ \A c \in Clusters : own[c] # 0 => own2[c] = own[c]
      /\ FindEntry(v2, d, name) = e
      /\ \A n : n # name => FindEntry(v2, d, n) = FindEntry(v, d, n)
      /\ Frame(v, v2, own, own2, d)
  BY DEF DirStep, Frame
<1>4. Len(p) \in {1, 2} /\ name = p[Len(p)] /\ Top(p) \in Paths
  BY PathForms
<1>5. own2[Root] = Root
  BY <1>1, <1>2, <1>3
<1>6. Len(p) = 1 => d = Root
  BY DEF InDir
<1>7. Len(p) = 2 => g # NoEntry /\ g.dir /\ d = g.cluster
  BY DEF InDir
<1>8. g # NoEntry /\ g.dir => /\ g = At(v, Top(p)) /\ g.cluster \in Clusters
                              /\ own[g.cluster] = g.cluster /\ g.cluster # Root
                              /\ g.kind = "entry"
  BY TopFacts
<1> HIDE DEF g, name
<1>9. d \in Clusters /\ own[d] = d
  BY <1>1, <1>2, <1>4, <1>6, <1>7, <1>8
<1>10. DirOK(v2, Root) /\ FindEntry(v2, Root, p[1]) = (IF Len(p) = 1 THEN e ELSE g)
       /\ \A n : n # p[1] => FindEntry(v2, Root, n) = FindEntry(v, Root, n)
  <2>1. CASE Len(p) = 1
    BY <1>3, <1>4, <1>6, <2>1
  <2>2. CASE Len(p) = 2
    <3>1. d # Root
      BY <1>7, <1>8, <2>2
    <3>2. DirOK(v2, Root) /\ \A n : FindEntry(v2, Root, n) = FindEntry(v, Root, n)
      BY <1>1, <1>2, <1>3, <3>1, SameDir
    <3> QED
      BY <2>2, <3>2 DEF g
  <2> QED
    BY <1>4, <2>1, <2>2
<1>11. At(v2, p) = e
  <2>1. CASE Len(p) = 1
    BY <1>10, <2>1 DEF At
  <2>2. CASE Len(p) = 2
    <3>1. At(v2, p) = Child(v2, g, p[2])
      BY <1>10, <2>2 DEF At
    <3>2. Child(v2, g, p[2]) = FindEntry(v2, d, p[2])
      BY <1>7, <1>8, <2>2 DEF Child
    <3> QED
      BY <1>3, <1>4, <2>2, <3>1, <3>2
  <2> QED
    BY <1>4, <2>1, <2>2
<1>12. ASSUME NEW q \in Paths, q[1] # p[1], NEW f, f = FindEntry(v, Root, q[1]),
              f # NoEntry, f.dir
       PROVE  /\ DirOK(v2, f.cluster)
              /\ \A n : FindEntry(v2, f.cluster, n) = FindEntry(v, f.cluster, n)
  <2>1. /\ f = At(v, Top(q)) /\ f.cluster \in Clusters
        /\ own[f.cluster] = f.cluster /\ DirOK(v, f.cluster) /\ f.cluster # Root
    BY <1>12, TopFacts
  <2>2. Top(q) \in Paths /\ Top(q)[1] = q[1] /\ Top(p)[1] = p[1]
    BY PathForms
  <2>3. f.cluster # d
    <3>1. CASE Len(p) = 1
      BY <1>6, <2>1, <3>1
    <3>2. CASE Len(p) = 2
      <4> SUFFICES ASSUME f.cluster = d PROVE FALSE
        OBVIOUS
      <4>1. g = At(v, Top(p)) /\ g # NoEntry /\ g.cluster = f.cluster
        BY <1>7, <1>8, <3>2
      <4>2. f.cluster # 0
        BY <2>1, VolumeNumbers
      <4>3. Top(p) = Top(q)
        BY <1>4, <1>12, <2>1, <2>2, <4>1, <4>2 DEF Tree
      <4> QED
        BY <1>12, <2>2, <4>3
    <3> QED
      BY <1>4, <3>1, <3>2
  <2> QED
    BY <1>1, <1>3, <2>1, <2>3, SameDir
<1>13. ASSUME NEW q \in Paths, q # p
       PROVE  At(v2, q) = At(v, q) \/ (Below(p, q) /\ At(v2, q) = NoEntry)
  <2> DEFINE f == FindEntry(v, Root, q[1])
  <2>1. Len(q) \in {1, 2} /\ (Len(q) = 2 => q[2] \in Names)
    BY PathForms
  <2>2. CASE q[1] # p[1]
    <3>1. FindEntry(v2, Root, q[1]) = f
      BY <1>10, <2>2
    <3>2. CASE Len(q) = 1
      BY <3>1, <3>2 DEF At
    <3>3. CASE Len(q) = 2
      <4>1. At(v2, q) = Child(v2, f, q[2]) /\ At(v, q) = Child(v, f, q[2])
        BY <3>1, <3>3 DEF At
      <4> HIDE DEF f
      <4>2. CASE f.kind = "entry" /\ f.dir
        <5>1. f # NoEntry
          BY <4>2, KindFacts
        <5>2. FindEntry(v2, f.cluster, q[2]) = FindEntry(v, f.cluster, q[2])
          BY <1>12, <2>2, <4>2, <5>1 DEF f
        <5> QED
          BY <4>1, <4>2, <5>2 DEF Child
      <4>3. CASE ~(f.kind = "entry" /\ f.dir)
        BY <4>1, <4>3 DEF Child
      <4> QED
        BY <4>2, <4>3
    <3> QED
      BY <2>1, <3>2, <3>3
  <2>3. CASE q[1] = p[1]
    <3>1. CASE Len(p) = 1
      <4>1. Len(q) = 2
        BY <1>4, <2>1, <2>3, <3>1, <1>13, PathsEqual
      <4>2. At(v2, q) = Child(v2, e, q[2])
        BY <1>10, <2>3, <3>1, <4>1 DEF At
      <4> QED
        BY <2>1, <2>3, <3>1, <4>1, <4>2 DEF Below
    <3>2. CASE Len(p) = 2
      <4>1. FindEntry(v2, Root, q[1]) = g /\ FindEntry(v, Root, q[1]) = g
        BY <1>10, <2>3, <3>2 DEF g
      <4>2. CASE Len(q) = 1
        BY <4>1, <4>2 DEF At
      <4>3. CASE Len(q) = 2
        <5>1. q[2] # name
          BY <1>4, <2>3, <3>2, <4>3, <1>13, PathsEqual
        <5>2. At(v2, q) = FindEntry(v2, d, q[2]) /\ At(v, q) = FindEntry(v, d, q[2])
          BY <1>7, <1>8, <3>2, <4>1, <4>3 DEF At, Child
        <5> QED
          BY <1>3, <5>1, <5>2
      <4> QED
        BY <2>1, <4>2, <4>3
    <3> QED
      BY <1>4, <3>1, <3>2
  <2> QED
    BY <2>2, <2>3
<1>14. PathStep(v, v2, p, e)
  BY <1>11, <1>13 DEF PathStep
<1>15. ASSUME NEW q \in Paths, At(v2, q) # NoEntry PROVE PlaceOK(v2, own2, q, At(v2, q))
  <2>1. CASE q = p
    BY <1>11, <1>15, <2>1
  <2>2. CASE q # p
    <3> DEFINE f == At(v, q)
    <3>1. At(v2, q) = f
      BY <1>13, <1>15, <2>2
    <3>2. PlaceOK(v, own, q, f)
      BY <1>15, <3>1 DEF Tree
    <3>3. ASSUME f.cluster # 0 PROVE own2[f.cluster] = f.cluster
      <4>1. f.cluster \in Clusters /\ own[f.cluster] = f.cluster
        BY <3>2, <3>3 DEF PlaceOK, Entries
      <4> QED
        BY <1>3, <3>3, <4>1
    <3>4. ASSUME f.dir, Len(q) = 1 PROVE DirOK(v2, f.cluster)
      <4>1. f = FindEntry(v, Root, q[1]) /\ f # NoEntry
        BY <1>15, <3>1, <3>4 DEF At
      <4>2. CASE q[1] # p[1]
        BY <1>12, <3>4, <4>1, <4>2
      <4>3. CASE q[1] = p[1]
        <5>1. Len(p) = 2
          BY <1>4, <2>2, <3>4, <4>3, PathsEqual
        <5>2. f = g
          BY <4>1, <4>3 DEF g
        <5> QED
          BY <1>3, <1>7, <5>1, <5>2
      <4> QED
        BY <4>2, <4>3
    <3> HIDE DEF f
    <3>5. PlaceOK(v2, own2, q, f)
      BY <3>2, <3>3, <3>4 DEF PlaceOK
    <3> QED
      BY <3>1, <3>5
  <2> QED
    BY <2>1, <2>2
<1>16. ASSUME NEW q \in Paths, NEW r \in Paths, At(v2, q) # NoEntry, At(v2, r) # NoEntry,
              At(v2, q).cluster # 0, At(v2, q).cluster = At(v2, r).cluster
       PROVE  q = r
  <2>1. q = p \/ At(v2, q) = At(v, q)
    BY <1>13, <1>16
  <2>2. r = p \/ At(v2, r) = At(v, r)
    BY <1>13, <1>16
  <2>3. CASE q = p /\ r # p
    BY <1>11, <1>16, <2>2, <2>3 DEF OnlyAt
  <2>4. CASE q # p /\ r = p
    BY <1>11, <1>16, <2>1, <2>4 DEF OnlyAt
  <2>5. CASE q # p /\ r # p
    BY <1>16, <2>1, <2>2, <2>5 DEF Tree
  <2> QED
    BY <2>3, <2>4, <2>5
<1>17. Tree(v2, own2)
  BY <1>3, <1>5, <1>10, <1>15, <1>16 DEF Tree
<1> QED
  BY <1>14, <1>17

(* resolve_path finds what is at the path.                                 *)
LEMMA ResolveAt ==
    ASSUME PlainPaths, NEW v, NEW own, Tree(v, own), NEW p \in Paths
    PROVE  Resolve(v, p) = At(v, p)
<1>1. Len(p) \in {1, 2}
  BY PathForms
<1>2. CASE Len(p) = 1
  BY <1>2, ResolveIs DEF At
<1>3. CASE Len(p) = 2
  <2> DEFINE e == Child(v, FindEntry(v, Root, p[1]), p[2])
  <2>1. Resolve(v, p) = Component(p, 2, e) /\ At(v, p) = e
    BY <1>3, ResolveIs DEF At
  <2> HIDE DEF e
  <2>2. CASE e = NoEntry
    BY <2>1, <2>2, KindFacts DEF Component
  <2>3. CASE e # NoEntry
    <3>1. PlaceOK(v, own, p, e)
      BY <2>1, <2>3 DEF Tree
    <3>2. ~e.dir => EndsPath(p, 2)
      BY <1>3, <3>1 DEF PlaceOK, PlainPaths
    <3> QED
      BY <2>1, <3>2 DEF Component
  <2> QED
    BY <2>2, <2>3
<1> QED
  BY <1>1, <1>2, <1>3

(* The directory that a request finds for a path.                          *)
DirFound(v, own, p, g) ==
    /\ g # NoEntry /\ g.cluster \in Clusters /\ own[g.cluster] = g.cluster
    /\ DirOK(v, g.cluster)
    /\ InDir(v, p, g.cluster)
    /\ FindEntry(v, g.cluster, Last(p)) = At(v, p)

LEMMA RootEntryFacts ==
    RootEntry # NoEntry /\ RootEntry.cluster = Root
BY DEF RootEntry, NoEntry, Entry

LEMMA ParentFound ==
    ASSUME PlainPaths, NEW v, NEW own, Tree(v, own), NEW p \in FilePaths \cup DirPaths,
           NEW g, g = Resolve(v, Parent(p))
    PROVE  \/ g = NoEntry /\ At(v, p) = NoEntry
           \/ DirFound(v, own, p, g)
<1>1. p \in Paths
  BY FilesAssumption
<1>2. /\ Len(p) \in {1, 2} /\ Last(p) = p[Len(p)]
      /\ Parent(p) = IF Len(p) = 1 THEN <<>> ELSE Top(p)
      /\ Top(p) \in Paths /\ Len(Top(p)) = 1
  BY <1>1, PathForms DEF Parent
<1>3. CASE Len(p) = 1
  <2>1. g = RootEntry
    <3>1. Len(Parent(p)) = 0
      BY <1>2, <1>3
    <3> QED
      BY <3>1, ResolveIs
  <2>2. At(v, p) = FindEntry(v, Root, Last(p))
    BY <1>2, <1>3 DEF At
  <2>3. InDir(v, p, Root)
    BY <1>3 DEF InDir
  <2> QED
    BY <2>1, <2>2, <2>3, RootEntryFacts, VolumeNumbers DEF DirFound, Tree
<1>4. CASE Len(p) = 2
  <2> DEFINE t == FindEntry(v, Root, p[1])
  <2>1. g = At(v, Top(p))
    BY <1>2, <1>4, ResolveAt
  <2>2. t = At(v, Top(p)) /\ At(v, p) = Child(v, t, p[2])
    BY <1>1, <1>4, TopFacts
  <2>3. g = t
    BY <2>1, <2>2
  <2>4. CASE g = NoEntry
    <3>1. Child(v, g, p[2]) = NoEntry
      BY <2>4, KindFacts DEF Child
    <3> QED
      BY <2>2, <2>3, <2>4, <3>1
  <2>5. CASE g # NoEntry
    <3>1. PlaceOK(v, own, Top(p), g) /\ g.kind = "entry"
      BY <1>1, <2>3, <2>5, TopFacts
    <3>2. Top(p) \notin FilePaths
      BY <1>2, <1>4 DEF PlainPaths
    <3>3. g.dir
      BY <3>1, <3>2 DEF PlaceOK
    <3>4. g.cluster \in Clusters /\ own[g.cluster] = g.cluster /\ DirOK(v, g.cluster)
      BY <1>1, <2>3, <2>5, <3>3, TopFacts
    <3>5. InDir(v, p, g.cluster)
      BY <1>4, <2>3, <2>5, <3>3 DEF InDir
    <3>6. FindEntry(v, g.cluster, Last(p)) = At(v, p)
      BY <1>2, <1>4, <2>2, <2>3, <3>1, <3>3 DEF Child
    <3> QED
      BY <2>5, <3>4, <3>5, <3>6 DEF DirFound
  <2> QED
    BY <2>4, <2>5
<1> QED
  BY <1>2, <1>3, <1>4

(* A chain that no directory is in.                                        *)
IsFile(v, own, c) ==
    /\ c \in Clusters /\ own[c] = c /\ c # Root
    /\ \A p \in Paths : At(v, p) # NoEntry /\ At(v, p).cluster = c => ~At(v, p).dir

(* The files, but that of the chain of h, hold what they held.             *)
FilesKept(v, v2, own, h) ==
    \A c \in Clusters : IsFile(v, own, c) /\ c # h => Content(v2, c) = Content(v, c)

LEMMA FrameKeepsFiles ==
    ASSUME NEW v \in Volumes, NEW v2 \in Volumes, NEW own, Labelled(v, own),
           NEW own2, Labelled(v2, own2), NEW h, Frame(v, v2, own, own2, h)
    PROVE  FilesKept(v, v2, own, h)
<1> SUFFICES ASSUME NEW c \in Clusters, IsFile(v, own, c), c # h
             PROVE  Content(v2, c) = Content(v, c)
  BY DEF FilesKept
<1>1. own[c] = c
  BY DEF IsFile
<1> QED
  BY <1>1, SameDir

(* A step in a directory does nothing to files.                            *)
LEMMA DirKeepsFiles ==
    ASSUME NEW v, NEW own, Tree(v, own), NEW p \in Paths, NEW d, InDir(v, p, d),
           NEW v2, NEW own2, NEW name, NEW e, DirStep(v, v2, own, own2, d, name, e)
    PROVE  FilesKept(v, v2, own, 0)
<1>1. v \in Volumes /\ Labelled(v, own)
  BY DEF Tree
<1>2. v2 \in Volumes /\ Labelled(v2, own2) /\ Frame(v, v2, own, own2, d)
  BY DEF DirStep, Frame
<1>3. FilesKept(v, v2, own, d)
  BY <1>1, <1>2, FrameKeepsFiles
<1>4. ~IsFile(v, own, d)
  <2>1. Len(p) \in {1, 2}
    BY PathForms
  <2>2. CASE Len(p) = 1
    BY <2>2 DEF InDir, IsFile
  <2>3. CASE Len(p) = 2
    <3> DEFINE g == FindEntry(v, Root, p[1])
    <3>1. g # NoEntry /\ g.dir /\ d = g.cluster
      BY <2>3 DEF InDir
    <3>2. g = At(v, Top(p)) /\ Top(p) \in Paths
      BY <2>3, PathForms, TopFacts
    <3> HIDE DEF g
    <3> QED
      BY <3>1, <3>2 DEF IsFile
  <2> QED
    BY <2>1, <2>2, <2>3
<1> QED
  BY <1>3, <1>4 DEF FilesKept

(* Two steps, of which the first changes no place of a file.               *)
LEMMA FilesKeptTwice ==
    ASSUME NEW v, NEW v2, NEW v3, NEW own, NEW own2, NEW h, FilesKept(v, v2, own, h),
           FilesKept(v2, v3, own2, 0),
           \A c \in Clusters : own[c] = c /\ c # h => own2[c] = own[c],
           \A q \in Paths : At(v2, q) = At(v, q) \/ At(v2, q) = NoEntry
    PROVE  FilesKept(v, v3, own, h)
<1> SUFFICES ASSUME NEW c \in Clusters, IsFile(v, own, c), c # h
             PROVE  Content(v3, c) = Content(v, c)
  BY DEF FilesKept
<1>1. IsFile(v2, own2, c) /\ c # 0
  BY VolumeNumbers DEF IsFile
<1> QED
  BY <1>1 DEF FilesKept

(* What is at the paths of files, apart from some of them, stays there.    *)
EntriesKept(v, v2, changed) ==
    \A q \in FilePaths : q \notin changed /\ At(v, q) # NoEntry => At(v2, q) = At(v, q)

(* No path leads to a file that it did not lead to, but for the chain new. *)
FileAt(v, q, h) == At(v, q) # NoEntry /\ ~At(v, q).dir /\ At(v, q).cluster = h

NoNewFiles(v, v2, new) ==
    \A q \in Paths, h \in Clusters : FileAt(v2, q, h) => h = new \/ FileAt(v, q, h)

LEMMA PathStepEntries ==
    ASSUME NEW v, NEW v2, NEW p, NEW e, PathStep(v, v2, p, e),
           NEW changed, p \in changed \/ At(v, p) = NoEntry,
           \A q \in FilePaths : Below(p, q) => q \in changed \/ At(v, q) = NoEntry
    PROVE  EntriesKept(v, v2, changed)
BY FilesAssumption DEF EntriesKept, PathStep

LEMMA PathStepFiles ==
    ASSUME NEW v, NEW v2, NEW p, NEW e, PathStep(v, v2, p, e), NEW new,
           e # NoEntry /\ ~e.dir => e.cluster \in {0, new}
    PROVE  NoNewFiles(v, v2, new)
<1> SUFFICES ASSUME NEW q \in Paths, NEW h \in Clusters, FileAt(v2, q, h), h # new
             PROVE  FileAt(v, q, h)
  BY DEF NoNewFiles
<1>1. h # 0
  BY VolumeNumbers
<1>2. q # p
  BY <1>1 DEF FileAt, PathStep
<1> QED
  BY <1>2 DEF FileAt, PathStep

(* What every request but FS_WRITE, FS_TRUNCATE and FS_DELETE leaves of    *)
(* the labels: those that there are.                                       *)
KeepsLabels(own, own2) == \A c \in Clusters : own[c] # 0 => own2[c] = own[c]

(* FS_CREATE_OPEN of a file that is not there.                             *)
Created(v, own, p, r) ==
    /\ r.ok = TRUE /\ r.cluster = 0 /\ r.size = 0
    /\ At(v, p) = NoEntry /\ FilesKept(v, r.v, own, 0)
    /\ \E own2, e : /\ Tree(r.v, own2) /\ KeepsLabels(own, own2)
                    /\ PathStep(v, r.v, p, e) /\ e # NoEntry /\ e.cluster = 0

LEMMA CreateRequest ==
    ASSUME PlainPaths, NEW v, NEW own, Tree(v, own), NEW p \in FilePaths,
           At(v, p) = NoEntry,
           NEW r, r = CreateIn(v, Resolve(v, Parent(p)), Last(p))
    PROVE  (r.ok = FALSE /\ r.v = v) \/ Created(v, own, p, r)
<1> DEFINE g == Resolve(v, Parent(p))
           name == Last(p)
           d == g.cluster
           e == Entry(<<name, 0>>, FALSE, 0, 0)
           c == CreateDirEntry(v, d, name, FALSE, 0, 0)
<1>1. CASE g = NoEntry
  BY <1>1 DEF CreateIn, Refused
<1>2. CASE g # NoEntry
  <2>1. DirFound(v, own, p, g)
    BY <1>2, ParentFound
  <2>2. r = CreateReply(c)
    BY <1>2 DEF CreateIn
  <2>3. p \in Paths /\ name \in Valid83 /\ name \in Names
    BY FilesAssumption, VolumeAssumption DEF PlainPaths
  <2>4. v \in Volumes /\ Labelled(v, own)
    BY DEF Tree
  <2>5. 0 \in 0 .. MaxOffset
    BY FilesAssumption
  <2>6. d \in Clusters /\ own[d] = d /\ DirOK(v, d) /\ FindEntry(v, d, name) = NoEntry
        /\ InDir(v, p, d)
    BY <2>1 DEF DirFound
  <2> HIDE DEF d, name, g, c
  <2>7. \/ c.ok = FALSE /\ c.v = v
        \/ /\ c.ok = TRUE
           /\ \E own2 : DirStep(v, c.v, own, own2, d, name, e)
    BY <2>3, <2>4, <2>5, <2>6, CreateEntry DEF c
  <2>8. CASE c.ok = FALSE /\ c.v = v
    BY <2>2, <2>8 DEF CreateReply, Refused
  <2>9. CASE c.ok = TRUE /\ \E own2 : DirStep(v, c.v, own, own2, d, name, e)
    <3>1. PICK own2 : DirStep(v, c.v, own, own2, d, name, e)
      BY <2>9
    <3>2. r.ok = TRUE /\ r.v = c.v /\ r.cluster = 0 /\ r.size = 0
      BY <2>2, <2>9 DEF CreateReply
    <3>3. /\ e \in Entries /\ e.short = <<name, 0>> /\ e.dir = FALSE /\ e.cluster = 0
      BY <2>3, <2>5 DEF Entry, Entries
    <3> HIDE DEF e
    <3>4. e # NoEntry
      BY <3>3, KindFacts
    <3>5. PlaceOK(c.v, own2, p, e)
      BY <3>3, VolumeNumbers DEF PlaceOK, name
    <3>6. \A m \in Names : Child(c.v, e, m) = NoEntry
      BY <3>3 DEF Child
    <3>7. Tree(c.v, own2) /\ PathStep(v, c.v, p, e)
      BY <2>3, <2>6, <3>1, <3>3, <3>5, <3>6, TreeStep DEF name
    <3>8. KeepsLabels(own, own2)
      BY <3>1 DEF DirStep, KeepsLabels
    <3>9. FilesKept(v, c.v, own, 0)
      BY <2>3, <2>6, <3>1, DirKeepsFiles
    <3> QED
      BY <3>2, <3>3, <3>4, <3>7, <3>8, <3>9 DEF Created
  <2> QED
    BY <2>7, <2>8, <2>9
<1> QED
  BY <1>1, <1>2

(* The path p has an entry of the cluster cl now.                          *)
Updated(v, v2, own, p, cl) ==
    /\ Tree(v2, own) /\ FilesKept(v, v2, own, 0)
    /\ \E e : PathStep(v, v2, p, e) /\ e # NoEntry /\ ~e.dir /\ e.cluster = cl

(* And of the size sz.                                                     *)
EnteredAt(v, p, cl, sz) ==
    At(v, p).kind = "entry" /\ At(v, p).cluster = cl /\ At(v, p).size = sz

(* The cluster cl may be entered at the path p.                            *)
MayPoint(v, own, p, cl) ==
    /\ cl \in Clusters \cup {0}
    /\ cl # 0 => own[cl] = cl /\ cl # Root /\ OnlyAt(v, p, cl)

(* FS_UPDATE_SIZE of a file that is there.                                 *)
LEMMA UpdateRequest ==
    ASSUME PlainPaths, NEW v, NEW own, Tree(v, own), NEW p \in FilePaths,
           At(v, p) # NoEntry, NEW sz \in 0 .. MaxOffset,
           NEW cl, MayPoint(v, own, p, cl),
           NEW r, r = UpdateIn(v, Resolve(v, Parent(p)), Last(p), sz, cl)
    PROVE  /\ r.v = v \/ Updated(v, r.v, own, p, cl)
           /\ InFullSector(v, p) => EnteredAt(r.v, p, cl, sz)
<1> DEFINE g == Resolve(v, Parent(p))
           name == Last(p)
           d == g.cluster
           f == At(v, p)
           e == Entry(<<name, 0>>, f.dir, cl, sz)
<1>1. DirFound(v, own, p, g)
  BY ParentFound
<1>2. r = UpdateDirEntrySize(v, d, name, sz, cl)
  BY <1>1 DEF UpdateIn, DirFound
<1>3. p \in Paths
  BY FilesAssumption
<1>4. name \in Names
  BY <1>3, PathForms
<1>5. v \in Volumes /\ Labelled(v, own)
  BY DEF Tree
<1>6. d \in Clusters /\ own[d] = d /\ DirOK(v, d) /\ FindEntry(v, d, name) = f
      /\ InDir(v, p, d)
  BY <1>1 DEF DirFound
<1>7. PlaceOK(v, own, p, f) /\ f # NoEntry
  BY <1>3 DEF Tree
<1>8. cl \in Clusters \cup {0}
  BY DEF MayPoint
<1>11. InFullSector(v, p) => NamedInFull(Walked(v, d), Matches(v, d, name))
  BY DEF InFullSector, FullIn
<1> HIDE DEF d, name, g, f
<1>9. \/ r.v = v /\ ~NamedInFull(Walked(v, d), Matches(v, d, name))
      \/ DirStep(v, r.v, own, own, d, name, e)
  BY <1>2, <1>4, <1>5, <1>6, <1>7, <1>8, UpdateEntry
<1>10. CASE DirStep(v, r.v, own, own, d, name, e)
  <2>1. f.dir = FALSE
    <3>1. f.dir \in BOOLEAN
      BY <1>7 DEF PlaceOK, Entries
    <3>2. ~f.dir
      BY <1>7, FilesAssumption DEF PlaceOK
    <3> QED
      BY <3>1, <3>2
  <2>2. /\ e \in Entries /\ e.short = <<name, 0>> /\ e.dir = FALSE /\ e.cluster = cl
        /\ e.size = sz /\ e.kind = "entry"
    BY <1>4, <1>8, <2>1 DEF Entry, Entries
  <2> HIDE DEF e
  <2>3. e # NoEntry
    BY <2>2, KindFacts
  <2>4. PlaceOK(r.v, own, p, e)
    BY <2>2, VolumeNumbers DEF PlaceOK, MayPoint, name
  <2>5. \A m \in Names : Child(r.v, e, m) = NoEntry
    BY <2>2 DEF Child
  <2>6. e.cluster # 0 => OnlyAt(v, p, e.cluster)
    BY <2>2 DEF MayPoint
  <2>7. Tree(r.v, own) /\ PathStep(v, r.v, p, e)
    BY <1>3, <1>6, <1>10, <2>4, <2>5, <2>6, TreeStep DEF name
  <2>8. FilesKept(v, r.v, own, 0)
    BY <1>3, <1>6, <1>10, DirKeepsFiles
  <2>9. EnteredAt(r.v, p, cl, sz)
    BY <2>2, <2>7 DEF PathStep, EnteredAt
  <2> QED
    BY <2>2, <2>3, <2>7, <2>8, <2>9 DEF Updated
<1> QED
  BY <1>9, <1>10, <1>11

LEMMA LabelInClass ==
    ASSUME NEW v \in Volumes, NEW own, Labelled(v, own), NEW x \in Clusters, own[x] # 0,
           NEW c \in Range(Chain(v, x))
    PROVE  own[c] = own[x]
<1> DEFINE s == Chain(v, x)
<1>1. IsChain(v, x, s)
  BY VolumesTyped, ChainIs
<1>2. PICK k \in DOMAIN s : c = s[k]
  BY DEF Range
<1> HIDE DEF s
<1>3. k \in 1 .. Len(s)
  BY <1>1, <1>2 DEF IsChain
<1> QED
  BY <1>1, <1>2, <1>3, ChainLabels

(* free_chain of the chain of h.                                           *)
LEMMA FreedChain ==
    ASSUME NEW v \in Volumes, NEW own, Labelled(v, own), NEW h \in Clusters, own[h] = h,
           NEW v2, v2 = FreeChain(v, h)
    PROVE  /\ v2 \in Volumes
           /\ \E own2 : Labelled(v2, own2) /\ Frame(v, v2, own, own2, h)
<1> DEFINE own2 == [c \in Clusters |-> IF own[c] = h THEN 0 ELSE own[c]]
<1>1. /\ own2 \in [Clusters -> Clusters \cup {0}]
      /\ \A c \in Clusters : own2[c] = IF own[c] = h THEN 0 ELSE own[c]
  BY DEF Labelled
<1> HIDE DEF own2
<1>2. h # 0
  BY VolumeNumbers
<1>3. /\ v2 \in Volumes
      /\ \A c \in Clusters :
            /\ v2.fat[c] = IF c \in Range(Chain(v, h)) THEN Free ELSE v.fat[c]
            /\ v2.data[c] = v.data[c]
  BY FreeChainFacts
<1>4. \A c \in Clusters : own[c] # h => v2.fat[c] = v.fat[c] /\ v2.data[c] = v.data[c]
  BY <1>2, <1>3, LabelInClass
<1>5. Labelled(v2, own2)
  <2>1. \A c \in Clusters : own[c] # 0 /\ own[c] # h => v2.fat[c] = v.fat[c]
    BY <1>4
  <2> QED
    BY <1>1, <2>1, LabelDrop
<1>6. Frame(v, v2, own, own2, h)
  BY <1>1, <1>4 DEF Frame
<1> QED
  BY <1>3, <1>5, <1>6

(* truncate_file, before it updates the entry.                             *)
LEMMA EmptiedChain ==
    ASSUME NEW v \in Volumes, NEW own, Labelled(v, own), NEW h \in Clusters, own[h] = h,
           NEW v2,
           v2 = Emptied(IF Continues(v, h) THEN FreeChain(v, v.fat[h]) ELSE v, h)
    PROVE  /\ v2 \in Volumes /\ Content(v2, h) = ZeroSector
           /\ \E own2 : /\ Labelled(v2, own2) /\ own2[h] = h
                        /\ Frame(v, v2, own, own2, h)
<1> DEFINE w == IF Continues(v, h) THEN FreeChain(v, v.fat[h]) ELSE v
           own2 == [c \in Clusters |-> IF own[c] # h THEN own[c]
                                       ELSE IF c = h THEN h ELSE 0]
<1>1. /\ own2 \in [Clusters -> Clusters \cup {0}]
      /\ \A c \in Clusters : own2[c] = IF own[c] # h THEN own[c]
                                       ELSE IF c = h THEN h ELSE 0
  BY DEF Labelled
<1> HIDE DEF own2
<1>2. h # 0
  BY VolumeNumbers
<1>3. w \in Volumes
      /\ \A c \in Clusters : own[c] # h => w.fat[c] = v.fat[c] /\ w.data[c] = v.data[c]
  <2>1. CASE Continues(v, h)
    <3> DEFINE x == v.fat[h]
    <3>1. x \in Clusters
      BY <2>1, ContinuesIn
    <3>2. own[x] = h
      BY <1>2, <3>1 DEF Labelled
    <3> HIDE DEF x
    <3>3. w = FreeChain(v, x)
      BY <2>1 DEF x
    <3>4. /\ FreeChain(v, x) \in Volumes
          /\ \A c \in Clusters :
                /\ FreeChain(v, x).fat[c] =
                     IF c \in Range(Chain(v, x)) THEN Free ELSE v.fat[c]
                /\ FreeChain(v, x).data[c] = v.data[c]
      BY <3>1, FreeChainFacts
    <3>5. \A c \in Range(Chain(v, x)) : own[c] = h
      BY <1>2, <3>1, <3>2, LabelInClass
    <3> QED
      BY <3>3, <3>4, <3>5
  <2>2. CASE ~Continues(v, h)
    BY <2>2
  <2> QED
    BY <2>1, <2>2
<1>4. v2 = Emptied(w, h)
  OBVIOUS
<1> HIDE DEF w
<1>5. /\ v2 \in Volumes
      /\ \A c \in Clusters :
            /\ v2.fat[c] = IF c = h THEN Eoc ELSE w.fat[c]
            /\ v2.data[c] = IF c = h THEN ZeroSector ELSE w.data[c]
  BY <1>3, <1>4, EmptiedFacts
<1>6. v2.fat[h] = Eoc
      /\ \A c \in Clusters : own[c] # h => v2.fat[c] = v.fat[c] /\ v2.data[c] = v.data[c]
  BY <1>3, <1>5
<1>7. Labelled(v2, own2)
  BY <1>1, <1>6, LabelOnly
<1>8. own2[h] = h /\ Frame(v, v2, own, own2, h)
  BY <1>1, <1>6 DEF Frame
<1>9. Content(v2, h) = ZeroSector
  <2>1. v2.data[h] = ZeroSector
    BY <1>5
  <2> QED
    BY <1>5, <1>6, <1>7, <1>8, <2>1, OneSector
<1> QED
  BY <1>5, <1>7, <1>8, <1>9

-----------------------------------------------------------------------------
(* What requests leave to open descriptors.                                *)

(* A descriptor on the path, with the first cluster cl or none: the file   *)
(* is there, and the chain belongs to no other path.                       *)
Held(v, own, path, cl) ==
    /\ path \in FilePaths
    /\ At(v, path) # NoEntry
    /\ MayPoint(v, own, path, cl)

AllHeld(v, v2, own, own2) ==
    \A path, cl : Held(v, own, path, cl) => Held(v2, own2, path, cl)

LEMMA NotBelow ==
    ASSUME PlainPaths, NEW p \in FilePaths, NEW q \in FilePaths
    PROVE  ~Below(p, q)
<1> SUFFICES ASSUME Below(p, q) PROVE FALSE
  OBVIOUS
<1>1. p \in Paths /\ q \in Paths
  BY FilesAssumption
<1>2. Top(q) \in Paths /\ Len(Top(q)) = 1 /\ Top(q)[1] = q[1]
      /\ (Len(q) = 2 => Parent(q) = Top(q))
  BY <1>1, PathForms DEF Parent
<1>3. p = Top(q)
  BY <1>1, <1>2, PathsEqual DEF Below
<1> QED
  BY <1>2, <1>3 DEF Below, PlainPaths

LEMMA BelowParent ==
    ASSUME NEW p \in Paths, NEW q \in Paths, Below(p, q)
    PROVE  Parent(q) = p
<1>2. Top(q) \in Paths /\ Len(Top(q)) = 1 /\ Top(q)[1] = q[1]
      /\ (Len(q) = 2 => Parent(q) = Top(q))
  BY PathForms DEF Parent
<1>3. p = Top(q)
  BY <1>2, PathsEqual DEF Below
<1> QED
  BY <1>2, <1>3 DEF Below

LEMMA HeldPath ==
    ASSUME NEW v, NEW v2, NEW own, NEW own2, KeepsLabels(own, own2), NEW p, NEW e,
           PathStep(v, v2, p, e), NEW path, NEW cl, Held(v, own, path, cl),
           ~Below(p, path), path = p => e # NoEntry,
           e # NoEntry /\ cl # 0 /\ e.cluster = cl => path = p
    PROVE  Held(v2, own2, path, cl)
<1>1. path \in Paths /\ path \in FilePaths
  BY FilesAssumption DEF Held
<1>2. At(v2, path) # NoEntry
  BY <1>1 DEF PathStep, Held
<1>3. ASSUME cl # 0 PROVE own2[cl] = cl /\ cl # Root /\ OnlyAt(v2, path, cl)
  <2>1. cl \in Clusters /\ own[cl] = cl /\ cl # Root /\ OnlyAt(v, path, cl)
    BY <1>3 DEF Held, MayPoint
  <2>2. own2[cl] = cl
    BY <1>3, <2>1 DEF KeepsLabels
  <2>3. ASSUME NEW q \in Paths, At(v2, q) # NoEntry, At(v2, q).cluster = cl
        PROVE  q = path
    <3>1. CASE q = p
      BY <1>3, <2>3, <3>1 DEF PathStep
    <3>2. CASE q # p
      BY <2>1, <2>3, <3>2 DEF PathStep, OnlyAt
    <3> QED
      BY <3>1, <3>2
  <2> QED
    BY <2>1, <2>2, <2>3 DEF OnlyAt
<1>4. cl \in Clusters \cup {0}
  BY DEF Held, MayPoint
<1> QED
  BY <1>1, <1>2, <1>3, <1>4 DEF Held, MayPoint

LEMMA HeldFrame ==
    ASSUME NEW v, NEW v2, NEW own, NEW own2, NEW h, Frame(v, v2, own, own2, h),
           \A q \in Paths : At(v2, q) = At(v, q),
           NEW path, NEW cl, Held(v, own, path, cl), cl = h => own2[h] = h
    PROVE  Held(v2, own2, path, cl)
<1>1. path \in Paths /\ path \in FilePaths
  BY FilesAssumption DEF Held
<1>2. At(v2, path) # NoEntry
  BY <1>1 DEF Held
<1>3. ASSUME cl # 0 PROVE own2[cl] = cl /\ cl # Root /\ OnlyAt(v2, path, cl)
  <2>1. cl \in Clusters /\ own[cl] = cl /\ cl # Root /\ OnlyAt(v, path, cl)
    BY <1>3 DEF Held, MayPoint
  <2>2. own2[cl] = cl
    BY <1>3, <2>1 DEF Frame
  <2> QED
    BY <2>1, <2>2 DEF OnlyAt
<1>4. cl \in Clusters \cup {0}
  BY DEF Held, MayPoint
<1> QED
  BY <1>1, <1>2, <1>3, <1>4 DEF Held, MayPoint

LEMMA CreateHeld ==
    ASSUME PlainPaths, NEW v, NEW own, NEW p \in FilePaths, NEW r, Created(v, own, p, r)
    PROVE  /\ \E own2 : /\ Tree(r.v, own2) /\ AllHeld(v, r.v, own, own2)
                        /\ Held(r.v, own2, p, 0)
           /\ EntriesKept(v, r.v, {}) /\ NoNewFiles(v, r.v, 0)
           /\ FilesKept(v, r.v, own, 0)
<1>1. PICK own2, e : /\ Tree(r.v, own2) /\ KeepsLabels(own, own2)
                     /\ PathStep(v, r.v, p, e) /\ e # NoEntry /\ e.cluster = 0
  BY DEF Created
<1>2. ASSUME NEW path, NEW cl, Held(v, own, path, cl)
      PROVE  Held(r.v, own2, path, cl)
  <2>1. ~Below(p, path)
    BY <1>2, NotBelow DEF Held
  <2> QED
    BY <1>1, <1>2, <2>1, HeldPath
<1>3. Held(r.v, own2, p, 0)
  BY <1>1 DEF Held, MayPoint, PathStep
<1>4. EntriesKept(v, r.v, {})
  BY <1>1, NotBelow, PathStepEntries DEF Created
<1>5. NoNewFiles(v, r.v, 0)
  BY <1>1, PathStepFiles
<1> QED
  BY <1>1, <1>2, <1>3, <1>4, <1>5 DEF AllHeld, Created

(* The update at close(): clusters other than the new one have nothing to  *)
(* do with it.                                                             *)
LEMMA UpdateHeld ==
    ASSUME PlainPaths, NEW v, NEW v2, NEW own, NEW p \in FilePaths, NEW cl,
           Updated(v, v2, own, p, cl), NEW path, NEW c, Held(v, own, path, c),
           c = cl /\ cl # 0 => path = p
    PROVE  Held(v2, own, path, c)
<1>1. PICK e : PathStep(v, v2, p, e) /\ e # NoEntry /\ e.cluster = cl
  BY DEF Updated
<1>2. ~Below(p, path)
  BY NotBelow DEF Held
<1>3. KeepsLabels(own, own)
  BY DEF KeepsLabels
<1> QED
  BY <1>1, <1>2, <1>3, HeldPath

(* FS_TRUNCATE of a file that is there.                                    *)
LEMMA ParentSame ==
    ASSUME PlainPaths, NEW v, NEW v2, NEW own, NEW own2, Tree(v, own), Tree(v2, own2),
           \A q \in Paths : At(v2, q) = At(v, q), NEW p \in FilePaths \cup DirPaths
    PROVE  Resolve(v2, Parent(p)) = Resolve(v, Parent(p))
<1>1. p \in Paths
  BY FilesAssumption
<1>2. /\ Len(p) \in {1, 2}
      /\ Parent(p) = IF Len(p) = 1 THEN <<>> ELSE Top(p)
      /\ Top(p) \in Paths
  BY <1>1, PathForms DEF Parent
<1>3. CASE Len(p) = 1
  <2>1. Len(Parent(p)) = 0
    BY <1>2, <1>3
  <2> QED
    BY <2>1, ResolveIs
<1>4. CASE Len(p) = 2
  <2>1. Parent(p) = Top(p)
    BY <1>2, <1>4
  <2>2. Resolve(v2, Top(p)) = At(v2, Top(p)) /\ Resolve(v, Top(p)) = At(v, Top(p))
    BY <1>2, ResolveAt
  <2> QED
    BY <1>2, <2>1, <2>2
<1> QED
  BY <1>2, <1>3, <1>4

(* The file at p, the chain of h if it has one, is one sector of zeros.    *)
Truncated(v, v2, own, p, h) ==
    /\ h = 0 => v2 = v
    /\ h # 0 => Content(v2, h) = ZeroSector
    /\ EntriesKept(v, v2, {p}) /\ NoNewFiles(v, v2, 0) /\ FilesKept(v, v2, own, h)
    /\ FileAt(v2, p, h)

LEMMA UpdatedRest ==
    ASSUME PlainPaths, NEW v, NEW v2, NEW own, NEW p \in FilePaths, NEW cl,
           Updated(v, v2, own, p, cl)
    PROVE  /\ EntriesKept(v, v2, {p}) /\ NoNewFiles(v, v2, cl) /\ FileAt(v2, p, cl)
           /\ FilesKept(v, v2, own, 0)
<1>1. PICK e : PathStep(v, v2, p, e) /\ e # NoEntry /\ ~e.dir /\ e.cluster = cl
  BY DEF Updated
<1>2. EntriesKept(v, v2, {p})
  BY <1>1, NotBelow, PathStepEntries
<1>3. NoNewFiles(v, v2, cl)
  BY <1>1, PathStepFiles
<1> QED
  BY <1>1, <1>2, <1>3 DEF Updated, FileAt, PathStep

LEMMA TruncateRequest ==
    ASSUME PlainPaths, NEW v, NEW own, Tree(v, own), NEW p \in FilePaths,
           At(v, p) # NoEntry,
           NEW r, r = TruncateAt(v, Resolve(v, Parent(p)), Last(p))
    PROVE  /\ \E own2 : Tree(r.v, own2) /\ AllHeld(v, r.v, own, own2)
           /\ Truncated(v, r.v, own, p, At(v, p).cluster)
<1> DEFINE g == Resolve(v, Parent(p))
           name == Last(p)
           d == g.cluster
           e == At(v, p)
           h == e.cluster
<1>1. DirFound(v, own, p, g)
  BY ParentFound
<1>2. p \in Paths
  BY FilesAssumption
<1>3. v \in Volumes /\ Labelled(v, own)
  BY DEF Tree
<1>4. PlaceOK(v, own, p, e)
  BY <1>2 DEF Tree
<1>5. h \in Clusters \cup {0} /\ h # Root /\ (h # 0 => own[h] = h) /\ ~e.dir
  <2>1. ~e.dir
    BY <1>4, FilesAssumption DEF PlaceOK
  <2> QED
    BY <1>4, <2>1 DEF PlaceOK, Entries
<1>6. EntryIn(v, g, name) = e
  BY <1>1 DEF EntryIn, DirFound
<1>7. r = IF h < 2 THEN [ok |-> TRUE, v |-> v] ELSE TruncateFile(v, h, d, name)
  BY <1>6 DEF TruncateAt, TruncateIn
<1>8. CASE h = 0
  <2>1. r.v = v
    BY <1>7, <1>8
  <2>2. Truncated(v, r.v, own, p, h)
    BY <1>5, <1>8, <2>1 DEF Truncated, EntriesKept, NoNewFiles, FilesKept, FileAt
  <2> QED
    BY <2>1, <2>2 DEF AllHeld
<1>9. CASE h # 0
  <2> DEFINE w == Emptied(IF Continues(v, h) THEN FreeChain(v, v.fat[h]) ELSE v, h)
  <2>1. h \in Clusters /\ ~(h < 2) /\ own[h] = h
    BY <1>5, <1>9, VolumeNumbers
  <2>2. r = UpdateDirEntrySize(w, d, name, 0, h)
    BY <1>7, <2>1 DEF TruncateFile
  <2> HIDE DEF h, e, d, g
  <2>3. w \in Volumes /\ Content(w, h) = ZeroSector
        /\ \E own2 : /\ Labelled(w, own2) /\ own2[h] = h /\ Frame(v, w, own, own2, h)
    BY <1>3, <2>1, EmptiedChain
  <2> HIDE DEF w
  <2>4. PICK own2 : Labelled(w, own2) /\ own2[h] = h /\ Frame(v, w, own, own2, h)
    BY <2>3
  <2>5. \A q \in Paths : At(v, q) # NoEntry /\ At(v, q).cluster = h
                           => ~At(v, q).dir /\ own2[h] = h
    <3> SUFFICES ASSUME NEW q \in Paths, At(v, q) # NoEntry, At(v, q).cluster = h
                 PROVE  ~At(v, q).dir
      BY <2>4
    <3>1. q = p
      BY <1>2, <1>9 DEF Tree, h, e
    <3> QED
      BY <1>5, <3>1 DEF e
  <2>6. Tree(w, own2) /\ \A q \in Paths : At(w, q) = At(v, q)
    BY <1>5, <2>3, <2>4, <2>5, TreeFrame
  <2>7. AllHeld(v, w, own, own2)
    BY <2>4, <2>6, HeldFrame DEF AllHeld
  <2>8. At(w, p) = e /\ e # NoEntry
    BY <1>2, <2>6 DEF e
  <2>9. OnlyAt(w, p, h)
    BY <1>2, <1>9, <2>6, <2>8 DEF OnlyAt, Tree, h
  <2>10. MayPoint(w, own2, p, h)
    BY <1>5, <2>1, <2>4, <2>9 DEF MayPoint
  <2>11. Resolve(w, Parent(p)) = g
    BY <2>6, ParentSame DEF g
  <2>12. r = UpdateIn(w, Resolve(w, Parent(p)), name, 0, h)
    BY <1>1, <2>2, <2>11 DEF UpdateIn, DirFound, d
  <2>13. 0 \in 0 .. MaxOffset
    BY FilesAssumption
  <2>14. r.v = w \/ Updated(w, r.v, own2, p, h)
    BY <2>6, <2>8, <2>10, <2>12, <2>13, UpdateRequest
  <2>17. FilesKept(v, w, own, h)
    BY <1>3, <2>3, <2>4, FrameKeepsFiles
  <2>18. FileAt(v, p, h)
    BY <1>5 DEF FileAt, e, h
  <2>19. \A c \in Clusters : own[c] = c /\ c # h => own2[c] = own[c]
    BY <2>4, VolumeNumbers DEF Frame
  <2>15. CASE r.v = w
    <3>1. EntriesKept(v, w, {p}) /\ NoNewFiles(v, w, 0) /\ FileAt(w, p, h)
      BY <1>2, <2>6, <2>18, FilesAssumption DEF EntriesKept, NoNewFiles, FileAt
    <3>2. Truncated(v, r.v, own, p, h)
      BY <1>9, <2>3, <2>15, <2>17, <3>1 DEF Truncated
    <3> QED
      BY <2>6, <2>7, <2>15, <3>2 DEF h, e
  <2>16. CASE Updated(w, r.v, own2, p, h)
    <3>1. ASSUME NEW path, NEW c, Held(v, own, path, c)
          PROVE  Held(r.v, own2, path, c)
      <4>1. Held(w, own2, path, c)
        BY <2>7, <3>1 DEF AllHeld
      <4>2. c = h => path = p
        <5> SUFFICES ASSUME c = h PROVE path = p
          OBVIOUS
        <5>1. OnlyAt(w, path, h)
          BY <1>9, <4>1 DEF Held, MayPoint
        <5> QED
          BY <1>2, <2>8, <5>1 DEF OnlyAt, h
      <4> QED
        BY <2>16, <4>1, <4>2, UpdateHeld
    <3>2. Tree(r.v, own2)
      BY <2>16 DEF Updated
    <3>3. /\ EntriesKept(w, r.v, {p}) /\ NoNewFiles(w, r.v, h) /\ FileAt(r.v, p, h)
          /\ FilesKept(w, r.v, own2, 0)
      BY <2>16, UpdatedRest
    <3>4. EntriesKept(v, r.v, {p})
      BY <2>6, <3>3, FilesAssumption DEF EntriesKept
    <3>5. ASSUME NEW q \in Paths, NEW c \in Clusters, FileAt(r.v, q, c)
          PROVE  FileAt(v, q, c)
      <4>1. c = h \/ FileAt(v, q, c)
        BY <2>6, <3>3, <3>5 DEF NoNewFiles, FileAt
      <4>2. ASSUME c = h PROVE q = p
        BY <1>2, <1>9, <3>2, <3>3, <3>5, <4>2 DEF FileAt, Tree
      <4> QED
        BY <2>18, <4>1, <4>2
    <3>6. NoNewFiles(v, r.v, 0)
      BY <3>5 DEF NoNewFiles
    <3>7. FilesKept(v, r.v, own, h)
      BY <2>6, <2>17, <2>19, <3>3, FilesKeptTwice
    <3>8. IsFile(w, own2, h)
      <4>1. \A q \in Paths : At(w, q) # NoEntry /\ At(w, q).cluster = h => ~At(w, q).dir
        BY <2>5, <2>6
      <4> QED
        BY <1>5, <2>1, <2>4, <4>1 DEF IsFile
    <3>9. Content(r.v, h) = ZeroSector
      BY <1>9, <2>1, <2>3, <3>3, <3>8 DEF FilesKept
    <3>10. Truncated(v, r.v, own, p, h)
      BY <1>9, <3>3, <3>4, <3>6, <3>7, <3>9 DEF Truncated
    <3> QED
      BY <3>1, <3>2, <3>10 DEF AllHeld, h, e
  <2> QED
    BY <2>14, <2>15, <2>16
<1> QED
  BY <1>8, <1>9

(* What was at the path is gone, and what was below it cannot be reached.  *)
GoneWith(p) == {q \in FilePaths : q = p \/ Parent(q) = p}

Removed(v, v2, own, p) ==
    /\ EntriesKept(v, v2, GoneWith(p)) /\ NoNewFiles(v, v2, 0)
    /\ At(v, p) # NoEntry /\ At(v2, p) = NoEntry
    /\ FilesKept(v, v2, own, At(v, p).cluster)

(* FS_DELETE of what is there.                                             *)
LEMMA DeleteRequest ==
    ASSUME PlainPaths, NEW v, NEW own, Tree(v, own), NEW p \in FilePaths \cup DirPaths,
           NEW r, r = DeleteAt(v, Resolve(v, Parent(p)), Last(p)), r.ok
    PROVE  /\ \E own2 : /\ Tree(r.v, own2)
                        /\ \A path, cl : /\ Held(v, own, path, cl)
                                         /\ path # p /\ Parent(path) # p
                                         => Held(r.v, own2, path, cl)
           /\ Removed(v, r.v, own, p)
<1> DEFINE g == Resolve(v, Parent(p))
           name == Last(p)
           d == g.cluster
           e == At(v, p)
           h == e.cluster
           w == DeleteDirEntry(v, d, name)
<1>1. p \in Paths
  BY FilesAssumption
<1>2. EntryIn(v, g, name) # NoEntry
  BY DEF DeleteAt, DeleteIn, Refused
<1>3. DirFound(v, own, p, g)
  BY <1>2, ParentFound DEF EntryIn
<1>4. EntryIn(v, g, name) = e /\ e # NoEntry
  BY <1>2, <1>3 DEF EntryIn, DirFound
<1>5. r.v = FreeChain(w, h)
  BY <1>4 DEF DeleteAt, DeleteIn
<1>6. v \in Volumes /\ Labelled(v, own)
  BY DEF Tree
<1>7. h \in Clusters \cup {0} /\ h # Root /\ (h # 0 => own[h] = h)
  <2>1. PlaceOK(v, own, p, e)
    BY <1>1, <1>4 DEF Tree
  <2> QED
    BY <2>1 DEF PlaceOK, Entries
<1>8. d \in Clusters /\ own[d] = d /\ DirOK(v, d) /\ FindEntry(v, d, name) = e /\ InDir(v, p, d)
  BY <1>3 DEF DirFound
<1> HIDE DEF g, d, e, h
<1>9. DirStep(v, w, own, own, d, name, NoEntry)
  BY <1>4, <1>6, <1>8, DeleteEntry
<1> HIDE DEF w
<1>10. \A m \in Names : Child(w, NoEntry, m) = NoEntry
  BY KindFacts DEF Child
<1>11. Tree(w, own) /\ PathStep(v, w, p, NoEntry)
  <2> DEFINE none == NoEntry
  <2>1. DirStep(v, w, own, own, d, Last(p), none) /\ none = NoEntry
    BY <1>9
  <2>2. \A m \in Names : Child(w, none, m) = NoEntry
    BY <1>10
  <2> HIDE DEF none
  <2> QED
    BY <1>1, <1>8, <2>1, <2>2, TreeStep
<1>12. ASSUME NEW path, NEW cl, Held(v, own, path, cl), path # p, Parent(path) # p
       PROVE  Held(w, own, path, cl) /\ (cl # 0 => cl # h)
  <2>1. path \in Paths
    BY <1>12, FilesAssumption DEF Held
  <2>2. ~Below(p, path)
    BY <1>1, <1>12, <2>1, BelowParent
  <2>3. KeepsLabels(own, own)
    BY DEF KeepsLabels
  <2>4. Held(w, own, path, cl)
    BY <1>11, <1>12, <2>2, <2>3, HeldPath
  <2>5. ASSUME cl # 0, cl = h PROVE FALSE
    <3>1. OnlyAt(v, path, h)
      BY <1>12, <2>5 DEF Held, MayPoint
    <3> QED
      BY <1>1, <1>4, <1>12, <3>1 DEF OnlyAt, h, e
  <2> QED
    BY <2>4, <2>5
<1>15. EntriesKept(v, w, GoneWith(p)) /\ NoNewFiles(v, w, 0)
  <2> DEFINE none == NoEntry
  <2>1. \A q \in FilePaths : Below(p, q) => q \in GoneWith(p)
    BY <1>1, BelowParent, FilesAssumption DEF GoneWith
  <2>2. p \in GoneWith(p) \/ p \notin FilePaths
    BY DEF GoneWith
  <2>3. EntriesKept(v, w, GoneWith(p))
    BY <1>11, <2>1, <2>2, FilesAssumption DEF EntriesKept, PathStep
  <2>4. PathStep(v, w, p, none) /\ none = NoEntry
    BY <1>11
  <2> HIDE DEF none
  <2>5. NoNewFiles(v, w, 0)
    BY <2>4, PathStepFiles
  <2> QED
    BY <2>3, <2>5
<1>16. FilesKept(v, w, own, 0)
  BY <1>1, <1>8, <1>9, DirKeepsFiles
<1>17. At(w, p) = NoEntry
  BY <1>11 DEF PathStep
<1>13. CASE h = 0
  <2>1. r.v = w
    BY <1>5, <1>13 DEF FreeChain
  <2>2. Removed(v, w, own, p)
    BY <1>4, <1>13, <1>15, <1>16, <1>17 DEF Removed, h, e
  <2> QED
    BY <1>11, <1>12, <2>1, <2>2
<1>14. CASE h # 0
  <2>1. h \in Clusters /\ own[h] = h
    BY <1>7, <1>14
  <2>2. w \in Volumes /\ Labelled(w, own)
    BY <1>11 DEF Tree
  <2>3. r.v \in Volumes
        /\ \E own2 : Labelled(r.v, own2) /\ Frame(w, r.v, own, own2, h)
    BY <1>5, <2>1, <2>2, FreedChain
  <2>4. PICK own2 : Labelled(r.v, own2) /\ Frame(w, r.v, own, own2, h)
    BY <2>3
  <2>5. ASSUME NEW q \in Paths, At(w, q) # NoEntry, At(w, q).cluster = h PROVE FALSE
    <3>1. q # p /\ At(w, q) = At(v, q)
      BY <1>11, <2>5 DEF PathStep
    <3>2. q = p
      BY <1>1, <1>4, <1>14, <2>5, <3>1 DEF Tree, h, e
    <3> QED
      BY <3>1, <3>2
  <2>6. Tree(r.v, own2) /\ \A q \in Paths : At(r.v, q) = At(w, q)
    BY <1>7, <1>11, <2>3, <2>4, <2>5, TreeFrame
  <2>7. ASSUME NEW path, NEW cl, Held(v, own, path, cl), path # p, Parent(path) # p
        PROVE  Held(r.v, own2, path, cl)
    <3>1. Held(w, own, path, cl) /\ (cl # 0 => cl # h)
      BY <1>12, <2>7
    <3>2. cl # h
      BY <1>14, <3>1
    <3> QED
      BY <2>4, <2>6, <3>1, <3>2, HeldFrame
  <2>8. FilesKept(w, r.v, own, h)
    BY <2>2, <2>3, <2>4, FrameKeepsFiles
  <2>9. ASSUME NEW c \in Clusters, IsFile(v, own, c), c # h
        PROVE  Content(r.v, c) = Content(v, c)
    <3>1. c # 0
      BY VolumeNumbers
    <3>2. \A q \in Paths : At(w, q) = At(v, q) \/ At(w, q) = NoEntry
      BY <1>11 DEF PathStep
    <3>3. IsFile(w, own, c)
      BY <2>9, <3>2 DEF IsFile
    <3> QED
      BY <1>16, <2>8, <2>9, <3>1, <3>3 DEF FilesKept
  <2>10. FilesKept(v, r.v, own, h)
    BY <2>9 DEF FilesKept
  <2>11. EntriesKept(v, r.v, GoneWith(p)) /\ NoNewFiles(v, r.v, 0)
    BY <1>15, <2>6, FilesAssumption DEF EntriesKept, NoNewFiles, FileAt
  <2>12. Removed(v, r.v, own, p)
    BY <1>1, <1>4, <1>17, <2>6, <2>10, <2>11 DEF Removed, h, e
  <2> QED
    BY <2>6, <2>7, <2>12
<1> QED
  BY <1>13, <1>14

(* create_empty_dir: a directory that has no name of a path.               *)
LEMMA EmptyDir ==
    ASSUME PlainPaths, NEW v, NEW own, Tree(v, own), CanAlloc(v),
           NEW up \in Clusters, NEW n, n = NewCluster(v),
           NEW w, w = CreateEmptyDir(v, up)
    PROVE  /\ n \in Clusters /\ own[n] = 0
           /\ \E own2 : /\ Tree(w, own2) /\ own2[n] = n /\ KeepsLabels(own, own2)
                        /\ \A q \in Paths : At(w, q) = At(v, q)
                        /\ AllHeld(v, w, own, own2)
           /\ FilesKept(v, w, own, 0)
           /\ DirOK(w, n)
           /\ \A m \in Names : FindEntry(w, n, m) = NoEntry
<1> DEFINE a == AllocCluster(v)
           dot == Entry(<<".", 0>>, TRUE, n, 0)
           dots == Entry(<<"..", 0>>, TRUE, up, 0)
           sector == [i \in 1 .. Slots |-> IF i = 1 THEN dot ELSE IF i = 2 THEN dots ELSE Zero]
           own2 == [c \in Clusters |-> IF c = n THEN n ELSE own[c]]
<1>1. n \in Clusters /\ v.fat[n] = Free
  BY NewClusterFacts
<1>2. v \in Volumes /\ Labelled(v, own) /\ own[Root] = Root
  BY DEF Tree
<1>3. /\ a \in Volumes
      /\ \A c \in Clusters : /\ a.fat[c] = IF c = n THEN Eoc ELSE v.fat[c]
                             /\ a.data[c] = IF c = n THEN ZeroSector ELSE v.data[c]
  BY <1>2, AllocFacts
<1>4. /\ dot \in Entries /\ dots \in Entries
      /\ dot.short = <<".", 0>> /\ dots.short = <<"..", 0>>
  BY <1>1, FilesAssumption DEF Entry, Entries
<1> HIDE DEF dot, dots
<1>5. dot.short # dots.short /\ \A m \in Names : dot.short # <<m, 0>> /\ dots.short # <<m, 0>>
  <2>1. "." # ".." /\ \A m \in Names : m # "." /\ m # ".."
    BY DEF PlainPaths
  <2>2. \A x, y : <<x, 0>> = <<y, 0>> => x = y
    OBVIOUS
  <2> QED
    BY <1>4, <2>1, <2>2
<1>6. w = WithSector(a, n, sector)
  <2> DEFINE ds == <<dot, dots>>
             s2 == [i \in 1 .. Slots |-> IF i <= 2 THEN ds[i] ELSE Zero]
  <2>1. w = WithSector(a, n, s2)
    BY DEF CreateEmptyDir, WithSector, dot, dots
  <2>2. \A i \in 1 .. Slots : s2[i] = sector[i]
    <3> TAKE i \in 1 .. Slots
    <3>1. CASE i = 1
      BY <3>1
    <3>2. CASE i = 2
      BY <3>2
    <3>3. CASE i > 2
      BY <3>3
    <3> QED
      BY <3>1, <3>2, <3>3, VolumeNumbers
  <2>3. s2 = sector
    BY <2>2
  <2> QED
    BY <2>1, <2>3
<1>7. /\ sector \in [1 .. Slots -> DirUnits]
      /\ sector \in [1 .. Slots -> PlainUnits]
      /\ \A i \in 1 .. Slots : sector[i] = IF i = 1 THEN dot ELSE IF i = 2 THEN dots ELSE Zero
  BY <1>4 DEF DirUnits, PlainUnits
<1> HIDE DEF a, sector
<1>8. /\ w \in Volumes /\ w.fat = a.fat
      /\ \A c \in Clusters : w.data[c] = IF c = n THEN sector ELSE a.data[c]
  BY <1>1, <1>3, <1>6, <1>7, WithSectorFacts
<1>9. own[n] = 0 /\ n # 0 /\ n # Root
  BY <1>1, <1>2, VolumeNumbers DEF Labelled
<1>10. /\ own2 \in [Clusters -> Clusters \cup {0}]
       /\ \A c \in Clusters : own2[c] = IF c = n THEN n ELSE own[c]
  BY <1>1, <1>2 DEF Labelled
<1> HIDE DEF own2
<1>11. w.fat[n] = Eoc /\ own2[n] = n
  BY <1>1, <1>3, <1>8, <1>10
<1>12. Labelled(w, own2)
  <2>1. /\ \A c \in Clusters : c # n => w.fat[c] = v.fat[c]
        /\ \A c \in Clusters : c # n => own2[c] = own[c]
    BY <1>3, <1>8, <1>10
  <2> QED
    BY <1>1, <1>2, <1>10, <1>11, <2>1, LabelNew
<1>13. Frame(v, w, own, own2, n)
  BY <1>3, <1>8, <1>9, <1>10 DEF Frame
<1>14. ASSUME NEW q \in Paths, At(v, q) # NoEntry, At(v, q).cluster = n PROVE FALSE
  BY <1>9, <1>14 DEF Tree, PlaceOK
<1>15. Tree(w, own2) /\ \A q \in Paths : At(w, q) = At(v, q)
  BY <1>8, <1>9, <1>12, <1>13, <1>14, TreeFrame
<1>16. AllHeld(v, w, own, own2)
  BY <1>11, <1>13, <1>15, HeldFrame DEF AllHeld
<1>17. KeepsLabels(own, own2)
  BY <1>9, <1>10 DEF KeepsLabels
<1>25. FilesKept(v, w, own, 0)
  <2>1. FilesKept(v, w, own, n)
    BY <1>2, <1>8, <1>12, <1>13, FrameKeepsFiles
  <2> QED
    BY <1>9, <2>1 DEF FilesKept, IsFile
<1> DEFINE x == Content(w, n)
<1>18. x = sector
  <2>1. w.data[n] = sector
    BY <1>1, <1>8
  <2> QED
    BY <1>1, <1>8, <1>11, <1>12, <2>1, OneSector
<1>19. x \in Seq(PlainUnits)
  BY <1>1, <1>8, <1>11, <1>12, ContentIs
<1>20. Slots \in Nat
  BY VolumeNumbers
<1> HIDE DEF x
<1>21. DOMAIN x = 1 .. Slots /\ \A i \in 1 .. Slots : x[i] = sector[i]
  BY <1>7, <1>18
<1>22. DirForm(x)
  <2>1. \A i \in DOMAIN x : x[i] \in DirUnits
    BY <1>7, <1>21
  <2>2. \A i \in DOMAIN x : x[i] = IF i = 1 THEN dot ELSE IF i = 2 THEN dots ELSE Zero
    BY <1>7, <1>21
  <2>3. \A i, j \in DOMAIN x : i < j /\ x[i] = Zero => x[j] = Zero
    BY <1>4, <1>20, <1>21, <2>2, KindFacts
  <2>4. \A i, j \in DOMAIN x : /\ x[i].kind = "entry" /\ x[j].kind = "entry"
                               /\ x[i].short = x[j].short
                               => i = j
    BY <1>5, <2>2, KindFacts
  <2> QED
    BY <2>1, <2>3, <2>4 DEF DirForm
<1>23. DirOK(w, n)
  BY <1>22 DEF DirOK, x
<1>24. ASSUME NEW m \in Names PROVE FindEntry(w, n, m) = NoEntry
  <2>1. \A i \in DOMAIN x : ~HasName(x, i, m)
    BY <1>5, <1>7, <1>21, KindFacts DEF HasName
  <2> QED
    BY <1>19, <1>23, <2>1, LookNone DEF x
<1> QED
  BY <1>1, <1>9, <1>11, <1>15, <1>16, <1>17, <1>23, <1>24, <1>25

(* FS_MKDIR where nothing is.                                              *)
LEMMA MkdirRequest ==
    ASSUME PlainPaths, NEW v, NEW own, Tree(v, own), NEW p \in DirPaths,
           At(v, p) = NoEntry,
           NEW r, r = MkdirIn(v, Resolve(v, Parent(p)), Last(p))
    PROVE  /\ \E own2 : Tree(r.v, own2) /\ AllHeld(v, r.v, own, own2)
           /\ EntriesKept(v, r.v, {}) /\ NoNewFiles(v, r.v, 0)
           /\ FilesKept(v, r.v, own, 0)
<1> DEFINE g == Resolve(v, Parent(p))
           name == Last(p)
           d == g.cluster
           n == NewCluster(v)
           w == CreateEmptyDir(v, d)
           c == CreateDirEntry(w, d, name, TRUE, n, 0)
           e == Entry(<<name, 0>>, TRUE, n, 0)
<1>1. CASE g = NoEntry \/ ~CanAlloc(v)
  <2>1. r.v = v
    BY <1>1 DEF MkdirIn, Refused
  <2> QED
    BY <2>1 DEF AllHeld, EntriesKept, NoNewFiles, FilesKept
<1>2. CASE g # NoEntry /\ CanAlloc(v)
  <2>1. DirFound(v, own, p, g)
    BY <1>2, ParentFound
  <2>2. r.v = c.v
    BY <1>2 DEF MkdirIn
  <2>3. p \in Paths /\ name \in Valid83 /\ name \in Names
    BY FilesAssumption, VolumeAssumption DEF PlainPaths
  <2>4. d \in Clusters
    BY <2>1 DEF DirFound
  <2> HIDE DEF g, d, w, n, name
  <2>5. /\ n \in Clusters /\ own[n] = 0
        /\ \E own1 : /\ Tree(w, own1) /\ own1[n] = n /\ KeepsLabels(own, own1)
                     /\ \A q \in Paths : At(w, q) = At(v, q)
                     /\ AllHeld(v, w, own, own1)
        /\ FilesKept(v, w, own, 0)
        /\ DirOK(w, n)
        /\ \A m \in Names : FindEntry(w, n, m) = NoEntry
    BY <1>2, <2>4, EmptyDir DEF n, w
  <2>6. PICK own1 : /\ Tree(w, own1) /\ own1[n] = n /\ KeepsLabels(own, own1)
                    /\ \A q \in Paths : At(w, q) = At(v, q)
                    /\ AllHeld(v, w, own, own1)
    BY <2>5
  <2>7. Resolve(w, Parent(p)) = g
    BY <2>6, ParentSame DEF g
  <2>8. DirFound(w, own1, p, g)
    BY <1>2, <2>6, <2>7, ParentFound
  <2>9. /\ own1[d] = d /\ DirOK(w, d) /\ InDir(w, p, d)
        /\ FindEntry(w, d, name) = NoEntry
    BY <2>3, <2>6, <2>8 DEF DirFound, d, name
  <2>10. w \in Volumes /\ Labelled(w, own1)
    BY <2>6 DEF Tree
  <2>11. 0 \in 0 .. MaxOffset /\ n \in Clusters \cup {0} /\ TRUE \in BOOLEAN
    BY <2>5, FilesAssumption
  <2> HIDE DEF c
  <2>12. \/ c.ok = FALSE /\ c.v = w
         \/ /\ c.ok = TRUE
            /\ \E own2 : DirStep(w, c.v, own1, own2, d, name, e)
    BY <2>3, <2>4, <2>9, <2>10, <2>11, CreateEntry DEF c
  <2>15. EntriesKept(v, w, {}) /\ NoNewFiles(v, w, 0)
    BY <2>6, FilesAssumption DEF EntriesKept, NoNewFiles, FileAt
  <2>13. CASE c.v = w
    BY <2>2, <2>5, <2>6, <2>13, <2>15
  <2>14. CASE \E own2 : DirStep(w, c.v, own1, own2, d, name, e)
    <3>1. PICK own2 : DirStep(w, c.v, own1, own2, d, name, e)
      BY <2>14
    <3>2. e \in Entries /\ e.short = <<name, 0>> /\ e.dir = TRUE /\ e.cluster = n
      BY <2>3, <2>11 DEF Entry, Entries
    <3> HIDE DEF e
    <3>3. e # NoEntry /\ e.kind = "entry"
      BY <3>2, KindFacts
    <3>4. n # 0 /\ n # Root /\ n # d
      <4>1. own[d] = d /\ own[Root] = Root /\ Root # 0 /\ d # 0 /\ n # 0
        BY <2>1, <2>4, <2>5, VolumeNumbers DEF DirFound, d, Tree
      <4> QED
        BY <2>5, <4>1
    <3>5. /\ c.v \in Volumes /\ Labelled(c.v, own2) /\ KeepsLabels(own1, own2)
          /\ Frame(w, c.v, own1, own2, d)
      BY <3>1 DEF DirStep, KeepsLabels, Frame
    <3>6. /\ own2[n] = n /\ DirOK(c.v, n)
          /\ \A m : FindEntry(c.v, n, m) = FindEntry(w, n, m)
      BY <2>5, <2>6, <2>10, <3>4, <3>5, SameDir
    <3>7. PlaceOK(c.v, own2, p, e)
      BY <3>2, <3>4, <3>6 DEF PlaceOK, name
    <3>8. \A m \in Names : Child(c.v, e, m) = NoEntry
      BY <2>5, <3>2, <3>6 DEF Child
    <3>9. ASSUME NEW q \in Paths, At(w, q) # NoEntry, At(w, q).cluster = n PROVE FALSE
      <4>1. At(v, q) # NoEntry /\ At(v, q).cluster = n
        BY <2>6, <3>9
      <4>2. own[n] = n
        BY <3>4, <4>1 DEF Tree, PlaceOK
      <4> QED
        BY <2>5, <3>4, <4>2
    <3>10. OnlyAt(w, p, e.cluster)
      BY <3>2, <3>9 DEF OnlyAt
    <3>11. Tree(c.v, own2) /\ PathStep(w, c.v, p, e)
      BY <2>3, <2>6, <2>9, <3>1, <3>7, <3>8, <3>10, TreeStep DEF name
    <3>13. \A path \in Paths : Below(p, path) => At(v, path) = NoEntry
      <4> SUFFICES ASSUME NEW path \in Paths, Below(p, path) PROVE At(v, path) = NoEntry
        OBVIOUS
      <4>1. At(v, path) = Child(v, FindEntry(v, Root, p[1]), path[2])
            /\ At(v, p) = FindEntry(v, Root, p[1])
        BY DEF Below, At
      <4>2. Child(v, NoEntry, path[2]) = NoEntry
        BY KindFacts DEF Child
      <4> QED
        BY <4>1, <4>2
    <3>12. ASSUME NEW path, NEW cl, Held(v, own, path, cl)
           PROVE  Held(c.v, own2, path, cl)
      <4>1. Held(w, own1, path, cl)
        BY <2>6, <3>12 DEF AllHeld
      <4>2. path \in Paths /\ At(v, path) # NoEntry
        BY <3>12, FilesAssumption DEF Held
      <4>3. ~Below(p, path)
        BY <3>13, <4>2
      <4>4. cl # 0 => cl # n
        BY <2>5, <3>4, <3>12 DEF Held, MayPoint
      <4> QED
        BY <3>2, <3>3, <3>5, <3>11, <4>1, <4>3, <4>4, HeldPath
    <3>14. EntriesKept(w, c.v, {})
      <4>1. p \in {} \/ At(w, p) = NoEntry
        BY <2>3, <2>6
      <4>2. \A q \in FilePaths : Below(p, q) => q \in {} \/ At(w, q) = NoEntry
        BY <2>6, <3>13, FilesAssumption
      <4> QED
        BY <3>11, <4>1, <4>2, PathStepEntries
    <3>15. NoNewFiles(w, c.v, 0)
      BY <3>2, <3>11, PathStepFiles
    <3>16. EntriesKept(v, c.v, {}) /\ NoNewFiles(v, c.v, 0)
      BY <2>6, <3>14, <3>15, FilesAssumption DEF EntriesKept, NoNewFiles, FileAt
    <3>17. FilesKept(w, c.v, own1, 0)
      BY <2>3, <2>6, <2>9, <3>1, DirKeepsFiles
    <3>18. FilesKept(v, c.v, own, 0)
      <4>1. \A x \in Clusters : own[x] = x /\ x # 0 => own1[x] = own[x]
        BY <2>6 DEF KeepsLabels
      <4> QED
        BY <2>5, <2>6, <3>17, <4>1, FilesKeptTwice
    <3> QED
      BY <2>2, <3>11, <3>12, <3>16, <3>18 DEF AllHeld
  <2> QED
    BY <2>12, <2>13, <2>14
<1> QED
  BY <1>1, <1>2

LEMMA KeepsFrame ==
    ASSUME NEW v, NEW v2, NEW own, NEW own2, NEW h, Keeps(v, v2, own, own2, h)
    PROVE  Frame(v, v2, own, own2, h) /\ KeepsLabels(own, own2)
BY DEF Keeps, Frame, KeepsLabels

(* FS_WRITE through a descriptor: the cluster that it has afterwards       *)
(* belongs to no other path, and no descriptor had it that did not have it *)
(* before.                                                                 *)
WroteFor(v, own, p, cl, cl2, buf, r) ==
    /\ r.written \in 0 .. Len(buf)
    /\ cl2 \in Clusters
    /\ \E own2 : /\ Tree(r.v, own2) /\ AllHeld(v, r.v, own, own2)
                 /\ Held(r.v, own2, p, cl2)
    /\ cl = 0 => own[cl2] = 0
    /\ \A q \in Paths : At(r.v, q) = At(v, q)
    /\ FilesKept(v, r.v, own, cl2)

LEMMA WriteRequest ==
    ASSUME NEW v, NEW own, Tree(v, own), NEW p, NEW cl, Held(v, own, p, cl),
           NEW off \in Nat, NEW buf \in Seq(PlainUnits),
           NEW r, r = FsWrite(v, cl, off, buf)
    PROVE  \/ r.ok = FALSE /\ r.v = v
           \/ r.ok = TRUE /\ WroteFor(v, own, p, cl, IF cl = 0 THEN r.last ELSE cl, buf, r)
<1>1. v \in Volumes /\ Labelled(v, own) /\ own[Root] = Root
  BY DEF Tree
<1>2. cl \in Clusters \cup {0} /\ p \in FilePaths /\ p \in Paths /\ At(v, p) # NoEntry
  BY FilesAssumption DEF Held, MayPoint
<1>3. Root # 0 /\ Root \in Clusters /\ 0 \notin Clusters
  BY VolumeNumbers
<1>4. CASE cl # 0
  <2>1. cl \in Clusters /\ own[cl] = cl /\ cl # Root /\ OnlyAt(v, p, cl)
    BY <1>2, <1>4 DEF Held, MayPoint
  <2>2. r = WriteFile(v, cl, off, buf)
    <3>1. cl >= 2
      BY <2>1, VolumeNumbers
    <3> QED
      BY <3>1 DEF FsWrite
  <2>3. Wrote(v, own, cl, buf, r)
    BY <1>1, <2>1, <2>2, WriteChain
  <2>4. PICK own2 : Labelled(r.v, own2) /\ Keeps(v, r.v, own, own2, cl)
    BY <2>3 DEF Wrote
  <2>5. r.ok = TRUE /\ r.written \in 0 .. Len(buf) /\ r.v \in Volumes
    BY <2>3 DEF Wrote
  <2>6. Frame(v, r.v, own, own2, cl) /\ own2[cl] = cl
    BY <1>4, <2>1, <2>4, KeepsFrame DEF KeepsLabels
  <2>7. ASSUME NEW q \in Paths, At(v, q) # NoEntry, At(v, q).cluster = cl
        PROVE  ~At(v, q).dir
    <3>1. q = p
      BY <2>1, <2>7 DEF OnlyAt
    <3> QED
      BY <1>2, <2>7, <3>1, FilesAssumption DEF Tree, PlaceOK
  <2>8. Tree(r.v, own2) /\ \A q \in Paths : At(r.v, q) = At(v, q)
    BY <2>1, <2>4, <2>5, <2>6, <2>7, TreeFrame
  <2>9. AllHeld(v, r.v, own, own2)
    BY <2>6, <2>8, HeldFrame DEF AllHeld
  <2>10. Held(r.v, own2, p, cl)
    BY <2>9 DEF AllHeld
  <2>12. FilesKept(v, r.v, own, cl)
    BY <1>1, <2>4, <2>5, <2>6, FrameKeepsFiles
  <2>11. WroteFor(v, own, p, cl, cl, buf, r)
    BY <1>4, <2>1, <2>5, <2>8, <2>9, <2>10, <2>12 DEF WroteFor
  <2> QED
    BY <1>4, <2>5, <2>11
<1>5. CASE cl = 0 /\ ~CanAlloc(v)
  BY <1>5 DEF FsWrite, Refused
<1>6. CASE cl = 0 /\ CanAlloc(v)
  <2>1. r = WriteFile(AllocCluster(v), NewCluster(v), off, buf)
    BY <1>6 DEF FsWrite
  <2>2. /\ r.ok = TRUE /\ r.written \in 0 .. Len(buf)
        /\ r.v \in Volumes /\ r.last \in Clusters /\ own[r.last] = 0
        /\ \E own2 : /\ Labelled(r.v, own2) /\ own2[r.last] = r.last
                     /\ Keeps(v, r.v, own, own2, r.last)
    BY <1>1, <1>6, <2>1, WriteFresh, ZenonT(30)
  <2> DEFINE x == r.last
  <2>3. PICK own2 : Labelled(r.v, own2) /\ own2[x] = x /\ Keeps(v, r.v, own, own2, x)
    BY <2>2
  <2>4. x \in Clusters /\ own[x] = 0 /\ x # 0 /\ x # Root
    BY <1>1, <1>3, <2>2
  <2> HIDE DEF x
  <2>5. Frame(v, r.v, own, own2, x)
    BY <2>3, KeepsFrame
  <2>6. ASSUME NEW q \in Paths, At(v, q) # NoEntry, At(v, q).cluster = x PROVE FALSE
    BY <2>4, <2>6 DEF Tree, PlaceOK
  <2>7. Tree(r.v, own2) /\ \A q \in Paths : At(r.v, q) = At(v, q)
    BY <2>2, <2>3, <2>4, <2>5, <2>6, TreeFrame
  <2>8. AllHeld(v, r.v, own, own2)
    BY <2>3, <2>5, <2>7, HeldFrame DEF AllHeld
  <2>9. Held(r.v, own2, p, x)
    <3>1. OnlyAt(r.v, p, x)
      BY <2>6, <2>7 DEF OnlyAt
    <3> QED
      BY <1>2, <2>3, <2>4, <2>7, <3>1 DEF Held, MayPoint
  <2>11. FilesKept(v, r.v, own, x)
    BY <1>1, <2>2, <2>3, <2>5, FrameKeepsFiles
  <2>10. WroteFor(v, own, p, cl, x, buf, r)
    BY <2>2, <2>4, <2>7, <2>8, <2>9, <2>11 DEF WroteFor
  <2> QED
    BY <1>6, <2>2, <2>10 DEF x
<1> QED
  BY <1>4, <1>5, <1>6

-----------------------------------------------------------------------------
(* Reading.                                                                *)

(* s has the units of u after off, up to the end.                          *)
IsSlice(s, u, off, end) ==
    /\ s \in Seq(PlainUnits)
    /\ Len(s) = IF end > off THEN end - off ELSE 0
    /\ \A i \in 1 .. Len(s) : s[i] = u[off + i]

UpTo(a, b) == IF a <= b THEN a ELSE b

(* The units u of a file go on with those of the sector after base.        *)
SectorAt(u, base, sector) == \A i \in 1 .. Slots : u[base + i] = sector[i]

LEMMA CopyStep ==
    ASSUME NEW u, NEW off \in Nat, NEW len \in Nat, NEW base \in Nat, NEW buf,
           IsSlice(buf, u, off, UpTo(off + len, base)),
           NEW sector \in [1 .. Slots -> PlainUnits], SectorAt(u, base, sector),
           NEW start \in 0 .. Slots - 1,
           (off = base + start) \/ (off < base /\ start = 0)
    PROVE  IsSlice(CopySector(buf, sector, start, len), u, off,
                   UpTo(off + len, base + Slots))
<1> DEFINE n == Len(buf)
           e == UpTo(off + len, base)
           m == UpTo(Slots, start + len - n)
           new == SubSeq(sector, start + 1, m)
           out == buf \o new
<1>1. Slots \in Nat /\ Slots >= 1
  BY VolumeNumbers
<1>2. /\ buf \in Seq(PlainUnits) /\ n \in Nat
      /\ n = IF e > off THEN e - off ELSE 0
      /\ \A i \in 1 .. n : buf[i] = u[off + i]
  BY DEF IsSlice
<1>3. sector \in Seq(PlainUnits) /\ Len(sector) = Slots
  BY <1>1
<1> HIDE DEF n
<1>4. CopySector(buf, sector, start, len) = out
  <2>1. Min({Slots, start + len - Len(buf)}) = m
    <3> DEFINE z == start + len - n
    <3>1. z \in Int /\ Slots \in Int
      BY <1>1, <1>2
    <3> HIDE DEF z
    <3>2. Min({Slots, z}) = IF Slots <= z THEN Slots ELSE z
      BY <3>1, MinTwo
    <3> QED
      BY <3>2 DEF z, n, UpTo
  <2> QED
    BY <2>1 DEF CopySector
<1>5. n <= len
  BY <1>1, <1>2 DEF UpTo
<1>6. m \in start .. Slots
  BY <1>1, <1>2, <1>5 DEF UpTo
<1>7. m = start \/ off + n = base + start
  BY <1>1, <1>2, <1>5 DEF UpTo
<1>8. n + m - start = IF UpTo(off + len, base + Slots) > off
                      THEN UpTo(off + len, base + Slots) - off ELSE 0
  BY <1>1, <1>2, <1>5 DEF UpTo
<1> HIDE DEF m
<1>9. /\ new \in Seq(PlainUnits) /\ Len(new) = m - start
      /\ \A j \in 1 .. m - start : new[j] = sector[start + j]
  <2>1. start + 1 \in Nat /\ m \in Nat /\ start + 1 >= 1 /\ m <= Slots /\ start <= m
    BY <1>1, <1>6
  <2>2. new \in Seq(PlainUnits)
    BY <1>3, <2>1, SubSeqProperties
  <2>3. Len(new) = m - start
    BY <1>3, <2>1, SubSeqProperties
  <2>4. \A j \in 1 .. m - start : new[j] = sector[start + j]
    BY <1>3, <2>1, <2>3, SubSeqProperties
  <2> QED
    BY <2>2, <2>3, <2>4
<1> HIDE DEF new
<1>10. /\ out \in Seq(PlainUnits) /\ Len(out) = n + (m - start)
       /\ \A i \in 1 .. Len(out) : out[i] = IF i <= n THEN buf[i] ELSE new[i - n]
  <2>1. out \in Seq(PlainUnits) /\ Len(out) = Len(buf) + Len(new)
    BY <1>2, <1>9, ConcatProperties
  <2>2. \A i \in 1 .. Len(buf) + Len(new) :
           out[i] = IF i <= Len(buf) THEN buf[i] ELSE new[i - Len(buf)]
    BY <1>2, <1>9, ConcatProperties
  <2>3. Len(out) = n + (m - start)
    BY <1>9, <2>1 DEF n
  <2> QED
    BY <2>1, <2>2, <2>3 DEF n
<1> HIDE DEF out
<1>11. ASSUME NEW i \in 1 .. Len(out) PROVE out[i] = u[off + i]
  <2>0. i \in Nat /\ i >= 1 /\ i <= n + (m - start)
    BY <1>10
  <2>1. CASE i <= n
    <3>1. i \in 1 .. n
      BY <1>2, <2>0, <2>1
    <3> QED
      BY <1>2, <1>10, <1>11, <2>1, <3>1
  <2>2. CASE i > n
    <3>1. i - n \in 1 .. m - start /\ start + (i - n) \in 1 .. Slots
      BY <1>1, <1>2, <1>6, <2>0, <2>2, SMTT(30)
    <3>2. out[i] = sector[start + (i - n)]
      BY <1>9, <1>10, <1>11, <1>2, <2>2, <3>1, <2>0, SMTT(30)
    <3>3. u[base + (start + (i - n))] = sector[start + (i - n)]
      BY <3>1 DEF SectorAt
    <3>4. base + (start + (i - n)) = off + i
      <4>1. m # start /\ m \in Int
        BY <1>1, <1>2, <1>6, <2>0, <3>1
      <4>2. off + n = base + start
        BY <1>7, <4>1
      <4>3. start \in Nat /\ n \in Nat
        BY <1>1, <1>2
      <4> QED
        BY <2>0, <4>2, <4>3
    <3> QED
      BY <3>2, <3>3, <3>4
  <2> QED
    BY <1>2, <2>0, <2>1, <2>2
<1>12. Len(out) = n + m - start
  BY <1>1, <1>2, <1>6, <1>10
<1> QED
  BY <1>4, <1>8, <1>10, <1>11, <1>12 DEF IsSlice

(* The loop of read_file, from the cluster of the offset to the n-th.      *)
CopyOne(v, ch, off, len, buf, k) ==
    CopySector(buf, v.data[ch[k]],
               IF k = off \div Slots + 1 THEN off % Slots ELSE 0, len)

IsCopied(v, ch, off, len, f, n) ==
    f = [k \in off \div Slots .. n |->
            IF k = off \div Slots THEN <<>>
            ELSE CopyOne(v, ch, off, len, f[k - 1], k)]

CopiedOf(v, ch, off, len, n) ==
    CHOOSE f : f = [k \in off \div Slots .. n |->
                       IF k = off \div Slots THEN <<>>
                       ELSE CopyOne(v, ch, off, len, f[k - 1], k)]

LEMMA CopiedExists ==
    ASSUME NEW v, NEW ch, NEW off \in Nat, NEW len, NEW n \in Nat, off \div Slots <= n
    PROVE  \E f : IsCopied(v, ch, off, len, f, n)
<1> DEFINE a == off \div Slots
           B == {m \in Nat : a <= m /\ ~\E f : IsCopied(v, ch, off, len, f, m)}
<1>0. a \in Nat
  BY Division
<1> HIDE DEF a
<1>10. n \in Nat /\ a <= n
  BY DEF a
<1> SUFFICES ASSUME B # {} PROVE FALSE
  BY <1>10
<1>1. PICK m \in B : \A e \in B : m <= e
  BY LeastIn
<1>2. m # a
  <2> DEFINE f == [k \in a .. a |-> <<>>]
  <2>1. \A k \in a .. a : f[k] = IF k = a THEN <<>> ELSE CopyOne(v, ch, off, len, f[k - 1], k)
    BY <1>0
  <2>2. f = [k \in a .. a |-> IF k = a THEN <<>>
                              ELSE CopyOne(v, ch, off, len, f[k - 1], k)]
    BY <2>1
  <2>3. IsCopied(v, ch, off, len, f, a)
    BY <2>2 DEF IsCopied, a
  <2> QED
    BY <2>3
<1>3. m \in Nat /\ a < m /\ m - 1 \in Nat /\ m - 1 \notin B /\ a <= m - 1
  BY <1>0, <1>1, <1>2
<1>4. PICK g : IsCopied(v, ch, off, len, g, m - 1)
  BY <1>3
<1>5. \A k \in a .. m - 1 : g[k] = IF k = a THEN <<>>
                                   ELSE CopyOne(v, ch, off, len, g[k - 1], k)
  BY <1>4 DEF IsCopied, a
<1> DEFINE f == [k \in a .. m |-> IF k = m THEN CopyOne(v, ch, off, len, g[m - 1], m)
                                  ELSE g[k]]
<1>6. \A k \in a .. m : f[k] = IF k = a THEN <<>>
                               ELSE CopyOne(v, ch, off, len, f[k - 1], k)
  <2> TAKE k \in a .. m
  <2>1. CASE k = m
    <3>1. f[k] = CopyOne(v, ch, off, len, g[m - 1], m) /\ f[m - 1] = g[m - 1]
      BY <1>0, <1>3, <2>1
    <3> QED
      BY <1>3, <2>1, <3>1
  <2>2. CASE k # m
    <3>1. k \in a .. m - 1 /\ f[k] = g[k]
      BY <1>0, <1>3, <2>2
    <3>2. k # a => f[k - 1] = g[k - 1]
      BY <1>0, <1>3, <3>1
    <3> QED
      BY <1>5, <3>1, <3>2
  <2> QED
    BY <2>1, <2>2
<1>7. f = [k \in a .. m |-> IF k = a THEN <<>>
                            ELSE CopyOne(v, ch, off, len, f[k - 1], k)]
  BY <1>6
<1>8. IsCopied(v, ch, off, len, f, m)
  BY <1>7 DEF IsCopied, a
<1> QED
  BY <1>8

LEMMA CopiedIs ==
    ASSUME NEW v, NEW ch, NEW off \in Nat, NEW len, NEW n \in Nat, off \div Slots <= n
    PROVE  IsCopied(v, ch, off, len, CopiedOf(v, ch, off, len, n), n)
<1>1. \E f : f = [k \in off \div Slots .. n |->
                     IF k = off \div Slots THEN <<>>
                     ELSE CopyOne(v, ch, off, len, f[k - 1], k)]
  <2>1. PICK f : IsCopied(v, ch, off, len, f, n)
    BY CopiedExists
  <2> QED
    BY <2>1 DEF IsCopied
<1> QED
  BY <1>1 DEF CopiedOf, IsCopied

LEMMA ReadByLoop ==
    ASSUME NEW v, NEW ch, NEW off, NEW len
    PROVE  ReadAlong(v, ch, off, len) =
             IF Len(ch) <= off \div Slots THEN <<>>
             ELSE CopiedOf(v, ch, off, len, Len(ch))[Len(ch)]
BY DEF ReadAlong, CopiedOf, CopyOne

LEMMA SectorsOfContent ==
    ASSUME NEW v \in Volumes, NEW own, Labelled(v, own), NEW h \in Clusters, own[h] = h,
           NEW k \in 1 .. Len(Chain(v, h))
    PROVE  SectorAt(Content(v, h), (k - 1) * Slots, v.data[Chain(v, h)[k]])
<1> DEFINE s == Chain(v, h)
           u == Content(v, h)
<1>1. Len(s) \in Nat
  BY ChainFacts
<1>2. \A i \in 1 .. Len(s) * Slots : u[i] = v.data[s[SectorOf(i)]][SlotOf(i)]
  BY ContentIs
<1> HIDE DEF s, u
<1>3. k \in 1 .. Len(s)
  BY DEF s
<1>4. ASSUME NEW i \in 1 .. Slots PROVE u[(k - 1) * Slots + i] = v.data[s[k]][i]
  <2> DEFINE x == (k - 1) * Slots + i
  <2>1. x \in 1 .. Len(s) * Slots /\ SectorOf(x) = k /\ SlotOf(x) = i
    BY <1>1, <1>3, PositionOf
  <2> HIDE DEF x
  <2>2. u[x] = v.data[s[k]][i]
    BY <1>2, <2>1
  <2> QED
    BY <2>2 DEF x
<1> QED
  BY <1>4 DEF SectorAt, s, u

(* Where in the k-th sector the copy starts.                               *)
LEMMA CopyStart ==
    ASSUME NEW off \in Nat, NEW k \in Nat, k > off \div Slots, NEW start,
           start = IF k = off \div Slots + 1 THEN off % Slots ELSE 0
    PROVE  /\ start \in 0 .. Slots - 1 /\ (k - 1) * Slots \in Nat
           /\ off = (k - 1) * Slots + start \/ (off < (k - 1) * Slots /\ start = 0)
<1> DEFINE a == off \div Slots
           r == off % Slots
           y == a * Slots
           x == (k - 1 - a) * Slots
           base == (k - 1) * Slots
<1>1. Slots \in Nat /\ Slots >= 1
  BY VolumeNumbers
<1>2. a \in Nat /\ r \in 0 .. Slots - 1 /\ y \in Nat /\ off = y + r
  BY Division
<1>3. k > a /\ start = IF k = a + 1 THEN r ELSE 0
  OBVIOUS
<1> HIDE DEF a, r
<1>4. base = y + x /\ x \in Nat /\ base \in Nat
  <2>1. k - 1 - a \in Nat /\ k - 1 \in Nat
    BY <1>2, <1>3
  <2> QED
    BY <1>1, <1>2, <2>1
<1>5. k = a + 1 => x = 0
  BY <1>1, <1>2
<1>6. k # a + 1 => x >= Slots
  <2> SUFFICES ASSUME k # a + 1 PROVE x >= Slots
    OBVIOUS
  <2> DEFINE z == k - 1 - a
  <2>1. z \in Nat /\ z >= 1
    BY <1>2, <1>3
  <2> HIDE DEF z
  <2>2. z * Slots >= Slots
    BY <1>1, <2>1
  <2> QED
    BY <2>2 DEF z
<1> HIDE DEF x, y, base
<1>7. CASE k = a + 1
  <2>1. start = r /\ base = y
    BY <1>2, <1>3, <1>4, <1>5, <1>7
  <2> QED
    BY <1>1, <1>2, <1>4, <2>1 DEF base
<1>8. CASE k # a + 1
  <2>1. start = 0 /\ x >= Slots
    BY <1>3, <1>6, <1>8
  <2>2. off < base
    BY <1>1, <1>2, <1>4, <2>1
  <2> QED
    BY <1>1, <1>4, <2>1, <2>2 DEF base
<1> QED
  BY <1>7, <1>8

(* read_file copies what lies along the chain.                             *)
LEMMA ReadSlice ==
    ASSUME NEW v \in Volumes, NEW own, Labelled(v, own), NEW h \in Clusters, own[h] = h,
           NEW off \in Nat, NEW len \in Nat
    PROVE  IsSlice(ReadFile(v, h, off, len), Content(v, h), off,
                   UpTo(off + len, Len(Content(v, h))))
<1> DEFINE s == Chain(v, h)
           u == Content(v, h)
           L == Len(s)
           a == off \div Slots
           f == CopiedOf(v, s, off, len, L)
           size == L * Slots
           at(k) == UpTo(off + len, k * Slots)
           B == {k \in Nat : a <= k /\ k <= L /\ ~IsSlice(f[k], u, off, at(k))}
<1>1. Slots \in Nat /\ Slots >= 1 /\ h >= 2
  BY VolumeNumbers
<1>2. L \in Nat /\ L >= 1 /\ \A k \in 1 .. L : s[k] \in Clusters
  BY ChainFacts
<1>3. Len(u) = size /\ size \in Nat
  BY ContentIs
<1>4. a \in Nat /\ a * Slots \in Nat /\ a * Slots <= off
  <2>1. a \in Nat /\ a * Slots \in Nat /\ off = a * Slots + (off % Slots)
        /\ off % Slots \in 0 .. Slots - 1
    BY Division
  <2> DEFINE y == a * Slots
             r == off % Slots
  <2> HIDE DEF y, r
  <2> QED
    BY <1>1, <2>1 DEF y, r
<1>5. ReadFile(v, h, off, len) = IF L <= a THEN <<>> ELSE f[L]
  <2>1. ~(h < 2)
    BY <1>1, VolumeNumbers
  <2> QED
    BY <2>1, ReadByLoop DEF ReadFile
<1>6. \A k \in 1 .. L : SectorAt(u, (k - 1) * Slots, v.data[s[k]])
  BY SectorsOfContent
<1>20. a <= L => IsCopied(v, s, off, len, f, L)
  BY <1>2, CopiedIs
<1> HIDE DEF s, u, L, f, a
<1>7. ASSUME NEW b \in Nat, b <= off PROVE IsSlice(<<>>, u, off, UpTo(off + len, b))
  <2>1. ~(UpTo(off + len, b) > off)
    BY <1>7 DEF UpTo
  <2>2. <<>> \in Seq(PlainUnits) /\ Len(<<>>) = 0
    OBVIOUS
  <2> QED
    BY <2>1, <2>2 DEF IsSlice
<1>8. CASE L <= a
  <2>1. size <= a * Slots
    BY <1>1, <1>2, <1>4, <1>8
  <2> HIDE DEF size
  <2>2. size <= off
    <3> DEFINE y == a * Slots
    <3>1. size <= y /\ y <= off /\ y \in Nat
      BY <1>4, <2>1
    <3> HIDE DEF y
    <3> QED
      BY <1>3, <3>1
  <2>3. IsSlice(<<>>, u, off, UpTo(off + len, size))
    BY <1>3, <1>7, <2>2
  <2> QED
    BY <1>3, <1>5, <1>8, <2>3 DEF u
<1>9. CASE a < L
  <2>1. IsCopied(v, s, off, len, f, L)
    BY <1>2, <1>4, <1>9, <1>20
  <2>2. /\ f[a] = <<>>
        /\ \A k \in a .. L : k # a => f[k] = CopyOne(v, s, off, len, f[k - 1], k)
    <3>1. a \in a .. L
      BY <1>2, <1>4, <1>9
    <3> QED
      BY <2>1, <3>1 DEF IsCopied, a
  <2>3. B = {}
    <3> SUFFICES ASSUME B # {} PROVE FALSE
      OBVIOUS
    <3>0. B \in SUBSET Nat
      OBVIOUS
    <3>1. PICK m \in B : \A e \in B : m <= e
      BY <3>0, LeastIn
    <3>2. m # a
      <4>1. IsSlice(f[a], u, off, at(a))
        BY <1>4, <1>7, <2>2
      <4> QED
        BY <3>1, <4>1
    <3>3. m \in Nat /\ a < m /\ m <= L /\ m - 1 \in Nat /\ a <= m - 1 /\ m - 1 <= L
      BY <1>2, <1>4, <3>1, <3>2
    <3>4. m - 1 \notin B
      BY <3>1, <3>3
    <3>5. IsSlice(f[m - 1], u, off, at(m - 1))
      BY <3>3, <3>4
    <3> DEFINE base == (m - 1) * Slots
               start == IF m = a + 1 THEN off % Slots ELSE 0
               sector == v.data[s[m]]
               buf == f[m - 1]
    <3>6. /\ start \in 0 .. Slots - 1 /\ base \in Nat
          /\ off = base + start \/ (off < base /\ start = 0)
      BY <3>3, CopyStart DEF a
    <3>7. m \in 1 .. L /\ m \in a .. L
      BY <1>2, <1>4, <3>3
    <3>8. SectorAt(u, base, sector)
      BY <1>6, <3>7
    <3>9. sector \in [1 .. Slots -> PlainUnits]
      BY <1>2, <3>7, VolumesTyped
    <3>10. f[m] = CopySector(buf, sector, start, len)
      BY <2>2, <3>2, <3>7 DEF CopyOne, a
    <3>11. base + Slots = m * Slots
      BY <1>1, <3>3
    <3>12. IsSlice(buf, u, off, UpTo(off + len, base))
      BY <3>5
    <3> HIDE DEF base, start, sector, buf
    <3>13. IsSlice(CopySector(buf, sector, start, len), u, off, UpTo(off + len, base + Slots))
      BY <3>6, <3>8, <3>9, <3>12, CopyStep
    <3>14. IsSlice(f[m], u, off, at(m))
      BY <3>10, <3>11, <3>13
    <3> QED
      BY <3>1, <3>14
  <2>4. IsSlice(f[L], u, off, at(L))
    BY <1>2, <1>4, <1>9, <2>3
  <2>5. ReadFile(v, h, off, len) = f[L]
    BY <1>2, <1>4, <1>5, <1>9
  <2>6. at(L) = UpTo(off + len, Len(u))
    BY <1>3
  <2> QED
    BY <2>4, <2>5, <2>6 DEF u
<1> QED
  BY <1>2, <1>4, <1>8, <1>9

=============================================================================
