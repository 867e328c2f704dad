---------------------------- MODULE FilesProofs -----------------------------
(***************************************************************************)
(* Proofs about the descriptors of module Files and the volume below them, *)
(* for any volume, any programs and any plain paths: the safety properties *)
(* of Files, and that it implements FileObjects.                           *)
(***************************************************************************)
EXTENDS VolumeProofs

-----------------------------------------------------------------------------
(* Descriptors.                                                            *)

OpenSlots == [inUse : {TRUE}, path : FilePaths, cluster : Clusters \cup {0},
              size : 0 .. MaxOffset, offset : 0 .. MaxOffset, dirty : BOOLEAN,
              text : Seq(PlainUnits), sole : BOOLEAN]

GoodSlots == {Closed} \cup {e \in OpenSlots : e.sole => Len(e.text) = e.offset}

Tables == [Programs -> [Fds -> GoodSlots]]

(* Some open descriptor is on the path, with the first cluster cl.         *)
Refers(table, path, cl) ==
    \E p \in Programs, f \in Fds :
        /\ table[p][f].inUse
        /\ table[p][f].path = path /\ table[p][f].cluster = cl

HeldAll(v, own, table) ==
    \A path, cl : Refers(table, path, cl) => Held(v, own, path, cl)

Distinct(table) ==
    \A path, path2, cl : /\ Refers(table, path, cl) /\ Refers(table, path2, cl)
                         /\ cl # 0
                         => path = path2

(* The part of the inductive invariant about descriptors and the volume.   *)
RefsOK(v, table) ==
    /\ \E own : Tree(v, own) /\ HeldAll(v, own, table)
    /\ Distinct(table)

LEMMA SlotFacts ==
    ASSUME NEW e \in GoodSlots
    PROVE  /\ e.inUse \in BOOLEAN
           /\ e.inUse => /\ e \in OpenSlots
                         /\ e = [inUse |-> TRUE, path |-> e.path, cluster |-> e.cluster,
                                 size |-> e.size, offset |-> e.offset, dirty |-> e.dirty,
                                 text |-> e.text, sole |-> e.sole]
                         /\ e.path \in FilePaths /\ e.cluster \in Clusters \cup {0}
                         /\ e.size \in 0 .. MaxOffset /\ e.offset \in 0 .. MaxOffset
                         /\ e.dirty \in BOOLEAN /\ e.sole \in BOOLEAN
                         /\ e.text \in Seq(PlainUnits)
                         /\ e.sole => Len(e.text) = e.offset
           /\ ~e.inUse => e = Closed
<1>1. CASE e = Closed
  BY <1>1 DEF Closed
<1>2. CASE e \in OpenSlots /\ (e.sole => Len(e.text) = e.offset)
  BY <1>2 DEF OpenSlots
<1> QED
  BY <1>1, <1>2 DEF GoodSlots

LEMMA ClosedFacts ==
    Closed \in GoodSlots /\ ~Closed.inUse
BY DEF GoodSlots, Closed

LEMMA SharedFacts ==
    ASSUME NEW e \in OpenSlots
    PROVE  /\ Shared(e) \in GoodSlots
           /\ Shared(e).inUse /\ Shared(e).path = e.path /\ Shared(e).cluster = e.cluster
<1>1. <<>> \in Seq(PlainUnits)
  OBVIOUS
<1>2. Shared(e) \in OpenSlots
  BY <1>1 DEF Shared, OpenSlots
<1>3. Shared(e).sole = FALSE
  BY DEF Shared, OpenSlots
<1>4. Shared(e).path = e.path /\ Shared(e).cluster = e.cluster
  BY DEF Shared, OpenSlots
<1>5. Shared(e).inUse
  BY <1>2 DEF OpenSlots
<1> QED
  BY <1>2, <1>3, <1>4, <1>5 DEF GoodSlots

(* One slot of the table changes.                                          *)
WithSlot(table, p, f, e) == [table EXCEPT ![p] = [@ EXCEPT ![f] = e]]

LEMMA WithSlotFacts ==
    ASSUME NEW table \in Tables, NEW p \in Programs, NEW f \in Fds, NEW e \in GoodSlots
    PROVE  /\ WithSlot(table, p, f, e) \in Tables
           /\ \A q \in Programs, g \in Fds :
                 WithSlot(table, p, f, e)[q][g] =
                     IF q = p /\ g = f THEN e ELSE table[q][g]
<1>1. table \in [Programs -> [Fds -> GoodSlots]]
  BY DEF Tables
<1>2. [table[p] EXCEPT ![f] = e] \in [Fds -> GoodSlots]
  BY <1>1
<1>3. WithSlot(table, p, f, e) = [table EXCEPT ![p] = [table[p] EXCEPT ![f] = e]]
  BY <1>1 DEF WithSlot
<1>4. WithSlot(table, p, f, e) \in [Programs -> [Fds -> GoodSlots]]
  BY <1>1, <1>2, <1>3
<1>5. ASSUME NEW q \in Programs, NEW g \in Fds
      PROVE  WithSlot(table, p, f, e)[q][g] = IF q = p /\ g = f THEN e ELSE table[q][g]
  <2>1. CASE q = p
    BY <1>1, <1>3, <2>1
  <2>2. CASE q # p
    BY <1>1, <1>3, <2>2
  <2> QED
    BY <2>1, <2>2
<1> QED
  BY <1>4, <1>5 DEF Tables

LEMMA TableSlot ==
    ASSUME NEW table \in Tables, NEW p \in Programs, NEW f \in Fds
    PROVE  table[p][f] \in GoodSlots
BY DEF Tables

(* A slot that changes adds one descriptor at most.                        *)
LEMMA WithSlotRefers ==
    ASSUME NEW table \in Tables, NEW p \in Programs, NEW f \in Fds, NEW e \in GoodSlots,
           NEW path, NEW cl, Refers(WithSlot(table, p, f, e), path, cl)
    PROVE  Refers(table, path, cl) \/ (e.inUse /\ path = e.path /\ cl = e.cluster)
<1> DEFINE t == WithSlot(table, p, f, e)
<1>1. PICK q \in Programs, g \in Fds : t[q][g].inUse /\ t[q][g].path = path /\ t[q][g].cluster = cl
  BY DEF Refers
<1>2. t[q][g] = IF q = p /\ g = f THEN e ELSE table[q][g]
  BY WithSlotFacts
<1> HIDE DEF t
<1> QED
  BY <1>1, <1>2 DEF Refers

(* Fewer descriptors, the same volume.                                     *)
LEMMA FewerRefs ==
    ASSUME NEW v, NEW table, NEW table2, RefsOK(v, table),
           \A path, cl : Refers(table2, path, cl) => Refers(table, path, cl)
    PROVE  RefsOK(v, table2)
BY DEF RefsOK, HeldAll, Distinct

(* A request that leaves every descriptor what it has.                     *)
LEMMA MovedRefs ==
    ASSUME NEW v, NEW v2, NEW own, NEW own2, NEW table, NEW table2,
           HeldAll(v, own, table), Distinct(table), Tree(v2, own2),
           AllHeld(v, v2, own, own2),
           \A path, cl : Refers(table2, path, cl) => Refers(table, path, cl)
    PROVE  RefsOK(v2, table2)
<1>1. HeldAll(v2, own2, table2)
  BY DEF HeldAll, AllHeld
<1>2. Distinct(table2)
  BY DEF Distinct
<1> QED
  BY <1>1, <1>2 DEF RefsOK

(* One more descriptor, on a path that leads to its cluster, or whose      *)
(* cluster nobody had.                                                     *)
LEMMA OneMoreRef ==
    ASSUME NEW v, NEW own, NEW table, NEW table2,
           Tree(v, own), HeldAll(v, own, table), Distinct(table),
           NEW path, NEW cl, Held(v, own, path, cl),
           \A path2 : Refers(table, path2, cl) /\ cl # 0 => path2 = path,
           \A q, c : Refers(table2, q, c) => Refers(table, q, c) \/ (q = path /\ c = cl)
    PROVE  RefsOK(v, table2)
<1>1. HeldAll(v, own, table2)
  BY DEF HeldAll
<1>2. Distinct(table2)
  BY DEF Distinct
<1> QED
  BY <1>1, <1>2 DEF RefsOK

-----------------------------------------------------------------------------
(* The invariant.                                                          *)

TablesOK ==
    /\ fds \in Tables
    /\ extent \in [Programs -> [Fds -> Nat]]
    /\ \A p \in Programs, f \in Fds : fds[p][f].inUse => extent[p][f] # 0
    /\ truncating \in [Programs -> Fds \cup {NoFd}]
    /\ \A p \in Programs : truncating[p] # NoFd => fds[p][truncating[p]].inUse

ObjsOK ==
    /\ DOMAIN objs \subseteq FilesOf(vol, fds)
    /\ \A h \in DOMAIN objs : objs[h] = Content(vol, h)

(* The inductive invariant.                                                *)
FilesInv == TablesOK /\ RefsOK(vol, fds) /\ ObjsOK

LEMMA ReadLength ==
    ASSUME NEW v, NEW own, Tree(v, own), NEW cl \in Clusters \cup {0},
           cl # 0 => own[cl] = cl, NEW off \in Nat, NEW len \in Nat,
           NEW got, got = ReadFile(v, cl, off, len)
    PROVE  got \in Seq(PlainUnits) /\ Len(got) \in 0 .. len
<1>1. CASE cl = 0
  <2>1. got = <<>>
    BY <1>1 DEF ReadFile
  <2>2. <<>> \in Seq(PlainUnits) /\ Len(<<>>) = 0
    OBVIOUS
  <2> QED
    BY <2>1, <2>2
<1>2. CASE cl # 0
  <2> DEFINE size == Len(Content(v, cl))
  <2>1. v \in Volumes /\ Labelled(v, own) /\ cl \in Clusters /\ own[cl] = cl
    BY <1>2 DEF Tree
  <2>2. IsSlice(got, Content(v, cl), off, UpTo(off + len, size))
    BY <2>1, ReadSlice
  <2>3. size \in Nat
    <3>1. Content(v, cl) \in Seq(PlainUnits)
      BY <2>1, ContentIs
    <3> QED
      BY <3>1, LenProperties
  <2> HIDE DEF size
  <2>4. got \in Seq(PlainUnits) /\ Len(got) = IF UpTo(off + len, size) > off
                                              THEN UpTo(off + len, size) - off ELSE 0
    BY <2>2 DEF IsSlice
  <2> QED
    BY <2>3, <2>4 DEF UpTo
<1> QED
  BY <1>1, <1>2

LEMMA FdNumbers ==
    /\ \A f \in Fds : f \in Nat /\ f >= 3
    /\ NoFd \notin Fds
BY FilesAssumption DEF Fds, NoFd

LEMMA RefersSlot ==
    ASSUME NEW table, NEW p \in Programs, NEW f \in Fds, table[p][f].inUse
    PROVE  Refers(table, table[p][f].path, table[p][f].cluster)
BY DEF Refers

(* A step that changes one slot of the tables.                             *)
LEMMA SlotTables ==
    ASSUME TablesOK, NEW p \in Programs, NEW f \in Fds, NEW e \in GoodSlots,
           fds' = WithSlot(fds, p, f, e), extent' = extent,
           fds[p][f].inUse, e.inUse \/ truncating[p] = NoFd,
           truncating' = truncating \/ truncating' = [truncating EXCEPT ![p] = NoFd]
    PROVE  TablesOK'
<1>1. fds \in Tables
  BY DEF TablesOK
<1>2. fds' \in Tables /\ \A q \in Programs, g \in Fds :
          fds'[q][g] = IF q = p /\ g = f THEN e ELSE fds[q][g]
  BY <1>1, WithSlotFacts
<1>3. extent' \in [Programs -> [Fds -> Nat]]
  BY DEF TablesOK
<1>4. ASSUME NEW q \in Programs, NEW g \in Fds, fds'[q][g].inUse PROVE extent'[q][g] # 0
  BY <1>2, <1>4 DEF TablesOK
<1>5. truncating' \in [Programs -> Fds \cup {NoFd}]
      /\ \A q \in Programs : truncating'[q] # NoFd => truncating[q] = truncating'[q]
  BY DEF TablesOK
<1>6. ASSUME NEW q \in Programs, truncating'[q] # NoFd PROVE fds'[q][truncating'[q]].inUse
  <2>1. truncating[q] = truncating'[q] /\ truncating'[q] \in Fds
    BY <1>5, <1>6
  <2>2. fds[q][truncating[q]].inUse
    BY <1>6, <2>1 DEF TablesOK
  <2> QED
    BY <1>2, <1>6, <2>1, <2>2
<1> QED
  BY <1>2, <1>3, <1>4, <1>5, <1>6 DEF TablesOK

LEMMA KnowsFacts ==
    ASSUME NEW e \in GoodSlots, e.inUse, NEW units \in Seq(PlainUnits)
    PROVE  /\ Knows(e, units) \in Seq(PlainUnits)
           /\ e.sole => Len(Knows(e, units)) = e.offset + Len(units)
<1>1. e.text \in Seq(PlainUnits) /\ e.sole \in BOOLEAN
      /\ (e.sole => Len(e.text) = e.offset)
  BY SlotFacts
<1>2. e.text \o units \in Seq(PlainUnits) /\ Len(e.text \o units) = Len(e.text) + Len(units)
  BY <1>1, ConcatProperties
<1>3. <<>> \in Seq(PlainUnits)
  OBVIOUS
<1>4. CASE e.sole
  <2>1. Knows(e, units) = e.text \o units
    BY <1>4 DEF Knows
  <2> QED
    BY <1>1, <1>2, <1>4, <2>1
<1>5. CASE ~e.sole
  <2>1. Knows(e, units) = <<>>
    BY <1>5 DEF Knows
  <2> QED
    BY <1>3, <1>5, <2>1
<1> QED
  BY <1>4, <1>5

(* The descriptors lead nowhere that they did not lead before.             *)
NoNewRefs == \A path, cl : Refers(fds', path, cl) => Refers(fds, path, cl)

LEMMA ReadKeeps ==
    ASSUME TablesOK, RefsOK(vol, fds), NEW p \in Programs, NEW f \in Fds,
           NEW n \in ReadSizes, Read(p, f, n)
    PROVE  TablesOK' /\ RefsOK(vol, fds)' /\ NoNewRefs
<1> DEFINE e == fds[p][f]
           len == Min({n, e.size - e.offset})
           got == ReadFile(vol, e.cluster, e.offset, len)
           e2 == [[e EXCEPT !.offset = @ + Len(got)] EXCEPT !.text = Knows(e, got)]
<1>1. /\ e.inUse /\ e.offset < e.size /\ truncating[p] = NoFd
      /\ fds' = [fds EXCEPT ![p][f].offset = @ + Len(got), ![p][f].text = Knows(e, got)]
      /\ vol' = vol /\ extent' = extent /\ truncating' = truncating
  BY DEF Read
<1>2. fds \in Tables
  BY DEF TablesOK
<1>3. e \in GoodSlots
  BY <1>2, TableSlot
<1>4. /\ e \in OpenSlots /\ e.path \in FilePaths /\ e.cluster \in Clusters \cup {0}
      /\ e.size \in 0 .. MaxOffset /\ e.offset \in 0 .. MaxOffset
      /\ e.sole \in BOOLEAN
  BY <1>1, <1>3, SlotFacts
<1>5. fds' = WithSlot(fds, p, f, e2)
  BY <1>1, <1>2 DEF WithSlot, Tables
<1>6. MaxOffset \in Nat /\ n \in Nat
  BY FilesAssumption
<1>7. len \in Nat /\ e.offset + len <= e.size /\ e.offset \in Nat
  <2> DEFINE z == e.size - e.offset
  <2>1. z \in Nat /\ z > 0
    BY <1>1, <1>4, <1>6
  <2> HIDE DEF z
  <2>2. Min({n, z}) = IF n <= z THEN n ELSE z
    BY <1>6, <2>1, MinTwo
  <2>3. len \in Nat /\ len <= z
    BY <1>6, <2>1, <2>2 DEF z
  <2> HIDE DEF len
  <2> QED
    BY <1>4, <1>6, <2>3 DEF z
<1>8. PICK own : Tree(vol, own) /\ HeldAll(vol, own, fds)
  BY DEF RefsOK
<1>9. e.cluster # 0 => own[e.cluster] = e.cluster
  <2>1. Held(vol, own, e.path, e.cluster)
    BY <1>1, <1>8, RefersSlot DEF HeldAll
  <2> QED
    BY <2>1 DEF Held, MayPoint
<1> HIDE DEF len
<1>10. got \in Seq(PlainUnits) /\ Len(got) \in 0 .. len
  BY <1>4, <1>7, <1>8, <1>9, ReadLength
<1> HIDE DEF got
<1>11. /\ Knows(e, got) \in Seq(PlainUnits)
       /\ e.sole => Len(Knows(e, got)) = e.offset + Len(got)
  BY <1>1, <1>3, <1>10, KnowsFacts
<1>12. e.offset + Len(got) \in 0 .. MaxOffset
  <2> DEFINE o == e.offset
             l == Len(got)
             z == e.size
  <2>1. o \in Nat /\ l \in Nat /\ l <= len /\ z \in Nat /\ z <= MaxOffset
        /\ o + len <= z
    <3>1. o \in Nat /\ o + len <= z
      BY <1>7
    <3>2. z \in Nat /\ z <= MaxOffset
      BY <1>4, <1>6
    <3>3. l \in Nat /\ l <= len
      BY <1>7, <1>10
    <3> QED
      BY <3>1, <3>2, <3>3
  <2> HIDE DEF o, l, z
  <2>2. o + l \in 0 .. MaxOffset
    BY <1>6, <1>7, <2>1
  <2> QED
    BY <2>2 DEF o, l
<1> HIDE DEF e
<1>13. e2 \in OpenSlots
  BY <1>4, <1>11, <1>12 DEF OpenSlots
<1>14. e2.offset = e.offset + Len(got) /\ e2.text = Knows(e, got) /\ e2.sole = e.sole
       /\ e2.path = e.path /\ e2.cluster = e.cluster
  BY <1>4 DEF OpenSlots
<1> HIDE DEF e2
<1>15. e2.sole => Len(e2.text) = e2.offset
  <2> SUFFICES ASSUME e2.sole PROVE Len(e2.text) = e2.offset
    OBVIOUS
  <2>1. e.sole
    BY <1>14
  <2> QED
    BY <1>11, <1>14, <2>1
<1>16. e2 \in GoodSlots /\ e2.inUse
  BY <1>13, <1>15 DEF GoodSlots, OpenSlots
<1>17. TablesOK'
  BY <1>1, <1>5, <1>16, SlotTables DEF e
<1>18. Refers(fds, e.path, e.cluster)
  BY <1>1, RefersSlot DEF e
<1>19. ASSUME NEW path, NEW cl, Refers(fds', path, cl) PROVE Refers(fds, path, cl)
  <2>1. Refers(fds, path, cl) \/ (path = e2.path /\ cl = e2.cluster)
    BY <1>2, <1>5, <1>16, <1>19, WithSlotRefers
  <2> QED
    BY <1>14, <1>18, <2>1
<1>20. RefsOK(vol, fds')
  BY <1>19, FewerRefs
<1> QED
  BY <1>1, <1>17, <1>19, <1>20 DEF NoNewRefs

LEMMA TextUnits ==
    ASSUME NEW t \in Texts, NEW buf, buf = [i \in 1 .. Len(t) |-> Data(t[i])]
    PROVE  buf \in Seq(PlainUnits) /\ Len(buf) = Len(t) /\ Len(t) \in Nat
<1>1. t \in Seq(Bytes)
  BY FilesAssumption
<1>2. Len(t) \in Nat /\ \A i \in 1 .. Len(t) : t[i] \in Bytes
  BY <1>1, LenProperties, ElementOfSeq
<1>3. \A i \in 1 .. Len(t) : Data(t[i]) \in PlainUnits
  BY <1>2 DEF PlainUnits
<1>4. buf \in [1 .. Len(t) -> PlainUnits]
  BY <1>3
<1> QED
  BY <1>2, <1>4

(* The descriptor that a write leaves is about the same file.              *)
LEMMA WriterFacts ==
    ASSUME NEW e \in GoodSlots, e.inUse, NEW n
    PROVE  /\ Writer(e, n) \in GoodSlots /\ Writer(e, n).inUse
           /\ Writer(e, n).path = e.path /\ Writer(e, n).cluster = e.cluster
           /\ Writer(e, n).offset = e.offset /\ Writer(e, n).size = e.size
           /\ Writer(e, n).sole => ~Misplaced(e, n) /\ Writer(e, n) = e
<1>1. e \in OpenSlots
  BY SlotFacts
<1>2. CASE Misplaced(e, n)
  <2>1. Writer(e, n) = Shared(e)
    BY <1>2 DEF Writer
  <2>2. /\ Shared(e).offset = e.offset /\ Shared(e).size = e.size
        /\ ~Shared(e).sole
    BY <1>1 DEF Shared, OpenSlots
  <2> QED
    BY <1>1, <2>1, <2>2, SharedFacts
<1>3. CASE ~Misplaced(e, n)
  BY <1>3 DEF Writer
<1> QED
  BY <1>2, <1>3

(* What a write leaves in the slot of its descriptor.                      *)
WrittenSlot(e, cl, w, units) ==
    [e EXCEPT !.cluster = cl, !.offset = @ + w, !.size = Max({@, e.offset + w}),
              !.dirty = TRUE, !.text = Knows(e, units)]

LEMMA WrittenSlotFacts ==
    ASSUME NEW e \in GoodSlots, e.inUse, NEW cl \in Clusters, NEW w \in Nat,
           e.offset + w <= MaxOffset,
           NEW units \in Seq(PlainUnits), Len(units) = w, NEW e2, e2 = WrittenSlot(e, cl, w, units)
    PROVE  /\ e2 \in GoodSlots /\ e2.inUse /\ e2.path = e.path /\ e2.cluster = cl
           /\ e2.offset = e.offset + w /\ e2.offset <= e2.size
           /\ e2.sole = e.sole /\ e2.text = Knows(e, units)
<1>1. /\ e \in OpenSlots /\ e.size \in 0 .. MaxOffset /\ e.offset \in 0 .. MaxOffset
      /\ e.sole \in BOOLEAN
  BY SlotFacts
<1>2. /\ Knows(e, units) \in Seq(PlainUnits)
      /\ e.sole => Len(Knows(e, units)) = e.offset + w
  BY KnowsFacts
<1>3. /\ e.offset + w \in 0 .. MaxOffset /\ Max({e.size, e.offset + w}) \in 0 .. MaxOffset
      /\ e.offset + w <= Max({e.size, e.offset + w})
  <2> DEFINE o == e.offset
             z == e.size
  <2>1. o \in Nat /\ z \in Nat /\ z <= MaxOffset /\ o + w <= MaxOffset /\ MaxOffset \in Nat
    BY <1>1, FilesAssumption
  <2> HIDE DEF o, z
  <2>2. Max({z, o + w}) = IF z >= o + w THEN z ELSE o + w
    <3>1. z \in Int /\ o + w \in Int
      BY <2>1
    <3> QED
      BY <3>1, MaxTwo
  <2>3. /\ o + w \in 0 .. MaxOffset /\ Max({z, o + w}) \in 0 .. MaxOffset
        /\ o + w <= Max({z, o + w})
    BY <2>1, <2>2
  <2> QED
    BY <2>3 DEF o, z
<1> DEFINE k == Knows(e, units)
           m == Max({e.size, e.offset + w})
           o == e.offset + w
<1>4. e2 = [e EXCEPT !.cluster = cl, !.offset = o, !.size = m, !.dirty = TRUE, !.text = k]
  BY <1>1 DEF WrittenSlot, OpenSlots
<1>5. o \in 0 .. MaxOffset /\ m \in 0 .. MaxOffset /\ k \in Seq(PlainUnits)
      /\ (e.sole => Len(k) = o) /\ o <= m
  BY <1>2, <1>3
<1> HIDE DEF k, m, o
<1>6. e2 \in OpenSlots
  BY <1>1, <1>4, <1>5 DEF OpenSlots
<1>7. /\ e2.offset = o /\ e2.text = k /\ e2.sole = e.sole
      /\ e2.path = e.path /\ e2.cluster = cl /\ e2.size = m
  BY <1>1, <1>4 DEF OpenSlots
<1>8. e2.sole => Len(e2.text) = e2.offset
  <2> SUFFICES ASSUME e2.sole PROVE Len(e2.text) = e2.offset
    OBVIOUS
  <2>1. e.sole
    BY <1>7
  <2> QED
    BY <1>5, <1>7, <2>1
<1>9. e2 \in GoodSlots /\ e2.inUse
  BY <1>6, <1>8 DEF GoodSlots, OpenSlots
<1> QED
  BY <1>5, <1>7, <1>9 DEF o, k

LEMMA WrittenUnits ==
    ASSUME NEW t \in Texts, NEW buf, buf = [i \in 1 .. Len(t) |-> Data(t[i])],
           NEW w \in 0 .. Len(buf)
    PROVE  SubSeq(buf, 1, w) \in Seq(PlainUnits) /\ Len(SubSeq(buf, 1, w)) = w
<1>1. buf \in Seq(PlainUnits) /\ Len(buf) \in Nat
  BY TextUnits
<1>2. 1 \in 1 .. Len(buf) + 1 /\ w \in 1 - 1 .. Len(buf) /\ w \in Nat
  BY <1>1
<1>3. SubSeq(buf, 1, w) \in Seq(PlainUnits) /\ Len(SubSeq(buf, 1, w)) = (w - 1) + 1
  BY <1>1, <1>2, SubSeqProperties
<1> QED
  BY <1>2, <1>3

(* The descriptor's cluster is new, or it is the one it had.               *)
LEMMA WroteRefs ==
    ASSUME NEW v, NEW own, HeldAll(v, own, fds), Distinct(fds), fds \in Tables,
           NEW p \in Programs, NEW f \in Fds, fds[p][f].inUse,
           NEW e2 \in GoodSlots, e2.inUse, e2.path = fds[p][f].path,
           NEW buf, NEW r,
           WroteFor(v, own, fds[p][f].path, fds[p][f].cluster, e2.cluster, buf, r),
           fds[p][f].cluster # 0 => e2.cluster = fds[p][f].cluster
    PROVE  RefsOK(r.v, WithSlot(fds, p, f, e2))
<1> DEFINE path == fds[p][f].path
           cl == fds[p][f].cluster
           cl2 == e2.cluster
           t == WithSlot(fds, p, f, e2)
<1>1. PICK own2 : Tree(r.v, own2) /\ AllHeld(v, r.v, own, own2) /\ Held(r.v, own2, path, cl2)
  BY DEF WroteFor
<1>2. cl = 0 => own[cl2] = 0
  BY DEF WroteFor
<1>3. cl2 \in Clusters /\ cl2 # 0
  BY VolumeNumbers DEF WroteFor
<1>4. Refers(fds, path, cl)
  BY RefersSlot
<1>5. HeldAll(r.v, own2, fds)
  BY <1>1 DEF HeldAll, AllHeld
<1>6. \A q, c : Refers(t, q, c) => Refers(fds, q, c) \/ (q = path /\ c = cl2)
  BY WithSlotRefers
<1>7. \A q : Refers(fds, q, cl2) /\ cl2 # 0 => q = path
  <2> SUFFICES ASSUME NEW q, Refers(fds, q, cl2) PROVE q = path
    OBVIOUS
  <2>1. CASE cl # 0
    <3>1. cl2 = cl
      BY <2>1
    <3> QED
      BY <1>3, <1>4, <3>1 DEF Distinct
  <2>2. CASE cl = 0
    <3>1. Held(v, own, q, cl2)
      BY DEF HeldAll
    <3>2. own[cl2] = cl2
      BY <1>3, <3>1 DEF Held, MayPoint
    <3> QED
      BY <1>2, <1>3, <2>2, <3>2
  <2> QED
    BY <2>1, <2>2
<1> HIDE DEF t, path, cl, cl2
<1> QED
  BY <1>1, <1>5, <1>6, <1>7, OneMoreRef DEF t

(* A write that the server has carried out, with reply r.                  *)
WriteDone(p, f, buf, r, e2) ==
    LET e == fds[p][f]
    IN  /\ r.ok = TRUE /\ vol' = r.v /\ fds' = WithSlot(fds, p, f, e2)
        /\ e2 \in GoodSlots /\ e2.inUse /\ e2.path = e.path
        /\ e2.cluster = IF e.cluster = 0 THEN r.last ELSE e.cluster
        /\ e2.offset = e.offset + r.written /\ e2.offset <= e2.size
        /\ e2.sole => /\ e.sole /\ ~Misplaced(e, Len(buf))
                      /\ e2.text = Knows(e, SubSeq(buf, 1, r.written))
        /\ \E own : /\ Tree(vol, own) /\ HeldAll(vol, own, fds)
                    /\ WroteFor(vol, own, e.path, e.cluster, e2.cluster, buf, r)

LEMMA WriteEffects ==
    ASSUME TablesOK, RefsOK(vol, fds), NEW p \in Programs, NEW f \in Fds,
           NEW t \in Texts, Write(p, f, t),
           NEW buf, buf = [i \in 1 .. Len(t) |-> Data(t[i])],
           NEW r, r = FsWrite(vol, fds[p][f].cluster, fds[p][f].offset, buf)
    PROVE  /\ TablesOK' /\ RefsOK(vol, fds)'
           /\ UNCHANGED <<vol, fds>> \/ \E e2 : WriteDone(p, f, buf, r, e2)
<1> DEFINE e == fds[p][f]
           n == Len(t)
           writer == Writer(e, n)
           cl2 == IF e.cluster = 0 THEN r.last ELSE e.cluster
           units == SubSeq(buf, 1, r.written)
           e2 == WrittenSlot(writer, cl2, r.written, units)
<1>1. e.inUse /\ e.offset + n <= MaxOffset /\ extent' = extent /\ truncating' = truncating
      /\ vol' = r.v
  BY DEF Write
<1>2. fds \in Tables
  BY DEF TablesOK
<1>3. e \in GoodSlots
  BY <1>2, TableSlot
<1>8. buf \in Seq(PlainUnits) /\ Len(buf) = n /\ n \in Nat
  BY TextUnits
<1>4. /\ e \in OpenSlots /\ e.offset \in 0 .. MaxOffset /\ n \in Nat
  BY <1>1, <1>3, <1>8, SlotFacts
<1>13. /\ writer \in GoodSlots /\ writer.inUse
       /\ writer.path = e.path /\ writer.cluster = e.cluster
       /\ writer.offset = e.offset /\ writer.size = e.size
       /\ writer.sole => ~Misplaced(e, n) /\ writer = e
  BY <1>1, <1>3, WriterFacts
<1>14. writer \in OpenSlots
  BY <1>13, SlotFacts
<1>5. \/ ~r.ok /\ fds' = fds
      \/ r.ok /\ fds' = WithSlot(fds, p, f, e2)
  <2> DEFINE u == [writer EXCEPT
                            !.cluster = IF @ = 0 THEN r.last ELSE @,
                            !.offset = @ + r.written,
                            !.size = Max({@, e.offset + r.written}),
                            !.dirty = TRUE,
                            !.text = Knows(writer, SubSeq(buf, 1, r.written))]
  <2>1. \/ ~r.ok /\ fds' = fds
        \/ r.ok /\ fds' = [fds EXCEPT ![p] = [@ EXCEPT ![f] = u]]
    BY DEF Write
  <2>2. u = e2
    BY <1>13, <1>14 DEF WrittenSlot, OpenSlots
  <2> HIDE DEF e2, u
  <2> QED
    BY <2>1, <2>2 DEF WithSlot
<1>6. PICK own : Tree(vol, own) /\ HeldAll(vol, own, fds) /\ Distinct(fds)
  BY DEF RefsOK
<1>7. Held(vol, own, e.path, e.cluster)
  BY <1>1, <1>6, RefersSlot DEF HeldAll
<1>9. e.offset \in Nat
  BY <1>4, FilesAssumption
<1>10. \/ r.ok = FALSE /\ r.v = vol
       \/ r.ok = TRUE /\ WroteFor(vol, own, e.path, e.cluster, cl2, buf, r)
  BY <1>6, <1>7, <1>8, <1>9, WriteRequest
<1>11. CASE ~r.ok
  <2>1. fds' = fds /\ vol' = vol
    BY <1>1, <1>5, <1>10, <1>11
  <2> QED
    BY <1>1, <2>1 DEF TablesOK
<1>12. CASE r.ok
  <2>1. fds' = WithSlot(fds, p, f, e2) /\ WroteFor(vol, own, e.path, e.cluster, cl2, buf, r)
    BY <1>5, <1>10, <1>12
  <2>2. r.written \in 0 .. Len(buf) /\ cl2 \in Clusters
    BY <2>1 DEF WroteFor
  <2>3. units \in Seq(PlainUnits) /\ Len(units) = r.written
    BY <2>2, WrittenUnits
  <2>4. r.written \in Nat /\ r.written <= n
    BY <1>4, <1>8, <2>2
  <2>5. e.offset + r.written <= MaxOffset
    <3> DEFINE o == e.offset
               w == r.written
    <3>1. o + n <= MaxOffset /\ o \in Nat /\ w \in Nat /\ w <= n /\ MaxOffset \in Nat
      BY <1>1, <1>9, <2>4, FilesAssumption
    <3> HIDE DEF o, w
    <3>2. o + w <= MaxOffset
      BY <1>4, <3>1
    <3> QED
      BY <3>2 DEF o, w
  <2>13. e2 = WrittenSlot(writer, cl2, r.written, units)
    OBVIOUS
  <2> HIDE DEF units, cl2, e2
  <2>6. /\ e2 \in GoodSlots /\ e2.inUse /\ e2.path = e.path /\ e2.cluster = cl2
        /\ e2.offset = e.offset + r.written /\ e2.offset <= e2.size
        /\ e2.sole => /\ e.sole /\ ~Misplaced(e, n)
                      /\ e2.text = Knows(e, units)
    <3> DEFINE w == r.written
    <3>1. e2 = WrittenSlot(writer, cl2, w, units) /\ w \in Nat /\ writer.offset + w <= MaxOffset
          /\ Len(units) = w
      BY <1>13, <2>3, <2>4, <2>5, <2>13
    <3>2. writer \in GoodSlots /\ writer.inUse /\ cl2 \in Clusters /\ units \in Seq(PlainUnits)
      BY <1>13, <2>2, <2>3
    <3> HIDE DEF writer, w
    <3>3. /\ e2 \in GoodSlots /\ e2.inUse /\ e2.path = writer.path /\ e2.cluster = cl2
          /\ e2.offset = writer.offset + w /\ e2.offset <= e2.size
          /\ e2.sole = writer.sole /\ e2.text = Knows(writer, units)
      BY <3>1, <3>2, WrittenSlotFacts
    <3> HIDE DEF e
    <3> QED
      BY <1>13, <3>3 DEF w
  <2>7. TablesOK'
    BY <1>1, <2>1, <2>6, SlotTables
  <2>8. e.cluster # 0 => cl2 = e.cluster
    BY DEF cl2
  <2>9. RefsOK(r.v, WithSlot(fds, p, f, e2))
    BY <1>1, <1>2, <1>6, <2>1, <2>6, <2>8, WroteRefs
  <2>10. WriteDone(p, f, buf, r, e2)
    BY <1>1, <1>6, <1>8, <1>10, <1>12, <2>1, <2>6 DEF WriteDone, cl2, units
  <2> QED
    BY <1>1, <2>1, <2>7, <2>9, <2>10
<1> QED
  BY <1>11, <1>12

LEMMA WriteKeeps ==
    ASSUME TablesOK, RefsOK(vol, fds), NEW p \in Programs, NEW f \in Fds,
           NEW t \in Texts, Write(p, f, t)
    PROVE  TablesOK' /\ RefsOK(vol, fds)'
<1> DEFINE buf == [i \in 1 .. Len(t) |-> Data(t[i])]
           r == FsWrite(vol, fds[p][f].cluster, fds[p][f].offset, buf)
<1> QED
  BY WriteEffects

LEMMA OpenTruncateKeeps ==
    ASSUME PlainPaths, TablesOK, RefsOK(vol, fds), NEW p \in Programs,
           NEW accepted \in BOOLEAN, OpenTruncate(p, accepted)
    PROVE  TablesOK' /\ RefsOK(vol, fds)' /\ NoNewRefs
<1> DEFINE f == truncating[p]
           e == fds[p][f]
           e2 == [e EXCEPT !.size = 0]
           r == TruncateAt(vol, Resolve(vol, Parent(e.path)), Last(e.path))
<1>1. /\ f # NoFd /\ extent' = extent
      /\ fds' = [fds EXCEPT ![p] = [@ EXCEPT ![f] = e2]]
      /\ truncating' = [truncating EXCEPT ![p] = NoFd]
  BY DEF OpenTruncate
<1>2. vol' = vol \/ vol' = r.v
  BY DEF OpenTruncate, FsTruncate
<1>3. fds \in Tables /\ f \in Fds /\ e.inUse
  BY <1>1 DEF TablesOK
<1>4. e \in GoodSlots
  BY <1>3, TableSlot
<1>5. /\ e \in OpenSlots /\ e.path \in FilePaths /\ e.sole \in BOOLEAN
      /\ e.sole => Len(e.text) = e.offset
  BY <1>3, <1>4, SlotFacts
<1> HIDE DEF e, f
<1>6. 0 \in 0 .. MaxOffset
  BY FilesAssumption
<1>7. e2 \in OpenSlots
  BY <1>5, <1>6 DEF OpenSlots
<1>8. /\ e2.offset = e.offset /\ e2.text = e.text /\ e2.sole = e.sole
      /\ e2.path = e.path /\ e2.cluster = e.cluster
  BY <1>5 DEF OpenSlots
<1> HIDE DEF e2
<1>9. e2.sole => Len(e2.text) = e2.offset
  <2> SUFFICES ASSUME e2.sole PROVE Len(e2.text) = e2.offset
    OBVIOUS
  <2>1. e.sole
    BY <1>8
  <2> QED
    BY <1>5, <1>8, <2>1
<1>10. e2 \in GoodSlots /\ e2.inUse
  BY <1>7, <1>9 DEF GoodSlots, OpenSlots
<1>11. fds' = WithSlot(fds, p, f, e2)
  BY <1>1 DEF WithSlot
<1>12. TablesOK'
  BY <1>1, <1>3, <1>10, <1>11, SlotTables DEF e
<1>13. Refers(fds, e.path, e.cluster)
  BY <1>3, RefersSlot DEF e
<1>14. \A path, cl : Refers(fds', path, cl) => Refers(fds, path, cl)
  <2> SUFFICES ASSUME NEW path, NEW cl, Refers(fds', path, cl) PROVE Refers(fds, path, cl)
    OBVIOUS
  <2>1. Refers(fds, path, cl) \/ (path = e2.path /\ cl = e2.cluster)
    BY <1>3, <1>10, <1>11, WithSlotRefers
  <2> QED
    BY <1>8, <1>13, <2>1
<1>15. PICK own : Tree(vol, own) /\ HeldAll(vol, own, fds) /\ Distinct(fds)
  BY DEF RefsOK
<1>16. At(vol, e.path) # NoEntry
  BY <1>13, <1>15 DEF HeldAll, Held
<1>17. \E own2 : Tree(r.v, own2) /\ AllHeld(vol, r.v, own, own2)
  BY <1>5, <1>15, <1>16, TruncateRequest
<1> HIDE DEF r
<1>18. RefsOK(r.v, fds')
  BY <1>14, <1>15, <1>17, MovedRefs
<1>19. RefsOK(vol, fds')
  BY <1>14, FewerRefs
<1> QED
  BY <1>2, <1>12, <1>14, <1>18, <1>19 DEF NoNewRefs

LEMMA CloseKeeps ==
    ASSUME PlainPaths, TablesOK, RefsOK(vol, fds), NEW p \in Programs, NEW f \in Fds,
           NEW accepted \in BOOLEAN, Close(p, f, accepted)
    PROVE  TablesOK' /\ RefsOK(vol, fds)' /\ NoNewRefs
<1> DEFINE e == fds[p][f]
           r == UpdateIn(vol, Resolve(vol, Parent(e.path)), Last(e.path), e.size, e.cluster)
<1>1. /\ e.inUse /\ truncating[p] = NoFd /\ extent' = extent /\ truncating' = truncating
      /\ fds' = WithSlot(fds, p, f, Closed)
  BY DEF Close, WithSlot
<1>2. vol' = vol \/ vol' = r.v
  BY DEF Close, FsUpdateSize
<1>3. fds \in Tables
  BY DEF TablesOK
<1>4. e \in GoodSlots
  BY <1>3, TableSlot
<1>5. e.path \in FilePaths /\ e.size \in 0 .. MaxOffset
  BY <1>1, <1>4, SlotFacts
<1>6. TablesOK'
  BY <1>1, ClosedFacts, SlotTables
<1>7. \A path, cl : Refers(fds', path, cl) => Refers(fds, path, cl)
  BY <1>1, <1>3, ClosedFacts, WithSlotRefers
<1>8. PICK own : Tree(vol, own) /\ HeldAll(vol, own, fds) /\ Distinct(fds)
  BY DEF RefsOK
<1>9. Refers(fds, e.path, e.cluster)
  BY <1>1, RefersSlot
<1>10. Held(vol, own, e.path, e.cluster)
  BY <1>8, <1>9 DEF HeldAll
<1> HIDE DEF e
<1>11. r.v = vol \/ Updated(vol, r.v, own, e.path, e.cluster)
  BY <1>5, <1>8, <1>10, UpdateRequest DEF Held
<1> HIDE DEF r
<1>12. RefsOK(vol, fds')
  BY <1>7, FewerRefs
<1>13. ASSUME Updated(vol, r.v, own, e.path, e.cluster) PROVE RefsOK(r.v, fds')
  <2>1. Tree(r.v, own)
    BY <1>13 DEF Updated
  <2>2. ASSUME NEW path, NEW c, Refers(fds', path, c) PROVE Held(r.v, own, path, c)
    <3>1. Refers(fds, path, c)
      BY <1>7, <2>2
    <3>2. Held(vol, own, path, c)
      BY <1>8, <3>1 DEF HeldAll
    <3>3. c = e.cluster /\ e.cluster # 0 => path = e.path
      BY <1>8, <1>9, <3>1 DEF Distinct
    <3> QED
      BY <1>5, <1>13, <3>2, <3>3, UpdateHeld
  <2>3. HeldAll(r.v, own, fds')
    BY <2>2 DEF HeldAll
  <2>4. Distinct(fds')
    BY <1>7, <1>8 DEF Distinct
  <2> QED
    BY <2>1, <2>3, <2>4 DEF RefsOK
<1> QED
  BY <1>2, <1>6, <1>7, <1>11, <1>12, <1>13 DEF NoNewRefs

LEMMA ExitKeeps ==
    ASSUME TablesOK, RefsOK(vol, fds), NEW p \in Programs, Exit(p)
    PROVE  TablesOK' /\ RefsOK(vol, fds)' /\ NoNewRefs
<1> DEFINE row == [f \in Fds |-> Closed]
<1>1. /\ fds' = [fds EXCEPT ![p] = row]
      /\ extent' = [extent EXCEPT ![p] = [f \in Fds |-> 0]]
      /\ truncating' = [truncating EXCEPT ![p] = NoFd]
      /\ vol' = vol
  BY DEF Exit
<1>2. row \in [Fds -> GoodSlots] /\ \A f \in Fds : ~row[f].inUse
  BY ClosedFacts
<1> HIDE DEF row
<1>3. fds \in Tables /\ extent \in [Programs -> [Fds -> Nat]]
      /\ truncating \in [Programs -> Fds \cup {NoFd}]
  BY DEF TablesOK
<1>4. fds' \in Tables /\ fds'[p] = row /\ \A q \in Programs : q # p => fds'[q] = fds[q]
  BY <1>1, <1>2, <1>3 DEF Tables
<1>5. extent' \in [Programs -> [Fds -> Nat]]
      /\ \A q \in Programs : q # p => extent'[q] = extent[q]
  BY <1>1, <1>3
<1>6. truncating' \in [Programs -> Fds \cup {NoFd}] /\ truncating'[p] = NoFd
      /\ \A q \in Programs : q # p => truncating'[q] = truncating[q]
  BY <1>1, <1>3
<1>7. \A q \in Programs, f \in Fds : fds'[q][f].inUse => q # p
  BY <1>2, <1>4
<1>8. \A q \in Programs, f \in Fds : fds'[q][f].inUse => extent'[q][f] # 0
  BY <1>4, <1>5, <1>7 DEF TablesOK
<1>9. \A q \in Programs : truncating'[q] # NoFd => fds'[q][truncating'[q]].inUse
  BY <1>4, <1>6 DEF TablesOK
<1>10. TablesOK'
  BY <1>4, <1>5, <1>6, <1>8, <1>9 DEF TablesOK
<1>11. \A path, cl : Refers(fds', path, cl) => Refers(fds, path, cl)
  BY <1>4, <1>7 DEF Refers
<1> QED
  BY <1>1, <1>10, <1>11, FewerRefs DEF NoNewRefs

LEMMA ForkKeeps ==
    ASSUME TablesOK, RefsOK(vol, fds), NEW p \in Programs, NEW q \in Programs \ {p}, Fork(p, q)
    PROVE  TablesOK' /\ RefsOK(vol, fds)' /\ NoNewRefs
<1> DEFINE row == [f \in Fds |-> IF fds[p][f].inUse THEN Shared(fds[p][f]) ELSE Closed]
<1>1. /\ fds' = [fds EXCEPT ![p] = row, ![q] = row]
      /\ extent' = [extent EXCEPT ![q] = extent[p]]
      /\ extent[q] = [f \in Fds |-> 0]
      /\ truncating' = truncating /\ truncating[p] = NoFd
      /\ vol' = vol
  BY DEF Fork
<1>2. fds \in Tables /\ extent \in [Programs -> [Fds -> Nat]]
      /\ truncating \in [Programs -> Fds \cup {NoFd}]
  BY DEF TablesOK
<1>3. ASSUME NEW f \in Fds
      PROVE  /\ row[f] \in GoodSlots
             /\ row[f].inUse => /\ fds[p][f].inUse /\ row[f].path = fds[p][f].path
                                /\ row[f].cluster = fds[p][f].cluster
  <2>1. fds[p][f] \in GoodSlots
    BY <1>2, TableSlot
  <2>2. CASE fds[p][f].inUse
    <3>1. row[f] = Shared(fds[p][f])
      BY <2>2
    <3>2. fds[p][f] \in OpenSlots
      BY <2>1, <2>2, SlotFacts
    <3> QED
      BY <2>2, <3>1, <3>2, SharedFacts
  <2>3. CASE ~fds[p][f].inUse
    <3>1. row[f] = Closed
      BY <2>3
    <3> QED
      BY <3>1, ClosedFacts
  <2> QED
    BY <2>2, <2>3
<1>4. row \in [Fds -> GoodSlots]
  BY <1>3
<1> HIDE DEF row
<1>5. /\ fds' \in Tables /\ fds'[p] = row /\ fds'[q] = row
      /\ \A s \in Programs : s # p /\ s # q => fds'[s] = fds[s]
  BY <1>1, <1>2, <1>4 DEF Tables
<1>6. /\ extent' \in [Programs -> [Fds -> Nat]] /\ extent'[q] = extent[p]
      /\ \A s \in Programs : s # q => extent'[s] = extent[s]
  BY <1>1, <1>2
<1>7. \A f \in Fds : ~fds[q][f].inUse
  BY <1>1 DEF TablesOK
<1>8. truncating[q] = NoFd
  BY <1>2, <1>7 DEF TablesOK
<1>9. ASSUME NEW s \in Programs, NEW f \in Fds, fds'[s][f].inUse PROVE extent'[s][f] # 0
  <2>1. CASE s = p \/ s = q
    <3>1. fds[p][f].inUse
      BY <1>3, <1>5, <1>9, <2>1
    <3>2. extent[p][f] # 0
      BY <3>1 DEF TablesOK
    <3> QED
      BY <1>6, <2>1, <3>2
  <2>2. CASE s # p /\ s # q
    BY <1>5, <1>6, <1>9, <2>2 DEF TablesOK
  <2> QED
    BY <2>1, <2>2
<1>10. ASSUME NEW s \in Programs, truncating'[s] # NoFd PROVE fds'[s][truncating'[s]].inUse
  <2>1. s # p /\ s # q /\ truncating[s] # NoFd
    BY <1>1, <1>8, <1>10
  <2> QED
    BY <1>1, <1>5, <2>1 DEF TablesOK
<1>11. TablesOK'
  BY <1>1, <1>2, <1>5, <1>6, <1>9, <1>10 DEF TablesOK
<1>12. ASSUME NEW path, NEW cl, Refers(fds', path, cl) PROVE Refers(fds, path, cl)
  <2>1. PICK s \in Programs, f \in Fds :
            fds'[s][f].inUse /\ fds'[s][f].path = path /\ fds'[s][f].cluster = cl
    BY <1>12 DEF Refers
  <2>2. CASE s = p \/ s = q
    BY <1>3, <1>5, <2>1, <2>2 DEF Refers
  <2>3. CASE s # p /\ s # q
    BY <1>5, <2>1, <2>3 DEF Refers
  <2> QED
    BY <2>2, <2>3
<1> QED
  BY <1>1, <1>11, <1>12, FewerRefs DEF NoNewRefs

LEMMA RefersUsing ==
    ASSUME NEW path, Using(path) = {}, NEW cl, Refers(fds, path, cl)
    PROVE  FALSE
<1>1. PICK p \in Programs, f \in Fds : fds[p][f].inUse /\ fds[p][f].path = path
  BY DEF Refers
<1>2. <<p, f>> \in Using(path)
  BY <1>1 DEF Using
<1> QED
  BY <1>2

LEMMA DeleteKeeps ==
    ASSUME PlainPaths, TablesOK, RefsOK(vol, fds), NEW path \in DeletePaths, Delete(path)
    PROVE  TablesOK' /\ RefsOK(vol, fds)'
<1> DEFINE r == DeleteAt(vol, Resolve(vol, Parent(path)), Last(path))
<1>1. /\ Using(path) = {} /\ \A q \in FilePaths : Parent(q) = path => Using(q) = {}
      /\ r.ok /\ vol' = r.v
      /\ fds' = fds /\ extent' = extent /\ truncating' = truncating
  BY DEF Delete, FsDelete
<1>2. path \in FilePaths \cup DirPaths
  BY FilesAssumption
<1>3. PICK own : Tree(vol, own) /\ HeldAll(vol, own, fds) /\ Distinct(fds)
  BY DEF RefsOK
<1>4. PICK own2 : /\ Tree(r.v, own2)
                  /\ \A q, cl : Held(vol, own, q, cl) /\ q # path /\ Parent(q) # path
                                => Held(r.v, own2, q, cl)
  BY <1>1, <1>2, <1>3, DeleteRequest
<1> HIDE DEF r
<1>5. ASSUME NEW q, NEW cl, Refers(fds, q, cl) PROVE Held(r.v, own2, q, cl)
  <2>1. Held(vol, own, q, cl)
    BY <1>3, <1>5 DEF HeldAll
  <2>2. q \in FilePaths
    BY <2>1 DEF Held
  <2>3. q # path
    BY <1>1, <1>5, RefersUsing
  <2>4. Parent(q) # path
    BY <1>1, <1>5, <2>2, RefersUsing
  <2> QED
    BY <1>4, <2>1, <2>3, <2>4
<1>6. RefsOK(r.v, fds)
  BY <1>3, <1>4, <1>5 DEF RefsOK, HeldAll
<1>7. TablesOK'
  BY <1>1 DEF TablesOK
<1> QED
  BY <1>1, <1>6, <1>7

LEMMA MkdirKeeps ==
    ASSUME PlainPaths, TablesOK, RefsOK(vol, fds), NEW path \in DirPaths, Mkdir(path)
    PROVE  TablesOK' /\ RefsOK(vol, fds)'
<1> DEFINE r == MkdirIn(vol, Resolve(vol, Parent(path)), Last(path))
<1>1. /\ Resolve(vol, path) = NoEntry /\ vol' = r.v
      /\ fds' = fds /\ extent' = extent /\ truncating' = truncating
  BY DEF Mkdir, FsMkdir
<1>2. path \in Paths
  BY FilesAssumption
<1>3. PICK own : Tree(vol, own) /\ HeldAll(vol, own, fds) /\ Distinct(fds)
  BY DEF RefsOK
<1>4. At(vol, path) = NoEntry
  BY <1>1, <1>2, <1>3, ResolveAt
<1>5. \E own2 : Tree(r.v, own2) /\ AllHeld(vol, r.v, own, own2)
  BY <1>3, <1>4, MkdirRequest
<1> HIDE DEF r
<1>6. RefsOK(r.v, fds)
  BY <1>3, <1>5, MovedRefs
<1>7. TablesOK'
  BY <1>1 DEF TablesOK
<1> QED
  BY <1>1, <1>6, <1>7

(* What a positive reply to FS_OPEN or FS_CREATE_OPEN stands for.          *)
OpenedAs(v, own, path, r) ==
    /\ r.cluster \in Clusters \cup {0} /\ r.size \in 0 .. MaxOffset
    /\ \E own2 : /\ Tree(r.v, own2) /\ AllHeld(v, r.v, own, own2)
                 /\ Held(r.v, own2, path, r.cluster)
    /\ r.cluster # 0 => At(v, path) # NoEntry /\ At(v, path).cluster = r.cluster
    /\ EntriesKept(v, r.v, {}) /\ NoNewFiles(v, r.v, 0) /\ FilesKept(v, r.v, own, 0)

LEMMA OpenRequest ==
    ASSUME PlainPaths, NEW v, NEW own, Tree(v, own), NEW path \in FilePaths,
           NEW r, r = FsOpen(v, path)
    PROVE  (r.ok = FALSE /\ r.v = v) \/ (r.ok = TRUE /\ r.v = v /\ OpenedAs(v, own, path, r))
<1> DEFINE e == At(v, path)
<1>1. path \in Paths
  BY FilesAssumption
<1>2. r = OpenReply(v, e)
  BY <1>1, ResolveAt DEF FsOpen
<1>3. CASE e = NoEntry
  BY <1>2, <1>3 DEF OpenReply, Refused
<1>4. CASE e # NoEntry
  <2>1. r.ok = TRUE /\ r.v = v /\ r.cluster = e.cluster /\ r.size = e.size
    BY <1>2, <1>4 DEF OpenReply
  <2>2. PlaceOK(v, own, path, e)
    BY <1>1, <1>4 DEF Tree
  <2>3. e.cluster \in Clusters \cup {0} /\ e.size \in 0 .. MaxOffset
    BY <2>2 DEF PlaceOK, Entries
  <2>4. e.cluster # 0 => own[e.cluster] = e.cluster /\ e.cluster # Root
    BY <2>2 DEF PlaceOK
  <2>5. e.cluster # 0 => OnlyAt(v, path, e.cluster)
    BY <1>1, <1>4 DEF Tree, OnlyAt
  <2>6. Held(v, own, path, e.cluster)
    BY <1>4, <2>3, <2>4, <2>5 DEF Held, MayPoint
  <2>7. AllHeld(v, v, own, own)
    BY DEF AllHeld
  <2> HIDE DEF e
  <2>8. \E own2 : Tree(r.v, own2) /\ AllHeld(v, r.v, own, own2) /\ Held(r.v, own2, path, r.cluster)
    BY <2>1, <2>6, <2>7
  <2>9. EntriesKept(v, r.v, {}) /\ NoNewFiles(v, r.v, 0) /\ FilesKept(v, r.v, own, 0)
    BY <2>1 DEF EntriesKept, NoNewFiles, FilesKept
  <2> QED
    BY <1>4, <2>1, <2>3, <2>8, <2>9 DEF OpenedAs, e
<1> QED
  BY <1>3, <1>4

LEMMA CreateOpenRequest ==
    ASSUME PlainPaths, NEW v, NEW own, Tree(v, own), NEW path \in FilePaths,
           NEW r, r = FsCreateOpen(v, path)
    PROVE  (r.ok = FALSE /\ r.v = v) \/ (r.ok = TRUE /\ OpenedAs(v, own, path, r))
<1>1. path \in Paths
  BY FilesAssumption
<1>2. Resolve(v, path) = At(v, path)
  BY <1>1, ResolveAt
<1>3. CASE At(v, path) # NoEntry
  <2>1. r = FsOpen(v, path)
    BY <1>2, <1>3 DEF FsCreateOpen
  <2> QED
    BY <2>1, OpenRequest
<1>4. CASE At(v, path) = NoEntry
  <2>1. r = CreateIn(v, Resolve(v, Parent(path)), Last(path))
    BY <1>2, <1>4 DEF FsCreateOpen
  <2>2. (r.ok = FALSE /\ r.v = v) \/ Created(v, own, path, r)
    BY <1>4, <2>1, CreateRequest
  <2>3. ASSUME Created(v, own, path, r) PROVE r.ok = TRUE /\ OpenedAs(v, own, path, r)
    <3>1. r.ok = TRUE /\ r.cluster = 0 /\ r.size = 0
      BY <2>3 DEF Created
    <3>2. /\ \E own2 : /\ Tree(r.v, own2) /\ AllHeld(v, r.v, own, own2)
                       /\ Held(r.v, own2, path, 0)
          /\ EntriesKept(v, r.v, {}) /\ NoNewFiles(v, r.v, 0) /\ FilesKept(v, r.v, own, 0)
      BY <2>3, CreateHeld
    <3>3. 0 \in 0 .. MaxOffset
      BY FilesAssumption
    <3> QED
      BY <3>1, <3>2, <3>3 DEF OpenedAs
  <2> QED
    BY <2>2, <2>3
<1> QED
  BY <1>3, <1>4

LEMMA OpenedFacts ==
    ASSUME NEW path \in FilePaths, NEW cl \in Clusters \cup {0}, NEW sz \in 0 .. MaxOffset,
           NEW e, e = Opened(path, cl, sz)
    PROVE  /\ e \in OpenSlots /\ e \in GoodSlots /\ e.inUse
           /\ e.path = path /\ e.cluster = cl /\ e.size = sz
<1>1. 0 \in 0 .. MaxOffset /\ <<>> \in Seq(PlainUnits) /\ Len(<<>>) = 0
  BY FilesAssumption
<1>2. e \in OpenSlots
  BY <1>1 DEF Opened, OpenSlots
<1>3. e.path = path /\ e.cluster = cl /\ e.size = sz /\ e.text = <<>> /\ e.offset = 0
  BY DEF Opened
<1> QED
  BY <1>1, <1>2, <1>3 DEF GoodSlots, OpenSlots

LEMMA AtEndFacts ==
    ASSUME NEW e \in OpenSlots, NEW units \in Seq(PlainUnits), NEW e2, e2 = AtEnd(e, units)
    PROVE  e2 \in GoodSlots /\ e2.inUse /\ e2.path = e.path /\ e2.cluster = e.cluster
<1>1. e.size \in 0 .. MaxOffset
  BY DEF OpenSlots
<1>2. CASE Len(units) = e.size
  <2>1. e2 = [e EXCEPT !.offset = e.size, !.text = units]
    BY <1>2 DEF AtEnd
  <2>2. e2 \in OpenSlots
    BY <1>1, <2>1 DEF OpenSlots
  <2>3. e2.offset = e.size /\ e2.text = units /\ e2.path = e.path /\ e2.cluster = e.cluster
    BY <2>1 DEF OpenSlots
  <2>4. Len(e2.text) = e2.offset
    BY <1>2, <2>3
  <2> QED
    BY <2>2, <2>3, <2>4 DEF GoodSlots, OpenSlots
<1>3. CASE Len(units) # e.size
  <2> DEFINE g == [e EXCEPT !.offset = e.size]
  <2>1. e2 = Shared(g)
    BY <1>3 DEF AtEnd
  <2>2. g \in OpenSlots /\ g.path = e.path /\ g.cluster = e.cluster
    BY <1>1 DEF OpenSlots
  <2> HIDE DEF g
  <2> QED
    BY <2>1, <2>2, SharedFacts
<1> QED
  BY <1>2, <1>3

LEMMA PositionedFacts ==
    ASSUME NEW v, NEW own, Tree(v, own), NEW e \in OpenSlots, e \in GoodSlots, e.inUse,
           Held(v, own, e.path, e.cluster), NEW flags, NEW e2, e2 = Positioned(v, e, flags)
    PROVE  e2 \in GoodSlots /\ e2.inUse /\ e2.path = e.path /\ e2.cluster = e.cluster
<1> DEFINE got == ReadFile(v, e.cluster, 0, e.size)
<1>1. CASE "append" \notin flags
  BY <1>1 DEF Positioned
<1>2. CASE "append" \in flags
  <2>1. e.cluster \in Clusters \cup {0} /\ e.size \in Nat
    BY FilesAssumption DEF OpenSlots
  <2>2. e.cluster # 0 => own[e.cluster] = e.cluster
    BY DEF Held, MayPoint
  <2>3. got \in Seq(PlainUnits)
    BY <2>1, <2>2, ReadLength
  <2>4. e2 = AtEnd(e, got)
    BY <1>2 DEF Positioned
  <2> HIDE DEF got
  <2> QED
    BY <2>3, <2>4, AtEndFacts
<1> QED
  BY <1>1, <1>2

LEMMA WithOpenedFacts ==
    ASSUME fds \in Tables, NEW p \in Programs, NEW f \in Fds, NEW e \in GoodSlots, e.inUse,
           NEW t, t = WithOpened(p, f, e)
    PROVE  /\ t \in Tables
           /\ t[p][f].inUse
           /\ \A q \in Programs, g \in Fds :
                 /\ fds[q][g].inUse => t[q][g].inUse
                 /\ t[q][g].inUse => fds[q][g].inUse \/ (q = p /\ g = f)
           /\ \A path, cl : Refers(t, path, cl) =>
                 Refers(fds, path, cl) \/ (path = e.path /\ cl = e.cluster)
<1>1. e \in OpenSlots
  BY SlotFacts
<1>2. ASSUME NEW q \in Programs, NEW g \in Fds
      PROVE  /\ t[q][g] \in GoodSlots
             /\ fds[q][g].inUse => t[q][g].inUse
             /\ t[q][g].inUse =>
                  \/ fds[q][g].inUse /\ t[q][g].path = fds[q][g].path
                     /\ t[q][g].cluster = fds[q][g].cluster
                  \/ q = p /\ g = f /\ t[q][g].path = e.path /\ t[q][g].cluster = e.cluster
             /\ q = p /\ g = f => t[q][g].inUse
  <2>1. t[q][g] = IF <<q, g>> = <<p, f>>
                  THEN IF Using(e.path) = {} THEN e ELSE Shared(e)
                  ELSE IF <<q, g>> \in Using(e.path) THEN Shared(fds[q][g])
                  ELSE fds[q][g]
    BY DEF WithOpened
  <2>2. CASE q = p /\ g = f
    <3>1. t[q][g] = e \/ t[q][g] = Shared(e)
      BY <2>1, <2>2
    <3> QED
      BY <1>1, <2>2, <3>1, SharedFacts
  <2>3. CASE ~(q = p /\ g = f)
    <3>1. fds[q][g] \in GoodSlots
      BY TableSlot
    <3>2. CASE <<q, g>> \in Using(e.path)
      <4>1. fds[q][g].inUse
        BY <3>2 DEF Using
      <4>2. fds[q][g] \in OpenSlots
        BY <3>1, <4>1, SlotFacts
      <4>3. t[q][g] = Shared(fds[q][g])
        BY <2>1, <2>3, <3>2
      <4> QED
        BY <2>3, <4>1, <4>2, <4>3, SharedFacts
    <3>3. CASE <<q, g>> \notin Using(e.path)
      <4>1. t[q][g] = fds[q][g]
        BY <2>1, <2>3, <3>3
      <4> QED
        BY <2>3, <3>1, <4>1
    <3> QED
      BY <3>2, <3>3
  <2> QED
    BY <2>2, <2>3
<1>3. t \in Tables
  BY <1>2 DEF WithOpened, Tables
<1>4. ASSUME NEW path, NEW cl, Refers(t, path, cl)
      PROVE  Refers(fds, path, cl) \/ (path = e.path /\ cl = e.cluster)
  <2>1. PICK q \in Programs, g \in Fds : t[q][g].inUse /\ t[q][g].path = path /\ t[q][g].cluster = cl
    BY <1>4 DEF Refers
  <2> QED
    BY <1>2, <2>1 DEF Refers
<1> QED
  BY <1>2, <1>3, <1>4

(* The descriptor that open() fills in.                                    *)
LEMMA OpenedTables ==
    ASSUME TablesOK, NEW p \in Programs, NEW f \in Fds, NEW path \in FilePaths,
           NEW e \in GoodSlots, e.inUse, fds' = WithOpened(p, f, e),
           extent' = [extent EXCEPT ![p][f] = SavePath(@, path)],
           truncating' = truncating \/ truncating' = [truncating EXCEPT ![p] = f]
    PROVE  TablesOK'
<1>1. fds \in Tables /\ extent \in [Programs -> [Fds -> Nat]]
      /\ truncating \in [Programs -> Fds \cup {NoFd}]
  BY DEF TablesOK
<1>2. /\ fds' \in Tables /\ fds'[p][f].inUse
      /\ \A q \in Programs, g \in Fds :
            /\ fds[q][g].inUse => fds'[q][g].inUse
            /\ fds'[q][g].inUse => fds[q][g].inUse \/ (q = p /\ g = f)
  BY <1>1, WithOpenedFacts
<1> DEFINE x == extent[p][f]
           s == SavePath(x, path)
<1>3. s \in Nat /\ s # 0
  <2>1. x \in Nat /\ PathLen[path] \in Nat \ {0}
    BY <1>1, FilesAssumption
  <2> HIDE DEF x
  <2> QED
    BY <2>1 DEF SavePath
<1>4. extent' = [extent EXCEPT ![p] = [@ EXCEPT ![f] = s]]
  OBVIOUS
<1> HIDE DEF s
<1>5. /\ extent' \in [Programs -> [Fds -> Nat]]
      /\ \A q \in Programs, g \in Fds :
            extent'[q][g] = IF q = p /\ g = f THEN s ELSE extent[q][g]
  BY <1>1, <1>3, <1>4
<1>6. \A q \in Programs, g \in Fds : fds'[q][g].inUse => extent'[q][g] # 0
  BY <1>2, <1>3, <1>5 DEF TablesOK
<1>7. truncating' \in [Programs -> Fds \cup {NoFd}]
      /\ \A q \in Programs : truncating'[q] = truncating[q] \/ (q = p /\ truncating'[q] = f)
  BY <1>1
<1>8. ASSUME NEW q \in Programs, truncating'[q] # NoFd PROVE fds'[q][truncating'[q]].inUse
  <2>1. CASE truncating'[q] = truncating[q]
    <3>1. truncating[q] \in Fds /\ fds[q][truncating[q]].inUse
      BY <1>1, <1>8, <2>1 DEF TablesOK
    <3> QED
      BY <1>2, <2>1, <3>1
  <2>2. CASE q = p /\ truncating'[q] = f
    BY <1>2, <2>2
  <2> QED
    BY <1>7, <2>1, <2>2
<1> QED
  BY <1>2, <1>5, <1>6, <1>7, <1>8 DEF TablesOK

LEMMA OpenedRefs ==
    ASSUME fds \in Tables, NEW v, NEW own, HeldAll(v, own, fds), Distinct(fds),
           NEW p \in Programs, NEW f \in Fds, NEW path, NEW r, OpenedAs(v, own, path, r),
           NEW e \in GoodSlots, e.inUse, e.path = path, e.cluster = r.cluster
    PROVE  RefsOK(r.v, WithOpened(p, f, e))
<1> DEFINE cl == r.cluster
           t == WithOpened(p, f, e)
<1>1. PICK own2 : Tree(r.v, own2) /\ AllHeld(v, r.v, own, own2) /\ Held(r.v, own2, path, cl)
  BY DEF OpenedAs
<1>2. cl # 0 => At(v, path) # NoEntry /\ At(v, path).cluster = cl
  BY DEF OpenedAs
<1>3. HeldAll(r.v, own2, fds)
  BY <1>1 DEF HeldAll, AllHeld
<1>4. \A q, c : Refers(t, q, c) => Refers(fds, q, c) \/ (q = path /\ c = cl)
  BY WithOpenedFacts
<1>5. path \in Paths
  BY <1>1, FilesAssumption DEF Held
<1>6. \A q : Refers(fds, q, cl) /\ cl # 0 => q = path
  <2> SUFFICES ASSUME NEW q, Refers(fds, q, cl), cl # 0 PROVE q = path
    OBVIOUS
  <2>1. Held(v, own, q, cl)
    BY DEF HeldAll
  <2>2. OnlyAt(v, q, cl)
    BY <2>1 DEF Held, MayPoint
  <2> QED
    BY <1>2, <1>5, <2>2 DEF OnlyAt
<1> HIDE DEF cl, t
<1> QED
  BY <1>1, <1>3, <1>4, <1>6, OneMoreRef DEF t

(* open() leads a descriptor to where the path led already.                *)
NoNewRefsBut(path) ==
    \A q, cl : Refers(fds', q, cl) =>
        \/ Refers(fds, q, cl)
        \/ cl = 0
        \/ At(vol, path) # NoEntry /\ At(vol, path).cluster = cl

(* The descriptor g that open() fills in, with a file of the size given.   *)
OpenDone(p, f, path, flags, r, size, g) ==
    /\ f \in Fds /\ size \in 0 .. MaxOffset
    /\ vol' = r.v /\ \E own : OpenedAs(vol, own, path, r)
    /\ fds' = WithOpened(p, f, g)
    /\ g \in GoodSlots /\ g.inUse /\ g.path = path /\ g.cluster = r.cluster
    /\ \/ /\ g = Opened(path, r.cluster, size)
          /\ truncating' = [truncating EXCEPT ![p] = f]
       \/ /\ g = Positioned(r.v, Opened(path, r.cluster, size), flags)
          /\ truncating' = truncating

Opening(p, path, flags) ==
    \/ UNCHANGED <<vol, fds, truncating>>
    \/ \E f, r, size, g : OpenDone(p, f, path, flags, r, size, g)

LEMMA OpenKeeps ==
    ASSUME PlainPaths, TablesOK, RefsOK(vol, fds), NEW p \in Programs,
           NEW path \in FilePaths, NEW flags, Open(p, path, flags)
    PROVE  TablesOK' /\ RefsOK(vol, fds)' /\ NoNewRefsBut(path) /\ Opening(p, path, flags)
<1> DEFINE r == IF "creat" \in flags THEN FsCreateOpen(vol, path) ELSE FsOpen(vol, path)
<1>1. PICK f \in Fds : /\ vol' = r.v
                       /\ \/ ~r.ok /\ UNCHANGED <<fds, extent, truncating>>
                          \/ r.ok /\ FillIn(p, f, r, path, flags)
  BY DEF Open
<1>2. PICK own : Tree(vol, own) /\ HeldAll(vol, own, fds) /\ Distinct(fds)
  BY DEF RefsOK
<1>3. (r.ok = FALSE /\ r.v = vol) \/ (r.ok = TRUE /\ OpenedAs(vol, own, path, r))
  BY <1>2, OpenRequest, CreateOpenRequest
<1>4. fds \in Tables
  BY DEF TablesOK
<1> HIDE DEF r
<1>5. CASE ~r.ok
  <2>1. vol' = vol /\ UNCHANGED <<fds, extent, truncating>>
    BY <1>1, <1>3, <1>5
  <2> QED
    BY <2>1 DEF TablesOK, NoNewRefsBut, Opening
<1>6. CASE r.ok
  <2> DEFINE trunc == "trunc" \in flags /\ r.size > 0
             request == trunc /\ r.cluster >= 2
             size == IF trunc /\ ~request THEN 0 ELSE r.size
             e == Opened(path, r.cluster, size)
             e2 == Positioned(r.v, e, flags)
  <2>1. OpenedAs(vol, own, path, r)
    BY <1>3, <1>6
  <2>2. /\ extent' = [extent EXCEPT ![p][f] = SavePath(@, path)]
        /\ \/ /\ fds' = WithOpened(p, f, e)
              /\ truncating' = [truncating EXCEPT ![p] = f]
           \/ fds' = WithOpened(p, f, e2) /\ truncating' = truncating
    BY <1>1, <1>6 DEF FillIn
  <2>3. r.cluster \in Clusters \cup {0} /\ r.size \in 0 .. MaxOffset
    BY <2>1 DEF OpenedAs
  <2>4. size \in 0 .. MaxOffset
    BY <2>3, FilesAssumption
  <2> HIDE DEF size
  <2>5. e \in OpenSlots /\ e \in GoodSlots /\ e.inUse /\ e.path = path /\ e.cluster = r.cluster
    BY <2>3, <2>4, OpenedFacts
  <2> HIDE DEF e
  <2>6. PICK own2 : Tree(r.v, own2) /\ Held(r.v, own2, path, r.cluster)
    BY <2>1 DEF OpenedAs
  <2>7. e2 \in GoodSlots /\ e2.inUse /\ e2.path = path /\ e2.cluster = r.cluster
    <3>1. Held(r.v, own2, e.path, e.cluster)
      BY <2>5, <2>6
    <3> QED
      BY <2>5, <2>6, <3>1, PositionedFacts
  <2> HIDE DEF e2
  <2>8. ASSUME NEW g \in GoodSlots, g.inUse, g.path = path, g.cluster = r.cluster,
               fds' = WithOpened(p, f, g),
               \/ g = e /\ truncating' = [truncating EXCEPT ![p] = f]
               \/ g = e2 /\ truncating' = truncating
        PROVE  TablesOK' /\ RefsOK(vol', fds') /\ NoNewRefsBut(path) /\ Opening(p, path, flags)
    <3>1. TablesOK'
      BY <2>2, <2>8, OpenedTables
    <3>2. RefsOK(r.v, WithOpened(p, f, g))
      BY <1>2, <1>4, <2>1, <2>8, OpenedRefs
    <3>3. \A q, cl : Refers(fds', q, cl) => Refers(fds, q, cl) \/ cl = r.cluster
      BY <1>4, <2>8, WithOpenedFacts
    <3>4. r.cluster # 0 => At(vol, path) # NoEntry /\ At(vol, path).cluster = r.cluster
      BY <2>1 DEF OpenedAs
    <3>5. NoNewRefsBut(path)
      BY <3>3, <3>4 DEF NoNewRefsBut
    <3>6. \/ /\ g = Opened(path, r.cluster, size)
             /\ truncating' = [truncating EXCEPT ![p] = f]
          \/ /\ g = Positioned(r.v, Opened(path, r.cluster, size), flags)
             /\ truncating' = truncating
      BY <2>8 DEF e, e2
    <3>7. OpenDone(p, f, path, flags, r, size, g)
      BY <1>1, <2>1, <2>4, <2>8, <3>6 DEF OpenDone
    <3>8. Opening(p, path, flags)
      BY <3>7 DEF Opening
    <3> QED
      BY <1>1, <2>8, <3>1, <3>2, <3>5, <3>8
  <2> QED
    BY <2>2, <2>5, <2>7, <2>8
<1> QED
  BY <1>5, <1>6

-----------------------------------------------------------------------------
(* The invariant holds at first and in every step.                         *)

LEMMA FormattedTree ==
    /\ \E own : Tree(Formatted, own)
    /\ \A p \in Paths : At(Formatted, p) = NoEntry
<1> DEFINE own == [c \in Clusters |-> IF c = Root THEN Root ELSE 0]
           w == Content(Formatted, Root)
           s == Chain(Formatted, Root)
<1>1. Root \in Clusters /\ 0 \notin Clusters /\ Root # 0
  BY VolumeNumbers
<1>2. /\ Formatted \in Volumes
      /\ \A c \in Clusters : /\ Formatted.fat[c] = IF c = Root THEN Eoc ELSE Free
                             /\ Formatted.data[c] = ZeroSector
  BY FormattedFacts
<1>3. Eoc \notin Clusters /\ Eoc # Free /\ Free \notin Clusters
  BY VolumeNumbers DEF Free
<1>4. own \in [Clusters -> Clusters \cup {0}] /\ own[Root] = Root
      /\ \A c \in Clusters : own[c] # 0 => c = Root /\ own[c] = Root
  BY <1>1
<1> HIDE DEF own
<1>5. Labelled(Formatted, own)
  BY <1>1, <1>2, <1>3, <1>4 DEF Labelled
<1>6. /\ w \in Seq(PlainUnits) /\ DOMAIN w = 1 .. Len(s) * Slots
      /\ \A i \in 1 .. Len(s) * Slots :
            /\ SectorOf(i) \in 1 .. Len(s) /\ SlotOf(i) \in 1 .. Slots
            /\ s[SectorOf(i)] \in Clusters
            /\ w[i] = Formatted.data[s[SectorOf(i)]][SlotOf(i)]
  BY <1>1, <1>2, <1>4, <1>5, ContentIs
<1> HIDE DEF s, w
<1>7. \A i \in DOMAIN w : w[i] = Zero
  BY <1>2, <1>6, ZeroSectorFacts
<1>8. DirForm(w)
  BY <1>7, KindFacts DEF DirForm, DirUnits
<1>9. DirOK(Formatted, Root)
  BY <1>8 DEF DirOK, w
<1>10. \A n : FindEntry(Formatted, Root, n) = NoEntry
  <2> SUFFICES ASSUME NEW n PROVE FindEntry(Formatted, Root, n) = NoEntry
    OBVIOUS
  <2>1. \A i \in DOMAIN w : ~HasName(w, i, n)
    BY <1>7, KindFacts DEF HasName
  <2> QED
    BY <1>6, <1>9, <2>1, LookNone DEF w
<1>11. \A p \in Paths : At(Formatted, p) = NoEntry
  BY <1>10, KindFacts DEF At, Child
<1> QED
  BY <1>2, <1>4, <1>5, <1>9, <1>11 DEF Tree

LEMMA InitInv ==
    ASSUME FilesInit
    PROVE  FilesInv
<1>1. fds \in Tables /\ \A p \in Programs, f \in Fds : ~fds[p][f].inUse
  BY ClosedFacts DEF FilesInit, Tables
<1>2. TablesOK
  BY <1>1 DEF FilesInit, TablesOK
<1>3. \A path, cl : ~Refers(fds, path, cl)
  BY <1>1 DEF Refers
<1>4. RefsOK(vol, fds)
  BY <1>3, FormattedTree DEF FilesInit, RefsOK, HeldAll, Distinct
<1>5. DOMAIN objs = {}
  BY DEF FilesInit
<1>6. ObjsOK
  BY <1>5 DEF ObjsOK
<1> QED
  BY <1>2, <1>4, <1>6 DEF FilesInv

LEMMA StepKeeps ==
    ASSUME PlainPaths, TablesOK, RefsOK(vol, fds), FilesStep
    PROVE  TablesOK' /\ RefsOK(vol, fds)'
<1>1. ASSUME NEW p \in Programs, NEW path \in FilePaths, NEW flags \in Flags, Open(p, path, flags)
      PROVE  TablesOK' /\ RefsOK(vol, fds)'
  BY <1>1, OpenKeeps
<1>2. ASSUME NEW p \in Programs, NEW accepted \in BOOLEAN, OpenTruncate(p, accepted)
      PROVE  TablesOK' /\ RefsOK(vol, fds)'
  BY <1>2, OpenTruncateKeeps
<1>3. ASSUME NEW p \in Programs, NEW f \in Fds, NEW t \in Texts,
             Write(p, f, t)
      PROVE  TablesOK' /\ RefsOK(vol, fds)'
  BY <1>3, WriteKeeps
<1>4. ASSUME NEW p \in Programs, NEW f \in Fds, NEW n \in ReadSizes, Read(p, f, n)
      PROVE  TablesOK' /\ RefsOK(vol, fds)'
  BY <1>4, ReadKeeps
<1>5. ASSUME NEW p \in Programs, NEW f \in Fds, NEW accepted \in BOOLEAN, Close(p, f, accepted)
      PROVE  TablesOK' /\ RefsOK(vol, fds)'
  BY <1>5, CloseKeeps
<1>6. ASSUME NEW p \in Programs, Exit(p)
      PROVE  TablesOK' /\ RefsOK(vol, fds)'
  BY <1>6, ExitKeeps
<1>7. ASSUME NEW p \in Programs, NEW q \in Programs \ {p}, Fork(p, q)
      PROVE  TablesOK' /\ RefsOK(vol, fds)'
  BY <1>7, ForkKeeps
<1>8. ASSUME NEW path \in DeletePaths, Delete(path)
      PROVE  TablesOK' /\ RefsOK(vol, fds)'
  BY <1>8, DeleteKeeps
<1>9. ASSUME NEW path \in DirPaths, Mkdir(path)
      PROVE  TablesOK' /\ RefsOK(vol, fds)'
  BY <1>9, MkdirKeeps
<1> QED
  BY <1>1, <1>2, <1>3, <1>4, <1>5, <1>6, <1>7, <1>8, <1>9 DEF FilesStep

LEMMA NextInv ==
    ASSUME PlainPaths, FilesInv, [FilesNext]_filesVars
    PROVE  FilesInv'
<1>1. CASE FilesNext
  <2>1. TablesOK' /\ RefsOK(vol, fds)'
    BY <1>1, StepKeeps DEF FilesInv, FilesNext
  <2>2. objs' = Observed(vol', fds')
    BY <1>1 DEF FilesNext
  <2>3. ObjsOK'
    BY <2>2 DEF ObjsOK, Observed
  <2> QED
    BY <2>1, <2>3 DEF FilesInv
<1>2. CASE UNCHANGED filesVars
  BY <1>2 DEF FilesInv, TablesOK, ObjsOK, filesVars
<1> QED
  BY <1>1, <1>2

(* The chains of the volume can be labelled, every path leads to nothing   *)
(* or to an entry that starts a chain of its own, and every descriptor has *)
(* a cluster that no path but its own leads to, whatever the programs and  *)
(* the file server do.                                                     *)
THEOREM FilesInvariant ==
    ASSUME PlainPaths
    PROVE  FilesSpec => []FilesInv
<1>1. FilesInit => FilesInv
  BY InitInv
<1>2. FilesInv /\ [FilesNext]_filesVars => FilesInv'
  BY NextInv
<1> QED
  BY <1>1, <1>2, PTL DEF FilesSpec

-----------------------------------------------------------------------------
(* What the invariant says about the directories and the files.            *)

(* The entry e of the directory at the cluster d is what p leads to.       *)
ListedAt(v, d, e, p) ==
    /\ p \in Paths /\ e = At(v, p) /\ e # NoEntry
    /\ Len(p) = 1 => d = Root
    /\ Len(p) = 2 => LET g == FindEntry(v, Root, p[1]) IN g # NoEntry /\ d = g.cluster

LEMMA RootListed ==
    ASSUME NEW v, NEW own, Tree(v, own), NEW e \in EntriesOf(v, Root)
    PROVE  \E p : ListedAt(v, Root, e, p) /\ Len(p) = 1
<1>1. v \in Volumes /\ Labelled(v, own) /\ own[Root] = Root /\ DirOK(v, Root)
  BY DEF Tree
<1>2. Content(v, Root) \in Seq(PlainUnits)
  BY <1>1, VolumeNumbers, ContentIs
<1>3. PICK n \in Names : e = FindEntry(v, Root, n) /\ e # NoEntry
  BY <1>1, <1>2, ListedAreFound
<1>4. PICK p \in Paths : Len(p) = 1 /\ p[1] = n
  BY PathOfOne
<1>5. At(v, p) = e
  BY <1>3, <1>4 DEF At
<1> QED
  BY <1>3, <1>4, <1>5 DEF ListedAt

LEMMA DirectoryFacts ==
    ASSUME NEW v, NEW own, Tree(v, own), NEW d \in Directories(v)
    PROVE  /\ d \in Clusters /\ own[d] = d /\ DirOK(v, d)
           /\ d # Root => \E n \in Names : LET g == FindEntry(v, Root, n)
                                           IN  g # NoEntry /\ g.dir /\ d = g.cluster
<1>1. CASE d = Root
  BY <1>1, VolumeNumbers DEF Tree
<1>2. CASE d # Root
  <2>1. PICK e \in EntriesOf(v, Root) : e.dir /\ d = e.cluster
    BY <1>2 DEF Directories
  <2>2. PICK p : ListedAt(v, Root, e, p) /\ Len(p) = 1
    BY <2>1, RootListed
  <2>3. p \in Paths /\ e = At(v, p) /\ e # NoEntry
    BY <2>2 DEF ListedAt
  <2>4. p[1] \in Names /\ e = FindEntry(v, Root, p[1])
    BY <2>2, <2>3, PathForms DEF At
  <2>5. /\ e.cluster \in Clusters /\ own[e.cluster] = e.cluster /\ DirOK(v, e.cluster)
    BY <2>1, <2>3, <2>4, TopFacts
  <2> QED
    BY <2>1, <2>3, <2>4, <2>5
<1> QED
  BY <1>1, <1>2

LEMMA EntriesListed ==
    ASSUME NEW v, NEW own, Tree(v, own), NEW d \in Directories(v), NEW e \in EntriesOf(v, d)
    PROVE  \E p : ListedAt(v, d, e, p)
<1>1. d \in Clusters /\ own[d] = d /\ DirOK(v, d)
  BY DirectoryFacts
<1>2. CASE d = Root
  BY <1>2, RootListed
<1>3. CASE d # Root
  <2>1. PICK n \in Names : LET g == FindEntry(v, Root, n)
                           IN  g # NoEntry /\ g.dir /\ d = g.cluster
    BY <1>3, DirectoryFacts
  <2> DEFINE g == FindEntry(v, Root, n)
  <2>2. Content(v, d) \in Seq(PlainUnits)
    <3>1. v \in Volumes /\ Labelled(v, own)
      BY DEF Tree
    <3> QED
      BY <1>1, <3>1, ContentIs
  <2>3. PICK m \in Names : e = FindEntry(v, d, m) /\ e # NoEntry
    BY <1>1, <2>2, ListedAreFound
  <2>4. PICK p \in Paths : Len(p) = 2 /\ p[1] = n /\ p[2] = m
    BY PathOfTwo
  <2>5. g # NoEntry /\ g.dir /\ d = g.cluster /\ g = FindEntry(v, Root, p[1])
    BY <2>1, <2>4
  <2> HIDE DEF g
  <2>6. g.kind = "entry" /\ At(v, p) = Child(v, g, p[2])
    BY <2>4, <2>5, TopFacts
  <2>7. At(v, p) = e
    BY <2>3, <2>4, <2>5, <2>6 DEF Child
  <2> QED
    BY <2>3, <2>4, <2>5, <2>7 DEF ListedAt
<1> QED
  BY <1>2, <1>3

(* Where a chain begins, its label is its own.                             *)
LEMMA FileHeads ==
    ASSUME NEW v, NEW own, Tree(v, own), NEW table \in Tables, HeldAll(v, own, table),
           NEW h \in FilesOf(v, table)
    PROVE  h \in Clusters /\ own[h] = h
<1>1. h # 0
  BY DEF FilesOf
<1>2. \/ \E d \in Directories(v) : \E e \in EntriesOf(v, d) : h = e.cluster
      \/ \E p \in Programs, f \in Fds : table[p][f].inUse /\ h = table[p][f].cluster
  BY DEF FilesOf
<1>3. ASSUME NEW d \in Directories(v), NEW e \in EntriesOf(v, d), h = e.cluster
      PROVE  h \in Clusters /\ own[h] = h
  <2>1. PICK p : ListedAt(v, d, e, p)
    BY EntriesListed
  <2>2. PlaceOK(v, own, p, e)
    BY <2>1 DEF ListedAt, Tree
  <2> QED
    BY <1>1, <1>3, <2>2 DEF PlaceOK, Entries
<1>4. ASSUME NEW p \in Programs, NEW f \in Fds, table[p][f].inUse, h = table[p][f].cluster
      PROVE  h \in Clusters /\ own[h] = h
  <2>1. Held(v, own, table[p][f].path, h)
    BY <1>4, RefersSlot DEF HeldAll
  <2> QED
    BY <1>1, <2>1 DEF Held, MayPoint
<1> QED
  BY <1>2, <1>3, <1>4

LEMMA HeadFacts ==
    ASSUME FilesInv
    PROVE  \E own : Tree(vol, own) /\ \A h \in Heads : h \in Clusters /\ own[h] = h
<1>1. PICK own : Tree(vol, own) /\ HeldAll(vol, own, fds)
  BY DEF FilesInv, RefsOK
<1>2. fds \in Tables /\ DOMAIN objs \subseteq FilesOf(vol, fds)
  BY DEF FilesInv, TablesOK, ObjsOK
<1>3. ASSUME NEW h \in Heads PROVE h \in Clusters /\ own[h] = h
  <2>1. CASE h \in Directories(vol)
    BY <1>1, <2>1, DirectoryFacts
  <2>2. CASE h \in DOMAIN objs
    BY <1>1, <1>2, <2>2, FileHeads
  <2> QED
    BY <2>1, <2>2 DEF Heads
<1> QED
  BY <1>1, <1>3

LEMMA InvReferencesLive ==
    ASSUME FilesInv
    PROVE  ReferencesLive
<1>1. PICK own : Tree(vol, own) /\ \A h \in Heads : h \in Clusters /\ own[h] = h
  BY HeadFacts
<1>2. vol \in Volumes /\ Labelled(vol, own)
  BY <1>1 DEF Tree
<1> QED
  BY <1>1, <1>2, ChainFacts DEF ReferencesLive

LEMMA InvChainsSeparate ==
    ASSUME FilesInv
    PROVE  ChainsSeparate
<1>1. PICK own : Tree(vol, own) /\ \A h \in Heads : h \in Clusters /\ own[h] = h
  BY HeadFacts
<1>2. vol \in Volumes /\ Labelled(vol, own)
  BY <1>1 DEF Tree
<1>3. ASSUME NEW c \in Directories(vol), NEW d \in Directories(vol),
             NEW e \in EntriesOf(vol, c), NEW g \in EntriesOf(vol, d),
             e.cluster = g.cluster, e.cluster # 0
      PROVE  c = d /\ e = g
  <2>1. PICK p : ListedAt(vol, c, e, p)
    BY <1>1, EntriesListed
  <2>2. PICK q : ListedAt(vol, d, g, q)
    BY <1>1, EntriesListed
  <2>3. p \in Paths /\ q \in Paths /\ e = At(vol, p) /\ g = At(vol, q)
        /\ e # NoEntry /\ g # NoEntry
    BY <2>1, <2>2 DEF ListedAt
  <2>4. p = q
    BY <1>1, <1>3, <2>3 DEF Tree
  <2>5. Len(p) \in {1, 2}
    BY <2>3, PathForms
  <2> QED
    BY <2>1, <2>2, <2>3, <2>4, <2>5 DEF ListedAt
<1>4. ASSUME NEW h \in Heads PROVE IsInjective(Chain(vol, h))
  <2> DEFINE s == Chain(vol, h)
  <2>1. h \in Clusters /\ own[h] = h
    BY <1>1
  <2>2. DOMAIN s = 1 .. Len(s) /\ \A j, k \in 1 .. Len(s) : s[j] = s[k] => j = k
    BY <1>2, <2>1, ChainFacts
  <2> HIDE DEF s
  <2>3. IsInjective(s)
    BY <2>2 DEF IsInjective
  <2> QED
    BY <2>3 DEF s
<1>5. ASSUME NEW h \in Heads, NEW c \in Range(Chain(vol, h)) PROVE own[c] = h
  <2> DEFINE s == Chain(vol, h)
  <2>1. h \in Clusters /\ own[h] = h
    BY <1>1
  <2>2. DOMAIN s = 1 .. Len(s) /\ \A k \in 1 .. Len(s) : own[s[k]] = h
    BY <1>2, <2>1, ChainFacts
  <2> HIDE DEF s
  <2>3. \A x \in Range(s) : own[x] = h
    BY <2>2 DEF Range
  <2> QED
    BY <2>3 DEF s
<1>6. \A g, h \in Heads :
          g # h => Range(Chain(vol, g)) \cap Range(Chain(vol, h)) = {}
  BY <1>5
<1> QED
  BY <1>3, <1>4, <1>6 DEF ChainsSeparate

LEMMA InvOpenFilesFound ==
    ASSUME PlainPaths, FilesInv
    PROVE  OpenFilesFound
<1>1. PICK own : Tree(vol, own) /\ HeldAll(vol, own, fds)
  BY DEF FilesInv, RefsOK
<1>2. ASSUME NEW p \in Programs, NEW f \in Fds, fds[p][f].inUse
      PROVE  Resolve(vol, fds[p][f].path) # NoEntry
  <2>1. Held(vol, own, fds[p][f].path, fds[p][f].cluster)
    BY <1>1, <1>2, RefersSlot DEF HeldAll
  <2>2. fds[p][f].path \in Paths /\ At(vol, fds[p][f].path) # NoEntry
    BY <2>1, FilesAssumption DEF Held
  <2> QED
    BY <1>1, <2>2, ResolveAt
<1> QED
  BY <1>2 DEF OpenFilesFound

LEMMA SliceIs ==
    ASSUME NEW u \in Seq(PlainUnits), NEW off \in Nat, NEW end \in Nat, end <= Len(u),
           NEW s, IsSlice(s, u, off, end)
    PROVE  s = SubSeq(u, off + 1, end)
<1>1. s \in Seq(PlainUnits) /\ Len(s) = (IF end > off THEN end - off ELSE 0)
      /\ \A i \in 1 .. Len(s) : s[i] = u[off + i]
  BY DEF IsSlice
<1>2. CASE end <= off
  <2>1. Len(s) = 0
    BY <1>1, <1>2
  <2>2. s = <<>>
    BY <1>1, <2>1, EmptySeq
  <2>3. SubSeq(u, off + 1, end) = <<>>
    BY <1>2, SubSeqEmpty
  <2> QED
    BY <2>2, <2>3
<1>3. CASE end > off
  <2> DEFINE t == SubSeq(u, off + 1, end)
             l == end - off
  <2>0. l \in Nat /\ l >= 1
    BY <1>3
  <2>1. \A i \in off + 1 .. end : u[i] \in PlainUnits
    <3> SUFFICES ASSUME NEW i \in off + 1 .. end PROVE u[i] \in PlainUnits
      OBVIOUS
    <3>1. i \in 1 .. Len(u)
      BY LenProperties
    <3> QED
      BY <3>1, ElementOfSeq
  <2>2. /\ t \in Seq(PlainUnits)
        /\ Len(t) = (IF off + 1 <= end THEN end - (off + 1) + 1 ELSE 0)
        /\ \A i \in 1 .. end - (off + 1) + 1 : t[i] = u[off + 1 + i - 1]
    BY <2>1, SubSeqProperties
  <2> HIDE DEF t
  <2>3. Len(t) = l /\ Len(s) = l
    BY <1>1, <1>3, <2>2
  <2>4. \A i \in 1 .. l : t[i] = u[off + i] /\ s[i] = u[off + i]
    <3> SUFFICES ASSUME NEW i \in 1 .. l PROVE t[i] = u[off + i] /\ s[i] = u[off + i]
      OBVIOUS
    <3>1. i \in 1 .. end - (off + 1) + 1 /\ off + 1 + i - 1 = off + i
      OBVIOUS
    <3> QED
      BY <1>1, <2>2, <2>3, <3>1
  <2> HIDE DEF l
  <2>5. s = t
    BY <1>1, <2>2, <2>3, <2>4, SeqEqual
  <2> QED
    BY <2>5 DEF t
<1> QED
  BY <1>2, <1>3

LEMMA InvReadsChain ==
    ASSUME FilesInv
    PROVE  ReadsChain
<1>1. PICK own : Tree(vol, own) /\ \A h \in Heads : h \in Clusters /\ own[h] = h
  BY HeadFacts
<1>2. vol \in Volumes /\ Labelled(vol, own)
  BY <1>1 DEF Tree
<1>3. ASSUME NEW h \in DOMAIN objs, NEW off \in 0 .. MaxOffset,
             NEW n \in 0 .. MaxOffset
      PROVE  ReadFile(vol, h, off, n)
                 = SubSeq(objs[h], off + 1, Min({off + n, Len(objs[h])}))
  <2> DEFINE u == Content(vol, h)
             z == Len(u)
             s == ReadFile(vol, h, off, n)
             end == UpTo(off + n, z)
  <2>1. objs[h] = u
    BY DEF FilesInv, ObjsOK
  <2>2. h \in Clusters /\ own[h] = h
    BY <1>1 DEF Heads
  <2>3. off \in Nat /\ n \in Nat
    BY FilesAssumption
  <2>4. u \in Seq(PlainUnits)
    BY <1>2, <2>2, ContentIs
  <2>5. z \in Nat
    BY <2>4, LenProperties
  <2>6. IsSlice(s, u, off, end)
    BY <1>2, <2>2, <2>3, ReadSlice
  <2> HIDE DEF u, s
  <2>7. end \in Nat /\ end <= z /\ Min({off + n, z}) = end
    <3> HIDE DEF z
    <3>1. off + n \in Nat
      BY <2>3
    <3>2. Min({off + n, z}) = IF off + n <= z THEN off + n ELSE z
      BY <2>5, <3>1, MinTwo
    <3> QED
      BY <2>5, <3>1, <3>2 DEF UpTo
  <2> HIDE DEF end
  <2>8. s = SubSeq(u, off + 1, end)
    BY <2>3, <2>4, <2>6, <2>7, SliceIs
  <2> QED
    BY <2>1, <2>7, <2>8 DEF s
<1> QED
  BY <1>3 DEF ReadsChain

LEMMA InvFilesTypeOK ==
    ASSUME FilesInv
    PROVE  FilesTypeOK
<1>1. vol \in Volumes
  BY DEF FilesInv, RefsOK, Tree
<1>2. /\ vol.fat \in [Clusters -> {Free} \cup 2 .. Eoc]
      /\ vol.data \in [Clusters -> [1 .. Slots -> PlainUnits]]
  BY <1>1, VolumesTyped
<1>3. ASSUME NEW c \in Clusters
      PROVE  /\ DOMAIN vol.data[c] = 1 .. Slots
             /\ \A i \in 1 .. Slots : vol.data[c][i] \in Units \/ vol.data[c][i].kind = "entry"
  <2>1. vol.data[c] \in [1 .. Slots -> PlainUnits]
    BY <1>2
  <2>2. \A u \in PlainUnits : u \in Units \/ u.kind = "entry"
    BY DEF PlainUnits, Units, Entries
  <2> QED
    BY <2>1, <2>2
<1>4. ASSUME NEW p \in Programs, NEW f \in Fds, fds[p][f].inUse
      PROVE  LET e == fds[p][f]
             IN  /\ e.path \in FilePaths
                 /\ e.cluster \in {0} \cup Clusters
                 /\ {e.size, e.offset} \subseteq 0 .. MaxOffset
                 /\ e.sole => Len(e.text) = e.offset
  <2> DEFINE e == fds[p][f]
  <2>1. e \in GoodSlots
    BY TableSlot DEF FilesInv, TablesOK
  <2> HIDE DEF e
  <2>2. /\ e.path \in FilePaths /\ e.cluster \in Clusters \cup {0}
        /\ e.size \in 0 .. MaxOffset /\ e.offset \in 0 .. MaxOffset
        /\ e.sole => Len(e.text) = e.offset
    BY <1>4, <2>1, SlotFacts DEF e
  <2>3. {e.size, e.offset} \subseteq 0 .. MaxOffset /\ e.cluster \in {0} \cup Clusters
    BY <2>2
  <2> QED
    BY <2>2, <2>3 DEF e
<1>5. \A p \in Programs : truncating[p] # NoFd => fds[p][truncating[p]].inUse
  BY DEF FilesInv, TablesOK
<1> QED
  BY <1>2, <1>3, <1>4, <1>5 DEF FilesTypeOK

-----------------------------------------------------------------------------
(* The theorems.  They are about plain paths (PlainPaths): every name in a *)
(* path is an 8.3 name as it stands.  fs-server takes long names as well,  *)
(* and with them OpenFilesFound fails.                                     *)

(* The table, the sectors and the descriptors keep the form that fs-server *)
(* and fd_table.c give them, and open() waits for FS_TRUNCATE only on a    *)
(* descriptor that is in use.                                              *)
THEOREM FilesTypeCorrect ==
    ASSUME PlainPaths
    PROVE  FilesSpec => []FilesTypeOK
<1>1. FilesInv => FilesTypeOK
  BY InvFilesTypeOK
<1> QED
  BY <1>1, FilesInvariant, PTL

(* alloc_cluster, free_chain and truncate_file leave every chain that an   *)
(* entry or an open descriptor starts allocated to its end: no cluster of  *)
(* a file in use can be given to another.                                  *)
THEOREM ReferencesStayLive ==
    ASSUME PlainPaths
    PROVE  FilesSpec => []ReferencesLive
<1>1. FilesInv => ReferencesLive
  BY InvReferencesLive
<1> QED
  BY <1>1, FilesInvariant, PTL

(* No two entries start the same chain, no chain comes back on itself, and *)
(* chains that start at different clusters share none: a write to a file   *)
(* reaches no other file and no directory.                                 *)
THEOREM ChainsStaySeparate ==
    ASSUME PlainPaths
    PROVE  FilesSpec => []ChainsSeparate
<1>1. FilesInv => ChainsSeparate
  BY InvChainsSeparate
<1> QED
  BY <1>1, FilesInvariant, PTL

(* If all names are 8.3 names as they stand, of one slot each, then the    *)
(* path of an open file leads to an entry: the next open() finds it, and   *)
(* close() has something to update.  With long names it need not, as run   *)
(* found shows: create_dir_entry can put the slots of an entry behind the  *)
(* end mark of its directory.                                              *)
THEOREM PlainFilesStayFound ==
    ASSUME PlainPaths
    PROVE  FilesSpec => []OpenFilesFound
<1>1. FilesInv => OpenFilesFound
  BY InvOpenFilesFound
<1> QED
  BY <1>1, FilesInvariant, PTL

(* read_file, which skips to the cluster of the offset and copies sector   *)
(* by sector, returns what lies along the chain, from any offset.          *)
THEOREM ReadsFollowChain ==
    ASSUME PlainPaths
    PROVE  FilesSpec => []ReadsChain
<1>1. FilesInv => ReadsChain
  BY InvReadsChain
<1> QED
  BY <1>1, FilesInvariant, PTL

-----------------------------------------------------------------------------
(* What is left behind at a close, and what files hold.                    *)

(* The files are those that a path leads to, and those that are open.      *)
LEMMA PathListed ==
    ASSUME NEW v, NEW own, Tree(v, own), NEW q \in Paths, At(v, q) # NoEntry
    PROVE  \E d \in Directories(v) : At(v, q) \in EntriesOf(v, d)
<1> DEFINE g == FindEntry(v, Root, q[1])
           e == At(v, q)
<1>1. v \in Volumes /\ Labelled(v, own) /\ own[Root] = Root /\ DirOK(v, Root)
  BY DEF Tree
<1>2. Content(v, Root) \in Seq(PlainUnits)
  BY <1>1, VolumeNumbers, ContentIs
<1>3. Len(q) \in {1, 2} /\ q[1] \in Names /\ (Len(q) = 2 => q[2] \in Names)
  BY PathForms
<1>4. Root \in Directories(v)
  BY DEF Directories
<1>5. g # NoEntry => g \in EntriesOf(v, Root)
  BY <1>1, <1>2, <1>3, ListedAreFound
<1>6. CASE Len(q) = 1
  BY <1>4, <1>5, <1>6, TopFacts
<1>7. CASE Len(q) = 2
  <2>1. e = Child(v, g, q[2]) /\ e # NoEntry
    BY <1>7, TopFacts
  <2>2. g.kind = "entry" /\ g.dir /\ e = FindEntry(v, g.cluster, q[2])
    BY <2>1 DEF Child
  <2>3. g # NoEntry
    BY <2>2, KindFacts
  <2>4. g.cluster \in Directories(v)
    BY <1>5, <2>2, <2>3 DEF Directories
  <2>5. g.cluster \in Clusters /\ own[g.cluster] = g.cluster /\ DirOK(v, g.cluster)
    BY <2>2, <2>3, TopFacts
  <2>6. Content(v, g.cluster) \in Seq(PlainUnits)
    BY <1>1, <2>5, ContentIs
  <2> HIDE DEF g, e
  <2>7. e \in EntriesOf(v, g.cluster)
    BY <1>3, <1>7, <2>1, <2>2, <2>5, <2>6, ListedAreFound
  <2> QED
    BY <2>4, <2>7 DEF e
<1> QED
  BY <1>3, <1>6, <1>7

LEMMA FilesOfIs ==
    ASSUME NEW v, NEW own, Tree(v, own), NEW table \in Tables, NEW h
    PROVE  h \in FilesOf(v, table)
             <=> /\ h \in Clusters
                 /\ \/ \E q \in Paths : FileAt(v, q, h)
                    \/ \E q : Refers(table, q, h)
<1>1. ASSUME h \in FilesOf(v, table)
      PROVE  /\ h \in Clusters
             /\ (\E q \in Paths : FileAt(v, q, h)) \/ (\E q : Refers(table, q, h))
  <2>1. h # 0
    BY <1>1 DEF FilesOf
  <2>2. \/ \E d \in Directories(v) : \E e \in EntriesOf(v, d) : ~e.dir /\ h = e.cluster
        \/ \E p \in Programs, f \in Fds : table[p][f].inUse /\ h = table[p][f].cluster
    BY <1>1 DEF FilesOf
  <2>3. ASSUME NEW d \in Directories(v), NEW e \in EntriesOf(v, d), ~e.dir, h = e.cluster
        PROVE  h \in Clusters /\ \E q \in Paths : FileAt(v, q, h)
    <3>1. PICK p : ListedAt(v, d, e, p)
      BY EntriesListed
    <3>2. p \in Paths /\ e = At(v, p) /\ e # NoEntry /\ PlaceOK(v, own, p, e)
      BY <3>1 DEF ListedAt, Tree
    <3>3. h \in Clusters
      BY <2>1, <2>3, <3>2 DEF PlaceOK, Entries
    <3> QED
      BY <2>3, <3>2, <3>3 DEF FileAt
  <2>4. ASSUME NEW p \in Programs, NEW f \in Fds, table[p][f].inUse, h = table[p][f].cluster
        PROVE  h \in Clusters /\ \E q : Refers(table, q, h)
    <3>1. table[p][f] \in GoodSlots
      BY TableSlot
    <3>2. h \in Clusters
      BY <2>1, <2>4, <3>1, SlotFacts
    <3>3. Refers(table, table[p][f].path, h)
      BY <2>4, RefersSlot
    <3> QED
      BY <3>2, <3>3
  <2> QED
    BY <2>2, <2>3, <2>4
<1>2. ASSUME h \in Clusters, NEW q \in Paths, FileAt(v, q, h)
      PROVE  h \in FilesOf(v, table)
  <2>1. h # 0
    BY <1>2, VolumeNumbers
  <2>2. PICK d \in Directories(v) : At(v, q) \in EntriesOf(v, d)
    BY <1>2, PathListed DEF FileAt
  <2>3. h \in {e.cluster : e \in {g \in EntriesOf(v, d) : ~g.dir}}
    BY <1>2, <2>2 DEF FileAt
  <2> QED
    BY <2>1, <2>3 DEF FilesOf
<1>3. ASSUME h \in Clusters, NEW q, Refers(table, q, h)
      PROVE  h \in FilesOf(v, table)
  <2>1. h # 0
    BY <1>3, VolumeNumbers
  <2>2. PICK p \in Programs, f \in Fds : table[p][f].inUse /\ table[p][f].cluster = h
    BY <1>3 DEF Refers
  <2>3. h \in {table[d[1]][d[2]].cluster : d \in {g \in Programs \X Fds :
                                                    table[g[1]][g[2]].inUse}}
    <3>1. <<p, f>> \in {g \in Programs \X Fds : table[g[1]][g[2]].inUse}
      BY <2>2
    <3> QED
      BY <2>2, <3>1
  <2> QED
    BY <2>1, <2>3 DEF FilesOf
<1> QED
  BY <1>1, <1>2, <1>3

(* None of them is a directory.                                            *)
LEMMA FilesAreFiles ==
    ASSUME NEW v, NEW own, Tree(v, own), NEW table \in Tables, HeldAll(v, own, table),
           NEW h \in FilesOf(v, table)
    PROVE  IsFile(v, own, h)
<1>1. h \in Clusters /\ own[h] = h /\ h # 0
  BY FileHeads, VolumeNumbers
<1>2. (\E q \in Paths : FileAt(v, q, h)) \/ (\E q : Refers(table, q, h))
  BY FilesOfIs
<1>3. ASSUME NEW q \in Paths, FileAt(v, q, h) PROVE IsFile(v, own, h)
  <2>1. At(v, q) # NoEntry /\ At(v, q).cluster = h /\ ~At(v, q).dir
    BY <1>3 DEF FileAt
  <2>2. h # Root
    BY <2>1 DEF Tree, PlaceOK
  <2>3. \A p \in Paths : At(v, p) # NoEntry /\ At(v, p).cluster = h => p = q
    BY <1>1, <2>1 DEF Tree
  <2> QED
    BY <1>1, <2>1, <2>2, <2>3 DEF IsFile
<1>4. ASSUME NEW q, Refers(table, q, h) PROVE IsFile(v, own, h)
  <2>1. Held(v, own, q, h)
    BY <1>4 DEF HeldAll
  <2>2. h # Root /\ OnlyAt(v, q, h) /\ q \in FilePaths /\ q \in Paths
    BY <1>1, <2>1, FilesAssumption DEF Held, MayPoint
  <2>3. At(v, q) # NoEntry => ~At(v, q).dir
    BY <2>2, FilesAssumption DEF Tree, PlaceOK
  <2> QED
    BY <1>1, <2>2, <2>3 DEF IsFile, OnlyAt
<1> QED
  BY <1>2, <1>3, <1>4

(* What a step may do to files and paths: entries of the paths changed,    *)
(* the chain new, that no path led to, and what is in the chain of h.      *)
Quiet(changed, new, h) ==
    /\ EntriesKept(vol, vol', changed) /\ NoNewFiles(vol, vol', new)
    /\ \E own : Tree(vol, own) /\ HeldAll(vol, own, fds) /\ FilesKept(vol, vol', own, h)

LEMMA SameVolume ==
    ASSUME RefsOK(vol, fds), vol' = vol, NEW changed, NEW new, NEW h
    PROVE  Quiet(changed, new, h)
BY DEF Quiet, EntriesKept, NoNewFiles, FilesKept, RefsOK

LEMMA OpenQuiet ==
    ASSUME PlainPaths, RefsOK(vol, fds), NEW p \in Programs,
           NEW path \in FilePaths, NEW flags, Open(p, path, flags)
    PROVE  Quiet({}, 0, 0)
<1> DEFINE r == IF "creat" \in flags THEN FsCreateOpen(vol, path) ELSE FsOpen(vol, path)
<1>1. vol' = r.v
  BY DEF Open
<1>2. PICK own : Tree(vol, own) /\ HeldAll(vol, own, fds)
  BY DEF RefsOK
<1>3. r.v = vol \/ OpenedAs(vol, own, path, r)
  BY <1>2, OpenRequest, CreateOpenRequest
<1> HIDE DEF r
<1>4. CASE r.v = vol
  BY <1>1, <1>4, SameVolume
<1>5. CASE OpenedAs(vol, own, path, r)
  BY <1>1, <1>2, <1>5 DEF OpenedAs, Quiet
<1> QED
  BY <1>3, <1>4, <1>5

LEMMA SlotHeld ==
    ASSUME TablesOK, NEW own, HeldAll(vol, own, fds), NEW p \in Programs, NEW f \in Fds,
           fds[p][f].inUse
    PROVE  /\ Held(vol, own, fds[p][f].path, fds[p][f].cluster)
           /\ fds[p][f].path \in FilePaths /\ fds[p][f].path \in Paths
           /\ At(vol, fds[p][f].path) # NoEntry
<1>1. Held(vol, own, fds[p][f].path, fds[p][f].cluster)
  BY RefersSlot DEF HeldAll
<1> QED
  BY <1>1, FilesAssumption DEF Held

(* FS_TRUNCATE in open(), if the kernel accepted it.                       *)
LEMMA TruncateQuiet ==
    ASSUME PlainPaths, TablesOK, RefsOK(vol, fds), NEW p \in Programs,
           NEW accepted \in BOOLEAN, OpenTruncate(p, accepted),
           NEW path, path = fds[p][truncating[p]].path
    PROVE  vol' = vol \/ \E own : /\ Tree(vol, own) /\ HeldAll(vol, own, fds)
                                  /\ Truncated(vol, vol', own, path, At(vol, path).cluster)
<1> DEFINE f == truncating[p]
           r == TruncateAt(vol, Resolve(vol, Parent(path)), Last(path))
<1>1. f # NoFd /\ (vol' = vol \/ vol' = r.v)
  BY DEF OpenTruncate, FsTruncate
<1>2. f \in Fds /\ fds[p][f].inUse
  BY <1>1 DEF TablesOK
<1>3. PICK own : Tree(vol, own) /\ HeldAll(vol, own, fds)
  BY DEF RefsOK
<1>4. path \in FilePaths /\ At(vol, path) # NoEntry
  BY <1>2, <1>3, SlotHeld
<1>5. Truncated(vol, r.v, own, path, At(vol, path).cluster)
  BY <1>3, <1>4, TruncateRequest
<1> HIDE DEF r
<1> QED
  BY <1>1, <1>3, <1>5

LEMMA CloseQuiet ==
    ASSUME PlainPaths, TablesOK, RefsOK(vol, fds), NEW p \in Programs, NEW f \in Fds,
           NEW accepted \in BOOLEAN, Close(p, f, accepted), NEW e, e = fds[p][f]
    PROVE  /\ Quiet({e.path}, e.cluster, 0)
           /\ ~e.dirty => vol' = vol
           /\ /\ e.dirty /\ accepted /\ PathSentWhole(p, f)
              /\ InFullSector(vol, e.path)
              => EnteredAt(vol', e.path, e.cluster, e.size)
<1> DEFINE r == UpdateIn(vol, Resolve(vol, Parent(e.path)), Last(e.path), e.size, e.cluster)
           sync == e.dirty /\ accepted /\ PathSentWhole(p, f)
<1>1. e.inUse /\ vol' = IF sync THEN r.v ELSE vol
  BY DEF Close, FsUpdateSize
<1>2. e \in GoodSlots
  BY TableSlot DEF TablesOK
<1>3. e.path \in FilePaths /\ e.size \in 0 .. MaxOffset
  BY <1>1, <1>2, SlotFacts
<1>4. PICK own : Tree(vol, own) /\ HeldAll(vol, own, fds)
  BY DEF RefsOK
<1>5. Held(vol, own, e.path, e.cluster) /\ At(vol, e.path) # NoEntry
  BY <1>1, <1>4, SlotHeld
<1>6. MayPoint(vol, own, e.path, e.cluster)
  BY <1>5 DEF Held
<1> HIDE DEF sync
<1>7. /\ r.v = vol \/ Updated(vol, r.v, own, e.path, e.cluster)
      /\ InFullSector(vol, e.path) => EnteredAt(r.v, e.path, e.cluster, e.size)
  BY <1>3, <1>4, <1>5, <1>6, UpdateRequest
<1> HIDE DEF r
<1>8. Quiet({e.path}, e.cluster, 0)
  <2>1. CASE vol' = vol
    BY <2>1, SameVolume
  <2>2. CASE vol' # vol
    <3>1. vol' = r.v /\ Updated(vol, r.v, own, e.path, e.cluster)
      BY <1>1, <1>7, <2>2
    <3>2. /\ EntriesKept(vol, r.v, {e.path}) /\ NoNewFiles(vol, r.v, e.cluster)
          /\ FilesKept(vol, r.v, own, 0)
      BY <1>3, <3>1, UpdatedRest
    <3> QED
      BY <1>4, <3>1, <3>2 DEF Quiet
  <2> QED
    BY <2>1, <2>2
<1> QED
  BY <1>1, <1>7, <1>8 DEF sync

LEMMA DeleteQuiet ==
    ASSUME PlainPaths, RefsOK(vol, fds), NEW path \in DeletePaths, Delete(path)
    PROVE  \E own : /\ Tree(vol, own) /\ HeldAll(vol, own, fds)
                    /\ Removed(vol, vol', own, path)
<1> DEFINE r == DeleteAt(vol, Resolve(vol, Parent(path)), Last(path))
<1>1. r.ok /\ vol' = r.v
  BY DEF Delete, FsDelete
<1>2. path \in FilePaths \cup DirPaths
  BY FilesAssumption
<1>3. PICK own : Tree(vol, own) /\ HeldAll(vol, own, fds)
  BY DEF RefsOK
<1>4. Removed(vol, r.v, own, path)
  BY <1>1, <1>2, <1>3, DeleteRequest
<1> QED
  BY <1>1, <1>3, <1>4

LEMMA MkdirQuiet ==
    ASSUME PlainPaths, RefsOK(vol, fds), NEW path \in DirPaths, Mkdir(path)
    PROVE  Quiet({}, 0, 0)
<1> DEFINE r == MkdirIn(vol, Resolve(vol, Parent(path)), Last(path))
<1>1. Resolve(vol, path) = NoEntry /\ vol' = r.v
  BY DEF Mkdir, FsMkdir
<1>2. path \in Paths
  BY FilesAssumption
<1>3. PICK own : Tree(vol, own) /\ HeldAll(vol, own, fds)
  BY DEF RefsOK
<1>4. At(vol, path) = NoEntry
  BY <1>1, <1>2, <1>3, ResolveAt
<1>5. EntriesKept(vol, r.v, {}) /\ NoNewFiles(vol, r.v, 0) /\ FilesKept(vol, r.v, own, 0)
  BY <1>3, <1>4, MkdirRequest
<1> HIDE DEF r
<1> QED
  BY <1>1, <1>3, <1>5 DEF Quiet

-----------------------------------------------------------------------------
(* What write_file leaves along the chain.                                 *)

(* The unit i of what had the units u.                                     *)
OldUnit(u, i) == IF i <= Len(u) THEN u[i] ELSE Zero

(* The unit i of w after the loop has been through m sectors of what had   *)
(* the units u.                                                            *)
UnitOK(u, w, off, buf, m, i) ==
    /\ i <= off => w[i] = OldUnit(u, i)
    /\ i > m * Slots => w[i] = OldUnit(u, i)
    /\ i > off /\ i <= m * Slots /\ i <= off + Len(buf) => w[i] = buf[i - off]
    /\ i > off + Len(buf) => w[i] = OldUnit(u, i) \/ (buf # <<>> /\ w[i] = Zero)

UnitsOK(u, w, off, buf, m) ==
    Len(u) <= Len(w) /\ \A i \in 1 .. Len(w) : UnitOK(u, w, off, buf, m, i)

(* The loop is at the n-th cluster of the chain of h.                      *)
Along(u, h, s, off, buf, m) ==
    /\ s.n \in 1 .. Len(Chain(s.v, h)) /\ Chain(s.v, h)[s.n] = s.at
    /\ s.full => s.n = Len(Chain(s.v, h))
    /\ UnitsOK(u, Content(s.v, h), off, buf, m)

LEMMA Multiples ==
    ASSUME NEW a \in Nat, NEW b \in Nat
    PROVE  /\ a * Slots \in Nat /\ b * Slots \in Nat
           /\ (a + 1) * Slots = a * Slots + Slots
           /\ a <= b => a * Slots <= b * Slots
           /\ a < b => a * Slots + Slots <= b * Slots
BY VolumeNumbers

(* The units of a sector that a part of buf falls on.                      *)
LEMMA PatchedUnits ==
    ASSUME NEW old \in [1 .. Slots -> PlainUnits], NEW off \in Nat,
           NEW buf \in Seq(PlainUnits), NEW m \in Nat, m >= off \div Slots,
           NEW j \in 1 .. Slots, NEW x, x = Patched(old, off, buf, m + 1)[j],
           NEW i, i = m * Slots + j
    PROVE  /\ i <= off => x = old[j]
           /\ i > off /\ i <= off + Len(buf) => x = buf[i - off]
           /\ i > off + Len(buf) => x \in {old[j], Zero}
<1> DEFINE q == off \div Slots
           r == off % Slots
           base == m * Slots
           start == IF m + 1 = q + 1 THEN r ELSE 0
           l == Len(buf)
           end == Min({Slots, off + l - base})
<1>1. q \in Nat /\ r \in 0 .. Slots - 1 /\ q * Slots \in Nat /\ off = q * Slots + r
  BY Division
<1>2. Slots \in Nat /\ Slots >= 1 /\ l \in Nat /\ base \in Nat
  BY VolumeNumbers, Multiples
<1>3. q < m => q * Slots + Slots <= base
  BY <1>1, Multiples
<1>4. x = IF start < j /\ j <= end THEN buf[base + j - off]
          ELSE IF start > 0 THEN old[j] ELSE Zero
  <2>1. (m + 1 - 1) * Slots = base
    BY <1>2
  <2> QED
    BY <2>1 DEF Patched
<1>5. q <= m
  OBVIOUS
<1> DEFINE p == q * Slots
<1>6. q = m => p = base
  OBVIOUS
<1>7. /\ start \in Nat
      /\ (off = base + start) \/ (off < base /\ start = 0)
  <2>1. CASE q = m
    <3>1. start = r /\ p = base /\ off = p + r /\ r \in Nat
      BY <1>1, <1>6, <2>1
    <3> HIDE DEF p, r, base, start
    <3> QED
      BY <3>1
  <2>2. CASE q # m
    <3>1. start = 0 /\ p + Slots <= base /\ off = p + r /\ r \in Nat /\ r < Slots /\ p \in Nat
      BY <1>1, <1>2, <1>3, <1>5, <2>2
    <3> HIDE DEF p, r, base, start
    <3> QED
      BY <1>2, <3>1
  <2> QED
    BY <2>1, <2>2
<1>8. i = base + j
  OBVIOUS
<1> HIDE DEF q, r, p, base, start
<1>9. end = IF Slots <= off + l - base THEN Slots ELSE off + l - base
  <2> DEFINE z == off + l - base
  <2>1. z \in Int /\ Slots \in Int
    BY <1>2
  <2> HIDE DEF z
  <2>2. Min({Slots, z}) = IF Slots <= z THEN Slots ELSE z
    BY <2>1, MinTwo
  <2> QED
    BY <2>2 DEF z
<1> HIDE DEF l, end
<1>10. ASSUME i <= off PROVE x = old[j]
  <2>1. ~(start < j) /\ start > 0
    BY <1>2, <1>7, <1>8, <1>10
  <2> QED
    BY <1>4, <2>1
<1>11. ASSUME i > off, i <= off + l PROVE x = buf[i - off]
  <2>1. start < j /\ j <= end /\ base + j - off = i - off
    BY <1>2, <1>7, <1>8, <1>9, <1>11
  <2> QED
    BY <1>4, <2>1
<1>12. ASSUME i > off + l PROVE x \in {old[j], Zero}
  <2>1. ~(j <= end)
    BY <1>2, <1>7, <1>8, <1>9, <1>12
  <2> QED
    BY <1>4, <2>1
<1> QED
  BY <1>10, <1>11, <1>12 DEF l

(* What falls on the sector after the first m ones.                        *)
FallsOn(old, off, buf, m, sector) ==
    \A j \in 1 .. Slots :
        LET i == m * Slots + j
        IN  /\ i <= off => sector[j] = old[j]
            /\ i > off /\ i <= off + Len(buf) => sector[j] = buf[i - off]
            /\ i > off + Len(buf) => sector[j] \in {old[j], Zero}

LEMMA PatchedFalls ==
    ASSUME NEW old \in [1 .. Slots -> PlainUnits], NEW off \in Nat,
           NEW buf \in Seq(PlainUnits), NEW m \in Nat, m >= off \div Slots
    PROVE  FallsOn(old, off, buf, m, Patched(old, off, buf, m + 1))
BY PatchedUnits DEF FallsOn

(* Nothing falls on a sector before the offset, and nothing of an empty    *)
(* buffer anywhere.                                                        *)
LEMMA NothingFalls ==
    ASSUME NEW u, NEW w, NEW off \in Nat, NEW buf \in Seq(PlainUnits), NEW n \in Nat, n >= 1,
           UnitsOK(u, w, off, buf, n - 1), n <= off \div Slots \/ buf = <<>>
    PROVE  UnitsOK(u, w, off, buf, n)
<1> SUFFICES ASSUME NEW i \in 1 .. Len(w), UnitOK(u, w, off, buf, n - 1, i)
             PROVE  UnitOK(u, w, off, buf, n, i)
  BY DEF UnitsOK
<1> DEFINE q == off \div Slots
           a == n * Slots
           b == q * Slots
           c == (n - 1) * Slots
           l == Len(buf)
<1>1. q \in Nat /\ b \in Nat /\ b <= off
  <2>1. q \in Nat /\ b \in Nat /\ off % Slots \in Nat /\ off = b + (off % Slots)
    BY Division, VolumeNumbers
  <2> DEFINE r == off % Slots
  <2> HIDE DEF q, b, r
  <2> QED
    BY <2>1 DEF r
<1>2. a \in Nat /\ c \in Nat /\ c <= a /\ (n <= q => a <= b)
  <2>1. n - 1 \in Nat /\ n - 1 <= n
    OBVIOUS
  <2>2. a \in Nat /\ c \in Nat /\ c <= a
    BY <2>1, Multiples
  <2>3. n <= q => a <= b
    BY <1>1, Multiples
  <2> QED
    BY <2>2, <2>3
<1>3. i \in Nat /\ l \in Nat /\ (buf = <<>> => l = 0) /\ (n <= q \/ buf = <<>>)
  OBVIOUS
<1>4. /\ i <= off => w[i] = OldUnit(u, i)
      /\ i > c => w[i] = OldUnit(u, i)
      /\ i > off + l => w[i] = OldUnit(u, i) \/ (buf # <<>> /\ w[i] = Zero)
  BY DEF UnitOK
<1>5. (i > off /\ i <= a /\ i <= off + l) => FALSE
  <2> HIDE DEF q, a, b, c, l
  <2> QED
    BY <1>1, <1>2, <1>3
<1>6. i > a => i > c
  <2> HIDE DEF a, c
  <2> QED
    BY <1>2, <1>3
<1> QED
  BY <1>4, <1>5, <1>6 DEF UnitOK

LEMMA PutAlong ==
    ASSUME NEW u, NEW h \in Clusters, NEW s, NEW k, LoopState(s, k),
           s = [v |-> s.v, at |-> s.at, n |-> s.n, full |-> s.full],
           NEW own, Labelled(s.v, own), own[h] = h,
           NEW off \in Nat, NEW buf \in Seq(PlainUnits),
           Along(u, h, s, off, buf, IF s.full THEN s.n ELSE s.n - 1),
           NEW s2, s2 = Put(s, off, buf)
    PROVE  Along(u, h, s2, off, buf, s2.n)
<1>1. /\ s.v \in Volumes /\ s.at \in Clusters /\ s.n \in Nat /\ s.n >= 1
      /\ s.full \in BOOLEAN
  BY DEF LoopState
<1>2. CASE s.full
  <2>1. s2 = s
    BY <1>2 DEF Put
  <2> QED
    BY <1>2, <2>1
<1>3. CASE ~s.full /\ (s.n <= off \div Slots \/ buf = <<>>)
  <2>1. s2 = s
    BY <1>3 DEF Put
  <2>2. UnitsOK(u, Content(s.v, h), off, buf, s.n - 1)
    BY <1>3 DEF Along
  <2>3. UnitsOK(u, Content(s.v, h), off, buf, s.n)
    BY <1>1, <1>3, <2>2, NothingFalls
  <2> QED
    BY <1>3, <2>1, <2>3 DEF Along
<1>4. CASE ~s.full /\ ~(s.n <= off \div Slots \/ buf = <<>>)
  <2> DEFINE n == s.n
             m == n - 1
             old == s.v.data[s.at]
             sector == Patched(old, off, buf, n)
             x == WithSector(s.v, s.at, sector)
             ch == Chain(s.v, h)
             w == Content(s.v, h)
             w2 == Content(x, h)
  <2>1. s2 = [s EXCEPT !.v = x]
    BY <1>4 DEF Put, WithSector
  <2>2. s2 = [v |-> x, at |-> s.at, n |-> s.n, full |-> s.full]
    BY <2>1
  <2>3. old \in [1 .. Slots -> PlainUnits]
    BY <1>1, VolumesTyped
  <2>4. n > off \div Slots /\ off \div Slots \in Nat
    BY <1>1, <1>4, Division
  <2>5. sector \in [1 .. Slots -> PlainUnits]
    BY <1>1, <2>3, <2>4, PatchedFacts
  <2>6. m \in Nat /\ m + 1 = n /\ m >= off \div Slots
    <3> DEFINE q == off \div Slots
    <3> HIDE DEF q
    <3> QED
      BY <1>1, <2>4 DEF q
  <2>7. FallsOn(old, off, buf, m, sector)
    <3>1. sector = Patched(old, off, buf, m + 1)
      BY <2>6
    <3> HIDE DEF old, m, sector
    <3>2. FallsOn(old, off, buf, m, Patched(old, off, buf, m + 1))
      BY <2>3, <2>6, PatchedFalls
    <3> QED
      BY <3>1, <3>2
  <2> HIDE DEF sector
  <2>8. /\ x \in Volumes /\ x.fat = s.v.fat
        /\ \A d \in Clusters : x.data[d] = IF d = s.at THEN sector ELSE s.v.data[d]
    BY <1>1, <2>5, WithSectorFacts
  <2> HIDE DEF x
  <2>9. s2.v = x /\ s2.at = s.at /\ s2.n = s.n /\ s2.full = s.full
    BY <2>2
  <2>10. Labelled(x, own) /\ Chain(x, h) = ch
    <3>1. \A c \in Clusters : own[c] = h => x.fat[c] = s.v.fat[c]
      BY <2>8
    <3> QED
      BY <1>1, <2>8, <3>1, LabelledByFat, ChainFrame
  <2>11. /\ n \in 1 .. Len(ch) /\ ch[n] = s.at
         /\ UnitsOK(u, w, off, buf, m)
    BY <1>4 DEF Along
  <2>12. /\ Len(ch) \in Nat
         /\ \A j, i \in 1 .. Len(ch) : ch[j] = ch[i] => j = i
    BY <1>1, ChainFacts
  <2> DEFINE size == Len(ch) * Slots
  <2>13. /\ Len(w) = size /\ size \in Nat
         /\ \A i \in 1 .. size :
              /\ SectorOf(i) \in 1 .. Len(ch) /\ SlotOf(i) \in 1 .. Slots
              /\ ch[SectorOf(i)] \in Clusters
              /\ w[i] = s.v.data[ch[SectorOf(i)]][SlotOf(i)]
    BY <1>1, ContentIs
  <2>14. /\ Len(w2) = size
         /\ \A i \in 1 .. size : w2[i] = x.data[ch[SectorOf(i)]][SlotOf(i)]
    BY <2>8, <2>10, ContentIs
  <2>15. Len(u) <= Len(w) /\ \A i \in 1 .. size : UnitOK(u, w, off, buf, m, i)
    BY <2>11, <2>13 DEF UnitsOK
  <2>24. buf # <<>>
    BY <1>4
  <2>16. ASSUME NEW i \in 1 .. size PROVE UnitOK(u, w2, off, buf, n, i)
    <3> DEFINE k1 == SectorOf(i)
               j == SlotOf(i)
               l == Len(buf)
               a == m * Slots
               b == n * Slots
               c == (k1 - 1) * Slots
    <3>1. /\ k1 \in 1 .. Len(ch) /\ j \in 1 .. Slots /\ i = c + j
          /\ w[i] = s.v.data[ch[k1]][j] /\ w2[i] = x.data[ch[k1]][j]
          /\ ch[k1] \in Clusters
      BY <2>12, <2>13, <2>14, <2>16, Positions
    <3>2. UnitOK(u, w, off, buf, m, i)
      BY <2>15
    <3>3. /\ i <= off => w[i] = OldUnit(u, i)
          /\ i > a => w[i] = OldUnit(u, i)
          /\ i > off /\ i <= a /\ i <= off + l => w[i] = buf[i - off]
          /\ i > off + l => w[i] = OldUnit(u, i) \/ (buf # <<>> /\ w[i] = Zero)
      BY <3>2 DEF UnitOK
    <3>4. a \in Nat /\ b \in Nat /\ b = a + Slots /\ Slots \in Nat /\ Slots >= 1
      BY <1>1, <2>6, Multiples, VolumeNumbers
    <3>5. SUFFICES /\ i <= off => w2[i] = OldUnit(u, i)
                   /\ i > b => w2[i] = OldUnit(u, i)
                   /\ i > off /\ i <= b /\ i <= off + l => w2[i] = buf[i - off]
                   /\ i > off + l => w2[i] = OldUnit(u, i) \/ (buf # <<>> /\ w2[i] = Zero)
      BY DEF UnitOK
    <3>6. CASE k1 = n
      <4>1. c = a
        BY <3>6
      <4>2. w[i] = old[j] /\ w2[i] = sector[j]
        BY <2>8, <2>11, <3>1, <3>6
      <4>3. i > a /\ i <= b /\ i = a + j
        <5> HIDE DEF a, b, c, j
        <5> QED
          BY <3>1, <3>4, <4>1
      <4>4. /\ i <= off => w2[i] = old[j]
            /\ i > off /\ i <= off + l => w2[i] = buf[i - off]
            /\ i > off + l => w2[i] \in {old[j], Zero}
        BY <2>7, <3>1, <4>2, <4>3 DEF FallsOn
      <4>5. old[j] = OldUnit(u, i)
        BY <3>3, <4>2, <4>3
      <4>6. ~(i > b)
        <5> HIDE DEF a, b
        <5> QED
          BY <3>4, <4>3
      <4> HIDE DEF w, w2, old, j, l, a, b
      <4> QED
        BY <2>24, <4>4, <4>5, <4>6
    <3>7. CASE k1 # n
      <4>1. ch[k1] # s.at
        BY <2>11, <2>12, <3>1, <3>7
      <4>2. w2[i] = w[i]
        BY <2>8, <3>1, <4>1
      <4>3. i <= a \/ i > b
        <5>1. k1 - 1 \in Nat /\ k1 \in Nat
          BY <2>12, <3>1
        <5>2. CASE k1 < n
          <6>1. k1 - 1 < m
            BY <1>1, <5>1, <5>2
          <6>2. c + Slots <= a /\ c \in Nat
            BY <2>6, <5>1, <6>1, Multiples
          <6> HIDE DEF a, b, c, j
          <6> QED
            BY <3>1, <3>4, <6>2
        <5>3. CASE k1 > n
          <6>1. n <= k1 - 1
            BY <1>1, <5>1, <5>3
          <6>2. b <= c /\ c \in Nat
            BY <1>1, <5>1, <6>1, Multiples
          <6> HIDE DEF a, b, c, j
          <6> QED
            BY <3>1, <3>4, <6>2
        <5> QED
          BY <1>1, <3>7, <5>1, <5>2, <5>3
      <4>4. i > b => i > a
        <5> HIDE DEF a, b
        <5> QED
          BY <3>4
      <4>5. i > off /\ i <= b => i <= a
        <5> HIDE DEF a, b
        <5> QED
          BY <3>4, <4>3
      <4> HIDE DEF w, w2, l, a, b
      <4> QED
        BY <3>3, <4>2, <4>4, <4>5
    <3> QED
      BY <3>6, <3>7
  <2>17. UnitsOK(u, w2, off, buf, n)
    BY <2>13, <2>14, <2>15, <2>16 DEF UnitsOK
  <2> QED
    BY <1>4, <2>9, <2>10, <2>11, <2>17 DEF Along
<1> QED
  BY <1>1, <1>2, <1>3, <1>4

(* The chain ends where the table does not go on.                          *)
LEMMA ChainGoesOn ==
    ASSUME NEW v \in Volumes, NEW own, Labelled(v, own), NEW h \in Clusters, own[h] = h,
           NEW n \in 1 .. Len(Chain(v, h))
    PROVE  /\ Continues(v, Chain(v, h)[n]) =>
                 /\ n + 1 \in 1 .. Len(Chain(v, h))
                 /\ Chain(v, h)[n + 1] = v.fat[Chain(v, h)[n]]
           /\ ~Continues(v, Chain(v, h)[n]) => n = Len(Chain(v, h))
<1> DEFINE s == Chain(v, h)
           l == Len(s)
<1>1. IsChain(v, h, s)
  BY ChainIs, VolumesTyped
<1>2. l \in Nat /\ l >= 1 /\ v.fat[Last(s)] = Eoc
  BY ChainFacts
<1>3. \A k \in 1 .. l - 1 : Continues(v, s[k]) /\ s[k + 1] = v.fat[s[k]]
  BY <1>1 DEF IsChain
<1>4. ~Continues(v, s[l])
  BY <1>2, VolumeNumbers DEF Last, Continues
<1> HIDE DEF s, l
<1>5. n \in 1 .. l
  BY DEF s, l
<1>6. CASE n = l
  BY <1>4, <1>6 DEF s, l
<1>7. CASE n # l
  <2>1. n \in 1 .. l - 1 /\ n + 1 \in 1 .. l
    BY <1>2, <1>5, <1>7
  <2> QED
    BY <1>3, <2>1 DEF s, l
<1> QED
  BY <1>6, <1>7

(* One cluster more at the end of the chain has units of zeros.            *)
LEMMA GrownContent ==
    ASSUME NEW v \in Volumes, NEW own, Labelled(v, own), NEW h \in Clusters, own[h] = h,
           CanAlloc(v), NEW g, g = Grow(v, Last(Chain(v, h))),
           NEW own2, Labelled(g, own2), own2[h] = h
    PROVE  /\ Len(Chain(g, h)) = Len(Chain(v, h)) + 1
           /\ Chain(g, h)[Len(Chain(v, h)) + 1] = NewCluster(v)
           /\ Len(Content(v, h)) \in Nat /\ Len(Content(g, h)) \in Nat
           /\ Len(Content(v, h)) = Len(Chain(v, h)) * Slots
           /\ Len(Content(g, h)) = Len(Content(v, h)) + Slots
           /\ \A i \in 1 .. Len(Content(g, h)) :
                 Content(g, h)[i] = OldUnit(Content(v, h), i)
<1> DEFINE s == Chain(v, h)
           t == Chain(g, h)
           n == NewCluster(v)
           last == Last(s)
           w == Content(v, h)
           w2 == Content(g, h)
           l == Len(s)
           size == l * Slots
           size2 == Len(t) * Slots
<1>1. /\ s \in Seq(Clusters) /\ l \in Nat /\ l >= 1
      /\ \A k \in 1 .. l : s[k] \in Clusters /\ own[s[k]] = h
  BY ChainFacts
<1>2. last \in Clusters
  BY <1>1 DEF Last
<1>3. n \in Clusters /\ v.fat[n] = Free
  BY NewClusterFacts
<1>4. own[n] # h
  BY <1>3, VolumeNumbers DEF Labelled
<1>5. t = Append(s, n)
  BY ChainGrown
<1>6. /\ g \in Volumes
      /\ \A c \in Clusters : g.data[c] = IF c = n THEN ZeroSector ELSE v.data[c]
  BY <1>2, GrowFacts
<1>7. /\ Len(w) = size /\ size \in Nat
      /\ \A i \in 1 .. size :
            /\ SectorOf(i) \in 1 .. l /\ SlotOf(i) \in 1 .. Slots
            /\ w[i] = v.data[s[SectorOf(i)]][SlotOf(i)]
  BY ContentIs
<1>8. /\ Len(w2) = size2 /\ size2 \in Nat
      /\ \A i \in 1 .. size2 :
            /\ SectorOf(i) \in 1 .. Len(t) /\ SlotOf(i) \in 1 .. Slots
            /\ w2[i] = g.data[t[SectorOf(i)]][SlotOf(i)]
  BY <1>6, ContentIs
<1> HIDE DEF s, t, n, last
<1>9. /\ Len(t) = l + 1 /\ t[l + 1] = n /\ \A k \in 1 .. l : t[k] = s[k]
  BY <1>1, <1>3, <1>5, AppendProperties
<1>10. size2 = size + Slots
  BY <1>1, <1>9, Multiples
<1> HIDE DEF l, w, w2
<1>11. ASSUME NEW i \in 1 .. size2 PROVE w2[i] = OldUnit(w, i)
  <2> DEFINE k == SectorOf(i)
             j == SlotOf(i)
  <2>1. k \in 1 .. l + 1 /\ j \in 1 .. Slots /\ w2[i] = g.data[t[k]][j]
    BY <1>8, <1>9, <1>11
  <2>2. CASE i \in 1 .. size
    <3>1. k \in 1 .. l /\ w[i] = v.data[s[k]][j]
      BY <1>7, <2>2
    <3>2. t[k] = s[k] /\ s[k] \in Clusters /\ s[k] # n
      BY <1>1, <1>4, <1>9, <3>1
    <3>3. w2[i] = w[i]
      BY <1>6, <2>1, <3>1, <3>2
    <3>4. i <= Len(w)
      BY <1>7, <2>2
    <3> QED
      BY <3>3, <3>4 DEF OldUnit
  <2>3. CASE ~(i \in 1 .. size)
    <3>1. i > size /\ i \in Nat
      <4> HIDE DEF size, size2
      <4> QED
        BY <1>7, <1>8, <2>3
    <3>2. k = l + 1
      <4>1. i = (k - 1) * Slots + j
        BY <1>1, <1>8, <1>9, <1>11, Positions
      <4>2. ASSUME k <= l PROVE FALSE
        <5>1. k - 1 \in Nat /\ k - 1 < l
          BY <1>1, <2>1, <4>2
        <5>2. (k - 1) * Slots + Slots <= size /\ (k - 1) * Slots \in Nat
          BY <1>1, <5>1, Multiples
        <5> DEFINE c == (k - 1) * Slots
        <5> HIDE DEF c, j, size
        <5> QED
          BY <1>7, <2>1, <3>1, <4>1, <5>2, VolumeNumbers DEF c
      <4> QED
        BY <1>1, <2>1, <4>2
    <3>3. w2[i] = ZeroSector[j]
      BY <1>3, <1>6, <1>9, <2>1, <3>2
    <3>4. w2[i] = Zero
      BY <2>1, <3>3 DEF ZeroSector
    <3>5. ~(i <= Len(w))
      <4> HIDE DEF size
      <4> QED
        BY <1>7, <3>1
    <3> QED
      BY <3>4, <3>5 DEF OldUnit
  <2> QED
    BY <2>2, <2>3
<1> QED
  BY <1>7, <1>8, <1>9, <1>10, <1>11 DEF l, s, t, n, w, w2

(* What is zero or old in a longer file is so in the file itself.          *)
LEMMA UnitsLonger ==
    ASSUME NEW u, Len(u) \in Nat, NEW w, Len(w) \in Nat, NEW w2, Len(w2) \in Nat,
           NEW off \in Nat, NEW buf \in Seq(PlainUnits), NEW m \in Nat,
           UnitsOK(u, w, off, buf, m), m * Slots <= Len(w),
           Len(w) <= Len(w2), \A i \in 1 .. Len(w2) : w2[i] = OldUnit(w, i)
    PROVE  UnitsOK(u, w2, off, buf, m)
<1> DEFINE a == m * Slots
<1>1. Len(u) <= Len(w) /\ a \in Nat /\ a <= Len(w)
  BY Multiples DEF UnitsOK
<1>2. Len(u) <= Len(w2)
  BY <1>1
<1>3. ASSUME NEW i \in 1 .. Len(w2) PROVE UnitOK(u, w2, off, buf, m, i)
  <2>1. CASE i \in 1 .. Len(w)
    <3>1. UnitOK(u, w, off, buf, m, i)
      BY <2>1 DEF UnitsOK
    <3>2. w2[i] = w[i]
      BY <1>3, <2>1 DEF OldUnit
    <3> QED
      BY <3>1, <3>2 DEF UnitOK
  <2>2. CASE ~(i \in 1 .. Len(w))
    <3>1. i > Len(w) /\ i \in Nat
      BY <1>3, <2>2
    <3>2. w2[i] = Zero /\ OldUnit(u, i) = Zero
      BY <1>1, <1>3, <3>1 DEF OldUnit
    <3>3. ~(i <= a)
      <4> HIDE DEF a
      <4> QED
        BY <1>1, <3>1
    <3> QED
      BY <3>2, <3>3 DEF UnitOK
  <2> QED
    BY <2>1, <2>2
<1> QED
  BY <1>2, <1>3 DEF UnitsOK

LEMMA ArriveAlong ==
    ASSUME NEW v, NEW own, NEW h \in Clusters, own[h] = h, NEW u, Len(u) \in Nat,
           NEW s, NEW k \in Nat, LoopOK(v, own, h, s, k),
           NEW off \in Nat, NEW buf \in Seq(PlainUnits), Along(u, h, s, off, buf, s.n),
           NEW s2, s2 = Arrive(s), LoopOK(v, own, h, s2, k + 1)
    PROVE  Along(u, h, s2, off, buf, IF s2.full THEN s2.n ELSE s2.n - 1)
<1>1. /\ s.v \in Volumes /\ s.at \in Clusters /\ s.n \in Nat /\ s.n >= 1
      /\ s.full \in BOOLEAN
      /\ s = [v |-> s.v, at |-> s.at, n |-> s.n, full |-> s.full]
  BY DEF LoopOK, LoopState
<1>2. PICK own2 : Labelled(s.v, own2) /\ own2[h] = h
  BY VolumeNumbers DEF LoopOK, LoopLabels, Keeps
<1>3. /\ s.n \in 1 .. Len(Chain(s.v, h)) /\ Chain(s.v, h)[s.n] = s.at
      /\ s.full => s.n = Len(Chain(s.v, h))
      /\ UnitsOK(u, Content(s.v, h), off, buf, s.n)
  BY DEF Along
<1>4. CASE s.full
  <2>1. s2 = s
    BY <1>4 DEF Arrive
  <2> QED
    BY <1>4, <2>1
<1>5. CASE ~s.full /\ Continues(s.v, s.at)
  <2>1. s2 = [v |-> s.v, at |-> s.v.fat[s.at], n |-> s.n + 1, full |-> s.full]
    BY <1>1, <1>5 DEF Arrive
  <2>2. s2.v = s.v /\ s2.at = s.v.fat[s.at] /\ s2.n = s.n + 1 /\ s2.full = s.full
    BY <2>1
  <2>3. s.n + 1 \in 1 .. Len(Chain(s.v, h)) /\ Chain(s.v, h)[s.n + 1] = s.v.fat[s.at]
    BY <1>1, <1>2, <1>3, <1>5, ChainGoesOn
  <2>4. s2.n - 1 = s.n
    BY <1>1, <2>2
  <2> QED
    BY <1>3, <1>5, <2>2, <2>3, <2>4 DEF Along
<1>6. CASE ~s.full /\ ~Continues(s.v, s.at) /\ CanAlloc(s.v)
  <2> DEFINE g == Grow(s.v, s.at)
             n == NewCluster(s.v)
             w == Content(s.v, h)
             w2 == Content(g, h)
             l == Len(Chain(s.v, h))
  <2>1. s2 = [v |-> g, at |-> n, n |-> s.n + 1, full |-> s.full]
    BY <1>1, <1>6 DEF Arrive
  <2>2. s2.v = g /\ s2.at = n /\ s2.n = s.n + 1 /\ s2.full = s.full
    BY <2>1
  <2>3. s.n = l /\ s.at = Last(Chain(s.v, h))
    BY <1>1, <1>2, <1>3, <1>6, ChainGoesOn DEF Last
  <2>4. PICK own3 : Labelled(g, own3) /\ own3[h] = h
    BY <2>2, VolumeNumbers DEF LoopOK, LoopLabels, Keeps
  <2>5. g = Grow(s.v, Last(Chain(s.v, h)))
    BY <2>3
  <2> HIDE DEF g
  <2>6. /\ Len(Chain(g, h)) = l + 1 /\ Chain(g, h)[l + 1] = n
        /\ Len(w) \in Nat /\ Len(w2) \in Nat
        /\ Len(w) = l * Slots /\ Len(w2) = Len(w) + Slots
        /\ \A i \in 1 .. Len(w2) : w2[i] = OldUnit(w, i)
    BY <1>1, <1>2, <1>6, <2>4, <2>5, GrownContent
  <2> HIDE DEF n, w, w2
  <2>7. Len(w) <= Len(w2) /\ s.n * Slots <= Len(w)
    <3>1. Len(w) <= Len(w2)
      <4> DEFINE x == Len(w)
                 y == Len(w2)
      <4>1. x \in Nat /\ y = x + Slots /\ Slots \in Nat
        BY <2>6, VolumeNumbers
      <4> HIDE DEF x, y
      <4>2. x <= y
        BY <4>1
      <4> QED
        BY <4>2 DEF x, y
    <3>2. s.n * Slots = Len(w)
      BY <2>3, <2>6
    <3> QED
      BY <2>6, <3>1, <3>2
  <2>8. UnitsOK(u, w, off, buf, s.n)
    BY <1>3 DEF w
  <2>9. UnitsOK(u, w2, off, buf, s.n)
    BY <1>1, <2>6, <2>7, <2>8, UnitsLonger
  <2>10. s2.n - 1 = s.n /\ s2.n \in 1 .. Len(Chain(g, h))
    BY <1>1, <2>2, <2>3, <2>6
  <2>11. Chain(g, h)[s2.n] = s2.at
    BY <2>2, <2>3, <2>6
  <2> QED
    BY <1>6, <2>2, <2>9, <2>10, <2>11 DEF Along, w2
<1>7. CASE ~s.full /\ ~Continues(s.v, s.at) /\ ~CanAlloc(s.v)
  <2>1. s2 = [v |-> s.v, at |-> s.at, n |-> s.n, full |-> TRUE]
    BY <1>1, <1>7 DEF Arrive
  <2>2. s2.v = s.v /\ s2.at = s.at /\ s2.n = s.n /\ s2.full = TRUE
    BY <2>1
  <2>3. s.n = Len(Chain(s.v, h))
    BY <1>1, <1>2, <1>3, <1>7, ChainGoesOn
  <2> QED
    BY <1>3, <2>2, <2>3 DEF Along
<1> QED
  BY <1>1, <1>4, <1>5, <1>6, <1>7

LEMMA LoopAlong ==
    ASSUME NEW v \in Volumes, NEW own, Labelled(v, own), NEW h \in Clusters, own[h] = h,
           NEW off \in Nat, NEW buf \in Seq(PlainUnits), NEW n \in Nat, n >= 1,
           NEW f, IsLoop(v, h, off, buf, f, n)
    PROVE  LoopOK(v, own, h, f[n], n) /\ Along(Content(v, h), h, f[n], off, buf, f[n].n)
<1> DEFINE s0 == [v |-> v, at |-> h, n |-> 1, full |-> FALSE]
           u == Content(v, h)
           Good(k) == LoopOK(v, own, h, f[k], k) /\ Along(u, h, f[k], off, buf, f[k].n)
           D == {k \in 1 .. n : Good(k)}
<1>1. f[1] = Put(s0, off, buf)
  BY DEF IsLoop, FirstPut
<1>0. Len(u) \in Nat
  BY ContentIs
<1>2. LoopOK(v, own, h, s0, 1) /\ Along(u, h, s0, off, buf, 0)
  <2>1. s0.v = v /\ s0.at = h /\ s0.n = 1 /\ s0.full = FALSE
    OBVIOUS
  <2>2. LoopState(s0, 1)
    BY <2>1 DEF LoopState
  <2>3. Keeps(v, v, own, own, h)
    BY DEF Keeps
  <2>4. LoopLabels(v, own, h, s0)
    BY <2>1, <2>3 DEF LoopLabels
  <2>5. IsChain(v, h, Chain(v, h)) /\ Len(Chain(v, h)) \in Nat /\ Len(Chain(v, h)) >= 1
    BY VolumesTyped, ChainIs, ChainFacts
  <2>6. 1 \in 1 .. Len(Chain(v, h)) /\ Chain(v, h)[1] = h
    BY <2>5 DEF IsChain
  <2> HIDE DEF u
  <2>7. UnitsOK(u, u, off, buf, 0)
    <3>1. ASSUME NEW i \in 1 .. Len(u) PROVE UnitOK(u, u, off, buf, 0, i)
      <4>1. OldUnit(u, i) = u[i] /\ i > 0 /\ 0 * Slots = 0 /\ i \in Nat
        BY <1>0, VolumeNumbers DEF OldUnit
      <4> QED
        BY <4>1 DEF UnitOK
    <3> QED
      BY <1>0, <3>1 DEF UnitsOK
  <2> QED
    BY <2>1, <2>2, <2>4, <2>6, <2>7 DEF LoopOK, Along, u
<1>3. ASSUME NEW s, NEW k \in Nat, LoopOK(v, own, h, s, k),
             Along(u, h, s, off, buf, IF s.full THEN s.n ELSE s.n - 1),
             NEW s2, s2 = Put(s, off, buf)
      PROVE  LoopOK(v, own, h, s2, k) /\ Along(u, h, s2, off, buf, s2.n)
  <2>1. LoopOK(v, own, h, s2, k)
    BY <1>3, PutStep
  <2>2. LoopState(s, k) /\ s = [v |-> s.v, at |-> s.at, n |-> s.n, full |-> s.full]
    BY <1>3 DEF LoopOK
  <2>3. PICK own2 : Labelled(s.v, own2) /\ own2[h] = h
    BY <1>3, VolumeNumbers DEF LoopOK, LoopLabels, Keeps
  <2> HIDE DEF u
  <2>4. Along(u, h, s2, off, buf, s2.n)
    BY <1>3, <2>2, <2>3, PutAlong
  <2> QED
    BY <2>1, <2>4
<1> HIDE DEF u
<1>4. Good(1)
  <2>1. s0.full = FALSE /\ s0.n - 1 = 0
    OBVIOUS
  <2>2. Along(u, h, s0, off, buf, IF s0.full THEN s0.n ELSE s0.n - 1)
    BY <1>2, <2>1
  <2> HIDE DEF s0
  <2> QED
    BY <1>1, <1>2, <1>3, <2>2
<1> HIDE DEF s0
<1>5. ASSUME NEW k \in 1 .. n - 1, Good(k) PROVE Good(k + 1)
  <2>1. f[k + 1] = Put(Arrive(f[k]), off, buf)
    BY DEF IsLoop
  <2>2. k \in Nat /\ k + 1 \in Nat
    OBVIOUS
  <2> DEFINE s == f[k]
             t == Arrive(s)
  <2>3. LoopOK(v, own, h, t, k + 1)
    BY <1>5, <2>2, ArriveStep
  <2> HIDE DEF t
  <2>4. Along(u, h, t, off, buf, IF t.full THEN t.n ELSE t.n - 1)
    BY <1>0, <1>5, <2>2, <2>3, ArriveAlong DEF t
  <2> QED
    BY <1>3, <2>1, <2>2, <2>3, <2>4 DEF t
<1>6. 1 \in D
  BY <1>4
<1>7. \A k \in 1 .. n - 1 : k \in D => k + 1 \in D
  BY <1>5
<1> HIDE DEF D
<1>8. 1 .. n \subseteq D
  BY <1>6, <1>7, CountUp
<1> QED
  BY <1>8 DEF D, u

(* The end of the sector that unit n lies in.                              *)
EndOfSector(n) == ((n + Slots - 1) \div Slots) * Slots

LEMMA EndOfSectorIs ==
    ASSUME NEW n \in Nat
    PROVE  /\ EndOfSector(n) \in Nat /\ EndOfSector(n) >= n
           /\ n >= 1 => EndOfSector(n) = ((n - 1) \div Slots + 1) * Slots
<1> DEFINE y == n + Slots - 1
           q == y \div Slots
           r == y % Slots
           c == q * Slots
<1>1. Slots \in Nat /\ Slots >= 1
  BY VolumeNumbers
<1>2. y \in Nat
  BY <1>1
<1>3. c \in Nat /\ r \in 0 .. Slots - 1 /\ y = c + r /\ q \in Nat
  BY <1>2, Division
<1>4. c >= n
  <2> HIDE DEF c, r, q
  <2> QED
    BY <1>1, <1>3
<1>5. ASSUME n >= 1 PROVE q = (n - 1) \div Slots + 1
  <2> DEFINE k == (n - 1) \div Slots
             d == k * Slots
             t == (n - 1) % Slots
  <2>1. n - 1 \in Nat
    BY <1>5
  <2>2. k \in Nat /\ d \in Nat /\ t \in 0 .. Slots - 1 /\ n - 1 = d + t
    BY <2>1, Division
  <2>3. (k + 1) * Slots = d + Slots
    BY <2>2, Multiples
  <2>4. q < k + 1 => c + Slots <= (k + 1) * Slots
    BY <1>3, <2>2, Multiples
  <2>5. k + 1 < q => (k + 1) * Slots + Slots <= c
    BY <1>3, <2>2, Multiples
  <2> DEFINE z == (k + 1) * Slots
  <2> HIDE DEF z, d, t, c, r
  <2>6. ~(c + Slots <= d + Slots) /\ ~(d + Slots + Slots <= c)
    BY <1>1, <1>3, <2>2
  <2>7. z = d + Slots /\ (q < k + 1 => c + Slots <= z) /\ (k + 1 < q => z + Slots <= c)
    BY <2>3, <2>4, <2>5 DEF z
  <2> HIDE DEF q, k
  <2>8. q = k + 1
    BY <1>3, <2>2, <2>6, <2>7
  <2> QED
    BY <2>8 DEF k
<1> QED
  BY <1>3, <1>4, <1>5 DEF EndOfSector

(* What has the units w after a write at off, of as much of buf as goes up *)
(* to end, to what had the units u.                                        *)
Stored(u, w, off, buf, end) ==
    /\ Len(u) <= Len(w)
    /\ end <= Len(w) \/ end = off
    /\ \A i \in 1 .. Len(w) :
          /\ i <= off => w[i] = OldUnit(u, i)
          /\ off < i /\ i <= end => w[i] = buf[i - off]
          /\ i > end => w[i] = OldUnit(u, i) \/ w[i] = Zero
          /\ i > EndOfSector(end) => w[i] = OldUnit(u, i)

(* The cluster of the last unit of a write.                                *)
LEMMA NeededIs ==
    ASSUME NEW off \in Nat, NEW buf \in Seq(PlainUnits), NEW n, n = NeededFor(off, buf),
           NEW x, x = IF buf = <<>> THEN off ELSE off + Len(buf) - 1
    PROVE  /\ x \in Nat /\ n - 1 = x \div Slots /\ n \in Nat /\ n >= 1
           /\ (n - 1) * Slots \in Nat /\ n * Slots = (n - 1) * Slots + Slots
           /\ (n - 1) * Slots <= x /\ x < n * Slots
<1> DEFINE l == Len(buf)
           q == x \div Slots
           r == x % Slots
           c == q * Slots
<1>1. l \in Nat /\ (buf = <<>> <=> l = 0)
  BY EmptySeq
<1>2. Max({off, off + l - 1}) = x /\ x \in Nat
  BY <1>1, MaxTwo
<1>3. q \in Nat /\ c \in Nat /\ r \in 0 .. Slots - 1 /\ x = c + r /\ Slots \in Nat
  BY <1>2, Division, VolumeNumbers
<1>4. n = q + 1
  BY <1>2 DEF NeededFor
<1>5. n - 1 = q /\ n * Slots = c + Slots /\ n \in Nat /\ n >= 1
  <2>1. (q + 1) * Slots = c + Slots
    BY <1>3, Multiples
  <2> HIDE DEF q
  <2>2. n - 1 = q /\ n \in Nat /\ n >= 1
    BY <1>3, <1>4
  <2>3. n * Slots = c + Slots
    BY <1>4, <2>1
  <2> QED
    BY <2>2, <2>3
<1>6. c <= x /\ x < c + Slots
  <2> HIDE DEF c, r, q
  <2> QED
    BY <1>3
<1> QED
  BY <1>2, <1>3, <1>5, <1>6

LEMMA UnitsStored ==
    ASSUME NEW u, NEW w, Len(w) \in Nat, NEW off \in Nat, NEW buf \in Seq(PlainUnits),
           NEW m \in Nat, UnitsOK(u, w, off, buf, m), m * Slots <= Len(w),
           NEW n, n = NeededFor(off, buf), NEW full \in BOOLEAN,
           ~full => m = n, full => m < n /\ m * Slots = Len(w),
           NEW end, end = off + (IF ~full THEN Len(buf) ELSE Max({0, m * Slots - off}))
    PROVE  end \in Nat /\ Stored(u, w, off, buf, end)
<1> DEFINE x == IF buf = <<>> THEN off ELSE off + Len(buf) - 1
           l == Len(buf)
           a == n * Slots
           c == (n - 1) * Slots
           y == m * Slots
           z == Len(w)
<1>1. x \in Nat /\ n \in Nat /\ c \in Nat /\ a = c + Slots /\ c <= x /\ x < a /\ Slots \in Nat
      /\ n >= 1
  BY NeededIs, VolumeNumbers
<1>2. l \in Nat /\ (buf = <<>> <=> l = 0) /\ z \in Nat /\ y \in Nat /\ y <= z
  BY EmptySeq, Multiples
<1>3. x = IF l = 0 THEN off ELSE off + l - 1
  BY <1>2
<1>4. Len(u) <= Len(w) /\ \A i \in 1 .. z : UnitOK(u, w, off, buf, m, i)
  BY DEF UnitsOK
<1>5. ASSUME NEW i \in 1 .. z
      PROVE  /\ i <= off => w[i] = OldUnit(u, i)
             /\ i > y => w[i] = OldUnit(u, i)
             /\ i > off /\ i <= y /\ i <= off + l => w[i] = buf[i - off]
             /\ i > off + l => w[i] = OldUnit(u, i) \/ (l # 0 /\ w[i] = Zero)
  BY <1>2, <1>4 DEF UnitOK
<1>6. CASE ~full
  <2>1. y = a /\ end = off + l
    BY <1>6
  <2>2. x = off + l - 1 \/ (l = 0 /\ x = off)
    BY <1>3
  <2>3. EndOfSector(end) \in Nat /\ EndOfSector(end) >= end /\ (l # 0 => EndOfSector(end) = a)
    <3>1. end \in Nat
      BY <1>2, <2>1
    <3>2. l # 0 => end >= 1 /\ end - 1 = x
      BY <1>2, <1>3, <2>1
    <3>3. x \div Slots + 1 = n
      <4>1. n - 1 = x \div Slots
        BY NeededIs
      <4> DEFINE q == x \div Slots
      <4> HIDE DEF q, x
      <4>2. n - 1 = q
        BY <4>1 DEF q
      <4>3. q + 1 = n
        BY <1>1, <4>2
      <4> QED
        BY <4>3 DEF q
    <3> HIDE DEF x
    <3> QED
      BY <3>1, <3>2, <3>3, EndOfSectorIs
  <2> DEFINE es == EndOfSector(end)
  <2> HIDE DEF x, l, a, c, y, es
  <2>4. end \in Nat /\ (end <= z \/ end = off)
    <3> HIDE DEF z
    <3> QED
      BY <1>1, <1>2, <1>3, <2>1
  <2>5. ASSUME NEW i \in 1 .. z
        PROVE  /\ i <= off => w[i] = OldUnit(u, i)
               /\ off < i /\ i <= end => w[i] = buf[i - off]
               /\ i > end => w[i] = OldUnit(u, i) \/ w[i] = Zero
               /\ i > es => w[i] = OldUnit(u, i)
    <3>1. off < i /\ i <= end => i <= y /\ i <= off + l
      <4> HIDE DEF z
      <4> QED
        BY <1>1, <1>2, <1>3, <2>1
    <3>2. i > es => i > y \/ (l = 0 /\ i > off + l)
      <4> HIDE DEF z
      <4> QED
        BY <1>1, <1>2, <2>1, <2>3 DEF es
    <3> QED
      BY <1>5, <2>1, <3>1, <3>2
  <2> QED
    BY <1>4, <2>4, <2>5 DEF Stored, es
<1>7. CASE full
  <2> DEFINE d == y - off
  <2>1. end = off + (IF 0 >= d THEN 0 ELSE d) /\ y = z
    <3>1. d \in Int
      BY <1>2
    <3>2. Max({0, d}) = IF 0 >= d THEN 0 ELSE d
      BY <3>1, MaxTwo
    <3> QED
      BY <1>7, <3>2
  <2>2. y <= c
    <3>1. n - 1 \in Nat /\ m <= n - 1
      BY <1>1, <1>7, SMTT(30)
    <3> QED
      BY <3>1, Multiples
  <2> HIDE DEF x, l, a, c, y
  <2>3. end \in Nat /\ (y <= off => end = off) /\ (y > off => end = y)
    BY <1>2, <2>1
  <2>4. EndOfSector(end) >= end /\ EndOfSector(end) \in Nat
    BY <2>3, EndOfSectorIs
  <2>5. end >= z /\ (end <= z \/ end = off)
    <3> HIDE DEF z
    <3> QED
      BY <1>2, <2>1, <2>3
  <2>6. ASSUME NEW i \in 1 .. z
        PROVE  /\ i <= off => w[i] = OldUnit(u, i)
               /\ off < i /\ i <= end => w[i] = buf[i - off]
               /\ ~(i > end) /\ ~(i > EndOfSector(end))
    <3>1. ~(i > end) /\ ~(i > EndOfSector(end))
      <4> DEFINE es == EndOfSector(end)
      <4> HIDE DEF z, es
      <4> QED
        BY <1>2, <2>3, <2>4, <2>5 DEF es
    <3>2. off < i => i <= y /\ i <= off + l
      <4> HIDE DEF z
      <4> QED
        BY <1>1, <1>2, <1>3, <2>1, <2>2
    <3> QED
      BY <1>5, <3>1, <3>2
  <2> QED
    BY <1>4, <2>3, <2>5, <2>6 DEF Stored
<1> QED
  BY <1>6, <1>7

(* write_file, on the chain of h.                                          *)
LEMMA WriteStores ==
    ASSUME NEW v \in Volumes, NEW own, Labelled(v, own), NEW h \in Clusters, own[h] = h,
           NEW off \in Nat, NEW buf \in Seq(PlainUnits),
           NEW r, r = WriteFile(v, h, off, buf)
    PROVE  /\ off + r.written \in Nat
           /\ Stored(Content(v, h), Content(r.v, h), off, buf, off + r.written)
           /\ r.last # h => off + r.written >= Slots
           /\ off < Slots /\ off + Len(buf) <= Slots => r.last = h
<1> DEFINE n == NeededFor(off, buf)
           f == LoopOf(v, h, off, buf, n)
           s == f[n]
           u == Content(v, h)
           w == Content(s.v, h)
           len == Len(Chain(s.v, h))
<1>1. n \in Nat /\ n >= 1
  BY NeededPositive
<1>2. r = WriteReply(s, h, off, buf)
  BY WriteByLoop
<1>3. IsLoop(v, h, off, buf, f, n)
  BY <1>1, LoopIs
<1> HIDE DEF n, f
<1>4. LoopOK(v, own, h, s, n) /\ Along(u, h, s, off, buf, s.n)
  BY <1>1, <1>3, LoopAlong
<1> HIDE DEF s, u
<1>5. /\ r.v = s.v
      /\ r.written = IF ~s.full THEN Len(buf) ELSE Max({0, s.n * Slots - off})
      /\ r.last = IF s.n <= off \div Slots THEN h ELSE s.at
  BY <1>2 DEF WriteReply
<1>6. /\ s.v \in Volumes /\ s.full \in BOOLEAN /\ s.n \in Nat /\ s.n >= 1
      /\ ~s.full => s.n = n
      /\ s.full => s.n < n
  BY <1>4 DEF LoopOK, LoopState
<1>7. /\ s.n \in 1 .. len /\ Chain(s.v, h)[s.n] = s.at
      /\ s.full => s.n = len
      /\ UnitsOK(u, w, off, buf, s.n)
  BY <1>4 DEF Along
<1>8. PICK own2 : Labelled(s.v, own2) /\ own2[h] = h
  BY <1>4, VolumeNumbers DEF LoopOK, LoopLabels, Keeps
<1>9. Len(w) = len * Slots /\ Len(w) \in Nat /\ len \in Nat /\ Chain(s.v, h)[1] = h
  <2>1. IsChain(s.v, h, Chain(s.v, h)) /\ len \in Nat
    BY <1>6, <1>8, VolumesTyped, ChainIs, ChainFacts
  <2> QED
    BY <1>6, <1>8, <2>1, ContentIs DEF IsChain
<1> HIDE DEF len, w
<1>10. s.n * Slots <= Len(w) /\ (s.full => s.n * Slots = Len(w))
  <2>1. s.n \in Nat /\ s.n <= len
    BY <1>6, <1>7
  <2>2. s.n * Slots <= len * Slots
    BY <1>9, <2>1, Multiples
  <2> QED
    BY <1>7, <1>9, <2>2
<1> DEFINE full == s.full
           m == s.n
           end == off + r.written
<1>11. end = off + (IF ~full THEN Len(buf) ELSE Max({0, m * Slots - off}))
  BY <1>5
<1> HIDE DEF full, m, end
<1>12. m \in Nat /\ full \in BOOLEAN /\ UnitsOK(u, w, off, buf, m) /\ m * Slots <= Len(w)
       /\ (~full => m = n) /\ (full => m < n /\ m * Slots = Len(w))
  BY <1>6, <1>7, <1>10 DEF full, m
<1>13. n = NeededFor(off, buf)
  BY DEF n
<1>14. end \in Nat /\ Stored(u, w, off, buf, end)
  BY <1>9, <1>11, <1>12, <1>13, UnitsStored
<1> DEFINE x == IF buf = <<>> THEN off ELSE off + Len(buf) - 1
           c == (n - 1) * Slots
           l == Len(buf)
<1>15. x \in Nat /\ c \in Nat /\ n * Slots = c + Slots /\ c <= x /\ x < c + Slots
       /\ Slots \in Nat /\ Slots >= 1 /\ l \in Nat /\ (buf = <<>> <=> l = 0)
  BY <1>13, NeededIs, VolumeNumbers, EmptySeq
<1>16. x = IF l = 0 THEN off ELSE off + l - 1
  BY <1>15
<1>17. m = 1 => r.last = h
  BY <1>5, <1>7, <1>9 DEF m
<1>18. ASSUME r.last # h PROVE end >= Slots
  <2>1. m >= 2 /\ ~(m <= off \div Slots)
    <3>1. m # 1 /\ m >= 1
      BY <1>6, <1>17, <1>18 DEF m
    <3>2. ~(m <= off \div Slots)
      BY <1>5, <1>18 DEF m
    <3> QED
      BY <1>12, <3>1, <3>2
  <2>2. 1 * Slots = Slots /\ Slots <= m * Slots /\ m * Slots \in Nat
    BY <1>12, <1>15, <2>1, Multiples
  <2>3. CASE ~full
    <3>1. 1 <= n - 1 /\ n - 1 \in Nat
      BY <1>1, <1>12, <2>1, <2>3
    <3>2. Slots <= c
      BY <2>2, <3>1, Multiples
    <3>3. end = off + l
      BY <1>11, <2>3
    <3> HIDE DEF x, c, l
    <3> QED
      BY <1>15, <1>16, <3>2, <3>3
  <2>4. CASE full
    <3> DEFINE q == off \div Slots
               b == q * Slots
               y == m * Slots
    <3>1. q \in Nat /\ b \in Nat /\ off % Slots \in 0 .. Slots - 1 /\ off = b + (off % Slots)
      BY Division
    <3>2. b + Slots <= y
      <4>1. q < m
        <5> HIDE DEF q
        <5> QED
          BY <1>12, <2>1, <3>1 DEF q
      <4> QED
        BY <1>12, <3>1, <4>1, Multiples
    <3>3. y > off /\ y \in Nat
      <4> DEFINE t == off % Slots
      <4> HIDE DEF t, b, y
      <4> QED
        BY <1>15, <2>2, <3>1, <3>2 DEF t, y
    <3>4. Max({0, y - off}) = y - off
      <4> HIDE DEF y
      <4> QED
        BY <3>3, MaxTwo
    <3>5. end = off + (y - off)
      BY <1>11, <2>4, <3>4
    <3> HIDE DEF y
    <3>6. end = y
      BY <3>3, <3>5
    <3> QED
      BY <2>2, <3>6 DEF y
  <2> QED
    BY <1>12, <2>3, <2>4
<1>19. ASSUME off < Slots, off + l <= Slots PROVE r.last = h
  <2>1. n = 1
    <3>1. ASSUME 1 < n PROVE FALSE
      <4>1. 1 <= n - 1 /\ n - 1 \in Nat /\ 1 * Slots = Slots
        BY <1>1, <1>15, <3>1
      <4>2. Slots <= c
        BY <4>1, Multiples
      <4> HIDE DEF x, c, l
      <4> QED
        BY <1>15, <1>16, <1>19, <4>2
    <3> QED
      BY <1>1, <3>1
  <2>2. m = 1
    BY <1>6, <2>1 DEF m
  <2> QED
    BY <1>17, <2>2
<1> QED
  BY <1>5, <1>14, <1>18, <1>19 DEF end, u, w

-----------------------------------------------------------------------------
(* What FS_WRITE leaves in the file of a descriptor.                       *)

LEMMA AllocLabels ==
    ASSUME NEW v \in Volumes, NEW own, Labelled(v, own), CanAlloc(v),
           NEW a, a = AllocCluster(v), NEW n, n = NewCluster(v)
    PROVE  /\ a \in Volumes /\ n \in Clusters
           /\ \E own1 : /\ Labelled(a, own1) /\ own1[n] = n
           /\ a.fat[n] = Eoc /\ a.data[n] = ZeroSector
<1> DEFINE own1 == [c \in Clusters |-> IF c = n THEN n ELSE own[c]]
<1>1. n \in Clusters /\ v.fat[n] = Free
  BY NewClusterFacts
<1>2. /\ a \in Volumes
      /\ \A c \in Clusters : /\ a.fat[c] = IF c = n THEN Eoc ELSE v.fat[c]
                             /\ a.data[c] = IF c = n THEN ZeroSector ELSE v.data[c]
  BY AllocFacts
<1>3. /\ own1 \in [Clusters -> Clusters \cup {0}]
      /\ \A c \in Clusters : own1[c] = IF c = n THEN n ELSE own[c]
  BY <1>1 DEF Labelled
<1> HIDE DEF own1
<1>4. a.fat[n] = Eoc /\ own1[n] = n /\ a.data[n] = ZeroSector
  BY <1>1, <1>2, <1>3
<1>5. /\ \A c \in Clusters : c # n => a.fat[c] = v.fat[c]
      /\ \A c \in Clusters : c # n => own1[c] = own[c]
  BY <1>2, <1>3
<1>6. Labelled(a, own1)
  BY <1>1, <1>3, <1>4, <1>5, LabelNew
<1> QED
  BY <1>1, <1>2, <1>4, <1>6

(* The first write, when the chain is that of one cluster or of several.   *)
FirstStored(w, off, buf, end, sole) ==
    /\ Len(w) \in Nat /\ end \in Nat
    /\ \A i \in 1 .. Len(w) : i > end => w[i] = Zero
    /\ sole => Stored(ZeroSector, w, off, buf, end)

LEMMA WriteFirst ==
    ASSUME NEW v \in Volumes, NEW own, Labelled(v, own), CanAlloc(v),
           NEW off \in Nat, NEW buf \in Seq(PlainUnits),
           NEW r, r = WriteFile(AllocCluster(v), NewCluster(v), off, buf)
    PROVE  FirstStored(Content(r.v, r.last), off, buf, off + r.written,
                       off < Slots /\ off + Len(buf) <= Slots)
<1> DEFINE a == AllocCluster(v)
           n == NewCluster(v)
           z == ZeroSector
           x == r.last
           w == Content(r.v, x)
           end == off + r.written
           sole == off < Slots /\ off + Len(buf) <= Slots
<1>1. /\ a \in Volumes /\ n \in Clusters
      /\ \E own1 : /\ Labelled(a, own1) /\ own1[n] = n
      /\ a.fat[n] = Eoc /\ a.data[n] = ZeroSector
  BY AllocLabels
<1>2. r = WriteFile(a, n, off, buf)
  OBVIOUS
<1>3. PICK own2 : Labelled(r.v, own2) /\ own2[x] = x
  BY WriteFresh
<1>4. r.v \in Volumes /\ x \in Clusters
  BY WriteFresh
<1> HIDE DEF a, n
<1>5. PICK own1 : Labelled(a, own1) /\ own1[n] = n
  BY <1>1
<1>6. Content(a, n) = z
  BY <1>1, <1>5, OneSector
<1>7. Wrote(a, own1, n, buf, r)
  BY <1>1, <1>2, <1>5, WriteChain
<1>8. /\ end \in Nat
      /\ Stored(Content(a, n), Content(r.v, n), off, buf, end)
      /\ x # n => end >= Slots
      /\ off < Slots /\ off + Len(buf) <= Slots => x = n
  BY <1>1, <1>2, <1>5, WriteStores
<1>9. Len(w) \in Nat
  BY <1>3, <1>4, ContentIs
<1>10. Len(z) = Slots /\ \A i \in Nat : i >= 1 => OldUnit(z, i) = Zero
  <2>1. z = [i \in 1 .. Slots |-> Zero] /\ Slots \in Nat
    BY VolumeNumbers DEF ZeroSector
  <2>2. Len(z) = Slots
    BY <2>1
  <2>3. \A i \in 1 .. Slots : z[i] = Zero
    BY <2>1
  <2> HIDE DEF z
  <2> QED
    BY <2>1, <2>2, <2>3 DEF OldUnit
<1> HIDE DEF z, w, end, sole
<1>11. CASE x = n
  <2>1. Stored(z, w, off, buf, end)
    BY <1>6, <1>8, <1>11 DEF w
  <2>2. ASSUME NEW i \in 1 .. Len(w), i > end PROVE w[i] = Zero
    <3>1. w[i] = OldUnit(z, i) \/ w[i] = Zero
      BY <2>1, <2>2 DEF Stored
    <3>2. i \in Nat /\ i >= 1
      BY <1>9, <2>2
    <3> QED
      BY <1>10, <3>1, <3>2
  <2>3. FirstStored(w, off, buf, end, sole)
    BY <1>8, <1>9, <2>1, <2>2 DEF FirstStored, z
  <2> QED
    BY <2>3 DEF w, end, sole
<1>12. CASE x # n
  <2>1. r.v.fat[x] = Eoc
    BY <1>1, <1>7, <1>12 DEF Wrote, EndsAt
  <2>2. w = r.v.data[x]
    BY <1>3, <1>4, <2>1, OneSector DEF w
  <2>3. Len(w) = Slots
    <3>1. r.v.data[x] \in [1 .. Slots -> PlainUnits]
      BY <1>4, VolumesTyped
    <3> HIDE DEF x
    <3> QED
      BY <2>2, <3>1, VolumeNumbers
  <2>4. end >= Slots
    BY <1>8, <1>12
  <2>5. \A i \in 1 .. Len(w) : ~(i > end)
    BY <1>8, <2>3, <2>4, VolumeNumbers
  <2>6. ~sole
    BY <1>8, <1>12 DEF sole
  <2>7. FirstStored(w, off, buf, end, sole)
    BY <1>8, <1>9, <2>5, <2>6 DEF FirstStored
  <2> QED
    BY <2>7 DEF w, end, sole
<1> QED
  BY <1>11, <1>12

(* FS_WRITE: the file of cl, or a new one at cl2, has been written to.     *)
FileStored(v, v2, cl, cl2, off, buf, end) ==
    /\ end \in Nat
    /\ cl # 0 => Stored(Content(v, cl), Content(v2, cl), off, buf, end)
    /\ cl = 0 => FirstStored(Content(v2, cl2), off, buf, end,
                             off < Slots /\ off + Len(buf) <= Slots)

LEMMA WriteContent ==
    ASSUME NEW v, NEW own, Tree(v, own), NEW p, NEW cl, Held(v, own, p, cl),
           NEW off \in Nat, NEW buf \in Seq(PlainUnits),
           NEW r, r = FsWrite(v, cl, off, buf)
    PROVE  r.ok = FALSE \/ FileStored(v, r.v, cl, IF cl = 0 THEN r.last ELSE cl, off, buf,
                                      off + r.written)
<1>1. v \in Volumes /\ Labelled(v, own)
  BY DEF Tree
<1>2. cl \in Clusters \cup {0} /\ (cl # 0 => own[cl] = cl)
  BY DEF Held, MayPoint
<1>3. 0 \notin Clusters /\ \A c \in Clusters : c >= 2
  BY VolumeNumbers
<1>4. CASE cl # 0
  <2>1. cl \in Clusters /\ own[cl] = cl
    BY <1>2, <1>4
  <2>2. r = WriteFile(v, cl, off, buf)
    BY <1>3, <2>1 DEF FsWrite
  <2>3. /\ off + r.written \in Nat
        /\ Stored(Content(v, cl), Content(r.v, cl), off, buf, off + r.written)
    BY <1>1, <2>1, <2>2, WriteStores
  <2> QED
    BY <1>4, <2>3 DEF FileStored
<1>5. CASE cl = 0 /\ ~CanAlloc(v)
  BY <1>5 DEF FsWrite, Refused
<1>6. CASE cl = 0 /\ CanAlloc(v)
  <2>1. r = WriteFile(AllocCluster(v), NewCluster(v), off, buf)
    BY <1>6 DEF FsWrite
  <2>2. FirstStored(Content(r.v, r.last), off, buf, off + r.written,
                    off < Slots /\ off + Len(buf) <= Slots)
    BY <1>1, <1>6, <2>1, WriteFirst
  <2> QED
    BY <1>6, <2>2 DEF FileStored, FirstStored
<1> QED
  BY <1>4, <1>5, <1>6

-----------------------------------------------------------------------------
(* The volume and the descriptors implement files as objects.              *)

(* Where the descriptors stand: the cursor of Objects.                     *)
CursorOf(table) ==
    [d \in Programs \X Fds |->
        LET e == table[d[1]][d[2]]
        IN  IF e.inUse /\ e.cluster # 0
            THEN [obj |-> e.cluster, pos |-> e.offset] ELSE NoCursor]

LEMMA MoveIs ==
    ASSUME DOMAIN objs' \subseteq DOMAIN objs, \A h \in DOMAIN objs' : objs'[h] = objs[h]
    PROVE  Objects!ObjNext
<1>1. Objects!Move
  BY DEF Objects!Move
<1> QED
  BY <1>1 DEF Objects!ObjNext

LEMMA TruncateIs ==
    ASSUME NEW h \in DOMAIN objs, DOMAIN objs' = DOMAIN objs,
           objs' = [g \in DOMAIN objs' |-> objs'[g]],
           objs = [g \in DOMAIN objs |-> objs[g]],
           \A g \in DOMAIN objs : g # h => objs'[g] = objs[g],
           objs'[h] = ZeroSector
    PROVE  Objects!ObjNext
<1>1. objs' = [objs EXCEPT ![h] = [i \in 1 .. Slots |-> Zero]]
  BY DEF ZeroSector
<1>2. Objects!Truncate(h)
  BY <1>1 DEF Objects!Truncate
<1> QED
  BY <1>2 DEF Objects!ObjNext

(* A write through d at off, to position pos in object h.                  *)
Grown(old, new, off, pos) ==
    /\ Len(new) >= Len(old)
    /\ \A i \in DOMAIN new :
          /\ i <= off /\ i <= Len(old) => new[i] = old[i]
          /\ i <= off /\ i > Len(old) => new[i] = Zero
          /\ (i > pos /\ new[i] # Zero) => (i <= Len(old) /\ new[i] = old[i])
          /\ i > EndOfSector(pos) /\ i <= Len(old) => new[i] = old[i]

Storing(c, c2, d, after, to) ==
    /\ to # NoCursor
    /\ c2 = [c EXCEPT ![d] = to]
    /\ c[d] # NoCursor => c[d].obj = to.obj
    /\ DOMAIN after = DOMAIN objs \cup {to.obj}
    /\ \A g \in DOMAIN objs \ {to.obj} : after[g] = objs[g]
    /\ Grown(Objects!Before(to.obj), after[to.obj],
             IF c[d] = NoCursor THEN 0 ELSE c[d].pos, to.pos)

LEMMA StoreIs ==
    ASSUME NEW d \in Programs \X Fds, NEW h, h # 0, NEW off, NEW pos, NEW old,
           CursorOf(fds)' = [CursorOf(fds) EXCEPT ![d] = [obj |-> h, pos |-> pos]],
           \/ CursorOf(fds)[d] = NoCursor /\ off = 0
           \/ CursorOf(fds)[d] # NoCursor /\ CursorOf(fds)[d] = [obj |-> h, pos |-> off],
           DOMAIN objs' = DOMAIN objs \cup {h},
           \A g \in DOMAIN objs \ {h} : objs'[g] = objs[g],
           old = IF h \in DOMAIN objs THEN objs[h] ELSE << >>,
           Grown(old, objs'[h], off, pos)
    PROVE  Objects!ObjNext
<1> DEFINE c == CursorOf(fds)
           to == [obj |-> h, pos |-> pos]
           new == objs'[h]
<1>1. /\ c'[d] = to /\ to # NoCursor /\ to.obj = h /\ to.pos = pos
  <2>1. c'[d] = to
    BY DEF CursorOf
  <2> QED
    BY <2>1 DEF NoCursor
<1>2. Objects!Before(h) = old
  BY DEF Objects!Before
<1>3. /\ off = IF c[d] = NoCursor THEN 0 ELSE c[d].pos
      /\ c[d] # NoCursor => c[d].obj = h
  OBVIOUS
<1>4. Grown(old, new, IF c[d] = NoCursor THEN 0 ELSE c[d].pos, to.pos)
  BY <1>1, <1>3
<1>5. /\ c' = [c EXCEPT ![d] = to]
      /\ DOMAIN objs' = DOMAIN objs \cup {to.obj}
      /\ \A g \in DOMAIN objs \ {to.obj} : objs'[g] = objs[g]
      /\ Grown(Objects!Before(to.obj), objs'[to.obj],
               IF c[d] = NoCursor THEN 0 ELSE c[d].pos, to.pos)
      /\ c[d] # NoCursor => c[d].obj = to.obj
  BY <1>1, <1>2, <1>3, <1>4
<1> HIDE DEF to
<1>6. \E after \in {objs'}, t \in {c'[d]} : Storing(c, c', d, after, t)
  BY <1>1, <1>5 DEF Storing
<1>7. Objects!Store(d) <=> \E after \in {objs'}, t \in {c'[d]} : Storing(c, c', d, after, t)
  BY DEF Objects!Store, Objects!SectorEnd, EndOfSector, Grown, CursorOf, Storing
<1> QED
  BY <1>6, <1>7 DEF Objects!ObjNext

(* What is observed of the files is what the volume holds of them.         *)
ObserveOK == objs = Observed(vol, fds)

LEMMA ObservedNow ==
    ASSUME ObserveOK
    PROVE  /\ DOMAIN objs = FilesOf(vol, fds)
           /\ objs = [h \in DOMAIN objs |-> objs[h]]
           /\ \A h \in DOMAIN objs : objs[h] = Content(vol, h)
BY DEF ObserveOK, Observed

LEMMA ObservedNext ==
    ASSUME ObserveOK'
    PROVE  /\ DOMAIN objs' = FilesOf(vol', fds')
           /\ objs' = [h \in DOMAIN objs' |-> objs'[h]]
           /\ \A h \in DOMAIN objs' : objs'[h] = Content(vol', h)
BY DEF ObserveOK, Observed

(* The invariant before and after a step.                                  *)
Around ==
    /\ TablesOK /\ RefsOK(vol, fds) /\ ObserveOK
    /\ TablesOK' /\ RefsOK(vol', fds') /\ ObserveOK'

(* A descriptor leads to a file of the table.                              *)
RefsToFiles == \A q, c : Refers(fds', q, c) => c \in FilesOf(vol, fds) \cup {0}

LEMMA NewFilesOf ==
    ASSUME Around, RefsToFiles, NEW new, new \in Clusters => new \in FilesOf(vol, fds),
           NoNewFiles(vol, vol', new), NEW g \in FilesOf(vol', fds')
    PROVE  g \in FilesOf(vol, fds)
<1>1. PICK own : Tree(vol, own)
  BY DEF Around, RefsOK
<1>2. PICK own2 : Tree(vol', own2)
  BY DEF Around, RefsOK
<1>3. fds \in Tables /\ fds' \in Tables
  BY DEF Around, TablesOK
<1>4. /\ g \in Clusters
      /\ (\E q \in Paths : FileAt(vol', q, g)) \/ (\E q : Refers(fds', q, g))
  BY <1>2, <1>3, FilesOfIs
<1>5. ASSUME NEW q \in Paths, FileAt(vol', q, g) PROVE g \in FilesOf(vol, fds)
  <2>1. g = new \/ FileAt(vol, q, g)
    BY <1>4, <1>5 DEF NoNewFiles
  <2>2. FileAt(vol, q, g) => g \in FilesOf(vol, fds)
    BY <1>1, <1>3, <1>4, FilesOfIs
  <2> QED
    BY <1>4, <2>1, <2>2
<1>6. ASSUME NEW q, Refers(fds', q, g) PROVE g \in FilesOf(vol, fds)
  BY <1>4, <1>6, VolumeNumbers DEF RefsToFiles
<1> QED
  BY <1>4, <1>5, <1>6

LEMMA FilesOfClusters ==
    ASSUME RefsOK(vol, fds), fds \in Tables
    PROVE  FilesOf(vol, fds) \subseteq Clusters /\ 0 \notin FilesOf(vol, fds)
<1>1. PICK own : Tree(vol, own)
  BY DEF RefsOK
<1>2. FilesOf(vol, fds) \subseteq Clusters
  BY <1>1, FilesOfIs
<1> QED
  BY <1>2, VolumeNumbers

(* A step that changes no file but h, which nothing leads to afterwards.   *)
LEMMA MoveStep ==
    ASSUME Around, RefsToFiles, NEW changed, NEW new,
           new \in Clusters => new \in FilesOf(vol, fds),
           NEW h, Quiet(changed, new, h), h \notin FilesOf(vol', fds')
    PROVE  Objects!ObjNext
<1>1. PICK own : Tree(vol, own) /\ HeldAll(vol, own, fds) /\ FilesKept(vol, vol', own, h)
  BY DEF Quiet
<1>2. fds \in Tables
  BY DEF Around, TablesOK
<1>3. DOMAIN objs = FilesOf(vol, fds) /\ DOMAIN objs' = FilesOf(vol', fds')
  BY ObservedNow, ObservedNext DEF Around
<1>4. ASSUME NEW g \in DOMAIN objs' PROVE g \in DOMAIN objs /\ objs'[g] = objs[g]
  <2>1. g \in FilesOf(vol, fds)
    BY <1>3, <1>4, NewFilesOf DEF Quiet
  <2>2. IsFile(vol, own, g)
    BY <1>1, <1>2, <2>1, FilesAreFiles
  <2>3. g # h /\ g \in Clusters
    BY <1>3, <1>4, <2>2 DEF IsFile
  <2>4. Content(vol', g) = Content(vol, g)
    BY <1>1, <2>2, <2>3 DEF FilesKept
  <2>5. objs'[g] = Content(vol', g)
    BY <1>4, ObservedNext DEF Around
  <2>6. objs[g] = Content(vol, g)
    BY <1>3, <2>1, ObservedNow DEF Around
  <2> QED
    BY <1>3, <2>1, <2>4, <2>5, <2>6
<1> QED
  BY <1>4, MoveIs

LEMMA QuietStep ==
    ASSUME Around, RefsToFiles, NEW changed, NEW new,
           new \in Clusters => new \in FilesOf(vol, fds), Quiet(changed, new, 0)
    PROVE  Objects!ObjNext
<1>1. 0 \notin FilesOf(vol', fds')
  <2>1. PICK own2 : Tree(vol', own2)
    BY DEF Around, RefsOK
  <2>2. fds' \in Tables
    BY DEF Around, TablesOK
  <2> QED
    BY <2>1, <2>2, FilesOfIs, VolumeNumbers
<1> QED
  BY <1>1, MoveStep

LEMMA OldRefsToFiles ==
    ASSUME Around, NoNewRefs
    PROVE  RefsToFiles
<1> SUFFICES ASSUME NEW q, NEW c, Refers(fds', q, c)
             PROVE  c \in FilesOf(vol, fds) \cup {0}
  BY DEF RefsToFiles
<1>1. PICK own : Tree(vol, own) /\ HeldAll(vol, own, fds)
  BY DEF Around, RefsOK
<1>2. fds \in Tables
  BY DEF Around, TablesOK
<1>3. Refers(fds, q, c)
  BY DEF NoNewRefs
<1>4. c \in Clusters \cup {0}
  BY <1>1, <1>3 DEF HeldAll, Held, MayPoint
<1> QED
  BY <1>1, <1>2, <1>3, <1>4, FilesOfIs

(* The steps that move no unit of a file.                                  *)
LEMMA OpenMoves ==
    ASSUME PlainPaths, Around, NEW p \in Programs, NEW path \in FilePaths, NEW flags,
           Open(p, path, flags)
    PROVE  Objects!ObjNext
<1>1. TablesOK /\ RefsOK(vol, fds) /\ fds \in Tables
  BY DEF Around, TablesOK
<1>2. Quiet({}, 0, 0) /\ NoNewRefsBut(path)
  BY <1>1, OpenQuiet, OpenKeeps
<1>3. PICK own : Tree(vol, own) /\ HeldAll(vol, own, fds)
  BY <1>1 DEF RefsOK
<1>4. ASSUME NEW q, NEW c, Refers(fds', q, c) PROVE c \in FilesOf(vol, fds) \cup {0}
  <2>1. \/ Refers(fds, q, c)
        \/ c = 0
        \/ At(vol, path) # NoEntry /\ At(vol, path).cluster = c
    BY <1>2, <1>4 DEF NoNewRefsBut
  <2>2. CASE Refers(fds, q, c)
    <3>1. c \in Clusters \cup {0}
      BY <1>3, <2>2 DEF HeldAll, Held, MayPoint
    <3> QED
      BY <1>1, <1>3, <2>2, <3>1, FilesOfIs
  <2>3. CASE At(vol, path) # NoEntry /\ At(vol, path).cluster = c
    <3>1. path \in Paths /\ path \notin DirPaths
      BY FilesAssumption
    <3>2. PlaceOK(vol, own, path, At(vol, path))
      BY <1>3, <2>3, <3>1 DEF Tree
    <3>3. FileAt(vol, path, c) /\ c \in Clusters \cup {0}
      BY <2>3, <3>1, <3>2 DEF PlaceOK, FileAt, Entries
    <3> QED
      BY <1>1, <1>3, <3>1, <3>3, FilesOfIs
  <2> QED
    BY <2>1, <2>2, <2>3
<1>5. RefsToFiles
  BY <1>4 DEF RefsToFiles
<1> QED
  BY <1>2, <1>5, QuietStep, VolumeNumbers

LEMMA StillMoves ==
    ASSUME Around, NoNewRefs, vol' = vol
    PROVE  Objects!ObjNext
<1>1. Quiet({}, 0, 0)
  BY SameVolume DEF Around
<1>2. RefsToFiles
  BY OldRefsToFiles
<1> QED
  BY <1>1, <1>2, QuietStep, VolumeNumbers

LEMMA CloseMoves ==
    ASSUME PlainPaths, Around, NEW p \in Programs, NEW f \in Fds,
           NEW accepted \in BOOLEAN, Close(p, f, accepted)
    PROVE  Objects!ObjNext
<1> DEFINE e == fds[p][f]
<1>1. TablesOK /\ RefsOK(vol, fds) /\ fds \in Tables
  BY DEF Around, TablesOK
<1>2. Quiet({e.path}, e.cluster, 0) /\ NoNewRefs
  BY <1>1, CloseQuiet, CloseKeeps
<1>3. Refers(fds, e.path, e.cluster)
  BY RefersSlot DEF Close
<1>4. PICK own : Tree(vol, own)
  BY <1>1 DEF RefsOK
<1>5. e.cluster \in Clusters => e.cluster \in FilesOf(vol, fds)
  BY <1>1, <1>3, <1>4, FilesOfIs
<1>6. RefsToFiles
  BY <1>2, OldRefsToFiles
<1> HIDE DEF e
<1> QED
  BY <1>2, <1>5, <1>6, QuietStep

LEMMA MkdirMoves ==
    ASSUME PlainPaths, Around, NEW path \in DirPaths, Mkdir(path)
    PROVE  Objects!ObjNext
<1>1. Quiet({}, 0, 0)
  BY MkdirQuiet DEF Around
<1>2. NoNewRefs
  BY DEF Mkdir, NoNewRefs
<1>3. RefsToFiles
  BY <1>2, OldRefsToFiles
<1> QED
  BY <1>1, <1>3, QuietStep, VolumeNumbers

LEMMA DeleteMoves ==
    ASSUME PlainPaths, Around, NEW path \in DeletePaths, Delete(path)
    PROVE  Objects!ObjNext
<1> DEFINE h == At(vol, path).cluster
<1>1. TablesOK /\ RefsOK(vol, fds) /\ fds \in Tables /\ fds' = fds
  BY DEF Around, TablesOK, Delete
<1>2. PICK own : Tree(vol, own) /\ HeldAll(vol, own, fds) /\ Removed(vol, vol', own, path)
  BY <1>1, DeleteQuiet
<1>3. path \in Paths /\ Using(path) = {}
  BY FilesAssumption DEF Delete
<1>4. PICK own2 : Tree(vol', own2)
  BY DEF Around, RefsOK
<1>5. h \notin FilesOf(vol', fds')
  <2> SUFFICES ASSUME h \in FilesOf(vol', fds') PROVE FALSE
    OBVIOUS
  <2>1. /\ h \in Clusters /\ h # 0
        /\ (\E q \in Paths : FileAt(vol', q, h)) \/ (\E q : Refers(fds, q, h))
    BY <1>1, <1>4, FilesOfIs, VolumeNumbers
  <2>2. ASSUME NEW q \in Paths, FileAt(vol', q, h) PROVE FALSE
    <3>1. FileAt(vol, q, h)
      BY <1>2, <2>1, <2>2 DEF Removed, NoNewFiles
    <3>2. q = path
      BY <1>2, <1>3, <2>1, <3>1 DEF FileAt, Tree, Removed
    <3> QED
      BY <1>2, <2>2, <3>2 DEF FileAt, Removed
  <2>3. ASSUME NEW q, Refers(fds, q, h) PROVE FALSE
    <3>1. OnlyAt(vol, q, h)
      BY <1>2, <2>1, <2>3 DEF HeldAll, Held, MayPoint
    <3>2. q = path
      BY <1>2, <1>3, <3>1 DEF OnlyAt, Removed
    <3> QED
      BY <1>3, <2>3, <3>2, RefersUsing
  <2> QED
    BY <2>1, <2>2, <2>3
<1>6. Quiet(GoneWith(path), 0, h)
  BY <1>2 DEF Quiet, Removed
<1>7. NoNewRefs
  BY <1>1 DEF NoNewRefs
<1>8. RefsToFiles
  BY <1>7, OldRefsToFiles
<1> HIDE DEF h
<1> QED
  BY <1>5, <1>6, <1>8, MoveStep, VolumeNumbers

(* The descriptor of an FS_TRUNCATE still leads where it led.              *)
LEMMA TruncatingRefs ==
    ASSUME TablesOK, NEW p \in Programs, NEW accepted \in BOOLEAN, OpenTruncate(p, accepted)
    PROVE  \A q, c : Refers(fds, q, c) => Refers(fds', q, c)
<1> DEFINE f == truncating[p]
           e == fds[p][f]
           e2 == [e EXCEPT !.size = 0]
<1>1. f # NoFd /\ fds' = [fds EXCEPT ![p] = [@ EXCEPT ![f] = e2]]
  BY DEF OpenTruncate
<1>2. fds \in Tables /\ f \in Fds /\ e.inUse
  BY <1>1 DEF TablesOK
<1>3. e \in OpenSlots
  BY <1>2, TableSlot, SlotFacts
<1>4. e2.inUse /\ e2.path = e.path /\ e2.cluster = e.cluster
  BY <1>2, <1>3 DEF OpenSlots
<1> HIDE DEF e2, f
<1>5. \A s \in Programs, g \in Fds : fds'[s][g] = IF s = p /\ g = f THEN e2 ELSE fds[s][g]
  BY <1>1, <1>2 DEF Tables
<1> SUFFICES ASSUME NEW q, NEW c, Refers(fds, q, c) PROVE Refers(fds', q, c)
  OBVIOUS
<1>6. PICK s \in Programs, g \in Fds :
          fds[s][g].inUse /\ fds[s][g].path = q /\ fds[s][g].cluster = c
  BY DEF Refers
<1>7. fds'[s][g].inUse /\ fds'[s][g].path = q /\ fds'[s][g].cluster = c
  BY <1>4, <1>5, <1>6
<1> QED
  BY <1>7 DEF Refers

LEMMA TruncateMoves ==
    ASSUME PlainPaths, Around, NEW p \in Programs,
           NEW accepted \in BOOLEAN, OpenTruncate(p, accepted)
    PROVE  Objects!ObjNext
<1> DEFINE path == fds[p][truncating[p]].path
           h == At(vol, path).cluster
<1>1. TablesOK /\ RefsOK(vol, fds) /\ fds \in Tables /\ fds' \in Tables
  BY DEF Around, TablesOK
<1>2. NoNewRefs /\ \A q, c : Refers(fds, q, c) => Refers(fds', q, c)
  BY <1>1, OpenTruncateKeeps, TruncatingRefs
<1>3. PICK own3 : Tree(vol, own3) /\ HeldAll(vol, own3, fds)
  BY <1>1 DEF RefsOK
<1>4. truncating[p] \in Fds /\ fds[p][truncating[p]].inUse
  BY <1>1 DEF OpenTruncate, TablesOK
<1>5. At(vol, path) # NoEntry /\ path \in FilePaths /\ path \in Paths
  BY <1>1, <1>3, <1>4, SlotHeld
<1>6. vol' = vol \/ \E own : /\ Tree(vol, own) /\ HeldAll(vol, own, fds)
                             /\ Truncated(vol, vol', own, path, h)
  BY <1>1, TruncateQuiet
<1> HIDE DEF path
<1>7. CASE vol' = vol
  BY <1>2, <1>7, StillMoves
<1>8. CASE vol' # vol
  <2>1. PICK own : /\ Tree(vol, own) /\ HeldAll(vol, own, fds)
                   /\ Truncated(vol, vol', own, path, h)
    BY <1>6, <1>8
  <2>2. PICK own2 : Tree(vol', own2)
    BY DEF Around, RefsOK
  <2>3. h # 0 /\ Content(vol', h) = ZeroSector
    BY <1>8, <2>1 DEF Truncated
  <2>4. h \in Clusters
    <3>1. PlaceOK(vol, own, path, At(vol, path))
      BY <1>5, <2>1 DEF Tree
    <3> QED
      BY <2>3, <3>1 DEF PlaceOK, Entries
  <2> HIDE DEF h
  <2>5. RefsToFiles
    BY <1>2, OldRefsToFiles
  <2>6. FilesOf(vol', fds') \subseteq FilesOf(vol, fds)
    BY <2>1, <2>5, NewFilesOf, VolumeNumbers DEF Truncated
  <2>7. ASSUME NEW g \in FilesOf(vol, fds) PROVE g \in FilesOf(vol', fds')
    <3>1. /\ g \in Clusters
          /\ (\E q \in Paths : FileAt(vol, q, g)) \/ (\E q : Refers(fds, q, g))
      BY <1>1, <2>1, FilesOfIs
    <3>2. ASSUME NEW q \in Paths, FileAt(vol, q, g) PROVE FileAt(vol', q, g)
      <4>1. q \in FilePaths
        BY <2>1, <3>2 DEF FileAt, Tree, PlaceOK
      <4>2. CASE q = path
        BY <2>1, <3>2, <4>2 DEF FileAt, Truncated, h
      <4>3. CASE q # path
        <5>1. At(vol', q) = At(vol, q)
          BY <2>1, <3>2, <4>1, <4>3 DEF Truncated, EntriesKept, FileAt
        <5> QED
          BY <3>2, <5>1 DEF FileAt
      <4> QED
        BY <4>2, <4>3
    <3> QED
      BY <1>1, <1>2, <2>2, <3>1, <3>2, FilesOfIs
  <2>8. DOMAIN objs = FilesOf(vol, fds) /\ DOMAIN objs' = FilesOf(vol', fds')
        /\ objs = [g \in DOMAIN objs |-> objs[g]]
        /\ objs' = [g \in DOMAIN objs' |-> objs'[g]]
    BY ObservedNow, ObservedNext DEF Around
  <2>9. DOMAIN objs' = DOMAIN objs
    BY <2>6, <2>7, <2>8
  <2>10. h \in DOMAIN objs
    <3>1. FileAt(vol', path, h)
      BY <2>1 DEF Truncated
    <3>2. h \in FilesOf(vol', fds')
      BY <1>1, <1>5, <2>2, <2>4, <3>1, FilesOfIs
    <3> QED
      BY <2>8, <2>9, <3>2
  <2>11. objs'[h] = ZeroSector
    BY <2>3, <2>9, <2>10, ObservedNext DEF Around
  <2>12. ASSUME NEW g \in DOMAIN objs, g # h PROVE objs'[g] = objs[g]
    <3>1. IsFile(vol, own, g)
      BY <1>1, <2>1, <2>8, <2>12, FilesAreFiles
    <3>2. Content(vol', g) = Content(vol, g)
      BY <2>1, <2>12, <3>1 DEF Truncated, FilesKept, IsFile
    <3>3. objs'[g] = Content(vol', g) /\ objs[g] = Content(vol, g)
      BY <2>9, <2>12, ObservedNow, ObservedNext DEF Around
    <3> QED
      BY <3>2, <3>3
  <2> QED
    BY <2>8, <2>9, <2>10, <2>11, <2>12, TruncateIs
<1> QED
  BY <1>7, <1>8

LEMMA ContentUnits ==
    ASSUME NEW v, NEW own, Tree(v, own), NEW h \in Clusters, own[h] = h
    PROVE  Content(v, h) \in Seq(PlainUnits)
BY ContentIs DEF Tree

(* Units that were stored at off have grown as an object grows.            *)
LEMMA StoredGrows ==
    ASSUME NEW u \in Seq(PlainUnits), NEW w \in Seq(PlainUnits),
           NEW off \in Nat, NEW buf, NEW end \in Nat, off <= end, Stored(u, w, off, buf, end)
    PROVE  Grown(u, w, off, end)
<1> SUFFICES ASSUME NEW i \in DOMAIN w
             PROVE  /\ i <= off /\ i <= Len(u) => w[i] = u[i]
                    /\ i <= off /\ i > Len(u) => w[i] = Zero
                    /\ (i > end /\ w[i] # Zero) => (i <= Len(u) /\ w[i] = u[i])
                    /\ i > EndOfSector(end) /\ i <= Len(u) => w[i] = u[i]
  BY DEF Grown, Stored
<1>1. i \in 1 .. Len(w) /\ Len(u) \in Nat
  OBVIOUS
<1>2. /\ i <= off => w[i] = OldUnit(u, i)
      /\ i > end => w[i] = OldUnit(u, i) \/ w[i] = Zero
      /\ i > EndOfSector(end) => w[i] = OldUnit(u, i)
  BY <1>1 DEF Stored
<1>3. /\ i <= Len(u) => OldUnit(u, i) = u[i]
      /\ ~(i <= Len(u)) => OldUnit(u, i) = Zero
  BY DEF OldUnit
<1>4. i \in Int /\ Len(u) \in Int /\ (i > Len(u) <=> ~(i <= Len(u)))
  BY <1>1
<1> QED
  BY <1>2, <1>3, <1>4

LEMMA FirstGrows ==
    ASSUME NEW w \in Seq(PlainUnits), NEW off, NEW buf, NEW end \in Nat, NEW sole,
           FirstStored(w, off, buf, end, sole)
    PROVE  Grown(<< >>, w, 0, end)
<1> SUFFICES ASSUME NEW i \in DOMAIN w
             PROVE  /\ ~(i <= 0) /\ ~(i <= Len(<< >>))
                    /\ i > end => w[i] = Zero
  BY DEF Grown, FirstStored
<1>1. i \in 1 .. Len(w)
  OBVIOUS
<1> QED
  BY <1>1 DEF FirstStored

(* The descriptors before and after a write.                               *)
LEMMA CursorMoves ==
    ASSUME fds \in Tables, NEW p \in Programs, NEW f \in Fds, NEW e2 \in GoodSlots,
           fds' = WithSlot(fds, p, f, e2), e2.inUse, e2.cluster # 0,
           NEW pos, pos = e2.offset
    PROVE  CursorOf(fds)' = [CursorOf(fds) EXCEPT ![<<p, f>>] = [obj |-> e2.cluster, pos |-> pos]]
<1> DEFINE to == [obj |-> e2.cluster, pos |-> pos]
           c == CursorOf(fds)
           c2 == [c EXCEPT ![<<p, f>>] = to]
<1>1. \A s \in Programs, g \in Fds : fds'[s][g] = IF s = p /\ g = f THEN e2 ELSE fds[s][g]
  BY DEF WithSlot, Tables
<1>2. ASSUME NEW d \in Programs \X Fds PROVE c'[d] = c2[d]
  <2>1. d[1] \in Programs /\ d[2] \in Fds /\ d = <<d[1], d[2]>>
    OBVIOUS
  <2>2. CASE d = <<p, f>>
    <3>1. fds'[d[1]][d[2]] = e2
      BY <1>1, <2>2
    <3>2. c'[d] = to
      BY <3>1 DEF CursorOf
    <3>3. c2[d] = to
      BY <2>2 DEF CursorOf
    <3> QED
      BY <3>2, <3>3
  <2>3. CASE d # <<p, f>>
    <3>1. fds'[d[1]][d[2]] = fds[d[1]][d[2]]
      BY <1>1, <2>1, <2>3
    <3>2. c2[d] = c[d]
      BY <2>3 DEF CursorOf
    <3> QED
      BY <3>1, <3>2 DEF CursorOf
  <2> QED
    BY <2>2, <2>3
<1> QED
  BY <1>2 DEF CursorOf

LEMMA WriteMoves ==
    ASSUME Around, NEW p \in Programs, NEW f \in Fds,
           NEW t \in Texts, Write(p, f, t)
    PROVE  Objects!ObjNext
<1> DEFINE buf == [i \in 1 .. Len(t) |-> Data(t[i])]
           r == FsWrite(vol, fds[p][f].cluster, fds[p][f].offset, buf)
           e == fds[p][f]
<1>1. TablesOK /\ RefsOK(vol, fds) /\ fds \in Tables /\ fds' \in Tables
  BY DEF Around, TablesOK
<1>2. UNCHANGED <<vol, fds>> \/ \E e2 : WriteDone(p, f, buf, r, e2)
  BY <1>1, WriteEffects
<1>3. CASE UNCHANGED <<vol, fds>>
  <2>1. NoNewRefs
    BY <1>3 DEF NoNewRefs
  <2> QED
    BY <1>3, <2>1, StillMoves
<1>4. CASE \E e2 : WriteDone(p, f, buf, r, e2)
  <2>1. PICK e2 : WriteDone(p, f, buf, r, e2)
    BY <1>4
  <2>2. e.inUse /\ e \in OpenSlots /\ e.offset \in Nat /\ e.cluster \in Clusters \cup {0}
    <3>1. e.inUse /\ e \in GoodSlots
      BY <1>1, TableSlot DEF Write
    <3> QED
      BY <3>1, SlotFacts, FilesAssumption
  <2>3. buf \in Seq(PlainUnits)
    BY TextUnits
  <2> HIDE DEF buf
  <2> DEFINE h == e2.cluster
             off == e.offset
             pos == e2.offset
             d == <<p, f>>
  <2>4. PICK own : /\ Tree(vol, own) /\ HeldAll(vol, own, fds)
                   /\ WroteFor(vol, own, e.path, e.cluster, h, buf, r)
    BY <2>1 DEF WriteDone
  <2>5. /\ r.ok = TRUE /\ vol' = r.v /\ fds' = WithSlot(fds, p, f, e2)
        /\ e2 \in GoodSlots /\ e2.inUse /\ e2.path = e.path
        /\ h = IF e.cluster = 0 THEN r.last ELSE e.cluster
        /\ pos = off + r.written
    BY <2>1 DEF WriteDone
  <2>6. Held(vol, own, e.path, e.cluster)
    BY <2>2, <2>4, RefersSlot DEF HeldAll
  <2>7. FileStored(vol, r.v, e.cluster, h, off, buf, pos)
    BY <2>2, <2>3, <2>4, <2>5, <2>6, WriteContent, ZenonT(30)
  <2> HIDE DEF r
  <2>8. h \in Clusters /\ h # 0 /\ (e.cluster = 0 => own[h] = 0)
        /\ FilesKept(vol, vol', own, h) /\ \A q \in Paths : At(vol', q) = At(vol, q)
    BY <2>4, <2>5, VolumeNumbers DEF WroteFor
  <2>9. off <= pos /\ pos \in Nat
    <3>1. r.written \in Nat
      BY <2>3, <2>4 DEF WroteFor
    <3> HIDE DEF e
    <3> QED
      BY <2>2, <2>5, <3>1
  <2>10. PICK own2 : Tree(vol', own2) /\ HeldAll(vol', own2, fds')
    BY DEF Around, RefsOK
  <2>11. Refers(fds', e2.path, h)
    <3>1. fds'[p][f] = e2
      BY <1>1, <2>5 DEF WithSlot, Tables
    <3> QED
      BY <2>5, <3>1, RefersSlot
  <2>12. own2[h] = h
    BY <2>8, <2>10, <2>11 DEF HeldAll, Held, MayPoint
  <2>13. Content(vol', h) \in Seq(PlainUnits)
    BY <2>8, <2>10, <2>12, ContentUnits
  <2>14. e.cluster \in FilesOf(vol, fds) \cup {0}
    <3>1. Refers(fds, e.path, e.cluster)
      BY <2>2, RefersSlot
    <3> QED
      BY <1>1, <2>2, <2>4, <3>1, FilesOfIs
  <2>15. e.cluster # 0 => h = e.cluster /\ h \in FilesOf(vol, fds)
    BY <2>5, <2>14
  <2>16. e.cluster = 0 => h \notin FilesOf(vol, fds)
    BY <1>1, <2>4, <2>8, FileHeads
  <2>17. FilesOf(vol', fds') = FilesOf(vol, fds) \cup {h}
    <3>1. ASSUME NEW g PROVE g \in FilesOf(vol', fds') <=> g \in FilesOf(vol, fds) \cup {h}
      <4>1. /\ g \in FilesOf(vol, fds)
                 <=> /\ g \in Clusters
                     /\ (\E q \in Paths : FileAt(vol, q, g)) \/ (\E q : Refers(fds, q, g))
            /\ g \in FilesOf(vol', fds')
                 <=> /\ g \in Clusters
                     /\ (\E q \in Paths : FileAt(vol', q, g)) \/ (\E q : Refers(fds', q, g))
        BY <1>1, <2>4, <2>10, FilesOfIs
      <4>2. \A q \in Paths : FileAt(vol', q, g) <=> FileAt(vol, q, g)
        BY <2>8 DEF FileAt
      <4>3. \A q : Refers(fds', q, g) => Refers(fds, q, g) \/ g = h
        BY <1>1, <2>5, WithSlotRefers
      <4>4. g = h => g \in FilesOf(vol', fds')
        BY <2>8, <2>11, <4>1
      <4>5. ASSUME NEW q, Refers(fds, q, g) PROVE Refers(fds', q, g) \/ g = e.cluster
        <5>1. PICK s \in Programs, x \in Fds :
                  fds[s][x].inUse /\ fds[s][x].path = q /\ fds[s][x].cluster = g
          BY <4>5 DEF Refers
        <5>2. CASE s = p /\ x = f
          BY <5>1, <5>2
        <5>3. CASE ~(s = p /\ x = f)
          <6>1. fds'[s][x] = fds[s][x]
            BY <1>1, <2>5, <5>3 DEF WithSlot, Tables
          <6> QED
            BY <5>1, <6>1 DEF Refers
        <5> QED
          BY <5>2, <5>3
      <4>6. g \in Clusters /\ g = e.cluster => g = h
        BY <2>15, VolumeNumbers
      <4> QED
        BY <4>1, <4>2, <4>3, <4>4, <4>5, <4>6
    <3> QED
      BY <3>1
  <2>18. /\ DOMAIN objs = FilesOf(vol, fds)
         /\ DOMAIN objs' = FilesOf(vol', fds')
    BY ObservedNow, ObservedNext DEF Around
  <2>19. objs'[h] = Content(vol', h)
    BY <2>17, <2>18, ObservedNext DEF Around
  <2>20. ASSUME NEW g \in DOMAIN objs \ {h} PROVE objs'[g] = objs[g]
    <3>1. IsFile(vol, own, g)
      BY <1>1, <2>4, <2>18, <2>20, FilesAreFiles
    <3>2. Content(vol', g) = Content(vol, g)
      BY <2>8, <2>20, <3>1 DEF FilesKept, IsFile
    <3>3. objs'[g] = Content(vol', g) /\ objs[g] = Content(vol, g)
      BY <2>17, <2>18, <2>20, ObservedNow, ObservedNext DEF Around
    <3> QED
      BY <3>2, <3>3
  <2>21. CursorOf(fds)' = [CursorOf(fds) EXCEPT ![d] = [obj |-> h, pos |-> pos]]
    BY <1>1, <2>5, <2>8, CursorMoves
  <2>22. CursorOf(fds)[d] = IF e.cluster # 0 THEN [obj |-> e.cluster, pos |-> off] ELSE NoCursor
    BY <2>2 DEF CursorOf
  <2>23. d \in Programs \X Fds
    OBVIOUS
  <2> DEFINE old == IF h \in DOMAIN objs THEN objs[h] ELSE << >>
  <2>24. DOMAIN objs' = DOMAIN objs \cup {h}
    BY <2>17, <2>18
  <2>25. CASE e.cluster = 0
    <3>1. old = << >>
      BY <2>16, <2>18, <2>25
    <3>2. Grown(old, objs'[h], 0, pos)
      <4>1. FirstStored(Content(vol', h), off, buf, pos, off < Slots /\ off + Len(buf) <= Slots)
        BY <2>5, <2>7, <2>25 DEF FileStored
      <4> QED
        BY <2>9, <2>13, <2>19, <3>1, <4>1, FirstGrows
    <3>3. CursorOf(fds)[d] = NoCursor
      BY <2>22, <2>25
    <3> HIDE DEF old, h, pos, off, d
    <3>4. old = IF h \in DOMAIN objs THEN objs[h] ELSE << >>
      BY DEF old
    <3> QED
      BY <2>8, <2>20, <2>21, <2>23, <2>24, <3>2, <3>3, <3>4, StoreIs
  <2>26. CASE e.cluster # 0
    <3>1. old = Content(vol, h) /\ h = e.cluster
      BY <2>15, <2>18, <2>26, ObservedNow DEF Around
    <3>2. old \in Seq(PlainUnits)
      <4>1. own[h] = h
        BY <1>1, <2>4, <2>15, <2>26, FileHeads
      <4> QED
        BY <2>4, <2>8, <3>1, <4>1, ContentUnits
    <3>3. Grown(old, objs'[h], off, pos)
      <4>1. Stored(old, Content(vol', h), off, buf, pos)
        BY <2>5, <2>7, <2>26, <3>1 DEF FileStored
      <4> HIDE DEF old
      <4> QED
        BY <2>2, <2>9, <2>13, <2>19, <3>2, <4>1, StoredGrows
    <3>4. CursorOf(fds)[d] = [obj |-> h, pos |-> off] /\ CursorOf(fds)[d] # NoCursor
      BY <2>8, <2>22, <2>26, <3>1 DEF NoCursor
    <3> HIDE DEF old, h, pos, off, d
    <3>5. old = IF h \in DOMAIN objs THEN objs[h] ELSE << >>
      BY DEF old
    <3> QED
      BY <2>8, <2>20, <2>21, <2>23, <2>24, <3>3, <3>4, <3>5, StoreIs
  <2> QED
    BY <2>25, <2>26
<1> QED
  BY <1>2, <1>3, <1>4

LEMMA StepMoves ==
    ASSUME PlainPaths, Around, FilesStep
    PROVE  Objects!ObjNext
<1>0. TablesOK /\ RefsOK(vol, fds)
  BY DEF Around
<1>1. ASSUME NEW p \in Programs, NEW path \in FilePaths, NEW flags \in Flags, Open(p, path, flags)
      PROVE  Objects!ObjNext
  BY <1>1, OpenMoves
<1>2. ASSUME NEW p \in Programs, NEW accepted \in BOOLEAN, OpenTruncate(p, accepted)
      PROVE  Objects!ObjNext
  BY <1>2, TruncateMoves
<1>3. ASSUME NEW p \in Programs, NEW f \in Fds, NEW t \in Texts,
             Write(p, f, t)
      PROVE  Objects!ObjNext
  BY <1>3, WriteMoves
<1>4. ASSUME NEW p \in Programs, NEW f \in Fds, NEW n \in ReadSizes, Read(p, f, n)
      PROVE  Objects!ObjNext
  <2>1. NoNewRefs
    BY <1>0, <1>4, ReadKeeps
  <2>2. vol' = vol
    BY <1>4 DEF Read
  <2> QED
    BY <2>1, <2>2, StillMoves
<1>5. ASSUME NEW p \in Programs, NEW f \in Fds, NEW accepted \in BOOLEAN, Close(p, f, accepted)
      PROVE  Objects!ObjNext
  BY <1>5, CloseMoves
<1>6. ASSUME NEW p \in Programs, Exit(p) PROVE Objects!ObjNext
  <2>1. NoNewRefs
    BY <1>0, <1>6, ExitKeeps
  <2>2. vol' = vol
    BY <1>6 DEF Exit
  <2> QED
    BY <2>1, <2>2, StillMoves
<1>7. ASSUME NEW p \in Programs, NEW q \in Programs \ {p}, Fork(p, q) PROVE Objects!ObjNext
  <2>1. NoNewRefs
    BY <1>0, <1>7, ForkKeeps
  <2>2. vol' = vol
    BY <1>7 DEF Fork
  <2> QED
    BY <2>1, <2>2, StillMoves
<1>8. ASSUME NEW path \in DeletePaths, Delete(path) PROVE Objects!ObjNext
  BY <1>8, DeleteMoves
<1>9. ASSUME NEW path \in DirPaths, Mkdir(path) PROVE Objects!ObjNext
  BY <1>9, MkdirMoves
<1> QED
  BY <1>1, <1>2, <1>3, <1>4, <1>5, <1>6, <1>7, <1>8, <1>9 DEF FilesStep

LEMMA InitObserved ==
    ASSUME FilesInit
    PROVE  ObserveOK /\ Objects!ObjInit
<1>1. vol = Formatted /\ objs = << >> /\ fds \in Tables
      /\ \A p \in Programs, f \in Fds : ~fds[p][f].inUse
  BY ClosedFacts DEF FilesInit, Tables
<1>2. PICK own : Tree(vol, own)
  BY <1>1, FormattedTree
<1>3. \A h : \A q \in Paths : ~FileAt(vol, q, h)
  BY <1>1, FormattedTree DEF FileAt
<1>4. \A q, h : ~Refers(fds, q, h)
  BY <1>1 DEF Refers
<1>5. FilesOf(vol, fds) = {}
  BY <1>1, <1>2, <1>3, <1>4, FilesOfIs
<1>6. Observed(vol, fds) = << >>
  BY <1>5 DEF Observed
<1>7. CursorOf(fds) = [d \in Programs \X Fds |-> NoCursor]
  BY <1>1 DEF CursorOf
<1>8. Objects!ObjInit
  BY <1>1, <1>7 DEF Objects!ObjInit, CursorOf
<1> QED
  BY <1>1, <1>6, <1>8 DEF ObserveOK

(* open(), read(), write(), close(), fork() and exit of every program, and *)
(* whatever the server does meanwhile with the table, the sectors and the  *)
(* directories, implement files that are objects of their own.             *)
THEOREM FilesAreObjects ==
    ASSUME PlainPaths
    PROVE  FilesSpec => ImplementsObjects
<1>1. FilesInit => ObserveOK /\ Objects!ObjInit
  BY InitObserved
<1>2. ObserveOK /\ [FilesNext]_filesVars => ObserveOK'
  BY DEF ObserveOK, FilesNext, filesVars
<1>3. FilesInv /\ FilesInv' /\ ObserveOK /\ ObserveOK' /\ [FilesNext]_filesVars
      => [Objects!ObjNext]_(Objects!objVars)
  <2> SUFFICES ASSUME FilesInv, FilesInv', ObserveOK, ObserveOK', [FilesNext]_filesVars
               PROVE  [Objects!ObjNext]_(Objects!objVars)
    OBVIOUS
  <2>1. CASE FilesNext
    <3>1. FilesStep
      BY <2>1 DEF FilesNext
    <3>2. Around
      BY DEF Around, FilesInv
    <3> QED
      BY <3>1, <3>2, StepMoves
  <2>2. CASE UNCHANGED filesVars
    BY <2>2 DEF filesVars, Objects!objVars
  <2> QED
    BY <2>1, <2>2
<1>4. FilesSpec => []FilesInv
  BY FilesInvariant
<1>5. FilesSpec => Objects!ObjSpec
  BY <1>1, <1>2, <1>3, <1>4, PTL DEF FilesSpec, Objects!ObjSpec
<1> QED
  BY <1>5 DEF ImplementsObjects

-----------------------------------------------------------------------------
(* What a program that shares a file with nobody reads back.               *)

(* The units s are the first of w: IsPrefix, unit by unit.                 *)
Begins(s, w) == Len(s) <= Len(w) /\ \A i \in 1 .. Len(s) : s[i] = w[i]

LEMMA BeginsPrefix ==
    ASSUME NEW s \in Seq(PlainUnits), NEW w \in Seq(PlainUnits), Begins(s, w)
    PROVE  IsPrefix(s, w)
<1> DEFINE n == Len(s)
<1>1. n \in Nat /\ n <= Len(w) /\ \A i \in 1 .. n : s[i] = w[i]
  BY LenProperties DEF Begins
<1>2. \A i \in 1 .. n : w[i] \in PlainUnits
  <2> SUFFICES ASSUME NEW i \in 1 .. n PROVE w[i] \in PlainUnits
    OBVIOUS
  <2>1. i \in 1 .. Len(w)
    BY <1>1, LenProperties
  <2> QED
    BY <2>1, ElementOfSeq
<1>3. \A i \in 1 .. n : s[i] \in PlainUnits
  BY <1>1, <1>2
<1> HIDE DEF n
<1>4. /\ SubSeq(s, 1, n) \in Seq(PlainUnits) /\ SubSeq(w, 1, n) \in Seq(PlainUnits)
      /\ Len(SubSeq(s, 1, n)) = n /\ Len(SubSeq(w, 1, n)) = n
      /\ \A i \in 1 .. n : SubSeq(s, 1, n)[i] = s[i] /\ SubSeq(w, 1, n)[i] = w[i]
  <2>1. 1 \in Int /\ n \in Int /\ (IF 1 <= n THEN n - 1 + 1 ELSE 0) = n
        /\ n - 1 + 1 = n /\ \A i \in 1 .. n : 1 + i - 1 = i
    BY <1>1
  <2>2. /\ SubSeq(s, 1, n) \in Seq(PlainUnits)
        /\ Len(SubSeq(s, 1, n)) = IF 1 <= n THEN n - 1 + 1 ELSE 0
        /\ \A i \in 1 .. n - 1 + 1 : SubSeq(s, 1, n)[i] = s[1 + i - 1]
    BY <1>3, <2>1, SubSeqProperties
  <2>3. /\ SubSeq(w, 1, n) \in Seq(PlainUnits)
        /\ Len(SubSeq(w, 1, n)) = IF 1 <= n THEN n - 1 + 1 ELSE 0
        /\ \A i \in 1 .. n - 1 + 1 : SubSeq(w, 1, n)[i] = w[1 + i - 1]
    BY <1>2, <2>1, SubSeqProperties
  <2> QED
    BY <2>1, <2>2, <2>3
<1>5. SubSeq(s, 1, n) = SubSeq(w, 1, n)
  BY <1>1, <1>4, SeqEqual
<1> QED
  BY <1>1, <1>5 DEF IsPrefix, n

(* What was read up to the offset goes on with what is read from there.    *)
LEMMA BeginsRead ==
    ASSUME NEW u \in Seq(PlainUnits), NEW s \in Seq(PlainUnits), Begins(s, u),
           NEW off, off = Len(s), NEW len \in Nat,
           NEW got, IsSlice(got, u, off, UpTo(off + len, Len(u)))
    PROVE  Begins(s \o got, u)
<1> DEFINE t == s \o got
           g == Len(got)
           z == Len(u)
           end == UpTo(off + len, z)
<1>1. off \in Nat /\ z \in Nat /\ off <= z /\ \A i \in 1 .. off : s[i] = u[i]
  BY LenProperties DEF Begins
<1>2. /\ got \in Seq(PlainUnits)
      /\ g = IF end > off THEN end - off ELSE 0
      /\ \A i \in 1 .. g : got[i] = u[off + i]
  BY DEF IsSlice
<1>3. Len(t) = off + g /\ \A i \in 1 .. off + g : t[i] = IF i <= off THEN s[i] ELSE got[i - off]
  BY <1>2, ConcatProperties
<1> HIDE DEF z, t
<1>4. end \in Nat /\ end <= z
  BY <1>1 DEF UpTo
<1> HIDE DEF end, g
<1>5. g \in Nat /\ off + g <= z
  <2>1. off \in Nat /\ z \in Nat /\ end \in Nat /\ off <= z /\ end <= z
    BY <1>1, <1>4
  <2>2. CASE end > off
    <3>1. g = end - off
      BY <1>2, <2>1, <2>2
    <3> QED
      BY <2>1, <2>2, <3>1
  <2>3. CASE ~(end > off)
    <3>1. g = 0
      BY <1>2, <2>1, <2>3
    <3> QED
      BY <2>1, <3>1
  <2> QED
    BY <2>2, <2>3
<1>6. ASSUME NEW i \in 1 .. off + g PROVE t[i] = u[i]
  <2>1. CASE i <= off
    BY <1>1, <1>3, <2>1
  <2>2. CASE ~(i <= off)
    <3>1. i - off \in 1 .. g /\ off + (i - off) = i
      BY <1>1, <1>5, <2>2
    <3>2. t[i] = got[i - off]
      BY <1>3, <2>2
    <3> QED
      BY <1>2, <3>1, <3>2
  <2> QED
    BY <2>1, <2>2
<1> QED
  BY <1>3, <1>5, <1>6 DEF Begins, t, z

(* And so it does with what is written from there.                         *)
LEMMA BeginsWritten ==
    ASSUME NEW u \in Seq(PlainUnits), NEW w \in Seq(PlainUnits), NEW s \in Seq(PlainUnits),
           NEW off, off = Len(s), Begins(s, u),
           NEW n \in Nat, NEW units \in Seq(PlainUnits), Len(units) = n,
           NEW buf, \A i \in 1 .. n : units[i] = buf[i],
           Stored(u, w, off, buf, off + n)
    PROVE  Begins(s \o units, w)
<1> DEFINE t == s \o units
           z == Len(w)
<1>1. off \in Nat /\ z \in Nat /\ off <= Len(u) /\ Len(u) \in Nat
      /\ \A i \in 1 .. off : s[i] = u[i]
  BY LenProperties DEF Begins
<1>2. Len(t) = off + n /\ \A i \in 1 .. off + n : t[i] = IF i <= off THEN s[i] ELSE units[i - off]
  BY ConcatProperties
<1> HIDE DEF t
<1>3. /\ Len(u) <= z
      /\ off + n <= z \/ off + n = off
      /\ \A i \in 1 .. z : /\ i <= off => w[i] = OldUnit(u, i)
                           /\ off < i /\ i <= off + n => w[i] = buf[i - off]
  BY DEF Stored
<1> HIDE DEF z
<1>4. off + n <= z
  BY <1>1, <1>3
<1>5. ASSUME NEW i \in 1 .. off + n PROVE t[i] = w[i]
  <2>1. i \in 1 .. z
    BY <1>1, <1>4
  <2>2. CASE i <= off
    <3>1. w[i] = OldUnit(u, i) /\ i <= Len(u)
      BY <1>1, <1>3, <2>1, <2>2
    <3>2. w[i] = u[i]
      BY <3>1 DEF OldUnit
    <3> QED
      BY <1>1, <1>2, <2>2, <3>2
  <2>3. CASE ~(i <= off)
    <3>1. i - off \in 1 .. n /\ off < i /\ i <= off + n
      BY <1>1, <2>3
    <3>2. t[i] = units[i - off] /\ w[i] = buf[i - off]
      BY <1>2, <1>3, <2>1, <2>3, <3>1
    <3> QED
      BY <3>1, <3>2
  <2> QED
    BY <2>2, <2>3
<1> QED
  BY <1>1, <1>2, <1>4, <1>5 DEF Begins, t, z

(* What a descriptor that is not shared knows is how its file begins.      *)
SlotKnown(v, e) ==
    e.sole /\ e.offset > 0 => /\ e.cluster # 0 /\ Begins(e.text, Content(v, e.cluster))
                              /\ e.offset <= e.size

(* Whoever does not share a path is the only one to have it open.          *)
AloneIn(table) ==
    \A p, q \in Programs, f, g \in Fds :
        /\ table[p][f].inUse /\ table[p][f].sole
        /\ table[q][g].inUse /\ table[q][g].path = table[p][f].path
        => p = q /\ f = g

(* A file is truncated before anything is read or written through the      *)
(* descriptor.                                                             *)
Waiting == \A p \in Programs : truncating[p] # NoFd => fds[p][truncating[p]].offset = 0

AllKnown(v, table) ==
    \A p \in Programs, f \in Fds : table[p][f].inUse => SlotKnown(v, table[p][f])

KnownOK == AloneIn(fds) /\ Waiting /\ AllKnown(vol, fds)

LEMMA SharedOffset ==
    ASSUME NEW e \in OpenSlots
    PROVE  /\ Shared(e).offset = e.offset /\ ~Shared(e).sole
           /\ \A v : SlotKnown(v, Shared(e))
<1>1. Shared(e).offset = e.offset /\ Shared(e).sole = FALSE
  BY DEF Shared, OpenSlots
<1> QED
  BY <1>1 DEF SlotKnown

(* A step leaves what is known of a file when it leaves the file alone.    *)
LEMMA StaysKnown ==
    ASSUME TablesOK, NEW own, Tree(vol, own), HeldAll(vol, own, fds), NEW v2, NEW h,
           FilesKept(vol, v2, own, h), NEW p \in Programs, NEW f \in Fds, NEW e, e = fds[p][f],
           e.inUse, SlotKnown(vol, e), e.sole => e.cluster = 0 \/ e.cluster # h
    PROVE  SlotKnown(v2, e)
<1> SUFFICES ASSUME e.sole, e.offset > 0, e.cluster # 0
             PROVE  Content(v2, e.cluster) = Content(vol, e.cluster)
  BY DEF SlotKnown
<1>1. fds \in Tables
  BY DEF TablesOK
<1>2. Refers(fds, e.path, e.cluster) /\ e.cluster \in Clusters
  BY <1>1, RefersSlot, TableSlot, SlotFacts
<1>3. e.cluster \in FilesOf(vol, fds)
  BY <1>1, <1>2, FilesOfIs
<1>4. IsFile(vol, own, e.cluster)
  BY <1>1, <1>3, FilesAreFiles
<1> QED
  BY <1>2, <1>4 DEF FilesKept

(* A step that changes no descriptor that is not shared.                   *)
LEMMA QuietKnown ==
    ASSUME TablesOK, RefsOK(vol, fds), KnownOK, NEW changed, NEW new, Quiet(changed, new, 0),
           NEW p \in Programs, NEW f \in Fds, fds[p][f].inUse
    PROVE  SlotKnown(vol', fds[p][f])
<1>1. PICK own : Tree(vol, own) /\ HeldAll(vol, own, fds) /\ FilesKept(vol, vol', own, 0)
  BY DEF Quiet
<1>2. SlotKnown(vol, fds[p][f])
  BY DEF KnownOK, AllKnown
<1> QED
  BY <1>1, <1>2, StaysKnown

(* The changes of one slot.                                                *)
SameFile(e, e2) == e2.inUse => e2.path = e.path /\ (e2.sole => e.sole)

LEMMA SlotAlone ==
    ASSUME fds \in Tables, AloneIn(fds), NEW p \in Programs, NEW f \in Fds,
           fds[p][f].inUse, NEW e2 \in GoodSlots, SameFile(fds[p][f], e2),
           fds' = WithSlot(fds, p, f, e2)
    PROVE  AloneIn(fds')
<1>1. \A s \in Programs, g \in Fds : fds'[s][g] = IF s = p /\ g = f THEN e2 ELSE fds[s][g]
  BY DEF WithSlot, Tables
<1>2. ASSUME NEW s \in Programs, NEW g \in Fds, fds'[s][g].inUse
      PROVE  /\ fds[s][g].inUse /\ fds'[s][g].path = fds[s][g].path
             /\ fds'[s][g].sole => fds[s][g].sole
  <2>1. CASE s = p /\ g = f
    <3>1. fds'[s][g] = e2
      BY <1>1, <2>1
    <3> QED
      BY <1>2, <2>1, <3>1 DEF SameFile
  <2>2. CASE ~(s = p /\ g = f)
    <3>1. fds'[s][g] = fds[s][g]
      BY <1>1, <2>2
    <3> QED
      BY <1>2, <3>1
  <2> QED
    BY <2>1, <2>2
<1> QED
  BY <1>2 DEF AloneIn

LEMMA SlotStep ==
    ASSUME TablesOK, KnownOK, NEW p \in Programs, NEW f \in Fds, fds[p][f].inUse,
           NEW e2 \in GoodSlots, SameFile(fds[p][f], e2), fds' = WithSlot(fds, p, f, e2),
           truncating' \in [Programs -> Fds \cup {NoFd}], truncating'[p] = NoFd,
           \A q \in Programs \ {p} : truncating'[q] = truncating[q],
           e2.inUse => SlotKnown(vol', e2),
           \A q \in Programs, g \in Fds :
               fds[q][g].inUse /\ ~(q = p /\ g = f) => SlotKnown(vol', fds[q][g])
    PROVE  KnownOK'
<1>1. fds \in Tables
  BY DEF TablesOK
<1>2. \A s \in Programs, g \in Fds : fds'[s][g] = IF s = p /\ g = f THEN e2 ELSE fds[s][g]
  BY <1>1 DEF WithSlot, Tables
<1>3. AloneIn(fds')
  BY <1>1, SlotAlone DEF KnownOK
<1>4. AllKnown(vol', fds')
  <2> SUFFICES ASSUME NEW q \in Programs, NEW g \in Fds, fds'[q][g].inUse
               PROVE  SlotKnown(vol', fds'[q][g])
    BY DEF AllKnown
  <2>1. CASE q = p /\ g = f
    <3>1. fds'[q][g] = e2
      BY <1>2, <2>1
    <3> QED
      BY <3>1
  <2>2. CASE ~(q = p /\ g = f)
    <3>1. fds'[q][g] = fds[q][g]
      BY <1>2, <2>2
    <3> QED
      BY <2>2, <3>1
  <2> QED
    BY <2>1, <2>2
<1>5. Waiting'
  <2> SUFFICES ASSUME NEW q \in Programs, truncating'[q] # NoFd
               PROVE  fds'[q][truncating'[q]].offset = 0
    BY DEF Waiting
  <2>1. q # p /\ truncating'[q] = truncating[q] /\ truncating'[q] \in Fds
    OBVIOUS
  <2>2. fds'[q][truncating'[q]] = fds[q][truncating[q]]
    BY <1>2, <2>1
  <2> QED
    BY <2>1, <2>2 DEF KnownOK, Waiting
<1> QED
  BY <1>3, <1>4, <1>5 DEF KnownOK

(* A step that leaves the descriptors as they are.                         *)
LEMMA TableStep ==
    ASSUME KnownOK, fds' = fds, truncating' = truncating,
           \A q \in Programs, g \in Fds : fds[q][g].inUse => SlotKnown(vol', fds[q][g])
    PROVE  KnownOK'
<1>1. AllKnown(vol', fds')
  BY DEF AllKnown
<1>2. AloneIn(fds') /\ Waiting'
  BY DEF KnownOK, Waiting
<1> QED
  BY <1>1, <1>2 DEF KnownOK

LEMMA CloseKnown ==
    ASSUME PlainPaths, TablesOK, RefsOK(vol, fds), KnownOK, TablesOK', NEW p \in Programs,
           NEW f \in Fds, NEW accepted \in BOOLEAN, Close(p, f, accepted)
    PROVE  KnownOK'
<1>1. Quiet({fds[p][f].path}, fds[p][f].cluster, 0)
  BY CloseQuiet
<1>2. \A q \in Programs, g \in Fds : fds[q][g].inUse => SlotKnown(vol', fds[q][g])
  BY <1>1, QuietKnown
<1>3. /\ fds[p][f].inUse /\ truncating[p] = NoFd /\ truncating' = truncating
      /\ fds' = WithSlot(fds, p, f, Closed)
  BY DEF Close, WithSlot
<1>4. Closed \in GoodSlots /\ ~Closed.inUse
  BY ClosedFacts
<1>5. SameFile(fds[p][f], Closed)
  BY <1>4 DEF SameFile
<1>6. truncating' \in [Programs -> Fds \cup {NoFd}]
  BY DEF TablesOK
<1> QED
  BY <1>2, <1>3, <1>4, <1>5, <1>6, SlotStep

LEMMA MkdirKnown ==
    ASSUME PlainPaths, TablesOK, RefsOK(vol, fds), KnownOK, NEW path \in DirPaths, Mkdir(path)
    PROVE  KnownOK'
<1>1. Quiet({}, 0, 0)
  BY MkdirQuiet
<1>2. \A q \in Programs, g \in Fds : fds[q][g].inUse => SlotKnown(vol', fds[q][g])
  BY <1>1, QuietKnown
<1> QED
  BY <1>2, TableStep DEF Mkdir

LEMMA DeleteKnown ==
    ASSUME PlainPaths, TablesOK, RefsOK(vol, fds), KnownOK, NEW path \in DeletePaths, Delete(path)
    PROVE  KnownOK'
<1> DEFINE h == At(vol, path).cluster
<1>1. PICK own : Tree(vol, own) /\ HeldAll(vol, own, fds) /\ Removed(vol, vol', own, path)
  BY DeleteQuiet
<1>2. path \in Paths /\ Using(path) = {} /\ fds' = fds /\ truncating' = truncating
  BY FilesAssumption DEF Delete
<1>3. FilesKept(vol, vol', own, h) /\ At(vol, path) # NoEntry
  BY <1>1 DEF Removed
<1>4. ASSUME NEW q \in Programs, NEW g \in Fds, fds[q][g].inUse PROVE SlotKnown(vol', fds[q][g])
  <2> DEFINE e == fds[q][g]
  <2>1. Held(vol, own, e.path, e.cluster) /\ Refers(fds, e.path, e.cluster)
    BY <1>1, <1>4, SlotHeld, RefersSlot
  <2>2. e.cluster = 0 \/ e.cluster # h
    <3> SUFFICES ASSUME e.cluster # 0, e.cluster = h PROVE FALSE
      OBVIOUS
    <3>1. e.path = path
      BY <1>2, <1>3, <2>1 DEF Held, MayPoint, OnlyAt
    <3> QED
      BY <1>2, <2>1, <3>1, RefersUsing
  <2>3. SlotKnown(vol, e)
    BY <1>4 DEF KnownOK, AllKnown
  <2> HIDE DEF h
  <2> QED
    BY <1>1, <1>3, <1>4, <2>2, <2>3, StaysKnown
<1> QED
  BY <1>2, <1>4, TableStep

LEMMA ExitKnown ==
    ASSUME TablesOK, KnownOK, NEW p \in Programs, Exit(p)
    PROVE  KnownOK'
<1> DEFINE row == [f \in Fds |-> Closed]
<1>1. /\ fds' = [fds EXCEPT ![p] = row] /\ vol' = vol
      /\ truncating' = [truncating EXCEPT ![p] = NoFd]
  BY DEF Exit
<1>2. \A f \in Fds : ~row[f].inUse
  BY ClosedFacts
<1> HIDE DEF row
<1>3. fds \in Tables /\ truncating \in [Programs -> Fds \cup {NoFd}]
  BY DEF TablesOK
<1>4. fds'[p] = row /\ \A q \in Programs : q # p => fds'[q] = fds[q]
  BY <1>1, <1>3 DEF Tables
<1>5. \A q \in Programs, g \in Fds : fds'[q][g].inUse => q # p /\ fds'[q][g] = fds[q][g]
  BY <1>2, <1>4
<1>6. AloneIn(fds')
  BY <1>5 DEF AloneIn, KnownOK
<1>7. AllKnown(vol', fds')
  BY <1>1, <1>5 DEF AllKnown, KnownOK
<1>8. Waiting'
  <2> SUFFICES ASSUME NEW q \in Programs, truncating'[q] # NoFd
               PROVE  fds'[q][truncating'[q]].offset = 0
    BY DEF Waiting
  <2>1. q # p /\ truncating'[q] = truncating[q]
    BY <1>1, <1>3
  <2>2. fds'[q] = fds[q]
    BY <1>4, <2>1
  <2> QED
    BY <2>1, <2>2 DEF KnownOK, Waiting
<1> QED
  BY <1>6, <1>7, <1>8 DEF KnownOK

LEMMA ForkKnown ==
    ASSUME TablesOK, KnownOK, NEW p \in Programs, NEW q \in Programs \ {p}, Fork(p, q)
    PROVE  KnownOK'
<1> DEFINE row == [f \in Fds |-> IF fds[p][f].inUse THEN Shared(fds[p][f]) ELSE Closed]
<1>1. /\ fds' = [fds EXCEPT ![p] = row, ![q] = row] /\ vol' = vol
      /\ extent[q] = [f \in Fds |-> 0]
      /\ truncating' = truncating /\ truncating[p] = NoFd
  BY DEF Fork
<1>2. fds \in Tables /\ truncating \in [Programs -> Fds \cup {NoFd}]
  BY DEF TablesOK
<1>3. ASSUME NEW f \in Fds, row[f].inUse
      PROVE  /\ fds[p][f].inUse /\ row[f].path = fds[p][f].path
             /\ ~row[f].sole /\ SlotKnown(vol, row[f])
  <2>1. fds[p][f].inUse
    <3> SUFFICES ASSUME ~fds[p][f].inUse PROVE FALSE
      OBVIOUS
    <3>1. row[f] = Closed
      OBVIOUS
    <3> QED
      BY <1>3, <3>1, ClosedFacts
  <2>2. row[f] = Shared(fds[p][f]) /\ fds[p][f] \in OpenSlots
    BY <1>2, <2>1, TableSlot, SlotFacts
  <2> QED
    BY <2>1, <2>2, SharedFacts, SharedOffset
<1> HIDE DEF row
<1>4. /\ fds'[p] = row /\ fds'[q] = row
      /\ \A s \in Programs : s # p /\ s # q => fds'[s] = fds[s]
  BY <1>1, <1>2 DEF Tables
<1>5. \A f \in Fds : ~fds[q][f].inUse
  BY <1>1 DEF TablesOK
<1>6. truncating[q] = NoFd
  BY <1>2, <1>5 DEF TablesOK
<1>7. \A s \in Programs, f \in Fds : fds'[s][f].inUse /\ fds'[s][f].sole =>
          s # p /\ s # q /\ fds'[s][f] = fds[s][f]
  BY <1>3, <1>4
<1>8. ASSUME NEW t \in Programs, NEW f \in Fds, fds'[t][f].inUse
      PROVE  \/ fds'[t][f] = fds[t][f]
             \/ fds[p][f].inUse /\ fds[p][f].path = fds'[t][f].path
  <2>1. CASE t = p \/ t = q
    <3>1. fds'[t][f] = row[f]
      BY <1>4, <2>1
    <3> QED
      BY <1>3, <1>8, <3>1
  <2>2. CASE t # p /\ t # q
    BY <1>4, <2>2
  <2> QED
    BY <2>1, <2>2
<1>9. AloneIn(fds')
  <2> SUFFICES ASSUME NEW s \in Programs, NEW t \in Programs, NEW f \in Fds, NEW g \in Fds,
                      fds'[s][f].inUse, fds'[s][f].sole,
                      fds'[t][g].inUse, fds'[t][g].path = fds'[s][f].path
               PROVE  s = t /\ f = g
    BY DEF AloneIn
  <2>1. s # p /\ s # q /\ fds'[s][f] = fds[s][f]
    BY <1>7
  <2>2. CASE fds'[t][g] = fds[t][g]
    BY <2>1, <2>2 DEF KnownOK, AloneIn
  <2>3. CASE fds[p][g].inUse /\ fds[p][g].path = fds'[t][g].path
    BY <2>1, <2>3 DEF KnownOK, AloneIn
  <2> QED
    BY <1>8, <2>2, <2>3
<1>10. AllKnown(vol', fds')
  <2> SUFFICES ASSUME NEW s \in Programs, NEW f \in Fds, fds'[s][f].inUse
               PROVE  SlotKnown(vol', fds'[s][f])
    BY DEF AllKnown
  <2>1. CASE s = p \/ s = q
    BY <1>1, <1>3, <1>4, <2>1
  <2>2. CASE s # p /\ s # q
    BY <1>1, <1>4, <2>2 DEF KnownOK, AllKnown
  <2> QED
    BY <2>1, <2>2
<1>11. Waiting'
  <2> SUFFICES ASSUME NEW s \in Programs, truncating'[s] # NoFd
               PROVE  fds'[s][truncating'[s]].offset = 0
    BY DEF Waiting
  <2>1. s # p /\ s # q
    BY <1>1, <1>6
  <2> QED
    BY <1>1, <1>4, <2>1 DEF KnownOK, Waiting
<1> QED
  BY <1>9, <1>10, <1>11 DEF KnownOK

LEMMA TruncateKnown ==
    ASSUME PlainPaths, TablesOK, RefsOK(vol, fds), KnownOK, TablesOK', NEW p \in Programs,
           NEW accepted \in BOOLEAN, OpenTruncate(p, accepted)
    PROVE  KnownOK'
<1> DEFINE f == truncating[p]
           e == fds[p][f]
           path == e.path
           h == At(vol, path).cluster
           e2 == [e EXCEPT !.size = 0]
<1>1. /\ f # NoFd /\ fds' = [fds EXCEPT ![p] = [@ EXCEPT ![f] = e2]]
      /\ truncating' = [truncating EXCEPT ![p] = NoFd]
  BY DEF OpenTruncate
<1>2. fds \in Tables /\ f \in Fds /\ e.inUse
      /\ truncating \in [Programs -> Fds \cup {NoFd}]
  BY <1>1 DEF TablesOK
<1>3. e \in OpenSlots /\ e.offset = 0
  BY <1>1, <1>2, TableSlot, SlotFacts DEF KnownOK, Waiting
<1>4. /\ e2.path = e.path /\ e2.sole = e.sole /\ e2.offset = 0
  BY <1>3 DEF OpenSlots
<1> HIDE DEF e2
<1>5. fds' = WithSlot(fds, p, f, e2)
  BY <1>1 DEF WithSlot
<1>6. fds'[p][f] = e2 /\ e2 \in GoodSlots
  <2>1. fds'[p][f] = e2
    BY <1>1, <1>2 DEF Tables
  <2>2. fds' \in Tables
    BY DEF TablesOK
  <2> QED
    BY <1>2, <2>1, <2>2, TableSlot
<1>7. SameFile(e, e2) /\ SlotKnown(vol', e2)
  BY <1>4 DEF SameFile, SlotKnown
<1>8. vol' = vol \/ \E own : /\ Tree(vol, own) /\ HeldAll(vol, own, fds)
                             /\ Truncated(vol, vol', own, path, h)
  BY TruncateQuiet
<1>9. ASSUME NEW q \in Programs, NEW g \in Fds, fds[q][g].inUse, ~(q = p /\ g = f)
      PROVE  SlotKnown(vol', fds[q][g])
  <2> DEFINE x == fds[q][g]
  <2>1. SlotKnown(vol, x)
    BY <1>9 DEF KnownOK, AllKnown
  <2>2. CASE vol' = vol
    BY <2>1, <2>2
  <2>3. CASE vol' # vol
    <3>1. PICK own : /\ Tree(vol, own) /\ HeldAll(vol, own, fds)
                     /\ Truncated(vol, vol', own, path, h)
      BY <1>8, <2>3
    <3>2. FilesKept(vol, vol', own, h)
      BY <3>1 DEF Truncated
    <3>3. Held(vol, own, x.path, x.cluster)
      BY <1>9, <3>1, SlotHeld
    <3>4. path \in Paths /\ At(vol, path) # NoEntry
      BY <1>2, <3>1, SlotHeld
    <3>5. ASSUME x.sole, x.cluster # 0, x.cluster = h PROVE FALSE
      <4>1. x.path = path
        BY <3>3, <3>4, <3>5 DEF Held, MayPoint, OnlyAt
      <4> QED
        BY <1>2, <1>9, <3>5, <4>1 DEF KnownOK, AloneIn
    <3> HIDE DEF h, path
    <3> QED
      BY <1>9, <2>1, <3>1, <3>2, <3>5, StaysKnown
  <2> QED
    BY <2>2, <2>3
<1>10. truncating' \in [Programs -> Fds \cup {NoFd}] /\ truncating'[p] = NoFd
       /\ \A q \in Programs \ {p} : truncating'[q] = truncating[q]
  BY <1>1, <1>2
<1> HIDE DEF f
<1> QED
  BY <1>2, <1>5, <1>6, <1>7, <1>9, <1>10, SlotStep

LEMMA KnownBegins ==
    ASSUME NEW v, NEW e \in GoodSlots, e.inUse, e.sole, SlotKnown(v, e), NEW u,
           u \in Seq(PlainUnits), u = Content(v, e.cluster) \/ e.offset = 0
    PROVE  /\ e.text \in Seq(PlainUnits) /\ Len(e.text) = e.offset /\ e.offset \in Nat
           /\ Begins(e.text, u)
<1>1. e.text \in Seq(PlainUnits) /\ e.offset \in Nat /\ Len(e.text) = e.offset
  BY SlotFacts, FilesAssumption
<1>2. CASE e.offset = 0
  <2>1. Len(u) \in Nat
    BY LenProperties
  <2> QED
    BY <1>1, <1>2, <2>1 DEF Begins
<1>3. CASE e.offset # 0
  <2>1. e.offset > 0
    BY <1>1, <1>3
  <2> QED
    BY <1>1, <1>3, <2>1 DEF SlotKnown
<1> QED
  BY <1>1, <1>2, <1>3

LEMMA ReadKnown ==
    ASSUME TablesOK, RefsOK(vol, fds), KnownOK, TablesOK', NEW p \in Programs, NEW f \in Fds,
           NEW n \in ReadSizes, Read(p, f, n)
    PROVE  KnownOK'
<1> DEFINE e == fds[p][f]
           len == Min({n, e.size - e.offset})
           got == ReadFile(vol, e.cluster, e.offset, len)
           e2 == [[e EXCEPT !.offset = @ + Len(got)] EXCEPT !.text = Knows(e, got)]
<1>1. /\ e.inUse /\ e.offset < e.size /\ truncating[p] = NoFd
      /\ fds' = [fds EXCEPT ![p][f].offset = @ + Len(got), ![p][f].text = Knows(e, got)]
      /\ vol' = vol /\ truncating' = truncating
  BY DEF Read
<1>2. fds \in Tables /\ truncating \in [Programs -> Fds \cup {NoFd}] /\ fds' \in Tables
  BY DEF TablesOK
<1>3. e \in GoodSlots /\ e \in OpenSlots /\ e.cluster \in Clusters \cup {0}
      /\ e.offset \in Nat /\ e.size \in Nat
  BY <1>1, <1>2, TableSlot, SlotFacts, FilesAssumption
<1>4. fds' = WithSlot(fds, p, f, e2)
  BY <1>1, <1>2, ZenonT(30) DEF WithSlot, Tables
<1>5. len \in Nat /\ len <= e.size - e.offset
  <2> DEFINE z == e.size - e.offset
  <2>1. z \in Nat /\ n \in Nat
    <3> HIDE DEF e
    <3>1. n \in Nat
      BY Zenon, FilesAssumption
    <3>2. z \in Nat
      BY <1>1, <1>3, SMTT(30)
    <3> QED
      BY <3>1, <3>2
  <2> HIDE DEF z
  <2>2. Min({n, z}) = IF n <= z THEN n ELSE z
    BY <2>1, MinTwo
  <2> QED
    BY <2>1, <2>2 DEF z
<1>6. PICK own : Tree(vol, own) /\ HeldAll(vol, own, fds)
  BY DEF RefsOK
<1>7. e.cluster # 0 => own[e.cluster] = e.cluster
  BY <1>1, <1>6, SlotHeld DEF Held, MayPoint
<1> HIDE DEF len
<1>8. /\ e2.offset = e.offset + Len(got) /\ e2.text = Knows(e, got)
      /\ e2.sole = e.sole /\ e2.path = e.path /\ e2.cluster = e.cluster
      /\ e2.size = e.size
  BY <1>3 DEF OpenSlots
<1> HIDE DEF e2
<1>9. e2 \in GoodSlots
  <2>1. fds'[p][f] = e2
    BY <1>2, <1>4 DEF WithSlot, Tables
  <2> QED
    BY <1>2, <2>1, TableSlot
<1>10. SlotKnown(vol, e)
  BY <1>1 DEF KnownOK, AllKnown
<1>11. SlotKnown(vol, e2)
  <2> SUFFICES ASSUME e2.sole, e2.offset > 0
               PROVE  /\ e.cluster # 0 /\ Begins(e2.text, Content(vol, e.cluster))
                      /\ e.offset + Len(got) <= e.size
    BY <1>8 DEF SlotKnown
  <2>1. e.sole /\ e2.text = e.text \o got
    BY <1>8 DEF Knows
  <2>2. e.cluster # 0
    <3> SUFFICES ASSUME e.cluster = 0 PROVE FALSE
      OBVIOUS
    <3>1. got = << >>
      BY DEF ReadFile
    <3>2. Len(got) = 0
      BY <3>1
    <3>3. e.offset > 0
      BY <1>3, <1>8, <3>2
    <3> QED
      BY <1>10, <2>1, <3>3 DEF SlotKnown
  <2> DEFINE u == Content(vol, e.cluster)
             off == e.offset
             s == e.text
  <2>3. vol \in Volumes /\ Labelled(vol, own)
    BY <1>6 DEF Tree
  <2>4. u \in Seq(PlainUnits)
    BY <1>3, <1>6, <1>7, <2>2, ContentUnits
  <2>5. IsSlice(got, u, off, UpTo(off + len, Len(u)))
    BY <1>3, <1>5, <1>7, <2>2, <2>3, ReadSlice
  <2>6. s \in Seq(PlainUnits) /\ off = Len(s) /\ Begins(s, u)
    BY <1>1, <1>3, <1>10, <2>1, <2>4, KnownBegins
  <2>8. off \in Nat /\ e.size \in Nat
    BY <1>3
  <2> HIDE DEF u, off, s, got
  <2>7. Begins(s \o got, u)
    BY <1>5, <2>4, <2>5, <2>6, BeginsRead
  <2>9. off + Len(got) <= e.size
    <3> DEFINE z == e.size
               g == Len(got)
    <3>1. len \in Nat /\ len <= z - off /\ off \in Nat /\ z \in Nat /\ Len(u) \in Nat
      BY <1>5, <2>4, <2>8, LenProperties DEF off
    <3>2. g = IF UpTo(off + len, Len(u)) > off THEN UpTo(off + len, Len(u)) - off ELSE 0
      BY <2>5 DEF IsSlice
    <3> HIDE DEF g, z
    <3>3. off + g <= z
      BY <3>1, <3>2 DEF UpTo
    <3> QED
      BY <3>3 DEF g, z
  <2> QED
    BY <2>1, <2>2, <2>7, <2>9 DEF u, s, off
<1>12. SameFile(e, e2)
  BY <1>8 DEF SameFile
<1>13. \A q \in Programs, g \in Fds : fds[q][g].inUse => SlotKnown(vol', fds[q][g])
  BY <1>1 DEF KnownOK, AllKnown
<1> HIDE DEF got
<1> QED
  BY <1>1, <1>2, <1>4, <1>9, <1>11, <1>12, <1>13, SlotStep

LEMMA PositionedKnown ==
    ASSUME NEW v, NEW own, Tree(v, own), NEW path \in FilePaths, NEW cl \in Clusters \cup {0},
           cl # 0 => own[cl] = cl, NEW size \in 0 .. MaxOffset, NEW flags,
           NEW e, e = Opened(path, cl, size), NEW e2, e2 = Positioned(v, e, flags)
    PROVE  SlotKnown(v, e) /\ SlotKnown(v, e2)
<1> DEFINE got == ReadFile(v, cl, 0, size)
<1>1. e \in OpenSlots /\ e.cluster = cl /\ e.size = size /\ e.offset = 0 /\ size \in Nat
  BY OpenedFacts, FilesAssumption DEF Opened
<1>2. SlotKnown(v, e)
  BY <1>1 DEF SlotKnown
<1>3. CASE e2 = e
  BY <1>2, <1>3
<1>4. CASE e2 # e
  <2>1. e2 = AtEnd(e, got)
    BY <1>1, <1>4 DEF Positioned
  <2>2. CASE Len(got) = size
    <3>1. e2 = [e EXCEPT !.offset = size, !.text = got]
      BY <1>1, <2>1, <2>2 DEF AtEnd
    <3>2. e2.cluster = cl /\ e2.offset = size /\ e2.text = got /\ e2.size = size
      BY <1>1, <3>1 DEF OpenSlots
    <3> SUFFICES ASSUME size > 0 PROVE cl # 0 /\ Begins(got, Content(v, cl))
      BY <1>1, <1>2, <3>2 DEF SlotKnown
    <3>3. cl # 0
      <4> SUFFICES ASSUME cl = 0 PROVE FALSE
        OBVIOUS
      <4>1. got = << >>
        BY DEF ReadFile
      <4>2. Len(got) = 0
        BY <4>1
      <4> QED
        BY <2>2, <4>2
    <3> DEFINE u == Content(v, cl)
               z == << >>
    <3>4. u \in Seq(PlainUnits)
      BY <3>3, ContentUnits
    <3>5. IsSlice(got, u, 0, UpTo(0 + size, Len(u)))
      BY <1>1, <3>3, ReadSlice DEF Tree
    <3>6. z \in Seq(PlainUnits) /\ 0 = Len(z) /\ Begins(z, u)
      <4>1. z \in Seq(PlainUnits) /\ 0 = Len(z)
        OBVIOUS
      <4>2. Len(u) \in Nat
        BY <3>4, LenProperties
      <4> QED
        BY <4>1, <4>2 DEF Begins
    <3>7. got \in Seq(PlainUnits)
      BY <3>5 DEF IsSlice
    <3>8. z \o got = got
      BY <3>7, ConcatEmptySeq
    <3> HIDE DEF u, z, got
    <3>9. Begins(z \o got, u)
      BY <1>1, <3>4, <3>5, <3>6, BeginsRead
    <3> QED
      BY <3>3, <3>8, <3>9 DEF u
  <2>3. CASE Len(got) # size
    <3> DEFINE g == [e EXCEPT !.offset = e.size]
    <3>1. e2 = Shared(g)
      BY <1>1, <2>1, <2>3 DEF AtEnd
    <3>2. g \in OpenSlots
      BY <1>1 DEF OpenSlots
    <3> HIDE DEF g
    <3> QED
      BY <1>2, <3>1, <3>2, SharedOffset
  <2> QED
    BY <2>2, <2>3
<1> QED
  BY <1>3, <1>4

LEMMA OpenedAlone ==
    ASSUME fds \in Tables, AloneIn(fds), NEW p \in Programs, NEW f \in Fds,
           NEW g \in GoodSlots, g.inUse, NEW t, t = WithOpened(p, f, g)
    PROVE  AloneIn(t)
<1> DEFINE path == g.path
<1>1. g \in OpenSlots
  BY SlotFacts
<1>2. ASSUME NEW q \in Programs, NEW x \in Fds
      PROVE  t[q][x] = IF q = p /\ x = f
                       THEN IF Using(path) = {} THEN g ELSE Shared(g)
                       ELSE IF <<q, x>> \in Using(path) THEN Shared(fds[q][x])
                       ELSE fds[q][x]
  BY DEF WithOpened
<1>3. \A q \in Programs, x \in Fds :
          <<q, x>> \in Using(path) <=> fds[q][x].inUse /\ fds[q][x].path = path
  BY DEF Using
<1>4. ASSUME NEW q \in Programs, NEW x \in Fds, t[q][x].inUse
      PROVE  \/ q = p /\ x = f /\ t[q][x].path = path
             \/ fds[q][x].inUse /\ t[q][x].path = fds[q][x].path
  <2>1. CASE q = p /\ x = f
    <3>1. t[q][x] = g \/ t[q][x] = Shared(g)
      BY <1>2, <2>1
    <3> QED
      BY <1>1, <2>1, <3>1, SharedFacts
  <2>2. CASE ~(q = p /\ x = f)
    <3>1. CASE <<q, x>> \in Using(path)
      <4>1. t[q][x] = Shared(fds[q][x])
        BY <1>2, <2>2, <3>1
      <4>2. fds[q][x].inUse /\ fds[q][x] \in OpenSlots
        BY <1>3, <3>1, TableSlot, SlotFacts
      <4> QED
        BY <4>1, <4>2, SharedFacts
    <3>2. CASE <<q, x>> \notin Using(path)
      <4>1. t[q][x] = fds[q][x]
        BY <1>2, <2>2, <3>2
      <4> QED
        BY <1>4, <4>1
    <3> QED
      BY <3>1, <3>2
  <2> QED
    BY <2>1, <2>2
<1>5. ASSUME NEW q \in Programs, NEW x \in Fds, t[q][x].inUse, t[q][x].sole
      PROVE  \/ q = p /\ x = f /\ t[q][x].path = path /\ Using(path) = {}
             \/ /\ t[q][x] = fds[q][x] /\ <<q, x>> \notin Using(path)
                /\ ~(q = p /\ x = f)
  <2>1. CASE q = p /\ x = f
    <3>1. CASE Using(path) = {}
      BY <1>2, <2>1, <3>1
    <3>2. CASE Using(path) # {}
      <4>1. t[q][x] = Shared(g)
        BY <1>2, <2>1, <3>2
      <4>2. ~t[q][x].sole
        BY <1>1, <4>1, SharedOffset
      <4> QED
        BY <1>5, <4>2
    <3> QED
      BY <3>1, <3>2
  <2>2. CASE ~(q = p /\ x = f)
    <3>1. CASE <<q, x>> \in Using(path)
      <4>1. t[q][x] = Shared(fds[q][x])
        BY <1>2, <2>2, <3>1
      <4>2. fds[q][x] \in OpenSlots
        BY <1>3, <3>1, TableSlot, SlotFacts
      <4>3. ~t[q][x].sole
        BY <4>1, <4>2, SharedOffset
      <4> QED
        BY <1>5, <4>3
    <3>2. CASE <<q, x>> \notin Using(path)
      BY <1>2, <2>2, <3>2
    <3> QED
      BY <3>1, <3>2
  <2> QED
    BY <2>1, <2>2
<1> SUFFICES ASSUME NEW q \in Programs, NEW r \in Programs, NEW x \in Fds, NEW y \in Fds,
                    t[q][x].inUse, t[q][x].sole, t[r][y].inUse, t[r][y].path = t[q][x].path
             PROVE  q = r /\ x = y
  BY DEF AloneIn
<1> HIDE DEF path
<1>6. CASE q = p /\ x = f /\ t[q][x].path = path /\ Using(path) = {}
  <2>1. ~(fds[r][y].inUse /\ fds[r][y].path = path)
    BY <1>3, <1>6
  <2> QED
    BY <1>4, <1>6, <2>1
<1>7. CASE t[q][x] = fds[q][x] /\ <<q, x>> \notin Using(path) /\ ~(q = p /\ x = f)
  <2>1. fds[q][x].inUse /\ fds[q][x].sole /\ fds[q][x].path # path
    BY <1>3, <1>7
  <2>2. fds[r][y].inUse /\ t[r][y].path = fds[r][y].path
    BY <1>4, <1>7, <2>1
  <2> QED
    BY <1>7, <2>1, <2>2 DEF AloneIn
<1> QED
  BY <1>5, <1>6, <1>7

LEMMA OpenKnown ==
    ASSUME PlainPaths, TablesOK, RefsOK(vol, fds), KnownOK, NEW p \in Programs,
           NEW path \in FilePaths, NEW flags, Open(p, path, flags)
    PROVE  KnownOK'
<1>1. Quiet({}, 0, 0) /\ Opening(p, path, flags)
  BY OpenQuiet, OpenKeeps
<1>2. \A q \in Programs, x \in Fds : fds[q][x].inUse => SlotKnown(vol', fds[q][x])
  BY <1>1, QuietKnown
<1>3. fds \in Tables /\ truncating \in [Programs -> Fds \cup {NoFd}]
      /\ \A q \in Programs : truncating[q] # NoFd => fds[q][truncating[q]].inUse
  BY DEF TablesOK
<1>4. truncating[p] = NoFd
  BY DEF Open
<1>5. CASE UNCHANGED <<vol, fds, truncating>>
  BY <1>2, <1>5, TableStep
<1>6. CASE \E f, r, size, g : OpenDone(p, f, path, flags, r, size, g)
  <2>1. PICK f, r, size, g : OpenDone(p, f, path, flags, r, size, g)
    BY <1>6
  <2>2. /\ f \in Fds /\ size \in 0 .. MaxOffset /\ vol' = r.v
        /\ fds' = WithOpened(p, f, g)
        /\ g \in GoodSlots /\ g.inUse /\ g.path = path /\ g.cluster = r.cluster
    BY <2>1 DEF OpenDone
  <2>3. PICK own2 : /\ Tree(vol', own2) /\ r.cluster \in Clusters \cup {0}
                    /\ r.cluster # 0 => own2[r.cluster] = r.cluster
    BY <2>1, <2>2 DEF OpenDone, OpenedAs, Held, MayPoint
  <2> DEFINE e == Opened(path, r.cluster, size)
  <2>4. \/ g = e /\ truncating' = [truncating EXCEPT ![p] = f]
        \/ g = Positioned(vol', e, flags) /\ truncating' = truncating
    BY <2>1, <2>2 DEF OpenDone
  <2>5. SlotKnown(vol', g)
    BY <2>2, <2>3, <2>4, PositionedKnown
  <2>6. g = e => g.offset = 0
    BY DEF Opened
  <2>7. g \in OpenSlots
    BY <2>2, SlotFacts
  <2> HIDE DEF e
  <2>8. \A q \in Programs, x \in Fds :
            fds'[q][x] = IF q = p /\ x = f
                         THEN IF Using(path) = {} THEN g ELSE Shared(g)
                         ELSE IF <<q, x>> \in Using(path) THEN Shared(fds[q][x])
                         ELSE fds[q][x]
    BY <2>2 DEF WithOpened
  <2>9. \A q \in Programs, x \in Fds :
            <<q, x>> \in Using(path) => fds[q][x].inUse /\ fds[q][x] \in OpenSlots
    BY <1>3, TableSlot, SlotFacts DEF Using
  <2>10. AloneIn(fds')
    BY <1>3, <2>2, OpenedAlone DEF KnownOK
  <2>11. AllKnown(vol', fds')
    <3> SUFFICES ASSUME NEW q \in Programs, NEW x \in Fds, fds'[q][x].inUse
                 PROVE  SlotKnown(vol', fds'[q][x])
      BY DEF AllKnown
    <3>1. CASE q = p /\ x = f
      <4>1. fds'[q][x] = g \/ fds'[q][x] = Shared(g)
        BY <2>8, <3>1
      <4> QED
        BY <2>5, <2>7, <4>1, SharedOffset
    <3>2. CASE ~(q = p /\ x = f) /\ <<q, x>> \in Using(path)
      <4>1. fds'[q][x] = Shared(fds[q][x]) /\ fds[q][x] \in OpenSlots
        BY <2>8, <2>9, <3>2
      <4> QED
        BY <4>1, SharedOffset
    <3>3. CASE ~(q = p /\ x = f) /\ <<q, x>> \notin Using(path)
      <4>1. fds'[q][x] = fds[q][x]
        BY <2>8, <3>3
      <4> QED
        BY <1>2, <4>1
    <3> QED
      BY <3>1, <3>2, <3>3
  <2>12. Waiting'
    <3> SUFFICES ASSUME NEW q \in Programs, truncating'[q] # NoFd
                 PROVE  fds'[q][truncating'[q]].offset = 0
      BY DEF Waiting
    <3>1. CASE q = p
      <4>1. g = e /\ truncating'[q] = f
        BY <1>3, <1>4, <2>4, <3>1
      <4>2. fds'[q][f] = g \/ fds'[q][f] = Shared(g)
        BY <2>2, <2>8, <3>1
      <4>3. g.offset = 0 /\ Shared(g).offset = 0
        BY <2>6, <2>7, <4>1, SharedOffset
      <4> QED
        BY <4>1, <4>2, <4>3
    <3>2. CASE q # p
      <4> DEFINE x == truncating[q]
      <4>1. truncating'[q] = x /\ x \in Fds /\ fds[q][x].offset = 0
        BY <1>3, <2>4, <3>2 DEF KnownOK, Waiting
      <4> HIDE DEF x
      <4>2. CASE <<q, x>> \in Using(path)
        <5>1. fds'[q][x] = Shared(fds[q][x]) /\ fds[q][x] \in OpenSlots
          BY <2>8, <2>9, <3>2, <4>1, <4>2
        <5>2. Shared(fds[q][x]).offset = fds[q][x].offset
          BY <5>1, SharedOffset
        <5> QED
          BY <4>1, <5>1, <5>2
      <4>3. CASE <<q, x>> \notin Using(path)
        <5>1. fds'[q][x] = fds[q][x]
          BY <2>8, <3>2, <4>1, <4>3
        <5> QED
          BY <4>1, <5>1
      <4> QED
        BY <4>2, <4>3
    <3> QED
      BY <3>1, <3>2
  <2> QED
    BY <2>10, <2>11, <2>12 DEF KnownOK
<1> QED
  BY <1>1, <1>5, <1>6 DEF Opening

(* What the descriptor that wrote knows afterwards.                        *)
LEMMA WrittenKnown ==
    ASSUME NEW v, NEW e \in GoodSlots, e.inUse, SlotKnown(v, e),
           NEW w, w \in Seq(PlainUnits), NEW cl2, cl2 # 0, NEW v2, w = Content(v2, cl2),
           NEW buf \in Seq(PlainUnits), NEW n \in 0 .. Len(buf),
           e.cluster # 0 => Content(v, e.cluster) \in Seq(PlainUnits) /\ cl2 = e.cluster,
           FileStored(v, v2, e.cluster, cl2, e.offset, buf, e.offset + n),
           NEW e2, e2.cluster = cl2, e2.offset <= e2.size,
           e2.sole => /\ e.sole /\ ~Misplaced(e, Len(buf))
                      /\ e2.text = Knows(e, SubSeq(buf, 1, n))
    PROVE  SlotKnown(v2, e2)
<1> SUFFICES ASSUME e2.sole PROVE Begins(e2.text, w)
  BY DEF SlotKnown
<1> DEFINE units == SubSeq(buf, 1, n)
           s == e.text
           off == e.offset
<1>1. e.sole /\ e2.text = s \o units
  BY DEF Knows
<1>2. n \in Nat /\ n <= Len(buf) /\ Len(buf) \in Nat /\ Slots \in Nat /\ Slots > 0
  BY LenProperties, VolumeNumbers, VolumeAssumption
<1>3. /\ units \in Seq(PlainUnits) /\ Len(units) = n
      /\ \A i \in 1 .. n : units[i] = buf[i]
  <2>1. \A i \in 1 .. n : buf[i] \in PlainUnits
    <3> SUFFICES ASSUME NEW i \in 1 .. n PROVE buf[i] \in PlainUnits
      OBVIOUS
    <3>1. i \in 1 .. Len(buf)
      BY <1>2
    <3> QED
      BY <3>1, ElementOfSeq
  <2>2. 1 \in Int /\ n \in Int /\ (IF 1 <= n THEN n - 1 + 1 ELSE 0) = n
        /\ n - 1 + 1 = n /\ \A i \in 1 .. n : 1 + i - 1 = i
    BY <1>2
  <2>3. /\ units \in Seq(PlainUnits)
        /\ Len(units) = IF 1 <= n THEN n - 1 + 1 ELSE 0
        /\ \A i \in 1 .. n - 1 + 1 : units[i] = buf[1 + i - 1]
    BY <2>1, <2>2, SubSeqProperties
  <2> QED
    BY <2>2, <2>3
<1> HIDE DEF units
<1>4. CASE e.cluster # 0
  <2> DEFINE u == Content(v, e.cluster)
  <2>1. u \in Seq(PlainUnits) /\ Stored(u, w, off, buf, off + n)
    BY <1>4 DEF FileStored
  <2>2. s \in Seq(PlainUnits) /\ Len(s) = off /\ Begins(s, u)
    BY <1>1, <2>1, KnownBegins
  <2> HIDE DEF u, off, s
  <2>3. off = Len(s)
    BY <2>2
  <2>4. Begins(s \o units, w)
    BY <1>2, <1>3, <2>1, <2>2, <2>3, BeginsWritten, SMTT(30)
  <2> QED
    BY <1>1, <2>4
<1>5. CASE e.cluster = 0
  <2> DEFINE u == ZeroSector
  <2>1. e.offset \in Nat
    BY SlotFacts, FilesAssumption
  <2>2. off = 0
    BY <1>1, <1>5, <2>1 DEF SlotKnown
  <2>3. u \in Seq(PlainUnits)
    <3>1. Zero \in PlainUnits /\ Slots \in Nat
      BY <1>2 DEF PlainUnits
    <3> QED
      BY <3>1 DEF ZeroSector
  <2>4. s \in Seq(PlainUnits) /\ Len(s) = off /\ Begins(s, u)
    BY <1>1, <2>2, <2>3, KnownBegins
  <2>5. off < Slots /\ off + Len(buf) <= Slots
    BY <1>2, <1>5, <2>2 DEF Misplaced
  <2>6. Stored(u, w, off, buf, off + n)
    BY <1>5, <2>5 DEF FileStored, FirstStored
  <2> HIDE DEF u, off, s
  <2>7. off = Len(s)
    BY <2>4
  <2>8. Begins(s \o units, w)
    BY <1>2, <1>3, <2>3, <2>4, <2>6, <2>7, BeginsWritten, SMTT(30)
  <2> QED
    BY <1>1, <2>8
<1> QED
  BY <1>4, <1>5

LEMMA WriteKnown ==
    ASSUME TablesOK, RefsOK(vol, fds), KnownOK, TablesOK', RefsOK(vol', fds'),
           NEW p \in Programs, NEW f \in Fds,
           NEW t \in Texts, Write(p, f, t)
    PROVE  KnownOK'
<1> DEFINE buf == [i \in 1 .. Len(t) |-> Data(t[i])]
           r == FsWrite(vol, fds[p][f].cluster, fds[p][f].offset, buf)
           e == fds[p][f]
<1>1. UNCHANGED <<vol, fds>> \/ \E e2 : WriteDone(p, f, buf, r, e2)
  BY WriteEffects
<1>2. e.inUse /\ truncating[p] = NoFd /\ truncating' = truncating
  BY DEF Write
<1>3. fds \in Tables /\ fds' \in Tables /\ truncating' \in [Programs -> Fds \cup {NoFd}]
  BY DEF TablesOK
<1>4. CASE UNCHANGED <<vol, fds>>
  <2>1. \A q \in Programs, g \in Fds : fds[q][g].inUse => SlotKnown(vol', fds[q][g])
    BY <1>4 DEF KnownOK, AllKnown
  <2> QED
    BY <1>2, <1>4, <2>1, TableStep
<1>5. CASE \E e2 : WriteDone(p, f, buf, r, e2)
  <2>1. PICK e2 : WriteDone(p, f, buf, r, e2)
    BY <1>5
  <2>2. e \in GoodSlots /\ e \in OpenSlots /\ e.offset \in Nat /\ e.cluster \in Clusters \cup {0}
    <3>1. e \in GoodSlots
      BY <1>3, TableSlot
    <3> QED
      BY <1>2, <3>1, SlotFacts, FilesAssumption
  <2>3. buf \in Seq(PlainUnits)
    BY TextUnits
  <2> HIDE DEF buf
  <2> DEFINE h == e2.cluster
             m == r.written
             end == e.offset + m
  <2>4. PICK own : /\ Tree(vol, own) /\ HeldAll(vol, own, fds)
                   /\ WroteFor(vol, own, e.path, e.cluster, h, buf, r)
    BY <2>1 DEF WriteDone
  <2>5. /\ r.ok = TRUE /\ vol' = r.v /\ fds' = WithSlot(fds, p, f, e2)
        /\ e2 \in GoodSlots /\ e2.inUse /\ e2.path = e.path
        /\ h = IF e.cluster = 0 THEN r.last ELSE e.cluster
        /\ e2.offset <= e2.size
        /\ e2.sole => /\ e.sole /\ ~Misplaced(e, Len(buf))
                      /\ e2.text = Knows(e, SubSeq(buf, 1, m))
    BY <2>1 DEF WriteDone
  <2>6. Held(vol, own, e.path, e.cluster)
    BY <1>2, <2>4, RefersSlot DEF HeldAll
  <2>7. FileStored(vol, vol', e.cluster, h, e.offset, buf, end)
    BY <2>2, <2>3, <2>4, <2>5, <2>6, WriteContent
  <2> HIDE DEF r
  <2>8. /\ h \in Clusters /\ h # 0 /\ m \in 0 .. Len(buf)
        /\ e.cluster = 0 => own[h] = 0
        /\ FilesKept(vol, vol', own, h)
    BY <2>4, <2>5, VolumeNumbers DEF WroteFor
  <2>9. Content(vol', h) \in Seq(PlainUnits)
    <3>1. PICK own2 : Tree(vol', own2) /\ HeldAll(vol', own2, fds')
      BY DEF RefsOK
    <3>2. fds'[p][f] = e2
      BY <1>3, <2>5 DEF WithSlot, Tables
    <3>3. Refers(fds', e2.path, h)
      BY <2>5, <3>2, RefersSlot
    <3>4. own2[h] = h
      BY <2>8, <3>1, <3>3 DEF HeldAll, Held, MayPoint
    <3> QED
      BY <2>8, <3>1, <3>4, ContentUnits
  <2>10. e.cluster # 0 => Content(vol, e.cluster) \in Seq(PlainUnits) /\ h = e.cluster
    BY <2>2, <2>4, <2>5, <2>6, ContentUnits DEF Held, MayPoint
  <2>11. SlotKnown(vol, e)
    BY <1>2 DEF KnownOK, AllKnown
  <2>12. SlotKnown(vol', e2)
    BY <1>2, <2>2, <2>3, <2>5, <2>7, <2>8, <2>9, <2>10, <2>11, WrittenKnown
  <2>13. ASSUME NEW q \in Programs, NEW g \in Fds, fds[q][g].inUse, ~(q = p /\ g = f)
         PROVE  SlotKnown(vol', fds[q][g])
    <3> DEFINE x == fds[q][g]
    <3>1. SlotKnown(vol, x)
      BY <2>13 DEF KnownOK, AllKnown
    <3>2. Held(vol, own, x.path, x.cluster) /\ Refers(fds, x.path, x.cluster)
      BY <2>4, <2>13, SlotHeld, RefersSlot
    <3>3. ASSUME x.sole, x.cluster # 0, x.cluster = h PROVE FALSE
      <4>1. own[h] = h
        BY <3>2, <3>3 DEF Held, MayPoint
      <4>2. e.cluster = h /\ e.cluster # 0
        BY <2>5, <2>8, <4>1
      <4>3. Refers(fds, e.path, e.cluster)
        BY <1>2, RefersSlot
      <4>4. x.path = e.path
        BY <3>2, <3>3, <4>2, <4>3 DEF RefsOK, Distinct
      <4> QED
        BY <1>2, <2>13, <3>3, <4>4 DEF KnownOK, AloneIn
    <3> HIDE DEF h
    <3> QED
      BY <2>4, <2>8, <2>13, <3>1, <3>3, StaysKnown
  <2>14. SameFile(e, e2)
    BY <2>5 DEF SameFile
  <2> QED
    BY <1>2, <1>3, <2>5, <2>12, <2>13, <2>14, SlotStep
<1> QED
  BY <1>1, <1>4, <1>5

LEMMA StepKnown ==
    ASSUME PlainPaths, TablesOK, RefsOK(vol, fds), KnownOK,
           TablesOK', RefsOK(vol', fds'), FilesStep
    PROVE  KnownOK'
<1>1. ASSUME NEW p \in Programs, NEW path \in FilePaths, NEW flags \in Flags, Open(p, path, flags)
      PROVE  KnownOK'
  BY <1>1, OpenKnown
<1>2. ASSUME NEW p \in Programs, NEW accepted \in BOOLEAN, OpenTruncate(p, accepted)
      PROVE  KnownOK'
  BY <1>2, TruncateKnown
<1>3. ASSUME NEW p \in Programs, NEW f \in Fds, NEW t \in Texts,
             Write(p, f, t)
      PROVE  KnownOK'
  BY <1>3, WriteKnown
<1>4. ASSUME NEW p \in Programs, NEW f \in Fds, NEW n \in ReadSizes, Read(p, f, n)
      PROVE  KnownOK'
  BY <1>4, ReadKnown
<1>5. ASSUME NEW p \in Programs, NEW f \in Fds, NEW accepted \in BOOLEAN, Close(p, f, accepted)
      PROVE  KnownOK'
  BY <1>5, CloseKnown
<1>6. ASSUME NEW p \in Programs, Exit(p) PROVE KnownOK'
  BY <1>6, ExitKnown
<1>7. ASSUME NEW p \in Programs, NEW q \in Programs \ {p}, Fork(p, q) PROVE KnownOK'
  BY <1>7, ForkKnown
<1>8. ASSUME NEW path \in DeletePaths, Delete(path) PROVE KnownOK'
  BY <1>8, DeleteKnown
<1>9. ASSUME NEW path \in DirPaths, Mkdir(path) PROVE KnownOK'
  BY <1>9, MkdirKnown
<1> QED
  BY <1>1, <1>2, <1>3, <1>4, <1>5, <1>6, <1>7, <1>8, <1>9 DEF FilesStep

LEMMA InitKnown ==
    ASSUME FilesInit
    PROVE  KnownOK
<1>1. \A p \in Programs, f \in Fds : ~fds[p][f].inUse
  BY ClosedFacts DEF FilesInit
<1>2. \A p \in Programs : truncating[p] = NoFd
  BY DEF FilesInit
<1> QED
  BY <1>1, <1>2 DEF KnownOK, AloneIn, AllKnown, Waiting

LEMMA InvReadBack ==
    ASSUME FilesInv, KnownOK, ObserveOK
    PROVE  ReadBack
<1>1. TablesOK /\ RefsOK(vol, fds) /\ fds \in Tables
  BY DEF FilesInv, TablesOK
<1>2. PICK own : Tree(vol, own) /\ HeldAll(vol, own, fds)
  BY <1>1 DEF RefsOK
<1> SUFFICES ASSUME NEW p \in Programs, NEW f \in Fds, NEW e, e = fds[p][f],
                    e.inUse, e.sole, e.offset > 0
             PROVE  e.cluster # 0 /\ IsPrefix(e.text, objs[e.cluster])
  BY DEF ReadBack
<1>3. e \in GoodSlots /\ e.text \in Seq(PlainUnits) /\ e.cluster \in Clusters \cup {0}
  <2>1. e \in GoodSlots
    BY <1>1, TableSlot
  <2> QED
    BY <2>1, SlotFacts
<1>4. e.cluster # 0 /\ Begins(e.text, Content(vol, e.cluster))
  BY DEF KnownOK, AllKnown, SlotKnown
<1>5. Refers(fds, e.path, e.cluster)
  BY RefersSlot
<1>6. e.cluster \in FilesOf(vol, fds) /\ own[e.cluster] = e.cluster
  BY <1>1, <1>2, <1>3, <1>4, <1>5, FilesOfIs, FileHeads
<1>7. objs[e.cluster] = Content(vol, e.cluster)
  BY <1>6, ObservedNow
<1>8. Content(vol, e.cluster) \in Seq(PlainUnits)
  BY <1>2, <1>3, <1>4, <1>6, ContentUnits
<1> QED
  BY <1>3, <1>4, <1>7, <1>8, BeginsPrefix

LEMMA NextKnown ==
    ASSUME PlainPaths, FilesInv, FilesInv', KnownOK, [FilesNext]_filesVars
    PROVE  KnownOK'
<1>1. CASE FilesNext
  <2>1. FilesStep
    BY <1>1 DEF FilesNext
  <2>2. TablesOK /\ RefsOK(vol, fds) /\ TablesOK' /\ RefsOK(vol', fds')
    BY DEF FilesInv
  <2> QED
    BY <2>1, <2>2, StepKnown
<1>2. CASE UNCHANGED filesVars
  <2>1. vol' = vol /\ fds' = fds /\ truncating' = truncating
    BY <1>2 DEF filesVars
  <2> QED
    BY <2>1 DEF KnownOK, AllKnown, Waiting
<1> QED
  BY <1>1, <1>2

(* For plain paths: what a program has read and written through a          *)
(* descriptor that nobody shares is what read_file finds in the file up to *)
(* the offset of the descriptor, whatever the programs do to other files   *)
(* meanwhile, unless the first write to the file was through it and longer *)
(* than a cluster.                                                         *)
THEOREM ProgramsReadBack ==
    ASSUME PlainPaths
    PROVE  FilesSpec => []ReadBack
<1>1. FilesInit => KnownOK /\ ObserveOK
  BY InitKnown, InitObserved
<1>2. ObserveOK /\ [FilesNext]_filesVars => ObserveOK'
  BY DEF ObserveOK, FilesNext, filesVars
<1>3. FilesInv /\ FilesInv' /\ KnownOK /\ [FilesNext]_filesVars => KnownOK'
  BY NextKnown
<1>4. FilesSpec => []FilesInv
  BY FilesInvariant
<1>5. FilesInv /\ KnownOK /\ ObserveOK => ReadBack
  BY InvReadBack
<1> QED
  BY <1>1, <1>2, <1>3, <1>4, <1>5, PTL DEF FilesSpec

-----------------------------------------------------------------------------
(* What close() leaves behind.                                             *)

(* The file s that a close() has left at the path q is still there.        *)
StillThere(v, q, s) ==
    /\ EnteredAt(v, q, s.cluster, s.size)
    /\ s.text \in Seq(PlainUnits)
    /\ Len(s.text) > 0 => /\ s.cluster # 0 /\ Begins(s.text, Content(v, s.cluster))
                          /\ Len(s.text) <= s.size

SavedOK ==
    /\ saved = [q \in FilePaths |-> saved[q]]
    /\ \A q \in FilePaths :
           saved[q].known /\ saved[q].sector => StillThere(vol, q, saved[q])

(* The path leads to no file whose chain begins with h.                    *)
Elsewhere(q, h) == h # 0 /\ At(vol, q) # NoEntry => At(vol, q).cluster # h

(* A step leaves a file alone that is at its path and not the one changed. *)
LEMMA StaysThere ==
    ASSUME NEW own, Tree(vol, own), NEW h, FilesKept(vol, vol', own, h),
           NEW q \in FilePaths, NEW s, StillThere(vol, q, s),
           At(vol, q) # NoEntry => At(vol', q) = At(vol, q), Elsewhere(q, h)
    PROVE  StillThere(vol', q, s)
<1>1. /\ At(vol, q) # NoEntry /\ At(vol', q) = At(vol, q)
      /\ At(vol, q).cluster = s.cluster
  BY KindFacts DEF StillThere, EnteredAt
<1>2. EnteredAt(vol', q, s.cluster, s.size)
  BY <1>1 DEF StillThere, EnteredAt
<1>3. ASSUME s.cluster # 0 PROVE Content(vol', s.cluster) = Content(vol, s.cluster)
  <2>1. q \in Paths /\ q \notin DirPaths
    BY FilesAssumption
  <2>2. PlaceOK(vol, own, q, At(vol, q))
    BY <1>1, <2>1 DEF Tree
  <2>3. s.cluster \in Clusters /\ own[s.cluster] = s.cluster
    BY <1>1, <1>3, <2>2 DEF PlaceOK, Entries
  <2>4. ~At(vol, q).dir /\ s.cluster # Root
    BY <1>1, <2>1, <2>2 DEF PlaceOK
  <2>5. \A p \in Paths : At(vol, p) # NoEntry /\ At(vol, p).cluster = s.cluster => p = q
    BY <1>1, <1>3, <2>1 DEF Tree
  <2>6. IsFile(vol, own, s.cluster)
    BY <2>3, <2>4, <2>5 DEF IsFile
  <2>7. s.cluster # h
    BY <1>1, <1>3 DEF Elsewhere
  <2> QED
    BY <2>3, <2>6, <2>7 DEF FilesKept
<1> QED
  BY <1>2, <1>3 DEF StillThere

(* Nothing is lost when the entries and the contents of the files saved    *)
(* stay.                                                                   *)
LEMMA SavedKept ==
    ASSUME SavedOK, NEW own, Tree(vol, own), NEW h, FilesKept(vol, vol', own, h),
           NEW changed, EntriesKept(vol, vol', changed),
           NEW s, s = [q \in FilePaths |-> s[q]],
           \A q \in FilePaths :
               \/ s[q] = saved[q] /\ q \notin changed /\ Elsewhere(q, h)
               \/ ~s[q].known
               \/ s[q].sector => StillThere(vol', q, s[q]),
           saved' = s
    PROVE  SavedOK'
<1>1. ASSUME NEW q \in FilePaths, s[q].known, s[q].sector
      PROVE  StillThere(vol', q, s[q])
  <2>1. CASE s[q] = saved[q] /\ q \notin changed /\ Elsewhere(q, h)
    <3>1. StillThere(vol, q, s[q])
      BY <1>1, <2>1 DEF SavedOK
    <3>2. At(vol, q) # NoEntry => At(vol', q) = At(vol, q)
      BY <2>1 DEF EntriesKept
    <3> QED
      BY <2>1, <3>1, <3>2, StaysThere
  <2> QED
    BY <1>1, <2>1
<1> QED
  BY <1>1 DEF SavedOK

LEMMA SavedSame ==
    ASSUME SavedOK, NEW new, Quiet({}, new, 0), saved' = saved
    PROVE  SavedOK'
<1>1. PICK own : Tree(vol, own) /\ FilesKept(vol, vol', own, 0)
  BY DEF Quiet
<1>2. EntriesKept(vol, vol', {})
  BY DEF Quiet
<1>3. saved = [q \in FilePaths |-> saved[q]]
  BY DEF SavedOK
<1>4. \A q \in FilePaths : q \notin {} /\ Elsewhere(q, 0)
  BY DEF Elsewhere
<1> QED
  BY <1>1, <1>2, <1>3, <1>4, SavedKept

(* One path is forgotten.                                                  *)
LEMMA SavedLess ==
    ASSUME SavedOK, NEW own, Tree(vol, own), NEW h, FilesKept(vol, vol', own, h),
           NEW path, EntriesKept(vol, vol', {path}),
           \A q \in FilePaths \ {path} : Elsewhere(q, h),
           saved' = [saved EXCEPT ![path] = NotSaved]
    PROVE  SavedOK'
<1> DEFINE s == [saved EXCEPT ![path] = NotSaved]
<1>1. s = [q \in FilePaths |-> s[q]]
  BY DEF SavedOK
<1>2. \A q \in FilePaths : \/ s[q] = saved[q] /\ q \notin {path} /\ Elsewhere(q, h)
                           \/ ~s[q].known
  BY DEF SavedOK, NotSaved
<1> HIDE DEF s
<1>3. saved' = s
  BY DEF s
<1> QED
  BY <1>1, <1>2, <1>3, SavedKept

(* No other path leads to the chain of a path.                             *)
LEMMA OthersElsewhere ==
    ASSUME NEW own, Tree(vol, own), NEW path \in Paths, At(vol, path) # NoEntry,
           NEW h, h = At(vol, path).cluster
    PROVE  \A q \in FilePaths \ {path} : Elsewhere(q, h)
<1> SUFFICES ASSUME NEW q \in FilePaths, h # 0, At(vol, q) # NoEntry, At(vol, q).cluster = h
             PROVE  q = path
  BY DEF Elsewhere
<1>1. q \in Paths
  BY FilesAssumption
<1> QED
  BY <1>1 DEF Tree

LEMMA SavedInit ==
    ASSUME FilesInit
    PROVE  SavedOK
BY DEF FilesInit, SavedOK, NotSaved

LEMMA TruncateSaves ==
    ASSUME PlainPaths, TablesOK, RefsOK(vol, fds), SavedOK, NEW p \in Programs,
           NEW accepted \in BOOLEAN, OpenTruncate(p, accepted)
    PROVE  SavedOK'
<1> DEFINE path == fds[p][truncating[p]].path
           h == At(vol, path).cluster
<1>1. saved' = [saved EXCEPT ![path] = NotSaved] /\ truncating[p] # NoFd
  BY DEF OpenTruncate
<1>2. vol' = vol \/ \E own : /\ Tree(vol, own) /\ HeldAll(vol, own, fds)
                             /\ Truncated(vol, vol', own, path, h)
  BY TruncateQuiet
<1>3. CASE vol' = vol
  <2>1. PICK own : Tree(vol, own)
    BY DEF RefsOK
  <2>2. FilesKept(vol, vol', own, 0) /\ EntriesKept(vol, vol', {path})
    BY <1>3 DEF FilesKept, EntriesKept
  <2>3. \A q \in FilePaths \ {path} : Elsewhere(q, 0)
    BY DEF Elsewhere
  <2> HIDE DEF path
  <2> QED
    BY <1>1, <2>1, <2>2, <2>3, SavedLess
<1>4. CASE vol' # vol
  <2>1. PICK own : /\ Tree(vol, own) /\ HeldAll(vol, own, fds)
                   /\ Truncated(vol, vol', own, path, h)
    BY <1>2, <1>4
  <2>2. truncating[p] \in Fds /\ fds[p][truncating[p]].inUse
    BY <1>1 DEF TablesOK
  <2>3. path \in Paths /\ At(vol, path) # NoEntry
    BY <2>1, <2>2, SlotHeld
  <2>4. FilesKept(vol, vol', own, h) /\ EntriesKept(vol, vol', {path})
    BY <2>1 DEF Truncated
  <2>5. \A q \in FilePaths \ {path} : Elsewhere(q, h)
    BY <2>1, <2>3, OthersElsewhere
  <2> HIDE DEF path, h
  <2> QED
    BY <1>1, <2>1, <2>4, <2>5, SavedLess
<1> QED
  BY <1>3, <1>4

LEMMA WriteSaves ==
    ASSUME TablesOK, RefsOK(vol, fds), SavedOK, NEW p \in Programs, NEW f \in Fds,
           NEW t \in Texts, Write(p, f, t)
    PROVE  SavedOK'
<1> DEFINE buf == [i \in 1 .. Len(t) |-> Data(t[i])]
           e == fds[p][f]
           r == FsWrite(vol, e.cluster, e.offset, buf)
<1>1. /\ e.inUse
      /\ \/ ~r.ok /\ saved' = saved
         \/ r.ok /\ saved' = [saved EXCEPT ![e.path] = NotSaved]
  BY DEF Write
<1>2. UNCHANGED <<vol, fds>> \/ \E e2 : WriteDone(p, f, buf, r, e2)
  BY WriteEffects
<1> HIDE DEF r, buf
<1>3. CASE UNCHANGED <<vol, fds>>
  <2>1. Quiet({}, 0, 0) /\ Quiet({e.path}, 0, 0)
    BY <1>3, SameVolume
  <2>2. PICK own : Tree(vol, own) /\ FilesKept(vol, vol', own, 0)
    BY <2>1 DEF Quiet
  <2>3. EntriesKept(vol, vol', {e.path}) /\ \A q \in FilePaths \ {e.path} : Elsewhere(q, 0)
    BY <2>1 DEF Quiet, Elsewhere
  <2> HIDE DEF e
  <2> QED
    BY <1>1, <2>1, <2>2, <2>3, SavedSame, SavedLess
<1>4. CASE \E e2 : WriteDone(p, f, buf, r, e2)
  <2>1. PICK e2 : WriteDone(p, f, buf, r, e2)
    BY <1>4
  <2> DEFINE h == e2.cluster
  <2>2. PICK own : /\ Tree(vol, own) /\ HeldAll(vol, own, fds)
                   /\ WroteFor(vol, own, e.path, e.cluster, h, buf, r)
    BY <2>1 DEF WriteDone
  <2>3. /\ r.ok = TRUE /\ vol' = r.v
        /\ h = IF e.cluster = 0 THEN r.last ELSE e.cluster
    BY <2>1 DEF WriteDone
  <2>4. /\ FilesKept(vol, vol', own, h) /\ (e.cluster = 0 => own[h] = 0)
        /\ \A q \in Paths : At(vol', q) = At(vol, q)
    BY <2>2, <2>3 DEF WroteFor
  <2>5. EntriesKept(vol, vol', {e.path})
    BY <2>4, FilesAssumption DEF EntriesKept
  <2>6. Held(vol, own, e.path, e.cluster)
    BY <1>1, <2>2, SlotHeld
  <2>7. ASSUME NEW q \in FilePaths \ {e.path} PROVE Elsewhere(q, h)
    <3> SUFFICES ASSUME h # 0, At(vol, q) # NoEntry, At(vol, q).cluster = h PROVE FALSE
      BY DEF Elsewhere
    <3>1. q \in Paths /\ q # e.path
      BY FilesAssumption
    <3>2. own[h] = h
      BY <2>2, <3>1 DEF Tree, PlaceOK
    <3>3. e.cluster = h /\ e.cluster # 0
      BY <2>3, <2>4, <3>2
    <3>4. OnlyAt(vol, e.path, h)
      BY <2>6, <3>3 DEF Held, MayPoint
    <3> QED
      BY <3>1, <3>4 DEF OnlyAt
  <2> HIDE DEF h, e
  <2> QED
    BY <1>1, <2>2, <2>3, <2>4, <2>5, <2>7, SavedLess
<1> QED
  BY <1>2, <1>3, <1>4

LEMMA CloseSaves ==
    ASSUME PlainPaths, TablesOK, RefsOK(vol, fds), KnownOK, SavedOK,
           NEW p \in Programs, NEW f \in Fds,
           NEW accepted \in BOOLEAN, Close(p, f, accepted)
    PROVE  SavedOK'
<1> DEFINE e == fds[p][f]
           sync == e.dirty /\ accepted /\ PathSentWhole(p, f)
           l == Left(e, sync, sync /\ InFullSector(vol, e.path))
           s == [saved EXCEPT ![e.path] = l]
<1>1. e.inUse /\ saved' = IF ~e.dirty THEN saved ELSE s
  BY DEF Close
<1>2. e \in GoodSlots
  BY TableSlot DEF TablesOK
<1>3. /\ e.path \in FilePaths /\ e.dirty \in BOOLEAN /\ e.sole \in BOOLEAN
      /\ e.text \in Seq(PlainUnits) /\ e.offset \in Nat
      /\ e.sole => Len(e.text) = e.offset
  BY <1>1, <1>2, SlotFacts, FilesAssumption
<1>4. /\ Quiet({e.path}, e.cluster, 0)
      /\ ~e.dirty => vol' = vol
      /\ sync /\ InFullSector(vol, e.path) => EnteredAt(vol', e.path, e.cluster, e.size)
  BY CloseQuiet
<1>5. SlotKnown(vol', e)
  BY <1>1, <1>4, QuietKnown
<1>6. PICK own : Tree(vol, own) /\ FilesKept(vol, vol', own, 0)
  BY <1>4 DEF Quiet
<1>7. EntriesKept(vol, vol', {e.path}) /\ \A q \in FilePaths : Elsewhere(q, 0)
  BY <1>4 DEF Quiet, Elsewhere
<1> HIDE DEF e
<1>8. CASE ~e.dirty
  <2>1. Quiet({}, 0, 0) /\ saved' = saved
    BY <1>1, <1>4, <1>8, SameVolume
  <2> QED
    BY <2>1, SavedSame
<1>9. CASE e.dirty
  <2>1. saved' = s
    BY <1>1, <1>9
  <2>2. s = [q \in FilePaths |-> s[q]]
    BY DEF SavedOK
  <2>3. s[e.path] = l /\ \A q \in FilePaths : q # e.path => s[q] = saved[q]
    BY <1>3 DEF SavedOK
  <2> HIDE DEF s
  <2>4. ~l.known \/ (l.sector => StillThere(vol', e.path, l))
    <3> DEFINE sector == sync /\ InFullSector(vol, e.path)
    <3>1. sector => EnteredAt(vol', e.path, e.cluster, e.size)
      BY <1>4
    <3> HIDE DEF sync, sector
    <3>2. CASE e.sole
      <4>1. /\ l.sector = sector /\ l.cluster = e.cluster /\ l.size = e.size
            /\ l.text = e.text
        BY <3>2 DEF Left, sector
      <4> HIDE DEF l
      <4>2. Len(e.text) > 0 => /\ e.cluster # 0 /\ Begins(e.text, Content(vol', e.cluster))
                               /\ Len(e.text) <= e.size
        BY <1>3, <1>5, <3>2 DEF SlotKnown
      <4> QED
        BY <1>3, <3>1, <4>1, <4>2 DEF StillThere
    <3>3. CASE ~e.sole
      BY <3>3 DEF Left, NotSaved
    <3> QED
      BY <1>3, <3>2, <3>3
  <2> HIDE DEF l
  <2>5. \A q \in FilePaths :
            \/ s[q] = saved[q] /\ q \notin {e.path} /\ Elsewhere(q, 0)
            \/ ~s[q].known
            \/ s[q].sector => StillThere(vol', q, s[q])
    BY <1>7, <2>3, <2>4
  <2> QED
    BY <1>6, <1>7, <2>1, <2>2, <2>5, SavedKept
<1> QED
  BY <1>3, <1>8, <1>9

LEMMA DeleteSaves ==
    ASSUME PlainPaths, RefsOK(vol, fds), SavedOK, NEW path \in DeletePaths, Delete(path)
    PROVE  SavedOK'
<1> DEFINE s == [q \in FilePaths |->
                    IF q = path \/ Parent(q) = path THEN NotSaved ELSE saved[q]]
           h == At(vol, path).cluster
<1>1. saved' = s
  BY DEF Delete
<1>2. PICK own : Tree(vol, own) /\ Removed(vol, vol', own, path)
  BY DeleteQuiet
<1>3. /\ EntriesKept(vol, vol', GoneWith(path)) /\ FilesKept(vol, vol', own, h)
      /\ At(vol, path) # NoEntry /\ path \in Paths
  BY <1>2, FilesAssumption DEF Removed
<1>4. \A q \in FilePaths \ {path} : Elsewhere(q, h)
  BY <1>2, <1>3, OthersElsewhere
<1>5. s = [q \in FilePaths |-> s[q]]
  OBVIOUS
<1> HIDE DEF h
<1>6. \A q \in FilePaths : \/ s[q] = saved[q] /\ q \notin GoneWith(path) /\ Elsewhere(q, h)
                           \/ ~s[q].known
  BY <1>4 DEF GoneWith, NotSaved
<1> HIDE DEF s
<1> QED
  BY <1>1, <1>2, <1>3, <1>5, <1>6, SavedKept

LEMMA StepSaves ==
    ASSUME PlainPaths, TablesOK, RefsOK(vol, fds), KnownOK, SavedOK, FilesStep
    PROVE  SavedOK'
<1>1. ASSUME NEW p \in Programs, NEW path \in FilePaths, NEW flags \in Flags, Open(p, path, flags)
      PROVE  SavedOK'
  <2>1. Quiet({}, 0, 0) /\ saved' = saved
    BY <1>1, OpenQuiet DEF Open
  <2> QED
    BY <2>1, SavedSame
<1>2. ASSUME NEW p \in Programs, NEW accepted \in BOOLEAN, OpenTruncate(p, accepted)
      PROVE  SavedOK'
  BY <1>2, TruncateSaves
<1>3. ASSUME NEW p \in Programs, NEW f \in Fds, NEW t \in Texts, Write(p, f, t)
      PROVE  SavedOK'
  BY <1>3, WriteSaves
<1>4. ASSUME vol' = vol, saved' = saved PROVE SavedOK'
  BY <1>4, SameVolume, SavedSame
<1>5. ASSUME NEW path \in DeletePaths, Delete(path) PROVE SavedOK'
  BY <1>5, DeleteSaves
<1>6. ASSUME NEW path \in DirPaths, Mkdir(path) PROVE SavedOK'
  <2>1. Quiet({}, 0, 0) /\ saved' = saved
    BY <1>6, MkdirQuiet DEF Mkdir
  <2> QED
    BY <2>1, SavedSame
<1>7. ASSUME NEW p \in Programs, NEW f \in Fds, NEW n \in ReadSizes, Read(p, f, n)
      PROVE  SavedOK'
  BY <1>4, <1>7 DEF Read
<1>8. ASSUME NEW p \in Programs, NEW f \in Fds, NEW accepted \in BOOLEAN, Close(p, f, accepted)
      PROVE  SavedOK'
  BY <1>8, CloseSaves
<1>9. ASSUME NEW p \in Programs, Exit(p) PROVE SavedOK'
  BY <1>4, <1>9 DEF Exit
<1>10. ASSUME NEW p \in Programs, NEW q \in Programs \ {p}, Fork(p, q) PROVE SavedOK'
  BY <1>4, <1>10 DEF Fork
<1> QED
  BY <1>1, <1>2, <1>3, <1>5, <1>6, <1>7, <1>8, <1>9, <1>10 DEF FilesStep

(* Reading all of a file that is still there begins with what the program  *)
(* knew of it when it closed it.                                           *)
LEMMA StillRead ==
    ASSUME NEW v, NEW own, Tree(v, own), NEW q \in FilePaths, NEW s, StillThere(v, q, s)
    PROVE  IsPrefix(s.text, ReadFile(v, s.cluster, 0, s.size))
<1> DEFINE got == ReadFile(v, s.cluster, 0, s.size)
           k == Len(s.text)
<1>1. At(v, q) # NoEntry /\ At(v, q).cluster = s.cluster /\ At(v, q).size = s.size
  BY KindFacts DEF StillThere, EnteredAt
<1>2. q \in Paths
  BY FilesAssumption
<1>3. PlaceOK(v, own, q, At(v, q))
  BY <1>1, <1>2 DEF Tree
<1>4. /\ s.cluster \in Clusters \cup {0} /\ s.size \in Nat
      /\ s.cluster # 0 => own[s.cluster] = s.cluster
  BY <1>1, <1>3, FilesAssumption DEF PlaceOK, Entries
<1>5. s.text \in Seq(PlainUnits) /\ k \in Nat
  BY LenProperties DEF StillThere
<1>6. CASE s.cluster = 0
  <2> DEFINE z == << >>
  <2>1. got = z
    BY <1>6 DEF ReadFile
  <2>5. z \in Seq(PlainUnits) /\ Len(z) = 0
    OBVIOUS
  <2> HIDE DEF z, got
  <2>2. got \in Seq(PlainUnits) /\ Len(got) = 0
    BY <2>1, <2>5
  <2>3. k = 0
    BY <1>5, <1>6 DEF StillThere
  <2>4. Begins(s.text, got)
    BY <2>2, <2>3 DEF Begins
  <2>6. IsPrefix(s.text, got)
    BY <1>5, <2>2, <2>4, BeginsPrefix
  <2> QED
    BY <2>6 DEF got
<1>7. CASE s.cluster # 0
  <2> DEFINE u == Content(v, s.cluster)
             z == s.size
             end == UpTo(0 + z, Len(u))
  <2>1. u \in Seq(PlainUnits) /\ Len(u) \in Nat
    BY <1>4, <1>7, ContentUnits, LenProperties
  <2>2. IsSlice(got, u, 0, end)
    BY <1>4, <1>7, ReadSlice DEF Tree
  <2>3. k > 0 => k <= Len(u) /\ k <= z /\ \A i \in 1 .. k : s.text[i] = u[i]
    BY <1>5, <1>7 DEF StillThere, Begins
  <2>4. z \in Nat
    BY <1>4
  <2> HIDE DEF u, z, got, k
  <2>5. end \in Nat /\ k <= end
    BY <1>5, <2>1, <2>3, <2>4 DEF UpTo
  <2> HIDE DEF end
  <2>6. /\ got \in Seq(PlainUnits) /\ Len(got) = end
        /\ \A i \in 1 .. Len(got) : got[i] = u[0 + i]
    BY <2>2, <2>5 DEF IsSlice
  <2>7. \A i \in 1 .. k : s.text[i] = got[i]
    <3> SUFFICES ASSUME NEW i \in 1 .. k PROVE s.text[i] = got[i]
      OBVIOUS
    <3>1. k > 0 /\ i \in 1 .. Len(got) /\ 0 + i = i
      BY <1>5, <2>5, <2>6
    <3> QED
      BY <2>3, <2>6, <3>1
  <2>8. Begins(s.text, got)
    BY <2>5, <2>6, <2>7 DEF Begins, k
  <2>9. IsPrefix(s.text, got)
    BY <1>5, <2>6, <2>8, BeginsPrefix
  <2> QED
    BY <2>9 DEF got
<1> QED
  BY <1>6, <1>7

(* The invariant says what is at paths, the property what resolve_path     *)
(* finds there.                                                            *)
LEMMA InvSaved ==
    ASSUME PlainPaths, FilesInv, SavedOK
    PROVE  SavedInFullSector
<1>1. PICK own : Tree(vol, own)
  BY DEF FilesInv, RefsOK
<1>2. ASSUME NEW q \in FilePaths, saved[q].known, saved[q].sector
      PROVE  AsLeft(Resolve(vol, q), saved[q])
  <2>1. StillThere(vol, q, saved[q])
    BY <1>2 DEF SavedOK
  <2>2. Resolve(vol, q) = At(vol, q)
    BY <1>1, ResolveAt, FilesAssumption
  <2>3. IsPrefix(saved[q].text, ReadFile(vol, saved[q].cluster, 0, saved[q].size))
    BY <1>1, <2>1, StillRead
  <2> QED
    BY <2>1, <2>2, <2>3 DEF StillThere, EnteredAt, AsLeft
<1> QED
  BY <1>2 DEF SavedInFullSector

(* For plain paths: a file that a program has written and closed is there  *)
(* for the next one to open, with the size and first cluster that it left  *)
(* and all that the program has read and written of it, when the sector of *)
(* its entry was full at the close, nobody shared the file and the first   *)
(* write to it was no longer than a cluster: whatever else is created,     *)
(* extended, truncated and deleted meanwhile.                              *)
THEOREM SavedFilesStay ==
    ASSUME PlainPaths
    PROVE  FilesSpec => []SavedInFullSector
<1>1. FilesInit => KnownOK /\ SavedOK
  BY InitKnown, SavedInit
<1>2. FilesInv /\ FilesInv' /\ KnownOK /\ [FilesNext]_filesVars => KnownOK'
  BY NextKnown
<1>3. FilesInv /\ KnownOK /\ SavedOK /\ [FilesNext]_filesVars => SavedOK'
  <2>1. ASSUME FilesInv, KnownOK, SavedOK, FilesNext PROVE SavedOK'
    BY <2>1, StepSaves DEF FilesInv, FilesNext
  <2>2. ASSUME SavedOK, UNCHANGED filesVars PROVE SavedOK'
    BY <2>2 DEF SavedOK, filesVars
  <2> QED
    BY <2>1, <2>2
<1>4. FilesInv /\ SavedOK => SavedInFullSector
  BY InvSaved
<1>5. FilesSpec => []FilesInv
  BY FilesInvariant
<1> QED
  BY <1>1, <1>2, <1>3, <1>4, <1>5, PTL DEF FilesSpec

=============================================================================
