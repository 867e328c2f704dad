------------------------------- MODULE FatFs -------------------------------
(***************************************************************************)
(* The FAT32 volume of the file server (user/programs/fs-server): the      *)
(* allocation table, the data clusters, directories, and the routines that *)
(* the request loop calls.  A routine is an operator from a volume to a    *)
(* volume; none keeps state of its own.                                    *)
(*                                                                         *)
(* format_fat32 makes clusters of one sector, so cluster and sector are    *)
(* the same thing here.  A sector is a sequence of Slots units of 32       *)
(* bytes, the size of a directory entry, and a file is read and written in *)
(* whole units: offsets and sizes count units.  The disk is an array in    *)
(* memory, whose reads and writes fail only outside of it, where no        *)
(* cluster number in the table or in a directory leads.                    *)
(***************************************************************************)
EXTENDS Integers, Sequences, FiniteSets, SequencesExt

CONSTANTS
    TotalClusters,  \* data clusters of the volume, total_clusters
    Slots,          \* units of a sector, entries_per_sector
    Names,          \* the names in paths, equal when they differ only in case
    Valid83,        \* those that are valid 8.3 names as they stand
    LfnCount,       \* the LFN entries create_dir_entry writes for a name
    OccursIn        \* pairs <<n, m>>: the text of n occurs in that of m

ASSUME VolumeAssumption ==
    /\ TotalClusters \in Nat \ {0} /\ Slots \in Nat \ {0}
    /\ Valid83 \subseteq Names
    /\ LfnCount \in [Names -> Nat]
    /\ \A n \in Valid83 : LfnCount[n] = 0
    /\ OccursIn \subseteq Names \X Names

Free == 0                       \* FAT32_FREE
Root == 2                       \* root_cluster
Clusters == 2 .. TotalClusters + 1
Eoc == TotalClusters + 2        \* FAT32_EOC, above every cluster number

-----------------------------------------------------------------------------
(* What 32 bytes of a sector can be.  A deleted entry has 0xE5 as its      *)
(* first byte, and nothing reads the rest.  The data that the programs     *)
(* write is text: walked as a directory it is an entry of no name here.    *)
Zero == [kind |-> "zero"]
Deleted == [kind |-> "deleted"]
Lfn(n) == [kind |-> "lfn", name |-> n]
Data(d) == [kind |-> "data", byte |-> d]
Entry(short, dir, cluster, size) ==
    [kind |-> "entry", short |-> short, dir |-> dir,
     cluster |-> cluster, size |-> size]

ZeroSector == [i \in 1 .. Slots |-> Zero]

(* The volume after format_fat32: the root directory is one empty cluster. *)
Formatted ==
    [fat |-> [c \in Clusters |-> IF c = Root THEN Eoc ELSE Free],
     data |-> [c \in Clusters |-> ZeroSector]]

-----------------------------------------------------------------------------
(* Chains.                                                                 *)

(* next >= 2 && next < FAT32_EOC: the chain goes on. *)
Continues(v, c) == v.fat[c] \in 2 .. Eoc - 1

(* The clusters of the chain from c, in order.  The code would follow a    *)
(* cycle for ever; the sequence repeats clusters then, and stops after as  *)
(* many as there are.                                                      *)
Chain(v, c) ==
    LET next == [d \in Clusters \cup {0} |->
                    IF d # 0 /\ Continues(v, d) THEN v.fat[d] ELSE 0]
        nth[k \in 1 .. TotalClusters] ==
            IF k = 1 THEN c ELSE next[nth[k - 1]]
        length == Max({k \in 0 .. TotalClusters : \A j \in 1 .. k : nth[j] # 0})
    IN  [k \in 1 .. length |-> nth[k]]

(* The units of a chain, one after the other. *)
UnitsAlong(v, ch) ==
    [i \in 1 .. Len(ch) * Slots |->
        v.data[ch[((i - 1) \div Slots) + 1]][((i - 1) % Slots) + 1]]

Content(v, c) == UnitsAlong(v, Chain(v, c))

(* find_free_cluster scans 2..total_clusters: the two last clusters of     *)
(* the volume are never found.                                             *)
Findable(v) == {c \in 2 .. TotalClusters - 1 : v.fat[c] = Free}

CanAlloc(v) == Findable(v) # {}

NewCluster(v) == Min(Findable(v))

(* alloc_cluster, when it finds one: NewCluster(v), marked and zeroed. *)
AllocCluster(v) ==
    [fat |-> [v.fat EXCEPT ![NewCluster(v)] = Eoc],
     data |-> [v.data EXCEPT ![NewCluster(v)] = ZeroSector]]

(* alloc_cluster, and fat_set(last, new) after it. *)
Grow(v, last) == [AllocCluster(v) EXCEPT !.fat[last] = NewCluster(v)]

FreeChain(v, c) ==
    IF c < 2 THEN v
    ELSE [v EXCEPT !.fat = [d \in Clusters |->
             IF d \in Range(Chain(v, c)) THEN Free ELSE @[d]]]

-----------------------------------------------------------------------------
(* Files.                                                                  *)

(* read_file: skip to the cluster of the offset, then copy sector by       *)
(* sector, the first from the offset in it, until len units are copied or  *)
(* the chain ends.                                                         *)
CopySector(buf, sector, start, len) ==
    buf \o SubSeq(sector, start + 1, Min({Slots, start + len - Len(buf)}))

ReadAlongSkew_bug(v, ch, off, len) ==
    LET skip == off \div Slots
        copied[k \in skip .. Len(ch)] ==
            IF k = skip THEN <<>>
            ELSE CopySector(copied[k - 1], v.data[ch[k]], off % Slots, len)
    IN  IF Len(ch) <= skip THEN <<>> ELSE copied[Len(ch)]

ReadAlong(v, ch, off, len) ==
    LET skip == off \div Slots
        copied[k \in skip .. Len(ch)] ==
            IF k = skip THEN <<>>
            ELSE CopySector(copied[k - 1], v.data[ch[k]],
                            IF k = skip + 1 THEN off % Slots ELSE 0, len)
    IN  IF Len(ch) <= skip THEN <<>> ELSE copied[Len(ch)]

ReadFile(v, c, off, len) ==
    IF c < 2 THEN <<>> ELSE ReadAlong(v, Chain(v, c), off, len)

(* The sector after the part of buf that falls on it is written.  Only the *)
(* first sector, and only when the write starts inside it, is read before: *)
(* in every other one the units that are not written become zero.          *)
PatchedUnread_bug(old, off, buf, k) ==
    LET base == (k - 1) * Slots
    IN  [u \in 1 .. Slots |->
            IF base + u - off \in DOMAIN buf THEN buf[base + u - off] ELSE Zero]

Patched(old, off, buf, k) ==
    LET base == (k - 1) * Slots
        start == IF k = off \div Slots + 1 THEN off % Slots ELSE 0
        end == Min({Slots, off + Len(buf) - base})
    IN  [u \in 1 .. Slots |->
            IF start < u /\ u <= end THEN buf[base + u - off]
            ELSE IF start > 0 THEN old[u] ELSE Zero]

(* write_file, cluster by cluster: arrive at the next one, following the   *)
(* chain or growing it, and write what falls on it.  The state of the loop *)
(* is the volume, the cluster it is at, its number in the chain, and       *)
(* whether the volume was full.                                            *)
Arrive(s) ==
    IF s.full THEN s
    ELSE IF Continues(s.v, s.at)
    THEN [s EXCEPT !.at = s.v.fat[s.at], !.n = @ + 1]
    ELSE IF CanAlloc(s.v)
    THEN [s EXCEPT !.v = Grow(s.v, s.at), !.at = NewCluster(s.v), !.n = @ + 1]
    ELSE [s EXCEPT !.full = TRUE]

Put(s, off, buf) ==
    IF s.full \/ s.n <= off \div Slots \/ buf = <<>> THEN s
    ELSE [s EXCEPT !.v.data[s.at] = Patched(@, off, buf, s.n)]

(* The reply has the units written and the LAST cluster, or the first one  *)
(* when there was no room to reach the offset.                             *)
WriteReply(s, c, off, buf) ==
    [ok |-> TRUE,
     v |-> s.v,
     written |-> IF ~s.full THEN Len(buf) ELSE Max({0, s.n * Slots - off}),
     last |-> IF s.n <= off \div Slots THEN c ELSE s.at]

WriteFile(v, c, off, buf) ==
    LET needed == Max({off, off + Len(buf) - 1}) \div Slots + 1
        after[k \in 1 .. needed] ==
            IF k = 1
            THEN Put([v |-> v, at |-> c, n |-> 1, full |-> FALSE], off, buf)
            ELSE Put(Arrive(after[k - 1]), off, buf)
    IN  WriteReply(after[needed], c, off, buf)

-----------------------------------------------------------------------------
(* Directories.                                                            *)

(* walk_dir sees the units before the first zero one. *)
BeforeZero(all) ==
    SubSeq(all, 1, Min({i - 1 : i \in {j \in DOMAIN all : all[j] = Zero}}
                           \cup {Len(all)}))

Walked(v, dir) == BeforeZero(Content(v, dir))

(* The i-th unit walked is a short entry that goes by the name: that of    *)
(* the LFN entry before it, otherwise its short name.  (lfn_buf gathers    *)
(* what all LFN entries before it say, but the last ones overwrite the     *)
(* others up to their NUL, which is missing only when the length of the    *)
(* name is a multiple of 13.)                                              *)
GoesBy(w, i, name) ==
    IF i > 1 /\ w[i - 1].kind = "lfn"
    THEN w[i].kind \in {"entry", "data"} /\ w[i - 1].name = name
    ELSE w[i].kind = "entry" /\ w[i].short = <<name, 0>>

(* Where find_entry, update_dir_entry_size and delete_dir_entry find the   *)
(* name.                                                                   *)
Named(w, name) == {i \in DOMAIN w : GoesBy(w, i, name)}

Matches(v, dir, name) == Named(Walked(v, dir), name)

NoEntry == [kind |-> "none"]

FirstOf(w, m) == IF m = {} THEN NoEntry ELSE w[Min(m)]

FindIn(w, name) == FirstOf(w, Named(w, name))

FindEntry(v, dir, name) == FindIn(Walked(v, dir), name)

RootEntry == Entry(<<"/", 0>>, TRUE, Root, 0)

(* resolve_path.  A file ends the path.  Whether it does is decided by     *)
(* path.find(component): text of the component earlier in the path is      *)
(* taken for the component itself, and what follows it has a slash.        *)
Child(v, e, name) ==
    IF e.kind = "entry" /\ e.dir THEN FindEntry(v, e.cluster, name) ELSE NoEntry

EndsPath(path, k) ==
    \A j \in 1 .. k - 1 : <<path[k], path[j]>> \notin OccursIn

Component(path, k, e) ==
    IF e.kind = "entry" /\ ~e.dir /\ ~EndsPath(path, k) THEN NoEntry ELSE e

Resolve(v, path) ==
    LET found[k \in 0 .. Len(path)] ==
            IF k = 0 THEN RootEntry
            ELSE Component(path, k, Child(v, found[k - 1], path[k]))
    IN  found[Len(path)]

(* make_short_name: a valid 8.3 name as it is, another one with the first  *)
(* ~N that no entry of the directory has.                                  *)
ShortNames(w) == {w[i].short : i \in {j \in DOMAIN w : w[j].kind = "entry"}}

Unused(taken, name) ==
    Min({n \in 1 .. Cardinality(taken) + 1 : <<name, n>> \notin taken})

ShortName(v, dir, name) ==
    IF name \in Valid83 THEN <<name, 0>>
    ELSE <<name, Unused(ShortNames(Walked(v, dir)), name)>>

(* create_dir_entry: the LFN entries and the short one go into the first   *)
(* run of free slots of one sector; without one the directory grows.  A    *)
(* name with more entries than a sector has slots is never placed, and the *)
(* directory grows until the volume is full.                               *)
EntrySet(name, e) == Append([i \in 1 .. LfnCount[name] |-> Lfn(name)], e)

Runs(sector, n) ==
    {s \in 0 .. Slots - n :
        \A i \in 1 .. n : sector[s + i] \in {Zero, Deleted}}

Overlay(sector, new, s) ==
    [i \in 1 .. Slots |-> IF i - s \in DOMAIN new THEN new[i - s] ELSE sector[i]]

Place(v, c, new) ==
    [ok |-> TRUE,
     v |-> [v EXCEPT !.data[c] = Overlay(@, new, Min(Runs(@, Len(new))))]]

GrowUntilFull(v, last) ==
    LET grown[k \in 0 .. TotalClusters] ==
            IF k = 0 THEN [v |-> v, at |-> last, n |-> 1, full |-> FALSE]
            ELSE Arrive(grown[k - 1])
    IN  grown[TotalClusters].v

PlaceAlong(v, ch, new) ==
    LET room == {k \in DOMAIN ch : Runs(v.data[ch[k]], Len(new)) # {}}
    IN  IF room # {} THEN Place(v, ch[Min(room)], new)
        ELSE IF Len(new) > Slots
        THEN [ok |-> FALSE, v |-> GrowUntilFull(v, Last(ch))]
        ELSE IF CanAlloc(v) THEN Place(Grow(v, Last(ch)), NewCluster(v), new)
        ELSE [ok |-> FALSE, v |-> v]

CreateDirEntry(v, dir, name, isDir, cluster, size) ==
    PlaceAlong(v, Chain(v, dir),
               EntrySet(name, Entry(ShortName(v, dir, name), isDir, cluster,
                                    size)))

(* Position i of a directory is slot SlotOf(i) of the SectorOf(i)-th       *)
(* sector of its chain.                                                    *)
SectorOf(i) == ((i - 1) \div Slots) + 1
SlotOf(i) == ((i - 1) % Slots) + 1

(* update_dir_entry_size changes the matching entries of the first sector  *)
(* that has one, and goes on to the end of that sector before it writes    *)
(* it.  When it meets the end of the directory on the way it returns true  *)
(* without the write.                                                      *)
InFull(w, m) == Len(w) >= SectorOf(Min(m)) * Slots

UpdateAtAll_bug(v, c, k, m, size, cluster) ==
    [v EXCEPT !.data[c] = [i \in 1 .. Slots |->
        IF @[i].kind = "entry"
        THEN Entry(@[i].short, @[i].dir, cluster, size) ELSE @[i]]]

UpdateAtSize_bug(v, c, k, m, size, cluster) ==
    [v EXCEPT !.data[c] = [i \in 1 .. Slots |->
        IF (k - 1) * Slots + i \in m
        THEN Entry(@[i].short, @[i].dir, @[i].cluster, size) ELSE @[i]]]

UpdateAt(v, c, k, m, size, cluster) ==
    [v EXCEPT !.data[c] = [i \in 1 .. Slots |->
        IF (k - 1) * Slots + i \in m
        THEN Entry(@[i].short, @[i].dir, cluster, size) ELSE @[i]]]

UpdateFirst(v, ch, w, m, size, cluster) ==
    IF m = {} THEN [ok |-> FALSE, v |-> v]
    ELSE IF ~InFull(w, m) THEN [ok |-> TRUE, v |-> v]
    ELSE [ok |-> TRUE,
          v |-> UpdateAt(v, ch[SectorOf(Min(m))], SectorOf(Min(m)), m, size,
                         cluster)]

UpdateDirEntrySize(v, dir, name, size, cluster) ==
    UpdateFirst(v, Chain(v, dir), Walked(v, dir), Matches(v, dir, name), size,
                cluster)

(* delete_dir_entry marks the short entry only: lfn_len is reset before    *)
(* the test that would mark the LFN entries before it.                     *)
MarkDeletedZero_bug(v, ch, i) ==
    [v EXCEPT !.data[ch[SectorOf(i)]][SlotOf(i)] = Zero]

MarkDeleted(v, ch, i) ==
    [v EXCEPT !.data[ch[SectorOf(i)]][SlotOf(i)] = Deleted]

DeleteDirEntry(v, dir, name) ==
    MarkDeleted(v, Chain(v, dir), Min(Matches(v, dir, name)))

(* create_empty_dir, when alloc_cluster succeeds: "." and "..". *)
CreateEmptyDir(v, parent) ==
    LET c == NewCluster(v)
        dots == <<Entry(<<".", 0>>, TRUE, c, 0),
                  Entry(<<"..", 0>>, TRUE, parent, 0)>>
    IN  [AllocCluster(v) EXCEPT !.data[c] = [i \in 1 .. Slots |->
            IF i <= 2 THEN dots[i] ELSE Zero]]

(* truncate_file keeps the first cluster, zeroed, and frees the rest. *)
EmptiedLinked_bug(v, c) == [v EXCEPT !.data[c] = ZeroSector]

EmptiedKeeps_bug(v, c) == [v EXCEPT !.fat[c] = Eoc]

Emptied(v, c) == [v EXCEPT !.fat[c] = Eoc, !.data[c] = ZeroSector]

TruncateFile(v, c, dir, name) ==
    UpdateDirEntrySize(
        Emptied(IF Continues(v, c) THEN FreeChain(v, v.fat[c]) ELSE v, c),
        dir, name, 0, c)

=============================================================================
