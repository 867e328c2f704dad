------------------------------- MODULE Files -------------------------------
(***************************************************************************)
(* Programs and their files: the descriptor table of libc (fd_table.c) in  *)
(* each program, and the request loop of the file server on one volume.    *)
(*                                                                         *)
(* The server handles one request at a time and the program sleeps until   *)
(* its reply (module Servers), so a request, its handler and what libc     *)
(* does with the reply are one step.  A library call that makes two        *)
(* requests that change something is two steps.  A program may exit        *)
(* between any two of them, and fork copies the table with the rest of its *)
(* memory.                                                                 *)
(*                                                                         *)
(* The kernel refuses a request with a buffer while that of another        *)
(* program is queued (module Ipc).  open(), read() and write() return an   *)
(* error then and have changed nothing; the truncation in open() and the   *)
(* directory update in close() do not look at the result.                  *)
(***************************************************************************)
EXTENDS FatFs, TLC

CONSTANTS
    Programs,       \* programs that can exist at the same time
    MaxFd,          \* descriptors of a program: 3 .. MaxFd - 1
    FilePaths,      \* the files that the programs open
    DirPaths,       \* the directories they make
    DeletePaths,    \* the files and directories they delete
    PathLen,        \* FilePaths -> the characters of the path
    Flags,          \* the sets of flags they open with
    Bytes,          \* what a unit can be
    Texts,          \* what they write at once, in units
    ReadSizes,      \* how much they read at once
    MaxOffset       \* bound: descriptors are not moved beyond it

Paths == UNION {[1 .. n -> Names] : n \in 1 .. 2}

ASSUME FilesAssumption ==
    /\ MaxFd \in Nat \ 0 .. 3
    /\ FilePaths \subseteq Paths
    /\ DirPaths \subseteq Paths /\ FilePaths \cap DirPaths = {}
    /\ DeletePaths \subseteq FilePaths \cup DirPaths
    /\ PathLen \in [FilePaths -> Nat \ {0}]
    /\ Flags \subseteq SUBSET {"creat", "trunc", "append"}
    /\ Texts \subseteq Seq(Bytes) /\ ReadSizes \subseteq Nat \ {0}
    /\ MaxOffset \in Nat

VARIABLES
    vol,        \* the volume
    fds,        \* fd_table of each program
    extent,     \* the last byte of fd_table[fd].path that is not NUL
    truncating, \* program -> descriptor with an FS_TRUNCATE still to send
    saved,      \* observed: file -> what its last descriptor left behind
    objs        \* observed: the first cluster of a file -> its units

filesVars == <<vol, fds, extent, truncating, saved, objs>>

Fds == 3 .. MaxFd - 1
NoFd == 0

(* A descriptor: the fields of fd_entry, and two that are observed: the    *)
(* units up to the offset as the program has read and written them, and    *)
(* whether it is bound to know them: no other descriptor has been on its   *)
(* path since it was opened, and the first write to the file, if it was    *)
(* through this descriptor, was no longer than a cluster (Misplaced).      *)
Closed == [inUse |-> FALSE]
Opened(path, cluster, size) ==
    [inUse |-> TRUE, path |-> path, cluster |-> cluster, size |-> size,
     offset |-> 0, dirty |-> FALSE, text |-> <<>>, sole |-> TRUE]

NotSaved == [known |-> FALSE]

FilesInit ==
    /\ vol = Formatted
    /\ fds = [p \in Programs |-> [f \in Fds |-> Closed]]
    /\ extent = [p \in Programs |-> [f \in Fds |-> 0]]
    /\ truncating = [p \in Programs |-> NoFd]
    /\ saved = [q \in FilePaths |-> NotSaved]
    /\ objs = << >>

-----------------------------------------------------------------------------
(* The requests that carry a path.                                         *)

Parent(path) == Front(path)

Refused(v) == [ok |-> FALSE, v |-> v]

OpenReply(v, e) ==
    IF e = NoEntry THEN Refused(v)
    ELSE [ok |-> TRUE, v |-> v, cluster |-> e.cluster, size |-> e.size]

FsOpen(v, path) == OpenReply(v, Resolve(v, path))

CreateReply(r) ==
    IF r.ok THEN [ok |-> TRUE, v |-> r.v, cluster |-> 0, size |-> 0]
    ELSE Refused(r.v)

CreateIn(v, dir, name) ==
    IF dir = NoEntry THEN Refused(v)
    ELSE CreateReply(CreateDirEntry(v, dir.cluster, name, FALSE, 0, 0))

FsCreateOpen(v, path) ==
    IF Resolve(v, path) # NoEntry THEN FsOpen(v, path)
    ELSE CreateIn(v, Resolve(v, Parent(path)), Last(path))

UpdateIn(v, dir, name, size, cluster) ==
    IF dir = NoEntry THEN Refused(v)
    ELSE UpdateDirEntrySize(v, dir.cluster, name, size, cluster)

FsUpdateSize(v, path, size, cluster) ==
    UpdateIn(v, Resolve(v, Parent(path)), Last(path), size, cluster)

(* The entry of the name in the directory that the parent path leads to. *)
EntryIn(v, dir, name) ==
    IF dir = NoEntry THEN NoEntry ELSE FindEntry(v, dir.cluster, name)

TruncateIn(v, dir, name, e) ==
    IF e = NoEntry THEN Refused(v)
    ELSE IF e.cluster < 2 THEN [ok |-> TRUE, v |-> v]
    ELSE TruncateFile(v, e.cluster, dir.cluster, name)

TruncateAt(v, dir, name) == TruncateIn(v, dir, name, EntryIn(v, dir, name))

FsTruncate(v, path) == TruncateAt(v, Resolve(v, Parent(path)), Last(path))

(* The entry goes first, then the chain, whoever has the file open. *)
DeleteIn(v, dir, name, e) ==
    IF e = NoEntry THEN Refused(v)
    ELSE [ok |-> TRUE,
          v |-> FreeChain(DeleteDirEntry(v, dir.cluster, name), e.cluster)]

DeleteAt(v, dir, name) == DeleteIn(v, dir, name, EntryIn(v, dir, name))

FsDelete(v, path) == DeleteAt(v, Resolve(v, Parent(path)), Last(path))

(* FS_MKDIR does not look for the name, and replies OK when the entry      *)
(* could not be made.                                                      *)
MkdirIn(v, dir, name) ==
    IF dir = NoEntry \/ ~CanAlloc(v) THEN Refused(v)
    ELSE [ok |-> TRUE,
          v |-> CreateDirEntry(CreateEmptyDir(v, dir.cluster), dir.cluster,
                               name, TRUE, NewCluster(v), 0).v]

FsMkdir(v, path) == MkdirIn(v, Resolve(v, Parent(path)), Last(path))

(* FS_WRITE: the first write to an empty file allocates its first cluster. *)
FsWrite(v, cluster, off, buf) ==
    IF cluster >= 2 THEN WriteFile(v, cluster, off, buf)
    ELSE IF CanAlloc(v)
    THEN WriteFile(AllocCluster(v), NewCluster(v), off, buf)
    ELSE Refused(v)

-----------------------------------------------------------------------------
(* libc.                                                                   *)

Using(path) == {d \in Programs \X Fds :
                   fds[d[1]][d[2]].inUse /\ fds[d[1]][d[2]].path = path}

(* save_path copies the path and its NUL over what the slot held: bytes of *)
(* a path more than one character longer stay behind the NUL.              *)
SavePath(e, path) == IF e > PathLen[path] + 1 THEN e ELSE PathLen[path]

(* sync_dir_entry sends all MAX_PATH bytes, and the server cuts off only   *)
(* the NULs at the end: it sees the path, or one that no entry matches.    *)
PathSentWhole(p, f) == extent[p][f] = PathLen[fds[p][f].path]

(* The program cannot tell any more what the file holds. *)
Shared(e) == [e EXCEPT !.sole = FALSE, !.text = <<>>]

(* What the program knows of the file grows by what it reads or writes. *)
Knows(e, units) == IF e.sole THEN e.text \o units ELSE <<>>

(* The table with the descriptor that open() has just filled in; every     *)
(* descriptor on the same path has company from now on.                    *)
WithOpened(p, f, e) ==
    [q \in Programs |-> [g \in Fds |->
        IF <<q, g>> = <<p, f>>
        THEN IF Using(e.path) = {} THEN e ELSE Shared(e)
        ELSE IF <<q, g>> \in Using(e.path) THEN Shared(fds[q][g])
        ELSE fds[q][g]]]

(* O_APPEND puts the offset at the end. *)
AtEnd(e, units) ==
    IF Len(units) = e.size THEN [e EXCEPT !.offset = e.size, !.text = units]
    ELSE Shared([e EXCEPT !.offset = e.size])

Positioned(v, e, flags) ==
    IF "append" \in flags THEN AtEnd(e, ReadFile(v, e.cluster, 0, e.size))
    ELSE e

(* alloc_fd takes the lowest descriptor that is free. *)
AllocFd(p, f) == ~fds[p][f].inUse /\ \A g \in 3 .. f - 1 : fds[p][g].inUse

(* What open() does with a positive reply; with O_TRUNC on a file that is  *)
(* not empty, FS_TRUNCATE is still to come.                                *)
FillIn(p, f, r, path, flags) ==
    LET trunc == "trunc" \in flags /\ r.size > 0
        request == trunc /\ r.cluster >= 2
        e == Opened(path, r.cluster, IF trunc /\ ~request THEN 0 ELSE r.size)
    IN  /\ extent' = [extent EXCEPT ![p][f] = SavePath(@, path)]
        /\ \/ /\ request
              /\ fds' = WithOpened(p, f, e)
              /\ truncating' = [truncating EXCEPT ![p] = f]
           \/ /\ ~request
              /\ fds' = WithOpened(p, f, Positioned(r.v, e, flags))
              /\ UNCHANGED truncating

(* open(): FS_OPEN or FS_CREATE_OPEN. *)
Open(p, path, flags) ==
    /\ truncating[p] = NoFd
    /\ \E f \in Fds :
        /\ AllocFd(p, f)
        /\ \E r \in {IF "creat" \in flags THEN FsCreateOpen(vol, path)
                     ELSE FsOpen(vol, path)} :
            /\ vol' = r.v
            /\ \/ ~r.ok /\ UNCHANGED <<fds, extent, truncating>>
               \/ r.ok /\ FillIn(p, f, r, path, flags)
    /\ UNCHANGED saved

(* The second request of open() with O_TRUNC, by path.  Whether the kernel *)
(* accepted it, and its reply, are not looked at.  The offset is zero,     *)
(* with O_APPEND too.                                                      *)
OpenTruncate(p, accepted) ==
    LET f == truncating[p]
        path == fds[p][f].path
    IN  /\ f # NoFd
        /\ \/ accepted /\ vol' = FsTruncate(vol, path).v
           \/ ~accepted /\ UNCHANGED vol
        /\ fds' = [fds EXCEPT ![p][f].size = 0]
        /\ truncating' = [truncating EXCEPT ![p] = NoFd]
        /\ saved' = [saved EXCEPT ![path] = NotSaved]
        /\ UNCHANGED extent

(* Observed: a first write that takes more than one cluster leaves the     *)
(* descriptor with the last of them for the first.                         *)
Misplaced(e, n) == e.cluster = 0 /\ n > Slots

Writer(e, n) == IF Misplaced(e, n) THEN Shared(e) ELSE e

(* write(): the reply's last cluster becomes the descriptor's cluster when *)
(* it had none.                                                            *)
Write(p, f, t) ==
    LET n == Len(t)
        e == fds[p][f]
        writer == Writer(e, n)
        buf == [i \in 1 .. n |-> Data(t[i])]
    IN  /\ truncating[p] = NoFd
        /\ e.inUse
        /\ e.offset + n <= MaxOffset
        /\ \E r \in {FsWrite(vol, e.cluster, e.offset, buf)} :
            /\ vol' = r.v
            /\ \/ ~r.ok /\ UNCHANGED <<fds, saved>>
               \/ /\ r.ok
                  /\ fds' = [fds EXCEPT ![p][f] =
                        [writer EXCEPT
                            !.cluster = IF @ = 0 THEN r.last ELSE @,
                            !.offset = @ + r.written,
                            !.size = Max({@, e.offset + r.written}),
                            !.dirty = TRUE,
                            !.text = Knows(writer, SubSeq(buf, 1, r.written))]]
                  /\ saved' = [saved EXCEPT ![e.path] = NotSaved]
        /\ UNCHANGED <<extent, truncating>>

(* read(): as much as the size recorded at open() and the chain allow. *)
ReadPastSize_bug(p, f, n) ==
    LET e == fds[p][f]
    IN  /\ truncating[p] = NoFd
        /\ e.inUse
        /\ e.offset < e.size
        /\ \E got \in {ReadFile(vol, e.cluster, e.offset, n)} :
              fds' = [fds EXCEPT ![p][f].offset = @ + Len(got),
                                 ![p][f].text = Knows(e, got)]
        /\ UNCHANGED <<vol, extent, truncating, saved>>

Read(p, f, n) ==
    LET e == fds[p][f]
    IN  /\ truncating[p] = NoFd
        /\ e.inUse
        /\ e.offset < e.size
        /\ \E got \in {ReadFile(vol, e.cluster, e.offset,
                                Min({n, e.size - e.offset}))} :
              fds' = [fds EXCEPT ![p][f].offset = @ + Len(got),
                                 ![p][f].text = Knows(e, got)]
        /\ UNCHANGED <<vol, extent, truncating, saved>>

(* Observed: the sector that holds the entry of the path has no end mark. *)
NamedInFull(w, m) == m # {} /\ InFull(w, m)

FullIn(v, dir, name) ==
    dir # NoEntry /\ NamedInFull(Walked(v, dir.cluster),
                                 Matches(v, dir.cluster, name))

InFullSector(v, path) == FullIn(v, Resolve(v, Parent(path)), Last(path))

(* Observed: what a descriptor that was written to leaves when it closes,  *)
(* with what its program knows of the file.                                *)
Left(e, sent, sector) ==
    IF e.sole THEN [known |-> TRUE, cluster |-> e.cluster, size |-> e.size,
                    text |-> e.text, sent |-> sent, sector |-> sector]
    ELSE NotSaved

(* close(): sync_dir_entry, of which neither acceptance nor reply is       *)
(* looked at, then FS_CLOSE, which the server only answers.                *)
Close(p, f, accepted) ==
    LET e == fds[p][f]
        sync == e.dirty /\ accepted /\ PathSentWhole(p, f)
    IN  /\ truncating[p] = NoFd
        /\ e.inUse
        /\ vol' = IF sync THEN FsUpdateSize(vol, e.path, e.size, e.cluster).v
                  ELSE vol
        /\ fds' = [fds EXCEPT ![p][f] = Closed]
        /\ saved' = IF ~e.dirty THEN saved
                    ELSE [saved EXCEPT ![e.path] =
                             Left(e, sync, sync /\ InFullSector(vol, e.path))]
        /\ UNCHANGED <<extent, truncating>>

(* A program ends without closing anything.  The next one in its place has *)
(* an empty table.                                                         *)
Exit(p) ==
    /\ extent[p] # [f \in Fds |-> 0]
    /\ fds' = [fds EXCEPT ![p] = [f \in Fds |-> Closed]]
    /\ extent' = [extent EXCEPT ![p] = [f \in Fds |-> 0]]
    /\ truncating' = [truncating EXCEPT ![p] = NoFd]
    /\ UNCHANGED <<vol, saved>>

(* fork(): q, which has not opened anything, becomes a copy of p. *)
Fork(p, q) ==
    /\ truncating[p] = NoFd
    /\ \E f \in Fds : fds[p][f].inUse
    /\ extent[q] = [f \in Fds |-> 0]
    /\ LET table == [f \in Fds |-> IF fds[p][f].inUse
                                   THEN Shared(fds[p][f]) ELSE Closed]
       IN  fds' = [fds EXCEPT ![p] = table, ![q] = table]
    /\ extent' = [extent EXCEPT ![q] = extent[p]]
    /\ UNCHANGED <<vol, truncating, saved>>

-----------------------------------------------------------------------------
(* Requests that libc has no call for.  A program sends them itself.  The  *)
(* server does not protect open files, nor names in use, and the programs  *)
(* here do: they delete what nobody has open, and make a directory only    *)
(* where there is none.                                                    *)

Delete(path) ==
    /\ Using(path) = {}
    /\ \A q \in FilePaths : Parent(q) = path => Using(q) = {}
    /\ \E r \in {FsDelete(vol, path)} : r.ok /\ vol' = r.v
    /\ saved' = [q \in FilePaths |->
                    IF q = path \/ Parent(q) = path THEN NotSaved ELSE saved[q]]
    /\ UNCHANGED <<fds, extent, truncating>>

Mkdir(path) ==
    /\ Resolve(vol, path) = NoEntry
    /\ vol' = FsMkdir(vol, path).v
    /\ UNCHANGED <<fds, extent, truncating, saved>>

(* The entries of a directory apart from "." and "..". *)
ListedIn(w) ==
    {w[i] : i \in {j \in DOMAIN w : w[j].kind = "entry"
                                    /\ w[j].short[1] \in Names}}

EntriesOf(v, dir) == ListedIn(Walked(v, dir))

(* The directories that a path can lead to; paths have two components. *)
Directories(v) ==
    {Root} \cup {e.cluster : e \in {g \in EntriesOf(v, Root) : g.dir}}

(* The first clusters of the files in directories, and of the open ones. *)
FilesOf(v, table) ==
    ((UNION {{e.cluster : e \in {g \in EntriesOf(v, d) : ~g.dir}} :
                d \in Directories(v)})
      \cup {table[d[1]][d[2]].cluster : d \in {g \in Programs \X Fds :
                                                table[g[1]][g[2]].inUse}})
      \ {0}

Observed(v, table) == [h \in FilesOf(v, table) |-> Content(v, h)]

FilesStep ==
    \/ \E p \in Programs :
        \/ \E path \in FilePaths, flags \in Flags : Open(p, path, flags)
        \/ \E accepted \in BOOLEAN : OpenTruncate(p, accepted)
        \/ \E f \in Fds :
            \/ \E t \in Texts : Write(p, f, t)
            \/ \E n \in ReadSizes : Read(p, f, n)
            \/ \E accepted \in BOOLEAN : Close(p, f, accepted)
        \/ Exit(p)
        \/ \E q \in Programs \ {p} : Fork(p, q)
    \/ \E path \in DeletePaths : Delete(path)
    \/ \E path \in DirPaths : Mkdir(path)

(* What is observed of the files follows every step. *)
FilesNext ==
    /\ FilesStep
    /\ \E v \in {vol'}, table \in {fds'} : objs' = Observed(v, table)

FilesSpec == FilesInit /\ [][FilesNext]_filesVars

-----------------------------------------------------------------------------
(* Properties.                                                             *)

Units == {Zero, Deleted} \cup {Lfn(n) : n \in Names} \cup {Data(b) : b \in Bytes}

(* The table, the sectors and the descriptors have the form fs-server and  *)
(* fd_table.c give them; a program waits for FS_TRUNCATE only on a file it *)
(* has open.                                                               *)
FilesTypeOK ==
    /\ vol.fat \in [Clusters -> {Free} \cup 2 .. Eoc]
    /\ \A c \in Clusters : /\ DOMAIN vol.data[c] = 1 .. Slots
                           /\ \A i \in 1 .. Slots :
                                  \/ vol.data[c][i] \in Units
                                  \/ vol.data[c][i].kind = "entry"
    /\ \A p \in Programs, f \in Fds :
           LET e == fds[p][f]
           IN  e.inUse => /\ e.path \in FilePaths
                          /\ e.cluster \in {0} \cup Clusters
                          /\ {e.size, e.offset} \subseteq 0 .. MaxOffset
                          /\ e.sole => Len(e.text) = e.offset
    /\ \A p \in Programs : truncating[p] # NoFd => fds[p][truncating[p]].inUse

(* Where chains begin that somebody can follow. *)
Heads == Directories(vol) \cup DOMAIN objs

(* Every chain that an entry or an open descriptor starts is allocated to  *)
(* its end: alloc_cluster, free_chain and truncate_file never leave a      *)
(* program or a directory with a cluster that can be given to somebody     *)
(* else.                                                                   *)
ReferencesLive == \A h \in Heads : vol.fat[Last(Chain(vol, h))] = Eoc

(* No two entries start the same chain, chains that start at different     *)
(* clusters have no cluster in common, and none comes back on itself: a    *)
(* write to a file reaches no other file and no directory.                 *)
ChainsSeparate ==
    /\ \A c, d \in Directories(vol) :
           \A e \in EntriesOf(vol, c), g \in EntriesOf(vol, d) :
               e.cluster = g.cluster /\ e.cluster # 0 => c = d /\ e = g
    /\ \A h \in Heads : IsInjective(Chain(vol, h))
    /\ \A g, h \in Heads :
           g # h => Range(Chain(vol, g)) \cap Range(Chain(vol, h)) = {}

(* read_file copies what lies along the chain, from any offset and across  *)
(* sectors.                                                                *)
ReadsChain ==
    \A h \in DOMAIN objs, off \in 0 .. MaxOffset, n \in 0 .. MaxOffset :
        ReadFile(vol, h, off, n)
            = SubSeq(objs[h], off + 1, Min({off + n, Len(objs[h])}))

(* What a program has read and written through a descriptor that nobody    *)
(* else shares is what the file holds up to its offset, whatever other     *)
(* programs do to other files and to the directories, unless the first     *)
(* write to the file was through that descriptor and longer than a cluster *)
(* (sole): write() loses the beginning of the file then.                   *)
ReadBack ==
    \A p \in Programs, f \in Fds :
        LET e == fds[p][f]
        IN  e.inUse /\ e.sole /\ e.offset > 0 =>
                /\ e.cluster # 0
                /\ IsPrefix(e.text, objs[e.cluster])

(* The file that a path leads to is the one its last descriptor left:      *)
(* reading all of it gives what the program knew of it, and what follows.  *)
AsLeft(e, left) ==
    /\ e.kind = "entry" /\ e.cluster = left.cluster /\ e.size = left.size
    /\ IsPrefix(left.text, ReadFile(vol, e.cluster, 0, e.size))

(* A file that a program has written and closed is there for the next one  *)
(* to open, with its size, its first cluster and all that the program has  *)
(* read and written of it, when the sector of its entry was full at the    *)
(* close, nobody shared the file, and the first write to it was no longer  *)
(* than a cluster (sole).                                                  *)
SavedInFullSector ==
    \A path \in FilePaths :
        saved[path].known /\ saved[path].sector =>
            AsLeft(Resolve(vol, path), saved[path])

(* "Update the size and the first cluster of the entry, after a write"     *)
(* (update_dir_entry_size): every file that was written and closed is      *)
(* there to open, when close() could send its request and path.            *)
SavedOnClose ==
    \A path \in FilePaths :
        saved[path].known /\ saved[path].sent =>
            AsLeft(Resolve(vol, path), saved[path])

(* "O_CREAT: create it if it does not exist, open it if it does"           *)
(* (FS_CREATE_OPEN): the path of an open file leads to an entry, so that   *)
(* the next open() finds it and close() has something to update.           *)
OpenFilesFound ==
    \A p \in Programs, f \in Fds :
        fds[p][f].inUse => Resolve(vol, fds[p][f].path) # NoEntry

(* The volume and the descriptors implement files as objects. *)
NoCursor == [obj |-> 0, pos |-> 0]

Objects == INSTANCE FileObjects WITH
    Descriptors <- Programs \X Fds,
    cursor <- [d \in Programs \X Fds |->
                  LET e == fds[d[1]][d[2]]
                  IN  IF e.inUse /\ e.cluster # 0
                      THEN [obj |-> e.cluster, pos |-> e.offset] ELSE NoCursor]

(* A step changes the units of one file at most, and then from the offset  *)
(* of the descriptor that writes, or by truncating it (FileObjects):       *)
(* whatever chains are extended, freed and used again meanwhile.           *)
ImplementsObjects == Objects!ObjSpec

=============================================================================
