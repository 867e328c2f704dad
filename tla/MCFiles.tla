------------------------------ MODULE MCFiles ------------------------------
(***************************************************************************)
(* Model checking Files.  A path is a sequence of names.  A name of one    *)
(* letter takes one slot of a directory, a name of 14 letters or more at   *)
(* least three: with the names of the first group the root, of four slots, *)
(* is full when it has both of its entries, the file "a" and the directory *)
(* "d" with the long name.  In the second group all names are long.        *)
(***************************************************************************)
EXTENDS Files

CONSTANT MaxOpens       \* bound: descriptors that are filled in, forks too

VARIABLE opens          \* how many have been

A == <<"a">>
B == <<"b">>
D == <<"d">>
DB == <<"d", "b">>

McNames == {"a", "b", "d"}
McLfnCount == [a |-> 0, b |-> 0, d |-> 2]
McValid83 == {"a", "b"}
McFilePaths == {A, DB}
McPathLen == [q \in McFilePaths |-> IF q = A THEN 2 ELSE 17]
McDirPaths == {D}
McDeletePaths == {A, DB}
McFlags == {{"creat"}, {"creat", "trunc"}, {"append"}}

McLongLfnCount == [n \in McNames |-> 2]
McRootPaths == {A, B}
McLongPathLen == [q \in McRootPaths |-> 15]
McCreat == {{"creat"}}

(* Neither is a shift of the other, and only the first fits into a cluster. *)
McTexts == {<<1, 2, 3>>, <<2, 2, 1, 1, 2>>}
McShortTexts == {<<1, 2, 3>>}

McOccursIn == {<<n, n>> : n \in McNames}

FilledIn(before, after) ==
    {d \in Programs \X Fds :
        ~before[d[1]][d[2]].inUse /\ after[d[1]][d[2]].inUse}

McInit == FilesInit /\ opens = 0

McNext ==
    /\ FilesNext
    /\ opens' = opens + Cardinality(FilledIn(fds, fds'))
    /\ opens' <= MaxOpens

McSpec == McInit /\ [][McNext]_<<filesVars, opens>>

-----------------------------------------------------------------------------
(* Which cluster holds what makes no difference: every property here       *)
(* follows chains, alloc_cluster zeroes what it takes, and nothing leads   *)
(* to a cluster outside of the chains of Heads.  A state is known by what  *)
(* lies along the chains, which paths and descriptors lead to each of them *)
(* and how many clusters are left.  What is saved matters only where       *)
(* SavedInFullSector looks at it.  (TLC keeps functions unevaluated until  *)
(* something compares them: hence the last component.)                     *)
Anonymous(r) ==
    [r EXCEPT !.cluster = IF @ \in DOMAIN objs THEN objs[@] ELSE <<>>]

Listing(dir) ==
    LET all == Content(vol, dir)
    IN  [i \in DOMAIN all |-> IF all[i].kind = "entry" THEN Anonymous(all[i])
                              ELSE all[i]]

FilesView ==
    LET places == FilePaths \cup DirPaths \cup {<<>>}
        found == {s \in {<<q, Resolve(vol, q)>> : q \in places} :
                     s[2] # NoEntry}
        lead == {<<s[1], s[2].cluster>> : s \in found}
        open == {<<d, fds[d[1]][d[2]]>> :
                    d \in {g \in Programs \X Fds : fds[g[1]][g[2]].inUse}}
        at == lead \cup {<<s[1], s[2].cluster>> : s \in open}
    IN  <<{<<s[1], Listing(s[2])>> : s \in {r \in lead : r[1] \notin FilePaths}},
          {<<s[1], Anonymous(s[2])>> : s \in open},
          {<<q, Anonymous(saved[q])>> :
              q \in {r \in FilePaths : saved[r].known /\ saved[r].sector}},
          {{s[1] : s \in {r \in at : r[2] = c}} : c \in {s[2] : s \in at}},
          extent, truncating, opens, Cardinality(Findable(vol)),
          vol = vol, objs = objs>>

ProgramSymmetry == Permutations(Programs)

=============================================================================
