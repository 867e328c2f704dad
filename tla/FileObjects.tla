---------------------------- MODULE FileObjects ----------------------------
(***************************************************************************)
(* What the programs may count on from the file server and from libc       *)
(* together: a file is an object of its own, a growing sequence of units.  *)
(* An object changes only where a descriptor on it writes, at the position *)
(* of that descriptor, or when it is truncated.  Opening, reading, closing *)
(* and everything done to other files leave it as it is, until no          *)
(* descriptor and no directory entry leads to it.                          *)
(***************************************************************************)
EXTENDS Integers, Sequences

CONSTANTS
    Descriptors,    \* where a program can have a file open
    Slots,          \* units of a sector
    Zero,           \* a unit of zeros
    NoCursor        \* a descriptor that is not open on an object

VARIABLES
    objs,           \* object -> its units
    cursor          \* descriptor -> [obj, pos] or NoCursor

objVars == <<objs, cursor>>

ObjInit ==
    /\ objs = << >>
    /\ cursor = [d \in Descriptors |-> NoCursor]

(* An object that is new with this step is empty before it. *)
Before(h) == IF h \in DOMAIN objs THEN objs[h] ELSE << >>

(* The end of the sector that unit n lies in. *)
SectorEnd(n) == ((n + Slots - 1) \div Slots) * Slots

(* A write through d of the units from its position to its new one.  What  *)
(* is in front is kept, a gap is zero; behind, the rest of the last sector *)
(* is kept or zeroed, and later sectors are kept.                          *)
Store(d) ==
    \E after \in {objs'}, to \in {cursor'[d]} :
        LET h == to.obj
            old == Before(h)
            new == after[h]
            off == IF cursor[d] = NoCursor THEN 0 ELSE cursor[d].pos
        IN  /\ to # NoCursor
            /\ cursor' = [cursor EXCEPT ![d] = to]
            /\ cursor[d] # NoCursor => cursor[d].obj = h
            /\ DOMAIN after = DOMAIN objs \cup {h}
            /\ \A g \in DOMAIN objs \ {h} : after[g] = objs[g]
            /\ Len(new) >= Len(old)
            /\ \A i \in DOMAIN new :
                  /\ i <= off /\ i <= Len(old) => new[i] = old[i]
                  /\ i <= off /\ i > Len(old) => new[i] = Zero
                  /\ (i > to.pos /\ new[i] # Zero) =>
                         (i <= Len(old) /\ new[i] = old[i])
                  /\ i > SectorEnd(to.pos) /\ i <= Len(old) => new[i] = old[i]

(* One object loses its units. *)
Truncate(h) ==
    /\ h \in DOMAIN objs
    /\ objs' = [objs EXCEPT ![h] = [i \in 1 .. Slots |-> Zero]]

(* Any step of the descriptors that changes no object; objects that        *)
(* nothing leads to any more are gone.                                     *)
Move ==
    \E after \in {objs'} : /\ DOMAIN after \subseteq DOMAIN objs
                          /\ \A h \in DOMAIN after : after[h] = objs[h]

ObjNext ==
    \/ \E d \in Descriptors : Store(d)
    \/ \E h \in DOMAIN objs : Truncate(h)
    \/ Move

ObjSpec == ObjInit /\ [][ObjNext]_objVars

=============================================================================
