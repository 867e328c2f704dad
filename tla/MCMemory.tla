------------------------------ MODULE MCMemory ------------------------------
(***************************************************************************)
(* Model checking Memory.                                                  *)
(***************************************************************************)
EXTENDS Memory

Shape(sp) ==
    <<Cardinality(Owned(sp)), Cardinality(sp.tables), Cardinality(sp.image),
      Len(sp.heap), sp.heap_end>>

(* Which pages a task has makes no difference to what happens next, only   *)
(* how many there are of each kind and which lie beyond the mapping:       *)
(* states that differ by a renaming of the other pages are explored once.  *)
(* The sizes of the overlaps keep a state in which two owners share a      *)
(* page, or an owner has a free one, apart from those in which they do not.*)
MemView ==
    <<tasksVars, free_pages, panicked, [s \in Slots |-> Shape(spaces[s])],
      Cardinality(used), Cardinality(AllOwned), Cardinality(used \cap AllOwned),
      Cardinality(lost), Cardinality(lost \cap AllOwned),
      (AllOwned \cup lost) \cap KernelPages,
      {p \in used : p >= Mapped}>>

=============================================================================
