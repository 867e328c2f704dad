------------------------------ MODULE MCMalloc ------------------------------
(***************************************************************************)
(* Model checking Malloc.                                                  *)
(***************************************************************************)
EXTENDS Malloc

(* The requests of the run are within those that MallocProofs is about.    *)
ASSUME RequestsCounted == NoHugeRequest

=============================================================================
