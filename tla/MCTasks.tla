------------------------------ MODULE MCTasks ------------------------------
(***************************************************************************)
(* Model checking Tasks.                                                   *)
(***************************************************************************)
EXTENDS Tasks

=============================================================================
