------------------------------- MODULE MCIpc -------------------------------
(***************************************************************************)
(* Model checking Ipc.                                                     *)
(***************************************************************************)
EXTENDS Ipc

(* Registers and buffers never decide how the table or an endpoint changes *)
(* (a reply_buf that must fail aside, for which a reply does the same to   *)
(* both), and no invariant of this model but the type invariant reads      *)
(* them: states that differ in nothing else are explored once.  A register *)
(* or a buffer of the wrong type keeps its state apart.                    *)
KernelView == <<tasksVars, eps, IpcTypeOK>>

=============================================================================
