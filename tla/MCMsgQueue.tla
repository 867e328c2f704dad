----------------------------- MODULE MCMsgQueue -----------------------------
(***************************************************************************)
(* Model checking MsgQueue.                                                *)
(***************************************************************************)
EXTENDS MsgQueue

=============================================================================
