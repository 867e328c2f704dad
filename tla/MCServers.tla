----------------------------- MODULE MCServers -----------------------------
(***************************************************************************)
(* Model checking Servers.                                                 *)
(***************************************************************************)
EXTENDS Servers

(* The registers and the buffer of a task matter while it sleeps in a call *)
(* and while, as a server, it has a request in hand; at any other time     *)
(* they are overwritten before they are read again, and states that differ *)
(* in nothing else are explored once.                                      *)
Matters(p) ==
    \/ p \in Servers /\ pc[p] # "recv"
    \/ \E e \in Endpoints : Asleep(p, IpcCall(e))

ServersView ==
    <<tasksVars, eps, uartVars, serverVars,
      [p \in {q \in Pids : Matters(q)} |-> <<frame[p], mem[p]>>]>>

=============================================================================
