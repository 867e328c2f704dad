------------------------------ MODULE SyncCall ------------------------------
(***************************************************************************)
(* What a synchronous call promises, whatever the kernel does to provide   *)
(* it: a client that calls is blocked, its request is taken by the server  *)
(* once and in its turn, and the answer to it, and nothing else, unblocks  *)
(* the client.                                                             *)
(***************************************************************************)
EXTENDS Integers, Sequences

CONSTANTS
    Endpoints,      \* where requests are made
    Clients,        \* who makes them
    Nobody          \* no client

VARIABLES
    waiting,        \* endpoint -> the clients whose request is not taken yet
    serving,        \* endpoint -> the client whose request is being served
    blocked         \* endpoint -> the clients that are in a call to it

syncVars == <<waiting, serving, blocked>>

SyncInit ==
    /\ waiting = [e \in Endpoints |-> <<>>]
    /\ serving = [e \in Endpoints |-> Nobody]
    /\ blocked = [e \in Endpoints |-> {}]

(* A client has one call at a time. *)
Call(e, c) ==
    /\ \A d \in Endpoints : c \notin blocked[d]
    /\ waiting' = [waiting EXCEPT ![e] = Append(@, c)]
    /\ blocked' = [blocked EXCEPT ![e] = @ \cup {c}]
    /\ UNCHANGED serving

(* The oldest request is taken when the one before it has been answered. *)
Take(e) ==
    /\ serving[e] = Nobody
    /\ waiting[e] # <<>>
    /\ serving' = [serving EXCEPT ![e] = Head(waiting[e])]
    /\ waiting' = [waiting EXCEPT ![e] = Tail(@)]
    /\ UNCHANGED blocked

(* A call to a server that waits for one is taken at once. *)
CallTaken(e, c) ==
    /\ \A d \in Endpoints : c \notin blocked[d]
    /\ serving[e] = Nobody
    /\ waiting[e] = <<>>
    /\ serving' = [serving EXCEPT ![e] = c]
    /\ blocked' = [blocked EXCEPT ![e] = @ \cup {c}]
    /\ UNCHANGED waiting

Answer(e) ==
    /\ serving[e] # Nobody
    /\ blocked' = [blocked EXCEPT ![e] = @ \ {serving[e]}]
    /\ serving' = [serving EXCEPT ![e] = Nobody]
    /\ UNCHANGED waiting

SyncNext ==
    \E e \in Endpoints :
        \/ \E c \in Clients : Call(e, c) \/ CallTaken(e, c)
        \/ Take(e)
        \/ Answer(e)

SyncSpec == SyncInit /\ [][SyncNext]_syncVars

=============================================================================
