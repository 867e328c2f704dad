---------------------------- MODULE BoundedQueue ----------------------------
(***************************************************************************)
(* What the message queue of an endpoint promises: a first-in first-out    *)
(* queue of at most Size messages, from which nothing is taken twice.      *)
(* Module Ipc uses the queue in this form; MsgQueue implements it.         *)
(***************************************************************************)
EXTENDS Naturals, Sequences

CONSTANTS
    Size,        \* MSG_QUEUE_SIZE
    Messages     \* what can be queued

VARIABLES
    queue,       \* the messages that wait, the oldest first
    result       \* what the last operation returned

queueVars == <<queue, result>>

(* The results of push, and of pop.                                        *)
Ok   == [status |-> "Ok"]
Err  == [status |-> "Err"]
None == [status |-> "None"]
Some(m) == [status |-> "Some", msg |-> m]

QueueInit == queue = <<>> /\ result = None

Enqueue(m) ==
    /\ Len(queue) < Size
    /\ queue' = Append(queue, m)
    /\ result' = Ok

Dequeue ==
    /\ queue # <<>>
    /\ queue' = Tail(queue)
    /\ result' = Some(Head(queue))

RefuseFull ==
    /\ Len(queue) = Size
    /\ result' = Err
    /\ UNCHANGED queue

RefuseEmpty ==
    /\ queue = <<>>
    /\ result' = None
    /\ UNCHANGED queue

QueueNext ==
    \/ \E m \in Messages : Enqueue(m)
    \/ Dequeue
    \/ RefuseFull
    \/ RefuseEmpty

QueueSpec == QueueInit /\ [][QueueNext]_queueVars

=============================================================================
