------------------------------ MODULE MsgQueue ------------------------------
(***************************************************************************)
(* The ring buffer of an endpoint: MsgQueue in src/src/kernel/ipc.rs, with *)
(* its array, its two indices and its count.  The kernel calls it behind   *)
(* the lock of TaskManager, one operation at a time.                       *)
(***************************************************************************)
EXTENDS Naturals, Sequences

CONSTANTS
    Size,        \* MSG_QUEUE_SIZE
    Messages     \* what can be queued

ASSUME MsgQueueAssumption == Size \in Nat \ {0} /\ Messages # {}

VARIABLES
    buf,         \* MsgQueue.buf
    head,        \* MsgQueue.head: the oldest message
    tail,        \* MsgQueue.tail: where the next one goes
    count,       \* MsgQueue.count
    result       \* what the last operation returned

msgQueueVars == <<buf, head, tail, count, result>>

Index == 0 .. Size - 1

(* MsgQueue::new fills the array with a message nobody sent.               *)
Blank == CHOOSE m \in Messages : TRUE

(* The results of push, and of pop.                                        *)
Ok   == [status |-> "Ok"]
Err  == [status |-> "Err"]
None == [status |-> "None"]
Some(m) == [status |-> "Some", msg |-> m]

MsgQueueInit ==
    /\ buf = [i \in Index |-> Blank]
    /\ head = 0 /\ tail = 0 /\ count = 0
    /\ result = None

IsFull == count = Size

IsEmpty_bug == head = tail

IsEmpty == count = 0

Next(i) == (i + 1) % Size

Push(m) ==
    /\ ~IsFull
    /\ buf' = [buf EXCEPT ![tail] = m]
    /\ tail' = Next(tail)
    /\ count' = count + 1
    /\ result' = Ok
    /\ UNCHANGED head

PushFull ==
    /\ IsFull
    /\ result' = Err
    /\ UNCHANGED <<buf, head, tail, count>>

PopKeepsCount_bug ==
    /\ ~IsEmpty
    /\ result' = Some(buf[head])
    /\ head' = Next(head)
    /\ UNCHANGED <<buf, tail, count>>

Pop ==
    /\ ~IsEmpty
    /\ result' = Some(buf[head])
    /\ head' = Next(head)
    /\ count' = count - 1
    /\ UNCHANGED <<buf, tail>>

PopEmpty ==
    /\ IsEmpty
    /\ result' = None
    /\ UNCHANGED <<buf, head, tail, count>>

MsgQueueNext ==
    \/ \E m \in Messages : Push(m)
    \/ PushFull
    \/ Pop
    \/ PopEmpty

MsgQueueSpec == MsgQueueInit /\ [][MsgQueueNext]_msgQueueVars

-----------------------------------------------------------------------------
MsgQueueTypeOK ==
    /\ buf \in [Index -> Messages]
    /\ head \in Index
    /\ tail \in Index
    /\ count \in 0 .. Size

(* The slot k places after slot i, for k up to Size.                       *)
After(i, k) == IF i + k < Size THEN i + k ELSE i + k - Size

(* head, tail and count agree: the message pushed next goes behind the     *)
(* last of count messages that start at head, also when the buffer is full *)
(* or empty and head and tail are the same.                                *)
TailFollows == tail = After(head, count)

(* The messages in the buffer in the order in which they will be popped.   *)
Waiting == [k \in 1 .. count |-> buf[After(head, k - 1)]]

Q == INSTANCE BoundedQueue WITH queue <- Waiting

(* The ring buffer is a bounded first-in first-out queue: messages come    *)
(* out once each and in the order of their arrival, push fails only when   *)
(* Size messages wait and pop only when none does, however often the       *)
(* indices have wrapped around.                                            *)
IsBoundedQueue == Q!QueueSpec

=============================================================================
