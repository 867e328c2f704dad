-------------------------------- MODULE Ipc --------------------------------
(***************************************************************************)
(* Synchronous IPC: the endpoints of TaskManager and the six IPC system    *)
(* calls, on top of the process table of module Tasks.  Any task may make  *)
(* any call; module Servers has the programs that really make them.        *)
(*                                                                         *)
(* A task's registers and its buffer outlive the trap, so they are kept    *)
(* per pid: the frame of a sleeping task is what the kernel saved, the     *)
(* frame of any other task is what the last call left in it.  A call that  *)
(* returns an error and changes nothing is a disabled action.              *)
(***************************************************************************)
EXTENDS Tasks, Sequences, SequencesExt

CONSTANTS
    Endpoints,      \* endpoints registered by kernel_main, endpoint e for pid e
    MsgQueueSize,   \* MSG_QUEUE_SIZE
    BufSize,        \* IPC_BUF_SIZE
    Payloads        \* contents of the message words and of a buffer

ASSUME IpcAssumption ==
    /\ Endpoints \subseteq 1 .. BootTasks
    /\ MsgQueueSize \in Nat \ {0}
    /\ BufSize \in Nat \ {0}
    /\ Payloads \subseteq Nat \ {0} /\ Payloads # {}

VARIABLES
    eps,      \* TaskManager.endpoints
    frame,    \* registers of each pid
    mem       \* the buffer each pid passes to call_buf, recv_buf, reply_buf

ipcVars == <<eps, frame, mem>>
kernelVars == <<tasksVars, ipcVars>>

Pids == 1 .. MaxPid
Lens == 0 .. BufSize

NoPayload == 0
Words     == Payloads \cup {NoPayload}

(* A buffer: its first len bytes are those of data.                        *)
Buffer  == [data : Words, len : Lens]
Prefix(b, n) == [b EXCEPT !.len = IF n < @ THEN n ELSE @]
Junk    == [data |-> NoPayload, len |-> BufSize]     \* partly overwritten

(* Message.  buf_len > 0 says that the data of buf_len bytes is in the     *)
(* endpoint's copy_buf.                                                    *)
Message == [sender : Pids, words : Words, buf_len : Lens]

(* Endpoint.  recv_buf is recv_buf_capacity, 0 when recv_buf_addr is 0;    *)
(* copy_len is left out, nothing reads it.                                 *)
Endpoint == [owner : Pids, waiting_receiver : Pids \cup {NoPid},
             pending : Seq(Message), copy_buf : Words, recv_buf : Lens,
             has_buffered : BOOLEAN]

(* a0 (the sender) and a1-a4 of a received message, or a0-a3 of a reply;   *)
(* a5 and a6 are the length returned and the capacity of the own buffer.   *)
Frame == [from : Pids \cup {NoPid}, words : Words, a5 : Lens, a6 : Lens]

IpcTypeOK ==
    /\ eps \in [Endpoints -> Endpoint]
    /\ frame \in [Pids -> Frame]
    /\ mem \in [Pids -> Buffer]

-----------------------------------------------------------------------------
NoFrame == [from |-> NoPid, words |-> NoPayload, a5 |-> 0, a6 |-> 0]

(* register_endpoint, called by kernel_main for each server.               *)
NewEndpoint(e) ==
    [owner |-> e, waiting_receiver |-> NoPid, pending |-> <<>>,
     copy_buf |-> NoPayload, recv_buf |-> 0,
     has_buffered |-> FALSE]

IpcInit ==
    /\ eps = [e \in Endpoints |-> NewEndpoint(e)]
    /\ frame = [p \in Pids |-> NoFrame]
    /\ mem = [p \in Pids |-> [data |-> NoPayload, len |-> 0]]

Me == SlotOf(tasks, current)

ReceiverWaits(e) == eps[e].waiting_receiver = eps[e].owner
QueueFull(e)     == Len(eps[e].pending) = MsgQueueSize

CanCall(e) ==
    /\ current # IdlePid
    /\ current # eps[e].owner
    /\ ~QueueFull(e)

(* MsgQueue::push, whose error ipc_call and ipc_call_buf drop.             *)
Push(q, m) == IF Len(q) = MsgQueueSize THEN q ELSE Append(q, m)

(* set_message                                                             *)
SetMessage(f, sender, w) == [f EXCEPT !.from = sender, !.words = w]

(* The caller sleeps with its request in its frame.  a5 is the address of  *)
(* its buffer, written 0 here: the buffer is mem[current].                 *)
Calling(e) == Block(tasks, Me, IpcCall(e))

SavedCall(w, cap) == [from |-> NoPid, words |-> w, a5 |-> 0, a6 |-> cap]

WakeReceiverUncounted_bug(e) ==
    /\ Schedule(Wake(Calling(e), SlotOf(tasks, eps[e].owner)))
    /\ runnable_count' = SaturatingSub(runnable_count)

WakeReceiver(e) ==
    /\ Schedule(Wake(Calling(e), SlotOf(tasks, eps[e].owner)))
    /\ runnable_count' = SaturatingSub(runnable_count) + 1

JustBlock(t) ==
    /\ Schedule(t)
    /\ runnable_count' = SaturatingSub(runnable_count)

GotOffByOne_bug(out, mapped) == IF mapped THEN out.len + 1 ELSE 0

(* mem_copy_to_user: the length reported and the memory left behind.       *)
Got(out, mapped) == IF mapped THEN out.len ELSE 0

Written(old, out, mapped) ==
    IF out.len = 0 THEN old ELSE IF mapped THEN out ELSE Junk

-----------------------------------------------------------------------------
(***************************************************************************)
(* SYS_IPC_CALL: w are the words, cap is what a6 happens to hold.          *)
(***************************************************************************)

(* The owner sleeps in a receive: it gets the words and is made ready; a5  *)
(* and the endpoint's recv_buf stay as they were.                          *)
SysIpcCallWake(e, w, cap) ==
    LET owner == eps[e].owner
    IN  /\ CanCall(e)
        /\ ReceiverWaits(e)
        /\ WakeReceiver(e)
        /\ eps' = [eps EXCEPT ![e].waiting_receiver = NoPid]
        /\ frame' = [frame EXCEPT ![current] = SavedCall(w, cap),
                                  ![owner] = SetMessage(@, current, w)]
        /\ UNCHANGED <<next_pid, reports, mem>>

(* The owner is busy: the request is queued.                               *)
SysIpcCallQueue(e, w, cap) ==
    /\ CanCall(e)
    /\ ~ReceiverWaits(e)
    /\ JustBlock(Calling(e))
    /\ eps' = [eps EXCEPT ![e].pending =
                  Push(@, [sender |-> current, words |-> w, buf_len |-> 0])]
    /\ frame' = [frame EXCEPT ![current] = SavedCall(w, cap)]
    /\ UNCHANGED <<next_pid, reports, mem>>

(***************************************************************************)
(* SYS_IPC_CALL_BUF: b is the caller's buffer, its length in a6.           *)
(***************************************************************************)
CanCallBufUnflagged_bug(e) == CanCall(e)

CanCallBuf(e) == CanCall(e) /\ (eps[e].has_buffered => ReceiverWaits(e))

(* endpoint.copy_buf after the copy from the caller's memory.              *)
CopiedIn(e, b) == IF b.len > 0 THEN b.data ELSE eps[e].copy_buf

(* The owner sleeps in a receive.  If it lent a buffer, the data goes      *)
(* there; a copy that meets an unmapped page counts as no data.            *)
SysIpcCallBufWake(e, w, b, mapped) ==
    LET owner == eps[e].owner
        out == Prefix(b, eps[e].recv_buf)
    IN  /\ CanCallBuf(e)
        /\ ReceiverWaits(e)
        /\ WakeReceiver(e)
        /\ eps' = [eps EXCEPT ![e].waiting_receiver = NoPid,
                              ![e].copy_buf = CopiedIn(e, b),
                              ![e].recv_buf = 0]
        /\ frame' = [frame EXCEPT
              ![current] = SavedCall(w, b.len),
              ![owner] = [SetMessage(@, current, w) EXCEPT !.a5 = Got(out, mapped)]]
        /\ mem' = [mem EXCEPT ![current] = b,
                              ![owner] = Written(@, out, mapped)]
        /\ UNCHANGED <<next_pid, reports>>

(* The owner is busy: words are queued, data waits in copy_buf.            *)
SysIpcCallBufQueue(e, w, b) ==
    /\ CanCallBuf(e)
    /\ ~ReceiverWaits(e)
    /\ JustBlock(Calling(e))
    /\ eps' = [eps EXCEPT
          ![e].pending = Push(@, [sender |-> current, words |-> w,
                                    buf_len |-> b.len]),
          ![e].copy_buf = CopiedIn(e, b),
          ![e].has_buffered = @ \/ b.len > 0]
    /\ frame' = [frame EXCEPT ![current] = SavedCall(w, b.len)]
    /\ mem' = [mem EXCEPT ![current] = b]
    /\ UNCHANGED <<next_pid, reports>>

(* The caller's buffer is not mapped to its end: an error, found when the  *)
(* first part has been copied.                                             *)
SysIpcCallBufFault(e) ==
    /\ CanCallBuf(e)
    /\ eps' = [eps EXCEPT ![e].copy_buf = NoPayload]
    /\ UNCHANGED <<tasksVars, frame, mem>>

(***************************************************************************)
(* SYS_IPC_RECV and SYS_IPC_RECV_BUF, by the owner of the endpoint.        *)
(***************************************************************************)
CanRecv(e) == current # IdlePid /\ eps[e].owner = current

SysIpcRecvTakeNewest_bug(e) ==
    /\ CanRecv(e)
    /\ eps[e].pending # <<>>
    /\ LET m == Last(eps[e].pending)
       IN  frame' = [frame EXCEPT ![current] = SetMessage(@, m.sender, m.words)]
    /\ eps' = [eps EXCEPT ![e].pending = Front(@)]
    /\ UNCHANGED <<tasksVars, mem>>

(* A queued message is returned at once; has_buffered is not looked at.    *)
SysIpcRecvTake(e) ==
    /\ CanRecv(e)
    /\ eps[e].pending # <<>>
    /\ LET m == Head(eps[e].pending)
       IN  frame' = [frame EXCEPT ![current] = SetMessage(@, m.sender, m.words)]
    /\ eps' = [eps EXCEPT ![e].pending = Tail(@)]
    /\ UNCHANGED <<tasksVars, mem>>

SysIpcRecvBlockUnchecked_bug(e) ==
    /\ CanRecv(e)
    /\ JustBlock(Block(tasks, Me, IpcRecv(e)))
    /\ eps' = [eps EXCEPT ![e].waiting_receiver = current]
    /\ frame' = [frame EXCEPT ![current] = NoFrame]
    /\ UNCHANGED <<next_pid, reports, mem>>

SysIpcRecvBlock(e) ==
    /\ CanRecv(e)
    /\ eps[e].pending = <<>>
    /\ JustBlock(Block(tasks, Me, IpcRecv(e)))
    /\ eps' = [eps EXCEPT ![e].waiting_receiver = current]
    /\ frame' = [frame EXCEPT ![current] = NoFrame]
    /\ UNCHANGED <<next_pid, reports, mem>>

SysIpcRecvBufTakeKeepsFlag_bug(e, cap, mapped) ==
    LET m == Head(eps[e].pending)
        out == Prefix([data |-> eps[e].copy_buf, len |-> m.buf_len], cap)
    IN  /\ CanRecv(e)
        /\ eps[e].pending # <<>>
        /\ frame' = [frame EXCEPT ![current] =
                        [SetMessage(@, m.sender, m.words)
                            EXCEPT !.a5 = Got(out, mapped)]]
        /\ mem' = [mem EXCEPT ![current] = Written(@, out, mapped)]
        /\ eps' = [eps EXCEPT ![e].pending = Tail(@)]
        /\ UNCHANGED tasksVars

(* With a buffer of cap bytes; its data comes out of copy_buf.             *)
SysIpcRecvBufTake(e, cap, mapped) ==
    LET m == Head(eps[e].pending)
        out == Prefix([data |-> eps[e].copy_buf, len |-> m.buf_len], cap)
    IN  /\ CanRecv(e)
        /\ eps[e].pending # <<>>
        /\ frame' = [frame EXCEPT ![current] =
                        [SetMessage(@, m.sender, m.words)
                            EXCEPT !.a5 = Got(out, mapped)]]
        /\ mem' = [mem EXCEPT ![current] = Written(@, out, mapped)]
        /\ eps' = [eps EXCEPT ![e].pending = Tail(@),
                              ![e].has_buffered = @ /\ m.buf_len = 0]
        /\ UNCHANGED tasksVars

(* a5 is not an argument of the call: it holds whatever the program left.  *)
SysIpcRecvBufBlock(e, cap, a5) ==
    /\ CanRecv(e)
    /\ eps[e].pending = <<>>
    /\ JustBlock(Block(tasks, Me, IpcRecv(e)))
    /\ eps' = [eps EXCEPT ![e].waiting_receiver = current,
                          ![e].recv_buf = cap]
    /\ frame' = [frame EXCEPT ![current] = [NoFrame EXCEPT !.a5 = a5]]
    /\ UNCHANGED <<next_pid, reports, mem>>

(***************************************************************************)
(* SYS_IPC_REPLY and SYS_IPC_REPLY_BUF: any task asleep in a call to an    *)
(* endpoint of the caller can be answered.                                 *)
(***************************************************************************)
AwaitsReply(p) ==
    \E s \in Slots, e \in Endpoints :
        /\ tasks[s].pid = p
        /\ tasks[s].state = "Sleeping"
        /\ tasks[s].wait = IpcCall(e)
        /\ eps[e].owner = current

AnswerHalf_bug(p) ==
    /\ tasks' = [tasks EXCEPT ![SlotOf(tasks, p)].state = "Ready"]
    /\ runnable_count' = runnable_count + 1
    /\ UNCHANGED <<current, next_pid, reports, eps>>

Answer(p) ==
    /\ tasks' = Wake(tasks, SlotOf(tasks, p))
    /\ runnable_count' = runnable_count + 1
    /\ UNCHANGED <<current, next_pid, reports, eps>>

SysIpcReply(p, w) ==
    /\ current # IdlePid
    /\ AwaitsReply(p)
    /\ frame' = [frame EXCEPT ![p] = [@ EXCEPT !.from = NoPid, !.words = w]]
    /\ UNCHANGED mem
    /\ Answer(p)

Replied(p, w, n) ==
    [frame EXCEPT ![p] = [@ EXCEPT !.from = NoPid, !.words = w, !.a5 = n]]

SysIpcReplyBuf(p, w, b) ==
    LET out == Prefix(b, frame[p].a6)
    IN  /\ current # IdlePid
        /\ AwaitsReply(p)
        /\ out.len > 0 => frame[p].a5 = 0     \* the address is still there
        /\ frame' = Replied(p, w, out.len)
        /\ mem' = [mem EXCEPT ![p] = Written(@, out, TRUE)]
        /\ Answer(p)

(* A page of one of the buffers is not mapped: the reply fails when the    *)
(* registers and part of the data have been written, and the client sleeps *)
(* on.  Its a5 is now a length, which is no address in any user program,   *)
(* so that a second try fails as well.                                     *)
SysIpcReplyBufFault(p, w, b) ==
    LET out == Prefix(b, frame[p].a6)
    IN  /\ current # IdlePid
        /\ AwaitsReply(p)
        /\ out.len > 0
        /\ frame' = Replied(p, w, out.len)
        /\ mem' = [mem EXCEPT ![p] = Written(@, out, FALSE)]
        /\ UNCHANGED <<tasksVars, eps>>

-----------------------------------------------------------------------------
(* The other traps.  fork copies the registers and the memory.             *)
OtherTraps ==
    \/ /\ \/ Timer \/ SysYield \/ SysForkNoSlot
          \/ \E p \in Pids : SysWaitpidReap(p) \/ SysWaitpidBlock(p)
          \/ \E code \in ExitCodes : SysExit(code)
       /\ UNCHANGED ipcVars
    \/ /\ SysFork
       /\ frame' = [frame EXCEPT ![next_pid] = frame[current]]
       /\ mem' = [mem EXCEPT ![next_pid] = mem[current]]
       /\ UNCHANGED eps

Filled(n) == [data : Payloads, len : {n}]

AnyCall(e) ==
    \E w \in Payloads, n \in Lens :
        \/ SysIpcCallWake(e, w, n)
        \/ SysIpcCallQueue(e, w, n)
        \/ \E b \in Filled(n) :
              \/ SysIpcCallBufQueue(e, w, b)
              \/ \E mapped \in BOOLEAN : SysIpcCallBufWake(e, w, b, mapped)

AnyRecv(e) ==
    \/ SysIpcRecvTake(e)
    \/ SysIpcRecvBlock(e)
    \/ \E n \in Lens :
          \/ \E mapped \in BOOLEAN : SysIpcRecvBufTake(e, n, mapped)
          \/ \E a5 \in Lens : SysIpcRecvBufBlock(e, n, a5)

AnyReply ==
    \E p \in Pids, w \in Payloads :
        \/ SysIpcReply(p, w)
        \/ \E n \in Lens : \E b \in Filled(n) :
              SysIpcReplyBuf(p, w, b) \/ SysIpcReplyBufFault(p, w, b)

IpcNext ==
    \/ OtherTraps
    \/ \E e \in Endpoints : AnyCall(e) \/ SysIpcCallBufFault(e) \/ AnyRecv(e)
    \/ AnyReply

IpcSpec == TasksInit /\ IpcInit /\ [][IpcNext]_kernelVars

-----------------------------------------------------------------------------
(* Invariants of the kernel, whatever its servers and clients call.        *)

Asleep(p, chan) ==
    \E s \in Slots : tasks[s].pid = p /\ tasks[s].wait = chan

(* A sleeping receiver is recorded as such and has nothing queued, so no   *)
(* request waits beside a receiver that waits for it; and a recorded       *)
(* receiver exists, so the unwrap()s that look up the owner in ipc_call    *)
(* and ipc_call_buf cannot panic, although endpoints outlive their owner.  *)
ReceiverRecorded ==
    \A e \in Endpoints :
        /\ eps[e].waiting_receiver \in {NoPid, eps[e].owner}
        /\ ReceiverWaits(e) <=> Asleep(eps[e].owner, IpcRecv(e))
        /\ ReceiverWaits(e) => eps[e].pending = <<>>
        /\ \A s \in Slots :
              tasks[s].wait = IpcRecv(e) => tasks[s].pid = eps[e].owner

Buffered(e) == {i \in DOMAIN eps[e].pending : eps[e].pending[i].buf_len > 0}

(* copy_buf is shared by the queue of an endpoint, so at most one queued   *)
(* message has data in it, and the flag that keeps others out is up.       *)
OneBufferedMessage ==
    \A e \in Endpoints :
        /\ Cardinality(Buffered(e)) <= 1
        /\ Buffered(e) # {} => eps[e].has_buffered

(* "Is there already a buffered message in the queue" (the comment on      *)
(* Endpoint.has_buffered): the flag is up only while there is one.         *)
HasBufferedExact ==
    \A e \in Endpoints : eps[e].has_buffered => Buffered(e) # {}

=============================================================================
