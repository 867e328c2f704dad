------------------------------ MODULE Servers ------------------------------
(***************************************************************************)
(* The running system: the kernel of modules Tasks, Ipc and Uart with the  *)
(* programs that kernel_main starts.  Pid 1 is the console server, pid 2   *)
(* the file server; the shell and whatever it forks are clients.           *)
(*                                                                         *)
(* A program acts between traps, when it is the current task.  Its local   *)
(* variables are its pc and, for the request in hand, the registers the    *)
(* receive left in its frame.                                              *)
(***************************************************************************)
EXTENDS Ipc, Uart

VARIABLES
    pc,      \* where the loop of each server is
    held,    \* console: the character it has taken from the FIFO, or none
    read     \* history: the last character returned by a CONSOLE_READ

serverVars == <<pc, held, read>>
allVars == <<kernelVars, uartVars, serverVars>>

(* words[0] of a request: CONSOLE_WRITE or an fs operation with a plain    *)
(* reply, and CONSOLE_READ or FS_READ.                                     *)
OpPlain == 1
OpRead  == 2

Console == 1
Fs      == 2
Servers == Endpoints

ASSUME ServersAssumption ==
    /\ Endpoints \subseteq {Console, Fs}
    /\ {OpPlain, OpRead} \subseteq Payloads

NoChar == -1

ServersInit ==
    /\ TasksInit /\ IpcInit /\ UartInit
    /\ pc = [e \in Servers |-> "recv"]
    /\ held = NoChar
    /\ read = 0

Goto(e, label) == pc' = [pc EXCEPT ![e] = label]

-----------------------------------------------------------------------------
(* The console's loop.                                                     *)

ConsoleRecv ==
    /\ current = Console /\ pc[Console] = "recv"
    /\ SysIpcRecvTake(Console) \/ SysIpcRecvBlock(Console)
    /\ Goto(Console, "serve")
    /\ UNCHANGED <<uartVars, held, read>>

ConsoleReply(from) ==
    /\ current = Console /\ pc[Console] = from
    /\ SysIpcReply(frame[Console].from, OpPlain)
    /\ Goto(Console, "recv")
    /\ UNCHANGED uartVars

ConsoleWrite ==
    /\ frame[Console].words = OpPlain
    /\ ConsoleReply("serve")
    /\ UNCHANGED <<held, read>>

ConsoleGetcPeek_bug ==
    /\ current = Console /\ pc[Console] = "serve"
    /\ frame[Console].words = OpRead
    /\ \/ /\ rx # <<>>
          /\ held' = Head(rx)
          /\ Goto(Console, "answer")
       \/ /\ rx = <<>>
          /\ Goto(Console, "wait")
          /\ UNCHANGED held
    /\ UNCHANGED <<kernelVars, uartVars, read>>

(* getc: look at the line status register, then read the character or      *)
(* decide to wait.  Interrupts can come between any two of these steps.    *)
ConsoleGetc ==
    /\ current = Console /\ pc[Console] = "serve"
    /\ frame[Console].words = OpRead
    /\ \/ /\ rx # <<>>
          /\ held' = Head(rx) /\ rx' = Tail(rx)
          /\ Goto(Console, "answer")
       \/ /\ rx = <<>>
          /\ Goto(Console, "wait")
          /\ UNCHANGED <<held, rx>>
    /\ UNCHANGED <<kernelVars, irq_enabled, typed, read>>

ConsoleWait ==
    /\ current = Console /\ pc[Console] = "wait"
    /\ SysIrqWait
    /\ Goto(Console, "serve")
    /\ UNCHANGED <<ipcVars, held, read>>

ConsoleAnswer ==
    /\ ConsoleReply("answer")
    /\ held' = NoChar /\ read' = held

ConsoleStep ==
    /\ Console \in Servers
    /\ ConsoleRecv \/ ConsoleWrite \/ ConsoleGetc \/ ConsoleWait \/ ConsoleAnswer

-----------------------------------------------------------------------------
(* The file server's loop.  Its buffer is as large as IPC_BUF_SIZE and     *)
(* always mapped.  What it does to the disk is not part of this module.    *)

FsRecv ==
    /\ current = Fs /\ pc[Fs] = "recv"
    /\ \/ SysIpcRecvBufTake(Fs, BufSize, TRUE)
       \/ \E a5 \in Lens : SysIpcRecvBufBlock(Fs, BufSize, a5)
    /\ Goto(Fs, "serve")
    /\ UNCHANGED <<uartVars, held, read>>

FsServeSilent_bug ==
    /\ current = Fs /\ pc[Fs] = "serve"
    /\ \/ /\ frame[Fs].words = OpPlain
          /\ SysIpcReply(frame[Fs].from, OpPlain)
       \/ /\ frame[Fs].words = OpRead
          /\ UNCHANGED kernelVars
    /\ Goto(Fs, "recv")
    /\ UNCHANGED <<uartVars, held, read>>

FsServe ==
    /\ current = Fs /\ pc[Fs] = "serve"
    /\ \/ /\ frame[Fs].words = OpPlain
          /\ SysIpcReply(frame[Fs].from, OpPlain)
       \/ /\ frame[Fs].words = OpRead
          /\ \E n \in Lens : \E b \in Filled(n) :
                SysIpcReplyBuf(frame[Fs].from, OpPlain, b)
    /\ Goto(Fs, "recv")
    /\ UNCHANGED <<uartVars, held, read>>

FsStep == Fs \in Servers /\ (FsRecv \/ FsServe)

-----------------------------------------------------------------------------
(* A client: read and write of the user library and libc, open, close and  *)
(* read of files, and any other system call.                               *)

ConsoleCall ==
    \E w \in {OpPlain, OpRead} :
        SysIpcCallWake(Console, w, 0) \/ SysIpcCallQueue(Console, w, 0)

FsCall ==
    \/ SysIpcCallWake(Fs, OpPlain, 0)          \* FS_CLOSE has no buffer
    \/ SysIpcCallQueue(Fs, OpPlain, 0)
    \/ \E w \in {OpPlain, OpRead}, n \in Lens \ {0} : \E b \in Filled(n) :
          \/ SysIpcCallBufWake(Fs, w, b, TRUE)
          \/ SysIpcCallBufQueue(Fs, w, b)
    \/ SysIpcCallBufFault(Fs)

ClientStep ==
    /\ current \notin Servers \cup {IdlePid}
    /\ \/ Console \in Servers /\ ConsoleCall
       \/ Fs \in Servers /\ FsCall
       \/ OtherTraps
    /\ UNCHANGED <<uartVars, serverVars>>

TimerTrap    == Timer /\ UNCHANGED <<ipcVars, uartVars, serverVars>>
ExternalTrap == External /\ UNCHANGED <<ipcVars, serverVars>>
Typing       == CharArrives /\ UNCHANGED <<ipcVars, serverVars>>

ServersNext ==
    \/ TimerTrap \/ ExternalTrap \/ Typing
    \/ ConsoleStep \/ FsStep \/ ClientStep

(* A time slice is long enough for a server that is dispatched again and   *)
(* again to take its next step; interrupts that stay raised are taken; and *)
(* somebody goes on typing.                                                *)
Fairness ==
    /\ WF_allVars(TimerTrap)
    /\ WF_allVars(ExternalTrap)
    /\ WF_allVars(Typing)
    /\ SF_allVars(ConsoleStep)
    /\ SF_allVars(FsStep)

ServersSpec == ServersInit /\ [][ServersNext]_allVars
FairServersSpec == ServersSpec /\ Fairness

-----------------------------------------------------------------------------
(* The server of e works on a request of p.                                *)
Serves(e, p) ==
    /\ pc[e] # "recv"
    /\ ~Asleep(e, IpcRecv(e))
    /\ frame[e].from = p

Queued(e, p) == {i \in DOMAIN eps[e].pending : eps[e].pending[i].sender = p}

(* What the server works on, or will take from the queue, is what the      *)
(* client sent: the words and, when there is a buffer, its length and its  *)
(* bytes, although all requests of an endpoint share one copy_buf and a    *)
(* failed buffered call may have scribbled over it.                        *)
RequestIntact ==
    \A e \in Servers, p \in Pids :
        /\ \A i \in Queued(e, p) :
              LET m == eps[e].pending[i]
              IN  /\ m.words = frame[p].words
                  /\ m.buf_len = frame[p].a6
                  /\ m.buf_len > 0 => eps[e].copy_buf = mem[p].data
        /\ Serves(e, p) =>
              /\ frame[e].words = frame[p].words
              /\ frame[p].a6 > 0 => frame[e].a5 = frame[p].a6 /\ mem[e] = mem[p]

(* What SyncCall speaks of: the clients in the queue, the one in service,  *)
(* and those asleep in a call.                                             *)
CallersQueued ==
    [e \in Servers |->
        [i \in DOMAIN eps[e].pending |-> eps[e].pending[i].sender]]

CallerServed ==
    [e \in Servers |-> IF Serves(e, frame[e].from) THEN frame[e].from ELSE NoPid]

CallersAsleep == [e \in Servers |-> {p \in Pids : Asleep(p, IpcCall(e))}]

Sync == INSTANCE SyncCall WITH
    Clients <- Pids,
    Nobody <- NoPid,
    waiting <- CallersQueued,
    serving <- CallerServed,
    blocked <- CallersAsleep

(* The kernel's calls, receives and replies, with the loops of the two     *)
(* servers, are synchronous calls (SyncCall): requests are taken in the    *)
(* order of the calls, each once, and only the reply to its own request    *)
(* makes a client ready again; no timer, interrupt, fork, exit or other    *)
(* client's call does.                                                     *)
ImplementsSyncCall == Sync!SyncSpec

InHand == IF held = NoChar THEN <<>> ELSE <<held>>

(* Every character typed is returned by exactly one CONSOLE_READ, in the   *)
(* order of typing: what is in the console's hands and in the FIFO are the *)
(* characters between the last one returned and the last one typed.        *)
CharsInOrder ==
    LET line == InHand \o rx
    IN  /\ Len(line) = (typed - read) % CharMod
        /\ \A i \in DOMAIN line : line[i] = (read + i) % CharMod

(* Every call is answered, as long as the servers run and somebody types:  *)
(* a client that sleeps in ipc_call or ipc_call_buf is made ready again.   *)
CallAnswered ==
    \A p \in Pids, e \in Servers : Asleep(p, IpcCall(e)) ~> ~Asleep(p, IpcCall(e))

=============================================================================
