--------------------------- MODULE ServersProofs ---------------------------
(***************************************************************************)
(* Proofs about the running system of module Servers: the kernel, the UART *)
(* and the loops of the two servers, with any number of clients, any queue *)
(* length and any buffer size.                                             *)
(***************************************************************************)
EXTENDS Servers, IpcProofs

(* The server of e has a request in hand.                                  *)
Busy(e) == pc[e] # "recv" /\ ~Sleeps(tasks, e, IpcRecv(e))

(* The message m of e's queue is what a client asleep in a call sent, and  *)
(* so is the data in copy_buf if m says that there is some.                *)
SentBySleeper(e, m) ==
    /\ Sleeps(tasks, m.sender, IpcCall(e))
    /\ m.words = frame[m.sender].words
    /\ m.buf_len = frame[m.sender].a6
    /\ m.buf_len > 0 => /\ eps[e].copy_buf = mem[m.sender].data
                        /\ mem[m.sender].len = m.buf_len

(* Every client is in a queue at most once.                                *)
QueueOK(e) ==
    LET q == eps[e].pending
    IN  /\ \A i \in DOMAIN q : SentBySleeper(e, q[i])
        /\ \A i, j \in DOMAIN q : q[i].sender = q[j].sender => i = j

(* The request in hand is that of a client asleep in a call, and it is no  *)
(* longer in the queue.                                                    *)
InHandOK(e) ==
    LET p == frame[e].from
    IN  Busy(e) =>
            /\ Sleeps(tasks, p, IpcCall(e))
            /\ \A i \in DOMAIN eps[e].pending : eps[e].pending[i].sender # p
            /\ frame[e].words = frame[p].words
            /\ frame[p].a6 > 0 => frame[e].a5 = frame[p].a6 /\ mem[e] = mem[p]

(* has_buffered is up only while a message with data is in the queue.      *)
FlagOK(e) ==
    eps[e].has_buffered => \E i \in DOMAIN eps[e].pending : eps[e].pending[i].buf_len > 0

(* Only clients call, and no buffers are sent to the console.              *)
ClientsOK(e) ==
    \A p : Sleeps(tasks, p, IpcCall(e)) =>
        p \notin Servers /\ (e = Console => frame[p].a6 = 0)

(* A server sleeps only inside its loop, the file server only with its     *)
(* whole buffer lent to the kernel.                                        *)
LoopOK(e) ==
    /\ eps[e].owner = e
    /\ pc[e] \in {"recv", "serve", "wait", "answer"}
    /\ e = Fs => pc[e] \in {"recv", "serve"}
    /\ \A w : Sleeps(tasks, e, w) => pc[e] = "serve"
    /\ e = Fs /\ Sleeps(tasks, e, IpcRecv(e)) => eps[e].recv_buf = BufSize

(* The inductive invariant.                                                *)
ServersInv ==
    /\ IpcInv
    /\ pc \in [Servers -> {"recv", "serve", "wait", "answer"}]
    /\ \A e \in Servers : /\ QueueOK(e) /\ InHandOK(e) /\ FlagOK(e)
                          /\ ClientsOK(e) /\ LoopOK(e)
-----------------------------------------------------------------------------
(* A step that leaves the requests at endpoint d as they are.              *)
Undisturbed(d) ==
    /\ eps'[d].pending = eps[d].pending
    /\ eps'[d].has_buffered = eps[d].has_buffered
    /\ \A i \in DOMAIN eps[d].pending :
          eps[d].pending[i].buf_len > 0 => eps'[d].copy_buf = eps[d].copy_buf
    /\ Busy(d)' <=> Busy(d)
    /\ Busy(d) => frame'[d] = frame[d] /\ mem'[d] = mem[d]
    /\ \A p : Sleeps(tasks', p, IpcCall(d)) <=> Sleeps(tasks, p, IpcCall(d))
    /\ \A p : Sleeps(tasks, p, IpcCall(d)) => frame'[p] = frame[p] /\ mem'[p] = mem[p]

(* A step that leaves the loop of the server of d where it is.             *)
LoopKept(d) ==
    /\ eps'[d].owner = eps[d].owner /\ eps'[d].recv_buf = eps[d].recv_buf
    /\ pc'[d] = pc[d]
    /\ \A w : Sleeps(tasks', d, w) => Sleeps(tasks, d, w)

LEMMA LoopKeptOK ==
    ASSUME NEW d \in Servers, LoopOK(d), LoopKept(d)
    PROVE  LoopOK(d)'
BY DEF LoopOK, LoopKept

(* The parts of the invariant about the requests at one endpoint.          *)
LEMMA UndisturbedOK ==
    ASSUME NEW d \in Servers, QueueOK(d), InHandOK(d), FlagOK(d), ClientsOK(d),
           Undisturbed(d)
    PROVE  QueueOK(d)' /\ InHandOK(d)' /\ FlagOK(d)' /\ ClientsOK(d)'
<1>1. QueueOK(d)'
  BY DEF Undisturbed, QueueOK, SentBySleeper
<1>2. InHandOK(d)'
  BY DEF Undisturbed, InHandOK
<1>3. FlagOK(d)'
  BY DEF Undisturbed, FlagOK
<1>4. ClientsOK(d)'
  BY DEF Undisturbed, ClientsOK
<1> QED
  BY <1>1, <1>2, <1>3, <1>4

(* What SyncCall sees of an endpoint, before and after a step.             *)
LEMMA Seen ==
    ASSUME NEW e \in Servers
    PROVE  /\ CallersQueued[e] =
                 [i \in DOMAIN eps[e].pending |-> eps[e].pending[i].sender]
           /\ CallerServed[e] = IF Busy(e) THEN frame[e].from ELSE NoPid
           /\ CallersAsleep[e] = {p \in Pids : Sleeps(tasks, p, IpcCall(e))}
           /\ CallersQueued'[e] =
                 [i \in DOMAIN eps'[e].pending |-> eps'[e].pending[i].sender]
           /\ CallerServed'[e] = IF Busy(e)' THEN frame'[e].from ELSE NoPid
           /\ CallersAsleep'[e] = {p \in Pids : Sleeps(tasks', p, IpcCall(e))}
<1>1. e \in Int
  BY EndpointsInt DEF Servers
<1>2. /\ Foreign(IpcRecv(e)) /\ Foreign(IpcCall(e))
  BY <1>1, ChannelsDiffer
<1>3. /\ \A p : Asleep(p, IpcCall(e)) <=> Sleeps(tasks, p, IpcCall(e))
      /\ \A p : Asleep(p, IpcRecv(e)) <=> Sleeps(tasks, p, IpcRecv(e))
      /\ \A p : Asleep(p, IpcCall(e))' <=> Sleeps(tasks', p, IpcCall(e))
      /\ \A p : Asleep(p, IpcRecv(e))' <=> Sleeps(tasks', p, IpcRecv(e))
  BY <1>2 DEF Asleep, Sleeps
<1>4. /\ CallersAsleep[e] = {p \in Pids : Asleep(p, IpcCall(e))}
      /\ CallersAsleep'[e] = {p \in Pids : Asleep(p, IpcCall(e))'}
  BY DEF CallersAsleep
<1>5. /\ CallersAsleep[e] = {p \in Pids : Sleeps(tasks, p, IpcCall(e))}
      /\ CallersAsleep'[e] = {p \in Pids : Sleeps(tasks', p, IpcCall(e))}
  BY <1>3, <1>4
<1>6. /\ CallersQueued[e] =
            [i \in DOMAIN eps[e].pending |-> eps[e].pending[i].sender]
      /\ CallersQueued'[e] =
            [i \in DOMAIN eps'[e].pending |-> eps'[e].pending[i].sender]
  BY DEF CallersQueued
<1>7. /\ Serves(e, frame[e].from) <=> Busy(e)
      /\ Serves(e, frame[e].from)' <=> Busy(e)'
  BY <1>3 DEF Serves, Busy
<1>8. /\ CallerServed[e] = IF Serves(e, frame[e].from) THEN frame[e].from ELSE NoPid
      /\ CallerServed'[e] =
            IF Serves(e, frame[e].from)' THEN frame'[e].from ELSE NoPid
  BY DEF CallerServed
<1> QED
  BY <1>5, <1>6, <1>7, <1>8

(* Nothing of it changes if the requests do not.                           *)
LEMMA UndisturbedSeen ==
    ASSUME NEW d \in Servers, Undisturbed(d)
    PROVE  /\ CallersQueued'[d] = CallersQueued[d]
           /\ CallerServed'[d] = CallerServed[d]
           /\ CallersAsleep'[d] = CallersAsleep[d]
BY Seen DEF Undisturbed

LEMMA SeenQueue ==
    ASSUME NEW d \in Servers, eps'[d].pending = eps[d].pending
    PROVE  CallersQueued'[d] = CallersQueued[d]
<1> DEFINE senders(q) == [i \in DOMAIN q |-> q[i].sender]
<1>1. /\ CallersQueued[d] = senders(eps[d].pending)
      /\ CallersQueued'[d] = senders(eps'[d].pending)
  BY Seen
<1> HIDE DEF senders
<1> QED
  BY <1>1

(* Who sleeps until the UART interrupts stays as it is.                    *)
UartKept == \A p : Sleeps(tasks', p, UartRx) <=> Sleeps(tasks, p, UartRx)

LEMMA UartChannels ==
    \A e \in Servers : UartRx # IpcCall(e) /\ UartRx # IpcRecv(e)
BY DEF UartRx, IpcCall, IpcRecv

(* Elsewhere than at e nothing changes that SyncCall sees.                 *)
OnlyAt(e) ==
    \A d \in Servers \ {e} : /\ CallersQueued'[d] = CallersQueued[d]
                             /\ CallerServed'[d] = CallerServed[d]
                             /\ CallersAsleep'[d] = CallersAsleep[d]

(* The parts of the invariant for one endpoint.                            *)
EndpointOK(e) ==
    QueueOK(e) /\ InHandOK(e) /\ FlagOK(e) /\ ClientsOK(e) /\ LoopOK(e)

LEMMA InvParts ==
    ServersInv <=> /\ IpcInv
                   /\ pc \in [Servers -> {"recv", "serve", "wait", "answer"}]
                   /\ \A e \in Servers : EndpointOK(e)
BY DEF ServersInv, EndpointOK

(* A step at one endpoint.                                                 *)
LEMMA StepAt ==
    ASSUME ServersInv, IpcInv', NEW e \in Servers,
           pc' \in [Servers -> {"recv", "serve", "wait", "answer"}],
           \A d \in Servers \ {e} : Undisturbed(d) /\ LoopKept(d),
           EndpointOK(e)'
    PROVE  ServersInv' /\ OnlyAt(e)
<1>1. ASSUME NEW d \in Servers \ {e} PROVE EndpointOK(d)'
  <2>1. QueueOK(d) /\ InHandOK(d) /\ FlagOK(d) /\ ClientsOK(d) /\ LoopOK(d)
    BY DEF ServersInv
  <2>2. Undisturbed(d) /\ LoopKept(d)
    OBVIOUS
  <2> QED
    BY <2>1, <2>2, UndisturbedOK, LoopKeptOK DEF EndpointOK
<1>2. \A d \in Servers : EndpointOK(d)'
  BY <1>1
<1>3. ServersInv'
  BY <1>2 DEF ServersInv, EndpointOK
<1>4. OnlyAt(e)
  BY UndisturbedSeen DEF OnlyAt
<1> QED
  BY <1>3, <1>4

(* A step at no endpoint.                                                  *)
LEMMA StepNowhere ==
    ASSUME ServersInv, IpcInv',
           pc' \in [Servers -> {"recv", "serve", "wait", "answer"}],
           \A d \in Servers : Undisturbed(d) /\ LoopOK(d)'
    PROVE  ServersInv' /\ UNCHANGED <<CallersQueued, CallerServed, CallersAsleep>>
<1>1. ASSUME NEW d \in Servers PROVE EndpointOK(d)'
  <2>1. QueueOK(d) /\ InHandOK(d) /\ FlagOK(d) /\ ClientsOK(d)
    BY DEF ServersInv
  <2>2. Undisturbed(d) /\ LoopOK(d)'
    OBVIOUS
  <2> QED
    BY <2>1, <2>2, UndisturbedOK DEF EndpointOK
<1>2. ServersInv'
  BY <1>1 DEF ServersInv, EndpointOK
<1>3. \A d \in Servers : /\ CallersQueued'[d] = CallersQueued[d]
                         /\ CallerServed'[d] = CallerServed[d]
                         /\ CallersAsleep'[d] = CallersAsleep[d]
  BY UndisturbedSeen
<1>4. CallersQueued' = CallersQueued
  BY <1>3 DEF CallersQueued
<1>5. CallerServed' = CallerServed
  BY <1>3 DEF CallerServed
<1>6. CallersAsleep' = CallersAsleep
  BY <1>3 DEF CallersAsleep
<1> QED
  BY <1>2, <1>4, <1>5, <1>6

(* What is seen are functions of the endpoint.                             *)
LEMMA SeenFunctions ==
    ASSUME NEW e \in Servers, OnlyAt(e)
    PROVE  /\ \A x : CallersQueued'[e] = x => CallersQueued' = [CallersQueued EXCEPT ![e] = x]
           /\ \A x : CallerServed'[e] = x => CallerServed' = [CallerServed EXCEPT ![e] = x]
           /\ \A x : CallersAsleep'[e] = x => CallersAsleep' = [CallersAsleep EXCEPT ![e] = x]
<1>1. /\ CallersQueued = [d \in Servers |-> CallersQueued[d]]
      /\ CallersQueued' = [d \in Servers |-> CallersQueued'[d]]
  BY DEF CallersQueued
<1>2. /\ CallerServed = [d \in Servers |-> CallerServed[d]]
      /\ CallerServed' = [d \in Servers |-> CallerServed'[d]]
  BY DEF CallerServed
<1>3. /\ CallersAsleep = [d \in Servers |-> CallersAsleep[d]]
      /\ CallersAsleep' = [d \in Servers |-> CallersAsleep'[d]]
  BY DEF CallersAsleep
<1>4. ASSUME NEW f, NEW g, NEW x, f = [d \in Servers |-> f[d]], g = [d \in Servers |-> g[d]],
             \A d \in Servers \ {e} : g[d] = f[d], g[e] = x
      PROVE  g = [f EXCEPT ![e] = x]
  BY <1>4
<1>5. \A x : CallersQueued'[e] = x => CallersQueued' = [CallersQueued EXCEPT ![e] = x]
  BY <1>1, <1>4 DEF OnlyAt
<1>6. \A x : CallerServed'[e] = x => CallerServed' = [CallerServed EXCEPT ![e] = x]
  BY <1>2, <1>4 DEF OnlyAt
<1>7. \A x : CallersAsleep'[e] = x => CallersAsleep' = [CallersAsleep EXCEPT ![e] = x]
  BY <1>3, <1>4 DEF OnlyAt
<1> QED
  BY <1>5, <1>6, <1>7

(* The four steps of SyncCall.                                             *)
LEMMA SyncSteps ==
    ASSUME NEW e \in Servers, OnlyAt(e)
    PROVE  /\ \A c \in Pids :
                 /\ \A d \in Servers : c \notin CallersAsleep[d]
                 /\ CallersQueued'[e] = Append(CallersQueued[e], c)
                 /\ CallersAsleep'[e] = CallersAsleep[e] \cup {c}
                 /\ CallerServed'[e] = CallerServed[e]
                 => Sync!SyncNext
           /\ \A c \in Pids :
                 /\ \A d \in Servers : c \notin CallersAsleep[d]
                 /\ CallerServed[e] = NoPid /\ CallersQueued[e] = <<>>
                 /\ CallerServed'[e] = c
                 /\ CallersAsleep'[e] = CallersAsleep[e] \cup {c}
                 /\ CallersQueued'[e] = CallersQueued[e]
                 => Sync!SyncNext
           /\ /\ CallerServed[e] = NoPid /\ CallersQueued[e] # <<>>
              /\ CallerServed'[e] = Head(CallersQueued[e])
              /\ CallersQueued'[e] = Tail(CallersQueued[e])
              /\ CallersAsleep'[e] = CallersAsleep[e]
              => Sync!SyncNext
           /\ /\ CallerServed[e] # NoPid
              /\ CallersAsleep'[e] = CallersAsleep[e] \ {CallerServed[e]}
              /\ CallerServed'[e] = NoPid
              /\ CallersQueued'[e] = CallersQueued[e]
              => Sync!SyncNext
<1>1. /\ CallersQueued' = [CallersQueued EXCEPT ![e] = CallersQueued'[e]]
      /\ CallerServed' = [CallerServed EXCEPT ![e] = CallerServed'[e]]
      /\ CallersAsleep' = [CallersAsleep EXCEPT ![e] = CallersAsleep'[e]]
  BY SeenFunctions
<1>2. /\ CallersQueued'[e] = CallersQueued[e] => CallersQueued' = CallersQueued
      /\ CallerServed'[e] = CallerServed[e] => CallerServed' = CallerServed
      /\ CallersAsleep'[e] = CallersAsleep[e] => CallersAsleep' = CallersAsleep
  <2>1. CallersQueued = [d \in Servers |-> CallersQueued[d]]
    BY DEF CallersQueued
  <2>2. CallerServed = [d \in Servers |-> CallerServed[d]]
    BY DEF CallerServed
  <2>3. CallersAsleep = [d \in Servers |-> CallersAsleep[d]]
    BY DEF CallersAsleep
  <2> QED
    BY <1>1, <2>1, <2>2, <2>3
<1> USE DEF Servers
<1>3. ASSUME NEW c \in Pids, \A d \in Servers : c \notin CallersAsleep[d],
             CallersQueued'[e] = Append(CallersQueued[e], c),
             CallersAsleep'[e] = CallersAsleep[e] \cup {c},
             CallerServed'[e] = CallerServed[e]
      PROVE  Sync!SyncNext
  <2>1. Sync!Call(e, c)
    BY <1>1, <1>2, <1>3 DEF Sync!Call
  <2> QED
    BY <2>1 DEF Sync!SyncNext
<1>4. ASSUME NEW c \in Pids, \A d \in Servers : c \notin CallersAsleep[d],
             CallerServed[e] = NoPid, CallersQueued[e] = <<>>,
             CallerServed'[e] = c,
             CallersAsleep'[e] = CallersAsleep[e] \cup {c},
             CallersQueued'[e] = CallersQueued[e]
      PROVE  Sync!SyncNext
  <2>1. Sync!CallTaken(e, c)
    BY <1>1, <1>2, <1>4 DEF Sync!CallTaken
  <2> QED
    BY <2>1 DEF Sync!SyncNext
<1>5. ASSUME CallerServed[e] = NoPid, CallersQueued[e] # <<>>,
             CallerServed'[e] = Head(CallersQueued[e]),
             CallersQueued'[e] = Tail(CallersQueued[e]),
             CallersAsleep'[e] = CallersAsleep[e]
      PROVE  Sync!SyncNext
  <2>1. Sync!Take(e)
    BY <1>1, <1>2, <1>5 DEF Sync!Take
  <2> QED
    BY <2>1 DEF Sync!SyncNext
<1>6. ASSUME CallerServed[e] # NoPid,
             CallersAsleep'[e] = CallersAsleep[e] \ {CallerServed[e]},
             CallerServed'[e] = NoPid,
             CallersQueued'[e] = CallersQueued[e]
      PROVE  Sync!SyncNext
  <2>1. Sync!Answer(e)
    BY <1>1, <1>2, <1>6 DEF Sync!Answer
  <2> QED
    BY <2>1 DEF Sync!SyncNext
<1> QED
  BY <1>3, <1>4, <1>5, <1>6
-----------------------------------------------------------------------------
(* Nobody who acts sleeps, and whoever sleeps on a channel sleeps on no    *)
(* other one.                                                              *)
LEMMA ActorAwake ==
    ASSUME ServersInv
    PROVE  /\ \A w : ~Sleeps(tasks, current, w)
           /\ \A p, v, w : Sleeps(tasks, p, v) /\ Sleeps(tasks, p, w) => v = w
           /\ \A d \in Servers : current \notin CallersAsleep[d]
<1>1. TasksInv
  BY DEF ServersInv, IpcInv
<1>2. \A w : ~Sleeps(tasks, current, w)
  BY <1>1, SleeperFacts
<1>3. \A d \in Servers : current \notin CallersAsleep[d]
  BY <1>2, Seen
<1> QED
  BY <1>1, <1>2, <1>3, SleeperFacts

(* Clients are no servers, so what is written to the frame and the buffer  *)
(* of the acting client and of its server e concerns no other endpoint.    *)
LEMMA OthersUndisturbed ==
    ASSUME ServersInv, NEW e \in Servers, current \notin Servers, pc' = pc,
           \A d \in Servers \ {e} : eps'[d] = eps[d],
           \A p \in Pids \ {current, e} : frame'[p] = frame[p] /\ mem'[p] = mem[p],
           \A d \in Servers \ {e} : \A p :
              /\ Sleeps(tasks', p, IpcCall(d)) <=> Sleeps(tasks, p, IpcCall(d))
              /\ Sleeps(tasks', d, p) <=> Sleeps(tasks, d, p)
    PROVE  \A d \in Servers \ {e} : Undisturbed(d) /\ LoopKept(d)
<1> SUFFICES ASSUME NEW d \in Servers \ {e} PROVE Undisturbed(d) /\ LoopKept(d)
  OBVIOUS
<1>1. d \in Pids /\ d # current /\ eps'[d] = eps[d]
  BY EndpointsInt DEF Servers
<1>2. frame'[d] = frame[d] /\ mem'[d] = mem[d]
  BY <1>1
<1>3. ASSUME NEW p, Sleeps(tasks, p, IpcCall(d))
      PROVE  frame'[p] = frame[p] /\ mem'[p] = mem[p]
  <2>1. p \in Pids
    BY <1>3, SleeperFacts DEF ServersInv, IpcInv, Pids
  <2>2. p # current
    BY <1>3, ActorAwake
  <2>3. p # e
    BY <1>3 DEF ServersInv, ClientsOK
  <2> QED
    BY <2>1, <2>2, <2>3
<1>4. Busy(d)' <=> Busy(d)
  BY DEF Busy
<1>5. Undisturbed(d)
  BY <1>1, <1>2, <1>3, <1>4 DEF Undisturbed
<1>6. LoopKept(d)
  BY <1>1 DEF LoopKept
<1> QED
  BY <1>5, <1>6

(* A call that the server takes at once: n is the length that the client   *)
(* left in a6.                                                             *)
Handed(e, w, n) ==
    /\ current \in Pids \ Servers
    /\ Sleeps(tasks, e, IpcRecv(e)) /\ eps[e].pending = <<>>
    /\ \A p, v : Sleeps(tasks', p, v) <=>
          (Sleeps(tasks, p, v) /\ p # e) \/ (p = current /\ v = IpcCall(e))
    /\ \A d \in Servers \ {e} : eps'[d] = eps[d]
    /\ eps'[e].owner = eps[e].owner /\ eps'[e].pending = eps[e].pending
    /\ eps'[e].has_buffered = eps[e].has_buffered
    /\ \A p \in Pids \ {current, e} : frame'[p] = frame[p] /\ mem'[p] = mem[p]
    /\ frame'[current].words = w /\ frame'[current].a6 = n
    /\ frame'[e].from = current /\ frame'[e].words = w
    /\ n > 0 => frame'[e].a5 = n /\ mem'[e] = mem'[current]
    /\ e = Console => n = 0
    /\ pc' = pc

LEMMA HandedOK ==
    ASSUME ServersInv, IpcInv', NEW e \in Servers, NEW w, NEW n, Handed(e, w, n)
    PROVE  ServersInv' /\ UartKept /\ Sync!SyncNext
<1> DEFINE c == current
<1>1. /\ c \in Pids /\ c \notin Servers /\ c # e /\ pc' = pc
      /\ pc \in [Servers -> {"recv", "serve", "wait", "answer"}]
      /\ Sleeps(tasks, e, IpcRecv(e)) /\ eps[e].pending = <<>>
      /\ eps'[e].pending = eps[e].pending
  BY DEF Handed, ServersInv
<1>2. /\ \A v : ~Sleeps(tasks, c, v)
      /\ \A v : Sleeps(tasks, e, v) => v = IpcRecv(e)
      /\ \A d \in Servers : c \notin CallersAsleep[d]
  BY <1>1, ActorAwake
<1>3. \A p, v : Sleeps(tasks', p, v) <=>
         (Sleeps(tasks, p, v) /\ p # e) \/ (p = c /\ v = IpcCall(e))
  BY DEF Handed
<1>4. QueueOK(e) /\ InHandOK(e) /\ FlagOK(e) /\ ClientsOK(e) /\ LoopOK(e)
  BY DEF ServersInv
<1>5. \A d \in Servers \ {e} : \A p :
         /\ Sleeps(tasks', p, IpcCall(d)) <=> Sleeps(tasks, p, IpcCall(d))
         /\ Sleeps(tasks', d, p) <=> Sleeps(tasks, d, p)
  <2> SUFFICES ASSUME NEW d \in Servers \ {e}, NEW p
               PROVE  /\ Sleeps(tasks', p, IpcCall(d)) <=> Sleeps(tasks, p, IpcCall(d))
                      /\ Sleeps(tasks', d, p) <=> Sleeps(tasks, d, p)
    OBVIOUS
  <2>1. d # c /\ IpcCall(d) # IpcCall(e) /\ IpcCall(d) # IpcRecv(e)
    BY <1>1, IpcChannels DEF Servers
  <2> QED
    BY <1>2, <1>3, <2>1
<1>6. \A d \in Servers \ {e} : Undisturbed(d) /\ LoopKept(d)
  BY <1>1, <1>5, OthersUndisturbed DEF Handed
<1>7. /\ \A v : ~Sleeps(tasks', e, v)
      /\ \A p : Sleeps(tasks', p, IpcCall(e)) <=> Sleeps(tasks, p, IpcCall(e)) \/ p = c
  <2>1. \A p : Sleeps(tasks, p, IpcCall(e)) => p # e
    BY <1>1, <1>2, IpcChannels DEF Servers
  <2> QED
    BY <1>1, <1>3, <2>1
<1>8. Busy(e)' /\ ~Busy(e)
  <2>1. pc[e] = "serve"
    BY <1>1, <1>4 DEF LoopOK
  <2> QED
    BY <1>1, <1>7, <2>1 DEF Busy
<1>9. QueueOK(e)'
  BY <1>1 DEF QueueOK
<1>10. InHandOK(e)'
  <2>1. /\ frame'[c].words = w /\ frame'[c].a6 = n
        /\ frame'[e].from = c /\ frame'[e].words = w
        /\ n > 0 => frame'[e].a5 = n /\ mem'[e] = mem'[c]
    BY DEF Handed
  <2>2. DOMAIN eps'[e].pending = {}
    BY <1>1
  <2> HIDE DEF c
  <2> QED
    BY <1>7, <2>1, <2>2 DEF InHandOK
<1>11. FlagOK(e)'
  BY <1>4 DEF FlagOK, Handed
<1>12. ClientsOK(e)'
  <2> SUFFICES ASSUME NEW p, Sleeps(tasks', p, IpcCall(e))
               PROVE  p \notin Servers /\ (e = Console => frame'[p].a6 = 0)
    BY DEF ClientsOK
  <2>1. CASE p = c
    BY <1>1, <2>1 DEF Handed
  <2>2. CASE p # c /\ Sleeps(tasks, p, IpcCall(e))
    <3>1. p \in Pids /\ p # e
      BY <1>1, <1>2, <2>2, SleeperFacts, IpcChannels DEF ServersInv, IpcInv, Pids, Servers
    <3>2. frame'[p] = frame[p]
      BY <2>2, <3>1 DEF Handed
    <3> QED
      BY <1>4, <2>2, <3>2 DEF ClientsOK
  <2> QED
    BY <1>7, <2>1, <2>2
<1>13. LoopOK(e)'
  BY <1>1, <1>4, <1>7 DEF LoopOK, Handed
<1>14. ServersInv' /\ OnlyAt(e)
  BY <1>1, <1>6, <1>9, <1>10, <1>11, <1>12, <1>13, StepAt DEF EndpointOK
<1>15. /\ CallerServed[e] = NoPid /\ CallersQueued[e] = <<>>
       /\ CallerServed'[e] = c
       /\ CallersAsleep'[e] = CallersAsleep[e] \cup {c}
       /\ CallersQueued'[e] = CallersQueued[e]
  <2>1. CallerServed[e] = NoPid /\ CallerServed'[e] = c
    BY <1>8, Seen DEF Handed
  <2>2. CallersQueued'[e] = CallersQueued[e] /\ CallersQueued[e] = <<>>
    <3>1. CallersQueued'[e] = CallersQueued[e]
      BY <1>1, SeenQueue
    <3>2. CallersQueued[e] = [i \in DOMAIN eps[e].pending |-> eps[e].pending[i].sender]
      BY Seen
    <3>3. CallersQueued[e] = [i \in {} |-> eps[e].pending[i].sender]
      BY <1>1, <3>2
    <3> QED
      BY <3>1, <3>3
  <2>3. CallersAsleep'[e] = CallersAsleep[e] \cup {c}
    <3>1. /\ CallersAsleep[e] = {p \in Pids : Sleeps(tasks, p, IpcCall(e))}
          /\ CallersAsleep'[e] = {p \in Pids : Sleeps(tasks', p, IpcCall(e))}
      BY Seen
    <3> HIDE DEF c
    <3> QED
      BY <1>1, <1>7, <3>1
  <2> QED
    BY <2>1, <2>2, <2>3
<1>16. UartKept
  BY <1>1, <1>2, <1>3, UartChannels DEF UartKept
<1> QED
  BY <1>1, <1>2, <1>14, <1>15, <1>16, SyncSteps

(* A call that is queued behind the others.                                *)
PutInQueue(e, w, n) ==
    /\ current \in Pids \ Servers
    /\ Len(eps[e].pending) # MsgQueueSize
    /\ \A p, v : Sleeps(tasks', p, v) <=>
          Sleeps(tasks, p, v) \/ (p = current /\ v = IpcCall(e))
    /\ \A d \in Servers \ {e} : eps'[d] = eps[d]
    /\ eps'[e].owner = eps[e].owner /\ eps'[e].recv_buf = eps[e].recv_buf
    /\ \E msg \in Message :
          /\ msg.sender = current /\ msg.words = w /\ msg.buf_len = n
          /\ eps'[e].pending = Push(eps[e].pending, msg)
    /\ eps'[e].has_buffered => eps[e].has_buffered \/ n > 0
    /\ \/ n = 0 /\ eps'[e].copy_buf = eps[e].copy_buf
       \/ /\ ~eps[e].has_buffered
          /\ eps'[e].copy_buf = mem'[current].data /\ mem'[current].len = n
    /\ \A p \in Pids \ {current} : frame'[p] = frame[p] /\ mem'[p] = mem[p]
    /\ frame'[current].words = w /\ frame'[current].a6 = n
    /\ e = Console => n = 0
    /\ pc' = pc

LEMMA PutInQueueOK ==
    ASSUME ServersInv, IpcInv', NEW e \in Servers, NEW w, NEW n, PutInQueue(e, w, n)
    PROVE  ServersInv' /\ UartKept /\ Sync!SyncNext
<1> DEFINE c == current
           q == eps[e].pending
           r == eps'[e].pending
<1>1. /\ c \in Pids /\ c \notin Servers /\ c # e /\ pc' = pc
      /\ pc \in [Servers -> {"recv", "serve", "wait", "answer"}]
      /\ q \in Seq(Message) /\ Len(q) # MsgQueueSize
  BY DEF PutInQueue, ServersInv, IpcInv, IpcTypeOK, Endpoint, Servers
<1>2. /\ \A v : ~Sleeps(tasks, c, v)
      /\ \A d \in Servers : c \notin CallersAsleep[d]
  BY ActorAwake
<1>3. \A p, v : Sleeps(tasks', p, v) <=>
         Sleeps(tasks, p, v) \/ (p = c /\ v = IpcCall(e))
  BY DEF PutInQueue
<1>4. QueueOK(e) /\ InHandOK(e) /\ FlagOK(e) /\ ClientsOK(e) /\ LoopOK(e)
      /\ OneBuffered(eps[e])
  BY DEF ServersInv, IpcInv, Servers
<1>5. \A d \in Servers : \A p :
         /\ d # e => (Sleeps(tasks', p, IpcCall(d)) <=> Sleeps(tasks, p, IpcCall(d)))
         /\ Sleeps(tasks', d, p) <=> Sleeps(tasks, d, p)
  BY <1>1, <1>2, <1>3, IpcChannels DEF Servers
<1>6. \A d \in Servers \ {e} : Undisturbed(d) /\ LoopKept(d)
  BY <1>1, <1>5, OthersUndisturbed DEF PutInQueue
<1>7. \A p : Sleeps(tasks', p, IpcCall(e)) <=> Sleeps(tasks, p, IpcCall(e)) \/ p = c
  BY <1>3
<1>8. Busy(e)' <=> Busy(e)
  BY <1>1, <1>5 DEF Busy
<1>9. PICK msg \in Message :
         /\ msg.sender = c /\ msg.words = w /\ msg.buf_len = n /\ r = Push(q, msg)
  BY DEF PutInQueue
<1>10. /\ r = Append(q, msg) /\ DOMAIN r = 1 .. Len(q) + 1
       /\ DOMAIN q = 1 .. Len(q) /\ Len(q) \in Nat
       /\ \A i \in 1 .. Len(q) : r[i] = q[i]
       /\ r[Len(q) + 1] = msg
  <2> HIDE DEF q, r
  <2> QED
    BY <1>1, <1>9, Pushed
<1>11. \A p : Sleeps(tasks, p, IpcCall(e)) =>
          p \in Pids /\ p # c /\ p # e /\ frame'[p] = frame[p] /\ mem'[p] = mem[p]
  <2> SUFFICES ASSUME NEW p, Sleeps(tasks, p, IpcCall(e))
               PROVE  p \in Pids /\ p # c /\ p # e /\ frame'[p] = frame[p] /\ mem'[p] = mem[p]
    OBVIOUS
  <2>1. p \in Pids /\ p # c /\ p # e
    BY <1>2, <1>4, SleeperFacts DEF ServersInv, IpcInv, Pids, ClientsOK
  <2> QED
    BY <2>1 DEF PutInQueue
<1>12. n \in Nat /\ \A i \in DOMAIN q : q[i].buf_len \in Nat
  <2>1. \A m \in Message : m.buf_len \in Nat
    BY IpcAssumption DEF Message, Lens
  <2>2. \A i \in DOMAIN q : q[i] \in Message
    BY <1>1
  <2> QED
    BY <1>9, <2>1, <2>2
<1>13. \A i \in DOMAIN q : q[i].buf_len > 0 => eps'[e].copy_buf = eps[e].copy_buf
  BY <1>4 DEF PutInQueue, OneBuffered
<1>14. QueueOK(e)'
  <2>1. ASSUME NEW i \in DOMAIN r
        PROVE  /\ Sleeps(tasks', r[i].sender, IpcCall(e))
               /\ r[i].words = frame'[r[i].sender].words
               /\ r[i].buf_len = frame'[r[i].sender].a6
               /\ r[i].buf_len > 0 => /\ eps'[e].copy_buf = mem'[r[i].sender].data
                                      /\ mem'[r[i].sender].len = r[i].buf_len
    <3>1. CASE i \in DOMAIN q
      <4>1. SentBySleeper(e, q[i]) /\ r[i] = q[i]
        BY <1>4, <1>10, <3>1 DEF QueueOK
      <4> HIDE DEF q, r
      <4> QED
        BY <1>7, <1>11, <1>13, <3>1, <4>1 DEF SentBySleeper
    <3>2. CASE i = Len(q) + 1
      <4>1. r[i] = msg
        BY <1>10, <3>2
      <4>2. /\ frame'[c].words = w /\ frame'[c].a6 = n
            /\ n > 0 => eps'[e].copy_buf = mem'[c].data /\ mem'[c].len = n
        BY <1>12 DEF PutInQueue
      <4> HIDE DEF q, r, c
      <4> QED
        BY <1>7, <1>9, <4>1, <4>2
    <3> QED
      BY <1>10, <3>1, <3>2
  <2>2. ASSUME NEW i \in DOMAIN r, NEW j \in DOMAIN r, r[i].sender = r[j].sender
        PROVE  i = j
    <3>1. \A k \in DOMAIN q : q[k].sender # c
      BY <1>4, <1>11 DEF QueueOK, SentBySleeper
    <3>2. \A k, l \in DOMAIN q : q[k].sender = q[l].sender => k = l
      BY <1>4 DEF QueueOK
    <3> HIDE DEF q, r, c
    <3> QED
      BY <1>9, <1>10, <2>2, <3>1, <3>2
  <2> QED
    BY <2>1, <2>2 DEF QueueOK, SentBySleeper
<1>15. InHandOK(e)'
  <2> SUFFICES ASSUME Busy(e)'
               PROVE  LET p == frame'[e].from
                      IN  /\ Sleeps(tasks', p, IpcCall(e))
                          /\ \A i \in DOMAIN r : r[i].sender # p
                          /\ frame'[e].words = frame'[p].words
                          /\ frame'[p].a6 > 0 => /\ frame'[e].a5 = frame'[p].a6
                                                 /\ mem'[e] = mem'[p]
    BY DEF InHandOK
  <2> DEFINE p == frame[e].from
  <2>1. frame'[e] = frame[e] /\ mem'[e] = mem[e]
    BY <1>1, EndpointsInt DEF PutInQueue, Servers
  <2>2. /\ Sleeps(tasks, p, IpcCall(e))
        /\ \A i \in DOMAIN q : q[i].sender # p
        /\ frame[e].words = frame[p].words
        /\ frame[p].a6 > 0 => frame[e].a5 = frame[p].a6 /\ mem[e] = mem[p]
    BY <1>4, <1>8 DEF InHandOK
  <2>3. p # c /\ frame'[p] = frame[p] /\ mem'[p] = mem[p] /\ p = frame'[e].from
    BY <1>11, <2>1, <2>2
  <2>4. \A i \in DOMAIN r : r[i].sender # p
    <3> HIDE DEF p, q, r, c
    <3> QED
      BY <1>9, <1>10, <2>2, <2>3
  <2> HIDE DEF p, q, r
  <2> QED
    BY <1>7, <2>1, <2>2, <2>3, <2>4
<1>16. FlagOK(e)'
  <2>1. CASE n > 0
    <3>1. Len(q) + 1 \in DOMAIN r /\ r[Len(q) + 1].buf_len > 0
      BY <1>9, <1>10, <2>1
    <3> QED
      BY <3>1 DEF FlagOK
  <2>2. CASE ~(n > 0) /\ eps'[e].has_buffered
    <3>1. PICK i \in DOMAIN q : q[i].buf_len > 0
      BY <1>4, <2>2 DEF FlagOK, PutInQueue
    <3>2. i \in DOMAIN r /\ r[i].buf_len > 0
      BY <1>10, <3>1
    <3> QED
      BY <3>2 DEF FlagOK
  <2> QED
    BY <2>1, <2>2 DEF FlagOK
<1>17. ClientsOK(e)'
  BY <1>1, <1>4, <1>7, <1>11 DEF ClientsOK, PutInQueue
<1>18. LoopOK(e)'
  BY <1>1, <1>4, <1>5 DEF LoopOK, PutInQueue
<1>19. ServersInv' /\ OnlyAt(e)
  BY <1>1, <1>6, <1>14, <1>15, <1>16, <1>17, <1>18, StepAt DEF EndpointOK
<1>20. /\ CallersQueued'[e] = Append(CallersQueued[e], c)
       /\ CallersAsleep'[e] = CallersAsleep[e] \cup {c}
       /\ CallerServed'[e] = CallerServed[e]
  <2>1. CallerServed'[e] = CallerServed[e]
    <3>1. frame'[e] = frame[e]
      BY <1>1, EndpointsInt DEF PutInQueue, Servers
    <3> QED
      BY <1>8, <3>1, Seen
  <2>2. CallersQueued'[e] = Append(CallersQueued[e], c)
    <3>1. /\ CallersQueued[e] = [i \in DOMAIN q |-> q[i].sender]
          /\ CallersQueued'[e] = [i \in DOMAIN r |-> r[i].sender]
      BY Seen
    <3> HIDE DEF q, r, c
    <3>2. \A i \in 1 .. Len(q) : q[i].sender \in Pids
      <4>1. \A m \in Message : m.sender \in Pids
        BY DEF Message
      <4>2. \A i \in 1 .. Len(q) : q[i] \in Message
        BY <1>1
      <4> QED
        BY <4>1, <4>2
    <3>3. [i \in DOMAIN q |-> q[i].sender] \in Seq(Pids)
      BY <1>10, <3>2
    <3> QED
      BY <1>1, <1>9, <1>10, <3>1, <3>3
  <2>3. CallersAsleep'[e] = CallersAsleep[e] \cup {c}
    <3>1. /\ CallersAsleep[e] = {p \in Pids : Sleeps(tasks, p, IpcCall(e))}
          /\ CallersAsleep'[e] = {p \in Pids : Sleeps(tasks', p, IpcCall(e))}
      BY Seen
    <3> HIDE DEF c
    <3> QED
      BY <1>1, <1>7, <3>1
  <2> QED
    BY <2>1, <2>2, <2>3
<1>21. UartKept
  BY <1>3, UartChannels DEF UartKept
<1> QED
  BY <1>1, <1>2, <1>19, <1>20, <1>21, SyncSteps

(* A server acts: the frame and the buffer of nobody but itself and, in a  *)
(* reply, the client x it answers, change.                                 *)
LEMMA OthersUndisturbedByServer ==
    ASSUME ServersInv, NEW e \in Servers, NEW x, x \notin Servers \ {e},
           \A d \in Servers \ {e} : eps'[d] = eps[d] /\ pc'[d] = pc[d],
           \A p \in Pids \ {e, x} : frame'[p] = frame[p] /\ mem'[p] = mem[p],
           \A d \in Servers \ {e} : ~Sleeps(tasks, x, IpcCall(d)),
           \A d \in Servers \ {e} : \A p :
              /\ Sleeps(tasks', p, IpcCall(d)) <=> Sleeps(tasks, p, IpcCall(d))
              /\ Sleeps(tasks', d, p) <=> Sleeps(tasks, d, p)
    PROVE  \A d \in Servers \ {e} : Undisturbed(d) /\ LoopKept(d)
<1> SUFFICES ASSUME NEW d \in Servers \ {e} PROVE Undisturbed(d) /\ LoopKept(d)
  OBVIOUS
<1>1. d \in Pids /\ d # x /\ eps'[d] = eps[d] /\ pc'[d] = pc[d]
  BY EndpointsInt DEF Servers
<1>2. frame'[d] = frame[d] /\ mem'[d] = mem[d]
  BY <1>1
<1>3. ASSUME NEW p, Sleeps(tasks, p, IpcCall(d))
      PROVE  frame'[p] = frame[p] /\ mem'[p] = mem[p]
  <2>1. p \in Pids
    BY <1>3, SleeperFacts DEF ServersInv, IpcInv, Pids
  <2>2. p # x
    BY <1>3
  <2>3. p # e
    BY <1>3 DEF ServersInv, ClientsOK
  <2> QED
    BY <2>1, <2>2, <2>3
<1>4. Busy(d)' <=> Busy(d)
  BY <1>1 DEF Busy
<1>5. Undisturbed(d)
  BY <1>1, <1>2, <1>3, <1>4 DEF Undisturbed
<1>6. LoopKept(d)
  BY <1>1 DEF LoopKept
<1> QED
  BY <1>5, <1>6

(* A receive that finds a message.                                         *)
TakenFromQueue(e) ==
    /\ current = e /\ pc[e] = "recv" /\ pc' = [pc EXCEPT ![e] = "serve"]
    /\ eps[e].pending # <<>>
    /\ tasks' = tasks
    /\ \A d \in Servers \ {e} : eps'[d] = eps[d]
    /\ eps'[e].owner = eps[e].owner
    /\ eps'[e].pending = Tail(eps[e].pending)
    /\ eps'[e].copy_buf = eps[e].copy_buf
    /\ eps'[e].has_buffered => eps[e].has_buffered /\ eps[e].pending[1].buf_len = 0
    /\ \A p \in Pids \ {e} : frame'[p] = frame[p] /\ mem'[p] = mem[p]
    /\ frame'[e].from = eps[e].pending[1].sender
    /\ frame'[e].words = eps[e].pending[1].words
    /\ eps[e].pending[1].buf_len > 0 =>
          /\ frame'[e].a5 = eps[e].pending[1].buf_len
          /\ mem'[e].data = eps[e].copy_buf
          /\ mem'[e].len = eps[e].pending[1].buf_len

LEMMA TakenFromQueueOK ==
    ASSUME ServersInv, IpcInv', NEW e \in Servers, TakenFromQueue(e)
    PROVE  ServersInv' /\ UartKept /\ Sync!SyncNext
<1> DEFINE q == eps[e].pending
           r == eps'[e].pending
           c == q[1].sender
<1>1. /\ pc \in [Servers -> {"recv", "serve", "wait", "answer"}]
      /\ pc' = [pc EXCEPT ![e] = "serve"] /\ pc[e] = "recv"
      /\ tasks' = tasks /\ current = e /\ e \in Pids
      /\ q \in Seq(Message) /\ q # <<>> /\ r = Tail(q)
      /\ mem \in [Pids -> Buffer] /\ mem' \in [Pids -> Buffer]
  BY EndpointsInt DEF TakenFromQueue, ServersInv, IpcInv, IpcTypeOK, Endpoint, Servers
<1>2. /\ 1 \in DOMAIN q /\ Len(q) \in Nat /\ DOMAIN q = 1 .. Len(q) /\ Len(q) >= 1
      /\ Head(q) = q[1] /\ q[1] \in Message /\ DOMAIN r = 1 .. Len(q) - 1
      /\ \A i \in DOMAIN r : r[i] = q[i + 1] /\ i + 1 \in DOMAIN q /\ i \in Nat /\ i >= 1
  <2> HIDE DEF q, r
  <2> QED
    BY <1>1, Popped
<1>3. QueueOK(e) /\ FlagOK(e) /\ ClientsOK(e) /\ LoopOK(e)
  BY DEF ServersInv
<1>4. SentBySleeper(e, q[1])
  BY <1>2, <1>3 DEF QueueOK
<1>5. \A p : Sleeps(tasks, p, IpcCall(e)) =>
         p \in Pids /\ p # e /\ frame'[p] = frame[p] /\ mem'[p] = mem[p]
  <2> SUFFICES ASSUME NEW p, Sleeps(tasks, p, IpcCall(e))
               PROVE  p \in Pids /\ p # e /\ frame'[p] = frame[p] /\ mem'[p] = mem[p]
    OBVIOUS
  <2>1. p \in Pids /\ p # e
    BY <1>3, SleeperFacts DEF ServersInv, IpcInv, Pids, ClientsOK
  <2> QED
    BY <2>1 DEF TakenFromQueue
<1>6. \A d \in Servers \ {e} : Undisturbed(d) /\ LoopKept(d)
  <2>1. \A d \in Servers \ {e} : ~Sleeps(tasks, e, IpcCall(d))
    BY <1>1, ActorAwake
  <2> QED
    BY <1>1, <2>1, OthersUndisturbedByServer DEF TakenFromQueue
<1>7. pc' \in [Servers -> {"recv", "serve", "wait", "answer"}] /\ pc'[e] = "serve"
  BY <1>1
<1>8. Busy(e)' /\ ~Busy(e)
  BY <1>1, <1>7, ActorAwake DEF Busy
<1>9. \A i \in DOMAIN r : SentBySleeper(e, r[i]) /\ r[i].sender # c
  <2>1. \A i \in DOMAIN q : SentBySleeper(e, q[i])
    BY <1>3 DEF QueueOK
  <2>2. \A i, j \in DOMAIN q : q[i].sender = q[j].sender => i = j
    BY <1>3 DEF QueueOK
  <2> HIDE DEF q, r
  <2> QED
    BY <1>2, <2>1, <2>2
<1>10. QueueOK(e)'
  <2>1. ASSUME NEW i \in DOMAIN r
        PROVE  /\ Sleeps(tasks', r[i].sender, IpcCall(e))
               /\ r[i].words = frame'[r[i].sender].words
               /\ r[i].buf_len = frame'[r[i].sender].a6
               /\ r[i].buf_len > 0 => /\ eps'[e].copy_buf = mem'[r[i].sender].data
                                      /\ mem'[r[i].sender].len = r[i].buf_len
    <3>1. eps'[e].copy_buf = eps[e].copy_buf
      BY DEF TakenFromQueue
    <3> HIDE DEF q, r
    <3> QED
      BY <1>1, <1>5, <1>9, <3>1 DEF SentBySleeper
  <2>2. \A i, j \in DOMAIN r : r[i].sender = r[j].sender => i = j
    <3>1. \A i, j \in DOMAIN q : q[i].sender = q[j].sender => i = j
      BY <1>3 DEF QueueOK
    <3> HIDE DEF q, r
    <3> QED
      BY <1>2, <3>1
  <2> QED
    BY <2>1, <2>2 DEF QueueOK, SentBySleeper
<1>11. InHandOK(e)'
  <2>1. /\ frame'[e].from = c /\ frame'[e].words = q[1].words
        /\ q[1].buf_len > 0 => /\ frame'[e].a5 = q[1].buf_len
                               /\ mem'[e].data = eps[e].copy_buf
                               /\ mem'[e].len = q[1].buf_len
    BY DEF TakenFromQueue
  <2>2. /\ Sleeps(tasks, c, IpcCall(e))
        /\ q[1].words = frame[c].words /\ q[1].buf_len = frame[c].a6
        /\ q[1].buf_len > 0 => eps[e].copy_buf = mem[c].data /\ mem[c].len = q[1].buf_len
    BY <1>4 DEF SentBySleeper
  <2>3. c \in Pids /\ frame'[c] = frame[c] /\ mem'[c] = mem[c]
    BY <1>5, <2>2
  <2> HIDE DEF q, r, c
  <2>4. frame'[c].a6 > 0 => mem'[e] = mem'[c]
    <3> SUFFICES ASSUME frame'[c].a6 > 0 PROVE mem'[e] = mem'[c]
      OBVIOUS
    <3>1. mem'[e].data = mem'[c].data /\ mem'[e].len = mem'[c].len
      BY <2>1, <2>2, <2>3
    <3>2. mem'[e] \in Buffer /\ mem'[c] \in Buffer
      BY <1>1, <2>3
    <3> QED
      BY <3>1, <3>2 DEF Buffer
  <2>5. \A i \in DOMAIN r : r[i].sender # c
    BY <1>9
  <2>6. /\ Sleeps(tasks', c, IpcCall(e))
        /\ frame'[e].words = frame'[c].words
        /\ frame'[c].a6 > 0 => frame'[e].a5 = frame'[c].a6 /\ mem'[e] = mem'[c]
    BY <1>1, <2>1, <2>2, <2>3, <2>4
  <2> QED
    BY <2>1, <2>5, <2>6 DEF InHandOK, r
<1>12. FlagOK(e)'
  <2> SUFFICES ASSUME eps'[e].has_buffered
               PROVE  \E i \in DOMAIN r : r[i].buf_len > 0
    BY DEF FlagOK
  <2>1. eps[e].has_buffered /\ q[1].buf_len = 0
    BY DEF TakenFromQueue
  <2>2. PICK i \in DOMAIN q : q[i].buf_len > 0
    BY <1>3, <2>1 DEF FlagOK
  <2>3. i # 1
    BY <2>1, <2>2
  <2> HIDE DEF q, r
  <2>4. i - 1 \in DOMAIN r /\ r[i - 1] = q[i]
    <3>1. i - 1 \in DOMAIN r
      BY <1>2, <2>3
    <3>2. r[i - 1] = q[(i - 1) + 1] /\ (i - 1) + 1 = i
      BY <1>2, <3>1
    <3> QED
      BY <3>1, <3>2
  <2> QED
    BY <2>2, <2>4
<1>13. ClientsOK(e)'
  BY <1>1, <1>3, <1>5 DEF ClientsOK
<1>14. LoopOK(e)'
  <2>1. \A w : ~Sleeps(tasks', e, w)
    BY <1>1, ActorAwake
  <2> QED
    BY <1>3, <1>7, <2>1 DEF LoopOK, TakenFromQueue
<1>15. ServersInv' /\ OnlyAt(e)
  BY <1>6, <1>7, <1>10, <1>11, <1>12, <1>13, <1>14, StepAt DEF EndpointOK
<1>16. /\ CallerServed[e] = NoPid /\ CallersQueued[e] # <<>>
       /\ CallerServed'[e] = Head(CallersQueued[e])
       /\ CallersQueued'[e] = Tail(CallersQueued[e])
       /\ CallersAsleep'[e] = CallersAsleep[e]
  <2>1. CallersQueued[e] # <<>> /\ Head(CallersQueued[e]) = c
        /\ CallersQueued'[e] = Tail(CallersQueued[e])
    <3>1. /\ CallersQueued[e] = [i \in DOMAIN q |-> q[i].sender]
          /\ CallersQueued'[e] = [i \in DOMAIN r |-> r[i].sender]
      BY Seen
    <3> HIDE DEF q, r
    <3>2. \A i \in 1 .. Len(q) : q[i].sender \in Pids
      <4>1. \A m \in Message : m.sender \in Pids
        BY DEF Message
      <4>2. \A i \in 1 .. Len(q) : q[i] \in Message
        BY <1>1
      <4> QED
        BY <4>1, <4>2
    <3>3. [i \in DOMAIN q |-> q[i].sender] \in Seq(Pids)
      BY <1>2, <3>2
    <3> QED
      BY <1>1, <1>2, <3>1, <3>3
  <2>2. CallerServed[e] = NoPid /\ CallerServed'[e] = c
    BY <1>8, Seen DEF TakenFromQueue
  <2>3. CallersAsleep'[e] = CallersAsleep[e]
    BY <1>1, Seen
  <2> QED
    BY <2>1, <2>2, <2>3
<1>17. UartKept
  BY <1>1 DEF UartKept
<1> QED
  BY <1>15, <1>16, <1>17, SyncSteps

(* A receive that finds nothing.                                           *)
WentToSleep(e) ==
    /\ current = e /\ pc[e] = "recv" /\ pc' = [pc EXCEPT ![e] = "serve"]
    /\ eps[e].pending = <<>>
    /\ \A p, v : Sleeps(tasks', p, v) <=>
          Sleeps(tasks, p, v) \/ (p = e /\ v = IpcRecv(e))
    /\ \A d \in Servers \ {e} : eps'[d] = eps[d]
    /\ eps'[e].owner = eps[e].owner /\ eps'[e].pending = eps[e].pending
    /\ eps'[e].has_buffered = eps[e].has_buffered
    /\ e = Fs => eps'[e].recv_buf = BufSize
    /\ \A p \in Pids \ {e} : frame'[p] = frame[p] /\ mem'[p] = mem[p]

LEMMA WentToSleepOK ==
    ASSUME ServersInv, IpcInv', NEW e \in Servers, WentToSleep(e)
    PROVE  /\ ServersInv' /\ UartKept
           /\ UNCHANGED <<CallersQueued, CallerServed, CallersAsleep>>
<1>1. /\ pc \in [Servers -> {"recv", "serve", "wait", "answer"}]
      /\ pc' = [pc EXCEPT ![e] = "serve"] /\ pc[e] = "recv" /\ current = e
      /\ eps[e].pending = <<>> /\ eps'[e].pending = eps[e].pending
      /\ eps'[e].has_buffered = eps[e].has_buffered
  BY DEF WentToSleep, ServersInv
<1>2. /\ pc' \in [Servers -> {"recv", "serve", "wait", "answer"}] /\ pc'[e] = "serve"
      /\ \A d \in Servers \ {e} : pc'[d] = pc[d]
  BY <1>1
<1>3. \A p, v : Sleeps(tasks', p, v) <=>
         Sleeps(tasks, p, v) \/ (p = e /\ v = IpcRecv(e))
  BY DEF WentToSleep
<1>4. \A d \in Servers : \A p :
         Sleeps(tasks', p, IpcCall(d)) <=> Sleeps(tasks, p, IpcCall(d))
  BY <1>3, IpcChannels DEF Servers
<1>5. \A d \in Servers \ {e} : Undisturbed(d) /\ LoopKept(d)
  <2>1. \A d \in Servers \ {e} : ~Sleeps(tasks, e, IpcCall(d))
    BY <1>1, ActorAwake
  <2> QED
    BY <1>2, <1>3, <1>4, <2>1, OthersUndisturbedByServer DEF WentToSleep
<1>6. ~Busy(e)' /\ ~Busy(e)
  BY <1>1, <1>3 DEF Busy
<1>7. ASSUME NEW p, Sleeps(tasks, p, IpcCall(e))
      PROVE  frame'[p] = frame[p] /\ mem'[p] = mem[p]
  <2>1. p \in Pids /\ p # e
    BY <1>7, SleeperFacts DEF ServersInv, IpcInv, Pids, ClientsOK
  <2> QED
    BY <2>1 DEF WentToSleep
<1>8. Undisturbed(e)
  <2>1. DOMAIN eps[e].pending = {}
    BY <1>1
  <2> QED
    BY <1>1, <1>4, <1>6, <1>7, <2>1 DEF Undisturbed
<1>9. LoopOK(e)'
  BY <1>2 DEF LoopOK, WentToSleep, ServersInv
<1>10. \A d \in Servers : Undisturbed(d) /\ LoopOK(d)'
  <2>1. \A d \in Servers : LoopOK(d)
    BY DEF ServersInv
  <2> QED
    BY <1>5, <1>8, <1>9, <2>1, LoopKeptOK
<1>11. UartKept
  BY <1>3, UartChannels DEF UartKept
<1> QED
  BY <1>2, <1>10, <1>11, StepNowhere

(* A reply to the request in hand.                                         *)
Answered(e) ==
    /\ current = e /\ pc[e] # "recv" /\ pc' = [pc EXCEPT ![e] = "recv"]
    /\ \A p, v : Sleeps(tasks', p, v) <=> Sleeps(tasks, p, v) /\ p # frame[e].from
    /\ eps' = eps
    /\ \A p \in Pids \ {frame[e].from} : frame'[p] = frame[p] /\ mem'[p] = mem[p]

LEMMA AnsweredOK ==
    ASSUME ServersInv, IpcInv', NEW e \in Servers, Answered(e)
    PROVE  ServersInv' /\ UartKept /\ Sync!SyncNext
<1> DEFINE c == frame[e].from
<1>1. /\ pc \in [Servers -> {"recv", "serve", "wait", "answer"}]
      /\ pc' = [pc EXCEPT ![e] = "recv"] /\ pc[e] # "recv" /\ current = e
      /\ eps' = eps /\ e \in Pids
  BY EndpointsInt DEF Answered, ServersInv, Servers
<1>2. /\ pc' \in [Servers -> {"recv", "serve", "wait", "answer"}] /\ pc'[e] = "recv"
      /\ \A d \in Servers \ {e} : pc'[d] = pc[d]
  BY <1>1
<1>3. \A p, v : Sleeps(tasks', p, v) <=> Sleeps(tasks, p, v) /\ p # c
  BY DEF Answered
<1>4. QueueOK(e) /\ InHandOK(e) /\ FlagOK(e) /\ ClientsOK(e) /\ LoopOK(e)
  BY DEF ServersInv
<1>5. ~Busy(e)' /\ Busy(e)
  BY <1>1, <1>2, ActorAwake DEF Busy
<1>6. /\ Sleeps(tasks, c, IpcCall(e))
      /\ \A i \in DOMAIN eps[e].pending : eps[e].pending[i].sender # c
  BY <1>4, <1>5 DEF InHandOK
<1>7. c \notin Servers /\ c \in Pids
  BY <1>4, <1>6, SleeperFacts DEF ServersInv, IpcInv, Pids, ClientsOK
<1>8. \A d \in Servers \ {e} : ~Sleeps(tasks, c, IpcCall(d))
  BY <1>6, ActorAwake, IpcChannels DEF Servers
<1>9. \A d \in Servers \ {e} : Undisturbed(d) /\ LoopKept(d)
  <2>1. \A d \in Servers \ {e} : \A p :
           /\ Sleeps(tasks', p, IpcCall(d)) <=> Sleeps(tasks, p, IpcCall(d))
           /\ Sleeps(tasks', d, p) <=> Sleeps(tasks, d, p)
    BY <1>3, <1>7, <1>8
  <2>2. \A p \in Pids \ {e, c} : frame'[p] = frame[p] /\ mem'[p] = mem[p]
    BY DEF Answered
  <2>3. \A d \in Servers \ {e} : eps'[d] = eps[d] /\ pc'[d] = pc[d]
    BY <1>1, <1>2
  <2> HIDE DEF c
  <2> QED
    BY <1>7, <1>8, <2>1, <2>2, <2>3, OthersUndisturbedByServer
<1>10. \A p : Sleeps(tasks, p, IpcCall(e)) /\ p # c =>
          /\ Sleeps(tasks', p, IpcCall(e))
          /\ frame'[p] = frame[p] /\ mem'[p] = mem[p]
  <2> SUFFICES ASSUME NEW p, Sleeps(tasks, p, IpcCall(e)), p # c
               PROVE  /\ Sleeps(tasks', p, IpcCall(e))
                      /\ frame'[p] = frame[p] /\ mem'[p] = mem[p]
    OBVIOUS
  <2>1. p \in Pids
    BY SleeperFacts DEF ServersInv, IpcInv, Pids
  <2> QED
    BY <1>3, <2>1 DEF Answered
<1>11. QueueOK(e)'
  <2>1. \A i \in DOMAIN eps[e].pending : SentBySleeper(e, eps[e].pending[i])
    BY <1>4 DEF QueueOK
  <2>2. ASSUME NEW i \in DOMAIN eps[e].pending
        PROVE  LET m == eps[e].pending[i]
               IN  /\ Sleeps(tasks', m.sender, IpcCall(e))
                   /\ frame'[m.sender] = frame[m.sender]
                   /\ mem'[m.sender] = mem[m.sender]
    BY <1>6, <1>10, <2>1 DEF SentBySleeper
  <2> QED
    BY <1>1, <1>4, <2>2 DEF QueueOK, SentBySleeper
<1>12. InHandOK(e)'
  BY <1>5 DEF InHandOK
<1>13. FlagOK(e)'
  BY <1>1, <1>4 DEF FlagOK
<1>14. ClientsOK(e)'
  BY <1>3, <1>4, <1>10 DEF ClientsOK
<1>15. LoopOK(e)'
  <2>1. \A w : ~Sleeps(tasks', e, w)
    BY <1>1, <1>3, ActorAwake
  <2> QED
    BY <1>1, <1>2, <1>4, <2>1 DEF LoopOK
<1>16. ServersInv' /\ OnlyAt(e)
  BY <1>2, <1>9, <1>11, <1>12, <1>13, <1>14, <1>15, StepAt DEF EndpointOK
<1>17. /\ CallerServed[e] # NoPid
       /\ CallersAsleep'[e] = CallersAsleep[e] \ {CallerServed[e]}
       /\ CallerServed'[e] = NoPid
       /\ CallersQueued'[e] = CallersQueued[e]
  <2>1. CallerServed[e] = c /\ CallerServed'[e] = NoPid
    BY <1>5, Seen
  <2>2. c # NoPid
    BY <1>7, TasksAssumption DEF Pids, NoPid
  <2>3. CallersQueued'[e] = CallersQueued[e]
    BY <1>1, SeenQueue
  <2>4. CallersAsleep'[e] = CallersAsleep[e] \ {c}
    <3>1. /\ CallersAsleep[e] = {p \in Pids : Sleeps(tasks, p, IpcCall(e))}
          /\ CallersAsleep'[e] = {p \in Pids : Sleeps(tasks', p, IpcCall(e))}
      BY Seen
    <3> HIDE DEF c
    <3> QED
      BY <1>3, <3>1
  <2> QED
    BY <2>1, <2>2, <2>3, <2>4
<1>18. UartKept
  BY <1>3, <1>6, ActorAwake, UartChannels DEF UartKept
<1> QED
  BY <1>16, <1>17, <1>18, SyncSteps

(* A step that has nothing to do with calls: of the timer, of the UART, or *)
(* a trap of a client that is no call; fork copies frame and buffer to a   *)
(* pid that no request is about.                                           *)
Quiet ==
    /\ \A d \in Servers : \A p :
          /\ Sleeps(tasks', p, IpcCall(d)) <=> Sleeps(tasks, p, IpcCall(d))
          /\ Sleeps(tasks', p, IpcRecv(d)) <=> Sleeps(tasks, p, IpcRecv(d))
    /\ \A d \in Servers :
          /\ eps'[d].pending = eps[d].pending
          /\ eps'[d].has_buffered = eps[d].has_buffered
          /\ \A i \in DOMAIN eps[d].pending :
                eps[d].pending[i].buf_len > 0 => eps'[d].copy_buf = eps[d].copy_buf
    /\ \A p \in Pids \ {next_pid} : frame'[p] = frame[p] /\ mem'[p] = mem[p]
    /\ \A d \in Servers : pc'[d] = "recv" <=> pc[d] = "recv"

LEMMA QuietOK ==
    ASSUME ServersInv, IpcInv', Quiet,
           pc' \in [Servers -> {"recv", "serve", "wait", "answer"}],
           \A d \in Servers : LoopOK(d)'
    PROVE  ServersInv' /\ UNCHANGED <<CallersQueued, CallerServed, CallersAsleep>>
<1>1. ASSUME NEW d \in Servers PROVE Undisturbed(d)
  <2>1. d \in Pids /\ d # next_pid
    BY EndpointsInt, IpcAssumption, TasksAssumption
       DEF Servers, ServersInv, IpcInv, TasksInv, TasksTypeOK
  <2>2. ASSUME NEW p, Sleeps(tasks, p, IpcCall(d))
        PROVE  frame'[p] = frame[p] /\ mem'[p] = mem[p]
    <3>1. p \in Pids /\ p # next_pid
      BY <2>2, SleeperFacts DEF ServersInv, IpcInv, Pids, TasksInv, TasksTypeOK
    <3> QED
      BY <3>1 DEF Quiet
  <2>3. Busy(d)' <=> Busy(d)
    BY DEF Quiet, Busy
  <2> QED
    BY <2>1, <2>2, <2>3 DEF Undisturbed, Quiet
<1> QED
  BY <1>1, StepNowhere
-----------------------------------------------------------------------------
(* The steps of the system are such steps.  First the calls of clients.    *)

LEMMA ServerTypes ==
    ASSUME ServersInv
    PROVE  /\ IpcInv /\ TasksInv
           /\ eps \in [Endpoints -> Endpoint] /\ frame \in [Pids -> Frame]
           /\ mem \in [Pids -> Buffer] /\ Servers = Endpoints /\ Servers \subseteq Pids
           /\ \A e \in Servers : eps[e].owner = e
           /\ \A e \in Servers : ReceiverWaits(e) <=> Sleeps(tasks, e, IpcRecv(e))
           /\ \A e \in Servers : ReceiverWaits(e) => eps[e].pending = <<>>
<1>1. /\ IpcInv /\ TasksInv
      /\ eps \in [Endpoints -> Endpoint] /\ frame \in [Pids -> Frame]
      /\ mem \in [Pids -> Buffer] /\ Servers = Endpoints /\ Servers \subseteq Pids
  BY EndpointsInt DEF ServersInv, IpcInv, IpcTypeOK, Servers
<1>2. \A e \in Servers : eps[e].owner = e
  BY DEF ServersInv, LoopOK
<1> QED
  BY <1>1, <1>2 DEF IpcInv, Receivers, ReceiverWaits

(* ipc_call, the server waiting.                                           *)
LEMMA CallWakeServed ==
    ASSUME ServersInv, NEW e \in Servers, NEW w \in Words, current \notin Servers,
           SysIpcCallWake(e, w, 0), pc' = pc
    PROVE  ServersInv' /\ UartKept /\ Sync!SyncNext
<1>1. /\ CanCall(e) /\ ReceiverWaits(e) /\ WakeReceiver(e) /\ eps[e].owner = e
      /\ next_pid' = next_pid /\ reports' = reports /\ mem' = mem
      /\ eps' = [eps EXCEPT ![e].waiting_receiver = NoPid]
      /\ frame' = [frame EXCEPT ![current] = SavedCall(w, 0),
                                ![e] = SetMessage(@, current, w)]
  BY ServerTypes DEF SysIpcCallWake
<1>2. /\ IpcInv /\ TasksInv /\ e \in Endpoints
      /\ eps \in [Endpoints -> Endpoint] /\ frame \in [Pids -> Frame]
      /\ Servers = Endpoints
  BY ServerTypes
<1>3. current \in Pids \ Servers /\ e \in Pids /\ current # e
  BY <1>1, <1>2, CallerPid, ServerTypes DEF CanCall
<1>4. IpcInv'
  <2>1. 0 \in Lens
    BY WordTypes
  <2> QED
    BY <1>2, <2>1, CallWakeInv
<1>5. \A p, v : Sleeps(tasks', p, v) <=>
         (Sleeps(tasks, p, v) /\ p # e) \/ (p = current /\ v = IpcCall(e))
  BY <1>1, <1>2, WakeReceiverStep
<1>6. /\ \A d \in Servers \ {e} : eps'[d] = eps[d]
      /\ eps'[e].owner = eps[e].owner /\ eps'[e].pending = eps[e].pending
      /\ eps'[e].has_buffered = eps[e].has_buffered
  BY <1>1, <1>2 DEF Endpoint
<1>7. /\ \A p \in Pids \ {current, e} : frame'[p] = frame[p] /\ mem'[p] = mem[p]
      /\ frame'[current] = SavedCall(w, 0)
      /\ frame'[e] = SetMessage(frame[e], current, w)
  BY <1>1, <1>2, <1>3
<1>8. /\ SavedCall(w, 0).words = w /\ SavedCall(w, 0).a6 = 0
      /\ SetMessage(frame[e], current, w).from = current
      /\ SetMessage(frame[e], current, w).words = w
  <2>1. frame[e] \in Frame /\ e \in Pids
    BY <1>2, <1>3
  <2>2. /\ SetMessage(frame[e], current, w).from = current
        /\ SetMessage(frame[e], current, w).words = w
    BY <1>3, <2>1 DEF SetMessage, Frame
  <2> QED
    BY <2>2 DEF SavedCall
<1>9. Sleeps(tasks, e, IpcRecv(e)) /\ eps[e].pending = <<>>
  BY <1>1, ServerTypes
<1>10. Handed(e, w, 0)
  BY <1>3, <1>5, <1>6, <1>7, <1>8, <1>9 DEF Handed
<1> QED
  BY <1>4, <1>10, HandedOK

(* ipc_call, the server busy.                                              *)
LEMMA CallQueueServed ==
    ASSUME ServersInv, NEW e \in Servers, NEW w \in Words, current \notin Servers,
           SysIpcCallQueue(e, w, 0), pc' = pc
    PROVE  ServersInv' /\ UartKept /\ Sync!SyncNext
<1> DEFINE msg == [sender |-> current, words |-> w, buf_len |-> 0]
<1>1. /\ CanCall(e) /\ JustBlock(Block(tasks, Me, IpcCall(e)))
      /\ next_pid' = next_pid /\ reports' = reports /\ mem' = mem
      /\ eps' = [eps EXCEPT ![e].pending = Push(@, msg)]
      /\ frame' = [frame EXCEPT ![current] = SavedCall(w, 0)]
  BY DEF SysIpcCallQueue, Calling
<1>2. /\ IpcInv /\ TasksInv /\ e \in Endpoints
      /\ eps \in [Endpoints -> Endpoint] /\ frame \in [Pids -> Frame]
      /\ Servers = Endpoints
  BY ServerTypes
<1>3. /\ current \in Pids \ Servers /\ current # IdlePid
      /\ Len(eps[e].pending) # MsgQueueSize
  BY <1>1, <1>2, CallerPid DEF CanCall, QueueFull
<1>4. IpcInv'
  <2>1. 0 \in Lens
    BY WordTypes
  <2> QED
    BY <1>2, <2>1, CallQueueInv
<1>5. \A p, v : Sleeps(tasks', p, v) <=>
         Sleeps(tasks, p, v) \/ (p = current /\ v = IpcCall(e))
  <2>1. IpcCall(e) \in WaitChannel /\ Foreign(IpcCall(e))
    BY <1>2, ChannelsDiffer, EndpointsInt
  <2> QED
    BY <1>1, <1>2, <1>3, <2>1, JustBlockStep
<1>6. /\ msg \in Message /\ msg.sender = current /\ msg.words = w /\ msg.buf_len = 0
  BY <1>3, WordTypes DEF Message
<1> HIDE DEF msg
<1>7. /\ \A d \in Servers \ {e} : eps'[d] = eps[d]
      /\ eps'[e].owner = eps[e].owner /\ eps'[e].recv_buf = eps[e].recv_buf
      /\ eps'[e].pending = Push(eps[e].pending, msg)
      /\ eps'[e].has_buffered = eps[e].has_buffered
      /\ eps'[e].copy_buf = eps[e].copy_buf
  BY <1>1, <1>2 DEF Endpoint
<1>8. /\ \A p \in Pids \ {current} : frame'[p] = frame[p] /\ mem'[p] = mem[p]
      /\ frame'[current] = SavedCall(w, 0)
  BY <1>1, <1>2, <1>3
<1>9. SavedCall(w, 0).words = w /\ SavedCall(w, 0).a6 = 0
  BY DEF SavedCall
<1>10. PutInQueue(e, w, 0)
  BY <1>3, <1>5, <1>6, <1>7, <1>8, <1>9 DEF PutInQueue
<1> QED
  BY <1>4, <1>10, PutInQueueOK

(* ipc_call_buf, the server waiting with its whole buffer lent: what it    *)
(* finds in its buffer is what the client sent.                            *)
LEMMA CallBufWakeServed ==
    ASSUME ServersInv, Fs \in Servers, NEW w \in Words, NEW b \in Buffer,
           current \notin Servers, SysIpcCallBufWake(Fs, w, b, TRUE), pc' = pc
    PROVE  ServersInv' /\ UartKept /\ Sync!SyncNext
<1> DEFINE e == Fs
           out == Prefix(b, eps[e].recv_buf)
<1>1. /\ CanCall(e) /\ ReceiverWaits(e) /\ WakeReceiver(e) /\ eps[e].owner = e
      /\ next_pid' = next_pid /\ reports' = reports
      /\ eps' = [eps EXCEPT ![e].waiting_receiver = NoPid,
                            ![e].copy_buf = CopiedIn(e, b),
                            ![e].recv_buf = 0]
      /\ frame' = [frame EXCEPT
            ![current] = SavedCall(w, b.len),
            ![e] = [SetMessage(@, current, w) EXCEPT !.a5 = Got(out, TRUE)]]
      /\ mem' = [mem EXCEPT ![current] = b, ![e] = Written(@, out, TRUE)]
  BY ServerTypes DEF SysIpcCallBufWake, CanCallBuf
<1>2. /\ IpcInv /\ TasksInv /\ e \in Endpoints /\ mem \in [Pids -> Buffer]
      /\ eps \in [Endpoints -> Endpoint] /\ frame \in [Pids -> Frame]
      /\ Servers = Endpoints
  BY ServerTypes
<1>3. current \in Pids \ Servers /\ e \in Pids /\ current # e
  BY <1>1, <1>2, CallerPid, ServerTypes DEF CanCall
<1>4. IpcInv'
  BY <1>2, CallBufWakeInv
<1>5. \A p, v : Sleeps(tasks', p, v) <=>
         (Sleeps(tasks, p, v) /\ p # e) \/ (p = current /\ v = IpcCall(e))
  BY <1>1, <1>2, WakeReceiverStep
<1>6. Sleeps(tasks, e, IpcRecv(e)) /\ eps[e].pending = <<>>
  BY <1>1, ServerTypes
<1>7. /\ out \in Buffer /\ out.data = b.data /\ out.len = b.len /\ out = b
      /\ b.len \in Nat /\ b.len \in Lens
  <2>1. eps[e].recv_buf = BufSize /\ BufSize \in Lens
    BY <1>6, WordTypes DEF ServersInv, LoopOK
  <2>2. b.len \in 0 .. BufSize /\ BufSize \in Nat
    BY IpcAssumption DEF Buffer, Lens
  <2>3. /\ out \in Buffer /\ out.data = b.data
        /\ out.len = IF BufSize < b.len THEN BufSize ELSE b.len
    BY <2>1, BufferTypes
  <2>4. out.len = b.len
    BY <2>2, <2>3
  <2>5. out = b
    BY <2>3, <2>4 DEF Buffer
  <2> QED
    BY <2>2, <2>3, <2>4, <2>5 DEF Lens
<1>8. Got(out, TRUE) = b.len /\ (b.len > 0 => Written(mem[e], out, TRUE) = b)
  BY <1>7 DEF Got, Written
<1> HIDE DEF out, e
<1>9. /\ \A d \in Servers \ {e} : eps'[d] = eps[d]
      /\ eps'[e].owner = eps[e].owner /\ eps'[e].pending = eps[e].pending
      /\ eps'[e].has_buffered = eps[e].has_buffered
  BY <1>1, <1>2 DEF Endpoint
<1>10. /\ \A p \in Pids \ {current, e} : frame'[p] = frame[p] /\ mem'[p] = mem[p]
       /\ frame'[current] = SavedCall(w, b.len)
       /\ frame'[e] = [SetMessage(frame[e], current, w) EXCEPT !.a5 = Got(out, TRUE)]
       /\ mem'[current] = b /\ mem'[e] = Written(mem[e], out, TRUE)
  BY <1>1, <1>2, <1>3
<1>11. /\ SavedCall(w, b.len).words = w /\ SavedCall(w, b.len).a6 = b.len
       /\ frame'[e].from = current /\ frame'[e].words = w /\ frame'[e].a5 = b.len
  <2>1. frame[e] \in Frame
    BY <1>2, <1>3
  <2> DEFINE f == [SetMessage(frame[e], current, w) EXCEPT !.a5 = b.len]
  <2>2. f.from = current /\ f.words = w /\ f.a5 = b.len
    BY <1>3, <2>1 DEF SetMessage, Frame
  <2>3. frame'[e] = f
    BY <1>8, <1>10
  <2> HIDE DEF f
  <2> QED
    BY <2>2, <2>3 DEF SavedCall
<1>12. e # Console
  BY DEF e, Fs, Console
<1>13. Handed(e, w, b.len)
  BY <1>3, <1>5, <1>6, <1>8, <1>9, <1>10, <1>11, <1>12 DEF Handed
<1>14. e \in Servers
  BY <1>2
<1> QED
  BY <1>4, <1>13, <1>14, HandedOK

(* ipc_call_buf, the server busy.                                          *)
LEMMA CallBufQueueServed ==
    ASSUME ServersInv, Fs \in Servers, NEW w \in Words, NEW b \in Buffer, b.len > 0,
           current \notin Servers, SysIpcCallBufQueue(Fs, w, b), pc' = pc
    PROVE  ServersInv' /\ UartKept /\ Sync!SyncNext
<1> DEFINE e == Fs
           msg == [sender |-> current, words |-> w, buf_len |-> b.len]
<1>1. /\ CanCall(e) /\ JustBlock(Block(tasks, Me, IpcCall(e)))
      /\ ~eps[e].has_buffered
      /\ next_pid' = next_pid /\ reports' = reports
      /\ eps' = [eps EXCEPT ![e].pending = Push(@, msg),
                            ![e].copy_buf = CopiedIn(e, b),
                            ![e].has_buffered = @ \/ b.len > 0]
      /\ frame' = [frame EXCEPT ![current] = SavedCall(w, b.len)]
      /\ mem' = [mem EXCEPT ![current] = b]
  BY DEF SysIpcCallBufQueue, Calling, CanCallBuf
<1>2. /\ IpcInv /\ TasksInv /\ e \in Endpoints /\ mem \in [Pids -> Buffer]
      /\ eps \in [Endpoints -> Endpoint] /\ frame \in [Pids -> Frame]
      /\ Servers = Endpoints
  BY ServerTypes
<1>3. /\ current \in Pids \ Servers /\ current # IdlePid
      /\ Len(eps[e].pending) # MsgQueueSize
      /\ b.len \in Lens /\ b.data \in Words
  BY <1>1, <1>2, CallerPid DEF CanCall, QueueFull, Buffer
<1>4. IpcInv'
  BY <1>2, CallBufQueueInv
<1>5. \A p, v : Sleeps(tasks', p, v) <=>
         Sleeps(tasks, p, v) \/ (p = current /\ v = IpcCall(e))
  <2>1. IpcCall(e) \in WaitChannel /\ Foreign(IpcCall(e))
    BY <1>2, ChannelsDiffer, EndpointsInt
  <2> QED
    BY <1>1, <1>2, <1>3, <2>1, JustBlockStep
<1>6. /\ msg \in Message /\ msg.sender = current /\ msg.words = w /\ msg.buf_len = b.len
  BY <1>3, WordTypes DEF Message
<1>7. CopiedIn(e, b) = b.data
  BY DEF CopiedIn
<1>8. e # Console
  BY DEF e, Fs, Console
<1> HIDE DEF msg, e
<1>9. /\ \A d \in Servers \ {e} : eps'[d] = eps[d]
      /\ eps'[e].owner = eps[e].owner /\ eps'[e].recv_buf = eps[e].recv_buf
      /\ eps'[e].pending = Push(eps[e].pending, msg)
      /\ eps'[e].copy_buf = b.data
  BY <1>1, <1>2, <1>7 DEF Endpoint
<1>10. /\ \A p \in Pids \ {current} : frame'[p] = frame[p] /\ mem'[p] = mem[p]
       /\ frame'[current] = SavedCall(w, b.len) /\ mem'[current] = b
  BY <1>1, <1>2, <1>3
<1>11. SavedCall(w, b.len).words = w /\ SavedCall(w, b.len).a6 = b.len
  BY DEF SavedCall
<1>12. PutInQueue(e, w, b.len)
  BY <1>1, <1>3, <1>5, <1>6, <1>8, <1>9, <1>10, <1>11 DEF PutInQueue
<1>13. e \in Servers
  BY <1>2
<1> QED
  BY <1>4, <1>12, <1>13, PutInQueueOK

(* ipc_call_buf with a buffer that is not mapped: copy_buf is scribbled    *)
(* over, but only when no queued message has its data there.               *)
LEMMA CallBufFaultServed ==
    ASSUME ServersInv, Fs \in Servers, SysIpcCallBufFault(Fs), pc' = pc
    PROVE  /\ ServersInv' /\ UartKept
           /\ UNCHANGED <<CallersQueued, CallerServed, CallersAsleep>>
<1> DEFINE e == Fs
<1>1. /\ eps[e].has_buffered => ReceiverWaits(e)
      /\ eps' = [eps EXCEPT ![e].copy_buf = NoPayload]
      /\ tasks' = tasks /\ frame' = frame /\ mem' = mem
  BY DEF SysIpcCallBufFault, CanCallBuf, tasksVars
<1>2. /\ IpcInv /\ eps \in [Endpoints -> Endpoint] /\ Servers = Endpoints
      /\ \A d \in Servers : ReceiverWaits(d) => eps[d].pending = <<>>
  BY ServerTypes
<1>3. IpcInv'
  BY <1>2, CallBufFaultInv
<1>4. \A i \in DOMAIN eps[e].pending : ~(eps[e].pending[i].buf_len > 0)
  <2>1. OneBuffered(eps[e])
    BY <1>2 DEF IpcInv
  <2>2. CASE ~eps[e].has_buffered
    BY <2>1, <2>2 DEF OneBuffered
  <2>3. CASE eps[e].has_buffered
    <3>1. eps[e].pending = <<>>
      BY <1>1, <1>2, <2>3
    <3> QED
      BY <3>1
  <2> QED
    BY <2>2, <2>3
<1> HIDE DEF e
<1>5. /\ \A d \in Servers :
            /\ eps'[d].pending = eps[d].pending /\ eps'[d].owner = eps[d].owner
            /\ eps'[d].has_buffered = eps[d].has_buffered
            /\ eps'[d].recv_buf = eps[d].recv_buf
            /\ d # e => eps'[d].copy_buf = eps[d].copy_buf
  BY <1>1, <1>2 DEF Endpoint
<1>6. Quiet
  BY <1>1, <1>4, <1>5 DEF Quiet
<1>7. \A d \in Servers : LoopOK(d)'
  BY <1>1, <1>5 DEF ServersInv, LoopOK
<1>8. pc' \in [Servers -> {"recv", "serve", "wait", "answer"}]
  BY DEF ServersInv
<1>9. UartKept
  BY <1>1 DEF UartKept
<1> QED
  BY <1>3, <1>6, <1>7, <1>8, <1>9, QuietOK

(* The traps of module Tasks, by a client or the timer.                    *)
LEMMA OtherTrapsServed ==
    ASSUME ServersInv, OtherTraps, pc' = pc
    PROVE  /\ ServersInv'
           /\ UNCHANGED <<CallersQueued, CallerServed, CallersAsleep>>
           /\ \A p, w : Sleeps(tasks', p, w) <=> Sleeps(tasks, p, w)
<1>1. /\ IpcInv /\ TasksInv /\ frame \in [Pids -> Frame] /\ mem \in [Pids -> Buffer]
  BY ServerTypes
<1>2. IpcInv'
  BY <1>1, OtherTrapsInv
<1>3. TasksNext /\ eps' = eps
  BY DEF OtherTraps, TasksNext, ipcVars, Pids
<1>4. \A p, w : Sleeps(tasks', p, w) <=> Sleeps(tasks, p, w)
  BY <1>1, <1>3, TrapSleepers
<1>5. \A p \in Pids \ {next_pid} : frame'[p] = frame[p] /\ mem'[p] = mem[p]
  BY <1>1 DEF OtherTraps, ipcVars
<1>6. Quiet
  BY <1>3, <1>4, <1>5 DEF Quiet
<1>7. \A d \in Servers : LoopOK(d)'
  BY <1>3, <1>4 DEF ServersInv, LoopOK
<1>8. pc' \in [Servers -> {"recv", "serve", "wait", "answer"}]
  BY DEF ServersInv
<1> QED
  BY <1>2, <1>4, <1>6, <1>7, <1>8, QuietOK

(* ipc_recv by the console, and ipc_recv_buf by the file server.           *)
LEMMA ConsoleTakes ==
    ASSUME ServersInv, Console \in Servers, current = Console,
           pc[Console] = "recv", pc' = [pc EXCEPT ![Console] = "serve"],
           SysIpcRecvTake(Console)
    PROVE  ServersInv' /\ UartKept /\ Sync!SyncNext
<1> DEFINE e == Console
           q == eps[e].pending
<1>1. /\ q # <<>> /\ tasks' = tasks /\ mem' = mem
      /\ eps' = [eps EXCEPT ![e].pending = Tail(@)]
      /\ frame' = [frame EXCEPT ![current] = SetMessage(@, Head(q).sender, Head(q).words)]
  BY DEF SysIpcRecvTake, tasksVars
<1>2. /\ IpcInv /\ e \in Endpoints /\ e \in Pids /\ current = e
      /\ eps \in [Endpoints -> Endpoint] /\ frame \in [Pids -> Frame]
      /\ Servers = Endpoints /\ q \in Seq(Message)
      /\ FlagOK(e) /\ QueueOK(e) /\ ClientsOK(e)
      /\ pc[e] = "recv" /\ pc' = [pc EXCEPT ![e] = "serve"]
  BY ServerTypes DEF Endpoint, ServersInv
<1>3. IpcInv'
  BY <1>2, RecvTakeInv
<1>4. Head(q) = q[1] /\ 1 \in DOMAIN q
  BY <1>1, <1>2, Popped
<1>5. \A i \in DOMAIN q : ~(q[i].buf_len > 0)
  BY <1>2 DEF QueueOK, SentBySleeper, ClientsOK
<1>6. ~eps[e].has_buffered
  BY <1>2, <1>5 DEF FlagOK
<1> HIDE DEF e
<1>7. /\ \A d \in Servers \ {e} : eps'[d] = eps[d]
      /\ eps'[e].owner = eps[e].owner /\ eps'[e].pending = Tail(q)
      /\ eps'[e].has_buffered = eps[e].has_buffered
      /\ eps'[e].copy_buf = eps[e].copy_buf
  BY <1>1, <1>2 DEF Endpoint
<1> HIDE DEF q
<1>8. /\ \A p \in Pids \ {e} : frame'[p] = frame[p] /\ mem'[p] = mem[p]
      /\ frame'[e] = SetMessage(frame[e], q[1].sender, q[1].words)
  BY <1>1, <1>2, <1>4
<1>9. frame'[e].from = q[1].sender /\ frame'[e].words = q[1].words
  <2>1. frame[e] \in Frame
    BY <1>2
  <2> QED
    BY <1>8, <2>1 DEF SetMessage, Frame
<1>10. ~(q[1].buf_len > 0)
  BY <1>4, <1>5
<1>11. TakenFromQueue(e)
  BY <1>1, <1>2, <1>6, <1>7, <1>8, <1>9, <1>10 DEF TakenFromQueue, q
<1>12. e \in Servers
  BY <1>2
<1> QED
  BY <1>3, <1>11, <1>12, TakenFromQueueOK

LEMMA FsTakes ==
    ASSUME ServersInv, Fs \in Servers, current = Fs,
           pc[Fs] = "recv", pc' = [pc EXCEPT ![Fs] = "serve"],
           SysIpcRecvBufTake(Fs, BufSize, TRUE)
    PROVE  ServersInv' /\ UartKept /\ Sync!SyncNext
<1> DEFINE e == Fs
           q == eps[e].pending
           m == Head(q)
           whole == [data |-> eps[e].copy_buf, len |-> m.buf_len]
           out == Prefix(whole, BufSize)
<1>1. /\ q # <<>> /\ tasks' = tasks
      /\ eps' = [eps EXCEPT ![e].pending = Tail(@),
                            ![e].has_buffered = @ /\ m.buf_len = 0]
      /\ frame' = [frame EXCEPT ![current] =
                      [SetMessage(@, m.sender, m.words) EXCEPT !.a5 = Got(out, TRUE)]]
      /\ mem' = [mem EXCEPT ![current] = Written(@, out, TRUE)]
  BY DEF SysIpcRecvBufTake, tasksVars
<1>2. /\ IpcInv /\ e \in Endpoints /\ e \in Pids /\ current = e
      /\ eps \in [Endpoints -> Endpoint] /\ frame \in [Pids -> Frame]
      /\ mem \in [Pids -> Buffer]
      /\ Servers = Endpoints /\ q \in Seq(Message) /\ eps[e].copy_buf \in Words
      /\ pc[e] = "recv" /\ pc' = [pc EXCEPT ![e] = "serve"]
  BY ServerTypes DEF Endpoint
<1>3. IpcInv'
  <2>1. BufSize \in Lens
    BY WordTypes
  <2> QED
    BY <1>2, <2>1, RecvBufTakeInv
<1>4. m = q[1] /\ m \in Message
  BY <1>1, <1>2, Popped
<1>5. m.buf_len \in Lens /\ m.buf_len \in 0 .. BufSize /\ BufSize \in Nat
  BY <1>4, IpcAssumption DEF Message, Lens
<1>6. whole \in Buffer /\ whole.data = eps[e].copy_buf /\ whole.len = m.buf_len
  BY <1>2, <1>5 DEF Buffer
<1>7. out.data = eps[e].copy_buf /\ out.len = m.buf_len
  <2>1. BufSize \in Lens /\ Junk \in Buffer
    BY WordTypes
  <2> HIDE DEF whole
  <2>2. /\ Prefix(whole, BufSize).data = whole.data
        /\ Prefix(whole, BufSize).len = IF BufSize < whole.len THEN BufSize ELSE whole.len
    BY <1>6, <2>1, BufferTypes
  <2> QED
    BY <1>5, <1>6, <2>2
<1>8. Got(out, TRUE) = m.buf_len /\ (m.buf_len > 0 => Written(mem[e], out, TRUE) = out)
  BY <1>5, <1>7 DEF Got, Written
<1> HIDE DEF out, whole, m
<1>9. /\ \A d \in Servers \ {e} : eps'[d] = eps[d]
      /\ eps'[e].owner = eps[e].owner /\ eps'[e].pending = Tail(q)
      /\ eps'[e].has_buffered = (eps[e].has_buffered /\ m.buf_len = 0)
      /\ eps'[e].copy_buf = eps[e].copy_buf
  <2> HIDE DEF e
  <2> QED
    BY <1>1, <1>2 DEF Endpoint
<1>10. eps'[e].has_buffered => eps[e].has_buffered /\ q[1].buf_len = 0
  BY <1>4, <1>9, Zenon
<1> HIDE DEF e, q
<1>11. /\ \A p \in Pids \ {e} : frame'[p] = frame[p] /\ mem'[p] = mem[p]
       /\ frame'[e] = [SetMessage(frame[e], m.sender, m.words) EXCEPT !.a5 = m.buf_len]
       /\ m.buf_len > 0 => mem'[e] = out
  BY <1>1, <1>2, <1>8
<1>12. /\ frame'[e].from = q[1].sender /\ frame'[e].words = q[1].words
       /\ frame'[e].a5 = q[1].buf_len
  <2>1. frame[e] \in Frame
    BY <1>2
  <2> QED
    BY <1>4, <1>11, <2>1 DEF SetMessage, Frame
<1>13. q[1].buf_len > 0 => mem'[e].data = eps[e].copy_buf /\ mem'[e].len = q[1].buf_len
  BY <1>4, <1>7, <1>11
<1>14. TakenFromQueue(e)
  BY <1>1, <1>2, <1>9, <1>10, <1>11, <1>12, <1>13 DEF TakenFromQueue, q
<1>15. e \in Servers
  BY <1>2
<1> QED
  BY <1>3, <1>14, <1>15, TakenFromQueueOK

(* A receive that blocks; the file server lends its whole buffer.          *)
LEMMA ServerBlocks ==
    ASSUME ServersInv, NEW e \in Servers, current = e, NEW a5 \in Lens,
           pc[e] = "recv", pc' = [pc EXCEPT ![e] = "serve"],
           \/ e = Console /\ SysIpcRecvBlock(e)
           \/ SysIpcRecvBufBlock(e, BufSize, a5)
    PROVE  /\ ServersInv' /\ UartKept
           /\ UNCHANGED <<CallersQueued, CallerServed, CallersAsleep>>
<1>1. /\ eps[e].pending = <<>> /\ JustBlock(Block(tasks, Me, IpcRecv(e)))
      /\ current # IdlePid
      /\ next_pid' = next_pid /\ reports' = reports /\ mem' = mem
      /\ \/ e = Console /\ eps' = [eps EXCEPT ![e].waiting_receiver = current]
         \/ eps' = [eps EXCEPT ![e].waiting_receiver = current, ![e].recv_buf = BufSize]
      /\ \E f : frame' = [frame EXCEPT ![current] = f]
  BY DEF SysIpcRecvBlock, SysIpcRecvBufBlock, CanRecv
<1>2. /\ IpcInv /\ e \in Endpoints /\ e \in Pids
      /\ eps \in [Endpoints -> Endpoint] /\ frame \in [Pids -> Frame]
      /\ Servers = Endpoints
  BY ServerTypes
<1>3. IpcInv'
  <2>1. BufSize \in Lens
    BY WordTypes
  <2> QED
    BY <1>2, <2>1, RecvBlockInv
<1>4. \A p, v : Sleeps(tasks', p, v) <=>
         Sleeps(tasks, p, v) \/ (p = e /\ v = IpcRecv(e))
  <2>1. IpcRecv(e) \in WaitChannel /\ Foreign(IpcRecv(e))
    BY <1>2, ChannelsDiffer, EndpointsInt
  <2> QED
    BY <1>1, <1>2, <2>1, JustBlockStep
<1>5. /\ \A d \in Servers \ {e} : eps'[d] = eps[d]
      /\ eps'[e].owner = eps[e].owner /\ eps'[e].pending = eps[e].pending
      /\ eps'[e].has_buffered = eps[e].has_buffered
      /\ e = Fs => eps'[e].recv_buf = BufSize
  <2>1. CASE e = Console /\ eps' = [eps EXCEPT ![e].waiting_receiver = current]
    <3>1. e # Fs
      BY <2>1 DEF Console, Fs
    <3> QED
      BY <1>2, <2>1, <3>1 DEF Endpoint
  <2>2. CASE eps' = [eps EXCEPT ![e].waiting_receiver = current, ![e].recv_buf = BufSize]
    BY <1>2, <2>2 DEF Endpoint
  <2> QED
    BY <1>1, <2>1, <2>2
<1>6. \A p \in Pids \ {e} : frame'[p] = frame[p] /\ mem'[p] = mem[p]
  BY <1>1, <1>2
<1>7. WentToSleep(e)
  BY <1>1, <1>4, <1>5, <1>6 DEF WentToSleep
<1> QED
  BY <1>3, <1>7, WentToSleepOK

(* The replies.                                                            *)
LEMMA ServerReplies ==
    ASSUME ServersInv, NEW e \in Servers, current = e, pc[e] # "recv",
           pc' = [pc EXCEPT ![e] = "recv"],
           NEW b \in Buffer, NEW w \in Words,
           SysIpcReply(frame[e].from, w) \/ SysIpcReplyBuf(frame[e].from, w, b)
    PROVE  ServersInv' /\ UartKept /\ Sync!SyncNext
<1> DEFINE c == frame[e].from
<1>1. /\ IpcInv /\ TasksInv /\ e \in Endpoints /\ e \in Pids
      /\ frame \in [Pids -> Frame] /\ mem \in [Pids -> Buffer]
  BY ServerTypes
<1>2. c \in Pids
  <2>1. Busy(e) /\ InHandOK(e)
    BY ActorAwake DEF Busy, ServersInv
  <2>2. Sleeps(tasks, c, IpcCall(e))
    BY <2>1 DEF InHandOK
  <2> QED
    BY <1>1, <2>2, SleeperFacts DEF Pids
<1>3. SysIpcReply(c, w) \/ SysIpcReplyBuf(c, w, b)
  OBVIOUS
<1>4. IpcInv'
  <2> HIDE DEF c
  <2> QED
    BY <1>1, <1>2, <1>3, AnyReplyInv
<1>5. /\ current # IdlePid /\ AwaitsReply(c) /\ Answer(c)
      /\ \E f : frame' = [frame EXCEPT ![c] = f]
      /\ \E f : mem' = [mem EXCEPT ![c] = f] \/ mem' = mem
  <2> HIDE DEF c
  <2> QED
    BY <1>3 DEF SysIpcReply, SysIpcReplyBuf, Replied
<1>6. \A p, v : Sleeps(tasks', p, v) <=> Sleeps(tasks, p, v) /\ p # c
  BY <1>1, <1>5, AnswerStep
<1>7. \A p \in Pids \ {c} : frame'[p] = frame[p] /\ mem'[p] = mem[p]
  BY <1>1, <1>5
<1>8. eps' = eps
  BY <1>5 DEF Answer
<1>9. Answered(e)
  BY <1>6, <1>7, <1>8 DEF Answered
<1> QED
  BY <1>4, <1>9, AnsweredOK
-----------------------------------------------------------------------------
(* The UART.                                                               *)

(* The interrupt is unmasked while somebody sleeps for it, and only then.  *)
IrqOK == irq_enabled \in BOOLEAN /\ (irq_enabled <=> \E p : Sleeps(tasks, p, UartRx))

(* A step of the process table that concerns nobody in an IPC call.        *)
LEMMA TableStep ==
    ASSUME ServersInv, TasksInv', next_pid' = next_pid,
           eps' = eps, frame' = frame, mem' = mem,
           \A p, w : w # UartRx => (Sleeps(tasks', p, w) <=> Sleeps(tasks, p, w)),
           \A d \in Servers : pc'[d] = "recv" <=> pc[d] = "recv",
           pc' \in [Servers -> {"recv", "serve", "wait", "answer"}],
           \A d \in Servers : LoopOK(d)'
    PROVE  ServersInv' /\ UNCHANGED <<CallersQueued, CallerServed, CallersAsleep>>
<1>1. /\ IpcInv /\ Servers = Endpoints
  BY ServerTypes
<1>2. \A d \in Servers : \A p :
         /\ Sleeps(tasks', p, IpcCall(d)) <=> Sleeps(tasks, p, IpcCall(d))
         /\ Sleeps(tasks', p, IpcRecv(d)) <=> Sleeps(tasks, p, IpcRecv(d))
  BY UartChannels
<1>3. Receivers(tasks', eps')
  <2>1. /\ \A d \in Endpoints :
              eps'[d].waiting_receiver = eps'[d].owner => eps'[d].pending = <<>>
        /\ Receivers(tasks, eps)
    BY <1>1 DEF IpcInv, Receivers
  <2> QED
    BY <1>1, <1>2, <2>1, ReceiversKept
<1>4. IpcInv'
  BY <1>1, <1>3, IpcInvNext DEF IpcInv, IpcTypeOK
<1>5. Quiet
  BY <1>2 DEF Quiet
<1> QED
  BY <1>4, <1>5, QuietOK

(* The console looks at the FIFO, or a character arrives.                  *)
LEMMA NoKernelStep ==
    ASSUME ServersInv, UNCHANGED kernelVars,
           pc' = pc \/ (/\ Console \in Servers /\ pc[Console] = "serve" /\ current = Console
                        /\ \E l \in {"wait", "answer"} : pc' = [pc EXCEPT ![Console] = l])
    PROVE  /\ ServersInv' /\ UartKept
           /\ UNCHANGED <<CallersQueued, CallerServed, CallersAsleep>>
<1>1. /\ UNCHANGED tasksVars /\ tasks' = tasks /\ next_pid' = next_pid
      /\ eps' = eps /\ frame' = frame /\ mem' = mem
  BY DEF kernelVars, tasksVars, ipcVars
<1>2. TasksInv'
  BY <1>1, ServerTypes, StutterStep
<1>3. pc \in [Servers -> {"recv", "serve", "wait", "answer"}]
  BY DEF ServersInv
<1>4. /\ pc' \in [Servers -> {"recv", "serve", "wait", "answer"}]
      /\ \A d \in Servers : pc'[d] = "recv" <=> pc[d] = "recv"
      /\ \A d \in Servers : d # Console \/ d # current => pc'[d] = pc[d]
  BY <1>3
<1>5. ASSUME NEW d \in Servers PROVE LoopOK(d)'
  <2>1. LoopOK(d)
    BY DEF ServersInv
  <2>2. CASE pc'[d] = pc[d]
    BY <1>1, <2>1, <2>2 DEF LoopOK
  <2>3. CASE d = Console /\ d = current
    <3>1. \A w : ~Sleeps(tasks, d, w)
      BY <2>3, ActorAwake
    <3>2. d # Fs
      BY <2>3 DEF Console, Fs
    <3> QED
      BY <1>1, <1>4, <2>1, <3>1, <3>2 DEF LoopOK
  <2> QED
    BY <1>4, <2>2, <2>3
<1>6. UartKept
  BY <1>1 DEF UartKept
<1> QED
  BY <1>1, <1>2, <1>4, <1>5, <1>6, TableStep

(* SYS_IRQ_WAIT: the console goes to sleep in its loop.                    *)
LEMMA IrqWaitStep ==
    ASSUME ServersInv, Console \in Servers, current = Console,
           pc[Console] = "wait", pc' = [pc EXCEPT ![Console] = "serve"],
           SysIrqWait, UNCHANGED ipcVars
    PROVE  /\ ServersInv' /\ IrqOK'
           /\ UNCHANGED <<CallersQueued, CallerServed, CallersAsleep>>
<1>1. /\ Schedule(Block(tasks, SlotOf(tasks, current), UartRx))
      /\ runnable_count' = SaturatingSub(runnable_count)
      /\ irq_enabled' = TRUE /\ next_pid' = next_pid /\ reports' = reports
      /\ eps' = eps /\ frame' = frame /\ mem' = mem
  BY DEF SysIrqWait, ipcVars
<1>2. /\ TasksInv /\ current # IdlePid /\ UartRx \in WaitChannel /\ Foreign(UartRx)
  BY ServerTypes, ChannelsDiffer DEF Console, IdlePid
<1>3. /\ TasksInv'
      /\ \A p, w : Sleeps(tasks', p, w) <=>
            Sleeps(tasks, p, w) \/ (p = current /\ w = UartRx)
  BY <1>1, <1>2, BlockStep
<1>4. pc \in [Servers -> {"recv", "serve", "wait", "answer"}]
  BY DEF ServersInv
<1>5. /\ pc' \in [Servers -> {"recv", "serve", "wait", "answer"}]
      /\ \A d \in Servers : pc'[d] = "recv" <=> pc[d] = "recv"
      /\ \A d \in Servers : d # Console => pc'[d] = pc[d]
      /\ pc'[Console] = "serve"
  BY <1>4
<1>6. ASSUME NEW d \in Servers PROVE LoopOK(d)'
  <2>1. LoopOK(d)
    BY DEF ServersInv
  <2>2. \A w : Sleeps(tasks', d, w) => Sleeps(tasks, d, w) \/ d = Console
    BY <1>3
  <2>3. d = Console => d # Fs
    BY DEF Console, Fs
  <2> QED
    BY <1>1, <1>5, <2>1, <2>2, <2>3 DEF LoopOK
<1>7. IrqOK'
  BY <1>1, <1>3 DEF IrqOK
<1>8. \A p, w : w # UartRx => (Sleeps(tasks', p, w) <=> Sleeps(tasks, p, w))
  BY <1>3
<1> QED
  BY <1>1, <1>3, <1>5, <1>6, <1>7, <1>8, TableStep

(* The external interrupt.                                                 *)
LEMMA ExternalStep ==
    ASSUME ServersInv, External, UNCHANGED ipcVars, pc' = pc
    PROVE  /\ ServersInv' /\ IrqOK'
           /\ UNCHANGED <<CallersQueued, CallerServed, CallersAsleep>>
<1> DEFINE S == {s \in Slots : WaitsForUart(s)}
<1>1. /\ irq_enabled' = FALSE /\ Schedule(UartWoken)
      /\ runnable_count' = runnable_count + Cardinality(S)
      /\ next_pid' = next_pid /\ reports' = reports
      /\ eps' = eps /\ frame' = frame /\ mem' = mem
  BY DEF External, ipcVars
<1>2. TasksInv
  BY ServerTypes
<1>3. Awoken(tasks, UartWoken, S)
  BY DEF Awoken, UartWoken, WaitsForUart
<1>4. /\ TasksInv'
      /\ \A p, w : Sleeps(tasks', p, w) <=>
            Foreign(w) /\ \E s \in Slots \ S : tasks[s].pid = p /\ tasks[s].wait = w
  <2> HIDE DEF S
  <2> QED
    BY <1>1, <1>2, <1>3, InterruptStep
<1>5. SleepsOnChannel(tasks)
  BY <1>2 DEF TasksInv, TableOK
<1>6. \A s \in Slots : tasks[s].wait = UartRx <=> s \in S
  <2>1. UartRx # NoWait
    BY DEF UartRx, NoWait
  <2> QED
    BY <1>5, <2>1 DEF SleepsOnChannel, WaitsForUart
<1>7. /\ \A p, w : w # UartRx => (Sleeps(tasks', p, w) <=> Sleeps(tasks, p, w))
      /\ \A p : ~Sleeps(tasks', p, UartRx)
  <2> HIDE DEF S
  <2> QED
    BY <1>4, <1>6 DEF Sleeps
<1>8. IrqOK'
  BY <1>1, <1>7 DEF IrqOK
<1>9. ASSUME NEW d \in Servers PROVE LoopOK(d)'
  <2>1. LoopOK(d) /\ \A w : Sleeps(tasks', d, w) => Sleeps(tasks, d, w)
    BY <1>7 DEF ServersInv
  <2> QED
    BY <1>1, <2>1 DEF LoopOK
<1>10. pc' \in [Servers -> {"recv", "serve", "wait", "answer"}]
  BY DEF ServersInv
<1> QED
  BY <1>1, <1>4, <1>7, <1>8, <1>9, <1>10, TableStep

(* IrqOK is IrqArmedWhileAsleep.                                           *)
LEMMA IrqArmed ==
    ASSUME ServersInv, IrqOK
    PROVE  IrqArmedWhileAsleep
<1>1. SleepsOnChannel(tasks)
  BY ServerTypes DEF TasksInv, TableOK
<1>2. UartRx # NoWait /\ Foreign(UartRx)
  BY ChannelsDiffer DEF UartRx, NoWait
<1>3. (\E p : Sleeps(tasks, p, UartRx)) <=> \E s \in Slots : WaitsForUart(s)
  BY <1>1, <1>2 DEF Sleeps, SleepsOnChannel, WaitsForUart
<1> QED
  BY <1>3 DEF IrqOK, IrqArmedWhileAsleep
-----------------------------------------------------------------------------
(* All steps.                                                              *)

SyncStep ==
    Sync!SyncNext \/ UNCHANGED <<CallersQueued, CallerServed, CallersAsleep>>

LEMMA IrqKept ==
    ASSUME IrqOK, UartKept, irq_enabled' = irq_enabled
    PROVE  IrqOK'
BY DEF IrqOK, UartKept

LEMMA ServersStep ==
    ASSUME ServersInv, IrqOK, ServersNext
    PROVE  ServersInv' /\ IrqOK' /\ SyncStep
<1> USE DEF SyncStep
<1>1. /\ OpPlain \in Words /\ OpRead \in Words /\ Junk \in Buffer
      /\ \A w \in {OpPlain, OpRead} : w \in Words
  BY ServersAssumption, WordTypes
<1>2. CASE TimerTrap
  <2>1. OtherTraps /\ pc' = pc /\ irq_enabled' = irq_enabled
    BY <1>2 DEF TimerTrap, OtherTraps, uartVars, serverVars
  <2> QED
    BY <2>1, OtherTrapsServed, IrqKept DEF UartKept
<1>3. CASE ExternalTrap
  BY <1>3, ExternalStep DEF ExternalTrap, serverVars
<1>4. CASE Typing
  <2>1. UNCHANGED kernelVars /\ pc' = pc /\ irq_enabled' = irq_enabled
    BY <1>4 DEF Typing, CharArrives, kernelVars, serverVars
  <2> QED
    BY <2>1, NoKernelStep, IrqKept
<1>5. CASE ConsoleStep
  <2>1. Console \in Servers
    BY <1>5 DEF ConsoleStep
  <2>2. CASE ConsoleRecv
    <3>1. /\ current = Console /\ pc[Console] = "recv" /\ irq_enabled' = irq_enabled
          /\ pc' = [pc EXCEPT ![Console] = "serve"]
          /\ SysIpcRecvTake(Console) \/ SysIpcRecvBlock(Console)
      BY <2>2 DEF ConsoleRecv, Goto, uartVars
    <3>2. CASE SysIpcRecvTake(Console)
      BY <2>1, <3>1, <3>2, ConsoleTakes, IrqKept
    <3>3. CASE SysIpcRecvBlock(Console)
      <4>1. 0 \in Lens
        BY WordTypes
      <4> QED
        BY <2>1, <3>1, <3>3, <4>1, ServerBlocks, IrqKept
    <3> QED
      BY <3>1, <3>2, <3>3
  <2>3. ASSUME NEW l, l # "recv", ConsoleReply(l) PROVE ServersInv' /\ IrqOK' /\ SyncStep
    <3>1. /\ current = Console /\ pc[Console] # "recv" /\ irq_enabled' = irq_enabled
          /\ pc' = [pc EXCEPT ![Console] = "recv"]
          /\ SysIpcReply(frame[Console].from, OpPlain)
      BY <2>3 DEF ConsoleReply, Goto, uartVars
    <3> QED
      BY <1>1, <2>1, <3>1, ServerReplies, IrqKept
  <2>4. CASE ConsoleWrite
    BY <2>3, <2>4 DEF ConsoleWrite
  <2>5. CASE ConsoleAnswer
    BY <2>3, <2>5 DEF ConsoleAnswer
  <2>6. CASE ConsoleGetc
    <3>1. /\ UNCHANGED kernelVars /\ pc[Console] = "serve" /\ current = Console
          /\ irq_enabled' = irq_enabled
          /\ \E l \in {"wait", "answer"} : pc' = [pc EXCEPT ![Console] = l]
      BY <2>6 DEF ConsoleGetc, Goto
    <3> QED
      BY <2>1, <3>1, NoKernelStep, IrqKept
  <2>7. CASE ConsoleWait
    BY <2>1, <2>7, IrqWaitStep DEF ConsoleWait, Goto
  <2> QED
    BY <1>5, <2>2, <2>4, <2>5, <2>6, <2>7 DEF ConsoleStep
<1>6. CASE FsStep
  <2>1. Fs \in Servers
    BY <1>6 DEF FsStep
  <2>2. CASE FsRecv
    <3>1. /\ current = Fs /\ pc[Fs] = "recv" /\ irq_enabled' = irq_enabled
          /\ pc' = [pc EXCEPT ![Fs] = "serve"]
          /\ \/ SysIpcRecvBufTake(Fs, BufSize, TRUE)
             \/ \E a5 \in Lens : SysIpcRecvBufBlock(Fs, BufSize, a5)
      BY <2>2 DEF FsRecv, Goto, uartVars
    <3>2. CASE SysIpcRecvBufTake(Fs, BufSize, TRUE)
      BY <2>1, <3>1, <3>2, FsTakes, IrqKept
    <3>3. ASSUME NEW a5 \in Lens, SysIpcRecvBufBlock(Fs, BufSize, a5)
          PROVE  ServersInv' /\ IrqOK' /\ SyncStep
      BY <2>1, <3>1, <3>3, ServerBlocks, IrqKept
    <3> QED
      BY <3>1, <3>2, <3>3
  <2>3. CASE FsServe
    <3>1. /\ current = Fs /\ pc[Fs] # "recv" /\ irq_enabled' = irq_enabled
          /\ pc' = [pc EXCEPT ![Fs] = "recv"]
          /\ \/ SysIpcReply(frame[Fs].from, OpPlain)
             \/ \E n \in Lens : \E b \in Filled(n) :
                   SysIpcReplyBuf(frame[Fs].from, OpPlain, b)
      BY <2>3 DEF FsServe, Goto, uartVars
    <3>2. CASE SysIpcReply(frame[Fs].from, OpPlain)
      BY <1>1, <2>1, <3>1, <3>2, ServerReplies, IrqKept
    <3>3. ASSUME NEW n \in Lens, NEW b \in Filled(n),
                 SysIpcReplyBuf(frame[Fs].from, OpPlain, b)
          PROVE  ServersInv' /\ IrqOK' /\ SyncStep
      <4>1. b \in Buffer
        BY ServersAssumption, WordTypes
      <4> QED
        BY <1>1, <2>1, <3>1, <3>3, <4>1, ServerReplies, IrqKept
    <3> QED
      BY <3>1, <3>2, <3>3
  <2> QED
    BY <1>6, <2>2, <2>3 DEF FsStep
<1>7. CASE ClientStep
  <2>1. current \notin Servers /\ pc' = pc /\ irq_enabled' = irq_enabled
    BY <1>7 DEF ClientStep, uartVars, serverVars
  <2>2. CASE Console \in Servers /\ ConsoleCall
    <3>1. PICK w \in {OpPlain, OpRead} :
             SysIpcCallWake(Console, w, 0) \/ SysIpcCallQueue(Console, w, 0)
      BY <2>2 DEF ConsoleCall
    <3> QED
      BY <1>1, <2>1, <2>2, <3>1, CallWakeServed, CallQueueServed, IrqKept
  <2>3. CASE Fs \in Servers /\ FsCall
    <3>1. CASE SysIpcCallWake(Fs, OpPlain, 0) \/ SysIpcCallQueue(Fs, OpPlain, 0)
      BY <1>1, <2>1, <2>3, <3>1, CallWakeServed, CallQueueServed, IrqKept
    <3>2. CASE SysIpcCallBufFault(Fs)
      BY <2>1, <2>3, <3>2, CallBufFaultServed, IrqKept
    <3>3. ASSUME NEW w \in {OpPlain, OpRead}, NEW n \in Lens \ {0}, NEW b \in Filled(n),
                 SysIpcCallBufWake(Fs, w, b, TRUE) \/ SysIpcCallBufQueue(Fs, w, b)
          PROVE  ServersInv' /\ IrqOK' /\ SyncStep
      <4>1. b \in Buffer
        BY ServersAssumption, WordTypes
      <4>2. b.len > 0
        BY IpcAssumption DEF Filled, Lens
      <4> QED
        BY <1>1, <2>1, <2>3, <3>3, <4>1, <4>2, CallBufWakeServed, CallBufQueueServed, IrqKept
    <3> QED
      BY <2>3, <3>1, <3>2, <3>3 DEF FsCall
  <2>4. CASE OtherTraps
    BY <2>1, <2>4, OtherTrapsServed, IrqKept DEF UartKept
  <2> QED
    BY <1>7, <2>2, <2>3, <2>4 DEF ClientStep
<1> QED
  BY <1>2, <1>3, <1>4, <1>5, <1>6, <1>7 DEF ServersNext

LEMMA ServersStutter ==
    ASSUME ServersInv, IrqOK, UNCHANGED allVars
    PROVE  ServersInv' /\ IrqOK' /\ SyncStep
<1>1. UNCHANGED kernelVars /\ pc' = pc /\ irq_enabled' = irq_enabled
  BY DEF allVars, uartVars, serverVars
<1> QED
  BY <1>1, NoKernelStep, IrqKept DEF SyncStep

(* The system starts with every server before its first receive.           *)
LEMMA ServersInitInv ==
    ASSUME ServersInit
    PROVE  /\ ServersInv /\ IrqOK
           /\ Sync!SyncInit
<1>1. /\ IpcInv /\ pc = [e \in Servers |-> "recv"] /\ irq_enabled = FALSE
      /\ eps = [e \in Endpoints |-> NewEndpoint(e)]
  BY IpcInitInv DEF ServersInit, IpcInit, UartInit
<1>2. \A p, w : ~Sleeps(tasks, p, w)
  <2>1. \A s \in Slots : tasks[s].wait = NoWait
    BY DEF ServersInit, TasksInit, NewTask, NoTask
  <2> QED
    BY <2>1, ChannelsDiffer DEF Sleeps
<1>3. ASSUME NEW e \in Servers
      PROVE  /\ pc[e] = "recv" /\ ~Busy(e)
             /\ eps[e].owner = e /\ eps[e].pending = <<>> /\ ~eps[e].has_buffered
  BY <1>1 DEF Busy, Servers, NewEndpoint
<1>4. ServersInv
  <2> SUFFICES ASSUME NEW e \in Servers PROVE EndpointOK(e)
    BY <1>1 DEF ServersInv, EndpointOK
  <2>1. QueueOK(e)
    BY <1>3 DEF QueueOK
  <2> QED
    BY <1>2, <1>3, <2>1 DEF EndpointOK, InHandOK, FlagOK, ClientsOK, LoopOK
<1>5. IrqOK
  BY <1>1, <1>2 DEF IrqOK
<1>6. /\ \A e \in Servers : CallersQueued[e] = <<>>
      /\ \A e \in Servers : CallerServed[e] = NoPid
      /\ \A e \in Servers : CallersAsleep[e] = {}
  <2> SUFFICES ASSUME NEW e \in Servers
               PROVE  CallersQueued[e] = <<>> /\ CallerServed[e] = NoPid /\ CallersAsleep[e] = {}
    OBVIOUS
  <2>1. /\ CallersQueued[e] = [i \in DOMAIN eps[e].pending |-> eps[e].pending[i].sender]
        /\ CallerServed[e] = IF Busy(e) THEN frame[e].from ELSE NoPid
        /\ CallersAsleep[e] = {p \in Pids : Sleeps(tasks, p, IpcCall(e))}
    BY Seen
  <2>2. CallersQueued[e] = [i \in {} |-> eps[e].pending[i].sender]
    BY <1>3, <2>1
  <2>3. CallersQueued[e] = <<>>
    BY <2>2
  <2>4. CallerServed[e] = NoPid
    BY <1>3, <2>1
  <2>5. CallersAsleep[e] = {}
    BY <1>2, <2>1
  <2> QED
    BY <2>3, <2>4, <2>5
<1>7. Sync!SyncInit
  BY <1>6 DEF Sync!SyncInit, CallersQueued, CallerServed, CallersAsleep, Servers
<1> QED
  BY <1>4, <1>5, <1>7

-----------------------------------------------------------------------------
(* The invariant holds in every state of the running system.               *)
THEOREM ServersInvariant == ServersSpec => [](ServersInv /\ IrqOK)
<1>1. ServersInit => ServersInv /\ IrqOK
  BY ServersInitInv
<1>2. ServersInv /\ IrqOK /\ [ServersNext]_allVars => (ServersInv /\ IrqOK)'
  BY ServersStep, ServersStutter
<1> QED
  BY <1>1, <1>2, PTL DEF ServersSpec

(* The kernel's invariants hold when the servers and their clients run on  *)
(* it with the UART.                                                       *)
THEOREM KernelInvariants ==
    ServersSpec => [](ReceiverRecorded /\ OneBufferedMessage /\ RunnableCountExact)
<1>1. ServersInv => ReceiverRecorded /\ OneBufferedMessage /\ RunnableCountExact
  BY ReceiversRecorded, OneBufferedAll DEF ServersInv, IpcInv, TasksInv
<1> QED
  BY <1>1, ServersInvariant, PTL

(* A character that arrives between the console's look at the FIFO and its *)
(* SYS_IRQ_WAIT is not slept through: the interrupt is unmasked in the     *)
(* same trap and stays so until it has woken the console.                  *)
THEOREM IrqIsArmed == ServersSpec => []IrqArmedWhileAsleep
BY ServersInvariant, IrqArmed, PTL

(* has_buffered is up only while a message with data is queued, for the    *)
(* receives that the two servers make.                                     *)
THEOREM FlagIsExact == ServersSpec => []HasBufferedExact
<1>1. ServersInv => HasBufferedExact
  BY DEF ServersInv, FlagOK, HasBufferedExact, Buffered, Servers
<1> QED
  BY <1>1, ServersInvariant, PTL

(* What a server works on, or will take from its queue, is what its client *)
(* sent, for any number of clients, queue length and buffer size.          *)
THEOREM RequestsAreIntact == ServersSpec => []RequestIntact
<1>1. ASSUME ServersInv, NEW e \in Servers, NEW p \in Pids, Serves(e, p)
      PROVE  /\ frame[e].words = frame[p].words
             /\ frame[p].a6 > 0 => frame[e].a5 = frame[p].a6 /\ mem[e] = mem[p]
  <2>1. Asleep(e, IpcRecv(e)) <=> Sleeps(tasks, e, IpcRecv(e))
    BY AsleepSleeps, EndpointsInt DEF Servers
  <2>2. Busy(e) /\ frame[e].from = p /\ InHandOK(e)
    BY <1>1, <2>1 DEF Serves, Busy, ServersInv
  <2> QED
    BY <2>2 DEF InHandOK
<1>2. ServersInv => RequestIntact
  BY <1>1 DEF ServersInv, QueueOK, SentBySleeper, RequestIntact, Queued
<1> QED
  BY <1>2, ServersInvariant, PTL

(* The kernel and the loops of the servers implement synchronous calls:    *)
(* every step is a step of SyncCall or leaves what it sees alone.          *)
THEOREM ServersImplementSyncCall == ServersSpec => ImplementsSyncCall
<1>1. ServersInit => Sync!SyncInit
  BY ServersInitInv
<1>2. ServersInv /\ IrqOK /\ [ServersNext]_allVars => [Sync!SyncNext]_(Sync!syncVars)
  <2>1. ServersInv /\ IrqOK /\ [ServersNext]_allVars => SyncStep
    BY ServersStep, ServersStutter
  <2> QED
    BY <2>1 DEF SyncStep, Sync!syncVars
<1> QED
  BY <1>1, <1>2, ServersInvariant, PTL DEF ServersSpec, ImplementsSyncCall, Sync!SyncSpec
-----------------------------------------------------------------------------
(* The characters.                                                         *)

Chars == 0 .. CharMod - 1

(* h in hand and q in the FIFO are what was typed after r up to t.         *)
Follow(h, q, t, r) ==
    LET k == IF h = NoChar THEN 0 ELSE 1
    IN  /\ Len(q) + k = (t - r) % CharMod
        /\ h # NoChar => h = (r + 1) % CharMod
        /\ \A i \in 1 .. Len(q) : q[i] = (r + i + k) % CharMod

CharsOK ==
    /\ rx \in Seq(Chars) /\ Len(rx) <= RxSize
    /\ typed \in Chars /\ read \in Chars /\ held \in Chars \cup {NoChar}
    /\ held # NoChar <=> Console \in Servers /\ pc[Console] = "answer"
    /\ Follow(held, rx, typed, read)

LEMMA CharModRange ==
    CharMod \in Nat /\ CharMod > 0 /\ RxSize \in Nat /\ RxSize + 1 < CharMod
BY UartAssumption

(* Remainders close to CharMod.                                            *)
LEMMA Remainder ==
    /\ \A x \in 0 .. CharMod - 1 : x % CharMod = x
    /\ \A x \in CharMod .. CharMod + CharMod - 1 : x % CharMod = x - CharMod
    /\ \A x \in (0 - CharMod) .. (0 - 1) : x % CharMod = x + CharMod
<1>1. \A x \in 0 .. CharMod - 1 : x % CharMod = x
  BY CharModRange
<1>2. \A x \in CharMod .. CharMod + CharMod - 1 : x % CharMod = x - CharMod
  BY CharModRange
<1>3. \A x \in (0 - CharMod) .. (0 - 1) : x % CharMod = x + CharMod
  BY CharModRange
<1> QED
  BY <1>1, <1>2, <1>3

(* One more character typed, or one more read.                             *)
LEMMA Distance ==
    ASSUME NEW t \in Chars, NEW r \in Chars, NEW n \in Nat, n = (t - r) % CharMod
    PROVE  /\ NextChar(t) \in Chars /\ NextChar(r) \in Chars
           /\ n + 1 < CharMod => /\ (NextChar(t) - r) % CharMod = n + 1
                                 /\ NextChar(t) = (r + (n + 1)) % CharMod
           /\ n > 0 => (t - NextChar(r)) % CharMod = n - 1
           /\ \A i \in 1 .. n : (NextChar(r) + (i - 1)) % CharMod = (r + i) % CharMod
<1>1. /\ t \in 0 .. CharMod - 1 /\ r \in 0 .. CharMod - 1
      /\ t \in Int /\ r \in Int /\ CharMod \in Nat /\ CharMod > 0
  BY CharModRange DEF Chars
<1>2. \/ t >= r /\ n = t - r
      \/ t < r /\ n = t - r + CharMod
  <2>1. CASE t >= r
    <3>1. t - r \in 0 .. CharMod - 1
      BY <1>1, <2>1
    <3> QED
      BY <2>1, <3>1, Remainder
  <2>2. CASE t < r
    <3>1. t - r \in (0 - CharMod) .. (0 - 1)
      BY <1>1, <2>2
    <3> QED
      BY <2>2, <3>1, Remainder
  <2> QED
    BY <1>1, <2>1, <2>2
<1>3. \A c \in 0 .. CharMod - 1 :
         /\ c + 1 < CharMod => NextChar(c) = c + 1
         /\ c + 1 = CharMod => NextChar(c) = 0
         /\ NextChar(c) \in 0 .. CharMod - 1
  <2> SUFFICES ASSUME NEW c \in 0 .. CharMod - 1
               PROVE  /\ c + 1 < CharMod => NextChar(c) = c + 1
                      /\ c + 1 = CharMod => NextChar(c) = 0
                      /\ NextChar(c) \in 0 .. CharMod - 1
    OBVIOUS
  <2>1. CASE c + 1 < CharMod
    <3>1. c + 1 \in 0 .. CharMod - 1
      BY <1>1, <2>1
    <3> QED
      BY <2>1, <3>1, Remainder DEF NextChar
  <2>2. CASE c + 1 = CharMod
    <3>1. c + 1 \in CharMod .. CharMod + CharMod - 1
      BY <1>1, <2>2
    <3>2. NextChar(c) = 0
      BY <1>1, <2>2, <3>1, Remainder DEF NextChar
    <3> QED
      BY <1>1, <2>2, <3>2
  <2> QED
    BY <1>1, <2>1, <2>2
<1>4. n + 1 < CharMod => /\ (NextChar(t) - r) % CharMod = n + 1
                         /\ NextChar(t) = (r + (n + 1)) % CharMod
  <2> SUFFICES ASSUME n + 1 < CharMod
               PROVE  /\ (NextChar(t) - r) % CharMod = n + 1
                      /\ NextChar(t) = (r + (n + 1)) % CharMod
    OBVIOUS
  <2>1. \/ NextChar(t) - r = n + 1 /\ n + 1 \in 0 .. CharMod - 1
        \/ /\ NextChar(t) - r = n + 1 - CharMod
           /\ NextChar(t) - r \in (0 - CharMod) .. (0 - 1)
    BY <1>1, <1>2, <1>3
  <2>2. \/ r + (n + 1) = NextChar(t) /\ NextChar(t) \in 0 .. CharMod - 1
        \/ /\ r + (n + 1) = NextChar(t) + CharMod
           /\ r + (n + 1) \in CharMod .. CharMod + CharMod - 1
    BY <1>1, <1>2, <1>3
  <2>3. (NextChar(t) - r) % CharMod = n + 1
    BY <1>1, <2>1, Remainder
  <2>4. NextChar(t) = (r + (n + 1)) % CharMod
    BY <1>1, <1>3, <2>2, Remainder
  <2> QED
    BY <2>3, <2>4
<1>5. n > 0 => (t - NextChar(r)) % CharMod = n - 1
  <2> SUFFICES ASSUME n > 0 PROVE (t - NextChar(r)) % CharMod = n - 1
    OBVIOUS
  <2>1. \/ t - NextChar(r) = n - 1 /\ n - 1 \in 0 .. CharMod - 1
        \/ /\ t - NextChar(r) = n - 1 - CharMod
           /\ t - NextChar(r) \in (0 - CharMod) .. (0 - 1)
    BY <1>1, <1>2, <1>3
  <2> QED
    BY <1>1, <2>1, Remainder
<1>6. ASSUME NEW i \in 1 .. n PROVE (NextChar(r) + (i - 1)) % CharMod = (r + i) % CharMod
  <2>1. CASE NextChar(r) = r + 1
    <3>1. NextChar(r) + (i - 1) = r + i
      BY <1>1, <2>1
    <3> QED
      BY <3>1
  <2>2. CASE r + 1 = CharMod /\ NextChar(r) = 0
    <3>1. /\ r + i \in CharMod .. CharMod + CharMod - 1
          /\ i - 1 \in 0 .. CharMod - 1 /\ r + i - CharMod = i - 1
          /\ NextChar(r) + (i - 1) = i - 1
      BY <1>1, <1>2, <2>2
    <3>2. (i - 1) % CharMod = i - 1
      BY <3>1, Remainder
    <3>3. (r + i) % CharMod = (r + i) - CharMod
      BY <3>1, Remainder
    <3>4. (NextChar(r) + (i - 1)) % CharMod = (i - 1) % CharMod
      BY <3>1, Zenon
    <3>5. (r + i) % CharMod = i - 1
      BY <1>1, <3>1, <3>3
    <3> QED
      BY <3>2, <3>4, <3>5, Zenon
  <2> QED
    BY <1>1, <1>3, <2>1, <2>2
<1> QED
  BY <1>1, <1>3, <1>4, <1>5, <1>6 DEF Chars

(* Follow is CharsInOrder.                                                 *)
LEMMA CharsFollow ==
    ASSUME CharsOK
    PROVE  CharsInOrder
<1>1. rx \in Seq(Chars) /\ held \in Chars \cup {NoChar} /\ Follow(held, rx, typed, read)
      /\ read \in Int
  BY DEF CharsOK, Chars
<1>2. CASE held = NoChar
  <2>1. InHand \o rx = rx
    BY <1>1, <1>2 DEF InHand
  <2>2. /\ Len(rx) + 0 = (typed - read) % CharMod
        /\ \A i \in 1 .. Len(rx) : rx[i] = (read + i + 0) % CharMod
    BY <1>1, <1>2 DEF Follow
  <2>3. /\ Len(rx) = (typed - read) % CharMod
        /\ \A i \in 1 .. Len(rx) : rx[i] = (read + i) % CharMod
    BY <1>1, <2>2
  <2> QED
    BY <1>1, <2>1, <2>3 DEF CharsInOrder
<1>3. CASE held # NoChar
  <2> DEFINE line == <<held>> \o rx
  <2>1. /\ Len(line) = Len(rx) + 1 /\ DOMAIN line = 1 .. Len(rx) + 1
        /\ line[1] = held /\ Len(rx) \in Nat
        /\ \A i \in 2 .. Len(rx) + 1 : line[i] = rx[i - 1]
    BY <1>1, <1>3
  <2>2. /\ Len(rx) + 1 = (typed - read) % CharMod
        /\ held = (read + 1) % CharMod
        /\ \A i \in 1 .. Len(rx) : rx[i] = (read + i + 1) % CharMod
    BY <1>1, <1>3 DEF Follow
  <2>3. InHand \o rx = line
    BY <1>3 DEF InHand
  <2> HIDE DEF line
  <2>4. ASSUME NEW i \in 1 .. Len(rx) + 1 PROVE line[i] = (read + i) % CharMod
    <3>1. CASE i = 1
      BY <2>1, <2>2, <3>1
    <3>2. CASE i # 1
      <4>1. i \in 2 .. Len(rx) + 1 /\ i - 1 \in 1 .. Len(rx) /\ read + (i - 1) + 1 = read + i
        BY <1>1, <2>1, <3>2
      <4>2. line[i] = rx[i - 1] /\ rx[i - 1] = (read + (i - 1) + 1) % CharMod
        BY <2>1, <2>2, <4>1
      <4> QED
        BY <4>1, <4>2
    <3> QED
      BY <3>1, <3>2
  <2> QED
    BY <2>1, <2>2, <2>3, <2>4 DEF CharsInOrder
<1> QED
  BY <1>2, <1>3

(* The steps that touch a character.                                       *)
LEMMA TypingChars ==
    ASSUME CharsOK, Typing
    PROVE  CharsOK'
<1>1. /\ Len(rx) < RxSize /\ typed' = NextChar(typed) /\ rx' = Append(rx, NextChar(typed))
      /\ pc' = pc /\ held' = held /\ read' = read
  BY DEF Typing, CharArrives, serverVars
<1>2. /\ rx \in Seq(Chars) /\ typed \in Chars /\ read \in Chars
      /\ held \in Chars \cup {NoChar} /\ Follow(held, rx, typed, read)
      /\ read \in Int /\ Len(rx) \in Nat
  BY CharModRange DEF CharsOK, Chars
<1> DEFINE k == IF held = NoChar THEN 0 ELSE 1
           n == Len(rx) + k
<1>3. /\ n = (typed - read) % CharMod /\ n \in Nat /\ n + 1 < CharMod
      /\ held # NoChar => held = (read + 1) % CharMod
      /\ \A i \in 1 .. Len(rx) : rx[i] = (read + i + k) % CharMod
  BY <1>1, <1>2, CharModRange DEF Follow
<1>4. /\ NextChar(typed) \in Chars
      /\ (NextChar(typed) - read) % CharMod = n + 1
      /\ NextChar(typed) = (read + (n + 1)) % CharMod
  <2> HIDE DEF n
  <2> QED
    BY <1>2, <1>3, Distance
<1>5. /\ rx' \in Seq(Chars) /\ Len(rx') = Len(rx) + 1 /\ rx'[Len(rx) + 1] = NextChar(typed)
      /\ \A i \in 1 .. Len(rx) : rx'[i] = rx[i]
  BY <1>1, <1>2, <1>4
<1>6. Follow(held, rx', typed', read)
  <2>1. k \in Nat /\ Len(rx') + k = n + 1 /\ read + (n + 1) = read + (Len(rx) + 1) + k
    BY <1>2, <1>5
  <2>2. ASSUME NEW i \in 1 .. Len(rx') PROVE rx'[i] = (read + i + k) % CharMod
    <3>1. CASE i \in 1 .. Len(rx)
      BY <1>3, <1>5, <3>1
    <3>2. CASE i = Len(rx) + 1
      BY <1>4, <1>5, <2>1, <3>2
    <3> QED
      BY <1>2, <1>5, <3>1, <3>2
  <2> QED
    BY <1>1, <1>3, <1>4, <2>1, <2>2 DEF Follow
<1>7. Len(rx') <= RxSize
  BY <1>1, <1>2, <1>5, CharModRange
<1> QED
  BY <1>1, <1>2, <1>4, <1>5, <1>6, <1>7 DEF CharsOK

LEMMA GetcChars ==
    ASSUME ServersInv, CharsOK, Console \in Servers, ConsoleGetc
    PROVE  CharsOK'
<1>1. /\ rx \in Seq(Chars) /\ typed \in Chars /\ read \in Chars /\ Len(rx) <= RxSize
      /\ held \in Chars \cup {NoChar} /\ Follow(held, rx, typed, read)
      /\ read \in Int /\ Len(rx) \in Nat
      /\ pc \in [Servers -> {"recv", "serve", "wait", "answer"}]
  BY CharModRange DEF CharsOK, Chars, ServersInv
<1>2. /\ pc[Console] = "serve" /\ held = NoChar /\ typed' = typed /\ read' = read
  BY DEF ConsoleGetc, CharsOK
<1>3. /\ Len(rx) = (typed - read) % CharMod
      /\ \A i \in 1 .. Len(rx) : rx[i] = (read + i) % CharMod
  <2>1. /\ Len(rx) + 0 = (typed - read) % CharMod
        /\ \A i \in 1 .. Len(rx) : rx[i] = (read + i + 0) % CharMod
    BY <1>1, <1>2 DEF Follow
  <2> QED
    BY <1>1, <2>1
<1>4. CASE rx = <<>>
  <2>1. held' = held /\ rx' = rx /\ pc' = [pc EXCEPT ![Console] = "wait"]
    BY <1>4 DEF ConsoleGetc, Goto
  <2>2. pc'[Console] # "answer"
    BY <1>1, <2>1
  <2> QED
    BY <1>1, <1>2, <2>1, <2>2 DEF CharsOK
<1>5. CASE rx # <<>>
  <2>1. held' = Head(rx) /\ rx' = Tail(rx) /\ pc' = [pc EXCEPT ![Console] = "answer"]
    BY <1>5 DEF ConsoleGetc, Goto
  <2>2. /\ held' = rx[1] /\ held' \in Chars /\ rx' \in Seq(Chars) /\ Len(rx) >= 1
        /\ Len(rx') = Len(rx) - 1 /\ \A i \in 1 .. Len(rx') : rx'[i] = rx[i + 1]
    BY <1>1, <1>5, <2>1
  <2>3. held' # NoChar /\ pc'[Console] = "answer"
    BY <1>1, <2>1, <2>2, CharModRange DEF Chars, NoChar
  <2>4. Follow(held', rx', typed', read')
    <3>1. ASSUME NEW i \in 1 .. Len(rx') PROVE rx'[i] = (read + i + 1) % CharMod
      <4>1. i + 1 \in 1 .. Len(rx) /\ read + (i + 1) = read + i + 1
        BY <1>1, <2>2
      <4>2. rx'[i] = (read + (i + 1)) % CharMod
        BY <1>3, <2>2, <4>1
      <4> QED
        BY <4>1, <4>2
    <3>2. held' = (read + 1) % CharMod
      BY <1>1, <1>3, <2>2
    <3>3. Len(rx') + 1 = (typed - read) % CharMod
      BY <1>1, <1>3, <2>2
    <3> QED
      BY <1>2, <2>3, <3>1, <3>2, <3>3 DEF Follow
  <2>5. Len(rx') <= RxSize
    BY <1>1, <2>2, CharModRange
  <2> QED
    BY <1>1, <1>2, <2>2, <2>3, <2>4, <2>5 DEF CharsOK
<1> QED
  BY <1>4, <1>5

LEMMA AnswerChars ==
    ASSUME ServersInv, CharsOK, Console \in Servers, ConsoleAnswer
    PROVE  CharsOK'
<1>1. /\ rx \in Seq(Chars) /\ typed \in Chars /\ read \in Chars /\ Len(rx) <= RxSize
      /\ held \in Chars \cup {NoChar} /\ Follow(held, rx, typed, read)
      /\ read \in Int /\ Len(rx) \in Nat
      /\ pc \in [Servers -> {"recv", "serve", "wait", "answer"}]
  BY CharModRange DEF CharsOK, Chars, ServersInv
<1>2. /\ pc[Console] = "answer" /\ pc' = [pc EXCEPT ![Console] = "recv"]
      /\ held' = NoChar /\ read' = held /\ rx' = rx /\ typed' = typed
  BY DEF ConsoleAnswer, ConsoleReply, Goto, uartVars
<1>3. held # NoChar /\ pc'[Console] # "answer"
  BY <1>1, <1>2 DEF CharsOK
<1> DEFINE n == Len(rx) + 1
<1>4. /\ n = (typed - read) % CharMod /\ n \in Nat /\ n > 0
      /\ held = (read + 1) % CharMod
      /\ \A i \in 1 .. Len(rx) : rx[i] = (read + i + 1) % CharMod
  BY <1>1, <1>3 DEF Follow
<1>5. held = NextChar(read)
  BY <1>4 DEF NextChar
<1>6. /\ (typed - held) % CharMod = n - 1
      /\ \A i \in 1 .. n : (held + (i - 1)) % CharMod = (read + i) % CharMod
  <2> HIDE DEF n
  <2> QED
    BY <1>1, <1>4, <1>5, Distance
<1>7. Follow(held', rx', typed', read')
  <2>1. held \in Int
    BY <1>1, <1>3 DEF Chars
  <2>2. Len(rx) + 0 = (typed - held) % CharMod
    BY <1>1, <1>6
  <2>3. ASSUME NEW i \in 1 .. Len(rx) PROVE rx[i] = (held + i + 0) % CharMod
    <3>1. i + 1 \in 1 .. n /\ held + ((i + 1) - 1) = held + i + 0
          /\ read + i + 1 = read + (i + 1)
      BY <1>1, <2>1
    <3>2. (held + ((i + 1) - 1)) % CharMod = (read + (i + 1)) % CharMod
      BY <1>6, <3>1
    <3> QED
      BY <1>4, <3>1, <3>2
  <2> QED
    BY <1>2, <2>2, <2>3 DEF Follow
<1> QED
  BY <1>1, <1>2, <1>3, <1>7 DEF CharsOK

(* No other step does.                                                     *)
LEMMA OtherChars ==
    ASSUME CharsOK, rx' = rx, typed' = typed, held' = held, read' = read,
           Console \in Servers => (pc'[Console] = "answer" <=> pc[Console] = "answer")
    PROVE  CharsOK'
BY DEF CharsOK

LEMMA CharsStep ==
    ASSUME ServersInv, CharsOK, ServersNext
    PROVE  CharsOK'
<1>1. pc \in [Servers -> {"recv", "serve", "wait", "answer"}]
  BY DEF ServersInv
<1>2. CASE TimerTrap \/ ClientStep
  BY <1>2, OtherChars DEF TimerTrap, ClientStep, uartVars, serverVars
<1>3. CASE ExternalTrap
  BY <1>3, OtherChars DEF ExternalTrap, External, serverVars
<1>4. CASE Typing
  BY <1>4, TypingChars
<1>5. CASE FsStep
  <2>1. \E l : pc' = [pc EXCEPT ![Fs] = l]
    BY <1>5 DEF FsStep, FsRecv, FsServe, Goto
  <2>2. rx' = rx /\ typed' = typed /\ held' = held /\ read' = read
    BY <1>5 DEF FsStep, FsRecv, FsServe, uartVars
  <2>3. Console \in Servers => pc'[Console] = pc[Console]
    BY <1>1, <2>1 DEF Console, Fs
  <2> QED
    BY <2>2, <2>3, OtherChars
<1>6. CASE ConsoleStep
  <2>1. Console \in Servers
    BY <1>6 DEF ConsoleStep
  <2>2. CASE ConsoleRecv \/ ConsoleWrite \/ ConsoleWait
    <3>1. /\ rx' = rx /\ typed' = typed /\ held' = held /\ read' = read
          /\ pc[Console] # "answer"
          /\ \E l \in {"recv", "serve"} : pc' = [pc EXCEPT ![Console] = l]
      BY <2>2 DEF ConsoleRecv, ConsoleWrite, ConsoleReply, ConsoleWait, SysIrqWait,
                  Goto, uartVars
    <3>2. pc'[Console] # "answer"
      BY <1>1, <2>1, <3>1
    <3> QED
      BY <3>1, <3>2, OtherChars
  <2>3. CASE ConsoleGetc
    BY <2>1, <2>3, GetcChars
  <2>4. CASE ConsoleAnswer
    BY <2>1, <2>4, AnswerChars
  <2> QED
    BY <1>6, <2>2, <2>3, <2>4 DEF ConsoleStep
<1> QED
  BY <1>2, <1>3, <1>4, <1>5, <1>6 DEF ServersNext

(* Every character typed is returned by exactly one CONSOLE_READ, in the   *)
(* order of typing, for a FIFO of any depth.                               *)
THEOREM CharsAreInOrder == ServersSpec => []CharsInOrder
<1>1. ServersInit => CharsOK
  <2> SUFFICES ASSUME ServersInit PROVE CharsOK
    OBVIOUS
  <2>1. /\ rx = <<>> /\ typed = 0 /\ read = 0 /\ held = NoChar
        /\ pc = [e \in Servers |-> "recv"]
    BY DEF ServersInit, UartInit
  <2>2. 0 \in Chars /\ rx \in Seq(Chars) /\ Len(rx) = 0
    BY <2>1, CharModRange DEF Chars
  <2>3. (0 - 0) % CharMod = 0
    <3>1. 0 - 0 = 0 /\ 0 \in 0 .. CharMod - 1
      BY CharModRange
    <3> QED
      BY <3>1, Remainder
  <2>4. Follow(held, rx, typed, read)
    BY <2>1, <2>2, <2>3 DEF Follow
  <2> QED
    BY <2>1, <2>2, <2>4, CharModRange DEF CharsOK
<1>2. CharsOK /\ ServersInv /\ [ServersNext]_allVars => CharsOK'
  <2>1. CharsOK /\ UNCHANGED allVars => CharsOK'
    BY OtherChars DEF allVars, uartVars, serverVars
  <2> QED
    BY <2>1, CharsStep
<1>3. CharsOK => CharsInOrder
  BY CharsFollow
<1> QED
  BY <1>1, <1>2, <1>3, ServersInvariant, PTL DEF ServersSpec

=============================================================================
