----------------------------- MODULE IpcProofs -----------------------------
(***************************************************************************)
(* Proofs about the IPC system calls of module Ipc, made by any task in    *)
(* any order, for any number of endpoints, queue length and buffer size.   *)
(***************************************************************************)
EXTENDS Ipc, TasksProofs

-----------------------------------------------------------------------------
(* Tasks that sleep.  IPC calls, and the UART interrupt of module Uart,    *)
(* put tasks to sleep on channels of their own and wake them; the traps of *)
(* module Tasks leave such sleepers alone.                                 *)

(* A channel on which only a trap of another module wakes anybody.         *)
Foreign(w) == w.kind \in {"UartRx", "IpcCall", "IpcRecv"}

(* Task p of the table t sleeps on such a channel.                         *)
Sleeps(t, p, w) == Foreign(w) /\ \E s \in Slots : t[s].pid = p /\ t[s].wait = w

(* u is t with the slots of S, all of them asleep, made ready.             *)
Awoken(t, u, S) ==
    /\ S \subseteq {s \in Slots : t[s].state = "Sleeping"}
    /\ u = [s \in Slots |->
               IF s \in S THEN [t[s] EXCEPT !.state = "Ready", !.wait = NoWait]
                          ELSE t[s]]

-----------------------------------------------------------------------------
(* No channel is another one.                                              *)
LEMMA ChannelsDiffer ==
    /\ NoWait \in WaitChannel /\ ~Foreign(NoWait)
    /\ UartRx \in WaitChannel /\ Foreign(UartRx) /\ UartRx.kind = "UartRx"
    /\ \A e \in Int :
          /\ IpcCall(e) \in WaitChannel /\ Foreign(IpcCall(e))
          /\ IpcCall(e).kind = "IpcCall" /\ IpcCall(e).on = e
          /\ IpcRecv(e) \in WaitChannel /\ Foreign(IpcRecv(e))
          /\ IpcRecv(e).kind = "IpcRecv" /\ IpcRecv(e).on = e
          /\ Child(e) \in WaitChannel /\ ~Foreign(Child(e))
BY DEF Foreign, NoWait, UartRx, IpcCall, IpcRecv, Child, WaitChannel, NoPid

(* The slots of a table woken.                                             *)
LEMMA AwokenSlots ==
    ASSUME NEW t \in [Slots -> Task], NEW u, NEW S, Awoken(t, u, S)
    PROVE  /\ u \in [Slots -> Task]
           /\ \A s \in Slots : u[s].pid = t[s].pid /\ u[s].parent = t[s].parent
           /\ \A s \in S : u[s].state = "Ready" /\ u[s].wait = NoWait
           /\ \A s \in Slots \ S : u[s] = t[s]
<1>1. \A s \in Slots : t[s] \in Task
  OBVIOUS
<1>2. \A s \in Slots :
         u[s] = IF s \in S THEN [t[s] EXCEPT !.state = "Ready", !.wait = NoWait]
                           ELSE t[s]
  BY DEF Awoken
<1>3. \A s \in Slots :
        /\ u[s] \in Task /\ u[s].pid = t[s].pid /\ u[s].parent = t[s].parent
        /\ s \in S => u[s].state = "Ready" /\ u[s].wait = NoWait
        /\ s \notin S => u[s] = t[s]
  <2> TAKE s \in Slots
  <2>1. NoWait \in WaitChannel
    BY ChannelsDiffer
  <2>2. CASE s \in S
    <3>1. u[s] = [t[s] EXCEPT !.state = "Ready", !.wait = NoWait]
      BY <1>2, <2>2
    <3> QED
      BY <1>1, <2>1, <2>2, <3>1 DEF Task, TaskState
  <2>3. CASE s \notin S
    BY <1>1, <1>2, <2>3
  <2> QED
    BY <2>2, <2>3
<1>4. u = [s \in Slots |-> u[s]] /\ S \subseteq Slots
  BY DEF Awoken
<1> QED
  BY <1>3, <1>4

(* Waking tasks leaves the table in order.                                 *)
LEMMA AwokenOK ==
    ASSUME NEW t, NEW n \in Nat, NEW c, TableOK(t, n, c), NEW u, NEW S,
           Awoken(t, u, S)
    PROVE  /\ TableOK(u, n, c)
           /\ Runnable(u) = Runnable(t) \cup S
           /\ Runnable(t) \cap S = {}
<1>1. t \in [Slots -> Task]
  BY DEF TableOK
<1>2. /\ u \in [Slots -> Task]
      /\ \A s \in Slots : u[s].pid = t[s].pid /\ u[s].parent = t[s].parent
      /\ \A s \in S : u[s].state = "Ready" /\ u[s].wait = NoWait
      /\ \A s \in Slots \ S : u[s] = t[s]
  BY <1>1, AwokenSlots
<1>3. S \subseteq Slots /\ \A s \in S : t[s].state = "Sleeping"
  BY DEF Awoken
<1>4. NoTask.state = "Unused" /\ NoWait.kind = "None"
  BY DEF NoTask, NewTask, NoWait
<1>5. UniquePids(u, n)
  <2>1. \A q \in Slots : (u[q].state = "Unused") <=> (u[q] = NoTask)
    BY <1>2, <1>4 DEF TableOK, UniquePids
  <2>2. \A q \in Slots : u[q].state # "Unused" => u[q].pid \in 0 .. n - 1
    BY <1>2, <1>3 DEF TableOK, UniquePids
  <2>3. \A p, q \in Slots : u[p].pid = u[q].pid /\ u[p].pid # NoPid => p = q
    BY <1>2 DEF TableOK, UniquePids
  <2>4. \E q \in Slots : u[q].pid = IdlePid /\ u[q].state \in {"Ready", "Running"}
    BY <1>2, <1>3 DEF TableOK, UniquePids
  <2> QED
    BY <2>1, <2>2, <2>3, <2>4 DEF UniquePids
<1>6. SleepsOnChannel(u)
  BY <1>2 DEF TableOK, SleepsOnChannel
<1>7. \A q \in Slots : Live(t, q) => Live(u, q)
  BY <1>2, <1>3 DEF Live
<1>8. ParentsLive(u)
  BY <1>2, <1>7 DEF TableOK, ParentsLive
<1>9. WaitersHaveChild(u)
  <2> SUFFICES ASSUME NEW s \in Slots, u[s].wait.kind = "Child"
               PROVE  \E r \in Slots : /\ u[r].pid = u[s].wait.on
                                        /\ u[r].parent = u[s].pid
                                        /\ Live(u, r)
    BY DEF WaitersHaveChild
  <2>1. u[s] = t[s]
    BY <1>2, <1>4
  <2>2. PICK r \in Slots : /\ t[r].pid = t[s].wait.on /\ t[r].parent = t[s].pid
                           /\ Live(t, r)
    BY <2>1 DEF TableOK, WaitersHaveChild
  <2> QED
    BY <1>2, <1>7, <2>1, <2>2
<1>10. OnlyCurrentRuns(u, c)
  BY <1>2 DEF TableOK, OnlyCurrentRuns
<1>11. Runnable(t) \cap S = {}
  BY <1>3 DEF Runnable
<1>12. \A s \in S : t[s].pid # IdlePid
  <2>1. PICK q \in Slots : t[q].pid = IdlePid /\ t[q].state \in {"Ready", "Running"}
    BY DEF TableOK, UniquePids
  <2> QED
    BY <1>3, <2>1 DEF TableOK, UniquePids, IdlePid, NoPid
<1>13. Runnable(u) = Runnable(t) \cup S
  BY <1>2, <1>3, <1>12 DEF Runnable
<1> QED
  BY <1>2, <1>5, <1>6, <1>8, <1>9, <1>10, <1>11, <1>13 DEF TableOK

(* Making one sleeper ready is such a wakeup.                              *)
LEMMA WakeAwoken ==
    ASSUME NEW t \in [Slots -> Task], NEW s \in Slots, t[s].state = "Sleeping"
    PROVE  Awoken(t, Wake(t, s), {s})
BY DEF Awoken, Wake

(* schedule() leaves every task on its channel.                            *)
LEMMA ScheduleWaits ==
    ASSUME NEW t, NEW n \in Nat, TableOK(t, n, current), current \in Nat,
           NEW m \in Slots, t[m].pid = current, t[m].state # "Zombie",
           Schedule(t)
    PROVE  \A s \in Slots : /\ tasks'[s].wait = t[s].wait
                            /\ t[s].wait # NoWait => tasks'[s].pid = t[s].pid
<1> DEFINE u == Reaped(t)
           r == Preempted(u)
           d == Dispatch(r, (SlotOf(r, current) + 1) % MaxTasks)
<1>1. tasks' = [r EXCEPT ![d] = [r[d] EXCEPT !.state = "Running"]]
  BY DEF Schedule, SwitchTo
<1>2. TableOK(u, n, current)
  BY ReapedOK
<1>3. TableOK(r, n, current)
  BY <1>2, PreemptedOK
<1>4. t \in [Slots -> Task] /\ u \in [Slots -> Task] /\ r \in [Slots -> Task]
  BY <1>2, <1>3 DEF TableOK
<1>5. KeepsTask(t, tasks')
  BY ScheduleOK
<1>6. \A s \in Slots : u[s].wait = t[s].wait
  <2> TAKE s \in Slots
  <2>1. t[s].state = "Zombie" => t[s].wait = NoWait
    BY DEF TableOK, SleepsOnChannel
  <2> QED
    BY <2>1 DEF Reaped, NoTask, NewTask
<1>7. \A s \in Slots : r[s].wait = u[s].wait
  <2> HIDE DEF u
  <2> QED
    BY <1>4 DEF Preempted, Task
<1> HIDE DEF u, r, d
<1>8. \A s \in Slots : tasks'[s].wait = r[s].wait
  BY <1>1, <1>4 DEF Task
<1>9. NoTask.wait = NoWait
  BY DEF NoTask, NewTask
<1> QED
  BY <1>5, <1>6, <1>7, <1>8, <1>9 DEF KeepsTask

-----------------------------------------------------------------------------
(* Whoever sleeps is a process of the table, not idle and not the current  *)
(* one, and sleeps on one channel.                                         *)
LEMMA SleeperFacts ==
    ASSUME TasksInv
    PROVE  /\ \A p, w : Sleeps(tasks, p, w) =>
                 p \in 1 .. MaxPid /\ p < next_pid /\ p # current
           /\ \A p, v, w : Sleeps(tasks, p, v) /\ Sleeps(tasks, p, w) => v = w
<1>1. /\ TableOK(tasks, next_pid, current) /\ next_pid \in Nat
      /\ next_pid <= MaxPid + 1 /\ MaxPid \in Nat
  BY TasksAssumption DEF TasksInv, TasksTypeOK, ReportsOK
<1>2. PICK m \in Slots : tasks[m].pid = current /\ tasks[m].state = "Running"
  BY DEF TasksInv, Runs
<1>3. PICK z \in Slots : /\ tasks[z].pid = IdlePid
                         /\ tasks[z].state \in {"Ready", "Running"}
  BY <1>1 DEF TableOK, UniquePids
<1>4. ASSUME NEW s \in Slots, Foreign(tasks[s].wait)
      PROVE  /\ tasks[s].pid \in 1 .. MaxPid /\ tasks[s].pid < next_pid
             /\ tasks[s].pid # current
  <2>1. tasks[s].state = "Sleeping"
    BY <1>1, <1>4, ChannelsDiffer DEF TableOK, SleepsOnChannel
  <2>2. tasks[s].pid \in 0 .. next_pid - 1
    BY <1>1, <2>1 DEF TableOK, UniquePids
  <2>3. s # m /\ s # z
    BY <1>2, <1>3, <2>1
  <2>4. tasks[s].pid # current /\ tasks[s].pid # IdlePid
    BY <1>1, <1>2, <1>3, <2>2, <2>3 DEF TableOK, UniquePids, NoPid
  <2> QED
    BY <1>1, <2>2, <2>4 DEF IdlePid
<1>5. ASSUME NEW p, NEW v, NEW w, Sleeps(tasks, p, v), Sleeps(tasks, p, w)
      PROVE  v = w
  <2>1. PICK s \in Slots : tasks[s].pid = p /\ tasks[s].wait = v
    BY <1>5 DEF Sleeps
  <2>2. PICK r \in Slots : tasks[r].pid = p /\ tasks[r].wait = w
    BY <1>5 DEF Sleeps
  <2>3. p # NoPid
    BY <1>4, <1>5, <2>1 DEF Sleeps, NoPid
  <2>4. s = r
    BY <1>1, <2>1, <2>2, <2>3 DEF TableOK, UniquePids
  <2> QED
    BY <2>1, <2>2, <2>4
<1> QED
  BY <1>4, <1>5 DEF Sleeps

(* Two tables with the same tasks on the same foreign channels.            *)
LEMMA SameSleepers ==
    ASSUME NEW t, NEW u,
           \A s \in Slots :
              Foreign(t[s].wait) \/ Foreign(u[s].wait) =>
                 u[s].pid = t[s].pid /\ u[s].wait = t[s].wait
    PROVE  \A p, w : Sleeps(u, p, w) <=> Sleeps(t, p, w)
BY DEF Sleeps

(* The traps of module Tasks: nobody goes to sleep on a foreign channel or *)
(* is woken from one; not even exit, of anybody, does.                     *)
LEMMA TrapSleepers ==
    ASSUME TasksInv, TasksNext
    PROVE  \A p, w : Sleeps(tasks', p, w) <=> Sleeps(tasks, p, w)
<1>1. /\ TableOK(tasks, next_pid, current) /\ next_pid \in Nat /\ current \in Nat
      /\ tasks \in [Slots -> Task] /\ MaxPid \in Nat
  BY TasksAssumption DEF TasksInv, TasksTypeOK
<1>2. PICK m \in Slots : tasks[m].pid = current /\ tasks[m].state = "Running"
  BY DEF TasksInv, Runs
<1>3. SlotOf(tasks, current) = m
  BY <1>1, <1>2, SlotOfPid DEF TableOK, NoPid
<1>4. NoTask.wait = NoWait /\ ~Foreign(NoWait)
  BY ChannelsDiffer DEF NoTask, NewTask
<1>5. \A s \in Slots : tasks[s].state # "Sleeping" => tasks[s].wait = NoWait
  BY <1>1 DEF TableOK, SleepsOnChannel
<1> SUFFICES \A s \in Slots :
                Foreign(tasks[s].wait) \/ Foreign(tasks'[s].wait) =>
                   tasks'[s].pid = tasks[s].pid /\ tasks'[s].wait = tasks[s].wait
  BY SameSleepers
<1>6. CASE Timer \/ SysYield
  <2>1. Schedule(tasks)
    BY <1>6 DEF Timer, SysYield
  <2>2. \A s \in Slots : /\ tasks'[s].wait = tasks[s].wait
                         /\ tasks[s].wait # NoWait => tasks'[s].pid = tasks[s].pid
    BY <1>1, <1>2, <2>1, ScheduleWaits
  <2> QED
    BY <1>4, <2>2
<1>7. CASE SysFork
  <2> DEFINE f == FirstFrom(FreeSlots(tasks), 0)
             new == NewTask(next_pid, "Ready", current)
  <2>1. tasks' = [tasks EXCEPT ![f] = new] /\ FreeSlots(tasks) # {}
    BY <1>7 DEF SysFork
  <2>2. FreeSlots(tasks) \in SUBSET Slots /\ 0 \in Slots
    BY TasksAssumption DEF FreeSlots, Slots
  <2>3. f \in FreeSlots(tasks)
    BY <2>1, <2>2, FirstFromInSet
  <2>4. new.wait = NoWait
    BY DEF NewTask
  <2> HIDE DEF f, new
  <2>5. tasks'[f].wait = NoWait /\ tasks[f].wait = NoWait
    BY <1>1, <1>4, <2>1, <2>3, <2>4 DEF FreeSlots
  <2>6. \A s \in Slots : s # f => tasks'[s] = tasks[s]
    BY <1>1, <2>1
  <2> QED
    BY <1>4, <2>5, <2>6
<1>8. CASE SysForkNoSlot
  BY <1>8 DEF SysForkNoSlot
<1>9. ASSUME NEW p \in 1 .. MaxPid, SysWaitpidReap(p)
      PROVE  \A s \in Slots :
                Foreign(tasks[s].wait) \/ Foreign(tasks'[s].wait) =>
                   tasks'[s].pid = tasks[s].pid /\ tasks'[s].wait = tasks[s].wait
  <2>1. PICK z \in Slots : /\ tasks[z].state = "Zombie"
                           /\ tasks' = [tasks EXCEPT ![z] = NoTask]
    BY <1>9 DEF SysWaitpidReap
  <2> QED
    BY <1>1, <1>4, <1>5, <2>1
<1>10. ASSUME NEW p \in 1 .. MaxPid, SysWaitpidBlock(p)
       PROVE  \A s \in Slots :
                 Foreign(tasks[s].wait) \/ Foreign(tasks'[s].wait) =>
                    tasks'[s].pid = tasks[s].pid /\ tasks'[s].wait = tasks[s].wait
  <2> DEFINE t == Block(tasks, m, Child(p))
  <2>1. Schedule(t) /\ current # IdlePid
    BY <1>3, <1>10 DEF SysWaitpidBlock
  <2>2. PICK r \in Slots : IsChild(r, p) /\ tasks[r].state # "Zombie"
    BY <1>10 DEF SysWaitpidBlock
  <2>3. tasks[r].pid = p /\ tasks[r].parent = current /\ Live(tasks, r)
    <3>1. tasks[r].pid = p /\ tasks[r].parent = current
      BY <2>2 DEF IsChild
    <3>2. tasks[r].state # "Unused"
      BY <1>1, <3>1 DEF TableOK, UniquePids, NoTask, NewTask, NoPid
    <3>3. tasks[r].state \in TaskState
      BY <1>1 DEF Task
    <3> QED
      BY <2>2, <3>1, <3>2, <3>3 DEF Live, TaskState
  <2>4. /\ Child(p) \in WaitChannel /\ Child(p) # NoWait /\ Child(p).on = p
        /\ ~Foreign(Child(p))
    BY ChannelsDiffer DEF Child, WaitChannel, NoWait
  <2>5. TableOK(t, next_pid, current) /\ t[m].pid = current /\ t[m].state = "Sleeping"
    BY <1>1, <1>2, <2>1, <2>3, <2>4, BlockOK
  <2>6. /\ t[m].wait = Child(p) /\ tasks[m].wait = NoWait
        /\ \A s \in Slots : s # m => t[s] = tasks[s]
    BY <1>1, <1>2, <1>5 DEF Block, Task
  <2> HIDE DEF t
  <2>7. \A s \in Slots : /\ tasks'[s].wait = t[s].wait
                         /\ t[s].wait # NoWait => tasks'[s].pid = t[s].pid
    BY <1>1, <2>1, <2>5, ScheduleWaits
  <2> QED
    BY <1>4, <2>4, <2>6, <2>7
<1>11. ASSUME NEW code \in ExitCodes, SysExit(code)
       PROVE  \A s \in Slots :
                 Foreign(tasks[s].wait) \/ Foreign(tasks'[s].wait) =>
                    tasks'[s].pid = tasks[s].pid /\ tasks'[s].wait = tasks[s].wait
  <2> DEFINE t == ExitTable(code)
             d == Dispatch(t, 0)
  <2>1. SwitchTo(t, d) /\ current # IdlePid /\ code \in Int
    BY <1>11, TasksAssumption DEF SysExit, ExitTable
  <2>2. AfterExit(t, m)
    BY <1>1, <1>2, <2>1, ExitTableOK
  <2> HIDE DEF t
  <2>3. tasks' = [t EXCEPT ![d] = [t[d] EXCEPT !.state = "Running"]]
    BY <2>1 DEF SwitchTo
  <2> HIDE DEF d
  <2>4. \A s \in Slots : tasks'[s].wait = t[s].wait /\ tasks'[s].pid = t[s].pid
    BY <2>2, <2>3 DEF AfterExit, Task
  <2>5. t[m].wait = NoWait /\ tasks[m].wait = NoWait
    BY <1>2, <1>5, <2>2 DEF AfterExit
  <2>6. ASSUME NEW q \in Slots, q # m
        PROVE  /\ t[q].pid = tasks[q].pid
               /\ \/ t[q].wait = NoWait /\ tasks[q].wait = Child(current)
                  \/ t[q].wait = tasks[q].wait
    BY <2>2, <2>6 DEF AfterExit, WaitsForCurrent
  <2>7. ~Foreign(Child(current))
    BY <1>1, ChannelsDiffer
  <2> QED
    BY <1>4, <2>4, <2>5, <2>6, <2>7
<1> QED
  BY <1>6, <1>7, <1>8, <1>9, <1>10, <1>11 DEF TasksNext

-----------------------------------------------------------------------------
(* A system call that puts the caller to sleep on a foreign channel.       *)
LEMMA BlockStep ==
    ASSUME TasksInv, current # IdlePid,
           NEW chan \in WaitChannel, Foreign(chan),
           Schedule(Block(tasks, SlotOf(tasks, current), chan)),
           runnable_count' = SaturatingSub(runnable_count),
           next_pid' = next_pid, reports' = reports
    PROVE  /\ TasksInv' /\ StepOK
           /\ \A p, w : Sleeps(tasks', p, w) <=>
                 Sleeps(tasks, p, w) \/ (p = current /\ w = chan)
<1>1. /\ TableOK(tasks, next_pid, current) /\ next_pid \in Nat /\ current \in Nat
      /\ tasks \in [Slots -> Task]
  BY DEF TasksInv, TasksTypeOK
<1>2. PICK m \in Slots : tasks[m].pid = current /\ tasks[m].state = "Running"
  BY DEF TasksInv, Runs
<1>3. SlotOf(tasks, current) = m
  BY <1>1, <1>2, SlotOfPid DEF TableOK, NoPid
<1>4. chan # NoWait /\ chan.kind # "Child" /\ ~Foreign(NoWait)
  BY ChannelsDiffer DEF Foreign
<1> DEFINE t == Block(tasks, m, chan)
<1>5. /\ TableOK(t, next_pid, current)
      /\ t[m].pid = current /\ t[m].state = "Sleeping"
      /\ Runnable(t) = Runnable(tasks) \ {m}
  BY <1>1, <1>2, <1>4, BlockOK
<1>6. \A q \in Slots : t[q].pid = tasks[q].pid /\ t[q].parent = tasks[q].parent
  BY <1>1 DEF Block, Task
<1>7. t[m].wait = chan /\ \A s \in Slots : s # m => t[s] = tasks[s]
  BY <1>1 DEF Block, Task
<1>8. Schedule(t)
  BY <1>3
<1>9. m \in Runnable(tasks)
  BY <1>2 DEF Runnable
<1>10. runnable_count' = Cardinality(Runnable(t))
  BY <1>5, <1>9, BlockedCount DEF TasksInv
<1>11. tasks[m].wait = NoWait
  BY <1>1, <1>2 DEF TableOK, SleepsOnChannel
<1> HIDE DEF t
<1>12. TasksInv' /\ StepOK
  BY <1>5, <1>6, <1>8, <1>10, ScheduledStep
<1>13. \A s \in Slots : /\ tasks'[s].wait = t[s].wait
                        /\ t[s].wait # NoWait => tasks'[s].pid = t[s].pid
  BY <1>1, <1>5, <1>8, ScheduleWaits
<1>14. ASSUME NEW p, NEW w
       PROVE  Sleeps(tasks', p, w) <=> Sleeps(tasks, p, w) \/ (p = current /\ w = chan)
  <2>1. ASSUME Sleeps(tasks', p, w)
        PROVE  Sleeps(tasks, p, w) \/ (p = current /\ w = chan)
    <3>1. PICK s \in Slots : tasks'[s].pid = p /\ tasks'[s].wait = w
      BY <2>1 DEF Sleeps
    <3> QED
      BY <1>4, <1>5, <1>7, <1>13, <2>1, <3>1 DEF Sleeps
  <2>2. ASSUME Sleeps(tasks, p, w)
        PROVE  Sleeps(tasks', p, w)
    <3>1. PICK s \in Slots : tasks[s].pid = p /\ tasks[s].wait = w
      BY <2>2 DEF Sleeps
    <3>2. s # m
      BY <1>4, <1>11, <2>2, <3>1 DEF Sleeps
    <3> QED
      BY <1>4, <1>7, <1>13, <2>2, <3>1, <3>2 DEF Sleeps
  <2>3. ASSUME p = current, w = chan
        PROVE  Sleeps(tasks', p, w)
    BY <1>4, <1>5, <1>7, <1>13, <2>3 DEF Sleeps
  <2> QED
    BY <2>1, <2>2, <2>3
<1> QED
  BY <1>12, <1>14

-----------------------------------------------------------------------------
(* Who still sleeps after a wakeup.                                        *)
LEMMA AwokenSleepers ==
    ASSUME NEW t \in [Slots -> Task], NEW u, NEW S, Awoken(t, u, S)
    PROVE  \A p, w : Sleeps(u, p, w) <=>
              Foreign(w) /\ \E s \in Slots \ S : t[s].pid = p /\ t[s].wait = w
<1>1. /\ \A s \in Slots : u[s].pid = t[s].pid
      /\ \A s \in S : u[s].wait = NoWait
      /\ \A s \in Slots \ S : u[s] = t[s]
      /\ ~Foreign(NoWait)
  BY AwokenSlots, ChannelsDiffer
<1> QED
  BY <1>1 DEF Sleeps

(* A wakeup adds to the runnable tasks those it wakes.                     *)
LEMMA AwokenCount ==
    ASSUME NEW t, NEW n \in Nat, NEW c, TableOK(t, n, c), NEW u, NEW S,
           Awoken(t, u, S)
    PROVE  /\ Cardinality(Runnable(u)) = Cardinality(Runnable(t)) + Cardinality(S)
           /\ Cardinality(S) \in Nat
<1>1. Runnable(u) = Runnable(t) \cup S /\ Runnable(t) \cap S = {}
  BY AwokenOK
<1>2. IsFiniteSet(Runnable(t)) /\ Cardinality(Runnable(t)) \in Nat
  BY RunnableFinite
<1>3. IsFiniteSet(S)
  <2>1. IsFiniteSet(Slots)
    BY FS_Interval, TasksAssumption DEF Slots
  <2>2. S \in SUBSET Slots
    BY DEF Awoken
  <2> QED
    BY <2>1, <2>2, FS_Subset
<1>4. Cardinality(S) \in Nat
  BY <1>3, FS_CardinalityType
<1>5. Cardinality(Runnable(t) \cup S) =
        Cardinality(Runnable(t)) + Cardinality(S) - Cardinality(Runnable(t) \cap S)
  BY <1>2, <1>3, FS_Union
<1>6. Cardinality(Runnable(t) \cap S) = 0
  BY <1>1, FS_EmptySet
<1> QED
  BY <1>1, <1>2, <1>4, <1>5, <1>6

(* An interrupt that wakes tasks and schedules.                            *)
LEMMA InterruptStep ==
    ASSUME TasksInv, NEW u, NEW S, Awoken(tasks, u, S), Schedule(u),
           runnable_count' = runnable_count + Cardinality(S),
           next_pid' = next_pid, reports' = reports
    PROVE  /\ TasksInv' /\ StepOK
           /\ \A p, w : Sleeps(tasks', p, w) <=>
                 Foreign(w) /\ \E s \in Slots \ S : /\ tasks[s].pid = p
                                                    /\ tasks[s].wait = w
<1>1. /\ TableOK(tasks, next_pid, current) /\ next_pid \in Nat /\ current \in Nat
      /\ tasks \in [Slots -> Task] /\ runnable_count = Cardinality(Runnable(tasks))
  BY DEF TasksInv, TasksTypeOK, RunnableCountExact
<1>2. PICK m \in Slots : tasks[m].pid = current /\ tasks[m].state = "Running"
  BY DEF TasksInv, Runs
<1>3. /\ \A s \in Slots : u[s].pid = tasks[s].pid /\ u[s].parent = tasks[s].parent
      /\ \A s \in Slots \ S : u[s] = tasks[s]
  BY <1>1, AwokenSlots
<1>4. m \notin S
  BY <1>2 DEF Awoken
<1>5. TableOK(u, next_pid, current)
  BY <1>1, AwokenOK
<1>6. u[m].pid = current /\ u[m].state # "Zombie"
  BY <1>2, <1>3, <1>4
<1>7. runnable_count' = Cardinality(Runnable(u))
  BY <1>1, AwokenCount
<1>8. TasksInv' /\ StepOK
  BY <1>3, <1>5, <1>6, <1>7, ScheduledStep
<1>9. \A s \in Slots : /\ tasks'[s].wait = u[s].wait
                       /\ u[s].wait # NoWait => tasks'[s].pid = u[s].pid
  BY <1>1, <1>5, <1>6, ScheduleWaits
<1>10. \A p, w : Sleeps(tasks', p, w) <=> Sleeps(u, p, w)
  BY <1>9, ChannelsDiffer, SameSleepers
<1>11. \A p, w : Sleeps(u, p, w) <=>
          Foreign(w) /\ \E s \in Slots \ S : tasks[s].pid = p /\ tasks[s].wait = w
  BY <1>1, AwokenSleepers
<1> QED
  BY <1>8, <1>10, <1>11

(* The slot found for a sleeper, and who sleeps when it does not.          *)
LEMMA SleeperSlot ==
    ASSUME TasksInv, NEW o, NEW v, Sleeps(tasks, o, v)
    PROVE  /\ SlotOf(tasks, o) \in Slots
           /\ tasks[SlotOf(tasks, o)].pid = o
           /\ tasks[SlotOf(tasks, o)].state = "Sleeping"
           /\ \A p, w : Sleeps(tasks, p, w) /\ p # o <=>
                 /\ Foreign(w)
                 /\ \E s \in Slots \ {SlotOf(tasks, o)} :
                       tasks[s].pid = p /\ tasks[s].wait = w
<1>1. TableOK(tasks, next_pid, current) /\ next_pid \in Nat
  BY DEF TasksInv, TasksTypeOK
<1>2. PICK z \in Slots : tasks[z].pid = o /\ tasks[z].wait = v
  BY DEF Sleeps
<1>3. o # NoPid
  BY SleeperFacts DEF NoPid
<1>4. SlotOf(tasks, o) = z
  BY <1>1, <1>2, <1>3, SlotOfPid DEF TableOK
<1>5. tasks[z].state = "Sleeping"
  BY <1>1, <1>2, ChannelsDiffer DEF TableOK, SleepsOnChannel, Sleeps
<1>6. \A s \in Slots : tasks[s].pid = o <=> s = z
  BY <1>1, <1>2, <1>3 DEF TableOK, UniquePids
<1> QED
  BY <1>2, <1>4, <1>5, <1>6 DEF Sleeps

(* A reply: the caller goes on running, a sleeper becomes ready.           *)
LEMMA WakeStep ==
    ASSUME TasksInv, current # IdlePid, NEW o, NEW v, Sleeps(tasks, o, v),
           tasks' = Wake(tasks, SlotOf(tasks, o)), current' = current,
           runnable_count' = runnable_count + 1,
           next_pid' = next_pid, reports' = reports
    PROVE  /\ TasksInv' /\ StepOK
           /\ \A p, w : Sleeps(tasks', p, w) <=> Sleeps(tasks, p, w) /\ p # o
<1>1. /\ TableOK(tasks, next_pid, current) /\ next_pid \in Nat /\ current \in Nat
      /\ tasks \in [Slots -> Task] /\ runnable_count = Cardinality(Runnable(tasks))
  BY DEF TasksInv, TasksTypeOK, RunnableCountExact
<1> DEFINE z == SlotOf(tasks, o)
<1>2. /\ z \in Slots /\ tasks[z].pid = o /\ tasks[z].state = "Sleeping"
      /\ \A p, w : Sleeps(tasks, p, w) /\ p # o <=>
            /\ Foreign(w)
            /\ \E s \in Slots \ {z} : tasks[s].pid = p /\ tasks[s].wait = w
  BY SleeperSlot
<1> HIDE DEF z
<1>3. Awoken(tasks, tasks', {z})
  BY <1>1, <1>2, WakeAwoken DEF z
<1>4. /\ \A s \in Slots : tasks'[s].pid = tasks[s].pid /\ tasks'[s].parent = tasks[s].parent
      /\ \A s \in Slots \ {z} : tasks'[s] = tasks[s]
      /\ tasks' \in [Slots -> Task]
      /\ tasks'[z].state = "Ready"
  BY <1>1, <1>3, AwokenSlots
<1>5. TableOK(tasks', next_pid, current)
  BY <1>1, <1>3, AwokenOK
<1>6. runnable_count' = Cardinality(Runnable(tasks')) /\ runnable_count' \in Int
  <2>1. /\ Cardinality(Runnable(tasks')) = Cardinality(Runnable(tasks)) + Cardinality({z})
        /\ Cardinality({z}) = 1
    BY <1>1, <1>3, AwokenCount, FS_Singleton
  <2>2. Cardinality(Runnable(tasks)) \in Nat
    BY RunnableFinite
  <2> QED
    BY <1>1, <2>1, <2>2
<1>7. Runs(tasks, current)'
  <2>1. PICK m \in Slots : tasks[m].pid = current /\ tasks[m].state = "Running"
    BY DEF TasksInv, Runs
  <2>2. m # z
    BY <1>2, <2>1
  <2> QED
    BY <1>4, <2>1, <2>2 DEF Runs
<1>8. TableOK(tasks, next_pid, current)'
  BY <1>5 DEF TableOK, UniquePids, SleepsOnChannel, ParentsLive,
              WaitersHaveChild, OnlyCurrentRuns, Live
<1>9. RunnableCountExact' /\ IdleOnlyWhenBlocked'
  BY <1>6 DEF RunnableCountExact, IdleOnlyWhenBlocked, Runnable
<1>10. ReportsOK' /\ ReportedOnce' /\ TasksTypeOK'
  BY <1>1, <1>4, <1>6 DEF TasksInv, ReportsOK, ReportedOnce, TasksTypeOK
<1>11. StepOK
  <2>1. NoTask.parent = NoPid
    BY DEF NoTask, NewTask
  <2> QED
    BY <1>4, <2>1 DEF StepOK
<1>12. \A p, w : Sleeps(tasks', p, w) <=> Sleeps(tasks, p, w) /\ p # o
  BY <1>1, <1>2, <1>3, AwokenSleepers
<1> QED
  BY <1>7, <1>8, <1>9, <1>10, <1>11, <1>12 DEF TasksInv

(* A call to a server that sleeps: the caller goes to sleep and the server *)
(* becomes ready in one trap.                                              *)
LEMMA BlockWakeStep ==
    ASSUME TasksInv, current # IdlePid,
           NEW chan \in WaitChannel, Foreign(chan),
           NEW o, NEW v, Sleeps(tasks, o, v),
           Schedule(Wake(Block(tasks, SlotOf(tasks, current), chan),
                         SlotOf(tasks, o))),
           runnable_count' = SaturatingSub(runnable_count) + 1,
           next_pid' = next_pid, reports' = reports
    PROVE  /\ TasksInv' /\ StepOK
           /\ \A p, w : Sleeps(tasks', p, w) <=>
                 (Sleeps(tasks, p, w) /\ p # o) \/ (p = current /\ w = chan)
<1>1. /\ TableOK(tasks, next_pid, current) /\ next_pid \in Nat /\ current \in Nat
      /\ tasks \in [Slots -> Task] /\ runnable_count = Cardinality(Runnable(tasks))
  BY DEF TasksInv, TasksTypeOK, RunnableCountExact
<1>2. PICK m \in Slots : tasks[m].pid = current /\ tasks[m].state = "Running"
  BY DEF TasksInv, Runs
<1>3. SlotOf(tasks, current) = m
  BY <1>1, <1>2, SlotOfPid DEF TableOK, NoPid
<1>4. chan # NoWait /\ chan.kind # "Child" /\ ~Foreign(NoWait)
  BY ChannelsDiffer DEF Foreign
<1> DEFINE z == SlotOf(tasks, o)
<1>5. /\ z \in Slots /\ tasks[z].pid = o /\ tasks[z].state = "Sleeping"
      /\ \A p, w : Sleeps(tasks, p, w) /\ p # o <=>
            /\ Foreign(w)
            /\ \E s \in Slots \ {z} : tasks[s].pid = p /\ tasks[s].wait = w
  BY SleeperSlot
<1>6. z # m
  BY <1>2, <1>5
<1> DEFINE t == Block(tasks, m, chan)
           u == Wake(t, z)
<1>7. /\ TableOK(t, next_pid, current)
      /\ t[m].pid = current /\ t[m].state = "Sleeping"
      /\ Runnable(t) = Runnable(tasks) \ {m}
  BY <1>1, <1>2, <1>4, BlockOK
<1>8. \A q \in Slots : t[q].pid = tasks[q].pid /\ t[q].parent = tasks[q].parent
  BY <1>1 DEF Block, Task
<1>9. t[m].wait = chan /\ \A s \in Slots : s # m => t[s] = tasks[s]
  BY <1>1 DEF Block, Task
<1>10. Schedule(u)
  BY <1>3
<1>11. SaturatingSub(runnable_count) = Cardinality(Runnable(t))
  <2>1. m \in Runnable(tasks)
    BY <1>2 DEF Runnable
  <2> QED
    BY <1>7, <2>1, BlockedCount DEF TasksInv
<1>12. tasks[m].wait = NoWait
  BY <1>1, <1>2 DEF TableOK, SleepsOnChannel
<1> HIDE DEF t, z
<1>13. t \in [Slots -> Task] /\ t[z].state = "Sleeping"
  BY <1>5, <1>6, <1>7, <1>9 DEF TableOK
<1>14. Awoken(t, u, {z})
  BY <1>5, <1>13, WakeAwoken
<1> HIDE DEF u
<1>15. /\ \A s \in Slots : u[s].pid = t[s].pid /\ u[s].parent = t[s].parent
       /\ \A s \in Slots \ {z} : u[s] = t[s]
  BY <1>13, <1>14, AwokenSlots
<1>16. TableOK(u, next_pid, current)
  BY <1>1, <1>7, <1>14, AwokenOK
<1>17. u[m].pid = current /\ u[m].state # "Zombie"
  BY <1>6, <1>7, <1>15
<1>18. runnable_count' = Cardinality(Runnable(u))
  <2>1. Cardinality(Runnable(u)) = Cardinality(Runnable(t)) + Cardinality({z})
    BY <1>1, <1>7, <1>14, AwokenCount
  <2> QED
    BY <1>11, <2>1, FS_Singleton
<1>19. TasksInv' /\ StepOK
  BY <1>8, <1>10, <1>15, <1>16, <1>17, <1>18, ScheduledStep
<1>20. \A s \in Slots : /\ tasks'[s].wait = u[s].wait
                        /\ u[s].wait # NoWait => tasks'[s].pid = u[s].pid
  BY <1>1, <1>10, <1>16, <1>17, ScheduleWaits
<1>21. \A p, w : Sleeps(tasks', p, w) <=> Sleeps(u, p, w)
  BY <1>4, <1>20, SameSleepers
<1>22. \A p, w : Sleeps(u, p, w) <=>
          Foreign(w) /\ \E s \in Slots \ {z} : t[s].pid = p /\ t[s].wait = w
  BY <1>13, <1>14, AwokenSleepers
<1>23. ASSUME NEW p, NEW w, Foreign(w)
       PROVE  (\E s \in Slots \ {z} : t[s].pid = p /\ t[s].wait = w)
              <=> \/ \E s \in Slots \ {z} : tasks[s].pid = p /\ tasks[s].wait = w
                  \/ p = current /\ w = chan
  BY <1>2, <1>4, <1>6, <1>7, <1>9, <1>12, <1>23
<1> QED
  BY <1>5, <1>19, <1>21, <1>22, <1>23

-----------------------------------------------------------------------------
(* Endpoints.                                                              *)

(* ReceiverRecorded of a table and the endpoints, in terms of who sleeps.  *)
Receivers(t, ep) ==
    \A e \in Endpoints :
        /\ ep[e].waiting_receiver \in {NoPid, ep[e].owner}
        /\ (ep[e].waiting_receiver = ep[e].owner)
              <=> Sleeps(t, ep[e].owner, IpcRecv(e))
        /\ ep[e].waiting_receiver = ep[e].owner => ep[e].pending = <<>>
        /\ \A p : Sleeps(t, p, IpcRecv(e)) => p = ep[e].owner

(* The data of at most one message of the queue is in copy_buf.            *)
OneBuffered(x) ==
    /\ \A i, j \in DOMAIN x.pending :
          x.pending[i].buf_len > 0 /\ x.pending[j].buf_len > 0 => i = j
    /\ \A i \in DOMAIN x.pending : x.pending[i].buf_len > 0 => x.has_buffered

(* The inductive invariant.                                                *)
IpcInv ==
    /\ TasksInv
    /\ IpcTypeOK
    /\ Receivers(tasks, eps)
    /\ \A e \in Endpoints : OneBuffered(eps[e])
    /\ BootTasks < next_pid

-----------------------------------------------------------------------------
(* Asleep, in this state and the next one, in terms of Sleeps.             *)
LEMMA AsleepSleeps ==
    /\ \A p : \A e \in Int : Asleep(p, IpcRecv(e)) <=> Sleeps(tasks, p, IpcRecv(e))
    /\ \A p : \A e \in Int : Asleep(p, IpcCall(e)) <=> Sleeps(tasks, p, IpcCall(e))
BY ChannelsDiffer DEF Asleep, Sleeps

LEMMA EndpointsInt == Endpoints \subseteq Pids /\ Endpoints \subseteq Int
BY IpcAssumption, TasksAssumption DEF Pids

(* Receivers is ReceiverRecorded.                                          *)
LEMMA ReceiversRecorded == Receivers(tasks, eps) <=> ReceiverRecorded
<1>1. \A e \in Endpoints : \A p : Asleep(p, IpcRecv(e)) <=> Sleeps(tasks, p, IpcRecv(e))
  BY AsleepSleeps, EndpointsInt
<1>2. \A e \in Endpoints :
        (\A p : Sleeps(tasks, p, IpcRecv(e)) => p = eps[e].owner)
        <=> \A s \in Slots : tasks[s].wait = IpcRecv(e) => tasks[s].pid = eps[e].owner
  BY ChannelsDiffer, EndpointsInt DEF Sleeps
<1> QED
  BY <1>1, <1>2 DEF Receivers, ReceiverRecorded, ReceiverWaits

(* A set has at most one element or two that differ.                       *)
LEMMA AtMostOne ==
    ASSUME NEW S, IsFiniteSet(S)
    PROVE  Cardinality(S) <= 1 <=> \A x, y \in S : x = y
<1>1. Cardinality(S) \in Nat
  BY FS_CardinalityType
<1>2. ASSUME Cardinality(S) <= 1 PROVE \A x, y \in S : x = y
  <2>1. Cardinality(S) = 0 \/ Cardinality(S) = 1
    BY <1>1, <1>2
  <2> QED
    BY <2>1, FS_EmptySet, FS_Singleton
<1>3. ASSUME \A x, y \in S : x = y PROVE Cardinality(S) <= 1
  <2>1. CASE S = {}
    BY <2>1, FS_EmptySet
  <2>2. CASE S # {}
    <3>1. PICK x \in S : TRUE
      BY <2>2
    <3>2. S = {x}
      BY <1>3, <3>1
    <3> QED
      BY <3>2, FS_Singleton
  <2> QED
    BY <2>1, <2>2
<1> QED
  BY <1>2, <1>3

(* OneBuffered is OneBufferedMessage.                                      *)
LEMMA OneBufferedAll ==
    ASSUME IpcTypeOK, \A e \in Endpoints : OneBuffered(eps[e])
    PROVE  OneBufferedMessage
<1> SUFFICES ASSUME NEW e \in Endpoints
             PROVE  /\ Cardinality(Buffered(e)) <= 1
                    /\ Buffered(e) # {} => eps[e].has_buffered
  BY DEF OneBufferedMessage
<1>1. eps[e].pending \in Seq(Message)
  BY DEF IpcTypeOK, Endpoint
<1>2. DOMAIN eps[e].pending = 1 .. Len(eps[e].pending) /\ Len(eps[e].pending) \in Nat
  BY <1>1
<1>3. IsFiniteSet(DOMAIN eps[e].pending)
  BY <1>2, FS_Interval
<1>4. Buffered(e) \in SUBSET (DOMAIN eps[e].pending)
  BY DEF Buffered
<1>5. IsFiniteSet(Buffered(e))
  BY <1>3, <1>4, FS_Subset
<1>6. \A i, j \in Buffered(e) : i = j
  BY DEF Buffered, OneBuffered
<1>7. Buffered(e) # {} => eps[e].has_buffered
  BY DEF Buffered, OneBuffered
<1> QED
  BY <1>5, <1>6, <1>7, AtMostOne

-----------------------------------------------------------------------------
(* Types of what the calls put into registers and buffers.                 *)

LEMMA WordTypes ==
    /\ Payloads \subseteq Words /\ NoPayload \in Words
    /\ 0 \in Lens /\ BufSize \in Lens
    /\ \A w \in Payloads, n \in Lens : \A b \in Filled(n) : b \in Buffer
    /\ NoFrame \in Frame /\ Junk \in Buffer
BY IpcAssumption DEF Words, NoPayload, Lens, Filled, Buffer, NoFrame, Frame, Junk

LEMMA BufferTypes ==
    ASSUME NEW b \in Buffer, NEW n \in Lens, NEW old \in Buffer, NEW mapped
    PROVE  /\ Prefix(b, n) \in Buffer
           /\ Prefix(b, n).data = b.data
           /\ Prefix(b, n).len = IF n < b.len THEN n ELSE b.len
           /\ Got(Prefix(b, n), mapped) \in Lens
           /\ Written(old, Prefix(b, n), mapped) \in Buffer
<1>1. b.data \in Words /\ b.len \in Lens /\ b.len \in Nat /\ n \in Nat
  BY IpcAssumption DEF Buffer, Lens
<1>2. Prefix(b, n) = [data |-> b.data, len |-> IF n < b.len THEN n ELSE b.len]
  BY DEF Prefix, Buffer
<1>3. Prefix(b, n) \in Buffer
  BY <1>1, <1>2 DEF Buffer
<1>4. Prefix(b, n).data = b.data /\ Prefix(b, n).len = IF n < b.len THEN n ELSE b.len
  BY <1>2
<1>5. Prefix(b, n).len \in Lens
  BY <1>3 DEF Buffer
<1> QED
  BY <1>3, <1>4, <1>5, WordTypes DEF Got, Written

LEMMA FrameTypes ==
    ASSUME NEW f \in Frame, NEW p \in Pids, NEW w \in Words, NEW n \in Lens
    PROVE  /\ SavedCall(w, n) \in Frame
           /\ SavedCall(w, n).from = NoPid /\ SavedCall(w, n).words = w
           /\ SavedCall(w, n).a5 = 0 /\ SavedCall(w, n).a6 = n
           /\ SetMessage(f, p, w) \in Frame
           /\ SetMessage(f, p, w).from = p /\ SetMessage(f, p, w).words = w
           /\ [SetMessage(f, p, w) EXCEPT !.a5 = n] \in Frame
           /\ [SetMessage(f, p, w) EXCEPT !.a5 = n].from = p
           /\ [SetMessage(f, p, w) EXCEPT !.a5 = n].words = w
           /\ [SetMessage(f, p, w) EXCEPT !.a5 = n].a5 = n
           /\ [NoFrame EXCEPT !.a5 = n] \in Frame
           /\ [f EXCEPT !.from = NoPid, !.words = w] \in Frame
           /\ [f EXCEPT !.from = NoPid, !.words = w, !.a5 = n] \in Frame
<1>1. /\ f.from \in Pids \cup {NoPid} /\ f.words \in Words
      /\ f.a5 \in Lens /\ f.a6 \in Lens
  BY DEF Frame
<1>2. 0 \in Lens /\ NoPayload \in Words
  BY WordTypes
<1>3. /\ SetMessage(f, p, w) \in Frame
      /\ SetMessage(f, p, w).from = p /\ SetMessage(f, p, w).words = w
      /\ SetMessage(f, p, w).a6 = f.a6
  BY DEF SetMessage, Frame
<1> DEFINE g == SetMessage(f, p, w)
<1> HIDE DEF g
<1>4. /\ [g EXCEPT !.a5 = n] \in Frame /\ [g EXCEPT !.a5 = n].from = g.from
      /\ [g EXCEPT !.a5 = n].words = g.words /\ [g EXCEPT !.a5 = n].a5 = n
  BY <1>3 DEF Frame, g
<1>5. [NoFrame EXCEPT !.a5 = n] \in Frame
  BY WordTypes DEF Frame
<1>6. [f EXCEPT !.from = NoPid, !.words = w] \in Frame
  BY DEF Frame
<1>7. [f EXCEPT !.from = NoPid, !.words = w, !.a5 = n] \in Frame
  BY DEF Frame
<1>8. /\ SavedCall(w, n) \in Frame
      /\ SavedCall(w, n).from = NoPid /\ SavedCall(w, n).words = w
      /\ SavedCall(w, n).a5 = 0 /\ SavedCall(w, n).a6 = n
  BY <1>2 DEF Frame, SavedCall
<1> QED
  BY <1>3, <1>4, <1>5, <1>6, <1>7, <1>8 DEF g

(* Who makes a system call is a process, and so is a new child.            *)
LEMMA CallerPid ==
    ASSUME TasksInv
    PROVE  /\ current # IdlePid => current \in Pids
           /\ current # IdlePid => current < next_pid
           /\ next_pid \in Nat /\ next_pid > 0
           /\ next_pid <= MaxPid => next_pid \in Pids
<1>1. /\ TableOK(tasks, next_pid, current) /\ next_pid \in Nat
      /\ next_pid <= MaxPid + 1 /\ MaxPid \in Nat
  BY TasksAssumption DEF TasksInv, TasksTypeOK, ReportsOK
<1>2. PICK m \in Slots : tasks[m].pid = current /\ tasks[m].state = "Running"
  BY DEF TasksInv, Runs
<1>3. current \in 0 .. next_pid - 1
  BY <1>1, <1>2 DEF TableOK, UniquePids
<1> QED
  BY <1>1, <1>3 DEF Pids, IdlePid

-----------------------------------------------------------------------------
(* What the parts of the calls do to the table.                            *)

(* A call that finds the receiver asleep changes places with it.           *)
LEMMA WakeReceiverStep ==
    ASSUME IpcInv, NEW e \in Endpoints, CanCall(e), ReceiverWaits(e),
           WakeReceiver(e), next_pid' = next_pid, reports' = reports
    PROVE  /\ TasksInv' /\ StepOK
           /\ \A p, w : Sleeps(tasks', p, w) <=>
                 \/ Sleeps(tasks, p, w) /\ p # eps[e].owner
                 \/ p = current /\ w = IpcCall(e)
<1>1. IpcCall(e) \in WaitChannel /\ Foreign(IpcCall(e))
  BY ChannelsDiffer, EndpointsInt
<1>2. Sleeps(tasks, eps[e].owner, IpcRecv(e))
  BY DEF IpcInv, Receivers, ReceiverWaits
<1>3. /\ Schedule(Wake(Block(tasks, SlotOf(tasks, current), IpcCall(e)),
                       SlotOf(tasks, eps[e].owner)))
      /\ runnable_count' = SaturatingSub(runnable_count) + 1
  BY DEF WakeReceiver, Calling, Me
<1>4. TasksInv /\ current # IdlePid
  BY DEF IpcInv, CanCall
<1> QED
  BY <1>1, <1>2, <1>3, <1>4, BlockWakeStep

(* A call or a receive that blocks.                                        *)
LEMMA JustBlockStep ==
    ASSUME IpcInv, current # IdlePid, NEW chan \in WaitChannel, Foreign(chan),
           JustBlock(Block(tasks, Me, chan)),
           next_pid' = next_pid, reports' = reports
    PROVE  /\ TasksInv' /\ StepOK
           /\ \A p, w : Sleeps(tasks', p, w) <=>
                 Sleeps(tasks, p, w) \/ (p = current /\ w = chan)
<1>1. /\ Schedule(Block(tasks, SlotOf(tasks, current), chan))
      /\ runnable_count' = SaturatingSub(runnable_count)
  BY DEF JustBlock, Me
<1>2. TasksInv
  BY DEF IpcInv
<1> QED
  BY <1>1, <1>2, BlockStep

(* A reply.                                                                *)
LEMMA AnswerStep ==
    ASSUME IpcInv, current # IdlePid, NEW p, AwaitsReply(p), Answer(p)
    PROVE  /\ TasksInv' /\ StepOK
           /\ \E e \in Endpoints : Sleeps(tasks, p, IpcCall(e)) /\ eps[e].owner = current
           /\ \A q, w : Sleeps(tasks', q, w) <=> Sleeps(tasks, q, w) /\ q # p
<1>1. PICK e \in Endpoints : Sleeps(tasks, p, IpcCall(e)) /\ eps[e].owner = current
  BY ChannelsDiffer, EndpointsInt DEF AwaitsReply, Sleeps
<1>2. /\ tasks' = Wake(tasks, SlotOf(tasks, p)) /\ current' = current
      /\ runnable_count' = runnable_count + 1
      /\ next_pid' = next_pid /\ reports' = reports
  BY DEF Answer
<1>3. TasksInv
  BY DEF IpcInv
<1>4. /\ TasksInv' /\ StepOK
      /\ \A q, w : Sleeps(tasks', q, w) <=> Sleeps(tasks, q, w) /\ q # p
  BY <1>1, <1>2, <1>3, WakeStep
<1> QED
  BY <1>1, <1>4

(* IPC channels of different endpoints or kinds are different.             *)
LEMMA IpcChannels ==
    ASSUME NEW d \in Endpoints, NEW e \in Endpoints
    PROVE  /\ IpcCall(d) # IpcRecv(e)
           /\ IpcCall(d) = IpcCall(e) <=> d = e
           /\ IpcRecv(d) = IpcRecv(e) <=> d = e
BY ChannelsDiffer, EndpointsInt

(* Nothing about the receivers changes if their sleep and the endpoints do *)
(* not.                                                                    *)
LEMMA ReceiversKept ==
    ASSUME Receivers(tasks, eps),
           \A d \in Endpoints : \A p :
              Sleeps(tasks', p, IpcRecv(d)) <=> Sleeps(tasks, p, IpcRecv(d)),
           \A d \in Endpoints :
              /\ eps'[d].owner = eps[d].owner
              /\ eps'[d].waiting_receiver = eps[d].waiting_receiver
              /\ eps'[d].waiting_receiver = eps'[d].owner => eps'[d].pending = <<>>
    PROVE  Receivers(tasks', eps')
BY DEF Receivers

(* The pieces of the invariant in the next state.                          *)
LEMMA IpcInvNext ==
    ASSUME TasksInv', IpcTypeOK', Receivers(tasks', eps'),
           \A e \in Endpoints : OneBuffered(eps'[e]), BootTasks < next_pid'
    PROVE  IpcInv'
<1>1. Receivers(tasks, eps)'
  BY DEF Receivers, Sleeps
<1>2. (\A e \in Endpoints : OneBuffered(eps[e]))'
  BY DEF OneBuffered
<1> QED
  BY <1>1, <1>2 DEF IpcInv

(* kernel_main registers endpoints with nobody waiting and empty queues.   *)
LEMMA IpcInitInv == TasksInit /\ IpcInit => IpcInv
<1> SUFFICES ASSUME TasksInit, IpcInit PROVE IpcInv
  OBVIOUS
<1>1. TasksInv /\ BootTasks < next_pid
  BY InitInv, TasksAssumption DEF TasksInit
<1>2. Endpoints \subseteq Pids /\ MaxPid \in Nat
  BY EndpointsInt, TasksAssumption
<1>3. \A e \in Endpoints :
         /\ eps[e] \in Endpoint /\ eps[e].owner = e
         /\ eps[e].waiting_receiver = NoPid /\ eps[e].pending = <<>>
  BY <1>2, WordTypes DEF IpcInit, NewEndpoint, Endpoint
<1>4. IpcTypeOK
  <2>1. [data |-> NoPayload, len |-> 0] \in Buffer
    BY WordTypes DEF Buffer
  <2> QED
    BY <1>3, <2>1, WordTypes DEF IpcTypeOK, IpcInit
<1>5. \A p, w : ~Sleeps(tasks, p, w)
  <2>1. \A s \in Slots : tasks[s].wait = NoWait
    BY DEF TasksInit, NoTask, NewTask
  <2> QED
    BY <2>1, ChannelsDiffer DEF Sleeps
<1>6. Receivers(tasks, eps)
  BY <1>2, <1>3, <1>5 DEF Receivers, NoPid, Pids
<1>7. \A e \in Endpoints : OneBuffered(eps[e])
  BY <1>3 DEF OneBuffered
<1> QED
  BY <1>1, <1>4, <1>6, <1>7 DEF IpcInv

-----------------------------------------------------------------------------
(* One lemma per action.                                                   *)

(* An endpoint whose receiver was woken.                                   *)
LEMMA ReceiverWoken ==
    ASSUME IpcInv, NEW e \in Endpoints, ReceiverWaits(e),
           \A p, w : Sleeps(tasks', p, w) <=>
              \/ Sleeps(tasks, p, w) /\ p # eps[e].owner
              \/ p = current /\ w = IpcCall(e),
           eps' \in [Endpoints -> Endpoint],
           \A d \in Endpoints \ {e} : eps'[d] = eps[d],
           eps'[e].owner = eps[e].owner, eps'[e].waiting_receiver = NoPid,
           eps'[e].pending = eps[e].pending,
           eps'[e].has_buffered = eps[e].has_buffered
    PROVE  /\ Receivers(tasks', eps')
           /\ \A d \in Endpoints : OneBuffered(eps'[d])
<1>1. Receivers(tasks, eps) /\ TasksInv /\ eps \in [Endpoints -> Endpoint]
  BY DEF IpcInv, IpcTypeOK
<1>2. eps[e].owner # NoPid
  BY <1>1, TasksAssumption DEF Endpoint, Pids, NoPid
<1>3. Sleeps(tasks, eps[e].owner, IpcRecv(e))
  BY <1>1 DEF Receivers, ReceiverWaits
<1>4. \A p : ~Sleeps(tasks', p, IpcRecv(e))
  BY <1>1, IpcChannels DEF Receivers
<1>5. \A d \in Endpoints \ {e} : \A p :
         Sleeps(tasks', p, IpcRecv(d)) <=> Sleeps(tasks, p, IpcRecv(d))
  BY <1>1, <1>3, IpcChannels, SleeperFacts
<1>6. Receivers(tasks', eps')
  <2> SUFFICES ASSUME NEW d \in Endpoints
               PROVE  /\ eps'[d].waiting_receiver \in {NoPid, eps'[d].owner}
                      /\ (eps'[d].waiting_receiver = eps'[d].owner)
                            <=> Sleeps(tasks', eps'[d].owner, IpcRecv(d))
                      /\ eps'[d].waiting_receiver = eps'[d].owner => eps'[d].pending = <<>>
                      /\ \A p : Sleeps(tasks', p, IpcRecv(d)) => p = eps'[d].owner
    BY DEF Receivers
  <2>1. CASE d = e
    BY <1>2, <1>4, <2>1
  <2>2. CASE d # e
    BY <1>1, <1>5, <2>2 DEF Receivers
  <2> QED
    BY <2>1, <2>2
<1>7. \A d \in Endpoints : OneBuffered(eps'[d])
  BY DEF IpcInv, OneBuffered
<1> QED
  BY <1>6, <1>7

(* ipc_call, the owner waiting.                                            *)
LEMMA CallWakeInv ==
    ASSUME IpcInv, NEW e \in Endpoints, NEW w \in Words, NEW cap \in Lens,
           SysIpcCallWake(e, w, cap)
    PROVE  IpcInv' /\ StepOK
<1>1. /\ CanCall(e) /\ ReceiverWaits(e) /\ WakeReceiver(e)
      /\ next_pid' = next_pid /\ reports' = reports /\ mem' = mem
      /\ eps' = [eps EXCEPT ![e].waiting_receiver = NoPid]
      /\ frame' = [frame EXCEPT ![current] = SavedCall(w, cap),
                                ![eps[e].owner] = SetMessage(@, current, w)]
  BY DEF SysIpcCallWake
<1>2. /\ TasksInv /\ eps \in [Endpoints -> Endpoint] /\ frame \in [Pids -> Frame]
      /\ mem \in [Pids -> Buffer]
  BY DEF IpcInv, IpcTypeOK
<1>3. /\ TasksInv' /\ StepOK
      /\ \A p, v : Sleeps(tasks', p, v) <=>
            \/ Sleeps(tasks, p, v) /\ p # eps[e].owner
            \/ p = current /\ v = IpcCall(e)
  BY <1>1, WakeReceiverStep
<1>4. /\ eps' \in [Endpoints -> Endpoint]
      /\ \A d \in Endpoints \ {e} : eps'[d] = eps[d]
      /\ eps'[e].owner = eps[e].owner /\ eps'[e].waiting_receiver = NoPid
      /\ eps'[e].pending = eps[e].pending
      /\ eps'[e].has_buffered = eps[e].has_buffered
  BY <1>1, <1>2 DEF Endpoint
<1>5. Receivers(tasks', eps') /\ \A d \in Endpoints : OneBuffered(eps'[d])
  BY <1>1, <1>3, <1>4, ReceiverWoken
<1>6. frame' \in [Pids -> Frame]
  <2>1. current \in Pids /\ eps[e].owner \in Pids /\ current # eps[e].owner
    BY <1>1, <1>2, CallerPid DEF CanCall, Endpoint
  <2>2. SavedCall(w, cap) \in Frame /\ SetMessage(frame[eps[e].owner], current, w) \in Frame
    BY <1>2, <2>1, FrameTypes
  <2> QED
    BY <1>1, <1>2, <2>1, <2>2
<1> QED
  BY <1>1, <1>2, <1>3, <1>4, <1>5, <1>6, IpcInvNext DEF IpcInv, IpcTypeOK

(* ipc_call_buf, the owner waiting.                                        *)
LEMMA CallBufWakeInv ==
    ASSUME IpcInv, NEW e \in Endpoints, NEW w \in Words, NEW b \in Buffer,
           NEW mapped \in BOOLEAN, SysIpcCallBufWake(e, w, b, mapped)
    PROVE  IpcInv' /\ StepOK
<1> DEFINE owner == eps[e].owner
           out == Prefix(b, eps[e].recv_buf)
<1>1. /\ CanCall(e) /\ ReceiverWaits(e) /\ WakeReceiver(e)
      /\ next_pid' = next_pid /\ reports' = reports
      /\ eps' = [eps EXCEPT ![e].waiting_receiver = NoPid,
                            ![e].copy_buf = CopiedIn(e, b),
                            ![e].recv_buf = 0]
      /\ frame' = [frame EXCEPT
            ![current] = SavedCall(w, b.len),
            ![owner] = [SetMessage(@, current, w) EXCEPT !.a5 = Got(out, mapped)]]
      /\ mem' = [mem EXCEPT ![current] = b,
                            ![owner] = Written(@, out, mapped)]
  BY DEF SysIpcCallBufWake, CanCallBuf
<1>2. /\ TasksInv /\ eps \in [Endpoints -> Endpoint] /\ frame \in [Pids -> Frame]
      /\ mem \in [Pids -> Buffer]
  BY DEF IpcInv, IpcTypeOK
<1>3. /\ TasksInv' /\ StepOK
      /\ \A p, v : Sleeps(tasks', p, v) <=>
            \/ Sleeps(tasks, p, v) /\ p # eps[e].owner
            \/ p = current /\ v = IpcCall(e)
  BY <1>1, WakeReceiverStep
<1>4. /\ eps' \in [Endpoints -> Endpoint]
      /\ \A d \in Endpoints \ {e} : eps'[d] = eps[d]
      /\ eps'[e].owner = eps[e].owner /\ eps'[e].waiting_receiver = NoPid
      /\ eps'[e].pending = eps[e].pending
      /\ eps'[e].has_buffered = eps[e].has_buffered
  <2>1. CopiedIn(e, b) \in Words /\ 0 \in Lens
    BY <1>2, WordTypes DEF CopiedIn, Buffer, Endpoint
  <2> QED
    BY <1>1, <1>2, <2>1 DEF Endpoint
<1>5. Receivers(tasks', eps') /\ \A d \in Endpoints : OneBuffered(eps'[d])
  BY <1>1, <1>3, <1>4, ReceiverWoken
<1>6. /\ current \in Pids /\ owner \in Pids /\ current # owner
      /\ eps[e].recv_buf \in Lens /\ b.len \in Lens
  BY <1>1, <1>2, CallerPid DEF CanCall, Endpoint, Buffer
<1>7. Got(out, mapped) \in Lens /\ Written(mem[owner], out, mapped) \in Buffer
  BY <1>2, <1>6, BufferTypes
<1> HIDE DEF owner, out
<1>8. frame' \in [Pids -> Frame]
  <2>1. /\ SavedCall(w, b.len) \in Frame
        /\ [SetMessage(frame[owner], current, w) EXCEPT !.a5 = Got(out, mapped)] \in Frame
    BY <1>2, <1>6, <1>7, FrameTypes
  <2> QED
    BY <1>1, <1>2, <1>6, <2>1
<1>9. mem' \in [Pids -> Buffer]
  BY <1>1, <1>2, <1>6, <1>7
<1> QED
  BY <1>1, <1>2, <1>3, <1>4, <1>5, <1>8, <1>9, IpcInvNext DEF IpcInv, IpcTypeOK

(* A queue with room for a message.                                        *)
LEMMA Pushed ==
    ASSUME NEW q \in Seq(Message), NEW msg \in Message, Len(q) # MsgQueueSize
    PROVE  /\ Push(q, msg) \in Seq(Message)
           /\ Push(q, msg) = Append(q, msg)
           /\ DOMAIN Push(q, msg) = 1 .. Len(q) + 1
           /\ DOMAIN q = 1 .. Len(q) /\ Len(q) \in Nat
           /\ \A i \in 1 .. Len(q) : Push(q, msg)[i] = q[i]
           /\ Push(q, msg)[Len(q) + 1] = msg
BY DEF Push

(* A message behind the others: with data only if none of them has any.    *)
LEMMA OneBufferedPush ==
    ASSUME NEW x, OneBuffered(x), x.pending \in Seq(Message),
           Len(x.pending) # MsgQueueSize, NEW msg \in Message,
           NEW y, y.pending = Push(x.pending, msg),
           msg.buf_len > 0 => ~x.has_buffered /\ y.has_buffered,
           x.has_buffered => y.has_buffered
    PROVE  OneBuffered(y)
<1> DEFINE q == x.pending
           r == y.pending
<1>1. /\ r \in Seq(Message) /\ DOMAIN r = 1 .. Len(q) + 1
      /\ DOMAIN q = 1 .. Len(q) /\ Len(q) \in Nat
      /\ \A i \in 1 .. Len(q) : r[i] = q[i]
      /\ r[Len(q) + 1] = msg
  <2>1. q \in Seq(Message) /\ Len(q) # MsgQueueSize /\ r = Push(q, msg)
    OBVIOUS
  <2> HIDE DEF q, r
  <2> QED
    BY <2>1, Pushed
<1>2. ASSUME NEW i \in DOMAIN r, r[i].buf_len > 0
      PROVE  \/ i \in DOMAIN q /\ q[i].buf_len > 0 /\ x.has_buffered
             \/ i = Len(q) + 1 /\ msg.buf_len > 0
  BY <1>1, <1>2 DEF OneBuffered
<1> QED
  BY <1>1, <1>2 DEF OneBuffered

(* ipc_call, the owner busy.                                               *)
LEMMA CallQueueInv ==
    ASSUME IpcInv, NEW e \in Endpoints, NEW w \in Words, NEW cap \in Lens,
           SysIpcCallQueue(e, w, cap)
    PROVE  IpcInv' /\ StepOK
<1> DEFINE msg == [sender |-> current, words |-> w, buf_len |-> 0]
<1>1. /\ CanCall(e) /\ ~ReceiverWaits(e) /\ JustBlock(Block(tasks, Me, IpcCall(e)))
      /\ next_pid' = next_pid /\ reports' = reports /\ mem' = mem
      /\ eps' = [eps EXCEPT ![e].pending = Push(@, msg)]
      /\ frame' = [frame EXCEPT ![current] = SavedCall(w, cap)]
  BY DEF SysIpcCallQueue, Calling
<1>2. /\ TasksInv /\ eps \in [Endpoints -> Endpoint] /\ frame \in [Pids -> Frame]
      /\ mem \in [Pids -> Buffer]
  BY DEF IpcInv, IpcTypeOK
<1>3. /\ current # IdlePid /\ current \in Pids
      /\ eps[e].pending \in Seq(Message) /\ Len(eps[e].pending) # MsgQueueSize
  BY <1>1, <1>2, CallerPid DEF CanCall, QueueFull, Endpoint
<1>4. /\ TasksInv' /\ StepOK
      /\ \A p, v : Sleeps(tasks', p, v) <=>
            Sleeps(tasks, p, v) \/ (p = current /\ v = IpcCall(e))
  <2>1. IpcCall(e) \in WaitChannel /\ Foreign(IpcCall(e))
    BY ChannelsDiffer, EndpointsInt
  <2> QED
    BY <1>1, <1>3, <2>1, JustBlockStep
<1>5. msg \in Message /\ ~(msg.buf_len > 0)
  BY <1>3, WordTypes DEF Message
<1> HIDE DEF msg
<1>6. /\ eps' \in [Endpoints -> Endpoint]
      /\ \A d \in Endpoints \ {e} : eps'[d] = eps[d]
      /\ eps'[e].owner = eps[e].owner
      /\ eps'[e].waiting_receiver = eps[e].waiting_receiver
      /\ eps'[e].pending = Push(eps[e].pending, msg)
      /\ eps'[e].has_buffered = eps[e].has_buffered
  <2>1. Push(eps[e].pending, msg) \in Seq(Message)
    BY <1>3, <1>5, Pushed
  <2> QED
    BY <1>1, <1>2, <2>1 DEF Endpoint
<1>7. Receivers(tasks', eps')
  <2>1. \A d \in Endpoints : \A p :
           Sleeps(tasks', p, IpcRecv(d)) <=> Sleeps(tasks, p, IpcRecv(d))
    BY <1>4, IpcChannels
  <2>2. Receivers(tasks, eps)
    BY DEF IpcInv
  <2>3. \A d \in Endpoints :
           /\ eps'[d].owner = eps[d].owner
           /\ eps'[d].waiting_receiver = eps[d].waiting_receiver
           /\ eps'[d].waiting_receiver = eps'[d].owner => eps'[d].pending = <<>>
    BY <1>1, <1>6, <2>2 DEF Receivers, ReceiverWaits
  <2> QED
    BY <2>1, <2>2, <2>3, ReceiversKept
<1>8. \A d \in Endpoints : OneBuffered(eps'[d])
  <2>1. OneBuffered(eps'[e])
    BY <1>3, <1>5, <1>6, OneBufferedPush DEF IpcInv
  <2> QED
    BY <1>6, <2>1 DEF IpcInv
<1>9. frame' \in [Pids -> Frame]
  <2>1. SavedCall(w, cap) \in Frame
    BY <1>2, <1>3, FrameTypes
  <2> QED
    BY <1>1, <1>2, <1>3, <2>1
<1> QED
  BY <1>1, <1>2, <1>4, <1>6, <1>7, <1>8, <1>9, IpcInvNext DEF IpcInv, IpcTypeOK

(* ipc_call_buf, the owner busy: has_buffered keeps a second message with  *)
(* data out.                                                               *)
LEMMA CallBufQueueInv ==
    ASSUME IpcInv, NEW e \in Endpoints, NEW w \in Words, NEW b \in Buffer,
           SysIpcCallBufQueue(e, w, b)
    PROVE  IpcInv' /\ StepOK
<1> DEFINE msg == [sender |-> current, words |-> w, buf_len |-> b.len]
<1>1. /\ CanCall(e) /\ ~ReceiverWaits(e) /\ JustBlock(Block(tasks, Me, IpcCall(e)))
      /\ ~eps[e].has_buffered
      /\ next_pid' = next_pid /\ reports' = reports
      /\ eps' = [eps EXCEPT ![e].pending = Push(@, msg),
                            ![e].copy_buf = CopiedIn(e, b),
                            ![e].has_buffered = @ \/ b.len > 0]
      /\ frame' = [frame EXCEPT ![current] = SavedCall(w, b.len)]
      /\ mem' = [mem EXCEPT ![current] = b]
  BY DEF SysIpcCallBufQueue, Calling, CanCallBuf
<1>2. /\ TasksInv /\ eps \in [Endpoints -> Endpoint] /\ frame \in [Pids -> Frame]
      /\ mem \in [Pids -> Buffer]
  BY DEF IpcInv, IpcTypeOK
<1>3. /\ current # IdlePid /\ current \in Pids
      /\ eps[e].pending \in Seq(Message) /\ Len(eps[e].pending) # MsgQueueSize
      /\ b.len \in Lens /\ b.data \in Words
  BY <1>1, <1>2, CallerPid DEF CanCall, QueueFull, Endpoint, Buffer
<1>4. /\ TasksInv' /\ StepOK
      /\ \A p, v : Sleeps(tasks', p, v) <=>
            Sleeps(tasks, p, v) \/ (p = current /\ v = IpcCall(e))
  <2>1. IpcCall(e) \in WaitChannel /\ Foreign(IpcCall(e))
    BY ChannelsDiffer, EndpointsInt
  <2> QED
    BY <1>1, <1>3, <2>1, JustBlockStep
<1>5. msg \in Message /\ msg.buf_len = b.len
  BY <1>3, WordTypes DEF Message
<1> HIDE DEF msg
<1>6. /\ eps' \in [Endpoints -> Endpoint]
      /\ \A d \in Endpoints \ {e} : eps'[d] = eps[d]
      /\ eps'[e].owner = eps[e].owner
      /\ eps'[e].waiting_receiver = eps[e].waiting_receiver
      /\ eps'[e].pending = Push(eps[e].pending, msg)
      /\ eps'[e].has_buffered = (eps[e].has_buffered \/ b.len > 0)
  <2>1. Push(eps[e].pending, msg) \in Seq(Message)
    BY <1>3, <1>5, Pushed
  <2>2. CopiedIn(e, b) \in Words
    BY <1>2, <1>3 DEF CopiedIn, Endpoint
  <2>3. (eps[e].has_buffered \/ b.len > 0) \in BOOLEAN
    OBVIOUS
  <2> QED
    BY <1>1, <1>2, <2>1, <2>2, <2>3 DEF Endpoint
<1>7. Receivers(tasks', eps')
  <2>1. \A d \in Endpoints : \A p :
           Sleeps(tasks', p, IpcRecv(d)) <=> Sleeps(tasks, p, IpcRecv(d))
    BY <1>4, IpcChannels
  <2>2. Receivers(tasks, eps)
    BY DEF IpcInv
  <2>3. \A d \in Endpoints :
           /\ eps'[d].owner = eps[d].owner
           /\ eps'[d].waiting_receiver = eps[d].waiting_receiver
           /\ eps'[d].waiting_receiver = eps'[d].owner => eps'[d].pending = <<>>
    BY <1>1, <1>6, <2>2 DEF Receivers, ReceiverWaits
  <2> QED
    BY <2>1, <2>2, <2>3, ReceiversKept
<1>8. \A d \in Endpoints : OneBuffered(eps'[d])
  <2>1. msg.buf_len > 0 => ~eps[e].has_buffered /\ eps'[e].has_buffered
    BY <1>1, <1>5, <1>6, Zenon
  <2>2. eps[e].has_buffered => eps'[e].has_buffered
    BY <1>6, Zenon
  <2>3. OneBuffered(eps[e])
    BY DEF IpcInv
  <2>4. OneBuffered(eps'[e])
    BY <1>3, <1>5, <1>6, <2>1, <2>2, <2>3, OneBufferedPush
  <2> QED
    BY <1>6, <2>4 DEF IpcInv
<1>9. frame' \in [Pids -> Frame] /\ mem' \in [Pids -> Buffer]
  <2>1. SavedCall(w, b.len) \in Frame
    BY <1>2, <1>3, FrameTypes
  <2> QED
    BY <1>1, <1>2, <1>3, <2>1
<1> QED
  BY <1>1, <1>2, <1>4, <1>6, <1>7, <1>8, <1>9, IpcInvNext DEF IpcInv, IpcTypeOK

(* ipc_call_buf of a buffer that is not mapped to its end.                 *)
LEMMA CallBufFaultInv ==
    ASSUME IpcInv, NEW e \in Endpoints, SysIpcCallBufFault(e)
    PROVE  IpcInv' /\ StepOK
<1>1. /\ eps' = [eps EXCEPT ![e].copy_buf = NoPayload]
      /\ UNCHANGED tasksVars /\ frame' = frame /\ mem' = mem
  BY DEF SysIpcCallBufFault
<1>2. /\ TasksInv /\ eps \in [Endpoints -> Endpoint] /\ frame \in [Pids -> Frame]
      /\ mem \in [Pids -> Buffer]
  BY DEF IpcInv, IpcTypeOK
<1>3. /\ eps' \in [Endpoints -> Endpoint]
      /\ \A d \in Endpoints :
            /\ eps'[d].owner = eps[d].owner
            /\ eps'[d].waiting_receiver = eps[d].waiting_receiver
            /\ eps'[d].pending = eps[d].pending
            /\ eps'[d].has_buffered = eps[d].has_buffered
  BY <1>1, <1>2, WordTypes DEF Endpoint
<1>4. TasksInv'
  BY <1>1, <1>2, StutterStep
<1>5. tasks' = tasks /\ next_pid' = next_pid /\ current' = current
  BY <1>1 DEF tasksVars
<1>6. StepOK
  BY <1>5 DEF StepOK, NoTask, NewTask
<1>7. Receivers(tasks', eps')
  <2>1. \A d \in Endpoints :
           eps'[d].waiting_receiver = eps'[d].owner => eps'[d].pending = <<>>
    BY <1>3 DEF IpcInv, Receivers
  <2> QED
    BY <1>3, <1>5, <2>1, ReceiversKept DEF IpcInv
<1>8. \A d \in Endpoints : OneBuffered(eps'[d])
  BY <1>3 DEF IpcInv, OneBuffered
<1> QED
  BY <1>1, <1>2, <1>3, <1>4, <1>5, <1>6, <1>7, <1>8, IpcInvNext DEF IpcInv, IpcTypeOK

(* The oldest message of a queue, and the rest of it.                      *)
LEMMA Popped ==
    ASSUME NEW q \in Seq(Message), q # <<>>
    PROVE  /\ Head(q) \in Message /\ Head(q) = q[1] /\ 1 \in DOMAIN q
           /\ Tail(q) \in Seq(Message)
           /\ Len(q) \in Nat /\ Len(q) >= 1
           /\ DOMAIN q = 1 .. Len(q) /\ DOMAIN Tail(q) = 1 .. Len(q) - 1
           /\ \A i \in DOMAIN Tail(q) : Tail(q)[i] = q[i + 1] /\ i + 1 \in DOMAIN q
OBVIOUS

(* The rest of a queue; the flag may go down with the message that had     *)
(* data.                                                                   *)
LEMMA OneBufferedPop ==
    ASSUME NEW x, OneBuffered(x), x.pending \in Seq(Message), x.pending # <<>>,
           NEW y, y.pending = Tail(x.pending),
           x.has_buffered /\ ~(Head(x.pending).buf_len > 0) => y.has_buffered
    PROVE  OneBuffered(y)
<1> DEFINE q == x.pending
           r == y.pending
<1>1. /\ Head(q) = q[1] /\ 1 \in DOMAIN q /\ DOMAIN r \subseteq Nat
      /\ \A i \in DOMAIN r : r[i] = q[i + 1] /\ i + 1 \in DOMAIN q
      /\ \A i \in DOMAIN r : i >= 1
  <2>1. q \in Seq(Message) /\ q # <<>> /\ r = Tail(q)
    OBVIOUS
  <2> HIDE DEF q, r
  <2> QED
    BY <2>1, Popped
<1>2. /\ \A i, j \in DOMAIN q : q[i].buf_len > 0 /\ q[j].buf_len > 0 => i = j
      /\ \A i \in DOMAIN q : q[i].buf_len > 0 => x.has_buffered
      /\ x.has_buffered /\ ~(q[1].buf_len > 0) => y.has_buffered
  BY <1>1 DEF OneBuffered
<1> HIDE DEF q, r
<1>3. \A i, j \in DOMAIN r : r[i].buf_len > 0 /\ r[j].buf_len > 0 => i = j
  BY <1>1, <1>2
<1>4. ASSUME NEW i \in DOMAIN r, r[i].buf_len > 0 PROVE y.has_buffered
  <2>1. i + 1 \in DOMAIN q /\ q[i + 1].buf_len > 0 /\ i + 1 # 1
    BY <1>1, <1>4
  <2>2. x.has_buffered /\ ~(q[1].buf_len > 0)
    BY <1>1, <1>2, <2>1
  <2> QED
    BY <1>2, <2>2
<1> QED
  BY <1>3, <1>4 DEF OneBuffered, r

(* A receive that finds a message, with or without a buffer.               *)
LEMMA TakeInv ==
    ASSUME IpcInv, NEW e \in Endpoints, CanRecv(e), eps[e].pending # <<>>,
           eps' \in [Endpoints -> Endpoint],
           \A d \in Endpoints \ {e} : eps'[d] = eps[d],
           eps'[e].owner = eps[e].owner,
           eps'[e].waiting_receiver = eps[e].waiting_receiver,
           eps'[e].pending = Tail(eps[e].pending),
           eps[e].has_buffered /\ ~(Head(eps[e].pending).buf_len > 0) =>
              eps'[e].has_buffered,
           frame' \in [Pids -> Frame], mem' \in [Pids -> Buffer],
           UNCHANGED tasksVars
    PROVE  IpcInv' /\ StepOK
<1>1. TasksInv /\ Receivers(tasks, eps) /\ eps \in [Endpoints -> Endpoint]
  BY DEF IpcInv, IpcTypeOK
<1>2. TasksInv'
  BY <1>1, StutterStep
<1>3. tasks' = tasks /\ next_pid' = next_pid /\ current' = current
  BY DEF tasksVars
<1>4. StepOK
  BY <1>3 DEF StepOK, NoTask, NewTask
<1>5. Receivers(tasks', eps')
  <2>1. \A d \in Endpoints :
           /\ eps'[d].owner = eps[d].owner
           /\ eps'[d].waiting_receiver = eps[d].waiting_receiver
           /\ eps'[d].waiting_receiver = eps'[d].owner => eps'[d].pending = <<>>
    BY <1>1 DEF Receivers
  <2> QED
    BY <1>1, <1>3, <2>1, ReceiversKept
<1>6. \A d \in Endpoints : OneBuffered(eps'[d])
  <2>1. OneBuffered(eps[e]) /\ eps[e].pending \in Seq(Message)
    BY <1>1 DEF IpcInv, Endpoint
  <2>2. OneBuffered(eps'[e])
    BY <2>1, OneBufferedPop
  <2> QED
    BY <2>2 DEF IpcInv
<1> QED
  BY <1>2, <1>3, <1>4, <1>5, <1>6, IpcInvNext DEF IpcInv, IpcTypeOK

(* ipc_recv with a message in the queue.                                   *)
LEMMA RecvTakeInv ==
    ASSUME IpcInv, NEW e \in Endpoints, SysIpcRecvTake(e)
    PROVE  IpcInv' /\ StepOK
<1> DEFINE m == Head(eps[e].pending)
<1>1. /\ CanRecv(e) /\ eps[e].pending # <<>> /\ UNCHANGED tasksVars /\ mem' = mem
      /\ eps' = [eps EXCEPT ![e].pending = Tail(@)]
      /\ frame' = [frame EXCEPT ![current] = SetMessage(@, m.sender, m.words)]
  BY DEF SysIpcRecvTake
<1>2. /\ TasksInv /\ eps \in [Endpoints -> Endpoint] /\ frame \in [Pids -> Frame]
      /\ mem \in [Pids -> Buffer] /\ eps[e].pending \in Seq(Message)
  BY DEF IpcInv, IpcTypeOK, Endpoint
<1>3. m \in Message /\ Tail(eps[e].pending) \in Seq(Message)
  BY <1>1, <1>2, Popped
<1> HIDE DEF m
<1>4. /\ eps' \in [Endpoints -> Endpoint]
      /\ \A d \in Endpoints \ {e} : eps'[d] = eps[d]
      /\ eps'[e].owner = eps[e].owner
      /\ eps'[e].waiting_receiver = eps[e].waiting_receiver
      /\ eps'[e].pending = Tail(eps[e].pending)
      /\ eps'[e].has_buffered = eps[e].has_buffered
  BY <1>1, <1>2, <1>3 DEF Endpoint
<1>5. frame' \in [Pids -> Frame]
  <2>1. current \in Pids /\ m.sender \in Pids /\ m.words \in Words
    BY <1>1, <1>2, <1>3, CallerPid DEF CanRecv, Message
  <2>2. SetMessage(frame[current], m.sender, m.words) \in Frame
    BY <1>2, <2>1, WordTypes, FrameTypes
  <2> QED
    BY <1>1, <1>2, <2>1, <2>2
<1> QED
  BY <1>1, <1>2, <1>4, <1>5, TakeInv

(* ipc_recv_buf with a message in the queue.                               *)
LEMMA RecvBufTakeInv ==
    ASSUME IpcInv, NEW e \in Endpoints, NEW cap \in Lens, NEW mapped \in BOOLEAN,
           SysIpcRecvBufTake(e, cap, mapped)
    PROVE  IpcInv' /\ StepOK
<1> DEFINE m == Head(eps[e].pending)
           whole == [data |-> eps[e].copy_buf, len |-> m.buf_len]
           out == Prefix(whole, cap)
<1>1. /\ CanRecv(e) /\ eps[e].pending # <<>> /\ UNCHANGED tasksVars
      /\ eps' = [eps EXCEPT ![e].pending = Tail(@),
                            ![e].has_buffered = @ /\ m.buf_len = 0]
      /\ frame' = [frame EXCEPT ![current] =
                      [SetMessage(@, m.sender, m.words) EXCEPT !.a5 = Got(out, mapped)]]
      /\ mem' = [mem EXCEPT ![current] = Written(@, out, mapped)]
  BY DEF SysIpcRecvBufTake
<1>2. /\ TasksInv /\ eps \in [Endpoints -> Endpoint] /\ frame \in [Pids -> Frame]
      /\ mem \in [Pids -> Buffer] /\ eps[e].pending \in Seq(Message)
      /\ eps[e].copy_buf \in Words /\ eps[e].has_buffered \in BOOLEAN
  BY DEF IpcInv, IpcTypeOK, Endpoint
<1>3. m \in Message /\ Tail(eps[e].pending) \in Seq(Message)
  BY <1>1, <1>2, Popped
<1>4. current \in Pids /\ m.sender \in Pids /\ m.words \in Words /\ m.buf_len \in Lens
  BY <1>1, <1>2, <1>3, CallerPid DEF CanRecv, Message
<1>5. whole \in Buffer
  BY <1>2, <1>4 DEF Buffer
<1>6. Got(out, mapped) \in Lens /\ Written(mem[current], out, mapped) \in Buffer
  BY <1>2, <1>4, <1>5, BufferTypes
<1> HIDE DEF m, whole, out
<1>7. /\ eps' \in [Endpoints -> Endpoint]
      /\ \A d \in Endpoints \ {e} : eps'[d] = eps[d]
      /\ eps'[e].owner = eps[e].owner
      /\ eps'[e].waiting_receiver = eps[e].waiting_receiver
      /\ eps'[e].pending = Tail(eps[e].pending)
      /\ eps'[e].has_buffered = (eps[e].has_buffered /\ m.buf_len = 0)
  <2>1. (eps[e].has_buffered /\ m.buf_len = 0) \in BOOLEAN
    OBVIOUS
  <2> QED
    BY <1>1, <1>2, <1>3, <2>1 DEF Endpoint
<1>8. eps[e].has_buffered /\ ~(m.buf_len > 0) => eps'[e].has_buffered
  <2>1. ~(m.buf_len > 0) => m.buf_len = 0
    BY <1>4, IpcAssumption DEF Lens
  <2> QED
    BY <1>7, <2>1, Zenon
<1>9. frame' \in [Pids -> Frame]
  <2>1. [SetMessage(frame[current], m.sender, m.words) EXCEPT !.a5 = Got(out, mapped)]
           \in Frame
    BY <1>2, <1>4, <1>6, FrameTypes
  <2> QED
    BY <1>1, <1>2, <1>4, <2>1
<1>10. mem' \in [Pids -> Buffer]
  BY <1>1, <1>2, <1>4, <1>6
<1> QED
  BY <1>1, <1>2, <1>7, <1>8, <1>9, <1>10, TakeInv DEF m

(* A receive that blocks, with or without a buffer: the owner is recorded  *)
(* in the same trap in which it goes to sleep.                             *)
LEMMA RecvBlockedInv ==
    ASSUME IpcInv, NEW e \in Endpoints, CanRecv(e), eps[e].pending = <<>>,
           JustBlock(Block(tasks, Me, IpcRecv(e))),
           next_pid' = next_pid, reports' = reports,
           eps' \in [Endpoints -> Endpoint],
           \A d \in Endpoints \ {e} : eps'[d] = eps[d],
           eps'[e].owner = eps[e].owner, eps'[e].waiting_receiver = current,
           eps'[e].pending = <<>>,
           frame' \in [Pids -> Frame], mem' = mem
    PROVE  IpcInv' /\ StepOK
<1>1. /\ TasksInv /\ Receivers(tasks, eps) /\ current # IdlePid
      /\ eps[e].owner = current /\ mem \in [Pids -> Buffer]
  BY DEF IpcInv, IpcTypeOK, CanRecv
<1>2. /\ TasksInv' /\ StepOK
      /\ \A p, v : Sleeps(tasks', p, v) <=>
            Sleeps(tasks, p, v) \/ (p = current /\ v = IpcRecv(e))
  <2>1. IpcRecv(e) \in WaitChannel /\ Foreign(IpcRecv(e))
    BY ChannelsDiffer, EndpointsInt
  <2> QED
    BY <1>1, <2>1, JustBlockStep
<1>3. Receivers(tasks', eps')
  <2> SUFFICES ASSUME NEW d \in Endpoints
               PROVE  /\ eps'[d].waiting_receiver \in {NoPid, eps'[d].owner}
                      /\ (eps'[d].waiting_receiver = eps'[d].owner)
                            <=> Sleeps(tasks', eps'[d].owner, IpcRecv(d))
                      /\ eps'[d].waiting_receiver = eps'[d].owner => eps'[d].pending = <<>>
                      /\ \A p : Sleeps(tasks', p, IpcRecv(d)) => p = eps'[d].owner
    BY DEF Receivers
  <2>1. CASE d = e
    BY <1>1, <1>2, <2>1 DEF Receivers
  <2>2. CASE d # e
    <3>1. \A p : Sleeps(tasks', p, IpcRecv(d)) <=> Sleeps(tasks, p, IpcRecv(d))
      BY <1>2, <2>2, IpcChannels
    <3> QED
      BY <1>1, <2>2, <3>1 DEF Receivers
  <2> QED
    BY <2>1, <2>2
<1>4. \A d \in Endpoints : OneBuffered(eps'[d])
  BY DEF IpcInv, OneBuffered
<1> QED
  BY <1>1, <1>2, <1>3, <1>4, IpcInvNext DEF IpcInv, IpcTypeOK

(* ipc_recv and ipc_recv_buf with an empty queue.                          *)
LEMMA RecvBlockInv ==
    ASSUME IpcInv, NEW e \in Endpoints, NEW cap \in Lens, NEW a5 \in Lens,
           SysIpcRecvBlock(e) \/ SysIpcRecvBufBlock(e, cap, a5)
    PROVE  IpcInv' /\ StepOK
<1>1. /\ CanRecv(e) /\ eps[e].pending = <<>>
      /\ JustBlock(Block(tasks, Me, IpcRecv(e)))
      /\ next_pid' = next_pid /\ reports' = reports /\ mem' = mem
      /\ \/ /\ eps' = [eps EXCEPT ![e].waiting_receiver = current]
            /\ frame' = [frame EXCEPT ![current] = NoFrame]
         \/ /\ eps' = [eps EXCEPT ![e].waiting_receiver = current,
                                  ![e].recv_buf = cap]
            /\ frame' = [frame EXCEPT ![current] = [NoFrame EXCEPT !.a5 = a5]]
  BY DEF SysIpcRecvBlock, SysIpcRecvBufBlock
<1>2. /\ TasksInv /\ eps \in [Endpoints -> Endpoint] /\ frame \in [Pids -> Frame]
  BY DEF IpcInv, IpcTypeOK
<1>3. current \in Pids
  BY <1>1, <1>2, CallerPid DEF CanRecv
<1>4. /\ eps' \in [Endpoints -> Endpoint]
      /\ \A d \in Endpoints \ {e} : eps'[d] = eps[d]
      /\ eps'[e].owner = eps[e].owner /\ eps'[e].waiting_receiver = current
      /\ eps'[e].pending = <<>>
  <2> DEFINE once == [eps[e] EXCEPT !.waiting_receiver = current]
             twice == [once EXCEPT !.recv_buf = cap]
  <2>1. /\ once \in Endpoint /\ once.owner = eps[e].owner
        /\ once.waiting_receiver = current /\ once.pending = eps[e].pending
    BY <1>2, <1>3 DEF Endpoint
  <2>2. /\ twice \in Endpoint /\ twice.owner = once.owner
        /\ twice.waiting_receiver = once.waiting_receiver
        /\ twice.pending = once.pending
    BY <2>1 DEF Endpoint
  <2>3. eps' = [eps EXCEPT ![e] = once] \/ eps' = [eps EXCEPT ![e] = twice]
    BY <1>1, <1>2
  <2>4. eps[e].pending = <<>>
    BY <1>1
  <2> HIDE DEF once, twice
  <2> QED
    BY <1>2, <2>1, <2>2, <2>3, <2>4
<1>5. frame' \in [Pids -> Frame]
  <2>1. NoFrame \in Frame /\ [NoFrame EXCEPT !.a5 = a5] \in Frame
    BY <1>2, <1>3, WordTypes, FrameTypes
  <2> QED
    BY <1>1, <1>2, <1>3, <2>1
<1> QED
  BY <1>1, <1>4, <1>5, RecvBlockedInv

(* ipc_reply and ipc_reply_buf.                                            *)
LEMMA ReplyInv ==
    ASSUME IpcInv, NEW p \in Pids, current # IdlePid, AwaitsReply(p), Answer(p),
           frame' \in [Pids -> Frame], mem' \in [Pids -> Buffer]
    PROVE  IpcInv' /\ StepOK
<1>1. eps' = eps /\ next_pid' = next_pid
  BY DEF Answer
<1>2. /\ TasksInv /\ Receivers(tasks, eps) /\ eps \in [Endpoints -> Endpoint]
      /\ \A e \in Endpoints : OneBuffered(eps[e])
  BY DEF IpcInv, IpcTypeOK
<1>3. /\ TasksInv' /\ StepOK
      /\ \A q, w : Sleeps(tasks', q, w) <=> Sleeps(tasks, q, w) /\ q # p
  BY AnswerStep
<1>4. PICK e \in Endpoints : Sleeps(tasks, p, IpcCall(e))
  BY AnswerStep
<1>5. \A d \in Endpoints : \A q :
         Sleeps(tasks', q, IpcRecv(d)) <=> Sleeps(tasks, q, IpcRecv(d))
  BY <1>2, <1>3, <1>4, SleeperFacts, IpcChannels
<1>6. Receivers(tasks', eps')
  <2>1. \A d \in Endpoints :
           eps'[d].waiting_receiver = eps'[d].owner => eps'[d].pending = <<>>
    BY <1>1, <1>2 DEF Receivers
  <2> QED
    BY <1>1, <1>2, <1>5, <2>1, ReceiversKept
<1> QED
  BY <1>1, <1>2, <1>3, <1>6, IpcInvNext DEF IpcInv, IpcTypeOK

LEMMA AnyReplyInv ==
    ASSUME IpcInv, NEW p \in Pids, NEW w \in Words, NEW b \in Buffer,
           \/ SysIpcReply(p, w)
           \/ SysIpcReplyBuf(p, w, b)
           \/ SysIpcReplyBufFault(p, w, b)
    PROVE  IpcInv' /\ StepOK
<1>1. /\ TasksInv /\ eps \in [Endpoints -> Endpoint] /\ frame \in [Pids -> Frame]
      /\ mem \in [Pids -> Buffer]
  BY DEF IpcInv, IpcTypeOK
<1> DEFINE out == Prefix(b, frame[p].a6)
<1>2. frame[p].a6 \in Lens
  BY <1>1 DEF Frame
<1>3. /\ out \in Buffer /\ out.len \in Lens
      /\ Written(mem[p], out, TRUE) \in Buffer /\ Written(mem[p], out, FALSE) \in Buffer
  <2>1. /\ out \in Buffer
        /\ Written(mem[p], out, TRUE) \in Buffer /\ Written(mem[p], out, FALSE) \in Buffer
    BY <1>1, <1>2, BufferTypes
  <2> QED
    BY <2>1 DEF Buffer
<1>4. /\ [frame[p] EXCEPT !.from = NoPid, !.words = w] \in Frame
      /\ [frame[p] EXCEPT !.from = NoPid, !.words = w, !.a5 = out.len] \in Frame
  BY <1>1, <1>3, FrameTypes
<1>5. Replied(p, w, out.len) \in [Pids -> Frame]
  BY <1>1, <1>4 DEF Replied
<1>6. CASE SysIpcReply(p, w)
  <2>1. /\ current # IdlePid /\ AwaitsReply(p) /\ Answer(p) /\ mem' = mem
        /\ frame' = [frame EXCEPT ![p] = [@ EXCEPT !.from = NoPid, !.words = w]]
    BY <1>6 DEF SysIpcReply
  <2>2. frame' \in [Pids -> Frame] /\ mem' \in [Pids -> Buffer]
    BY <1>1, <1>4, <2>1
  <2> QED
    BY <2>1, <2>2, ReplyInv
<1>7. CASE SysIpcReplyBuf(p, w, b)
  <2>1. /\ current # IdlePid /\ AwaitsReply(p) /\ Answer(p)
        /\ frame' = Replied(p, w, out.len)
        /\ mem' = [mem EXCEPT ![p] = Written(@, out, TRUE)]
    BY <1>7 DEF SysIpcReplyBuf
  <2> HIDE DEF out
  <2>2. frame' \in [Pids -> Frame] /\ mem' \in [Pids -> Buffer]
    BY <1>1, <1>3, <1>5, <2>1
  <2> QED
    BY <2>1, <2>2, ReplyInv
<1>8. CASE SysIpcReplyBufFault(p, w, b)
  <2>1. /\ UNCHANGED tasksVars /\ eps' = eps
        /\ frame' = Replied(p, w, out.len)
        /\ mem' = [mem EXCEPT ![p] = Written(@, out, FALSE)]
    BY <1>8 DEF SysIpcReplyBufFault
  <2> HIDE DEF out
  <2>2. frame' \in [Pids -> Frame] /\ mem' \in [Pids -> Buffer]
    BY <1>1, <1>3, <1>5, <2>1
  <2>3. TasksInv'
    BY <1>1, <2>1, StutterStep
  <2>4. tasks' = tasks /\ next_pid' = next_pid /\ current' = current
    BY <2>1 DEF tasksVars
  <2>5. StepOK
    BY <2>4 DEF StepOK, NoTask, NewTask
  <2> QED
    BY <1>1, <2>1, <2>2, <2>3, <2>4, <2>5, IpcInvNext DEF IpcInv, IpcTypeOK
<1> QED
  BY <1>6, <1>7, <1>8

(* The traps of module Tasks: no endpoint changes, and nobody sleeping in  *)
(* an IPC call is disturbed.                                               *)
LEMMA OtherTrapsInv ==
    ASSUME IpcInv, OtherTraps
    PROVE  IpcInv' /\ StepOK
<1>1. /\ TasksInv /\ eps \in [Endpoints -> Endpoint] /\ frame \in [Pids -> Frame]
      /\ mem \in [Pids -> Buffer] /\ Receivers(tasks, eps)
      /\ \A e \in Endpoints : OneBuffered(eps[e])
      /\ BootTasks < next_pid /\ next_pid \in Nat /\ BootTasks \in Nat
  BY TasksAssumption DEF IpcInv, IpcTypeOK, TasksInv, TasksTypeOK
<1>2. TasksNext /\ eps' = eps
  BY DEF OtherTraps, TasksNext, ipcVars, Pids
<1>3. TasksInv' /\ StepOK
  BY <1>1, <1>2, NextStep
<1>4. \A p, w : Sleeps(tasks', p, w) <=> Sleeps(tasks, p, w)
  BY <1>1, <1>2, TrapSleepers
<1>5. next_pid' \in {next_pid, next_pid + 1}
  BY <1>2 DEF TasksNext, Timer, SysYield, SysFork, SysForkNoSlot, SysWaitpidReap,
              SysWaitpidBlock, SysExit
<1>6. frame' \in [Pids -> Frame] /\ mem' \in [Pids -> Buffer]
  <2>1. CASE UNCHANGED ipcVars
    BY <1>1, <2>1 DEF ipcVars
  <2>2. CASE /\ SysFork
             /\ frame' = [frame EXCEPT ![next_pid] = frame[current]]
             /\ mem' = [mem EXCEPT ![next_pid] = mem[current]]
    <3>1. current # IdlePid /\ next_pid <= MaxPid
      BY <2>2 DEF SysFork
    <3>2. current \in Pids /\ next_pid \in Pids
      BY <1>1, <3>1, CallerPid
    <3> QED
      BY <1>1, <2>2, <3>2
  <2> QED
    BY <2>1, <2>2 DEF OtherTraps
<1>7. Receivers(tasks', eps')
  BY <1>1, <1>2, <1>4 DEF Receivers
<1> QED
  BY <1>1, <1>2, <1>3, <1>5, <1>6, <1>7, IpcInvNext DEF IpcTypeOK

-----------------------------------------------------------------------------
(* Every step of the kernel preserves the invariant.                       *)
LEMMA IpcNextInv ==
    ASSUME IpcInv, IpcNext
    PROVE  IpcInv' /\ StepOK
<1> USE WordTypes
<1>1. CASE OtherTraps
  BY <1>1, OtherTrapsInv
<1>2. ASSUME NEW e \in Endpoints, AnyCall(e) PROVE IpcInv' /\ StepOK
  <2>1. PICK w \in Payloads, n \in Lens :
            \/ SysIpcCallWake(e, w, n)
            \/ SysIpcCallQueue(e, w, n)
            \/ \E b \in Filled(n) :
                  \/ SysIpcCallBufQueue(e, w, b)
                  \/ \E mapped \in BOOLEAN : SysIpcCallBufWake(e, w, b, mapped)
    BY <1>2 DEF AnyCall
  <2>2. w \in Words /\ \A b \in Filled(n) : b \in Buffer
    OBVIOUS
  <2> QED
    BY <2>1, <2>2, CallWakeInv, CallQueueInv, CallBufQueueInv, CallBufWakeInv
<1>3. ASSUME NEW e \in Endpoints, SysIpcCallBufFault(e) PROVE IpcInv' /\ StepOK
  BY <1>3, CallBufFaultInv
<1>4. ASSUME NEW e \in Endpoints, AnyRecv(e) PROVE IpcInv' /\ StepOK
  BY <1>4, RecvTakeInv, RecvBlockInv, RecvBufTakeInv DEF AnyRecv
<1>5. CASE AnyReply
  <2>1. PICK p \in Pids, w \in Payloads :
            \/ SysIpcReply(p, w)
            \/ \E n \in Lens : \E b \in Filled(n) :
                  SysIpcReplyBuf(p, w, b) \/ SysIpcReplyBufFault(p, w, b)
    BY <1>5 DEF AnyReply
  <2>2. w \in Words /\ (\A n \in Lens : \A b \in Filled(n) : b \in Buffer) /\ Junk \in Buffer
    OBVIOUS
  <2> QED
    BY <2>1, <2>2, AnyReplyInv
<1> QED
  BY <1>1, <1>2, <1>3, <1>4, <1>5 DEF IpcNext

LEMMA IpcStutter ==
    ASSUME IpcInv, UNCHANGED kernelVars
    PROVE  IpcInv'
<1>1. /\ UNCHANGED tasksVars /\ eps' = eps /\ frame' = frame /\ mem' = mem
  BY DEF kernelVars, ipcVars
<1>2. TasksInv'
  BY <1>1, StutterStep DEF IpcInv
<1>3. tasks' = tasks /\ next_pid' = next_pid
  BY <1>1 DEF tasksVars
<1> QED
  BY <1>1, <1>2, <1>3, IpcInvNext DEF IpcInv, IpcTypeOK

(* IpcInv holds after every trap.                                          *)
THEOREM IpcInvariant == IpcSpec => []IpcInv
<1>1. TasksInit /\ IpcInit => IpcInv
  BY IpcInitInv
<1>2. IpcInv /\ [IpcNext]_kernelVars => IpcInv'
  BY IpcNextInv, IpcStutter
<1> QED
  BY <1>1, <1>2, PTL DEF IpcSpec

(* Endpoints, registers and buffers keep their types under any calls.      *)
THEOREM IpcTypeCorrect == IpcSpec => []IpcTypeOK
<1>1. IpcInv => IpcTypeOK
  BY DEF IpcInv
<1> QED
  BY <1>1, IpcInvariant, PTL

(* No request waits beside a receiver that waits for it, and the receiver  *)
(* that ipc_call looks up and unwraps is there, for any number of          *)
(* endpoints, tasks and messages.                                          *)
THEOREM ReceiversAreRecorded == IpcSpec => []ReceiverRecorded
<1>1. IpcInv => ReceiverRecorded
  BY ReceiversRecorded DEF IpcInv
<1> QED
  BY <1>1, IpcInvariant, PTL

(* has_buffered keeps a second message with data out of the queue whose    *)
(* one copy_buf it would overwrite.                                        *)
THEOREM CopyBufNotShared == IpcSpec => []OneBufferedMessage
<1>1. IpcInv => OneBufferedMessage
  BY OneBufferedAll DEF IpcInv
<1> QED
  BY <1>1, IpcInvariant, PTL

(* state and waiting_for agree also for tasks that sleep in IPC calls.     *)
THEOREM IpcSleepersWait == IpcSpec => []SleepMatchesChannel
<1>1. IpcInv => SleepMatchesChannel
  BY InvImpliesAll DEF IpcInv
<1> QED
  BY <1>1, IpcInvariant, PTL

(* runnable_count stays exact through calls that block one task and wake   *)
(* another in one trap.                                                    *)
THEOREM IpcCountExact == IpcSpec => []RunnableCountExact
<1>1. IpcInv => RunnableCountExact
  BY InvImpliesAll DEF IpcInv
<1> QED
  BY <1>1, IpcInvariant, PTL

=============================================================================
