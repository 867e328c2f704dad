---------------------------- MODULE TasksProofs ----------------------------
(***************************************************************************)
(* Proofs about the process table of module Tasks, for any table size, any *)
(* number of boot tasks and any bound on pids.                             *)
(***************************************************************************)
EXTENDS Tasks, TLAPS, FiniteSetTheorems, WellFoundedInduction

-----------------------------------------------------------------------------
(* The inductive invariant of a table.                                     *)
TableOK(t, n, c) ==
    /\ t \in [Slots -> Task]
    /\ UniquePids(t, n)
    /\ SleepsOnChannel(t)
    /\ ParentsLive(t)
    /\ WaitersHaveChild(t)
    /\ OnlyCurrentRuns(t, c)

NoneRuns(t) == \A s \in Slots : t[s].state # "Running"

(* A set of naturals has a least element.                                  *)
LEMMA LeastOf ==
    ASSUME NEW D \in SUBSET Nat, D # {}
    PROVE  \E d \in D : \A e \in D : d <= e
<1>1. PICK d \in D : \A e \in D : ~(<<e, d>> \in OpToRel(<, Nat))
  BY NatLessThanWellFounded, WFMin
<1>2. ASSUME NEW e \in D, e < d
      PROVE  <<e, d>> \in OpToRel(<, Nat)
  <2>1. <<e, d>> \in Nat \X Nat /\ <<e, d>>[1] < <<e, d>>[2]
    BY <1>2
  <2> QED
    BY <2>1, Zenon DEF OpToRel
<1>3. \A e \in D : ~(e < d)
  BY <1>1, <1>2, Zenon
<1> QED
  BY <1>3

(* A scan of the table stops at a slot of the set it looks for.            *)
LEMMA FirstFromInSet ==
    ASSUME NEW S \in SUBSET Slots, S # {}, NEW start \in Slots
    PROVE  FirstFrom(S, start) \in S
<1> DEFINE dist(s) == (s - start) % MaxTasks
           D == {dist(s) : s \in S}
<1>1. MaxTasks \in Nat /\ MaxTasks > 0
  BY TasksAssumption
<1>2. \A s \in S : s \in Int /\ dist(s) \in Nat
  BY <1>1 DEF Slots
<1>3. D \in SUBSET Nat /\ D # {}
  BY <1>2
<1>4. \A d \in D : \E s \in S : d = dist(s)
  OBVIOUS
<1>5. \A s \in S : dist(s) \in D
  OBVIOUS
<1> HIDE DEF D, dist
<1>6. \E s \in S : \A r \in S : dist(s) <= dist(r)
  <2>1. PICK d \in D : \A e \in D : d <= e
    BY <1>3, LeastOf
  <2> QED
    BY <1>4, <1>5, <2>1
<1> QED
  BY <1>6 DEF FirstFrom, dist

(* The slot looked up by pid is the slot with that pid.                    *)
LEMMA SlotOfPid ==
    ASSUME NEW t, NEW n, UniquePids(t, n), NEW s \in Slots, t[s].pid # NoPid
    PROVE  SlotOf(t, t[s].pid) = s
BY DEF SlotOf, UniquePids

-----------------------------------------------------------------------------
(* The three steps of schedule().                                          *)

(* Freeing detached zombies takes no live task away.                       *)
LEMMA ReapedOK ==
    ASSUME NEW t, NEW n \in Nat, TableOK(t, n, current)
    PROVE  /\ TableOK(Reaped(t), n, current)
           /\ Runnable(Reaped(t)) = Runnable(t)
           /\ \A s \in Slots : t[s].state # "Zombie" => Reaped(t)[s] = t[s]
<1> DEFINE r == Reaped(t)
<1>1. r \in [Slots -> Task]
  BY DEF TableOK, Reaped, NoTask, NewTask, NoWait, NoPid, Task, WaitChannel,
         TaskState
<1>2. \A s \in Slots : \/ r[s] = t[s]
                       \/ t[s].state = "Zombie" /\ r[s] = NoTask
  BY DEF Reaped
<1>3. /\ NoTask.state = "Unused" /\ NoTask.pid = -1 /\ NoTask.parent = -1
      /\ NoTask.wait = NoWait /\ NoWait.kind = "None"
  BY DEF NoTask, NewTask, NoPid, NoWait
<1>4. \A s \in Slots : t[s].state # "Zombie" => r[s] = t[s]
  BY DEF Reaped
<1>5. \A s \in Slots : Live(t, s) => r[s] = t[s] /\ Live(r, s)
  BY <1>4 DEF Live
<1> HIDE DEF r
<1>6. UniquePids(r, n)
  BY <1>2, <1>3, <1>4 DEF TableOK, UniquePids, NoPid, IdlePid
<1>7. SleepsOnChannel(r)
  BY <1>2, <1>3 DEF TableOK, SleepsOnChannel
<1>8. ParentsLive(r)
  BY <1>2, <1>3, <1>5 DEF TableOK, ParentsLive, NoPid
<1>9. WaitersHaveChild(r)
  BY <1>2, <1>3, <1>5 DEF TableOK, WaitersHaveChild
<1>10. OnlyCurrentRuns(r, current)
  BY <1>2, <1>3 DEF TableOK, OnlyCurrentRuns
<1>11. Runnable(r) = Runnable(t)
  BY <1>2, <1>3 DEF Runnable
<1> QED
  BY <1>1, <1>4, <1>6, <1>7, <1>8, <1>9, <1>10, <1>11 DEF TableOK, r

(* Giving up the hart leaves nobody running and the table in order.        *)
LEMMA PreemptedOK ==
    ASSUME NEW t, NEW n \in Nat, TableOK(t, n, current)
    PROVE  /\ TableOK(Preempted(t), n, current)
           /\ NoneRuns(Preempted(t))
           /\ Runnable(Preempted(t)) = Runnable(t)
           /\ \A s \in Slots : Preempted(t)[s].pid = t[s].pid
<1> DEFINE r == Preempted(t)
<1>1. r \in [Slots -> Task]
  BY DEF TableOK, Preempted, Task, TaskState
<1>2. \A s \in Slots : \/ r[s] = t[s]
                       \/ /\ t[s].state = "Running"
                          /\ r[s] = [t[s] EXCEPT !.state = "Ready"]
  BY DEF Preempted
<1>3. \A s \in Slots : /\ r[s].pid = t[s].pid
                       /\ r[s].parent = t[s].parent
                       /\ r[s].wait = t[s].wait
                       /\ \/ r[s].state = t[s].state /\ r[s] = t[s]
                          \/ t[s].state = "Running" /\ r[s].state = "Ready"
  <2> HIDE DEF r
  <2> TAKE s \in Slots
  <2>1. t[s] \in Task
    BY DEF TableOK
  <2>2. CASE r[s] = t[s]
    BY <2>2
  <2>3. CASE t[s].state = "Running" /\ r[s] = [t[s] EXCEPT !.state = "Ready"]
    BY <2>1, <2>3 DEF Task
  <2> QED
    BY <1>2, <2>2, <2>3
<1>4. NoneRuns(r)
  BY DEF TableOK, OnlyCurrentRuns, NoneRuns, Preempted, Task
<1>5. NoTask.state = "Unused"
  BY DEF NoTask, NewTask
<1> HIDE DEF r
<1>6. UniquePids(r, n)
  <2>1. \A s \in Slots : (r[s].state = "Unused") <=> (r[s] = NoTask)
    BY <1>3, <1>5 DEF TableOK, UniquePids
  <2>2. \A s \in Slots : r[s].state # "Unused" => r[s].pid \in 0 .. n - 1
    BY <1>3 DEF TableOK, UniquePids
  <2>3. \A s, q \in Slots : r[s].pid = r[q].pid /\ r[s].pid # NoPid => s = q
    BY <1>3 DEF TableOK, UniquePids
  <2>4. \E s \in Slots : r[s].pid = IdlePid /\ r[s].state \in {"Ready", "Running"}
    BY <1>3 DEF TableOK, UniquePids
  <2> QED
    BY <2>1, <2>2, <2>3, <2>4 DEF UniquePids
<1>7. SleepsOnChannel(r)
  BY <1>3 DEF TableOK, SleepsOnChannel
<1>8. \A s \in Slots : Live(t, s) => Live(r, s)
  BY <1>3 DEF Live
<1>9. ParentsLive(r)
  BY <1>3, <1>8 DEF TableOK, ParentsLive
<1>10. WaitersHaveChild(r)
  BY <1>3, <1>8 DEF TableOK, WaitersHaveChild
<1>11. OnlyCurrentRuns(r, current)
  BY <1>4 DEF NoneRuns, OnlyCurrentRuns
<1>12. Runnable(r) = Runnable(t)
  BY <1>3 DEF Runnable
<1> QED
  BY <1>1, <1>3, <1>4, <1>6, <1>7, <1>9, <1>10, <1>11, <1>12 DEF TableOK, r

(* The slot chosen is ready, and it is the idle one only if no other is.   *)
LEMMA DispatchOK ==
    ASSUME NEW t, NEW n \in Nat, NEW c, TableOK(t, n, c), NoneRuns(t),
           NEW start \in Slots
    PROVE  /\ Dispatch(t, start) \in Slots
           /\ t[Dispatch(t, start)].state = "Ready"
           /\ t[Dispatch(t, start)].pid = IdlePid => ReadySlots(t) = {}
<1>1. CASE ReadySlots(t) # {}
  <2>1. Dispatch(t, start) \in ReadySlots(t)
    BY <1>1, FirstFromInSet DEF Dispatch, ReadySlots
  <2> QED
    BY <2>1 DEF ReadySlots
<1>2. CASE ReadySlots(t) = {}
  <2>1. PICK s \in Slots : t[s].pid = IdlePid /\ t[s].state \in {"Ready", "Running"}
    BY DEF TableOK, UniquePids
  <2>2. Dispatch(t, start) = s
    BY <1>2, <2>1, SlotOfPid DEF TableOK, Dispatch, IdlePid, NoPid
  <2> QED
    BY <1>2, <2>1, <2>2 DEF NoneRuns
<1> QED
  BY <1>1, <1>2

(* Dispatching a ready slot makes it the one that runs.                    *)
LEMMA SwitchOK ==
    ASSUME NEW t, NEW n \in Nat, NEW c, TableOK(t, n, c), NoneRuns(t),
           NEW s \in Slots, t[s].state = "Ready",
           t[s].pid = IdlePid => ReadySlots(t) = {},
           SwitchTo(t, s)
    PROVE  /\ TableOK(tasks', n, current')
           /\ current' \in 0 .. n - 1
           /\ tasks'[s].pid = current' /\ tasks'[s].state = "Running"
           /\ current' = IdlePid => ReadySlots(tasks') = {}
           /\ Runnable(tasks') = Runnable(t)
           /\ \A q \in Slots : tasks'[q].pid = t[q].pid
<1> DEFINE r == tasks'
<1>1. /\ r = [t EXCEPT ![s] = [t[s] EXCEPT !.state = "Running"]]
      /\ current' = t[s].pid
  BY DEF SwitchTo
<1>2. r \in [Slots -> Task]
  BY <1>1 DEF TableOK, Task, TaskState
<1>3. \A q \in Slots : /\ r[q].pid = t[q].pid
                       /\ r[q].parent = t[q].parent
                       /\ r[q].wait = t[q].wait
                       /\ q # s => r[q] = t[q]
  BY <1>1 DEF TableOK, Task
<1>4. r[s].state = "Running"
  BY <1>1 DEF TableOK, Task
<1>5. NoTask.state = "Unused"
  BY DEF NoTask, NewTask
<1> HIDE DEF r
<1>6. UniquePids(r, n)
  <2>1. \A q \in Slots : (r[q].state = "Unused") <=> (r[q] = NoTask)
    BY <1>3, <1>4, <1>5 DEF TableOK, UniquePids
  <2>2. \A q \in Slots : r[q].state # "Unused" => r[q].pid \in 0 .. n - 1
    BY <1>3, <1>4 DEF TableOK, UniquePids
  <2>3. \A p, q \in Slots : r[p].pid = r[q].pid /\ r[p].pid # NoPid => p = q
    BY <1>3 DEF TableOK, UniquePids
  <2>4. \E q \in Slots : r[q].pid = IdlePid /\ r[q].state \in {"Ready", "Running"}
    BY <1>3, <1>4 DEF TableOK, UniquePids
  <2> QED
    BY <2>1, <2>2, <2>3, <2>4 DEF UniquePids
<1>7. SleepsOnChannel(r)
  BY <1>3, <1>4 DEF TableOK, SleepsOnChannel
<1>8. \A q \in Slots : Live(t, q) => Live(r, q)
  BY <1>3, <1>4 DEF Live
<1>9. ParentsLive(r)
  BY <1>3, <1>8 DEF TableOK, ParentsLive
<1>10. WaitersHaveChild(r)
  BY <1>3, <1>8 DEF TableOK, WaitersHaveChild
<1>11. OnlyCurrentRuns(r, current')
  BY <1>1, <1>3 DEF NoneRuns, OnlyCurrentRuns
<1>12. Runnable(r) = Runnable(t)
  BY <1>3, <1>4 DEF Runnable
<1>13. current' \in 0 .. n - 1
  BY <1>1 DEF TableOK, UniquePids
<1>14. current' = IdlePid => ReadySlots(r) = {}
  BY <1>1, <1>3, <1>4 DEF ReadySlots
<1> QED
  BY <1>1, <1>2, <1>3, <1>4, <1>6, <1>7, <1>9, <1>10, <1>11, <1>12, <1>13, <1>14
  DEF TableOK, r

(* What a table says of the task in charge after a switch.                 *)
Runs(t, c) == \E s \in Slots : t[s].pid = c /\ t[s].state = "Running"

(* A slot keeps its task and its parent, or loses a detached task that is  *)
(* not the current one.                                                    *)
KeepsTask(t, u) ==
    \A q \in Slots :
        \/ u[q].pid = t[q].pid /\ u[q].parent = t[q].parent
        \/ u[q] = NoTask /\ t[q].parent = NoPid /\ t[q].pid # current

(* schedule() as a whole.                                                  *)
LEMMA ScheduleOK ==
    ASSUME NEW t, NEW n \in Nat, TableOK(t, n, current), current \in Nat,
           NEW m \in Slots, t[m].pid = current, t[m].state # "Zombie",
           Schedule(t)
    PROVE  /\ TableOK(tasks', n, current')
           /\ Runs(tasks', current')
           /\ current' \in 0 .. n - 1
           /\ current' = IdlePid => ReadySlots(tasks') = {}
           /\ Runnable(tasks') = Runnable(t)
           /\ KeepsTask(t, tasks')
<1> DEFINE u == Reaped(t)
           r == Preempted(u)
           start == (SlotOf(r, current) + 1) % MaxTasks
<1>1. /\ TableOK(u, n, current) /\ Runnable(u) = Runnable(t) /\ u[m] = t[m]
  BY ReapedOK
<1>2. /\ TableOK(r, n, current) /\ NoneRuns(r) /\ Runnable(r) = Runnable(u)
      /\ \A s \in Slots : r[s].pid = u[s].pid
  BY <1>1, PreemptedOK
<1>3. SwitchTo(r, Dispatch(r, start))
  BY DEF Schedule
<1>4. KeepsTask(t, u)
  BY DEF KeepsTask, Reaped
<1>5. \A s \in Slots : r[s].parent = u[s].parent /\ (u[s] = NoTask => r[s] = NoTask)
  <2> TAKE s \in Slots
  <2>1. u[s] \in Task
    BY <1>1 DEF TableOK
  <2> HIDE DEF u
  <2> QED
    BY <2>1 DEF Preempted, Task, NoTask, NewTask
<1>6. start \in Slots
  <2>1. r[m].pid = current
    BY <1>1, <1>2
  <2>2. SlotOf(r, current) = m
    <3> HIDE DEF r
    <3> QED BY <1>2, <2>1, SlotOfPid DEF TableOK, NoPid
  <2> QED
    BY <2>2, TasksAssumption DEF Slots
<1> HIDE DEF u, r, start
<1>7. /\ Dispatch(r, start) \in Slots
      /\ r[Dispatch(r, start)].state = "Ready"
      /\ r[Dispatch(r, start)].pid = IdlePid => ReadySlots(r) = {}
  BY <1>2, <1>6, DispatchOK
<1>8. \A s \in Slots : tasks'[s].parent = r[s].parent
                       /\ (r[s] = NoTask => tasks'[s] = NoTask)
  <2>1. tasks' = [r EXCEPT ![Dispatch(r, start)] =
                     [r[Dispatch(r, start)] EXCEPT !.state = "Running"]]
    BY <1>3 DEF SwitchTo
  <2>2. r \in [Slots -> Task] /\ NoTask.state = "Unused"
    BY <1>2 DEF TableOK, NoTask, NewTask
  <2> QED
    BY <1>7, <2>1, <2>2 DEF Task
<1>9. /\ TableOK(tasks', n, current')
      /\ current' \in 0 .. n - 1
      /\ tasks'[Dispatch(r, start)].pid = current'
      /\ tasks'[Dispatch(r, start)].state = "Running"
      /\ current' = IdlePid => ReadySlots(tasks') = {}
      /\ Runnable(tasks') = Runnable(r)
      /\ \A q \in Slots : tasks'[q].pid = r[q].pid
  BY <1>2, <1>3, <1>7, SwitchOK
<1>10. KeepsTask(t, tasks')
  BY <1>2, <1>4, <1>5, <1>8, <1>9 DEF KeepsTask
<1> QED
  BY <1>1, <1>2, <1>7, <1>9, <1>10 DEF Runs

-----------------------------------------------------------------------------
(* What the system calls do to the table before they schedule.             *)

(* The current task goes to sleep on a channel; if it waits for a child,   *)
(* the child is its own and alive.                                         *)
LEMMA BlockOK ==
    ASSUME NEW n \in Nat, TableOK(tasks, n, current), current # IdlePid,
           NEW m \in Slots, tasks[m].pid = current, tasks[m].state = "Running",
           NEW chan \in WaitChannel, chan # NoWait,
           chan.kind = "Child" =>
               \E r \in Slots : /\ tasks[r].pid = chan.on
                                /\ tasks[r].parent = current
                                /\ Live(tasks, r)
    PROVE  LET t == Block(tasks, m, chan)
           IN  /\ TableOK(t, n, current)
               /\ t[m].pid = current /\ t[m].state = "Sleeping"
               /\ Runnable(t) = Runnable(tasks) \ {m}
               /\ KeepsTask(tasks, t)
<1> DEFINE t == Block(tasks, m, chan)
<1>1. tasks \in [Slots -> Task]
  BY DEF TableOK
<1>2. t \in [Slots -> Task]
  BY <1>1 DEF Block, Task, TaskState
<1>3. \A q \in Slots : q # m => t[q] = tasks[q]
  BY <1>1 DEF Block
<1>4. /\ t[m].pid = tasks[m].pid /\ t[m].parent = tasks[m].parent
      /\ t[m].state = "Sleeping" /\ t[m].wait = chan
  BY <1>1 DEF Block, Task
<1>5. NoTask.state = "Unused"
  BY DEF NoTask, NewTask
<1> HIDE DEF t
<1>6. UniquePids(t, n)
  <2>1. \A q \in Slots : (t[q].state = "Unused") <=> (t[q] = NoTask)
    BY <1>3, <1>4, <1>5 DEF TableOK, UniquePids
  <2>2. \A q \in Slots : t[q].state # "Unused" => t[q].pid \in 0 .. n - 1
    BY <1>3, <1>4 DEF TableOK, UniquePids
  <2>3. \A p, q \in Slots : t[p].pid = t[q].pid /\ t[p].pid # NoPid => p = q
    BY <1>3, <1>4 DEF TableOK, UniquePids
  <2>4. \E q \in Slots : t[q].pid = IdlePid /\ t[q].state \in {"Ready", "Running"}
    BY <1>3 DEF TableOK, UniquePids
  <2> QED
    BY <2>1, <2>2, <2>3, <2>4 DEF UniquePids
<1>7. SleepsOnChannel(t)
  BY <1>3, <1>4 DEF TableOK, SleepsOnChannel
<1>8. \A q \in Slots : Live(tasks, q) => Live(t, q)
  BY <1>3, <1>4 DEF Live
<1>9. ParentsLive(t)
  BY <1>3, <1>4, <1>8 DEF TableOK, ParentsLive
<1>10. \A q \in Slots : t[q].pid = tasks[q].pid /\ t[q].parent = tasks[q].parent
  BY <1>3, <1>4
<1>11. WaitersHaveChild(t)
  BY <1>3, <1>4, <1>8, <1>10 DEF TableOK, WaitersHaveChild
<1>12. OnlyCurrentRuns(t, current)
  BY <1>3, <1>4 DEF TableOK, OnlyCurrentRuns
<1>13. Runnable(t) = Runnable(tasks) \ {m}
  BY <1>3, <1>4 DEF Runnable
<1> QED
  BY <1>2, <1>4, <1>6, <1>7, <1>9, <1>10, <1>11, <1>12, <1>13
  DEF TableOK, KeepsTask, t

(* The slot of a parent that sleeps in waitpid for the current task.       *)
WaitsForCurrent(s) ==
    /\ ParentOfCurrent # NoPid
    /\ tasks[s].pid = ParentOfCurrent
    /\ tasks[s].state = "Sleeping"
    /\ tasks[s].wait = Child(current)

(* t is the table after the current task, in slot m, has exited: it is a   *)
(* zombie, its children have no parent, and whoever slept in waitpid for   *)
(* it is awake.                                                            *)
AfterExit(t, m) ==
    /\ t \in [Slots -> Task]
    /\ t[m].pid = current /\ t[m].state = "Zombie" /\ t[m].wait = NoWait
    /\ t[m].parent \in {tasks[m].parent, NoPid}
    /\ \A q \in Slots \ {m} :
          /\ t[q].pid = tasks[q].pid
          /\ t[q].parent = IF tasks[q].parent = current THEN NoPid
                                                        ELSE tasks[q].parent
          /\ (tasks[q] = NoTask) <=> (t[q] = NoTask)
          /\ \/ /\ WaitsForCurrent(q) /\ tasks[q].state = "Sleeping"
                /\ t[q].state = "Ready" /\ t[q].wait = NoWait
             \/ /\ ~WaitsForCurrent(q)
                /\ t[q].state = tasks[q].state /\ t[q].wait = tasks[q].wait

(* The table after an exit is in order and nobody runs: the hart is free to*)
(* be given away.                                                          *)
LEMMA AfterExitOK ==
    ASSUME NEW n \in Nat, TableOK(tasks, n, current), current # IdlePid,
           current \in Nat,
           NEW m \in Slots, tasks[m].pid = current, tasks[m].state = "Running",
           NEW t, AfterExit(t, m)
    PROVE  TableOK(t, n, current) /\ NoneRuns(t)
<1>1. tasks \in [Slots -> Task] /\ t \in [Slots -> Task]
  BY DEF TableOK, AfterExit
<1>2. \A q \in Slots : tasks[q].pid = current => q = m
  BY DEF TableOK, UniquePids, NoPid
<1>3. SlotOf(tasks, current) = m
  BY SlotOfPid DEF TableOK, NoPid
<1>4. NoTask.state = "Unused" /\ NoTask.pid = NoPid
  BY DEF NoTask, NewTask
<1>6. \A q \in Slots \ {m} :
          \/ t[q].state = tasks[q].state
          \/ t[q].state = "Ready" /\ tasks[q].state = "Sleeping"
  BY DEF AfterExit
<1>7. UniquePids(t, n)
  <2>1. \A q \in Slots : (t[q].state = "Unused") <=> (t[q] = NoTask)
    BY <1>4, <1>6 DEF TableOK, UniquePids, AfterExit
  <2>2. \A q \in Slots : t[q].state # "Unused" => t[q].pid \in 0 .. n - 1
    BY <1>6 DEF TableOK, UniquePids, AfterExit
  <2>3. \A p, q \in Slots : t[p].pid = t[q].pid /\ t[p].pid # NoPid => p = q
    BY DEF TableOK, UniquePids, AfterExit
  <2>4. \E q \in Slots : t[q].pid = IdlePid /\ t[q].state \in {"Ready", "Running"}
    BY <1>6 DEF TableOK, UniquePids, AfterExit
  <2> QED
    BY <2>1, <2>2, <2>3, <2>4 DEF UniquePids
<1>8. SleepsOnChannel(t)
  BY DEF TableOK, SleepsOnChannel, AfterExit
<1>9. \A q \in Slots \ {m} : Live(tasks, q) => Live(t, q)
  BY <1>6 DEF Live
<1>10. ParentsLive(t)
  <2> SUFFICES ASSUME NEW s \in Slots, t[s].parent # NoPid
               PROVE  /\ t[s].parent # t[s].pid
                      /\ \E r \in Slots : t[r].pid = t[s].parent /\ Live(t, r)
    BY DEF ParentsLive
  <2>1. t[s].parent = tasks[s].parent /\ t[s].pid = tasks[s].pid
    BY DEF AfterExit
  <2>2. tasks[s].parent # tasks[s].pid
    BY <2>1 DEF TableOK, ParentsLive
  <2>3. t[s].parent # current
    BY <2>1, <2>2 DEF AfterExit
  <2>4. PICK r \in Slots : tasks[r].pid = tasks[s].parent /\ Live(tasks, r)
    BY <2>1 DEF TableOK, ParentsLive
  <2>5. r # m
    BY <2>1, <2>3, <2>4
  <2> QED
    BY <1>9, <2>1, <2>2, <2>4, <2>5 DEF AfterExit
<1>11. WaitersHaveChild(t)
  <2> SUFFICES ASSUME NEW s \in Slots, t[s].wait.kind = "Child"
               PROVE  \E r \in Slots : /\ t[r].pid = t[s].wait.on
                                       /\ t[r].parent = t[s].pid
                                       /\ Live(t, r)
    BY DEF WaitersHaveChild
  <2>1. NoWait.kind # "Child"
    BY DEF NoWait
  <2>2. s # m /\ ~WaitsForCurrent(s)
    BY <2>1 DEF AfterExit
  <2>3. t[s].wait = tasks[s].wait /\ t[s].pid = tasks[s].pid
    BY <2>2 DEF AfterExit
  <2>4. tasks[s].state = "Sleeping"
    BY <2>1, <2>3 DEF TableOK, SleepsOnChannel
  <2>5. PICK r \in Slots : /\ tasks[r].pid = tasks[s].wait.on
                           /\ tasks[r].parent = tasks[s].pid
                           /\ Live(tasks, r)
    BY <2>3 DEF TableOK, WaitersHaveChild
  <2>6. r # m
    <3> SUFFICES ASSUME r = m PROVE WaitsForCurrent(s)
      BY <2>2
    <3>1. tasks[s].wait = Child(current)
      <4>1. tasks[s].wait \in WaitChannel
        BY <1>1 DEF Task
      <4> QED
        BY <2>3, <2>5, <4>1 DEF Child, WaitChannel
    <3>2. tasks[s].pid # NoPid
      BY <2>4 DEF TableOK, UniquePids, NoPid
    <3> QED
      BY <1>3, <2>4, <2>5, <3>1, <3>2 DEF WaitsForCurrent, ParentOfCurrent
  <2>7. tasks[s].pid # current
    BY <1>2, <2>2
  <2> QED
    BY <1>9, <2>3, <2>5, <2>6, <2>7 DEF AfterExit
<1>12. NoneRuns(t)
  BY <1>2, <1>6 DEF TableOK, OnlyCurrentRuns, NoneRuns, AfterExit
<1> QED
  BY <1>1, <1>7, <1>8, <1>10, <1>11, <1>12 DEF TableOK, NoneRuns, OnlyCurrentRuns

(* The first half of exit_current, slot by slot.                           *)
LEMMA ExitedSlots ==
    ASSUME NEW n \in Nat, TableOK(tasks, n, current), current \in Nat,
           NEW m \in Slots, tasks[m].pid = current, tasks[m].state = "Running",
           NEW code \in Int
    PROVE  LET t == Exited(code)
           IN  /\ t \in [Slots -> Task]
               /\ t[m].pid = current /\ t[m].state = "Zombie"
               /\ t[m].wait = NoWait /\ t[m].parent = tasks[m].parent
               /\ \A q \in Slots \ {m} :
                     /\ t[q].pid = tasks[q].pid
                     /\ t[q].parent = IF tasks[q].parent = current
                                      THEN NoPid ELSE tasks[q].parent
                     /\ (tasks[q] = NoTask) <=> (t[q] = NoTask)
                     /\ t[q].state = tasks[q].state
                     /\ t[q].wait = tasks[q].wait
<1> DEFINE t == Exited(code)
<1>1. tasks \in [Slots -> Task]
  BY DEF TableOK
<1>2. /\ t[m] = [tasks[m] EXCEPT !.state = "Zombie", !.code = code]
      /\ tasks[m].wait = NoWait
  BY DEF Exited, TableOK, SleepsOnChannel
<1>3. ASSUME NEW q \in Slots \ {m}
      PROVE  t[q] = IF tasks[q].parent = current
                    THEN [tasks[q] EXCEPT !.parent = NoPid] ELSE tasks[q]
  BY DEF Exited, TableOK, UniquePids, NoPid
<1>4. DOMAIN t = Slots /\ t = [q \in Slots |-> t[q]]
  BY DEF Exited
<1> HIDE DEF t
<1>5. /\ t[m] \in Task
      /\ t[m].pid = current /\ t[m].state = "Zombie"
      /\ t[m].wait = NoWait /\ t[m].parent = tasks[m].parent
  BY <1>1, <1>2 DEF Task, TaskState
<1>6. ASSUME NEW q \in Slots \ {m}
      PROVE  /\ t[q] \in Task
             /\ t[q].pid = tasks[q].pid
             /\ t[q].parent = IF tasks[q].parent = current
                              THEN NoPid ELSE tasks[q].parent
             /\ (tasks[q] = NoTask) <=> (t[q] = NoTask)
             /\ t[q].state = tasks[q].state
             /\ t[q].wait = tasks[q].wait
  <2>1. tasks[q] \in Task
    BY <1>1
  <2>2. CASE tasks[q].parent = current
    <3>1. tasks[q] # NoTask
      <4>1. NoTask.parent = -1
        BY DEF NoTask, NewTask, NoPid
      <4> QED
        BY <2>2, <4>1
    <3>2. tasks[q].state # "Unused" /\ NoTask.state = "Unused"
      BY <3>1 DEF TableOK, UniquePids, NoTask, NewTask
    <3>3. /\ t[q] \in Task
          /\ t[q].state = tasks[q].state /\ t[q].pid = tasks[q].pid
          /\ t[q].wait = tasks[q].wait /\ t[q].parent = NoPid
      <4>1. t[q] = [tasks[q] EXCEPT !.parent = NoPid] /\ NoPid \in Int
        BY <1>3, <2>2 DEF NoPid
      <4> QED
        BY <2>1, <4>1 DEF Task
    <3> QED
      BY <2>2, <3>1, <3>2, <3>3
  <2>3. CASE tasks[q].parent # current
    BY <1>3, <2>1, <2>3
  <2> QED
    BY <2>2, <2>3
<1>7. t \in [Slots -> Task]
  BY <1>4, <1>5, <1>6
<1> QED
  BY <1>5, <1>6, <1>7 DEF t

(* exit_current up to the choice of the next task, parent asleep or not.   *)
ExitTable(code) ==
    IF ParentWaits THEN HandedOver(Exited(code)) ELSE Exited(code)

(* That table is one AfterExit describes, and exactly the caller, less a   *)
(* parent that is woken, stops being runnable.                             *)
LEMMA ExitTableOK ==
    ASSUME NEW n \in Nat, TableOK(tasks, n, current), current # IdlePid,
           current \in Nat,
           NEW m \in Slots, tasks[m].pid = current, tasks[m].state = "Running",
           NEW code \in Int
    PROVE  LET t == ExitTable(code)
           IN  /\ AfterExit(t, m)
               /\ ~ParentWaits => Runnable(t) = Runnable(tasks) \ {m}
               /\ ParentWaits =>
                     /\ tasks[m].parent # NoPid /\ t[m].parent = NoPid
                     /\ \E w \in Slots :
                           /\ w \notin Runnable(tasks)
                           /\ Runnable(t) = (Runnable(tasks) \ {m}) \cup {w}
<1> DEFINE u == Exited(code)
           t == ExitTable(code)
<1>1. /\ u \in [Slots -> Task]
      /\ u[m].pid = current /\ u[m].state = "Zombie"
      /\ u[m].wait = NoWait /\ u[m].parent = tasks[m].parent
      /\ \A q \in Slots \ {m} :
            /\ u[q].pid = tasks[q].pid
            /\ u[q].parent = IF tasks[q].parent = current
                             THEN NoPid ELSE tasks[q].parent
            /\ (tasks[q] = NoTask) <=> (u[q] = NoTask)
            /\ u[q].state = tasks[q].state
            /\ u[q].wait = tasks[q].wait
  BY ExitedSlots
<1>2. SlotOf(tasks, current) = m
  BY SlotOfPid DEF TableOK, NoPid
<1>3. ParentWaits <=> \E q \in Slots : WaitsForCurrent(q)
  BY DEF ParentWaits, WaitsForCurrent
<1> HIDE DEF u
<1>4. CASE ~ParentWaits
  <2>1. t = u
    BY <1>4 DEF ExitTable, u
  <2>2. \A q \in Slots : ~WaitsForCurrent(q)
    BY <1>3, <1>4, Zenon
  <2> HIDE DEF t
  <2>3. AfterExit(t, m)
    BY <1>1, <2>1, <2>2 DEF AfterExit
  <2>4. Runnable(t) = Runnable(tasks) \ {m}
    BY <1>1, <2>1 DEF Runnable
  <2> QED
    BY <1>4, <2>3, <2>4 DEF t
<1>5. CASE ParentWaits
  <2>1. PICK w \in Slots : WaitsForCurrent(w)
    BY <1>3, <1>5, Zenon
  <2>2. /\ tasks[w].pid = ParentOfCurrent /\ tasks[w].state = "Sleeping"
        /\ ParentOfCurrent = tasks[m].parent /\ ParentOfCurrent # NoPid
        /\ w # m
    BY <1>2, <2>1 DEF WaitsForCurrent, ParentOfCurrent
  <2>3. \A q \in Slots : q # w => ~WaitsForCurrent(q)
    BY <2>2 DEF WaitsForCurrent, TableOK, UniquePids
  <2>4. SlotOf(u, ParentOfCurrent) = w /\ SlotOf(u, current) = m
    <3>1. \A q \in Slots : u[q].pid = tasks[q].pid
      BY <1>1
    <3>2. \A q \in Slots : tasks[q].pid = ParentOfCurrent => q = w
      BY <2>2 DEF TableOK, UniquePids
    <3>3. \A q \in Slots : tasks[q].pid = current => q = m
      BY DEF TableOK, UniquePids, NoPid
    <3> QED
      BY <2>2, <3>1, <3>2, <3>3 DEF SlotOf
  <2>5. t = [Wake(u, w) EXCEPT ![m] = [@ EXCEPT !.parent = NoPid]]
    BY <1>5, <2>4 DEF ExitTable, HandedOver, u
  <2> HIDE DEF t
  <2>6. /\ t[m] = [u[m] EXCEPT !.parent = NoPid]
        /\ t[w] = [u[w] EXCEPT !.state = "Ready", !.wait = NoWait]
        /\ \A q \in Slots \ {m, w} : t[q] = u[q]
        /\ DOMAIN t = Slots /\ t = [q \in Slots |-> t[q]]
    BY <1>1, <2>2, <2>5 DEF Wake
  <2>7. /\ t[m] \in Task /\ t[m].parent = NoPid /\ t[m].pid = current
        /\ t[m].state = "Zombie" /\ t[m].wait = NoWait
    <3>1. u[m] \in Task /\ NoPid \in Int
      BY <1>1 DEF NoPid
    <3> QED
      BY <1>1, <2>6, <3>1 DEF Task
  <2>8. /\ t[w] \in Task /\ t[w].parent = u[w].parent /\ t[w].pid = u[w].pid
        /\ t[w].state = "Ready" /\ t[w].wait = NoWait
    <3>1. u[w] \in Task /\ NoWait \in WaitChannel
      BY <1>1 DEF NoWait, WaitChannel, NoPid
    <3> QED
      BY <2>6, <3>1 DEF Task, TaskState
  <2>9. t[w] # NoTask /\ tasks[w] # NoTask
    BY <2>2, <2>8 DEF NoTask, NewTask
  <2>10. AfterExit(t, m)
    <3>1. t \in [Slots -> Task]
      BY <1>1, <2>6, <2>7, <2>8
    <3>2. \A q \in Slots \ {m} :
            /\ t[q].pid = tasks[q].pid
            /\ t[q].parent = IF tasks[q].parent = current
                             THEN NoPid ELSE tasks[q].parent
            /\ (tasks[q] = NoTask) <=> (t[q] = NoTask)
      <4> TAKE q \in Slots \ {m}
      <4>1. CASE q = w
        BY <1>1, <2>2, <2>8, <2>9, <4>1
      <4>2. CASE q # w
        <5>1. t[q] = u[q]
          BY <2>6, <4>2
        <5> QED
          BY <1>1, <5>1
      <4> QED
        BY <4>1, <4>2
    <3>3. \A q \in Slots \ {m, w} :
            t[q].state = tasks[q].state /\ t[q].wait = tasks[q].wait
      BY <1>1, <2>6
    <3> QED
      BY <2>1, <2>2, <2>3, <2>7, <2>8, <3>1, <3>2, <3>3 DEF AfterExit
  <2>11. /\ w \notin Runnable(tasks)
         /\ Runnable(t) = (Runnable(tasks) \ {m}) \cup {w}
    <3>1. tasks[w].pid # IdlePid
      BY <2>2 DEF TableOK, UniquePids, IdlePid, NoPid
    <3> QED
      <4>1. m \notin Runnable(t) /\ w \in Runnable(t) /\ w \notin Runnable(tasks)
        BY <1>1, <2>2, <2>7, <2>8, <3>1 DEF Runnable
      <4>2. \A q \in Slots \ {m, w} : q \in Runnable(t) <=> q \in Runnable(tasks)
        BY <1>1, <2>6 DEF Runnable
      <4>3. Runnable(t) \subseteq Slots /\ Runnable(tasks) \subseteq Slots
        BY DEF Runnable
      <4> QED
        BY <2>2, <4>1, <4>2, <4>3
  <2> QED
    BY <1>5, <2>2, <2>7, <2>10, <2>11 DEF t
<1> QED
  BY <1>4, <1>5

-----------------------------------------------------------------------------
(* Exit statuses: a task that has a parent has not been reported, and      *)
(* neither has a pid that was not handed out.                              *)
ReportsOK ==
    /\ next_pid <= MaxPid + 1
    /\ \A p \in 1 .. MaxPid : p >= next_pid => reports[p] = 0
    /\ \A s \in Slots :
          tasks[s].parent # NoPid =>
              tasks[s].pid \in 1 .. MaxPid /\ reports[tasks[s].pid] = 0

(* The inductive invariant.                                                *)
TasksInv ==
    /\ TasksTypeOK
    /\ TableOK(tasks, next_pid, current)
    /\ Runs(tasks, current)
    /\ RunnableCountExact
    /\ IdleOnlyWhenBlocked
    /\ ReportsOK
    /\ ReportedOnce

(* The set that runnable_count counts is finite.                           *)
LEMMA RunnableFinite ==
    ASSUME NEW t
    PROVE  IsFiniteSet(Runnable(t)) /\ Cardinality(Runnable(t)) \in Nat
<1>1. IsFiniteSet(Slots)
  BY FS_Interval, TasksAssumption DEF Slots
<1>2. Runnable(t) \in SUBSET Slots
  BY DEF Runnable
<1> QED
  BY <1>1, <1>2, FS_Subset, FS_CardinalityType

(* The fields of a task that was just created.                             *)
LEMMA NewTaskFields ==
    ASSUME NEW p \in Int, NEW st \in TaskState, NEW par \in Int
    PROVE  /\ NewTask(p, st, par) \in Task
           /\ NewTask(p, st, par).pid = p
           /\ NewTask(p, st, par).state = st
           /\ NewTask(p, st, par).parent = par
           /\ NewTask(p, st, par).wait = NoWait
BY DEF NewTask, Task, NoWait, NoPid, WaitChannel

(* The inductive invariant implies every invariant of module Tasks.        *)
LEMMA InvImpliesAll ==
    TasksInv => /\ TasksTypeOK /\ PidsConsistent /\ OneRunning
                /\ WaitpidWakeable /\ NoDanglingParent /\ SleepMatchesChannel
                /\ RunnableCountExact /\ IdleOnlyWhenBlocked /\ ReportedOnce
BY DEF TasksInv, TableOK, Runs, PidsConsistent, OneRunning, WaitpidWakeable,
       NoDanglingParent, SleepMatchesChannel

(* kernel_main establishes the inductive invariant.                        *)
LEMMA InitInv == TasksInit => TasksInv
<1> SUFFICES ASSUME TasksInit PROVE TasksInv
  OBVIOUS
<1> USE TasksAssumption
<1>1. /\ MaxTasks \in Nat /\ BootTasks \in Nat /\ 1 <= BootTasks
      /\ BootTasks < MaxTasks /\ Slots = 0 .. MaxTasks - 1
  BY DEF Slots
<1>2. \A s \in Slots :
          tasks[s] = IF s = BootTasks THEN NewTask(s, "Running", NoPid)
                     ELSE IF s < BootTasks THEN NewTask(s, "Ready", NoPid)
                     ELSE NoTask
  BY DEF TasksInit
<1>3. \A s \in Slots :
          /\ tasks[s] \in Task
          /\ tasks[s].parent = NoPid /\ tasks[s].wait = NoWait
          /\ s = BootTasks => tasks[s].pid = s /\ tasks[s].state = "Running"
          /\ s < BootTasks => tasks[s].pid = s /\ tasks[s].state = "Ready"
          /\ s > BootTasks => tasks[s] = NoTask /\ tasks[s].pid = NoPid
                               /\ tasks[s].state = "Unused"
  <2> TAKE s \in Slots
  <2>1. s \in Int /\ NoPid \in Int
    BY <1>1 DEF NoPid
  <2>2. CASE s = BootTasks
    BY <1>1, <1>2, <2>1, <2>2, NewTaskFields DEF TaskState
  <2>3. CASE s < BootTasks
    BY <1>1, <1>2, <2>1, <2>3, NewTaskFields DEF TaskState
  <2>4. CASE s > BootTasks
    BY <1>1, <1>2, <2>1, <2>4, NewTaskFields DEF TaskState, NoTask
  <2> QED
    BY <1>1, <2>1, <2>2, <2>3, <2>4
<1>4. tasks \in [Slots -> Task]
  <2>1. tasks = [s \in Slots |-> tasks[s]]
    BY DEF TasksInit
  <2> QED
    BY <1>3, <2>1
<1>5. NoWait.kind = "None" /\ NoTask.state = "Unused"
  BY DEF NoWait, NoTask, NewTask
<1>6. UniquePids(tasks, next_pid)
  <2>1. next_pid = BootTasks + 1
    BY DEF TasksInit
  <2>2. 0 \in Slots /\ 0 < BootTasks
    BY <1>1
  <2> QED
    BY <1>1, <1>3, <1>5, <2>1, <2>2 DEF UniquePids, NoPid, IdlePid
<1>7. TableOK(tasks, next_pid, current)
  <2>1. SleepsOnChannel(tasks) /\ ParentsLive(tasks) /\ WaitersHaveChild(tasks)
    BY <1>1, <1>3, <1>5 DEF SleepsOnChannel, ParentsLive, WaitersHaveChild
  <2>2. OnlyCurrentRuns(tasks, current)
    BY <1>1, <1>3 DEF OnlyCurrentRuns, TasksInit
  <2> QED
    BY <1>4, <1>6, <2>1, <2>2 DEF TableOK
<1>8. Runs(tasks, current)
  <2>1. BootTasks \in Slots
    BY <1>1
  <2> QED
    BY <1>3, <2>1 DEF Runs, TasksInit
<1>9. RunnableCountExact
  <2>1. Runnable(tasks) = 1 .. BootTasks
    BY <1>1, <1>3 DEF Runnable, IdlePid, NoPid
  <2>2. Cardinality(1 .. BootTasks) = BootTasks
    BY <1>1, FS_Interval
  <2> QED
    BY <2>1, <2>2 DEF RunnableCountExact, TasksInit
<1>10. IdleOnlyWhenBlocked
  BY <1>1 DEF IdleOnlyWhenBlocked, IdlePid, TasksInit
<1>11. ReportsOK /\ ReportedOnce
  BY <1>3 DEF ReportsOK, ReportedOnce, TasksInit
<1>12. TasksTypeOK
  BY <1>1, <1>4 DEF TasksTypeOK, TasksInit
<1> QED
  BY <1>7, <1>8, <1>9, <1>10, <1>11, <1>12 DEF TasksInv

(* What a step never does to a slot (the two action properties).           *)
StepOK ==
    \A s \in Slots :
        /\ tasks[s].pid = current => tasks'[s].pid = current
        /\ tasks[s].parent # NoPid /\ tasks'[s] = NoTask =>
              /\ current = tasks[s].parent
              /\ reports'[tasks[s].pid] = reports[tasks[s].pid] + 1

(* A trap that ends in schedule() with the table t.                        *)
LEMMA ScheduledStep ==
    ASSUME TasksInv, NEW t, TableOK(t, next_pid, current),
           NEW m \in Slots, t[m].pid = current, t[m].state # "Zombie",
           \A q \in Slots : t[q].pid = tasks[q].pid /\ t[q].parent = tasks[q].parent,
           Schedule(t), next_pid' = next_pid, reports' = reports,
           runnable_count' = Cardinality(Runnable(t))
    PROVE  TasksInv' /\ StepOK
<1>1. next_pid \in Nat /\ current \in Nat
  BY DEF TasksInv, TasksTypeOK
<1>2. /\ TableOK(tasks', next_pid, current')
      /\ Runs(tasks', current')
      /\ current' \in 0 .. next_pid - 1
      /\ current' = IdlePid => ReadySlots(tasks') = {}
      /\ Runnable(tasks') = Runnable(t)
      /\ KeepsTask(t, tasks')
  BY <1>1, ScheduleOK
<1>3. NoTask.pid = NoPid /\ NoTask.parent = NoPid
  BY DEF NoTask, NewTask
<1>4. TableOK(tasks, next_pid, current)'
  BY <1>2 DEF TableOK, UniquePids, SleepsOnChannel, ParentsLive,
              WaitersHaveChild, OnlyCurrentRuns, Live
<1>5. Runs(tasks, current)'
  BY <1>2 DEF Runs
<1>6. RunnableCountExact' /\ IdleOnlyWhenBlocked'
  BY <1>2 DEF RunnableCountExact, IdleOnlyWhenBlocked, Runnable, ReadySlots
<1>7. ReportsOK'
  BY <1>2, <1>3 DEF TasksInv, ReportsOK, KeepsTask
<1>8. ReportedOnce'
  BY DEF TasksInv, ReportedOnce
<1>9. TasksTypeOK'
  BY <1>1, <1>2, RunnableFinite DEF TasksInv, TasksTypeOK, TableOK
<1>10. StepOK
  <2> SUFFICES ASSUME NEW s \in Slots
               PROVE  /\ tasks[s].pid = current => tasks'[s].pid = current
                      /\ ~(tasks[s].parent # NoPid /\ tasks'[s] = NoTask)
    BY DEF StepOK
  <2>1. CASE tasks'[s].pid = t[s].pid /\ tasks'[s].parent = t[s].parent
    BY <1>3, <2>1
  <2>2. CASE tasks'[s] = NoTask /\ t[s].parent = NoPid /\ t[s].pid # current
    BY <2>2
  <2> QED
    BY <1>2, <2>1, <2>2 DEF KeepsTask
<1> QED
  BY <1>4, <1>5, <1>6, <1>7, <1>8, <1>9, <1>10 DEF TasksInv

-----------------------------------------------------------------------------
(* One lemma per trap.                                                     *)

(* A timer interrupt and SYS_YIELD only schedule.                          *)
LEMMA TimerStep ==
    ASSUME TasksInv, Timer \/ SysYield
    PROVE  TasksInv' /\ StepOK
<1>1. /\ Schedule(tasks) /\ next_pid' = next_pid /\ reports' = reports
      /\ runnable_count' = runnable_count
  BY DEF Timer, SysYield
<1>2. PICK m \in Slots : tasks[m].pid = current /\ tasks[m].state = "Running"
  BY DEF TasksInv, Runs
<1>3. /\ TableOK(tasks, next_pid, current)
      /\ runnable_count = Cardinality(Runnable(tasks))
  BY DEF TasksInv, RunnableCountExact
<1> QED
  BY <1>1, <1>2, <1>3, ScheduledStep

(* The decrement in waitpid and in the IPC calls.                          *)
LEMMA BlockedCount ==
    ASSUME NEW m \in Runnable(tasks), RunnableCountExact
    PROVE  SaturatingSub(runnable_count) = Cardinality(Runnable(tasks) \ {m})
<1>1. /\ IsFiniteSet(Runnable(tasks)) /\ Cardinality(Runnable(tasks)) \in Nat
  BY RunnableFinite
<1>2. /\ IsFiniteSet(Runnable(tasks) \ {m})
      /\ Cardinality(Runnable(tasks) \ {m}) = Cardinality(Runnable(tasks)) - 1
  BY <1>1, FS_RemoveElement
<1>3. Cardinality(Runnable(tasks) \ {m}) \in Nat
  BY <1>2, FS_CardinalityType
<1> QED
  BY <1>1, <1>2, <1>3 DEF SaturatingSub, RunnableCountExact

(* waitpid puts the caller to sleep on a child that is its own and alive.  *)
LEMMA WaitpidBlockStep ==
    ASSUME TasksInv, NEW p \in 1 .. MaxPid, SysWaitpidBlock(p)
    PROVE  TasksInv' /\ StepOK
<1>1. TableOK(tasks, next_pid, current) /\ next_pid \in Nat /\ current \in Nat
  BY DEF TasksInv, TasksTypeOK
<1>2. PICK m \in Slots : tasks[m].pid = current /\ tasks[m].state = "Running"
  BY DEF TasksInv, Runs
<1>3. SlotOf(tasks, current) = m
  BY <1>1, <1>2, SlotOfPid DEF TableOK, NoPid
<1>4. PICK r \in Slots : IsChild(r, p) /\ tasks[r].state # "Zombie"
  BY DEF SysWaitpidBlock
<1>5. tasks[r].pid = p /\ tasks[r].parent = current /\ Live(tasks, r)
  <2>1. tasks[r].pid = p /\ tasks[r].parent = current
    BY <1>4 DEF IsChild
  <2>2. tasks[r].state # "Unused"
    BY <1>1, <2>1 DEF TableOK, UniquePids, NoTask, NewTask, NoPid
  <2>3. tasks[r].state \in TaskState
    BY <1>1 DEF TableOK, Task
  <2> QED
    BY <1>4, <2>1, <2>2, <2>3 DEF Live, TaskState
<1>6. /\ Child(p) \in WaitChannel /\ Child(p) # NoWait /\ Child(p).on = p
  BY DEF Child, WaitChannel, NoWait
<1>7. current # IdlePid
  BY DEF SysWaitpidBlock
<1> DEFINE t == Block(tasks, m, Child(p))
<1>8. /\ TableOK(t, next_pid, current)
      /\ t[m].pid = current /\ t[m].state = "Sleeping"
      /\ Runnable(t) = Runnable(tasks) \ {m}
  BY <1>1, <1>2, <1>5, <1>6, <1>7, BlockOK
<1>9. \A q \in Slots : t[q].pid = tasks[q].pid /\ t[q].parent = tasks[q].parent
  BY <1>1 DEF Block, TableOK, Task
<1>10. /\ Schedule(t) /\ next_pid' = next_pid /\ reports' = reports
       /\ runnable_count' = SaturatingSub(runnable_count)
  BY <1>3 DEF SysWaitpidBlock
<1>11. m \in Runnable(tasks)
  BY <1>2, <1>7 DEF Runnable
<1>12. runnable_count' = Cardinality(Runnable(t))
  BY <1>8, <1>10, <1>11, BlockedCount DEF TasksInv
<1> HIDE DEF t
<1> QED
  BY <1>8, <1>9, <1>10, <1>12, ScheduledStep

(* A fork without a free slot takes a pid and leaves the table alone.      *)
LEMMA ForkNoSlotStep ==
    ASSUME TasksInv, SysForkNoSlot
    PROVE  TasksInv' /\ StepOK
<1>1. /\ tasks' = tasks /\ current' = current /\ reports' = reports
      /\ runnable_count' = runnable_count
      /\ next_pid' = next_pid + 1 /\ next_pid <= MaxPid
  BY DEF SysForkNoSlot
<1>2. next_pid \in Nat /\ MaxPid \in Nat /\ TableOK(tasks, next_pid, current)
  BY TasksAssumption DEF TasksInv, TasksTypeOK
<1>3. TableOK(tasks, next_pid, current)'
  BY <1>1, <1>2 DEF TableOK, UniquePids, SleepsOnChannel, ParentsLive,
                    WaitersHaveChild, OnlyCurrentRuns, Live
<1>4. Runs(tasks, current)' /\ RunnableCountExact' /\ IdleOnlyWhenBlocked'
  BY <1>1 DEF TasksInv, Runs, RunnableCountExact, IdleOnlyWhenBlocked,
              Runnable, ReadySlots
<1>5. ReportsOK' /\ ReportedOnce' /\ TasksTypeOK'
  BY <1>1, <1>2 DEF TasksInv, ReportsOK, ReportedOnce, TasksTypeOK
<1>6. StepOK
  <2>1. \A s \in Slots : tasks[s].parent # NoPid => tasks[s] # NoTask
    BY DEF NoTask, NewTask
  <2> QED
    BY <1>1, <2>1 DEF StepOK
<1> QED
  BY <1>3, <1>4, <1>5, <1>6 DEF TasksInv

(* A step that changes nothing.                                            *)
LEMMA StutterStep ==
    ASSUME TasksInv, UNCHANGED tasksVars
    PROVE  TasksInv'
BY DEF TasksInv, tasksVars, TasksTypeOK, TableOK, UniquePids, SleepsOnChannel,
       ParentsLive, WaitersHaveChild, OnlyCurrentRuns, Live, Runs,
       RunnableCountExact, IdleOnlyWhenBlocked, Runnable, ReadySlots,
       ReportsOK, ReportedOnce

(* The child gets a slot that was free, a pid nobody has, and the caller,  *)
(* which is running, as its parent.                                        *)
LEMMA ForkStep ==
    ASSUME TasksInv, SysFork
    PROVE  TasksInv' /\ StepOK
<1> DEFINE f == FirstFrom(FreeSlots(tasks), 0)
           new == NewTask(next_pid, "Ready", current)
<1>1. /\ tasks' = [tasks EXCEPT ![f] = new] /\ current' = current
      /\ next_pid' = next_pid + 1 /\ next_pid <= MaxPid
      /\ reports' = reports /\ runnable_count' = runnable_count + 1
      /\ FreeSlots(tasks) # {} /\ current # IdlePid
  BY DEF SysFork
<1>2. /\ next_pid \in Nat /\ MaxPid \in Nat /\ current \in Nat
      /\ TableOK(tasks, next_pid, current) /\ tasks \in [Slots -> Task]
      /\ reports \in [1 .. MaxPid -> Nat]
  BY TasksAssumption DEF TasksInv, TasksTypeOK
<1>3. PICK m \in Slots : tasks[m].pid = current /\ tasks[m].state = "Running"
  BY DEF TasksInv, Runs
<1>4. f \in Slots /\ tasks[f] = NoTask
  <2>1. FreeSlots(tasks) \in SUBSET Slots /\ 0 \in Slots
    BY TasksAssumption DEF FreeSlots, Slots
  <2>2. f \in FreeSlots(tasks)
    BY <1>1, <2>1, FirstFromInSet
  <2> QED
    BY <2>2 DEF FreeSlots
<1>5. /\ new \in Task /\ new.pid = next_pid /\ new.state = "Ready"
      /\ new.parent = current /\ new.wait = NoWait
  BY <1>2, NewTaskFields DEF TaskState
<1> HIDE DEF f, new
<1>6. /\ tasks'[f] = new /\ \A q \in Slots \ {f} : tasks'[q] = tasks[q]
      /\ tasks' \in [Slots -> Task]
  BY <1>1, <1>2, <1>4, <1>5
<1>7. /\ NoTask.state = "Unused" /\ NoTask.pid = -1 /\ NoTask.parent = -1
      /\ NoTask.wait = NoWait /\ NoWait.kind = "None"
  BY DEF NoTask, NewTask, NoPid, NoWait
<1>8. m # f /\ current \in 0 .. next_pid - 1
  BY <1>2, <1>3, <1>4, <1>7 DEF TableOK, UniquePids
<1>9. \A q \in Slots : tasks[q].pid < next_pid
  BY <1>2, <1>7 DEF TableOK, UniquePids
<1>10. UniquePids(tasks', next_pid')
  <2>1. \A q \in Slots : (tasks'[q].state = "Unused") <=> (tasks'[q] = NoTask)
    BY <1>2, <1>5, <1>6, <1>7 DEF TableOK, UniquePids
  <2>2. \A q \in Slots : tasks'[q].state # "Unused" => tasks'[q].pid \in 0 .. next_pid
    BY <1>2, <1>5, <1>6 DEF TableOK, UniquePids
  <2>3. \A p, q \in Slots :
           tasks'[p].pid = tasks'[q].pid /\ tasks'[p].pid # NoPid => p = q
    <3> TAKE p, q \in Slots
    <3>1. CASE p = f \/ q = f
      BY <1>2, <1>5, <1>6, <1>9, <3>1
    <3>2. CASE p # f /\ q # f
      BY <1>2, <1>6, <3>2 DEF TableOK, UniquePids
    <3> QED
      BY <3>1, <3>2
  <2>4. \E q \in Slots : tasks'[q].pid = IdlePid /\ tasks'[q].state \in {"Ready", "Running"}
    BY <1>2, <1>4, <1>6, <1>7 DEF TableOK, UniquePids
  <2> QED
    BY <1>1, <1>2, <2>1, <2>2, <2>3, <2>4 DEF UniquePids
<1>11. \A q \in Slots : Live(tasks, q) => q # f /\ tasks'[q] = tasks[q] /\ Live(tasks', q)
  BY <1>4, <1>6, <1>7 DEF Live
<1>12. SleepsOnChannel(tasks')
  BY <1>2, <1>5, <1>6 DEF TableOK, SleepsOnChannel
<1>13. ParentsLive(tasks')
  <2> SUFFICES ASSUME NEW s \in Slots, tasks'[s].parent # NoPid
               PROVE  /\ tasks'[s].parent # tasks'[s].pid
                      /\ \E r \in Slots : /\ tasks'[r].pid = tasks'[s].parent
                                           /\ Live(tasks', r)
    BY DEF ParentsLive
  <2>1. CASE s = f
    <3>1. Live(tasks, m)
      BY <1>3 DEF Live
    <3> QED
      BY <1>2, <1>3, <1>5, <1>6, <1>8, <1>11, <2>1, <3>1
  <2>2. CASE s # f
    BY <1>2, <1>6, <1>11, <2>2 DEF TableOK, ParentsLive
  <2> QED
    BY <2>1, <2>2
<1>14. WaitersHaveChild(tasks')
  BY <1>2, <1>5, <1>6, <1>7, <1>11 DEF TableOK, WaitersHaveChild
<1>15. OnlyCurrentRuns(tasks', current')
  BY <1>1, <1>2, <1>5, <1>6 DEF TableOK, OnlyCurrentRuns
<1>16. TableOK(tasks, next_pid, current)'
  BY <1>6, <1>10, <1>12, <1>13, <1>14, <1>15
  DEF TableOK, UniquePids, SleepsOnChannel, ParentsLive, WaitersHaveChild,
      OnlyCurrentRuns, Live
<1>17. Runs(tasks, current)'
  BY <1>1, <1>3, <1>6, <1>8 DEF Runs
<1>18. RunnableCountExact'
  <2>1. Runnable(tasks') = Runnable(tasks) \cup {f} /\ f \notin Runnable(tasks)
    <3>1. next_pid # IdlePid
      BY <1>1, <1>8 DEF IdlePid
    <3> QED
      BY <1>4, <1>5, <1>6, <1>7, <3>1 DEF Runnable
  <2>2. Cardinality(Runnable(tasks')) = Cardinality(Runnable(tasks)) + 1
    BY <2>1, RunnableFinite, FS_AddElement
  <2>3. runnable_count' = Cardinality(Runnable(tasks'))
    BY <1>1, <2>2 DEF TasksInv, RunnableCountExact
  <2> QED
    BY <2>3 DEF RunnableCountExact, Runnable
<1>19. IdleOnlyWhenBlocked' /\ ReportedOnce'
  BY <1>1 DEF TasksInv, IdleOnlyWhenBlocked, ReportedOnce
<1>20. ReportsOK'
  <2>1. next_pid' <= MaxPid + 1 /\ \A p \in 1 .. MaxPid : p >= next_pid' => reports'[p] = 0
    BY <1>1, <1>2 DEF TasksInv, ReportsOK
  <2>2. next_pid \in 1 .. MaxPid /\ reports[next_pid] = 0
    BY <1>1, <1>2, <1>8 DEF TasksInv, ReportsOK
  <2>3. \A s \in Slots : tasks'[s].parent # NoPid =>
            tasks'[s].pid \in 1 .. MaxPid /\ reports'[tasks'[s].pid] = 0
    <3> TAKE s \in Slots
    <3>1. CASE s = f
      BY <1>1, <1>5, <1>6, <2>2, <3>1
    <3>2. CASE s # f
      BY <1>1, <1>6, <3>2 DEF TasksInv, ReportsOK
    <3> QED
      BY <3>1, <3>2
  <2> QED
    BY <2>1, <2>3 DEF ReportsOK
<1>21. TasksTypeOK'
  BY <1>1, <1>2, <1>6 DEF TasksInv, TasksTypeOK
<1>22. StepOK
  <2> SUFFICES ASSUME NEW s \in Slots
               PROVE  /\ tasks[s].pid = current => tasks'[s].pid = current
                      /\ ~(tasks[s].parent # NoPid /\ tasks'[s] = NoTask)
    BY DEF StepOK
  <2>1. CASE s = f
    BY <1>2, <1>4, <1>5, <1>6, <1>7, <2>1
  <2>2. CASE s # f
    BY <1>6, <1>7, <2>2 DEF NoPid
  <2> QED
    BY <2>1, <2>2
<1> QED
  BY <1>16, <1>17, <1>18, <1>19, <1>20, <1>21, <1>22 DEF TasksInv

(* The zombie that waitpid frees is not the caller, nobody sleeps in       *)
(* waitpid for it, and it is nobody's parent.                              *)
LEMMA WaitpidReapStep ==
    ASSUME TasksInv, NEW p \in 1 .. MaxPid, SysWaitpidReap(p)
    PROVE  TasksInv' /\ StepOK
<1>1. PICK z \in Slots : /\ tasks[z].pid = p /\ tasks[z].parent = current
                         /\ tasks[z].state = "Zombie"
                         /\ tasks' = [tasks EXCEPT ![z] = NoTask]
  BY DEF SysWaitpidReap, IsChild
<1>2. /\ current' = current /\ next_pid' = next_pid
      /\ runnable_count' = runnable_count
      /\ reports' = [reports EXCEPT ![p] = @ + 1] /\ current # IdlePid
  BY DEF SysWaitpidReap
<1>3. /\ next_pid \in Nat /\ MaxPid \in Nat /\ current \in Nat
      /\ TableOK(tasks, next_pid, current) /\ tasks \in [Slots -> Task]
      /\ reports \in [1 .. MaxPid -> Nat]
  BY TasksAssumption DEF TasksInv, TasksTypeOK
<1>4. PICK m \in Slots : tasks[m].pid = current /\ tasks[m].state = "Running"
  BY DEF TasksInv, Runs
<1>5. m # z
  BY <1>1, <1>4
<1>6. /\ NoTask \in Task
      /\ NoTask.state = "Unused" /\ NoTask.pid = -1 /\ NoTask.parent = -1
      /\ NoTask.wait = NoWait /\ NoWait.kind = "None"
  BY NewTaskFields DEF NoTask, NoPid, NoWait, TaskState
<1>7. /\ tasks'[z] = NoTask /\ \A q \in Slots \ {z} : tasks'[q] = tasks[q]
      /\ tasks' \in [Slots -> Task]
  BY <1>1, <1>3, <1>6
<1>8. reports[p] = 0 /\ current # NoPid
  BY <1>1, <1>3 DEF TasksInv, ReportsOK, NoPid
<1>9. UniquePids(tasks', next_pid)
  <2>1. \A q \in Slots : (tasks'[q].state = "Unused") <=> (tasks'[q] = NoTask)
    BY <1>3, <1>6, <1>7 DEF TableOK, UniquePids
  <2>2. \A q \in Slots : tasks'[q].state # "Unused" => tasks'[q].pid \in 0 .. next_pid - 1
    BY <1>3, <1>6, <1>7 DEF TableOK, UniquePids
  <2>3. \A r, q \in Slots :
           tasks'[r].pid = tasks'[q].pid /\ tasks'[r].pid # NoPid => r = q
    <3> TAKE r, q \in Slots
    <3>1. CASE r = z \/ q = z
      BY <1>6, <1>7, <3>1 DEF NoPid
    <3>2. CASE r # z /\ q # z
      BY <1>3, <1>7, <3>2 DEF TableOK, UniquePids
    <3> QED
      BY <3>1, <3>2
  <2>4. \E q \in Slots : tasks'[q].pid = IdlePid /\ tasks'[q].state \in {"Ready", "Running"}
    BY <1>1, <1>3, <1>7 DEF TableOK, UniquePids
  <2> QED
    BY <2>1, <2>2, <2>3, <2>4 DEF UniquePids
<1>10. \A q \in Slots : Live(tasks, q) => q # z /\ tasks'[q] = tasks[q] /\ Live(tasks', q)
  BY <1>1, <1>7 DEF Live
<1>11. SleepsOnChannel(tasks')
  BY <1>3, <1>6, <1>7 DEF TableOK, SleepsOnChannel
<1>12. ParentsLive(tasks')
  BY <1>3, <1>6, <1>7, <1>10 DEF TableOK, ParentsLive, NoPid
<1>13. WaitersHaveChild(tasks')
  BY <1>3, <1>6, <1>7, <1>10 DEF TableOK, WaitersHaveChild
<1>14. OnlyCurrentRuns(tasks', current)
  BY <1>3, <1>6, <1>7 DEF TableOK, OnlyCurrentRuns
<1>15. TableOK(tasks, next_pid, current)'
  BY <1>2, <1>7, <1>9, <1>11, <1>12, <1>13, <1>14
  DEF TableOK, UniquePids, SleepsOnChannel, ParentsLive, WaitersHaveChild,
      OnlyCurrentRuns, Live
<1>16. Runs(tasks, current)'
  BY <1>2, <1>4, <1>5, <1>7 DEF Runs
<1>17. RunnableCountExact'
  <2>1. Runnable(tasks') = Runnable(tasks)
    BY <1>1, <1>6, <1>7 DEF Runnable
  <2>2. runnable_count' = Cardinality(Runnable(tasks'))
    BY <1>2, <2>1 DEF TasksInv, RunnableCountExact
  <2> QED
    BY <2>2 DEF RunnableCountExact, Runnable
<1>18. IdleOnlyWhenBlocked'
  BY <1>2 DEF IdleOnlyWhenBlocked
<1>19. ReportedOnce'
  BY <1>2, <1>3, <1>8 DEF TasksInv, ReportedOnce
<1>20. ReportsOK'
  <2>1. p < next_pid
    BY <1>1, <1>3 DEF TableOK, UniquePids
  <2>2. next_pid' <= MaxPid + 1 /\ \A q \in 1 .. MaxPid : q >= next_pid' => reports'[q] = 0
    BY <1>2, <1>3, <2>1 DEF TasksInv, ReportsOK
  <2>3. \A s \in Slots : tasks'[s].parent # NoPid =>
            tasks'[s].pid \in 1 .. MaxPid /\ reports'[tasks'[s].pid] = 0
    <3> TAKE s \in Slots
    <3>1. CASE s = z
      BY <1>6, <1>7, <3>1 DEF NoPid
    <3>2. CASE s # z
      <4>1. tasks[s].pid # p
        BY <1>1, <1>3, <3>2 DEF TableOK, UniquePids, NoPid
      <4> QED
        BY <1>2, <1>3, <1>7, <3>2, <4>1 DEF TasksInv, ReportsOK
    <3> QED
      BY <3>1, <3>2
  <2> QED
    BY <2>2, <2>3 DEF ReportsOK
<1>21. TasksTypeOK'
  BY <1>2, <1>3, <1>7 DEF TasksInv, TasksTypeOK
<1>22. StepOK
  <2> SUFFICES ASSUME NEW s \in Slots
               PROVE  /\ tasks[s].pid = current => tasks'[s].pid = current
                      /\ tasks[s].parent # NoPid /\ tasks'[s] = NoTask =>
                            /\ current = tasks[s].parent
                            /\ reports'[tasks[s].pid] = reports[tasks[s].pid] + 1
    BY DEF StepOK
  <2>1. CASE s = z
    <3>1. tasks[s].pid # current
      BY <1>1, <1>3, <1>4, <1>5, <2>1 DEF TableOK, UniquePids, NoPid
    <3> QED
      BY <1>1, <1>2, <1>3, <2>1, <3>1
  <2>2. CASE s # z
    BY <1>6, <1>7, <2>2 DEF NoPid
  <2> QED
    BY <2>1, <2>2
<1> QED
  BY <1>15, <1>16, <1>17, <1>18, <1>19, <1>20, <1>21, <1>22 DEF TasksInv

(* The caller of exit becomes a zombie that keeps its slot, its kernel     *)
(* stack being in use; its parent is told now or can still ask.            *)
LEMMA ExitStep ==
    ASSUME TasksInv, NEW code \in ExitCodes, SysExit(code)
    PROVE  TasksInv' /\ StepOK
<1> DEFINE t == ExitTable(code)
<1>1. /\ SwitchTo(t, Dispatch(t, 0)) /\ current # IdlePid
      /\ runnable_count' = IF ParentWaits THEN (runnable_count - 1) + 1
                                          ELSE runnable_count - 1
      /\ reports' = IF ParentWaits THEN [reports EXCEPT ![current] = @ + 1]
                                   ELSE reports
      /\ next_pid' = next_pid
  BY DEF SysExit, ExitTable
<1>2. /\ next_pid \in Nat /\ MaxPid \in Nat /\ current \in Nat
      /\ TableOK(tasks, next_pid, current) /\ tasks \in [Slots -> Task]
      /\ reports \in [1 .. MaxPid -> Nat] /\ code \in Int
  BY TasksAssumption DEF TasksInv, TasksTypeOK
<1>3. PICK m \in Slots : tasks[m].pid = current /\ tasks[m].state = "Running"
  BY DEF TasksInv, Runs
<1>4. /\ AfterExit(t, m)
      /\ ~ParentWaits => Runnable(t) = Runnable(tasks) \ {m}
      /\ ParentWaits =>
            /\ tasks[m].parent # NoPid /\ t[m].parent = NoPid
            /\ \E w \in Slots : /\ w \notin Runnable(tasks)
                                /\ Runnable(t) = (Runnable(tasks) \ {m}) \cup {w}
  BY <1>1, <1>2, <1>3, ExitTableOK
<1> HIDE DEF t
<1>5. TableOK(t, next_pid, current) /\ NoneRuns(t)
  BY <1>1, <1>2, <1>3, <1>4, AfterExitOK
<1>6. 0 \in Slots
  BY TasksAssumption DEF Slots
<1> DEFINE d == Dispatch(t, 0)
<1>7. /\ d \in Slots /\ t[d].state = "Ready"
      /\ t[d].pid = IdlePid => ReadySlots(t) = {}
  BY <1>2, <1>5, <1>6, DispatchOK
<1>8. /\ TableOK(tasks', next_pid, current')
      /\ current' \in 0 .. next_pid - 1
      /\ tasks'[d].pid = current' /\ tasks'[d].state = "Running"
      /\ current' = IdlePid => ReadySlots(tasks') = {}
      /\ Runnable(tasks') = Runnable(t)
      /\ \A q \in Slots : tasks'[q].pid = t[q].pid
  BY <1>1, <1>2, <1>5, <1>7, SwitchOK
<1>9. \A q \in Slots : tasks'[q].parent = t[q].parent
  <2>1. tasks' = [t EXCEPT ![d] = [t[d] EXCEPT !.state = "Running"]]
    BY <1>1 DEF SwitchTo
  <2>2. t \in [Slots -> Task]
    BY <1>5 DEF TableOK
  <2> QED
    BY <1>7, <2>1, <2>2 DEF Task
<1> HIDE DEF d
<1>10. \A q \in Slots : tasks'[q].pid = tasks[q].pid
  BY <1>3, <1>4, <1>8 DEF AfterExit
<1>11. \A q \in Slots : tasks'[q].parent # NoPid => tasks'[q].parent = tasks[q].parent
  BY <1>4, <1>9 DEF AfterExit
<1>12. TableOK(tasks, next_pid, current)'
  BY <1>1, <1>8 DEF TableOK, UniquePids, SleepsOnChannel, ParentsLive,
                    WaitersHaveChild, OnlyCurrentRuns, Live
<1>13. Runs(tasks, current)'
  BY <1>7, <1>8 DEF Runs
<1>14. runnable_count' = Cardinality(Runnable(t)) /\ runnable_count' \in Int
  <2>1. m \in Runnable(tasks)
    BY <1>1, <1>3 DEF Runnable
  <2>2. /\ IsFiniteSet(Runnable(tasks)) /\ Cardinality(Runnable(tasks)) \in Nat
        /\ runnable_count = Cardinality(Runnable(tasks))
    BY RunnableFinite DEF TasksInv, RunnableCountExact
  <2>3. /\ IsFiniteSet(Runnable(tasks) \ {m})
        /\ Cardinality(Runnable(tasks) \ {m}) = Cardinality(Runnable(tasks)) - 1
    BY <2>1, <2>2, FS_RemoveElement
  <2>4. CASE ~ParentWaits
    BY <1>1, <1>4, <2>2, <2>3, <2>4
  <2>5. CASE ParentWaits
    <3>1. PICK w \in Slots : /\ w \notin Runnable(tasks)
                             /\ Runnable(t) = (Runnable(tasks) \ {m}) \cup {w}
      BY <1>4, <2>5
    <3>2. Cardinality(Runnable(t)) = Cardinality(Runnable(tasks) \ {m}) + 1
      BY <2>3, <3>1, FS_AddElement
    <3> QED
      BY <1>1, <2>2, <2>3, <2>5, <3>2
  <2> QED
    BY <2>4, <2>5
<1>15. RunnableCountExact' /\ IdleOnlyWhenBlocked'
  BY <1>8, <1>14 DEF RunnableCountExact, IdleOnlyWhenBlocked, Runnable, ReadySlots
<1>16. ParentWaits => current \in 1 .. MaxPid /\ reports[current] = 0
  BY <1>3, <1>4 DEF TasksInv, ReportsOK
<1>17. /\ reports' \in [1 .. MaxPid -> Nat]
       /\ \A p \in 1 .. MaxPid : p # current => reports'[p] = reports[p]
       /\ \A p \in 1 .. MaxPid : reports'[p] # reports[p] =>
             p = current /\ ParentWaits /\ reports'[p] = 1
  <2>1. CASE ParentWaits
    BY <1>1, <1>2, <1>16, <2>1
  <2>2. CASE ~ParentWaits
    BY <1>1, <1>2, <2>2
  <2> QED
    BY <2>1, <2>2
<1>18. ReportedOnce'
  <2> SUFFICES ASSUME NEW p \in 1 .. MaxPid PROVE reports'[p] <= 1
    BY DEF ReportedOnce
  <2>1. reports[p] <= 1
    BY DEF TasksInv, ReportedOnce
  <2> QED
    BY <1>17, <2>1
<1>19. ReportsOK'
  <2>1. current < next_pid
    BY <1>2, <1>3 DEF TableOK, UniquePids
  <2>2. next_pid' <= MaxPid + 1 /\ \A p \in 1 .. MaxPid : p >= next_pid' => reports'[p] = 0
    BY <1>1, <1>2, <1>17, <2>1 DEF TasksInv, ReportsOK
  <2>3. \A s \in Slots : tasks'[s].parent # NoPid =>
            tasks'[s].pid \in 1 .. MaxPid /\ reports'[tasks'[s].pid] = 0
    <3> SUFFICES ASSUME NEW s \in Slots, tasks'[s].parent # NoPid
                 PROVE  tasks'[s].pid \in 1 .. MaxPid /\ reports'[tasks'[s].pid] = 0
      OBVIOUS
    <3>1. tasks[s].pid \in 1 .. MaxPid /\ reports[tasks[s].pid] = 0
      BY <1>11 DEF TasksInv, ReportsOK
    <3>2. CASE s = m
      <4>1. ~ParentWaits
        BY <1>4, <1>9, <3>2
      <4> QED
        BY <1>1, <1>10, <3>1, <4>1
    <3>3. CASE s # m
      <4>1. tasks[s].pid # current
        BY <1>2, <1>3, <3>3 DEF TableOK, UniquePids, NoPid
      <4> QED
        BY <1>10, <1>17, <3>1, <4>1
    <3> QED
      BY <3>2, <3>3
  <2> QED
    BY <2>2, <2>3 DEF ReportsOK
<1>20. TasksTypeOK'
  <2>1. tasks' \in [Slots -> Task] /\ current' \in Nat
    BY <1>2, <1>8 DEF TableOK
  <2> QED
    BY <1>1, <1>2, <1>14, <1>17, <2>1 DEF TasksTypeOK
<1>21. StepOK
  <2> SUFFICES ASSUME NEW s \in Slots
               PROVE  /\ tasks[s].pid = current => tasks'[s].pid = current
                      /\ ~(tasks[s].parent # NoPid /\ tasks'[s] = NoTask)
    BY DEF StepOK
  <2>1. NoTask.pid = -1 /\ NoTask.parent = NoPid
    BY DEF NoTask, NewTask, NoPid
  <2>2. tasks[s].parent # NoPid => tasks[s].pid \in 1 .. MaxPid
    BY DEF TasksInv, ReportsOK
  <2> QED
    BY <1>10, <2>1, <2>2
<1> QED
  BY <1>12, <1>13, <1>15, <1>18, <1>19, <1>20, <1>21 DEF TasksInv

-----------------------------------------------------------------------------
(* Every trap preserves the invariant and respects the action properties.  *)
LEMMA NextStep ==
    ASSUME TasksInv, TasksNext
    PROVE  TasksInv' /\ StepOK
<1>1. CASE Timer \/ SysYield
  BY <1>1, TimerStep
<1>2. CASE SysFork
  BY <1>2, ForkStep
<1>3. CASE SysForkNoSlot
  BY <1>3, ForkNoSlotStep
<1>4. ASSUME NEW p \in 1 .. MaxPid, SysWaitpidReap(p) PROVE TasksInv' /\ StepOK
  BY <1>4, WaitpidReapStep
<1>5. ASSUME NEW p \in 1 .. MaxPid, SysWaitpidBlock(p) PROVE TasksInv' /\ StepOK
  BY <1>5, WaitpidBlockStep
<1>6. ASSUME NEW code \in ExitCodes, SysExit(code) PROVE TasksInv' /\ StepOK
  BY <1>6, ExitStep
<1> QED
  BY <1>1, <1>2, <1>3, <1>4, <1>5, <1>6 DEF TasksNext

(* TasksInv holds after every trap.                                        *)
THEOREM TasksInvariant == TasksSpec => []TasksInv
<1>1. TasksInit => TasksInv
  BY InitInv
<1>2. TasksInv /\ [TasksNext]_tasksVars => TasksInv'
  BY NextStep, StutterStep
<1> QED
  BY <1>1, <1>2, PTL DEF TasksSpec

(* The variables of TaskManager keep their types; current_pid is never     *)
(* None, so that the unwrap of the current task in every handler succeeds. *)
THEOREM TypeCorrect == TasksSpec => []TasksTypeOK
<1>1. TasksInv => TasksTypeOK
  BY InvImpliesAll
<1> QED
  BY <1>1, TasksInvariant, PTL

(* Pids are unique and the idle task is always there to fall back on.      *)
THEOREM PidsUnique == TasksSpec => []PidsConsistent
<1>1. TasksInv => PidsConsistent
  BY InvImpliesAll
<1> QED
  BY <1>1, TasksInvariant, PTL

(* After every trap exactly one task is in state Running: current_pid.     *)
THEOREM ExactlyOneRuns == TasksSpec => []OneRunning
<1>1. TasksInv => OneRunning
  BY InvImpliesAll
<1> QED
  BY <1>1, TasksInvariant, PTL

(* waitpid and exit_current lose no wakeup: a task asleep in waitpid has a *)
(* live child that will find it asleep.                                    *)
THEOREM NoLostWakeup == TasksSpec => []WaitpidWakeable
<1>1. TasksInv => WaitpidWakeable
  BY InvImpliesAll
<1> QED
  BY <1>1, TasksInvariant, PTL

(* Every parent_pid in the table names a live process.                     *)
THEOREM ParentsAlive == TasksSpec => []NoDanglingParent
<1>1. TasksInv => NoDanglingParent
  BY InvImpliesAll
<1> QED
  BY <1>1, TasksInvariant, PTL

(* A task is asleep exactly while it is on a wait channel.                 *)
THEOREM SleepersWait == TasksSpec => []SleepMatchesChannel
<1>1. TasksInv => SleepMatchesChannel
  BY InvImpliesAll
<1> QED
  BY <1>1, TasksInvariant, PTL

(* runnable_count is exact, so that its decrements never underflow.        *)
THEOREM CountExact == TasksSpec => []RunnableCountExact
<1>1. TasksInv => RunnableCountExact
  BY InvImpliesAll
<1> QED
  BY <1>1, TasksInvariant, PTL

(* The idle task runs only when no other task is ready.                    *)
THEOREM IdleIsLast == TasksSpec => []IdleOnlyWhenBlocked
<1>1. TasksInv => IdleOnlyWhenBlocked
  BY InvImpliesAll
<1> QED
  BY <1>1, TasksInvariant, PTL

(* waitpid returns an exit status at most once.                            *)
THEOREM StatusReportedOnce == TasksSpec => []ReportedOnce
<1>1. TasksInv => ReportedOnce
  BY InvImpliesAll
<1> QED
  BY <1>1, TasksInvariant, PTL

(* No trap frees the kernel stack it runs on.                              *)
THEOREM StackKept == TasksSpec => KernelStackKept
<1>1. TasksInv /\ [TasksNext]_tasksVars =>
          [\A s \in Slots : tasks[s].pid = current => tasks'[s].pid = current]_tasksVars
  BY NextStep DEF StepOK
<1> QED
  BY <1>1, TasksInvariant, PTL DEF TasksSpec, KernelStackKept

(* A process that has a parent is removed from the table only by handing   *)
(* its exit status to that parent.                                         *)
THEOREM StatusNotLost == TasksSpec => ExitNotLost
<1>1. TasksInv /\ [TasksNext]_tasksVars =>
          [\A s \in Slots :
              tasks[s].parent # NoPid /\ tasks'[s] = NoTask =>
                  /\ current = tasks[s].parent
                  /\ reports'[tasks[s].pid] = reports[tasks[s].pid] + 1]_tasksVars
  BY NextStep DEF StepOK
<1> QED
  BY <1>1, TasksInvariant, PTL DEF TasksSpec, ExitNotLost

=============================================================================
