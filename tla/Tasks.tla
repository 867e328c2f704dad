------------------------------- MODULE Tasks -------------------------------
(***************************************************************************)
(* The process table and the scheduler of NekOS: TaskManager in            *)
(* src/src/kernel/task.rs without its IPC and UART parts (module Ipc adds  *)
(* them).  Every action is one trap: a timer interrupt or a system call.   *)
(* The kernel runs on one hart with interrupts off and behind one lock, so *)
(* a trap is atomic; what interleaves is the order of the traps.           *)
(*                                                                         *)
(* An operator whose name ends in _bug is a mutant: the definition that    *)
(* follows it with a plausible mistake in it.  No specification uses one;  *)
(* the properties are shown to notice the mistake.                         *)
(*                                                                         *)
(* Lookups that fail and system calls that return an error without         *)
(* changing the table are disabled actions.  Running out of pages inside   *)
(* fork is one of them: the table does not change before the child is      *)
(* complete.                                                               *)
(***************************************************************************)
EXTENDS Integers, FiniteSets

CONSTANTS
    MaxTasks,    \* MAX_TASKS: length of the process table
    BootTasks,   \* user tasks that kernel_main spawns; the last one runs first
    MaxPid,      \* bound: fork stops when next_pid passes it
    ExitCodes    \* the values passed to exit

ASSUME TasksAssumption ==
    /\ MaxTasks \in Nat
    /\ BootTasks \in Nat /\ 1 <= BootTasks /\ BootTasks < MaxTasks
    /\ MaxPid \in Nat /\ BootTasks <= MaxPid
    /\ ExitCodes \subseteq Int

VARIABLES
    tasks,           \* TaskManager.tasks, a function of the slot index
    current,         \* TaskManager.current_pid (never None once booted)
    next_pid,        \* TaskManager.next_pid
    runnable_count,  \* TaskManager.runnable_count
    reports          \* history: how often the exit of each pid was returned

tasksVars == <<tasks, current, next_pid, runnable_count, reports>>

Slots   == 0 .. MaxTasks - 1
IdlePid == 0
NoPid   == -1      \* None for an Option<u32>

(***************************************************************************)
(* WaitChannel.  "on" is the pid of a Child and the endpoint of an IPC     *)
(* channel.                                                                *)
(***************************************************************************)
NoWait       == [kind |-> "None", on |-> NoPid]
Child(p)     == [kind |-> "Child", on |-> p]
UartRx       == [kind |-> "UartRx", on |-> NoPid]
IpcCall(ep)  == [kind |-> "IpcCall", on |-> ep]
IpcRecv(ep)  == [kind |-> "IpcRecv", on |-> ep]
WaitChannel  == [kind : {"None", "Child", "UartRx", "IpcCall", "IpcRecv"},
                 on   : Int]

TaskState == {"Unused", "Ready", "Running", "Sleeping", "Zombie"}

Task == [pid : Int, state : TaskState, parent : Int, wait : WaitChannel,
         code : Int]

NewTask(p, st, par) ==
    [pid |-> p, state |-> st, parent |-> par, wait |-> NoWait, code |-> 0]

NoTask == NewTask(NoPid, "Unused", NoPid)     \* an empty slot (None)

TasksTypeOK ==
    /\ tasks \in [Slots -> Task]
    /\ current \in Nat
    /\ next_pid \in Nat
    /\ runnable_count \in Int
    /\ reports \in [1 .. MaxPid -> Nat]

-----------------------------------------------------------------------------
(* Operators on a process table t.                                         *)

SlotOf(t, p) == CHOOSE s \in Slots : t[s].pid = p

ReadySlots(t) ==
    {s \in Slots : t[s].pid # IdlePid /\ t[s].state = "Ready"}

FreeSlots(t) == {s \in Slots : t[s] = NoTask}

(* The slot of S that a scan of the table from "start", wrapping at the    *)
(* end, meets first.                                                       *)
FirstFrom(S, start) ==
    CHOOSE s \in S :
        \A r \in S : (s - start) % MaxTasks <= (r - start) % MaxTasks

Block(t, s, chan) == [t EXCEPT ![s] = [@ EXCEPT !.state = "Sleeping",
                                                !.wait = chan]]

Wake(t, s) == [t EXCEPT ![s] = [@ EXCEPT !.state = "Ready", !.wait = NoWait]]

ReapedAttached_bug(t) ==
    [s \in Slots |-> IF t[s].state = "Zombie" /\ t[s].pid # current
                     THEN NoTask ELSE t[s]]

ReapedNever_bug(t) == t

(* reap_detached_zombies: a zombie nobody can wait for is freed, except    *)
(* the one whose kernel stack is in use.                                   *)
Reaped(t) ==
    [s \in Slots |->
        IF t[s].state = "Zombie" /\ t[s].parent = NoPid /\ t[s].pid # current
        THEN NoTask
        ELSE t[s]]

Preempted_bug(t) == t

(* The current task gives up the hart, unless it sleeps.                   *)
Preempted(t) ==
    [s \in Slots |->
        IF t[s].pid = current /\ t[s].state = "Running"
        THEN [t[s] EXCEPT !.state = "Ready"]
        ELSE t[s]]

DispatchShortScan_bug(t, start) ==
    LET scanned == ReadySlots(t) \ {(start - 1) % MaxTasks}
    IN  IF scanned # {} THEN FirstFrom(scanned, start) ELSE SlotOf(t, IdlePid)

(* The next task to run: the first ready one from "start" on, else idle.   *)
Dispatch(t, start) ==
    IF ReadySlots(t) # {} THEN FirstFrom(ReadySlots(t), start)
                          ELSE SlotOf(t, IdlePid)

SwitchToIdle_bug(t, s) ==
    /\ tasks' = [t EXCEPT ![s] = [@ EXCEPT !.state = "Running"]]
    /\ current' = IF t[s].pid = IdlePid THEN NoPid ELSE t[s].pid

SwitchTo(t, s) ==
    /\ tasks' = [t EXCEPT ![s] = [@ EXCEPT !.state = "Running"]]
    /\ current' = t[s].pid

ScheduleFromZero_bug(t) ==
    LET r == Preempted(Reaped(t)) IN SwitchTo(r, Dispatch(r, 0))

(* schedule(), called with the table t that the handler has prepared.      *)
Schedule(t) ==
    LET r == Preempted(Reaped(t))
    IN  SwitchTo(r, Dispatch(r, (SlotOf(r, current) + 1) % MaxTasks))

SaturatingSub(n) == IF n = 0 THEN 0 ELSE n - 1

-----------------------------------------------------------------------------
(***************************************************************************)
(* kernel_main: idle, then the boot tasks in slot order, none of them with *)
(* a parent; enter_task makes the last one the running task.               *)
(***************************************************************************)
TasksInit ==
    /\ tasks = [s \in Slots |->
                   IF s = BootTasks THEN NewTask(s, "Running", NoPid)
                   ELSE IF s < BootTasks THEN NewTask(s, "Ready", NoPid)
                   ELSE NoTask]
    /\ current = BootTasks
    /\ next_pid = BootTasks + 1
    /\ runnable_count = BootTasks
    /\ reports = [p \in 1 .. MaxPid |-> 0]

(* The timer interrupt, in user mode or in the idle task.                  *)
Timer ==
    /\ Schedule(tasks)
    /\ UNCHANGED <<next_pid, runnable_count, reports>>

(* SYS_YIELD.  The idle task never makes a system call.                    *)
SysYield ==
    /\ current # IdlePid
    /\ Schedule(tasks)
    /\ UNCHANGED <<next_pid, runnable_count, reports>>

SysForkSamePid_bug ==
    /\ current # IdlePid
    /\ next_pid <= MaxPid
    /\ FreeSlots(tasks) # {}
    /\ tasks' = [tasks EXCEPT ![FirstFrom(FreeSlots(tasks), 0)] =
                     NewTask(next_pid, "Ready", current)]
    /\ runnable_count' = runnable_count + 1
    /\ UNCHANGED <<current, next_pid, reports>>

(* SYS_FORK with a free slot.                                              *)
SysFork ==
    /\ current # IdlePid
    /\ next_pid <= MaxPid
    /\ FreeSlots(tasks) # {}
    /\ tasks' = [tasks EXCEPT ![FirstFrom(FreeSlots(tasks), 0)] =
                     NewTask(next_pid, "Ready", current)]
    /\ next_pid' = next_pid + 1
    /\ runnable_count' = runnable_count + 1
    /\ UNCHANGED <<current, reports>>

(* SYS_FORK with a full table: the slot is looked for last, when the pid   *)
(* has been taken.                                                         *)
SysForkNoSlot ==
    /\ current # IdlePid
    /\ next_pid <= MaxPid
    /\ FreeSlots(tasks) = {}
    /\ next_pid' = next_pid + 1
    /\ UNCHANGED <<tasks, current, runnable_count, reports>>

IsChild(s, p) == tasks[s].pid = p /\ tasks[s].parent = current

(* SYS_WAITPID for a child that has exited: return its code and free it.   *)
SysWaitpidReap(p) ==
    /\ current # IdlePid
    /\ \E s \in Slots :
          /\ IsChild(s, p)
          /\ tasks[s].state = "Zombie"
          /\ tasks' = [tasks EXCEPT ![s] = NoTask]
    /\ reports' = [reports EXCEPT ![p] = @ + 1]
    /\ UNCHANGED <<current, next_pid, runnable_count>>

SysWaitpidUnchecked_bug(p) ==
    /\ current # IdlePid
    /\ \E s \in Slots : IsChild(s, p)
    /\ Schedule(Block(tasks, SlotOf(tasks, current), Child(p)))
    /\ runnable_count' = SaturatingSub(runnable_count)
    /\ UNCHANGED <<next_pid, reports>>

(* SYS_WAITPID for a child that is alive: sleep until it exits.            *)
SysWaitpidBlock(p) ==
    /\ current # IdlePid
    /\ \E s \in Slots : IsChild(s, p) /\ tasks[s].state # "Zombie"
    /\ Schedule(Block(tasks, SlotOf(tasks, current), Child(p)))
    /\ runnable_count' = SaturatingSub(runnable_count)
    /\ UNCHANGED <<next_pid, reports>>

ExitedNoOrphans_bug(code) ==
    [s \in Slots |->
        IF tasks[s].pid = current
        THEN [tasks[s] EXCEPT !.state = "Zombie", !.code = code]
        ELSE tasks[s]]

(* exit_current up to the choice of the next task: the caller becomes a    *)
(* zombie and its children lose their parent.                              *)
Exited(code) ==
    [s \in Slots |->
        IF tasks[s].pid = current
        THEN [tasks[s] EXCEPT !.state = "Zombie", !.code = code]
        ELSE IF tasks[s].parent = current
        THEN [tasks[s] EXCEPT !.parent = NoPid]
        ELSE tasks[s]]

ParentOfCurrent == tasks[SlotOf(tasks, current)].parent

ParentWaits ==
    \E s \in Slots :
        /\ ParentOfCurrent # NoPid
        /\ tasks[s].pid = ParentOfCurrent
        /\ tasks[s].state = "Sleeping"
        /\ tasks[s].wait = Child(current)

HandedOverAttached_bug(t) == Wake(t, SlotOf(t, ParentOfCurrent))

HandedOverFreed_bug(t) ==
    [Wake(t, SlotOf(t, ParentOfCurrent)) EXCEPT ![SlotOf(t, current)] = NoTask]

(* The parent takes the code; the zombie is detached so that the next      *)
(* schedule() frees it.                                                    *)
HandedOver(t) ==
    [Wake(t, SlotOf(t, ParentOfCurrent))
        EXCEPT ![SlotOf(t, current)] = [@ EXCEPT !.parent = NoPid]]

(* SYS_EXIT.  The next task is the first ready one of the table, not the   *)
(* next in turn.                                                           *)
SysExit(code) ==
    LET t == IF ParentWaits THEN HandedOver(Exited(code)) ELSE Exited(code)
    IN  /\ current # IdlePid
        /\ SwitchTo(t, Dispatch(t, 0))
        /\ runnable_count' = IF ParentWaits THEN (runnable_count - 1) + 1
                                            ELSE runnable_count - 1
        /\ reports' = IF ParentWaits
                      THEN [reports EXCEPT ![current] = @ + 1]
                      ELSE reports
        /\ UNCHANGED next_pid

TasksNext ==
    \/ Timer
    \/ SysYield
    \/ SysFork
    \/ SysForkNoSlot
    \/ \E p \in 1 .. MaxPid : SysWaitpidReap(p) \/ SysWaitpidBlock(p)
    \/ \E code \in ExitCodes : SysExit(code)

(* The SBI timer is re-armed by every timer interrupt, so the next one     *)
(* always comes.                                                           *)
TasksSpec == TasksInit /\ [][TasksNext]_tasksVars /\ WF_tasksVars(Timer)

-----------------------------------------------------------------------------
(* What a table promises, n being the next pid and c the current one.  The *)
(* table is a parameter, so that the tables a handler goes through on its  *)
(* way can be asked for it as well.                                        *)

Live(t, s) == t[s].state \in {"Ready", "Running", "Sleeping"}

Runnable(t) ==
    {s \in Slots : t[s].state \in {"Ready", "Running"} /\ t[s].pid # IdlePid}

(* No two slots hold the same process, and the idle task is always there.  *)
UniquePids(t, n) ==
    /\ \A s \in Slots : (t[s].state = "Unused") <=> (t[s] = NoTask)
    /\ \A s \in Slots : t[s].state # "Unused" => t[s].pid \in 0 .. n - 1
    /\ \A s, r \in Slots :
          t[s].pid = t[r].pid /\ t[s].pid # NoPid => s = r
    /\ \E s \in Slots : t[s].pid = IdlePid /\ t[s].state \in {"Ready", "Running"}

(* A task sleeps exactly as long as it waits for something.                *)
SleepsOnChannel(t) ==
    \A s \in Slots : (t[s].state = "Sleeping") <=> (t[s].wait # NoWait)

(* The parent recorded in a task can still wait for it: fork's and         *)
(* exit_current's upkeep of parent_pid leaves no dangling pid behind.      *)
ParentsLive(t) ==
    \A s \in Slots :
        t[s].parent # NoPid =>
            /\ t[s].parent # t[s].pid
            /\ \E r \in Slots : t[r].pid = t[s].parent /\ Live(t, r)

(* A task asleep in waitpid has something to be woken by: the child is     *)
(* still its child and has not exited yet.                                 *)
WaitersHaveChild(t) ==
    \A s \in Slots :
        t[s].wait.kind = "Child" =>
            \E r \in Slots : /\ t[r].pid = t[s].wait.on
                             /\ t[r].parent = t[s].pid
                             /\ Live(t, r)

(* At most the current task runs.                                          *)
OnlyCurrentRuns(t, c) ==
    \A s \in Slots : t[s].state = "Running" => t[s].pid = c

(***************************************************************************)
(* Invariants                                                              *)
(***************************************************************************)

(* The slots of the table hold distinct processes with pids that were      *)
(* handed out, and pid 0, to which schedule and exit_current fall back, is *)
(* always there and can always be run.                                     *)
PidsConsistent == UniquePids(tasks, next_pid)

(* The hart runs exactly one task after every trap: current_pid names a    *)
(* task of the table, that task is the only one in state Running.          *)
OneRunning ==
    /\ \E s \in Slots : tasks[s].pid = current /\ tasks[s].state = "Running"
    /\ OnlyCurrentRuns(tasks, current)

(* No wakeup is lost: whoever sleeps in waitpid sleeps on a child that is  *)
(* alive, is its own and so will find it sleeping when it exits.           *)
WaitpidWakeable == WaitersHaveChild(tasks)

(* An exit leaves no task with a dead parent: a zombie is waited for by a  *)
(* live process or is detached and will be freed.                          *)
NoDanglingParent == ParentsLive(tasks)

(* state and waiting_for agree: nothing is Sleeping without a channel that *)
(* can wake it, and nothing that runs is left on a channel.                *)
SleepMatchesChannel == SleepsOnChannel(tasks)

(* runnable_count, kept by hand in fork, waitpid and exit, is the number   *)
(* of ready and running tasks without idle; in particular its unchecked    *)
(* decrement in exit_current never underflows.                             *)
RunnableCountExact == runnable_count = Cardinality(Runnable(tasks))

(* "Only when all ordinary tasks are blocked is PID 0 run" (the comment in *)
(* schedule): idle is current only if nothing else is ready.               *)
IdleOnlyWhenBlocked == current = IdlePid => ReadySlots(tasks) = {}

(* An exit status is returned by waitpid at most once, whether the parent  *)
(* was asleep in waitpid when the child exited or calls it later.          *)
ReportedOnce == \A p \in 1 .. MaxPid : reports[p] <= 1

(***************************************************************************)
(* Action properties                                                       *)
(***************************************************************************)

(* No trap frees the task on whose kernel stack it runs: exit_current and  *)
(* reap_detached_zombies leave it to a later trap.                         *)
KernelStackKept ==
    [][\A s \in Slots : tasks[s].pid = current => tasks'[s].pid = current]_tasksVars

(* A process with a parent leaves the table only by having its exit status *)
(* returned to that parent.                                                *)
ExitNotLost ==
    [][\A s \in Slots :
          tasks[s].parent # NoPid /\ tasks'[s] = NoTask =>
              /\ current = tasks[s].parent
              /\ reports'[tasks[s].pid] = reports[tasks[s].pid] + 1]_tasksVars

(***************************************************************************)
(* Liveness                                                                *)
(***************************************************************************)

Exists(p) == \E s \in Slots : tasks[s].pid = p

Finished(p) ==
    \/ reports[p] > 0
    \/ \E s \in Slots : /\ tasks[s].pid = p
                       /\ tasks[s].state = "Zombie"
                       /\ tasks[s].parent = NoPid

(* The slot, the stacks and the page table of a process are freed once its *)
(* status has been returned or nobody is left to ask for it.               *)
FinishedAreFreed ==
    \A p \in 1 .. MaxPid : Finished(p) ~> ~Exists(p)

(* Round robin: a ready task gets to run.  Every behaviour has at most     *)
(* MaxPid exits, which do not choose in turn, so this is the promise of    *)
(* schedule() alone.                                                       *)
ReadyRuns ==
    \A p \in 1 .. MaxPid :
        (\E s \in Slots : tasks[s].pid = p /\ tasks[s].state = "Ready") ~> current = p

=============================================================================
