# A TLA+ model of NekOS

NekOS is a small RISC-V microkernel in Rust (`src/src`), with its servers and
libraries in user mode (`src/user`). This directory models its kernel, its
servers with the FAT32 volume, and the files and the heap of its C library in
TLA+, checks the models with TLC on small instances, and proves with TLAPS, for
every size of tables, queues, memory and volume, all that the runs check except
liveness. The proofs about the heap and the volume have hypotheses, which
section 4 names.

    tlc -config MCTasks.cfg MCTasks        # a run (PROJECT.json lists them)
    tlapm TasksProofs.tla                  # proofs (section 4 lists the modules)

`PROJECT.json` maps every definition to the lines it stands for, and lists the
runs, the mutants, the findings, the hazards and the theorems.

## 1. The system

| Component | State it keeps | Operations | Used by / uses |
|---|---|---|---|
| Process table, scheduler (`kernel/task.rs`) | `tasks[16]`, `current_pid`, `next_pid`, `runnable_count` | `schedule`, `fork`, `replace_current` (exec), `sbrk`, `waitpid`, `exit_current`, `reap_detached_zombies` | called by the trap handler and by system calls; takes and gives back pages |
| Synchronous IPC (`kernel/task.rs`, `kernel/ipc.rs`) | `endpoints`: owner, waiting receiver, ring buffer of messages, one shared `copy_buf` | `ipc_call`, `ipc_recv`, `ipc_reply` and their `_buf` forms | puts tasks to sleep and wakes them; copies between address spaces |
| UART interrupt (`trap.rs`, `plic.rs`, `task.rs`) | PLIC enable bit, `uart_owner` | `SYS_IRQ_WAIT`, external interrupt, `wake_uart` | the console server sleeps on it |
| Timer (`kernel/timer.rs`) | the next SBI deadline | re-arm, then `schedule` | drives round robin |
| Pages (`kernel/page.rs`) | bitmap, `free_pages` | `alloc`, `free` | everything below |
| Address spaces (`pgtable.rs`, `vm.rs`, `exec.rs`) | page tables, image, stack, heap | `map`, `unmap`, `map_kernel`, ELF `load` | fork, exec, sbrk |
| Initrd (`kernel/initrd.rs`) | none (read-only archive) | `find` | exec, spawn |
| Console server (`user/programs/console`) | the request in hand | recv, `getc` (poll, `irq_wait`, poll again), reply | endpoint 1 |
| File server (`user/programs/fs-server`) | a FAT32 volume on a RAM disk: table, clusters, directories; nothing about its clients | recv_buf, one of ten requests (open, create, read, write, update size, truncate, delete, mkdir, readdir, close), reply or reply_buf | endpoint 2 |
| Descriptor table (`user/libc/fd_table.c`) | per descriptor: path, first cluster, size, offset, dirty | `open`, `read`, `write`, `close` | one or two requests to the file server each; copied by fork, gone at exit |
| User library, rest of libc (`user/userlib`, `user/libc`) | malloc free list | wrappers of the system calls, malloc, printf | the programs |
| Shell and programs (`user/programs`) | command line | fork, exec, waitpid, read, write | clients of the two servers |

**Interaction.** The kernel runs on one hart, with interrupts off in S-mode
(except in the idle task) and one lock around `TaskManager`. A trap is
therefore atomic, and every action of the models is one trap, complete with the
`schedule()` that ends it. What interleaves are the traps: the timer can take
the hart from a program between any two of its instructions, programs make
their system calls in any order, and characters arrive at any time.

**What is hard.**

- *Sleep and wakeup.* `waitpid`, `ipc_call`, `ipc_recv` and `irq_wait` go to
  sleep, and somebody else's system call or interrupt must find them. Tasks
  exit while others wait for them, endpoints outlive their owners.
- *Bookkeeping by hand.* `runnable_count`, `waiting_for`, `waiting_receiver`,
  `has_buffered`, `recv_buf_addr` and `free_pages` repeat what other state
  says, and are updated at a dozen places.
- *One buffer for many requests.* The data of every queued request of an
  endpoint is in one `copy_buf`.
- *Freeing the ground one stands on.* exit and exec free the memory of the
  task on whose kernel stack they run.
- *Failure half way.* fork, exec and sbrk allocate in many steps, any of which
  may fail; copies to and from user memory stop at an unmapped page.
- *Open files without the server knowing.* The server keeps no list of open
  files. Programs hold cluster numbers and sizes that others can make stale,
  entries are updated by path at close, and a request may be refused.
- *Limits.* 16 slots, a message queue of 8, 4096 pages, one buffered message,
  a directory sector of 16 slots, a volume that runs full in the middle of a
  write.

`PROJECT.json`, "hazards", has each of these at its line, with the properties
that would notice it going wrong.

## 2. Modules

    Tasks ── Ipc ──┐
      │ └─── Uart ─┴─ Servers -> SyncCall
      └───── Memory
    MsgQueue -> BoundedQueue
    FatFs ── Files -> FileObjects
    Malloc

    TasksProofs ── IpcProofs ── ServersProofs
      └─────────── MemoryProofs
    VolumeProofs ── FilesProofs
    MsgQueueProofs        MallocProofs

An arrow points from a specification to the abstract one it implements:
`MsgQueue` implements `BoundedQueue`, which is how `Ipc` uses it, `Servers`
implements `SyncCall`, `Files` implements `FileObjects`. The proofs about a
module are in the module with `Proofs` in its name, which extends it and the
proofs of the modules below it; those about `Files` fill two, `VolumeProofs` and
`FilesProofs`. The `MC` modules are what TLC runs; some add views.

An operator whose name ends in `_bug` is a mutant: the definition after it with
a plausible mistake. No specification uses one. For each property of each
passing run, `PROJECT.json` names one for which TLC finds the property
violated, so that none of them is true whatever the code does.

A system call that returns an error and changes nothing is a disabled action.

### Tasks (`kernel/task.rs`, `main.rs`, `trap.rs`)

`tasks`, `current`, `next_pid` and `runnable_count` are the fields of
`TaskManager`; an empty slot is the record `NoTask`. `reports` is a history
variable: how often `waitpid` has returned the status of each pid. The initial
state is what `kernel_main` leaves when `enter_task` starts the shell.

| Action | Code |
|---|---|
| `Timer`, `SysYield` | `trap_handler`, `syscall::handle` -> `schedule` |
| `SysFork`, `SysForkNoSlot` | `fork`; the slot is looked for last, so a full table still costs a pid |
| `SysWaitpidReap`, `SysWaitpidBlock` | `waitpid` for a zombie, for a live child |
| `SysExit` | `exit_current`: the children become orphans, a sleeping parent gets the status, the first ready slot runs next |

`Schedule(t)` is `schedule()` on the table a handler has prepared: `Reaped`,
`Preempted`, `Dispatch` (round robin from the slot after the current one, idle
last), `SwitchTo`.

### Ipc (`kernel/task.rs`, `kernel/ipc.rs`, `syscall.rs`)

Adds `eps` (the endpoints), `frame` (the registers of each pid that the calls
use) and `mem` (the one buffer each pid passes). Message words and buffer
contents are small numbers; what is kept of them is who sent what, and how
long it is. Each call is split by what it meets: a receiver that waits
(`...Wake`), one that is busy (`...Queue`), a message that is there (`...Take`)
or not (`...Block`), a page that is not mapped (`...Fault`). Any task may make
any call, with any client in `reply`. The ring buffer is a bounded sequence.

### Uart (`plic.rs`, `trap.rs`, `task.rs`)

Adds the receive FIFO and the enable bit. The FIFO is the device's and is
modelled as the code uses it: level-triggered, first in first out, characters
that find it full are lost before the system sees them. Characters are numbered
as they are typed, modulo `CharMod`.

### Servers (`console`, `fs-server`, `userlib`, `libc`)

The kernel with the programs that `kernel_main` starts. `pc` says where the
loop of each server is, `held` is the character the console has taken from the
FIFO. The console polls the FIFO and decides to wait in one step and calls
`irq_wait` in another, so that a character can arrive in between. The file
server answers each request with the kind of reply its operation has; its disk
is in `Files`. Clients make any sequence of the calls that `userlib` and `libc`
make, and fork, wait and exit.

### SyncCall

What IPC promises to clients and servers, with nothing of the kernel in it:
`waiting` are the requests of an endpoint in the order of their calls,
`serving` is the one its server has taken, `blocked` the clients that are not
back from a call. A server takes the oldest request, a client that calls an
idle server may find its request taken at once (`CallTaken`), and an answer
goes to the client that is being served. The mapping is in `Servers`: the
queue of an endpoint and what the frame of its owner holds.

### FatFs (`fs-server/src/main.rs`)

The routines of `Fat32Fs` as operators from a volume (`fat`, `data`) to a
volume. `format_fat32` makes clusters of one sector, so that the loop over the
sectors of a cluster disappears. A sector is `Slots` units of 32 bytes, the
size of a directory entry: in a directory a unit is an entry, an LFN entry, a
deleted or a zero one, in a file it is data, and offsets and sizes count units.
A name is opaque: `LfnCount` says how many LFN entries `create_dir_entry`
writes for it, `Valid83` whether its short name is the name itself, `OccursIn`
what `path.find` in `resolve_path` would confuse. What the code does and one
would not expect is in the model as it is: the lookup ends at the first zero
slot, entries go into one sector or into a new cluster, an update that meets
the end mark is not written, only the short entry is deleted, the last two
clusters are never found free, a write that starts at a sector boundary zeroes
the rest of its last sector.

The code repeats one loop over a directory in `walk_dir`,
`update_dir_entry_size` and `delete_dir_entry`, with the same reading of names;
`Matches` stands for all three.

### Files (`fd_table.c`, the request loop of `fs-server`)

`vol` is the volume, `fds` the descriptor tables, `extent` how much of a
descriptor's path buffer is not NUL, `truncating` the descriptor of an `open`
that has its first reply and has not sent `FS_TRUNCATE` yet. A request, its
handler and what libc does with the reply are one step: the server is
single-threaded, the client sleeps, and no other program sees the state in
between. `OpenTruncate` and `Close` have a parameter `accepted`, since the
kernel may refuse their request and libc does not look; for the other calls a
refusal is an error that changes nothing. `saved`, `objs` and the fields `text`
and `sole` of a descriptor are observed and decide nothing: what a file was
left with at the last close (size, first cluster, and what the program that
closed it knew of it), the units along each chain, and what a program knows of
a file nobody else has touched. A descriptor stops to be `sole`, and knows
nothing from then on, when another one is on its path, and when the first write
to the file is made through it and is longer than a cluster (`Misplaced`):
`__fd_write` takes the last cluster of the reply for the first of the file then
(section 5). `ReadBack` and `SavedInFullSector` are claims about `sole`
descriptors, and say so.

| Action | Code |
|---|---|
| `Open`, `OpenTruncate` | `open`: `FS_OPEN` or `FS_CREATE_OPEN`, then `FS_TRUNCATE` |
| `Read`, `Write` | `__fd_read`, `__fd_write`: `FS_READ`, `FS_WRITE` |
| `Close` | `close`: `FS_UPDATE_SIZE` if dirty, `FS_CLOSE` |
| `Fork`, `Exit` | the table is copied, or gone; nothing is closed |
| `Delete`, `Mkdir` | `FS_DELETE`, `FS_MKDIR`, which no program of the repository sends |

The programs are restricted where the server is known not to protect them:
they delete what nobody has open, and make a directory only where there is
none.

### FileObjects

Files as one would like to think of them: a set of files, each a sequence of
units, and cursors. A step writes at one cursor, to a file that was there or a
new one, or empties one file, or changes none and drops those that nothing
leads to. Clusters, chains and directories do not occur in it.

### Memory (`page.rs`, `pgtable.rs`, `vm.rs`, `exec.rs`, `task.rs`)

On top of `Tasks`: `used` and `free_pages` of the allocator, and for each slot
its kernel stack, user stack, tables, image and heap as pages. `lost` is a
history variable: pages that a failed fork or exec dropped. Page tables are
counted, not walked: a leaf for each `RegionPages` pages, which stays when the
heap shrinks. Pages are handed out lowest first, as `alloc` scans the bitmap;
within one trap they are assigned by purpose and not in the order of the calls,
except where an error can come between them. Fork, exec and sbrk
each have an action for success, for running out of memory, and share
`PageFault` for touching a page the kernel does not map.

### BoundedQueue and MsgQueue (`kernel/ipc.rs`)

`BoundedQueue` is the abstract specification of the queue of an endpoint, with
the result of every operation; `Ipc` uses a queue that behaves in this way.
`MsgQueue` is the ring buffer of the code, with its array, `head`, `tail` and
`count`. The refinement mapping `Waiting` reads `count` messages from `head` on.

### Malloc (`libc/malloc.c`)

`heap` has the headers (size and free flag by address), the free list and the
end of the heap; `live` are the pointers the program holds with the size it
asked for, `areas` the memory it got from `sbrk` itself. `Alloc`, `Freed`,
`Taken` (first fit, split) and `Grown` (`request_more`, with the
`remove_from_free_list` that follows) are functions of the heap, so that `realloc` is the composition the code has. `size_t` wraps at
`WordMod`, and is passed to `sbrk` as a signed number.

## 3. Runs

| Run | What it asks | Size |
|---|---|---|
| `tasks` | The process table: pids unique, exactly one task running, no lost wakeup in waitpid, no dangling parent, idle last, a status reported once and never lost, no trap frees its own stack, finished tasks are freed, ready tasks run | 6 948 states |
| `ipc` | The same table and the endpoints under any calls: sleep and wait channel agree, receivers are recorded exactly while they sleep, at most one queued message uses `copy_buf`, `runnable_count` stays exact | 44 680 states (view) |
| `servers` | The real servers implement `SyncCall`: a request is in the queue or in the server's hands, exactly once and in the order of the calls, and is answered once; it arrives unchanged; `has_buffered` is exact; the interrupt is armed exactly while the console sleeps; characters arrive once and in order | 137 142 states (view) |
| `console_live` | Every console call is answered, with three clients and a queue of two | liveness |
| `fs_live` | Every call the kernel accepts for the file server is answered, with two clients and a queue of one | liveness |
| `memory` | Pages through fork, exec, sbrk, exit, waitpid: owned once, never used after free, never leaked except by a failed fork or exec, heap mapped up to `heap_end` | 106 201 states (view) |
| `msg_queue` | The ring buffer implements the bounded queue; its indices and count agree | 648 states |
| `malloc` | Blocks and the program's own memory tile the heap, the free list is exact, requests are honoured | 326 648 states |
| `files` | Two programs and one volume: chains are allocated to their end, no two files or directories share a cluster, `read_file` copies what lies along the chain, what a program wrote is what it reads and a closed file is there with its size and what was known of it (where the sector of its entry is full), both unless the first write was longer than a cluster, an open file is found by its path, `FileObjects` is implemented | 50 427 states (view) |
| `saved`, `found`, `reachable` | violated, see Findings | |

**Bounds.**
- `tasks`: 4 slots, 2 boot tasks, pids up to 5. The table fills up (fork with
  no slot), slots are reused with other pids, three generations exist at a
  time, and orphans, detached zombies and sleeping parents all occur. The
  proofs remove this bound for the safety properties.
- `ipc`: one endpoint, its owner, two clients and one fork; a queue of 2, so
  that it is empty, partly full and full; buffers of length 0 and 1.
- `servers`: both servers, a shell and one process it forks (pids are not
  reused), a queue of 2, FIFO of 2.
- `console_live`, `fs_live`: no fork and no exit (`ExitCodes = {}`), since a
  server that is gone answers nobody. Requests pile up to a full queue while
  the server is busy with another one: three clients for a queue of two on the
  console, two clients for a queue of one on the file server.
- `memory`: 3 slots, one boot task and up to 3 more, 23 pages with 22 mapped.
  Two address spaces fit, a third or a large heap does not, so that memory
  runs out inside fork, exec and sbrk at different points. Pages of 2 bytes
  put `heap_end` both on and off a page boundary. In the real machine the part
  beyond the mapping is as large as the kernel image, hundreds of pages, so
  that a page fault always comes before exhaustion; with one unmapped page
  both the fault and the out-of-memory paths, which the code also has, are
  reached. `CHECK_DEADLOCK FALSE`: a panicked kernel has stopped.
- `msg_queue`: a buffer of three, which wraps, fills and empties.
- `malloc`: a heap of 24 bytes with an alignment of 2, so that up to six blocks
  are allocated, freed in any order, split, and taken whole with a remainder
  too small to be a block. `WordMod` is 128 and one size is 66: alone it is
  refused, and twice of it wraps. `CHECK_DEADLOCK FALSE`: a program that has
  taken the whole heap with sbrk can only fail.
- `files`: six clusters, of which four can be allocated, sectors of four slots,
  two programs with one descriptor each (`MaxFd` = 4), at most four descriptors
  filled in (`MaxOpens`). The root is full with the file `a` and the directory
  `d`, whose long name takes three slots; `/d/b` is in a directory with free
  slots. Writes of three and of five units against sectors of four start at the
  beginning, inside and across a boundary, and chains have up to two clusters.
  The units of the two texts differ, so that a shift or a mix shows. A first
  write of five is made as well, and a write of five to a file that has its
  cluster is part of what `ReadBack` compares. The volume
  runs full, clusters are freed and used again, entries are deleted and their
  slots taken by others, both programs have the same file open, by open and by
  fork, and truncate it under each other. `CHECK_DEADLOCK FALSE`: with
  `MaxOpens` reached and everything closed nothing is left to do.
- `saved` has the same bounds and the short text only, `found` has two long
  names in the root.
- `MaxPid` bounds forks everywhere. `next_pid` only grows in the code as well.

**Views.** A view merges states that TLC need not tell apart. `KernelView`
leaves out registers and buffers, which do not decide what happens to the table
and the endpoints; `ServersView` leaves them out for tasks that will overwrite
them before they are read; `MemView` leaves out which mapped pages a task has,
and keeps how many, and the sizes of the overlaps that the invariants forbid.
`FilesView` leaves out which
clusters a chain has and keeps what lies along it and who leads to it.
The comments in the MC modules give the argument. Liveness is checked without
views.

**Fairness.** `WF(Timer)`: every timer interrupt re-arms the SBI timer, so the
next one comes. `WF(ExternalTrap)`: a level interrupt that stays raised is
taken. `WF(Typing)`: somebody goes on typing; a `CONSOLE_READ` waits for a key,
and all other clients of the console wait behind it. `SF(ConsoleStep)`,
`SF(FsStep)`: a program that is dispatched again and again gets through its
next step. It has to be strong, since a step is enabled only while the program
is current and the timer takes the hart away; it is justified because a time
slice (100 ms) is many instructions, each step is a bounded number of them, and
progress made in a slice is kept. Clients have no fairness: they may stop.

## 4. Proofs

Everything here is proved for every value of the constants that satisfies the
module's assumption, and checked by TLC on the instance of section 3.

| Module | Specification | Theorems: the properties they state |
|---|---|---|
| `TasksProofs` | `TasksSpec` | every safety property of run `tasks`, the two action properties included; `SleepMatchesChannel`, `RunnableCountExact` |
| `MsgQueueProofs` | `MsgQueueSpec` | `IsBoundedQueue`, `TailFollows` |
| `IpcProofs` | `IpcSpec` | `IpcTypeOK`, `ReceiverRecorded`, `OneBufferedMessage`, `SleepMatchesChannel`, `RunnableCountExact` |
| `ServersProofs` | `ServersSpec` | `ImplementsSyncCall`, `RequestIntact`, `CharsInOrder`, `IrqArmedWhileAsleep`, `HasBufferedExact`, and the kernel's `ReceiverRecorded`, `OneBufferedMessage`, `RunnableCountExact` |
| `MemoryProofs` | `MemSpec` | `PagesOwnedOnce`, `NothingDangling`, `PagesAccounted`, `HeapMapped`, and the table's `PidsConsistent`, `OneRunning`, `RunnableCountExact` |
| `MallocProofs` | `MallocSpec` | `BlocksTile`, `FreeListExact`, `RequestHonoured`, if `NoHugeRequest` |
| `FilesProofs` (and `VolumeProofs`, the volume on its own) | `FilesSpec` | `FilesTypeOK`, `ReferencesLive`, `ChainsSeparate`, `OpenFilesFound`, `ReadsChain`, `SavedInFullSector`, `ImplementsObjects`, `ReadBack`, all if `PlainPaths` |

### Tasks

The assumption is `TasksAssumption`: the idle task and the boot tasks fit into
the table. The invariants are inductive only together. `TasksInv` is the
conjunction of

- `TasksTypeOK`;
- `TableOK(tasks, next_pid, current)`: unique pids, the idle task is there and
  not asleep, sleep agrees with the channel, parents are alive, whoever waits
  for a child has that child, only the current task runs;
- the current task is in the table and runs;
- `runnable_count` is the cardinality of the runnable slots;
- idle is current only if nothing is ready;
- `ReportsOK` and `ReportedOnce`: the status of a pid that is still in the
  table with a parent, or that has not been handed out, has not been reported.

Why each is needed: that `runnable_count` stays exact in `exit` needs that the
caller is counted, so that it runs; that a waiter keeps its child needs unique
pids and live parents; that a status is reported at most once needs that a
zombie that was handed over has lost its parent.

`TableOK` takes the table as a parameter, so the argument follows the code:
`BlockOK`, `ReapedOK`, `PreemptedOK`, `DispatchOK` and `SwitchOK` say that each
stage of `schedule()` keeps it, `ScheduleOK` puts them together, and every
handler that ends in `schedule()` uses it once. `exit_current` has its own
lemmas, since it does not call `schedule()`. `FirstFromInSet` (a wrapping scan
of a non-empty set of slots ends in that set) rests on the well-foundedness of
`<`. There is one lemma per action, and `NextStep` combines them.

### The ring buffer

The invariant is `TailFollows`: `tail` is `count` places after `head`,
wrapping. From it, push writes a slot that none of the waiting messages is in
(`PushAppends`), and pop leaves the same messages, seen from the next slot
(`PopTakesHead`). The only assumption is that the size is not 0.

### IPC

The first part of `IpcProofs`, which `ServersProofs` uses as well, reduces the
process table to what IPC sees of it: `Sleeps(t, p, w)`,
task `p` sleeps on a channel of another module. The traps of `Tasks` leave it as
it is, `Block` adds one sleeper, and waking (`Awoken`) removes those it names,
whatever `schedule()` does besides.

`IpcInv` is `TasksInv`, `IpcTypeOK`, `Receivers` and `OneBuffered` for every
endpoint, and that the servers' pids have been handed out. `Receivers` is
`ReceiverRecorded` in terms of `Sleeps`, and has to say that nobody but the
owner sleeps in a receive and that nothing is queued meanwhile: otherwise a
call that finds `waiting_receiver` set could wake the wrong task, or overtake a
message. `OneBuffered` needs the converse of what is asked for, that a queued
message with data has `has_buffered` up: a second one is refused for that
reason only.

### Servers

`ServersInv` says of each of the two endpoints

- `QueueOK`: a queued message is what a client asleep in that call sent, with
  the data still in `copy_buf`, and no client is in the queue twice;
- `InHandOK`: the request a server works on is that of a client asleep in the
  call, and is no longer queued;
- `FlagOK`, `ClientsOK`, `LoopOK`: the flag, who calls, and where in its loop a
  server can sleep, the file server only with its whole buffer lent.

`IrqOK` and `CharsOK` are the same for the interrupt and the characters. Every
action of the kernel, a server or a client is shown to be one of six changes
(`Handed`, `PutInQueue`, `TakenFromQueue`, `WentToSleep`, `Answered`, `Quiet`),
and each change to keep the invariant, and to be a step of `SyncCall` or a
stutter under the mapping. The step that answers is where the parts meet: that
the reply goes to a client that waits for it needs `InHandOK`; that no stale
message of the client is left behind needs that it is in the queue at most
once, and not while its request is in hand.

`ImplementsSyncCall` is proved as TLC checks it, initial state and steps;
`CallAnswered`, its liveness, is not part of it.

### Memory

`MemInv` is `TasksInv`, the types of the address spaces, `HeapMapped` and

- `BitmapOK`: `free_pages` counts the pages that are not used, and lost pages
  and those of the kernel are used;
- `OwnersOK`: within an address space every page has one purpose, two spaces
  share none, and the used pages are those that are owned, lost or the kernel's;
- `SlotsOK`: an empty slot owns nothing, and a task with an address space has
  the leaf tables its image and heap need.

The last part is needed by the failing `sbrk`: how far it gets before memory
runs out is defined by the tables it already has. The allocator takes the free
pages in ascending order; that this is each of them once (`InOrderBijective`) is
shown with the rank of a page as a cardinality, without induction. Every action
is then an exchange of pages between the free pages and one slot, the release
of slots, or the loss of pages on an error path.

### Malloc

The theorems assume `NoHugeRequest`: no size that is asked for, and no product
in `calloc` that does not overflow, is within `HEAP_LIMIT` and two alignments
of 2^64. `malloc` does not check this, and without it the properties are false
(section 5): `TotalFacts` is the lemma that needs it, for the wrapping `ALIGN_UP`
and for the size passed to `sbrk` as a signed number. The run's own constants
satisfy it (`RequestsCounted`).

`MallocInv` is `HeapOK` and `HeldOK`. `Tiled` says that blocks and areas are
pairwise apart and that every byte is in one, rather than count them; `ListOK`
that the free list has the free blocks, each once; `HeldOK` that the blocks in use
are those the program has a pointer to, and large enough. All take the heap
as a parameter: `SplitOK`, `WholeOK` and `GrownOK` are about the three ways to
get a block, `FreedOK` about `free`, and `realloc` is `AllocOK` followed by
`FreedOK` on the heap in between. There the old block is still in use, so that it is
not the one found. `remove_from_free_list` after `request_more` is shown
to change nothing.

### Files

The theorems hold for every volume, sector size, set of programs, flags and
sizes of calls, and have one hypothesis about the constants.

`PlainPaths`: the names "." and ".." are not used; the last name of every path
is a valid 8.3 name as it stands; no file is the parent of another path; and
the last name of a file's path does not occur in the name before it. But for
the first, each part excludes something section 5 reports: a long name that is
put behind a free slot is not found again (run `found`), a file is accepted as
a parent, and `resolve_path` looks for a component as a text. Without it the
properties are false in general: that `PlainFilesStayFound` asks for plain names
is not a convenience, `OpenFilesFound` is false of the names run `found` uses. The names `a`, `b` and `d`, all 8.3, with the
files `/a` and `/d/b` and the directory `/d` satisfy it. In run `files` the
directory has a long name, which the theorems do not cover: there the run
stands alone.

Writes may have any length. What `ReadBack` and `SavedInFullSector` leave out,
the descriptor that made a first write longer than a cluster, is left out by
the properties themselves (`sole`), and nothing else is.

`FilesInv` is `TablesOK`, `RefsOK` and `ObjsOK`.

- `Labelled`: every cluster has a label, the first cluster of the chain it is
  in, or 0 when nothing leads to it. A labelled cluster is allocated, its
  successor has its label and is not the first, and no two have the same
  successor. That no chain comes back on itself, and that it ends before
  `TotalClusters` steps, follows by counting; one argument of two clusters with
  the same label is what makes appending, emptying and freeing local.
- `Tree`: every path leads to nothing or to an entry that starts a chain of its
  own, no two paths lead to the same chain, and in a directory no name occurs
  twice and the slots never used are behind all others (`DirOK`).
- `Held`, `HeldAll`, `Distinct`: an open descriptor leads to the chain of the
  entry of its path, or to none when nothing has been written through it, or
  to a chain that no entry knows of yet; two of these are the same only for
  the same path. `close` and `delete` need this: the size and the cluster a
  descriptor puts into an entry must not be those of another file.

`VolumeProofs` has the chains, the directories, the paths and the requests;
`FilesProofs` the descriptors and the actions.

There is no induction rule to use. `LeastIn`, a set of numbers that is not
empty has a least member, stands for it: `CountUp` follows a chain from its
first cluster on, and the recursive functions of `FatFs` are unfolded after it
is shown that a function with their recursion exists for each length.
`LoopInvariant` and `LoopAlong` do the same for the loops of `read_file` and
`write_file`; from them `ReadSlice` says that a read returns a slice of the
file's content, and `WriteContent` what a write makes of it, also when the
volume is full before the end. Each request has a lemma that says what it does
to the paths and the chains (`CreateRequest`, `UpdateRequest`,
`TruncateRequest`, `DeleteRequest`, `MkdirRequest`, `WriteRequest`,
`OpenRequest`), and each action uses the one of its request.

`ReadBack` is inductive with `KnownOK`: a descriptor that is not shared is the
only one open on its path (`AloneIn`), one that has still to send
`FS_TRUNCATE` is at offset 0 (`Waiting`), and what a descriptor knows is how
the content begins and no more than its size (`AllKnown`).

`SavedInFullSector` rests on `KnownOK` and on `SavedOK`: the entry of a file
that was saved with its sector full stays as it was, and its content goes on
beginning with what its program knew (`StillThere`), until that file is
written, truncated or deleted. Each request keeps the entries of all other
paths and changes no chain but its own; `StillRead` takes that to what
`read_file` returns.

`ImplementsObjects` rests on `ObserveOK`, that `objs` is the content along the
chains of the files that are led to. Every action is shown to change it as
`Store`, `Truncate` or `Move` of `FileObjects` do, or not at all; that all
other files keep their content is the separation of chains.

### Only model-checked

- Liveness (`FinishedAreFreed`, `ReadyRuns`, `CallAnswered`): fairness and
  `ENABLED` are out of the reach of the prover.
- The volume when a name on the path of a file is long (run `files`).

## 5. Findings

With a run that shows them:

1. `saved`: `update_dir_entry_size` returns at the end mark of the directory
   before it writes the sector (`fs-server/src/main.rs:858`). Unless the sector
   of the entry is full, a file that was written and closed has size 0 and no
   cluster when it is opened again. `SavedInFullSector` is what remains true
   for files whose first write was no longer than a cluster.
2. `found`: `create_dir_entry` puts a long name into a new cluster behind free
   slots, which end every later walk. The file cannot be found, and `O_CREAT`
   makes another entry (`main.rs:815`).
3. `reachable`: the kernel maps 16 MB from its start, the allocator hands out
   16 MB from its end. The last pages are not mapped, and a kernel that
   touches one panics instead of returning the error it has for exhaustion.

Met while modelling. Those marked with constants can be seen by changing them
in the configuration that is named:

- `__fd_write` records the last cluster of the first write as the first cluster
  of the file (`fd_table.c:306`): a first write longer than a cluster loses its
  beginning, for the program that wrote it and, after `close`, in the directory
  entry. With `Misplaced(e, n) == FALSE` TLC finds `ReadBack` violated in run
  `files` within three steps; as it is, `Misplaced` takes the descriptor out of
  `ReadBack` and `SavedInFullSector`.
- `request_more` passes `size_t` to `sbrk` as a signed number: a request in the
  upper half that is no more than the heap away from 2^64 shrinks the heap under
  blocks in use (module `Malloc` with `MCMalloc.cfg`, `HeapLimit = 40`,
  `Sizes = {1, 20, 108}`, `BlocksTile`). `NoHugeRequest` excludes it.
- The payloads of malloc are aligned only as long as the program's own calls of
  `sbrk` ask for multiples of the alignment. heap-test asks for 5000 bytes.
- `sync_dir_entry` sends the whole path buffer, with the end of an older,
  longer path in it, and the server looks for a name that is not there
  (`PathSentWhole`); that the update is refused, or not accepted by the
  kernel, is not looked at. A program that exits without close loses the size
  as well. The clusters are lost in all three cases.
- `FS_DELETE` frees the clusters of a file that others have open
  (`ReferencesLive` is violated without the first two guards of `Delete`).
- `delete_dir_entry` never marks the LFN entries (`lfn_len` is reset before it
  is tested, `main.rs:1045` and `1076`), and a short entry that takes the freed
  slot goes by the old long name.
- `resolve_path` finds the position of a component with `path.find`:
  `/ab/a` is refused for a file `a`, since the text occurs in `ab`.
- A name of at most 13 characters that is not a valid 8.3 name has no LFN entry
  and is not found again; a name that needs more than 16 slots makes the
  directory grow until the volume is full.
- `FS_MKDIR` does not look for the name and replies OK when there was no room
  for the entry; `FS_MKDIR` and `FS_CREATE_OPEN` accept a file as the parent.
- A plain `ipc_recv` that takes a buffered message leaves `has_buffered` up; a
  plain call that wakes a `recv_buf` does not write `a5`, the length. The
  servers here do not mix the two receives, and `FS_CLOSE`, the only plain call
  to the file server, does not use the length: in run `servers`
  `HasBufferedExact` holds.
- `waitpid` returns the exit code and the error in one register, so that
  `exit(-1)` looks like an error. `nekos_ipc_call_buf` and `nekos_ipc_recv_buf`
  (`nekos.c:212`, `250`) do not tell the compiler of, or do not read, the
  registers the kernel writes; both are below the level of the model.

## 6. Not modelled

- Bytes inside of a unit of 32 of a file, the characters of names, and the
  dates and attributes of entries other than "directory"; the BIOS parameter
  block, which the server writes and reads back itself; `FS_READDIR`, which
  counts entries. Read and write calls that the kernel refuses: they return an
  error and change nothing.
- Page contents, permissions and the walk of a table (`translate_user`): an
  unmapped user buffer is a nondeterministic choice.
- ELF and initrd parsing: their input is made by the build. printf, the
  formatting of `ps`, the shell's command line: no state of interest. Return
  values of `waitpid`.
- Boot, trap entry and exit in assembly, CSRs: the initial state is the one
  boot leaves. The build scripts.
- `SYS_SHUTDOWN` (ends the machine), unknown system calls and page faults of
  user programs (panic).

## 7. Plan

Done: `Tasks`, `MsgQueue`, `Ipc`, `Uart`, `Servers` with `SyncCall`, `Memory`,
`Malloc`, and `FatFs` and `Files` with `FileObjects`, all with proofs.

Proofs that are left: the volume with long names, for paths whose entries end
before the first free slot of their directory, which needs an invariant about
the slots before an entry.

Modelling that is left: a variant of `Tasks` with recycled pids, to ask for
starvation by `exit_current`'s choice of the first ready slot; the return
values of `waitpid`; the boot sequence; page tables that are walked.
