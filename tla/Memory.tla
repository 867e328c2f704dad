------------------------------- MODULE Memory -------------------------------
(***************************************************************************)
(* Physical pages and address spaces: the page allocator (page.rs), the    *)
(* page tables as far as they take pages (pgtable.rs, vm.rs), and what     *)
(* fork, exec, sbrk, exit and waitpid do with both (task.rs, exec.rs), on  *)
(* top of module Tasks.                                                    *)
(*                                                                         *)
(* An address space is the pages it is made of.  Sv39 tables are counted:  *)
(* those of the kernel's mappings, one leaf for the stack, and a leaf for  *)
(* every RegionPages pages of image and heap; a leaf stays when the heap   *)
(* shrinks.  Sizes are in bytes where the code has bytes (heap_end) and in *)
(* pages elsewhere.  Several pages taken in one trap are handed out by the *)
(* purpose they are for, not in the order of the calls, where nothing      *)
(* depends on it.                                                          *)
(*                                                                         *)
(* The kernel reaches a page through its identity mapping of 16 MB from    *)
(* its own start, the allocator hands out 16 MB from the kernel's end: the *)
(* last pages are beyond the mapping, and a kernel that touches one takes  *)
(* a page fault, which panics.                                             *)
(***************************************************************************)
EXTENDS Tasks, Sequences

CONSTANTS
    PhysPages,     \* pages of the allocator (MAX_PAGES)
    Mapped,        \* how many of them the kernel's identity mapping covers
    KernelTables,  \* tables for vm::map_kernel, the root among them
    RegionPages,   \* pages under one leaf table (512)
    PageSize,      \* PAGE_SIZE
    HeapLimit,     \* HEAP_LIMIT, counted from the start of the heap
    Images,        \* sizes of the programs in the initrd, in pages
    BootImage,     \* size of the boot programs
    Deltas         \* sizes of the steps of sbrk, up and down

VARIABLES
    used,        \* the bits of PageAllocator.bitmap
    free_pages,  \* PageAllocator.free_pages
    spaces,      \* the address space and the kernel stack of each slot
    lost,        \* history: pages a failed fork or exec has dropped
    panicked     \* the kernel has stopped

memVars == <<used, free_pages, spaces, lost, panicked>>
memoryVars == <<tasksVars, memVars>>

Increments == Deltas \cup {0 - d : d \in Deltas}

Pages  == 0 .. PhysPages - 1
NoPage == -1

(* The fields of Task that own pages; heap is a page for each PageSize     *)
(* bytes from heap_base on.                                                *)
Space == [kstack : Pages \cup {NoPage}, stack : Pages \cup {NoPage},
          tables : SUBSET Pages, image : SUBSET Pages, heap : Seq(Pages),
          heap_end : Nat]

NoSpace == [kstack |-> NoPage, stack |-> NoPage, tables |-> {}, image |-> {},
            heap |-> <<>>, heap_end |-> 0]

-----------------------------------------------------------------------------
CeilDiv(a, b) == (a + b - 1) \div b

(* align_up, in pages.                                                     *)
AlignUp(n) == CeilDiv(n, PageSize)

(* Tables of an address space with an image and a heap of that many pages. *)
TablesFor(image, heap) == KernelTables + 1 + CeilDiv(image + heap, RegionPages)

UserPages(image, heap) == 1 + TablesFor(image, heap) + image + heap

(* The order in which PageAllocator.alloc hands out the pages of S: the    *)
(* lowest first.                                                           *)
InOrder(S) ==
    [i \in 1 .. Cardinality(S) |->
        CHOOSE p \in S : Cardinality({q \in S : q < p}) = i - 1]

Free == InOrder(Pages \ used)

Part(f, from, n) == {f[i] : i \in from + 1 .. from + n}

(* free_pages says how many pages there are: alloc fails without a look at *)
(* the bitmap when it is 0.                                                *)
Enough(n) == n <= free_pages

(* The pages an operation that wants n has touched when it ends.           *)
Touched(n) == {Free[i] : i \in 1 .. (IF Enough(n) THEN n ELSE Len(Free))}

Reachable(S) == \A p \in S : p < Mapped

Owned(sp) ==
    ({sp.kstack, sp.stack} \ {NoPage}) \cup sp.tables \cup sp.image
        \cup {sp.heap[i] : i \in DOMAIN sp.heap}

(* PageAllocator.alloc, n times; PageAllocator.free of the set S of pages. *)
(* A page that is free already is not counted again.                       *)
Allocated(n) ==
    /\ used' = used \cup Part(Free, 0, n)
    /\ free_pages' = free_pages - n

Released(S) ==
    /\ used' = used \ S
    /\ free_pages' = free_pages + Cardinality(S \cap used)

(* An error after the last page was taken: every page taken on the way is  *)
(* still marked and nobody knows it.                                       *)
DropFree ==
    /\ used' = Pages
    /\ free_pages' = 0
    /\ lost' = lost \cup (Pages \ used)

-----------------------------------------------------------------------------
(* vm::init, create_idle and a spawn for each boot task.                   *)
BootSpace(s) ==
    LET t    == TablesFor(BootImage, 0)
        base == 2 * KernelTables + 1 + (s - 1) * (UserPages(BootImage, 0) + 1)
    IN  [tables   |-> base .. base + t - 1,
         image    |-> base + t .. base + t + BootImage - 1,
         stack    |-> base + t + BootImage,
         kstack   |-> base + t + BootImage + 1,
         heap     |-> <<>>,
         heap_end |-> 0]

KernelPages == 0 .. KernelTables - 1     \* KERNEL_PAGETABLE

BootPages == 2 * KernelTables + 1 + BootTasks * (UserPages(BootImage, 0) + 1)

ASSUME MemoryAssumption ==
    /\ PhysPages \in Nat /\ Mapped \in 0 .. PhysPages
    /\ KernelTables \in Nat \ {0} /\ RegionPages \in Nat \ {0}
    /\ PageSize \in Nat \ {0} /\ HeapLimit \in Nat /\ HeapLimit % PageSize = 0
    /\ Images \subseteq Nat \ {0} /\ BootImage \in Nat \ {0}
    /\ Deltas \subseteq Nat
    /\ BootPages <= Mapped

MemInit ==
    /\ TasksInit
    /\ used = 0 .. BootPages - 1
    /\ free_pages = PhysPages - BootPages
    /\ spaces = [s \in Slots |->
          IF s = 0 THEN [NoSpace EXCEPT !.kstack = KernelTables,
                             !.tables = KernelTables + 1 .. 2 * KernelTables]
          ELSE IF s <= BootTasks THEN BootSpace(s)
          ELSE NoSpace]
    /\ lost = {}
    /\ panicked = FALSE

MySlot  == SlotOf(tasks, current)
MySpace == spaces[MySlot]

-----------------------------------------------------------------------------
(***************************************************************************)
(* fork: a kernel stack, a user stack, the tables, and a copy of every     *)
(* page of image and heap.                                                 *)
(***************************************************************************)
ForkPages ==
    1 + UserPages(Cardinality(MySpace.image), Len(MySpace.heap))

(* The stacks are taken first and written last.                            *)
ForkTouched ==
    IF Enough(ForkPages) THEN Touched(ForkPages)
                         ELSE {Free[i] : i \in 3 .. Len(Free)}

ForkedSharesStack_bug ==
    LET i == Cardinality(MySpace.image)
        h == Len(MySpace.heap)
        t == TablesFor(i, h)
    IN  [kstack   |-> Free[1],
         stack    |-> MySpace.stack,
         tables   |-> Part(Free, 2, t),
         image    |-> Part(Free, 2 + t, i),
         heap     |-> [j \in 1 .. h |-> Free[2 + t + i + j]],
         heap_end |-> MySpace.heap_end]

Forked ==
    LET i == Cardinality(MySpace.image)
        h == Len(MySpace.heap)
        t == TablesFor(i, h)
    IN  [kstack   |-> Free[1],
         stack    |-> Free[2],
         tables   |-> Part(Free, 2, t),
         image    |-> Part(Free, 2 + t, i),
         heap     |-> [j \in 1 .. h |-> Free[2 + t + i + j]],
         heap_end |-> MySpace.heap_end]

MemFork ==
    /\ Enough(ForkPages) /\ Reachable(ForkTouched)
    /\ SysFork
    /\ spaces' = [spaces EXCEPT ![FirstFrom(FreeSlots(tasks), 0)] = Forked]
    /\ Allocated(ForkPages)
    /\ UNCHANGED <<lost, panicked>>

(* The table is full, which is noticed when the child is complete.         *)
MemForkNoSlot ==
    /\ Enough(ForkPages) /\ Reachable(ForkTouched)
    /\ SysForkNoSlot
    /\ Allocated(ForkPages)
    /\ lost' = lost \cup Part(Free, 0, ForkPages)
    /\ UNCHANGED <<spaces, panicked>>

MemForkNoMemory ==
    /\ current # IdlePid
    /\ ~Enough(ForkPages) /\ Reachable(ForkTouched)
    /\ DropFree
    /\ UNCHANGED <<tasksVars, spaces, panicked>>

(***************************************************************************)
(* exec: load() builds the new address space, replace_current puts it in   *)
(* place of the old one, which is freed; the kernel stack stays.           *)
(***************************************************************************)
ExecFreedStack_bug(sp) == Owned(sp)

(* free_user_space                                                         *)
ExecFreed(sp) == Owned(sp) \ {sp.kstack}

Loaded(image) ==
    LET t == TablesFor(image, 0)
    IN  [kstack   |-> MySpace.kstack,
         tables   |-> Part(Free, 0, t),
         image    |-> Part(Free, t, image),
         stack    |-> Free[t + image + 1],
         heap     |-> <<>>,
         heap_end |-> 0]

SysExec(image) ==
    LET n == UserPages(image, 0)
    IN  /\ current # IdlePid
        /\ Enough(n) /\ Reachable(Touched(n))
        /\ spaces' = [spaces EXCEPT ![MySlot] = Loaded(image)]
        /\ used' = (used \cup Part(Free, 0, n)) \ ExecFreed(MySpace)
        /\ free_pages' = free_pages - n + Cardinality(ExecFreed(MySpace) \cap used)
        /\ UNCHANGED <<tasksVars, lost, panicked>>

SysExecNoMemory(image) ==
    LET n == UserPages(image, 0)
    IN  /\ current # IdlePid
        /\ ~Enough(n) /\ Reachable(Touched(n))
        /\ DropFree
        /\ UNCHANGED <<tasksVars, spaces, panicked>>

(***************************************************************************)
(* sbrk                                                                    *)
(***************************************************************************)

(* Leaf tables to be added for the heap to grow to h pages.                *)
Gain(h) ==
    LET t == TablesFor(Cardinality(MySpace.image), h)
    IN  IF t > Cardinality(MySpace.tables)
        THEN t - Cardinality(MySpace.tables) ELSE 0

(* Pages taken when the heap has grown to h pages, and where in the order  *)
(* of allocation its page i is: it is taken before the leaf it needs.      *)
Cost(h)    == h - Len(MySpace.heap) + Gain(h)
HeapPos(i) == i - Len(MySpace.heap) + Gain(i - 1)

NewHeap(h) ==
    [i \in 1 .. h |-> IF i <= Len(MySpace.heap) THEN MySpace.heap[i]
                                                ELSE Free[HeapPos(i)]]

NewTables(h) ==
    MySpace.tables \cup
        (Part(Free, 0, Cost(h)) \ {NewHeap(h)[i] : i \in 1 .. h})

SbrkInRange(inc) ==
    /\ current # IdlePid
    /\ MySpace.heap_end + inc \in 0 .. HeapLimit

Wanted(inc) == AlignUp(MySpace.heap_end + inc)

SysSbrkGrow(inc) ==
    LET h == Wanted(inc)
    IN  /\ SbrkInRange(inc)
        /\ h >= Len(MySpace.heap)
        /\ Enough(Cost(h)) /\ Reachable(Touched(Cost(h)))
        /\ spaces' = [spaces EXCEPT ![MySlot] =
              [MySpace EXCEPT !.heap = NewHeap(h), !.tables = NewTables(h),
                              !.heap_end = @ + inc]]
        /\ Allocated(Cost(h))
        /\ UNCHANGED <<tasksVars, lost, panicked>>

(* The pages of heap that are mapped when the next page, or the table for  *)
(* it, cannot be had.                                                      *)
Reached(inc) ==
    CHOOSE k \in Len(MySpace.heap) .. Wanted(inc) :
        Enough(Cost(k)) /\ ~Enough(Cost(k + 1))

SysSbrkNoRollback_bug(inc) ==
    LET k == Reached(inc)
    IN  /\ SbrkInRange(inc)
        /\ Wanted(inc) > Len(MySpace.heap)
        /\ ~Enough(Cost(Wanted(inc))) /\ Reachable(Touched(Cost(Wanted(inc))))
        /\ spaces' = [spaces EXCEPT ![MySlot] =
              [@ EXCEPT !.heap = NewHeap(k), !.tables = NewTables(k)]]
        /\ Allocated(Cost(k))
        /\ UNCHANGED <<tasksVars, lost, panicked>>

(* Out of memory: what was mapped is unmapped again, new leaf tables stay. *)
SysSbrkNoMemory(inc) ==
    LET more == NewTables(Reached(inc)) \ MySpace.tables
    IN  /\ SbrkInRange(inc)
        /\ Wanted(inc) > Len(MySpace.heap)
        /\ ~Enough(Cost(Wanted(inc))) /\ Reachable(Touched(Cost(Wanted(inc))))
        /\ spaces' = [spaces EXCEPT ![MySlot].tables = @ \cup more]
        /\ used' = used \cup more
        /\ free_pages' = free_pages - Cardinality(more)
        /\ UNCHANGED <<tasksVars, lost, panicked>>

SysSbrkShrink(inc) ==
    LET h == Wanted(inc)
    IN  /\ SbrkInRange(inc)
        /\ h < Len(MySpace.heap)
        /\ spaces' = [spaces EXCEPT ![MySlot] =
              [MySpace EXCEPT !.heap = SubSeq(@, 1, h), !.heap_end = @ + inc]]
        /\ Released({MySpace.heap[i] : i \in h + 1 .. Len(MySpace.heap)})
        /\ UNCHANGED <<tasksVars, lost, panicked>>

(***************************************************************************)
(* The other traps.  free_task, called by waitpid and by                   *)
(* reap_detached_zombies, frees what the slots they clear own.             *)
(***************************************************************************)
Cleared == {s \in Slots : tasks[s] # NoTask /\ tasks'[s] = NoTask}

FreedWithSlotKeepsStack_bug(s) == ExecFreed(spaces[s])

FreedWithSlot(s) == Owned(spaces[s])

MemOther ==
    /\ \/ Timer \/ SysYield
       \/ \E p \in 1 .. MaxPid : SysWaitpidReap(p) \/ SysWaitpidBlock(p)
       \/ \E code \in ExitCodes : SysExit(code)
    /\ Released(UNION {FreedWithSlot(s) : s \in Cleared})
    /\ spaces' = [s \in Slots |-> IF s \in Cleared THEN NoSpace ELSE spaces[s]]
    /\ UNCHANGED <<lost, panicked>>

(* A page is touched that the kernel's page table does not map.            *)
PageFault ==
    /\ current # IdlePid
    /\ \/ ~Reachable(ForkTouched)
       \/ \E image \in Images : ~Reachable(Touched(UserPages(image, 0)))
       \/ \E inc \in Increments :
             /\ SbrkInRange(inc) /\ Wanted(inc) > Len(MySpace.heap)
             /\ ~Reachable(Touched(Cost(Wanted(inc))))
    /\ panicked' = TRUE
    /\ UNCHANGED <<tasksVars, used, free_pages, spaces, lost>>

MemNext ==
    /\ ~panicked
    /\ \/ MemFork \/ MemForkNoSlot \/ MemForkNoMemory
       \/ \E image \in Images : SysExec(image) \/ SysExecNoMemory(image)
       \/ \E inc \in Increments :
             SysSbrkGrow(inc) \/ SysSbrkNoMemory(inc) \/ SysSbrkShrink(inc)
       \/ MemOther
       \/ PageFault

MemSpec == MemInit /\ [][MemNext]_memoryVars

-----------------------------------------------------------------------------
AllOwned == UNION {Owned(spaces[s]) : s \in Slots}

(* No page serves two purposes: address spaces and kernel stacks share     *)
(* nothing with each other or with the kernel's own page table, so that    *)
(* "fork copies the heap" (README) isolates parent and child, and within   *)
(* an address space stack, tables, image and heap are different pages.     *)
PagesOwnedOnce ==
    /\ \A s, r \in Slots :
          s # r => Owned(spaces[s]) \cap Owned(spaces[r]) = {}
    /\ \A s \in Slots :
          LET sp == spaces[s]
          IN  Cardinality(Owned(sp)) =
                Cardinality({sp.kstack, sp.stack} \ {NoPage})
                  + Cardinality(sp.tables) + Cardinality(sp.image)
                  + Len(sp.heap)
    /\ AllOwned \cap KernelPages = {}

(* Nothing is used after it was freed: whatever a task of the table still  *)
(* refers to, a zombie's kernel stack included, is marked in the bitmap.   *)
NothingDangling == AllOwned \subseteq used

(* Nothing else is marked: exec, sbrk, exit and waitpid give every page    *)
(* back, and only a fork or exec that fails loses any.  free_pages, which  *)
(* alloc trusts before it scans, counts the rest.                          *)
PagesAccounted ==
    /\ used \subseteq AllOwned \cup lost \cup KernelPages
    /\ lost \cap (AllOwned \cup KernelPages) = {}
    /\ free_pages = Cardinality(Pages \ used)

(* The heap is mapped up to heap_end and no further, also after an sbrk    *)
(* that failed half way, so that fork, which gives up at a hole in the     *)
(* heap, never meets one.                                                  *)
HeapMapped ==
    \A s \in Slots : /\ Len(spaces[s].heap) = CeilDiv(spaces[s].heap_end, PageSize)
                     /\ spaces[s].heap_end \in 0 .. HeapLimit

(* "We map the whole kernel space" (the comment in vm::init): the kernel   *)
(* never faults on a page its allocator has handed out.                    *)
PagesReachable == ~panicked

=============================================================================
