------------------------------- MODULE Malloc -------------------------------
(***************************************************************************)
(* malloc, free, calloc and realloc of libc (src/user/libc/malloc.c): a    *)
(* first-fit free list on memory that sbrk provides.  A block is a header  *)
(* of one alignment unit and its payload; blocks are split, and never      *)
(* merged.  The program frees what it has allocated, once, and may call    *)
(* sbrk itself, as unistd.h lets it.                                       *)
(*                                                                         *)
(* Addresses count from the start of the heap, which is page-aligned, and  *)
(* size_t wraps at WordMod.  The free list, linked through the headers in  *)
(* the code, is the sequence of its blocks.  What is in a payload, and so  *)
(* calloc's zeroes and realloc's copy, is left out.  A call that returns   *)
(* NULL, when sbrk fails, changes nothing and is a disabled action.        *)
(***************************************************************************)
EXTENDS Integers, Sequences, FiniteSets

CONSTANTS
    Alignment,   \* ALIGNMENT
    WordMod,     \* 2^64
    HeapLimit,   \* HEAP_LIMIT of the kernel, from the start of the heap
    Sizes,       \* sizes asked for
    Counts,      \* first arguments of calloc
    Steps        \* sizes the program passes to sbrk itself

ASSUME MallocAssumption ==
    /\ Alignment \in Nat \ {0}
    /\ WordMod \in Nat /\ HeapLimit \in Nat /\ 2 * HeapLimit < WordMod
    /\ Sizes \subseteq 0 .. WordMod - 1
    /\ Counts \subseteq 1 .. WordMod - 1
    /\ Steps \subseteq Nat \ {0}

VARIABLES
    heap,    \* the headers, the free list and the end of the heap
    live,    \* the program's pointers, with the size it asked for
    areas    \* memory the program got from sbrk itself

mallocVars == <<heap, live, areas>>

HeaderSize   == Alignment
MinBlockSize == 2 * Alignment

(* block_header_t: the size with the header, and the flag in its low bit.  *)
UsedBlock(n) == [size |-> n, free |-> FALSE]
FreeBlock(n) == [size |-> n, free |-> TRUE]

(* f with v at x, whether or not f has a value there.                      *)
Put(f, x, v) == [y \in DOMAIN f \cup {x} |-> IF y = x THEN v ELSE f[y]]

Ptr(a) == a + HeaderSize     \* PTR_FROM_HDR
Hdr(p) == p - HeaderSize     \* HDR_FROM_PTR

MallocInit ==
    /\ heap = [blocks |-> << >>, free_list |-> << >>, end |-> 0]
    /\ live = << >>
    /\ areas = << >>

-----------------------------------------------------------------------------
(* ALIGN_UP                                                                *)
AlignUp(n) == (((n + Alignment - 1) % WordMod) \div Alignment) * Alignment

(* The size of the block for a payload of n bytes.                         *)
Total(n) ==
    LET t == AlignUp((n + HeaderSize) % WordMod)
    IN  IF t < MinBlockSize THEN MinBlockSize ELSE t

(* A size_t as an intptr_t.                                                *)
Signed(n) == IF n < WordMod \div 2 THEN n ELSE n - WordMod

(* sbrk of the kernel, when there is memory.                               *)
SbrkGrants(h, inc) == h.end + inc \in 0 .. HeapLimit

Fits(h, total) ==
    {i \in DOMAIN h.free_list : h.blocks[h.free_list[i]].size >= total}

FirstFit(h, total) ==
    CHOOSE i \in Fits(h, total) : \A j \in Fits(h, total) : i <= j

Without(s, i) == SubSeq(s, 1, i - 1) \o SubSeq(s, i + 1, Len(s))

TakenWhole_bug(h, i, total) ==
    LET a    == h.free_list[i]
        size == h.blocks[a].size
    IN  IF size >= total + MinBlockSize
        THEN [h EXCEPT !.blocks = Put([@ EXCEPT ![a].free = FALSE],
                                      a + total, FreeBlock(size - total)),
                       !.free_list[i] = a + total]
        ELSE [h EXCEPT !.blocks[a].free = FALSE,
                       !.free_list = Without(@, i)]

TakenKeepsEntry_bug(h, i, total) ==
    LET a    == h.free_list[i]
        size == h.blocks[a].size
    IN  IF size >= total + MinBlockSize
        THEN [h EXCEPT !.blocks = Put(Put(@, a, UsedBlock(total)),
                                      a + total, FreeBlock(size - total)),
                       !.free_list[i] = a + total]
        ELSE [h EXCEPT !.blocks[a].free = FALSE]

(* Take block i of the free list; a remainder that can be a block takes    *)
(* its place there.                                                        *)
Taken(h, i, total) ==
    LET a    == h.free_list[i]
        size == h.blocks[a].size
    IN  IF size >= total + MinBlockSize
        THEN [h EXCEPT !.blocks = Put(Put(@, a, UsedBlock(total)),
                                      a + total, FreeBlock(size - total)),
                       !.free_list[i] = a + total]
        ELSE [h EXCEPT !.blocks[a].free = FALSE,
                       !.free_list = Without(@, i)]

(* remove_from_free_list                                                   *)
Removed(s, a) ==
    IF \E i \in DOMAIN s : s[i] = a
    THEN Without(s, CHOOSE i \in DOMAIN s :
                       s[i] = a /\ \A j \in DOMAIN s : s[j] = a => i <= j)
    ELSE s

(* request_more: a block at the old end of the heap, and the removal from  *)
(* a list it is not in.                                                    *)
Grown(h, total) ==
    [h EXCEPT !.blocks = Put(@, h.end, UsedBlock(total)),
              !.free_list = Removed(@, h.end),
              !.end = @ + Signed(total)]

(* malloc: whether it succeeds, the heap it leaves, and what it returns.   *)
CanAlloc(h, n) ==
    /\ n # 0
    /\ Fits(h, Total(n)) # {} \/ SbrkGrants(h, Signed(Total(n)))

Alloc(h, n) ==
    IF Fits(h, Total(n)) # {} THEN Taken(h, FirstFit(h, Total(n)), Total(n))
                              ELSE Grown(h, Total(n))

Allocated(h, n) ==
    Ptr(IF Fits(h, Total(n)) # {} THEN h.free_list[FirstFit(h, Total(n))]
                                  ELSE h.end)

(* free: to the head of the list.                                          *)
Freed(h, p) ==
    [h EXCEPT !.blocks[Hdr(p)].free = TRUE,
              !.free_list = <<Hdr(p)>> \o @]

Forget(p) == [q \in DOMAIN live \ {p} |-> live[q]]

-----------------------------------------------------------------------------
Malloc(n) ==
    /\ CanAlloc(heap, n)
    /\ heap' = Alloc(heap, n)
    /\ live' = Put(live, Allocated(heap, n), n)
    /\ UNCHANGED areas

Free(p) ==
    /\ heap' = Freed(heap, p)
    /\ live' = Forget(p)
    /\ UNCHANGED areas

(* The check for overflow in calloc.                                       *)
ProductFits_bug(k, n) == TRUE

ProductFits(k, n) == n <= (WordMod - 1) \div k

Calloc(k, n) ==
    LET total == (k * n) % WordMod
    IN  /\ ProductFits(k, n)
        /\ CanAlloc(heap, total)
        /\ heap' = Alloc(heap, total)
        /\ live' = Put(live, Allocated(heap, total), k * n)
        /\ UNCHANGED areas

OldPayload(p) == heap.blocks[Hdr(p)].size - HeaderSize

(* realloc.  Of a null pointer it is malloc, to size 0 it is free.         *)
ReallocInPlace(p, n) ==
    /\ n # 0
    /\ n <= OldPayload(p)
    /\ live' = [live EXCEPT ![p] = n]
    /\ UNCHANGED <<heap, areas>>

ReallocMove(p, n) ==
    /\ n > OldPayload(p)
    /\ CanAlloc(heap, n)
    /\ heap' = Freed(Alloc(heap, n), p)
    /\ live' = Put(Forget(p), Allocated(heap, n), n)
    /\ UNCHANGED areas

(* The program calls sbrk and keeps the memory.                            *)
Sbrk(n) ==
    /\ SbrkGrants(heap, n)
    /\ heap' = [heap EXCEPT !.end = @ + n]
    /\ areas' = Put(areas, heap.end, n)
    /\ UNCHANGED live

MallocNext ==
    \/ \E n \in Sizes : Malloc(n)
    \/ \E k \in Counts, n \in Sizes : Calloc(k, n)
    \/ \E p \in DOMAIN live :
          Free(p) \/ \E n \in Sizes : ReallocInPlace(p, n) \/ ReallocMove(p, n)
    \/ \E n \in Steps : Sbrk(n)

MallocSpec == MallocInit /\ [][MallocNext]_mallocVars

-----------------------------------------------------------------------------
(* The requests that malloc can count: those within HEAP_LIMIT and a header*)
(* of 2^64 wrap to a small size, or shrink the heap as a negative argument *)
(* of sbrk.  malloc itself does not look.                                  *)
NoHugeRequest ==
    \A r \in Sizes \cup {k * n : k \in Counts, n \in Sizes} :
        r < WordMod => r <= WordMod - HeapLimit - 2 * Alignment

Holds(x, from, size) == from <= x /\ x < from + size

(* Blocks and the program's own memory tile the heap: no byte belongs to   *)
(* two of them, so that no two pointers overlap and no header lies in a    *)
(* payload, and none is lost when blocks are split and used again.         *)
BlocksTile ==
    /\ \A x \in 0 .. heap.end - 1 :
          Cardinality({a \in DOMAIN heap.blocks : Holds(x, a, heap.blocks[a].size)})
            + Cardinality({a \in DOMAIN areas : Holds(x, a, areas[a])}) = 1
    /\ \A a \in DOMAIN heap.blocks : a + heap.blocks[a].size <= heap.end

(* The free list has every block that the program does not hold, once, and *)
(* no other; the flag in the header says the same.                         *)
FreeListExact ==
    LET listed == {heap.free_list[i] : i \in DOMAIN heap.free_list}
    IN  /\ Cardinality(listed) = Len(heap.free_list)
        /\ \A a \in DOMAIN heap.blocks :
              /\ heap.blocks[a].free <=> a \in listed
              /\ heap.blocks[a].free <=> Ptr(a) \notin DOMAIN live

(* What the program got is as large as what it asked for, through reuse,   *)
(* split, realloc in place and calloc's product.                           *)
RequestHonoured ==
    \A p \in DOMAIN live : live[p] <= OldPayload(p)

=============================================================================
