---------------------------- MODULE BuddyAllocator ----------------------------
(***************************************************************************)
(* The kernel heap: the binary buddy allocator of kmem/heap/buddy.rs       *)
(* behind the spin lock of LockedHeap (kmem/heap.rs).                      *)
(*                                                                         *)
(* The lock makes calls atomic towards each other, so at most one call is  *)
(* in progress.  The loops of init, allocate_order and dealloc are         *)
(* followed one iteration per action: `pc` says which call holds the lock  *)
(* and `addr`, `order`, `remaining`, `layout` are its local variables.     *)
(* Addresses are numbers; a free list is the sequence of the addresses of  *)
(* its blocks, head first.  An Option is a set of at most one element.     *)
(***************************************************************************)
EXTENDS HeapRange, Sequences

CONSTANTS MIN_ORDER,   \* smallest block order handed out
          MAX_ORDER,   \* largest order the free lists are kept for
          NODE_SIZE    \* size_of::<FreeListNode>()

VARIABLES free_lists,  \* order -> sequence of the addresses of its free blocks
          max_order,
          initialized,
          pc,          \* the call holding the lock: idle, init, split, merge
          addr,        \* its locals: address of the block it owns,
          order,       \*   the order of that block,
          remaining,   \*   bytes not seeded yet (init only),
          layout,      \*   the layout asked for (alloc only)
          live,        \* what clients hold: [addr, layout] records
          refused      \* the layout the last call returned null for

vars == <<free_lists, max_order, initialized, pc, addr, order, remaining,
          layout, live, refused>>

\* Not a layout: the value of `layout` and `refused` when there is none.
NoLayout == [size |-> 0, align |-> 0]

Orders == MIN_ORDER .. MAX_ORDER

\* Block size in bytes for a given order.
block_size(o) == 2 ^ o

\* The asserts of init, which its caller meets.
ASSUME OrderAssumption ==
    /\ MIN_ORDER \in Nat /\ MAX_ORDER \in Nat /\ MIN_ORDER <= MAX_ORDER
    /\ NODE_SIZE \in Nat
ASSUME HeapAssumption ==
    /\ HEAP_START % block_size(MIN_ORDER) = 0
    /\ HEAP_SIZE >= block_size(MIN_ORDER)
\* What the proofs need to know of powers of two.
ASSUME PowerAssumption ==
    /\ \A o \in Orders : block_size(o) \in Nat \ {0}
    /\ \A o \in MIN_ORDER .. MAX_ORDER - 1 : block_size(o + 1) = 2 * block_size(o)
    /\ \A o \in Orders : \A k \in MIN_ORDER .. o : block_size(o) % block_size(k) = 0
    /\ \A o \in Orders : \A l \in Layouts : block_size(o) >= l.align =>
            block_size(MIN_ORDER) % l.align = 0 \/ \E k \in MIN_ORDER .. o : l.align = block_size(k)

-----------------------------------------------------------------------------
(* Helpers *)

\* Largest order whose block size is <= size; MIN_ORDER when there is none.
largest_order_for(size) ==
    LET fits == {o \in MIN_ORDER + 1 .. MAX_ORDER :
                    /\ block_size(o) <= size
                    /\ o < MAX_ORDER => block_size(o + 1) > size}
    IN  IF fits = {} THEN MIN_ORDER ELSE CHOOSE o \in fits : TRUE

\* Smallest order able to hold `size` bytes and a free-list node, if any.
order_for_size(size) ==
    {o \in Orders : /\ block_size(o) >= size /\ block_size(o) >= NODE_SIZE
                    /\ \A k \in MIN_ORDER .. o - 1 :
                            block_size(k) < size \/ block_size(k) < NODE_SIZE}

\* Faulty: the smaller of size and alignment counts.
order_for_layout_min(l) == order_for_size(IF l.size <= l.align THEN l.size ELSE l.align)

\* The order alloc and dealloc compute from a layout.
order_for_layout(l) == order_for_size(IF l.size >= l.align THEN l.size ELSE l.align)

\* free_lists after a block is pushed onto the list of order o ...
push_free_block(lists, a, o) == [lists EXCEPT ![o] = <<a>> \o @]

\* ... after the head of that list is taken ...
pop_free_block(lists, o) == [lists EXCEPT ![o] = Tail(@)]

\* ... and after its i-th block is unlinked.
remove_free_block(lists, i, o) ==
    [lists EXCEPT ![o] = [j \in 1 .. Len(@) - 1 |-> IF j < i THEN @[j] ELSE @[j + 1]]]

\* Faulty: bit o is set instead of flipped.
buddy_of_above(a, o) == a + block_size(o)

\* The buddy of block a: bit o of the offset from HEAP_START is flipped.
buddy_of(a, o) ==
    IF ((a - HEAP_START) \div block_size(o)) % 2 = 0
    THEN a + block_size(o)
    ELSE a - block_size(o)

\* Where in its free list the buddy of the block being freed is, if anywhere.
BuddyIndex ==
    {i \in 1 .. Len(free_lists[order]) : free_lists[order][i] = buddy_of(addr, order)}

\* Faulty: the loop stops one order early.
CanMerge_early == order < max_order - 1 /\ BuddyIndex # {}

\* The buddy is free and the block is not of the largest order yet.
CanMerge == order < max_order /\ BuddyIndex # {}

Idle == pc = "idle"

\* The call returns and releases the lock; its locals go out of scope.
Return ==
    /\ pc' = "idle" /\ addr' = 0 /\ order' = MIN_ORDER /\ remaining' = 0
    /\ layout' = NoLayout

-----------------------------------------------------------------------------
(* BuddyAllocator::new *)

Init ==
    /\ free_lists = [o \in Orders |-> << >>]
    /\ max_order = MIN_ORDER
    /\ initialized = FALSE
    /\ pc = "idle" /\ addr = 0 /\ order = MIN_ORDER /\ remaining = 0
    /\ layout = NoLayout
    /\ live = {}
    /\ refused = NoLayout

-----------------------------------------------------------------------------
(* init: decompose the heap into the largest aligned blocks that fit.  The *)
(* kernel calls it once.                                                   *)

BeginInit ==
    /\ Idle /\ ~initialized
    /\ max_order' = largest_order_for(HEAP_SIZE)
    /\ free_lists' = [o \in Orders |-> << >>]
    /\ pc' = "init"
    /\ addr' = HEAP_START
    /\ remaining' = HEAP_SIZE
    /\ refused' = NoLayout
    /\ UNCHANGED <<initialized, order, layout, live>>

\* Faulty: only the alignment of the candidate block is tested.
SeedFits_overrun(o) == addr % block_size(o) = 0

SeedFits(o) == block_size(o) <= remaining /\ addr % block_size(o) = 0

\* One iteration of the seeding loop.
SeedBlock ==
    /\ pc = "init"
    /\ \E o \in MIN_ORDER .. max_order :
        /\ SeedFits(o)
        /\ \A k \in o + 1 .. max_order : ~SeedFits(k)
        /\ free_lists' = push_free_block(free_lists, addr, o)
        /\ addr' = addr + block_size(o)
        /\ remaining' = remaining - block_size(o)
    /\ UNCHANGED <<max_order, initialized, pc, order, layout, live, refused>>

EndInit ==
    /\ pc = "init"
    /\ \A o \in MIN_ORDER .. max_order : ~SeedFits(o)
    /\ initialized' = TRUE
    /\ Return
    /\ UNCHANGED <<free_lists, max_order, live, refused>>

-----------------------------------------------------------------------------
(* alloc *)

\* Some list of order >= o has a block to take or to split.
CanAllocate(o) == \E k \in o .. max_order : free_lists[k] # << >>

\* allocate_order recurses up to the first order with a free block, pops it ...
BeginAlloc(l) ==
    /\ Idle /\ initialized
    /\ \E want \in order_for_layout(l) : \E k \in want .. max_order :
        /\ free_lists[k] # << >>
        /\ \A j \in want .. k - 1 : free_lists[j] = << >>
        /\ addr' = Head(free_lists[k])
        /\ order' = k
        /\ free_lists' = pop_free_block(free_lists, k)
    /\ pc' = "split"
    /\ layout' = l
    /\ refused' = NoLayout
    /\ UNCHANGED <<max_order, initialized, remaining, live>>

\* Faulty: the half that is handed out is the one put on the list.
SplitBlock_lower ==
    /\ pc = "split"
    /\ order \notin order_for_layout(layout)
    /\ order' = order - 1
    /\ free_lists' = push_free_block(free_lists, addr, order - 1)
    /\ UNCHANGED <<max_order, initialized, pc, addr, remaining, layout, live, refused>>

\* ... and, returning from each level, keeps the lower half and frees the upper.
SplitBlock ==
    /\ pc = "split"
    /\ order \notin order_for_layout(layout)
    /\ order' = order - 1
    /\ free_lists' = push_free_block(free_lists, addr + block_size(order - 1), order - 1)
    /\ UNCHANGED <<max_order, initialized, pc, addr, remaining, layout, live, refused>>

EndAlloc ==
    /\ pc = "split"
    /\ order \in order_for_layout(layout)
    /\ live' = live \cup {[addr |-> addr, layout |-> layout]}
    /\ Return
    /\ UNCHANGED <<free_lists, max_order, initialized, refused>>

\* alloc returns a null pointer: no heap yet, no such order, or no block.
AllocNull(l) ==
    /\ Idle
    /\ initialized => \A o \in order_for_layout(l) : ~CanAllocate(o)
    /\ refused' = l
    /\ UNCHANGED <<free_lists, max_order, initialized, pc, addr, order, remaining,
                   layout, live>>

-----------------------------------------------------------------------------
(* dealloc *)

\* Faulty: the order is computed from the size without the alignment.
BeginDealloc_size(x) ==
    /\ Idle /\ initialized
    /\ order' \in order_for_size(x.layout.size)
    /\ pc' = "merge"
    /\ addr' = x.addr
    /\ live' = live \ {x}
    /\ refused' = NoLayout
    /\ UNCHANGED <<free_lists, max_order, initialized, remaining, layout>>

BeginDealloc(x) ==
    /\ Idle /\ initialized
    /\ order' \in order_for_layout(x.layout)
    /\ pc' = "merge"
    /\ addr' = x.addr
    /\ live' = live \ {x}
    /\ refused' = NoLayout
    /\ UNCHANGED <<free_lists, max_order, initialized, remaining, layout>>

\* One iteration of the merging loop: the buddy is free and is absorbed.
MergeBuddy ==
    /\ pc = "merge"
    /\ CanMerge
    /\ \E i \in BuddyIndex :
        /\ \A j \in BuddyIndex : i <= j
        /\ free_lists' = remove_free_block(free_lists, i, order)
    /\ addr' = IF addr <= buddy_of(addr, order) THEN addr ELSE buddy_of(addr, order)
    /\ order' = order + 1
    /\ UNCHANGED <<max_order, initialized, pc, remaining, layout, live, refused>>

EndDealloc ==
    /\ pc = "merge"
    /\ ~CanMerge
    /\ free_lists' = push_free_block(free_lists, addr, order)
    /\ Return
    /\ UNCHANGED <<max_order, initialized, live, refused>>

-----------------------------------------------------------------------------
(* The steps of the call in progress, and the specification                *)

Step == SeedBlock \/ EndInit \/ SplitBlock \/ EndAlloc \/ MergeBuddy \/ EndDealloc

Next ==
    \/ BeginInit
    \/ \E l \in Layouts : BeginAlloc(l)
    \/ \E l \in Layouts : AllocNull(l)
    \/ \E x \in live : BeginDealloc(x)
    \/ Step

Spec == Init /\ [][Next]_vars

-----------------------------------------------------------------------------
(* Properties *)

(***************************************************************************)
(* Type invariant of the allocator's fields and of the locals of a call.   *)
(***************************************************************************)
TypeOK ==
    /\ free_lists \in [Orders -> Seq(Nat)]
    /\ max_order \in Orders
    /\ initialized \in BOOLEAN
    /\ pc \in {"idle", "init", "split", "merge"}
    /\ addr \in Nat
    /\ order \in Orders
    /\ remaining \in Nat
    /\ layout \in Layouts \cup {NoLayout}
    /\ live \subseteq [addr : Nat, layout : Layouts]
    /\ refused \in Layouts \cup {NoLayout}

\* n bytes at a lie inside the heap; n bytes at a and m bytes at b are apart.
InHeap(a, n) == HEAP_START <= a /\ a + n <= HEAP_END
Apart(a, n, b, m) == a + n <= b \/ b + m <= a

\* The bytes the call in progress owns: the range not seeded yet, or a block.
HeldSize ==
    CASE pc = "idle" -> 0
      [] pc = "init" -> remaining
      [] OTHER -> block_size(order)

\* The blocks on the lists are pairwise apart; they are apart from n bytes at b;
\* they are inside the heap.
ListsApart(lists) ==
    \A o, p \in Orders : \A i \in 1 .. Len(lists[o]), j \in 1 .. Len(lists[p]) :
        (o # p \/ i # j) => Apart(lists[o][i], block_size(o), lists[p][j], block_size(p))
ListsApartFrom(lists, b, n) ==
    \A o \in Orders : \A i \in 1 .. Len(lists[o]) : Apart(lists[o][i], block_size(o), b, n)
ListsInHeap(lists) ==
    \A o \in Orders : \A i \in 1 .. Len(lists[o]) : InHeap(lists[o][i], block_size(o))

FreeApartFromLive ==
    \A x \in live : \A o \in order_for_layout(x.layout) :
        ListsApartFrom(free_lists, x.addr, block_size(o))

LiveApart ==
    \A x, y \in live : \A o \in order_for_layout(x.layout), p \in order_for_layout(y.layout) :
        x # y => Apart(x.addr, block_size(o), y.addr, block_size(p))

LiveInHeap == \A x \in live : \A o \in order_for_layout(x.layout) : InHeap(x.addr, block_size(o))

HeldApart ==
    /\ ListsApartFrom(free_lists, addr, HeldSize)
    /\ \A x \in live : \A o \in order_for_layout(x.layout) :
            Apart(x.addr, block_size(o), addr, HeldSize)
    /\ InHeap(addr, HeldSize)

(***************************************************************************)
(* No byte of the heap has two owners: the blocks on the free lists, the   *)
(* blocks clients hold and the block the call in progress is splitting or  *)
(* merging (the unseeded range during init) are pairwise disjoint and      *)
(* inside the heap.  A block linked twice, handed out while still listed,  *)
(* or merged with a buddy that is in use, would violate it.                *)
(***************************************************************************)
NoOverlap ==
    /\ ListsApart(free_lists) /\ ListsInHeap(free_lists)
    /\ FreeApartFromLive /\ LiveApart /\ LiveInHeap
    /\ pc # "idle" => HeldApart

(***************************************************************************)
(* No byte is lost: split, merge and the decomposition of init account for *)
(* every byte of the heap, except a final remainder below the smallest     *)
(* block (the promise of the comment on init).                             *)
(***************************************************************************)
NoLeak ==
    (initialized \/ pc = "init") =>
        \A b \in HEAP_START .. HEAP_END - 1 - (HEAP_SIZE % block_size(MIN_ORDER)) :
            \/ \E o \in Orders : \E i \in 1 .. Len(free_lists[o]) :
                    b \in free_lists[o][i] .. free_lists[o][i] + block_size(o) - 1
            \/ \E x \in live : \E o \in order_for_layout(x.layout) :
                    b \in x.addr .. x.addr + block_size(o) - 1
            \/ b \in addr .. addr + HeldSize - 1

(***************************************************************************)
(* alloc satisfies the layout (doc comment of MemoryAllocator::alloc):     *)
(* every pointer it hands out has the alignment asked for.  The code never *)
(* looks at the alignment of an address after init; it relies on a block   *)
(* of 2^o bytes being 2^o-aligned through every split and merge.           *)
(***************************************************************************)
AlignedToLayout == \A x \in live : x.addr % x.layout.align = 0

FreeBlocks ==
    UNION {{<<free_lists[o][i], o>> : i \in 1 .. Len(free_lists[o])} : o \in Orders}

\* A block of order o at a multiple of its size inside the heap.
IsBlock(a, o) == a % block_size(o) = 0 /\ InHeap(a, block_size(o))

\* The decomposition the comment on init describes: the largest aligned blocks
\* that fit.  They overlap no larger one.
LargestBlocks ==
    {x \in (HEAP_START .. HEAP_END) \X (MIN_ORDER .. max_order) :
        /\ IsBlock(x[1], x[2])
        /\ \A p \in x[2] + 1 .. max_order : \A b \in HEAP_START .. HEAP_END :
                IsBlock(b, p) => Apart(b, block_size(p), x[1], block_size(x[2]))}

\* Buddies of order o, counted from HEAP_START, make up an aligned block.
BuddiesAligned(o) == HEAP_START % block_size(IF o < max_order THEN o + 1 ELSE o) = 0

(***************************************************************************)
(* Merging undoes splitting: once the clients have given everything back   *)
(* the free blocks are exactly those init makes, whatever the order of the *)
(* calls was (module comment of buddy.rs: merging is repeated until no     *)
(* further merge is possible, which bounds fragmentation).  It holds for   *)
(* each order of which HEAP_START is a multiple of the next one's size: on *)
(* the kernel's heap for all blocks below 256 KiB, and on a heap that      *)
(* starts at a multiple of its largest block for all blocks.               *)
(***************************************************************************)
FullyCoalesced ==
    (Idle /\ initialized /\ live = {}) =>
        \A o \in MIN_ORDER .. max_order : BuddiesAligned(o) =>
            {x \in FreeBlocks : x[2] = o} = {x \in LargestBlocks : x[2] = o}

\* An aligned block of order o made of bytes nobody holds.
FreeRange(o) ==
    \E a \in HEAP_START .. HEAP_END - block_size(o) :
        /\ a % block_size(o) = 0
        /\ \A x \in live : \A p \in order_for_layout(x.layout) :
                Apart(a, block_size(o), x.addr, block_size(p))

(***************************************************************************)
(* alloc returns null only when it must: there is no aligned block of the  *)
(* size asked for made of free bytes anywhere in the heap, listed as one   *)
(* block or not.  Free memory that merging failed to put together would    *)
(* violate it.  Buddies are counted from HEAP_START, and init seeds blocks *)
(* at multiples of their size, so it holds for the block sizes HEAP_START  *)
(* is a multiple of; larger blocks that are split may never be merged.     *)
(***************************************************************************)
NullOnlyWhenExhausted ==
    (initialized /\ refused # NoLayout) =>
        \A o \in order_for_layout(refused) : HEAP_START % block_size(o) = 0 => ~FreeRange(o)
=============================================================================
