---------------------------- MODULE ListAllocator ----------------------------
(***************************************************************************)
(* The first-fit linked-list allocator of kmem/heap.rs, the one LockedHeap *)
(* held before the buddy allocator (its line is still there, commented     *)
(* out).  The free list is the sequence of its regions, head first.  A     *)
(* call runs under the lock of LockedHeap and is one action.               *)
(*                                                                         *)
(* The node of a region lies in its first bytes.  A region made by alloc   *)
(* begins where the block ends, aligned for a node or not.  On x86-64 a    *)
(* release build writes the node there all the same; a debug build panics  *)
(* with the lock held and no call ever gets to the allocator again, which  *)
(* is a behaviour of this specification that has ended.                    *)
(***************************************************************************)
EXTENDS HeapRange, Sequences

CONSTANTS LIST_NODE_SIZE,   \* size_of::<ListNode>()
          LIST_NODE_ALIGN   \* align_of::<ListNode>()

\* The asserts of init.
ASSUME ListAssumption ==
    /\ LIST_NODE_SIZE \in Nat \ {0} /\ LIST_NODE_ALIGN \in Nat \ {0}
    /\ HEAP_START % LIST_NODE_ALIGN = 0 /\ HEAP_SIZE >= LIST_NODE_SIZE
\* The alignment of a node is a power of two like that of every layout, so the
\* smaller of the two divides the larger.
ASSUME NodeAlignAssumption ==
    \A l \in Layouts : LIST_NODE_ALIGN >= l.align => LIST_NODE_ALIGN % l.align = 0

VARIABLES head,             \* the free regions: [start, size] records
          list_initialized,
          list_live,        \* what clients hold: [addr, layout] records
          padding           \* ghost: bytes skipped in front of a block

listVars == <<head, list_initialized, list_live, padding>>

Greater(a, b) == IF a >= b THEN a ELSE b

adjust_layout(l) ==
    [size |-> Greater(l.size, LIST_NODE_SIZE), align |-> Greater(l.align, LIST_NODE_ALIGN)]

align_up(a, align) == ((a + align - 1) \div align) * align

Region(a, n) == [start |-> a, size |-> n]
region_end(r) == r.start + r.size

add_free_region(a, n) == head' = <<Region(a, n)>> \o head

\* Where a block of layout l ends in region r, and what is left behind it.
alloc_end(r, l) == align_up(r.start, l.align) + l.size
excess_size(r, l) == region_end(r) - alloc_end(r, l)

\* alloc_from_region answers Ok.
FitsRegion(r, l) ==
    /\ alloc_end(r, l) <= region_end(r)
    /\ excess_size(r, l) = 0 \/ excess_size(r, l) >= LIST_NODE_SIZE

\* Faulty: the list is cut off behind the region taken.
Unlink_cut(i, l) ==
    IF excess_size(head[i], l) >= LIST_NODE_SIZE
    THEN SubSeq(head, 1, i - 1) \o <<Region(alloc_end(head[i], l), excess_size(head[i], l))>>
    ELSE SubSeq(head, 1, i - 1)

\* The list without the part of its i-th region that the block takes.
Unlink(i, l) ==
    SubSeq(head, 1, i - 1)
    \o (IF excess_size(head[i], l) >= LIST_NODE_SIZE
        THEN <<Region(alloc_end(head[i], l), excess_size(head[i], l))>> ELSE << >>)
    \o SubSeq(head, i + 1, Len(head))

ListInit ==
    /\ head = << >> /\ list_initialized = FALSE /\ list_live = {} /\ padding = {}

list_init ==
    /\ ~list_initialized
    /\ list_initialized' = TRUE
    /\ add_free_region(HEAP_START, HEAP_SIZE)
    /\ UNCHANGED <<list_live, padding>>

\* The first region that fits; the bytes in front of the block are in no
\* region from now on.
list_alloc(layout) ==
    /\ list_initialized
    /\ LET l == adjust_layout(layout) IN
       \E i \in 1 .. Len(head) :
        /\ FitsRegion(head[i], l) /\ \A j \in 1 .. i - 1 : ~FitsRegion(head[j], l)
        /\ head' = Unlink(i, l)
        /\ list_live' = list_live \cup {[addr |-> align_up(head[i].start, l.align),
                                         layout |-> layout]}
        /\ padding' = padding \cup (head[i].start .. align_up(head[i].start, l.align) - 1)
    /\ UNCHANGED list_initialized

\* alloc returns a null pointer.
list_alloc_null(layout) ==
    /\ list_initialized =>
        \A i \in 1 .. Len(head) : ~FitsRegion(head[i], adjust_layout(layout))
    /\ UNCHANGED listVars

list_dealloc(x) ==
    /\ add_free_region(x.addr, adjust_layout(x.layout).size)
    /\ list_live' = list_live \ {x}
    /\ UNCHANGED <<list_initialized, padding>>

ListNext ==
    \/ list_init
    \/ \E l \in Layouts : list_alloc(l) \/ list_alloc_null(l)
    \/ \E x \in list_live : list_dealloc(x)

-----------------------------------------------------------------------------
(* Properties *)

RegionBytes(i) == head[i].start .. region_end(head[i]) - 1
BlockBytes(x) == x.addr .. x.addr + adjust_layout(x.layout).size - 1

(***************************************************************************)
(* However often blocks were split off and given back, every byte of the   *)
(* heap is in exactly one region of the list, one block or the padding,    *)
(* and every region has room for its node: no node is written over memory  *)
(* in use, an allocation from the middle of the list loses none of the     *)
(* regions behind it, and nothing but the padding is ever lost.            *)
(***************************************************************************)
ListPartition ==
    /\ list_initialized =>
        \A b \in HEAP_START .. HEAP_END - 1 :
            \/ \E i \in 1 .. Len(head) : b \in RegionBytes(i)
            \/ \E x \in list_live : b \in BlockBytes(x)
            \/ b \in padding
    /\ \A i \in 1 .. Len(head) :
        /\ head[i].size >= LIST_NODE_SIZE
        /\ RegionBytes(i) \subseteq HEAP_START .. HEAP_END - 1 /\ RegionBytes(i) \cap padding = {}
        /\ \A j \in 1 .. Len(head) : i # j => RegionBytes(i) \cap RegionBytes(j) = {}
        /\ \A x \in list_live : RegionBytes(i) \cap BlockBytes(x) = {}
    /\ \A x \in list_live :
        /\ BlockBytes(x) \subseteq HEAP_START .. HEAP_END - 1 /\ BlockBytes(x) \cap padding = {}
        /\ \A y \in list_live : x # y => BlockBytes(x) \cap BlockBytes(y) = {}
=============================================================================
