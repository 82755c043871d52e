------------------------------- MODULE HeapInit -------------------------------
(***************************************************************************)
(* Setting up the kernel heap: init_heap of kmem/heap.rs, called by kinit  *)
(* (main.rs).  It composes the frame allocator with the page-table mapper  *)
(* of the x86_64 crate (external), which takes frames of its own for the   *)
(* tables that are missing.  The heap is handed to the buddy allocator     *)
(* after the last page is mapped; an error makes kinit panic.              *)
(***************************************************************************)
EXTENDS FrameAllocator

CONSTANTS HEAP_START, HEAP_SIZE,  \* the virtual range of the heap
          Walk,                   \* page -> the tables on the walk to it, top down
          ExistingTables,         \* sets of tables the boot loader may have left
          PagesInUse              \* sets of pages that may be mapped already

VARIABLES pc,        \* alloc, map, failed, done (or drain: see Kmem)
          page,      \* the page being mapped
          frame,     \* the frame taken for it
          existing,  \* tables and pages that were there before
          in_use,
          tables,    \* table -> its frame, for the tables made so far
          mapped     \* page -> its frame, for the pages mapped so far

ASSUME HeapInitAssumption == HEAP_START \in Nat /\ HEAP_SIZE \in Nat \ {0}

heapVars == <<pc, page, frame, existing, in_use, tables, mapped>>
allVars == <<frameVars, heapVars>>

containing_page(a) == a \div FRAME_SIZE
heap_start_page == containing_page(HEAP_START)
\* Faulty: the page of the last byte is not mapped when it is partial.
heap_end_page_exclusive == containing_page(HEAP_START + HEAP_SIZE) - 1
heap_end_page == containing_page(HEAP_START + HEAP_SIZE - 1)

\* f extended with the value v at x.
With(f, x, v) == [y \in DOMAIN f \cup {x} |-> IF y = x THEN v ELSE f[y]]

\* Positions on the walk to the page where a table is missing.
Missing == {i \in 1 .. Len(Walk[page]) : Walk[page][i] \notin existing \cup DOMAIN tables}

-----------------------------------------------------------------------------
(* kmem::init, then the loop over the pages of the heap *)

HeapInitInit ==
    /\ pc = "alloc" /\ page = heap_start_page /\ frame = 0
    /\ existing \in ExistingTables
    /\ in_use \in PagesInUse
    /\ tables = << >>
    /\ mapped = << >>

\* allocate_frame for the page, or `?` on None.
TakeFrame ==
    /\ pc = "alloc" /\ page <= heap_end_page
    /\ \E r \in 1 .. Len(memory_map) : SomeFrame(Cursor(r)) /\ frame' = Cursor(r)
    /\ pc' = "map"
    /\ UNCHANGED <<page, existing, in_use, tables, mapped>>

NoFrameForPage ==
    /\ pc = "alloc" /\ page <= heap_end_page
    /\ NoFrame
    /\ pc' = "failed"
    /\ UNCHANGED <<page, frame, existing, in_use, tables, mapped>>

\* Faulty: the frame of the page is used for the table too.
MakeTable_reuse ==
    /\ pc = "map"
    /\ \E i \in Missing :
        /\ \A j \in Missing : i <= j
        /\ tables' = With(tables, Walk[page][i], frame)
    /\ UNCHANGED <<frameVars, pc, page, frame, existing, in_use, mapped>>

\* map_to makes the first missing table on the walk, top down ...
MakeTable ==
    /\ pc = "map"
    /\ \E i \in Missing :
        /\ \A j \in Missing : i <= j
        /\ \E r \in 1 .. Len(memory_map) :
            /\ SomeFrame(Cursor(r))
            /\ tables' = With(tables, Walk[page][i], Cursor(r))
    /\ UNCHANGED <<pc, page, frame, existing, in_use, mapped>>

NoFrameForTable ==
    /\ pc = "map" /\ Missing # {}
    /\ NoFrame
    /\ pc' = "failed"
    /\ UNCHANGED <<page, frame, existing, in_use, tables, mapped>>

\* ... and then enters the page, unless it is mapped already.
MapPage ==
    /\ pc = "map" /\ Missing = {}
    /\ page \notin in_use
    /\ mapped' = With(mapped, page, frame)
    /\ page' = page + 1
    /\ pc' = "alloc"
    /\ UNCHANGED <<frameVars, frame, existing, in_use, tables>>

PageAlreadyMapped ==
    /\ pc = "map" /\ Missing = {}
    /\ page \in in_use
    /\ pc' = "failed"
    /\ UNCHANGED <<frameVars, page, frame, existing, in_use, tables, mapped>>

\* ALLOCATOR.inner.lock().init(HEAP_START, HEAP_SIZE)
InitAllocator ==
    /\ pc = "alloc" /\ page > heap_end_page
    /\ pc' = "done"
    /\ UNCHANGED <<frameVars, page, frame, existing, in_use, tables, mapped>>

Next ==
    \/ TakeFrame \/ NoFrameForPage
    \/ MakeTable \/ NoFrameForTable \/ MapPage \/ PageAlreadyMapped
    \/ InitAllocator

-----------------------------------------------------------------------------
(* Properties *)

(***************************************************************************)
(* When the buddy allocator gets the heap, every byte of the range it will *)
(* write its free-list nodes into and hand out is backed by a frame, and   *)
(* the page can be walked to: all its tables exist.                        *)
(***************************************************************************)
HeapBacked ==
    pc = "done" => \A a \in HEAP_START .. HEAP_START + HEAP_SIZE - 1 :
        LET p == containing_page(a) IN
        /\ p \in DOMAIN mapped
        /\ \A i \in 1 .. Len(Walk[p]) : Walk[p][i] \in existing \cup DOMAIN tables

(***************************************************************************)
(* The frames of the heap are exclusively owned (a safety requirement of   *)
(* init_heap): no two pages share a frame, and none is also a page table,  *)
(* although the mapper takes table frames from the same allocator between  *)
(* the allocation of a page's frame and its use.                           *)
(***************************************************************************)
FramesExclusive ==
    /\ \A p, q \in DOMAIN mapped : mapped[p] = mapped[q] => p = q
    /\ \A t, u \in DOMAIN tables : tables[t] = tables[u] => t = u
    /\ \A p \in DOMAIN mapped, t \in DOMAIN tables : mapped[p] # tables[t]
    /\ pc = "map" => \A t \in DOMAIN tables : tables[t] # frame
=============================================================================
