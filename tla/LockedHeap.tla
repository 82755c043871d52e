------------------------------ MODULE LockedHeap -------------------------------
(***************************************************************************)
(* The kernel's global allocator: a MemoryAllocator behind a spin lock     *)
(* (LockedHeap of kmem/heap.rs).  `inner` is the allocator it was built    *)
(* with, which never changes.                                              *)
(***************************************************************************)
EXTENDS BuddyAllocator, ListAllocator

VARIABLE inner

lockedVars == <<vars, listVars, inner>>

LockedInit == Init /\ ListInit /\ inner \in {"BuddyAllocator", "ListAllocator"}

LockedNext ==
    \/ inner = "BuddyAllocator" /\ Next /\ UNCHANGED <<listVars, inner>>
    \/ inner = "ListAllocator" /\ ListNext /\ UNCHANGED <<vars, inner>>

LockedSpec == LockedInit /\ [][LockedNext]_lockedVars

Heap == INSTANCE HeapSpec WITH
    live <- IF inner = "BuddyAllocator" THEN live ELSE list_live

(***************************************************************************)
(* Whichever allocator is inside, a client of LockedHeap sees the contract *)
(* of MemoryAllocator: memory that satisfies the layout and overlaps       *)
(* nothing handed out, or a null pointer without an effect.                *)
(***************************************************************************)
ImplementsHeap == Heap!Spec
================================================================================
