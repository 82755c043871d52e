------------------------------- MODULE HeapSpec -------------------------------
(***************************************************************************)
(* What a kernel heap promises its clients: the contract of the trait      *)
(* MemoryAllocator and of Rust's GlobalAlloc, which LockedHeap implements. *)
(* A call either hands out memory that satisfies the requested layout and  *)
(* overlaps nothing handed out before, or returns a null pointer and has   *)
(* no effect.  How the free memory is organised is invisible.              *)
(***************************************************************************)
EXTENDS Naturals

CONSTANTS HEAP_START,  \* first address of the heap
          HEAP_SIZE,   \* its length in bytes
          Layouts      \* the layouts clients ask for: [size, align] records

VARIABLE live          \* the allocations clients hold: [addr, layout] records

Bytes(x) == x.addr .. x.addr + x.layout.size - 1

Allocations == [addr : HEAP_START .. HEAP_START + HEAP_SIZE - 1, layout : Layouts]

Init == live = {}

Alloc(x) ==
    /\ x.addr + x.layout.size <= HEAP_START + HEAP_SIZE
    /\ x.addr % x.layout.align = 0
    /\ \A y \in live : Bytes(x) \cap Bytes(y) = {}
    /\ live' = live \cup {x}

Dealloc(x) ==
    /\ x \in live
    /\ live' = live \ {x}

Next == \E x \in Allocations : Alloc(x) \/ Dealloc(x)

Spec == Init /\ [][Next]_live
=============================================================================
