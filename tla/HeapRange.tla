------------------------------ MODULE HeapRange ------------------------------
(***************************************************************************)
(* What both kernel heap allocators are given: the range of the heap       *)
(* (HEAP_START and HEAP_SIZE of kmem/heap.rs) and the layouts clients ask  *)
(* for.                                                                    *)
(***************************************************************************)
EXTENDS Integers

CONSTANTS HEAP_START,  \* the range given to init
          HEAP_SIZE,
          Layouts      \* the layouts clients ask for: [size, align] records

ASSUME RangeAssumption == HEAP_START \in Nat \ {0} /\ HEAP_SIZE \in Nat
\* Alignments are powers of two, and a layout the allocator can be asked for
\* has at least one byte.
ASSUME LayoutAssumption ==
    /\ Layouts \subseteq [size : Nat \ {0}, align : Nat \ {0}]
    /\ \A l \in Layouts : \E e \in 0 .. l.align : l.align = 2 ^ e

HEAP_END == HEAP_START + HEAP_SIZE
=============================================================================
