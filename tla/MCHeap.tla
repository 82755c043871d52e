------------------------------- MODULE MCHeap -------------------------------
(***************************************************************************)
(* Small heaps for the allocators.  With MIN_ORDER = 1 the smallest        *)
(* block has 2 bytes; what matters is how the heap's start relates to the  *)
(* largest block in it.                                                    *)
(***************************************************************************)
EXTENDS LockedHeap

\* A size below the smallest block, a size between two orders, an alignment
\* larger than the size, a layout that needs the largest block of the heap and
\* one that no block can hold.
MCLayouts == {[size |-> 1, align |-> 1], [size |-> 3, align |-> 2],
              [size |-> 2, align |-> 8], [size |-> 9, align |-> 1],
              [size |-> 33, align |-> 1]}
=============================================================================
