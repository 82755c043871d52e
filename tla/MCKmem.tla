-------------------------------- MODULE MCKmem ---------------------------------
(***************************************************************************)
(* Every memory map of three adjacent regions with lengths around the      *)
(* frame size (4 bytes), usable or not, starting at 0, inside the first    *)
(* frame or at the second; the last region may end beyond ADDR_LIMIT, and  *)
(* the regions may come in either order.  The heap has three pages, the    *)
(* last one partial, below two last-level tables.                          *)
(***************************************************************************)
EXTENDS Kmem

Lengths == {0, 3, 4, 9, 12}

Region(u, b, n) == [type_ |-> IF u THEN MEMMAP_USABLE ELSE "RESERVED", base |-> b, length |-> n]

Sorted ==
    {<<Region(u[1], b, n[1]), Region(u[2], b + n[1], n[2]), Region(u[3], b + n[1] + n[2], k)>> :
        u \in [1 .. 3 -> BOOLEAN], b \in {0, 3, 4}, n \in [1 .. 2 -> Lengths], k \in Lengths \cup {40}}

MCMemoryMaps == Sorted \cup {<<m[3], m[2], m[1]>> : m \in Sorted} \cup {<< >>,
    <<Region(TRUE, 0, 30), [type_ |-> "FRAMEBUFFER", base |-> 30, length |-> 4],
      [type_ |-> "ACPI_NVS", base |-> 34, length |-> 4],
      [type_ |-> "RESERVED_MAPPED", base |-> 38, length |-> 41]>>}

MCWalk == [p \in 16 .. 18 |-> IF p < 18 THEN <<"p3", "p2", "p1a">> ELSE <<"p3", "p2", "p1b">>]
MCExistingTables == {{}, {"p3"}, {"p3", "p2", "p1a", "p1b"}}
MCPagesInUse == {{}, {17}}
================================================================================
