--------------------------------- MODULE Kmem ---------------------------------
(***************************************************************************)
(* The memory subsystem of kmem/mod.rs: the frame allocator and the set-up *)
(* of the heap, and what mem_analyze, the command that prints the memory   *)
(* configuration, says about them.  mem_analyze changes nothing; it        *)
(* computes its figures from the memory map alone, with saturating u64     *)
(* arithmetic, so they are operators here.                                 *)
(***************************************************************************)
EXTENDS HeapInit, FiniteSets, Functions

CONSTANT HHDM_OFFSET    \* where Limine maps physical memory

ASSUME HhdmAssumption == HHDM_OFFSET \in Nat

U64_MAX == ADDR_LIMIT - 1
Saturate(n) == IF n <= U64_MAX THEN n ELSE U64_MAX

Entries == 1 .. Len(memory_map)
EntriesOf(t) == {i \in Entries : memory_map[i].type_ = t}
entry_end(i) == Saturate(memory_map[i].base + memory_map[i].length)

Largest(S) == CHOOSE n \in S : \A m \in S : m <= n
Smallest(S) == CHOOSE n \in S : \A m \in S : n <= m

\* Adding up with saturating_add gives the sum, or the largest u64.
sum_lengths(S) == Saturate(SumFunction([i \in S |-> memory_map[i].length]))

--------------------------------------------------------------------------------
(* The figures of mem_analyze; a figure that may be missing is a set. *)

total_memory == sum_lengths(Entries)
usable_memory == sum_lengths(EntriesOf(MEMMAP_USABLE))

\* Memory that is not usable, by class: every other type is lumped together.
type_class(t) ==
    IF t \in {"RESERVED", "ACPI_RECLAIMABLE", "BOOTLOADER_RECLAIMABLE",
              "EXECUTABLE_AND_MODULES", "FRAMEBUFFER", "BAD_MEMORY"} THEN t ELSE "OTHER"
other_memory ==
    LET others == Entries \ EntriesOf(MEMMAP_USABLE)
    IN  [c \in {type_class(memory_map[i].type_) : i \in others} |->
            sum_lengths({i \in others : type_class(memory_map[i].type_) = c})]

frame_count == usable_memory \div FRAME_SIZE

first_usable_base ==
    {memory_map[i].base : i \in {i \in EntriesOf(MEMMAP_USABLE) :
                                    \A j \in EntriesOf(MEMMAP_USABLE) : i <= j}}

\* Faulty: the end of the last usable entry of the map.
last_usable_end_last ==
    {entry_end(i) : i \in {i \in EntriesOf(MEMMAP_USABLE) :
                                \A j \in EntriesOf(MEMMAP_USABLE) : j <= i}}

\* The largest end of a usable entry, wherever in the map the entry is.
last_usable_end ==
    {e \in {entry_end(i) : i \in EntriesOf(MEMMAP_USABLE)} :
        \A i \in EntriesOf(MEMMAP_USABLE) : entry_end(i) <= e}

lowest_address == Smallest({U64_MAX} \cup {memory_map[i].base : i \in Entries})
highest_address == Largest({0} \cup {entry_end(i) : i \in Entries})

heap_frames == (HEAP_SIZE + FRAME_SIZE - 1) \div FRAME_SIZE

\* In hundredths of a per cent; missing when the heap "exceeds usable-frame count".
heap_cost ==
    IF frame_count >= heap_frames THEN {(heap_frames * 10000) \div frame_count} ELSE {}
usable_percent ==
    IF total_memory # 0 THEN (usable_memory * 10000) \div total_memory ELSE 0

\* The virtual address of physical address a, if it is one (phys_to_virt panics
\* where mem_analyze prints "overflow").
phys_to_virt(a) == {v \in {HHDM_OFFSET + a} : v <= U64_MAX}

--------------------------------------------------------------------------------
(* Two clients of the frame allocator: the boot sequence, which sets up    *)
(* the heap, and a caller that takes frames for as long as there are any   *)
(* and asks again.                                                         *)

KmemInit ==
    /\ FrameInit
    /\ \/ HeapInitInit
       \/ /\ pc = "drain" /\ page = heap_start_page /\ frame = 0
          /\ existing = {} /\ in_use = {} /\ tables = << >> /\ mapped = << >>

Drain == pc = "drain" /\ FrameNext /\ UNCHANGED heapVars

KmemNext == Drain \/ Next

KmemSpec == KmemInit /\ [][KmemNext]_allVars

--------------------------------------------------------------------------------
(* Properties *)

Count == Len(handed)

(***************************************************************************)
(* The report bounds what the frame allocator can do: it never hands out   *)
(* more frames than "Usable frames" (the lengths are added up before they  *)
(* are divided), and exactly as many when the usable regions are whole     *)
(* frames; it starts at "First usable" when that region holds a frame; all *)
(* frames are below "Last usable end" and inside the address range, and    *)
(* can be reached through the HHDM when the address printed for that end   *)
(* did not overflow.                                                       *)
(***************************************************************************)
FramesReported ==
    /\ Count <= frame_count
    /\ (/\ exhausted
        /\ \A i \in EntriesOf(MEMMAP_USABLE) :
              /\ memory_map[i].base % FRAME_SIZE = 0 /\ memory_map[i].length % FRAME_SIZE = 0
              /\ ~Overflows(i)) => Count = frame_count
    /\ \A i \in EntriesOf(MEMMAP_USABLE) :
        (memory_map[i].base \in first_usable_base /\ region_start(i) < region_end(i)
            /\ ~Overflows(i) /\ Count > 0) => handed[1] = region_start(i)
    /\ \A k \in 1 .. Count : \A e \in last_usable_end :
        /\ handed[k] + FRAME_SIZE <= e /\ e <= highest_address
        /\ lowest_address <= handed[k]
        /\ phys_to_virt(e) # {} => phys_to_virt(handed[k]) # {}

(***************************************************************************)
(* Once init_heap has succeeded, mem_analyze agrees that it could: it      *)
(* counts the pages that were mapped, and does not say that the heap       *)
(* exceeds the usable frames.                                              *)
(***************************************************************************)
HeapReported ==
    pc = "done" => /\ Cardinality(DOMAIN mapped) = heap_frames
                   /\ heap_cost # {} /\ \A c \in heap_cost : c <= 10000

(***************************************************************************)
(* No map, however close its lengths bring the sums to the end of u64,     *)
(* makes more than all memory usable, and the classes add up to the total. *)
(***************************************************************************)
FiguresAgree ==
    /\ usable_percent \in 0 .. 10000
    /\ total_memory = Saturate(usable_memory + SumFunction(other_memory))

(***************************************************************************)
(* What mem_analyze prints agrees with the memory map, with what the frame *)
(* allocator has handed out and with what init_heap has mapped.            *)
(***************************************************************************)
ReportAgrees == FramesReported /\ HeapReported /\ FiguresAgree
================================================================================
