---------------------------- MODULE FrameAllocator ----------------------------
(***************************************************************************)
(* The physical frame allocator of kmem/frame.rs: it hands out the frames  *)
(* of the usable regions of Limine's memory map one after the other and    *)
(* never takes one back.  Addresses are numbers below ADDR_LIMIT (2^64).   *)
(***************************************************************************)
EXTENDS Integers, Sequences

CONSTANTS FRAME_SIZE,
          ADDR_LIMIT,   \* the first number that is not a u64
          MemoryMaps    \* the maps the boot loader may pass

VARIABLES memory_map,     \* sequence of [type_, base, length] entries
          current_region, \* 1 .. Len(memory_map) + 1
          next_frame,     \* 0: the current region has not been started
          handed,         \* history: the frames handed out, in order
          exhausted       \* the last call returned None

frameVars == <<memory_map, current_region, next_frame, handed, exhausted>>

MEMMAP_USABLE == "USABLE"

\* Limine: a usable entry overlaps no other entry.  A base so close to the limit
\* that align_up overflows is above any physical address.
ASSUME FrameAssumption ==
    /\ FRAME_SIZE \in Nat \ {0} /\ ADDR_LIMIT \in Nat
    /\ \A m \in MemoryMaps :
        /\ m \in Seq([type_ : STRING, base : Nat, length : Nat])
        /\ \A i \in 1 .. Len(m) : m[i].base + FRAME_SIZE <= ADDR_LIMIT
        /\ \A i, j \in 1 .. Len(m) :
            (i # j /\ m[i].type_ = MEMMAP_USABLE) =>
                \/ m[i].base + m[i].length <= m[j].base
                \/ m[j].base + m[j].length <= m[i].base

align_down(a) == (a \div FRAME_SIZE) * FRAME_SIZE
\* Faulty: the first, partial frame of a region is handed out.
align_up_down(a) == align_down(a)
align_up(a) == align_down(a + FRAME_SIZE - 1)

Usable(r) == memory_map[r].type_ = MEMMAP_USABLE
Overflows(r) == memory_map[r].base + memory_map[r].length >= ADDR_LIMIT
region_start(r) == align_up(memory_map[r].base)
region_end(r) == align_down(memory_map[r].base + memory_map[r].length)

\* Faulty: a region is always entered at its start.
Cursor_restart(r) == region_start(r)
\* The next frame of region r: its first one unless r has been started already.
Cursor(r) == IF r = current_region /\ next_frame # 0 THEN next_frame ELSE region_start(r)

\* Faulty: the last frame of a region is not handed out.
HasFrame_short(r) == Cursor(r) + FRAME_SIZE < region_end(r)
HasFrame(r) == Cursor(r) < region_end(r)

\* The loop of allocate_frame goes past region r.
Skipped(r) == ~Usable(r) \/ (~Overflows(r) /\ ~HasFrame(r))

\* allocate_frame returns Some(f) ...
SomeFrame(f) ==
    /\ \E r \in current_region .. Len(memory_map) :
        /\ \A q \in current_region .. r - 1 : Skipped(q)
        /\ Usable(r) /\ ~Overflows(r) /\ HasFrame(r)
        /\ f = Cursor(r)
        /\ current_region' = r
        /\ next_frame' = Cursor(r) + FRAME_SIZE
    /\ handed' = Append(handed, f)
    /\ exhausted' = FALSE
    /\ UNCHANGED memory_map

\* Faulty: the walk starts from the first region again after the last one.
NoFrame_wrap ==
    /\ \A q \in current_region .. Len(memory_map) : Skipped(q)
    /\ current_region' = 1
    /\ next_frame' = 0
    /\ exhausted' = TRUE
    /\ UNCHANGED <<memory_map, handed>>

\* ... or None: past the last region, or at one whose end is not a u64.
NoFrame ==
    /\ \E r \in current_region .. Len(memory_map) + 1 :
        /\ \A q \in current_region .. r - 1 : Skipped(q)
        /\ r <= Len(memory_map) => Usable(r) /\ Overflows(r)
        /\ current_region' = r
        /\ next_frame' = IF r = current_region THEN next_frame ELSE 0
    /\ exhausted' = TRUE
    /\ UNCHANGED <<memory_map, handed>>

FrameInit ==
    /\ memory_map \in MemoryMaps
    /\ current_region = 1
    /\ next_frame = 0
    /\ handed = << >>
    /\ exhausted = FALSE

FrameNext == (\E r \in 1 .. Len(memory_map) : SomeFrame(Cursor(r))) \/ NoFrame

FrameSpec == FrameInit /\ [][FrameNext]_frameVars

-----------------------------------------------------------------------------
(* Properties *)

(***************************************************************************)
(* Every frame handed out is a whole, aligned frame inside one usable      *)
(* region, so it shares no byte with the kernel, the boot loader's tables  *)
(* or a device (allocate_frame rounds the ends of a region inwards).       *)
(***************************************************************************)
FramesUsable ==
    \A k \in 1 .. Len(handed) :
        /\ handed[k] % FRAME_SIZE = 0
        /\ \E r \in 1 .. Len(memory_map) :
            /\ Usable(r)
            /\ memory_map[r].base <= handed[k]
            /\ handed[k] + FRAME_SIZE <= memory_map[r].base + memory_map[r].length

(***************************************************************************)
(* No frame is handed out twice, across region changes, the reuse of 0 as  *)
(* "not started" (a region may start at address 0), and calls after None.  *)
(***************************************************************************)
NeverTwice == \A j, k \in 1 .. Len(handed) : handed[j] = handed[k] => j = k

\* The regions the allocator gets to: those before one whose end overflows.
Reached(r) == \A q \in 1 .. r : Usable(q) => ~Overflows(q)

(***************************************************************************)
(* allocate_frame returns None only when no frame is left: every whole     *)
(* frame of the usable regions it can walk has been handed out.            *)
(***************************************************************************)
NoneOnlyWhenEmpty ==
    exhausted => \A r \in 1 .. Len(memory_map) : (Usable(r) /\ Reached(r)) =>
        \A f \in region_start(r) .. region_end(r) - 1 :
            f % FRAME_SIZE = 0 => \E k \in 1 .. Len(handed) : handed[k] = f

(***************************************************************************)
(* None is final: after it the allocator never finds a frame again.        *)
(***************************************************************************)
NoneIsFinal == [][exhausted => exhausted' /\ handed' = handed]_frameVars
=============================================================================
