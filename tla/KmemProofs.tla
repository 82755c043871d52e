------------------------------ MODULE KmemProofs ------------------------------
(***************************************************************************)
(* Theorems about the memory subsystem.  First the frame allocator, for    *)
(* every frame size and all memory maps whose usable entries overlap       *)
(* nothing.  Then the set-up of the heap: it uses the frame allocator only *)
(* through its operations, so what is proved of that allocator holds here; *)
(* and what init_heap builds out of its frames, for every heap range,      *)
(* memory map and state of the page tables.                                *)
(***************************************************************************)
EXTENDS Kmem, TLAPS

--------------------------------------------------------------------------------
(* The frame allocator. *)

\* a is the address of a frame.
Aligned(a) == \E i \in Nat : a = i * FRAME_SIZE

(***************************************************************************)
(* Rounding down loses less than a frame and gives a frame address.        *)
(***************************************************************************)
LEMMA AlignDown ==
    ASSUME NEW a \in Nat
    PROVE  /\ align_down(a) \in Nat /\ Aligned(align_down(a))
           /\ align_down(a) <= a /\ a < align_down(a) + FRAME_SIZE
  <1> DEFINE q == a \div FRAME_SIZE
             m == a % FRAME_SIZE
  <1>1. FRAME_SIZE \in Nat /\ FRAME_SIZE > 0
    BY FrameAssumption
  <1>2. q \in Nat /\ m \in 0 .. FRAME_SIZE - 1 /\ a = FRAME_SIZE * q + m
    BY <1>1
  <1>3. align_down(a) = q * FRAME_SIZE
    BY DEF align_down
  <1> HIDE DEF q, m
  <1>4. q * FRAME_SIZE \in Nat /\ q * FRAME_SIZE = FRAME_SIZE * q
    BY <1>1, <1>2
  <1> QED
    BY <1>1, <1>2, <1>3, <1>4 DEF Aligned

(***************************************************************************)
(* Rounding up gives the first frame address that is not below a.          *)
(***************************************************************************)
LEMMA AlignUp ==
    ASSUME NEW a \in Nat
    PROVE  align_up(a) \in Nat /\ Aligned(align_up(a)) /\ a <= align_up(a)
  <1>1. FRAME_SIZE \in Nat /\ FRAME_SIZE > 0 /\ a + FRAME_SIZE - 1 \in Nat
    BY FrameAssumption
  <1> QED
    BY <1>1, AlignDown DEF align_up

(***************************************************************************)
(* Two frame addresses that differ are a whole frame apart.                *)
(***************************************************************************)
LEMMA AlignedApart ==
    ASSUME NEW a, NEW b, Aligned(a), Aligned(b), a < b
    PROVE  a + FRAME_SIZE <= b
  <1>1. PICK i \in Nat : a = i * FRAME_SIZE
    BY DEF Aligned
  <1>2. PICK j \in Nat : b = j * FRAME_SIZE
    BY DEF Aligned
  <1>3. FRAME_SIZE \in Nat /\ FRAME_SIZE > 0
    BY FrameAssumption
  <1>4. i < j
    <2> SUFFICES ASSUME j <= i PROVE FALSE
      BY <1>1, <1>2
    <2>1. j * FRAME_SIZE <= i * FRAME_SIZE
      BY <1>1, <1>2, <1>3
    <2> QED
      BY <2>1, <1>1, <1>2, <1>3
  <1>5. (i + 1) * FRAME_SIZE <= j * FRAME_SIZE
    BY <1>1, <1>2, <1>3, <1>4
  <1>6. (i + 1) * FRAME_SIZE = i * FRAME_SIZE + FRAME_SIZE
    BY <1>1, <1>3
  <1> QED
    BY <1>1, <1>2, <1>5, <1>6

(***************************************************************************)
(* The frame after a frame is a frame, and frame addresses are multiples.  *)
(***************************************************************************)
LEMMA AlignedFacts ==
    ASSUME NEW a, Aligned(a)
    PROVE  a \in Nat /\ Aligned(a + FRAME_SIZE) /\ a % FRAME_SIZE = 0
  <1>1. PICK i \in Nat : a = i * FRAME_SIZE
    BY DEF Aligned
  <1>2. FRAME_SIZE \in Nat /\ FRAME_SIZE > 0
    BY FrameAssumption
  <1>3. a + FRAME_SIZE = (i + 1) * FRAME_SIZE /\ a \in Nat
    BY <1>1, <1>2
  <1>4. (i * FRAME_SIZE) % FRAME_SIZE = 0
    BY <1>1, <1>2
  <1> QED
    BY <1>1, <1>3, <1>4 DEF Aligned

-----------------------------------------------------------------------------
(* The inductive invariant *)

Regions == 1 .. Len(memory_map)

\* Frame f is one of region r, which the walk has reached; if the walk is still in
\* that region, f is behind it.
Behind(f, r) ==
    /\ r <= current_region /\ Usable(r)
    /\ Aligned(f) /\ region_start(r) <= f /\ f < region_end(r)
    /\ r = current_region => next_frame # 0 /\ f < next_frame

(***************************************************************************)
(* NeverTwice is not inductive by itself: that the next frame is new       *)
(* follows from where the old ones are relative to the walk.               *)
(***************************************************************************)
FrameInv ==
    /\ memory_map \in MemoryMaps
    /\ current_region \in Nat \ {0}
    /\ next_frame \in Nat
    /\ handed \in Seq(Nat)
    /\ next_frame # 0 => /\ current_region \in Regions
                         /\ Aligned(next_frame) /\ region_start(current_region) <= next_frame
    /\ \A k \in 1 .. Len(handed) : \E r \in Regions : Behind(handed[k], r)
    /\ NeverTwice

(***************************************************************************)
(* The usable part of a region lies inside the region.                     *)
(***************************************************************************)
LEMMA RegionFacts ==
    ASSUME memory_map \in MemoryMaps, NEW r \in Regions
    PROVE  /\ memory_map[r].base \in Nat /\ memory_map[r].length \in Nat
           /\ region_start(r) \in Nat /\ region_end(r) \in Nat
           /\ Aligned(region_start(r)) /\ Aligned(region_end(r))
           /\ memory_map[r].base <= region_start(r)
           /\ region_end(r) <= memory_map[r].base + memory_map[r].length
  <1> DEFINE E == [type_ : STRING, base : Nat, length : Nat]
  <1>1. memory_map \in Seq(E) /\ r \in 1 .. Len(memory_map)
    BY FrameAssumption DEF Regions
  <1>2. memory_map[r] \in E
    <2> HIDE DEF E
    <2> QED
      BY <1>1
  <1>3. /\ memory_map[r].base \in Nat /\ memory_map[r].length \in Nat
        /\ memory_map[r].base + memory_map[r].length \in Nat
    BY <1>2
  <1>4. /\ region_start(r) = align_up(memory_map[r].base)
        /\ region_end(r) = align_down(memory_map[r].base + memory_map[r].length)
    BY DEF region_start, region_end
  <1>5. /\ region_start(r) \in Nat /\ Aligned(region_start(r))
        /\ memory_map[r].base <= region_start(r)
    BY <1>3, <1>4, AlignUp
  <1>6. /\ region_end(r) \in Nat /\ Aligned(region_end(r))
        /\ region_end(r) <= memory_map[r].base + memory_map[r].length
    BY <1>3, <1>4, AlignDown
  <1> QED
    BY <1>3, <1>5, <1>6

(***************************************************************************)
(* Frames of two different usable regions differ.                          *)
(***************************************************************************)
LEMMA RegionsDisjoint ==
    ASSUME memory_map \in MemoryMaps, NEW q \in Regions, NEW r \in Regions, q # r, Usable(q),
           NEW f \in Nat, region_start(q) <= f, f < region_end(q),
           NEW g \in Nat, region_start(r) <= g, g < region_end(r)
    PROVE  f # g
  <1>1. \/ memory_map[q].base + memory_map[q].length <= memory_map[r].base
        \/ memory_map[r].base + memory_map[r].length <= memory_map[q].base
    BY FrameAssumption DEF Regions, Usable
  <1> QED
    BY <1>1, RegionFacts

(***************************************************************************)
(* The invariant holds initially: nothing has been handed out.             *)
(***************************************************************************)
LEMMA FrameInitInv == FrameInit => FrameInv
  BY DEF FrameInit, FrameInv, NeverTwice

(***************************************************************************)
(* Handing out a frame preserves the invariant.                            *)
(***************************************************************************)
LEMMA SomeFrameInv ==
    ASSUME FrameInv, NEW f, SomeFrame(f)
    PROVE  FrameInv'
  <1>1. PICK r \in current_region .. Len(memory_map) :
            /\ Usable(r) /\ HasFrame(r)
            /\ f = Cursor(r)
            /\ current_region' = r
            /\ next_frame' = Cursor(r) + FRAME_SIZE
    BY DEF SomeFrame
  <1>2. /\ memory_map' = memory_map /\ handed' = Append(handed, f)
        /\ memory_map \in MemoryMaps /\ current_region \in Nat \ {0} /\ handed \in Seq(Nat)
    BY DEF SomeFrame, FrameInv
  <1>3. r \in Regions /\ current_region <= r /\ r \in Nat
    BY <1>1, <1>2, FrameAssumption DEF Regions
  <1>4. Aligned(f) /\ region_start(r) <= f /\ f < region_end(r)
    BY <1>1, <1>2, <1>3, RegionFacts DEF Cursor, HasFrame, FrameInv
  <1>5. /\ f \in Nat /\ next_frame' \in Nat /\ next_frame' # 0 /\ f < next_frame'
        /\ Aligned(next_frame')
    BY <1>1, <1>4, AlignedFacts, FrameAssumption
  <1>6. \A k \in 1 .. Len(handed) : \E q \in Regions :
            /\ q <= r /\ Usable(q) /\ Aligned(handed[k])
            /\ region_start(q) <= handed[k] /\ handed[k] < region_end(q)
            /\ q = r => handed[k] < f
    <2> TAKE k \in 1 .. Len(handed)
    <2>1. PICK q \in Regions : Behind(handed[k], q)
      BY DEF FrameInv
    <2>2. q <= r /\ q \in Nat
      BY <2>1, <1>2, <1>3 DEF Behind, Regions
    <2>3. ASSUME q = r PROVE handed[k] < f
      BY <2>1, <2>2, <2>3, <1>1, <1>2, <1>3 DEF Behind, Cursor
    <2> QED
      BY <2>1, <2>2, <2>3 DEF Behind
  <1>7. \A k \in 1 .. Len(handed) : handed[k] # f
    <2> TAKE k \in 1 .. Len(handed)
    <2>1. PICK q \in Regions :
            /\ q <= r /\ Usable(q) /\ Aligned(handed[k])
            /\ region_start(q) <= handed[k] /\ handed[k] < region_end(q)
            /\ q = r => handed[k] < f
      BY <1>6
    <2>2. CASE q = r
      BY <2>1, <2>2, <1>5, AlignedFacts
    <2>3. CASE q # r
      BY <2>1, <2>3, <1>2, <1>3, <1>4, <1>5, AlignedFacts, RegionsDisjoint
    <2> QED
      BY <2>2, <2>3
  <1>8. /\ handed' \in Seq(Nat) /\ Len(handed') = Len(handed) + 1
        /\ \A k \in 1 .. Len(handed) : handed'[k] = handed[k]
        /\ handed'[Len(handed) + 1] = f /\ Len(handed) \in Nat
    BY <1>2, <1>5
  <1>9. \A k \in 1 .. Len(handed') : k \in 1 .. Len(handed) \/ (k = Len(handed) + 1 /\ handed'[k] = f)
    BY <1>8
  <1>10. NeverTwice'
    BY <1>7, <1>8, <1>9 DEF NeverTwice, FrameInv
  <1>11. \A q \in Regions : /\ Usable(q)' = Usable(q)
                            /\ region_start(q)' = region_start(q) /\ region_end(q)' = region_end(q)
    BY <1>2 DEF Usable, region_start, region_end
  <1>12. ASSUME NEW k \in 1 .. Len(handed') PROVE \E q \in Regions : Behind(handed[k], q)'
    <2>1. CASE k \in 1 .. Len(handed)
      <3>1. PICK q \in Regions :
                /\ q <= r /\ Usable(q) /\ Aligned(handed[k])
                /\ region_start(q) <= handed[k] /\ handed[k] < region_end(q)
                /\ q = r => handed[k] < f
        BY <2>1, <1>6
      <3>2. handed'[k] = handed[k] /\ handed[k] \in Nat
        BY <2>1, <1>2, <1>8
      <3>3. q = r => next_frame' # 0 /\ handed'[k] < next_frame'
        BY <3>1, <3>2, <1>5
      <3> QED
        BY <3>1, <3>2, <3>3, <1>1, <1>11 DEF Behind, Aligned
    <2>2. CASE k = Len(handed) + 1 /\ handed'[k] = f
      BY <2>2, <1>1, <1>3, <1>4, <1>5, <1>11 DEF Behind, Aligned
    <2> QED
      BY <2>1, <2>2, <1>9
  <1>13. region_start(current_region)' <= next_frame' /\ current_region' \in Regions'
    <2>1. region_start(current_region)' = region_start(r)
      BY <1>1, <1>2 DEF region_start
    <2>2. region_start(r) \in Nat
      BY <1>2, <1>3, RegionFacts
    <2> QED
      BY <2>1, <2>2, <1>1, <1>2, <1>3, <1>4, <1>5 DEF Regions
  <1> QED
    BY <1>1, <1>2, <1>3, <1>5, <1>8, <1>10, <1>12, <1>13 DEF FrameInv, Regions, Aligned

(***************************************************************************)
(* So does returning None.                                                 *)
(***************************************************************************)
LEMMA NoFrameInv == FrameInv /\ NoFrame => FrameInv'
  <1> SUFFICES ASSUME FrameInv, NoFrame PROVE FrameInv'
    OBVIOUS
  <1>1. PICK r \in current_region .. Len(memory_map) + 1 :
            /\ current_region' = r
            /\ next_frame' = IF r = current_region THEN next_frame ELSE 0
    BY DEF NoFrame
  <1>2. /\ memory_map' = memory_map /\ handed' = handed
        /\ memory_map \in MemoryMaps /\ current_region \in Nat \ {0} /\ next_frame \in Nat
    BY DEF NoFrame, FrameInv
  <1>3. r \in Nat \ {0} /\ current_region <= r
    BY <1>1, <1>2, FrameAssumption
  <1>4. CASE r = current_region
    BY <1>4, <1>1, <1>2
    DEF FrameInv, NeverTwice, Regions, Behind, Usable, region_start, region_end
  <1>5. CASE r # current_region
    <2>1. next_frame' = 0 /\ current_region < r
      BY <1>5, <1>1, <1>2, <1>3
    <2>2. ASSUME NEW k \in 1 .. Len(handed) PROVE \E q \in Regions : Behind(handed[k], q)'
      <3>1. PICK q \in Regions : Behind(handed[k], q)
        BY DEF FrameInv
      <3>2. q \in Nat /\ q < r
        BY <3>1, <2>1, <1>2, <1>3 DEF Behind, Regions
      <3> QED
        BY <3>1, <3>2, <1>1, <1>2
        DEF Behind, Usable, region_start, region_end
    <2> QED
      BY <2>1, <2>2, <1>1, <1>2, <1>3 DEF FrameInv, NeverTwice, Regions
  <1> QED
    BY <1>4, <1>5

(***************************************************************************)
(* The invariant is inductive.                                             *)
(***************************************************************************)
LEMMA FrameNextInv == FrameInv /\ [FrameNext]_frameVars => FrameInv'
  <1> SUFFICES ASSUME FrameInv, [FrameNext]_frameVars PROVE FrameInv'
    OBVIOUS
  <1>1. ASSUME NEW r, SomeFrame(Cursor(r)) PROVE FrameInv'
    BY <1>1, SomeFrameInv
  <1>2. CASE NoFrame
    BY <1>2, NoFrameInv
  <1>3. CASE UNCHANGED frameVars
    BY <1>3
    DEF frameVars, FrameInv, NeverTwice, Regions, Behind, Usable, region_start, region_end
  <1> QED
    BY <1>1, <1>2, <1>3 DEF FrameNext

-----------------------------------------------------------------------------
(* Theorems *)

(***************************************************************************)
(* No frame is handed out twice, for every frame size and every memory map *)
(* whose usable entries overlap no other entry, sorted or not.             *)
(***************************************************************************)
THEOREM FramesUnique == FrameSpec => []NeverTwice
  <1>1. FrameInv => NeverTwice
    BY DEF FrameInv
  <1> QED
    BY <1>1, FrameInitInv, FrameNextInv, PTL DEF FrameSpec

(***************************************************************************)
(* Every frame handed out is aligned and lies whole inside a usable entry. *)
(***************************************************************************)
THEOREM FramesAreUsable == FrameSpec => []FramesUsable
  <1>1. FrameInv => FramesUsable
    <2> SUFFICES ASSUME FrameInv, NEW k \in 1 .. Len(handed)
                 PROVE  /\ handed[k] % FRAME_SIZE = 0
                        /\ \E r \in 1 .. Len(memory_map) :
                            /\ Usable(r)
                            /\ memory_map[r].base <= handed[k]
                            /\ handed[k] + FRAME_SIZE
                                    <= memory_map[r].base + memory_map[r].length
      BY DEF FramesUsable
    <2>1. PICK r \in Regions : Behind(handed[k], r)
      BY DEF FrameInv
    <2>2. handed[k] + FRAME_SIZE <= region_end(r)
      <3>1. Aligned(handed[k]) /\ handed[k] < region_end(r)
        BY <2>1 DEF Behind
      <3>2. Aligned(region_end(r))
        BY <2>1, RegionFacts DEF FrameInv
      <3> QED
        BY <3>1, <3>2, AlignedApart
    <2>3. memory_map[r].base <= handed[k]
      BY <2>1, RegionFacts, AlignedFacts DEF Behind, FrameInv
    <2>4. handed[k] + FRAME_SIZE <= memory_map[r].base + memory_map[r].length
      <3>1. /\ region_end(r) \in Nat /\ memory_map[r].base + memory_map[r].length \in Nat
            /\ region_end(r) <= memory_map[r].base + memory_map[r].length
        BY <2>1, RegionFacts, SMTT(30) DEF FrameInv
      <3>2. handed[k] + FRAME_SIZE \in Nat
        BY <2>1, AlignedFacts, FrameAssumption DEF Behind
      <3> QED
        BY <3>1, <3>2, <2>2
    <2> QED
      BY <2>1, <2>3, <2>4, AlignedFacts DEF Behind, Regions
  <1> QED
    BY <1>1, FrameInitInv, FrameNextInv, PTL DEF FrameSpec
-----------------------------------------------------------------------------
(* None is returned only when nothing is left, and then for good *)

HandedOut(f) == \E k \in 1 .. Len(handed) : handed[k] = f
FrameOf(f, r) == f \in Nat /\ Aligned(f) /\ region_start(r) <= f /\ f < region_end(r)

(***************************************************************************)
(* What the walk leaves behind: no frame of a usable region it has passed, *)
(* none below next_frame in the region it is in, and, after None, a place  *)
(* from which it cannot move on.                                           *)
(***************************************************************************)
WalkInv ==
    /\ \A q \in Regions : q < current_region /\ Usable(q) =>
        ~Overflows(q) /\ \A f \in Nat : FrameOf(f, q) => HandedOut(f)
    /\ next_frame # 0 =>
        \A f \in Nat : FrameOf(f, current_region) /\ f < next_frame => HandedOut(f)
    /\ exhausted => \/ current_region = Len(memory_map) + 1
                    \/ /\ current_region \in Regions
                       /\ Usable(current_region) /\ Overflows(current_region)

(***************************************************************************)
(* The frames below the cursor of a region the walk has not passed are     *)
(* gone.                                                                   *)
(***************************************************************************)
LEMMA BelowCursor ==
    ASSUME FrameInv, WalkInv, NEW q \in Regions, current_region <= q,
           NEW f \in Nat, FrameOf(f, q), f < Cursor(q)
    PROVE  HandedOut(f)
  <1>1. region_start(q) \in Nat /\ region_start(q) <= f
    BY RegionFacts DEF FrameInv, FrameOf
  <1>2. q = current_region /\ next_frame # 0 /\ Cursor(q) = next_frame
    BY <1>1 DEF Cursor
  <1> QED
    BY <1>2 DEF WalkInv

(***************************************************************************)
(* A usable region that the walk goes past has no frame left.              *)
(***************************************************************************)
LEMMA SkippedEmpty ==
    ASSUME FrameInv, WalkInv, NEW r \in Nat, NEW q \in Regions, q < r, Usable(q),
           \A p \in current_region .. r - 1 : Skipped(p)
    PROVE  ~Overflows(q) /\ \A f \in Nat : FrameOf(f, q) => HandedOut(f)
  <1>1. current_region \in Nat /\ q \in Nat
    BY DEF FrameInv, Regions
  <1>2. CASE q < current_region
    BY <1>2 DEF WalkInv
  <1>3. CASE current_region <= q
    <2>1. Skipped(q)
      BY <1>1, <1>3
    <2>2. ~Overflows(q) /\ ~HasFrame(q)
      BY <2>1 DEF Skipped
    <2>3. Cursor(q) \in Nat /\ region_end(q) \in Nat
      BY RegionFacts DEF Cursor, FrameInv
    <2>4. ASSUME NEW f \in Nat, FrameOf(f, q) PROVE f < Cursor(q)
      BY <2>2, <2>3, <2>4 DEF HasFrame, FrameOf
    <2> QED
      BY <2>2, <2>4, <1>3, BelowCursor
  <1> QED
    BY <1>1, <1>2, <1>3

(***************************************************************************)
(* Handing out a frame keeps what the walk leaves behind.                  *)
(***************************************************************************)
LEMMA SomeFrameWalk ==
    ASSUME FrameInv, WalkInv, NEW f, SomeFrame(f)
    PROVE  WalkInv'
  <1>1. PICK r \in current_region .. Len(memory_map) :
            /\ \A q \in current_region .. r - 1 : Skipped(q)
            /\ Usable(r) /\ HasFrame(r)
            /\ f = Cursor(r)
            /\ current_region' = r
            /\ next_frame' = Cursor(r) + FRAME_SIZE
    BY DEF SomeFrame
  <1>2. /\ memory_map' = memory_map /\ handed' = Append(handed, f) /\ ~exhausted'
        /\ memory_map \in MemoryMaps /\ current_region \in Nat \ {0} /\ handed \in Seq(Nat)
    BY DEF SomeFrame, FrameInv
  <1>3. r \in Regions /\ current_region <= r /\ r \in Nat
    BY <1>1, <1>2, FrameAssumption DEF Regions
  <1>4. f \in Nat /\ Aligned(f)
    BY <1>1, <1>2, <1>3, RegionFacts DEF Cursor, FrameInv
  <1>5. \A g : HandedOut(g) \/ g = f => HandedOut(g)'
    <2>1. /\ Len(handed') = Len(handed) + 1 /\ Len(handed) \in Nat
          /\ \A k \in 1 .. Len(handed) : handed'[k] = handed[k]
          /\ handed'[Len(handed) + 1] = f
      BY <1>2, <1>4
    <2> QED
      BY <2>1 DEF HandedOut
  <1>6. \A g, q : FrameOf(g, q)' = FrameOf(g, q) /\ Usable(q)' = Usable(q) /\ Overflows(q)' = Overflows(q)
    BY <1>2 DEF FrameOf, Aligned, region_start, region_end, Usable, Overflows
  <1>7. ASSUME NEW q \in Regions, q < r, Usable(q)
        PROVE  ~Overflows(q) /\ \A g \in Nat : FrameOf(g, q) => HandedOut(g)'
    BY <1>1, <1>3, <1>5, <1>7, SkippedEmpty
  <1>8. ASSUME NEW g \in Nat, FrameOf(g, r), g < f + FRAME_SIZE
        PROVE  HandedOut(g)'
    <2>1. CASE g < f
      BY <2>1, <1>1, <1>3, <1>5, <1>8, BelowCursor
    <2>2. CASE g = f
      BY <2>2, <1>5
    <2>3. CASE f < g
      <3>1. f + FRAME_SIZE <= g
        BY <2>3, <1>4, <1>8, AlignedApart DEF FrameOf
      <3> QED
        BY <3>1, <1>4, <1>8, FrameAssumption
    <2> QED
      BY <2>1, <2>2, <2>3, <1>4
  <1> QED
    BY <1>1, <1>2, <1>6, <1>7, <1>8 DEF WalkInv, Regions

(***************************************************************************)
(* Returning None keeps it too.                                            *)
(***************************************************************************)
LEMMA NoFrameWalk ==
    ASSUME FrameInv, WalkInv, NoFrame
    PROVE  WalkInv'
  <1>1. PICK r \in current_region .. Len(memory_map) + 1 :
            /\ \A q \in current_region .. r - 1 : Skipped(q)
            /\ r <= Len(memory_map) => Usable(r) /\ Overflows(r)
            /\ current_region' = r
            /\ next_frame' = IF r = current_region THEN next_frame ELSE 0
    BY DEF NoFrame
  <1>2. /\ memory_map' = memory_map /\ handed' = handed
        /\ memory_map \in MemoryMaps /\ current_region \in Nat \ {0} /\ next_frame \in Nat
    BY DEF NoFrame, FrameInv
  <1>3. r \in Nat \ {0} /\ current_region <= r /\ r <= Len(memory_map) + 1 /\ Len(memory_map) \in Nat
    BY <1>1, <1>2, FrameAssumption
  <1>4. \A g, q : /\ FrameOf(g, q)' = FrameOf(g, q) /\ HandedOut(g)' = HandedOut(g)
                  /\ Usable(q)' = Usable(q) /\ Overflows(q)' = Overflows(q)
    BY <1>2 DEF FrameOf, Aligned, region_start, region_end, Usable, Overflows, HandedOut
  <1>5. ASSUME NEW q \in Regions, q < r, Usable(q)
        PROVE  ~Overflows(q) /\ \A g \in Nat : FrameOf(g, q) => HandedOut(g)
    BY <1>1, <1>3, <1>5, SkippedEmpty
  <1>6. ASSUME next_frame' # 0, NEW g \in Nat, FrameOf(g, r), g < next_frame'
        PROVE  HandedOut(g)
    <2>1. r = current_region /\ next_frame' = next_frame
      BY <1>6, <1>1
    <2> QED
      BY <2>1, <1>6 DEF WalkInv
  <1>7. \/ r = Len(memory_map) + 1
        \/ r \in Regions /\ Usable(r) /\ Overflows(r)
    BY <1>1, <1>3 DEF Regions
  <1> QED
    BY <1>1, <1>2, <1>4, <1>5, <1>6, <1>7 DEF WalkInv, Regions

(***************************************************************************)
(* Both invariants hold of every state of the allocator.                   *)
(***************************************************************************)
LEMMA FrameWalk == FrameSpec => [](FrameInv /\ WalkInv)
  <1>1. FrameInit => WalkInv
    <2> SUFFICES ASSUME FrameInit PROVE WalkInv
      OBVIOUS
    <2>1. Len(memory_map) \in Nat
      BY FrameAssumption DEF FrameInit
    <2> QED
      BY <2>1 DEF FrameInit, WalkInv, Regions
  <1>2. FrameInv /\ WalkInv /\ [FrameNext]_frameVars => WalkInv'
    <2> SUFFICES ASSUME FrameInv, WalkInv, [FrameNext]_frameVars PROVE WalkInv'
      OBVIOUS
    <2>1. ASSUME NEW r, SomeFrame(Cursor(r)) PROVE WalkInv'
      BY <2>1, SomeFrameWalk
    <2>2. CASE NoFrame
      BY <2>2, NoFrameWalk
    <2>3. CASE UNCHANGED frameVars
      BY <2>3 DEF frameVars, WalkInv, Regions, FrameOf, Aligned, HandedOut, Usable, Overflows,
                  region_start, region_end
    <2> QED
      BY <2>1, <2>2, <2>3 DEF FrameNext
  <1> QED
    BY <1>1, <1>2, FrameInitInv, FrameNextInv, PTL DEF FrameSpec

(***************************************************************************)
(* allocate_frame returns None only when every whole frame of the usable   *)
(* regions it can walk has been handed out.                                *)
(***************************************************************************)
THEOREM NoneMeansEmpty == FrameSpec => []NoneOnlyWhenEmpty
  <1>1. FrameInv /\ WalkInv => NoneOnlyWhenEmpty
    <2> SUFFICES ASSUME FrameInv, WalkInv, exhausted,
                        NEW r \in 1 .. Len(memory_map), Usable(r), Reached(r),
                        NEW f \in region_start(r) .. region_end(r) - 1, f % FRAME_SIZE = 0
                 PROVE  \E k \in 1 .. Len(handed) : handed[k] = f
      BY DEF NoneOnlyWhenEmpty
    <2>1. /\ r \in Regions /\ r \in Nat /\ Len(memory_map) \in Nat /\ r <= Len(memory_map)
          /\ current_region \in Nat \ {0}
      BY FrameAssumption DEF FrameInv, Regions
    <2>2. r < current_region
      <3> SUFFICES ASSUME current_region <= r PROVE FALSE
        BY <2>1
      <3>1. current_region \in 1 .. r /\ Usable(current_region) /\ Overflows(current_region)
        BY <2>1 DEF WalkInv
      <3> QED
        BY <3>1 DEF Reached
    <2>3. /\ region_start(r) \in Nat /\ region_end(r) \in Nat
      BY <2>1, RegionFacts DEF FrameInv
    <2>4. f \in Nat /\ region_start(r) <= f /\ f < region_end(r)
      BY <2>3
    <2>5. Aligned(f)
      <3>1. FRAME_SIZE \in Nat /\ FRAME_SIZE > 0
        BY FrameAssumption
      <3>2. f = FRAME_SIZE * (f \div FRAME_SIZE) /\ f \div FRAME_SIZE \in Nat
        BY <2>4, <3>1
      <3>3. \A i \in Nat : FRAME_SIZE * i = i * FRAME_SIZE
        BY <3>1
      <3> QED
        BY <3>2, <3>3 DEF Aligned
    <2> QED
      BY <2>1, <2>2, <2>4, <2>5 DEF WalkInv, FrameOf, HandedOut
  <1> QED
    BY <1>1, FrameWalk, PTL

(***************************************************************************)
(* None is final: a caller that asks again gets None again, and no frame   *)
(* is handed out after it.                                                 *)
(***************************************************************************)
THEOREM NoneStays == FrameSpec => NoneIsFinal
  <1>1. FrameInv /\ WalkInv /\ [FrameNext]_frameVars
            => [exhausted => exhausted' /\ handed' = handed]_frameVars
    <2> SUFFICES ASSUME FrameInv, WalkInv, exhausted, NEW f, SomeFrame(f) PROVE FALSE
      BY DEF FrameNext, NoFrame, frameVars
    <2>1. PICK r \in current_region .. Len(memory_map) :
            /\ \A q \in current_region .. r - 1 : Skipped(q)
            /\ ~Overflows(r)
      BY DEF SomeFrame
    <2>2. current_region \in Nat /\ Len(memory_map) \in Nat
      BY FrameAssumption DEF FrameInv
    <2>3. Usable(current_region) /\ Overflows(current_region)
      BY <2>1, <2>2 DEF WalkInv
    <2>4. current_region \in current_region .. r - 1
      BY <2>1, <2>2, <2>3
    <2> QED
      BY <2>1, <2>3, <2>4 DEF Skipped
  <1> QED
    BY <1>1, FrameWalk, PTL DEF FrameSpec, NoneIsFinal

--------------------------------------------------------------------------------
(* The set-up of the heap. *)

(***************************************************************************)
(* A step of the memory subsystem is a step of the frame allocator or      *)
(* leaves it alone.                                                        *)
(***************************************************************************)
LEMMA KmemFrameStep == [KmemNext]_allVars => [FrameNext]_frameVars
  <1> SUFFICES ASSUME [KmemNext]_allVars PROVE [FrameNext]_frameVars
    OBVIOUS
  <1>1. CASE Drain
    BY <1>1 DEF Drain
  <1>2. CASE TakeFrame \/ MakeTable
    BY <1>2 DEF TakeFrame, MakeTable, FrameNext
  <1>3. CASE NoFrameForPage \/ NoFrameForTable
    BY <1>3 DEF NoFrameForPage, NoFrameForTable, FrameNext
  <1>4. CASE MapPage \/ PageAlreadyMapped \/ InitAllocator \/ UNCHANGED allVars
    BY <1>4 DEF MapPage, PageAlreadyMapped, InitAllocator, allVars
  <1> QED
    BY <1>1, <1>2, <1>3, <1>4 DEF KmemNext, Next

(***************************************************************************)
(* The memory subsystem implements the frame allocator on its own: neither *)
(* init_heap nor the mapper it calls moves the cursor behind its back.     *)
(***************************************************************************)
THEOREM KmemImplementsFrames == KmemSpec => FrameSpec
  <1>1. KmemInit => FrameInit
    BY DEF KmemInit
  <1> QED
    BY <1>1, KmemFrameStep, PTL DEF KmemSpec, FrameSpec

-----------------------------------------------------------------------------
(* The inductive invariant of the set-up *)

\* The tables on the walk to page p are there.
Walkable(p) == \A i \in 1 .. Len(Walk[p]) : Walk[p][i] \in existing \cup DOMAIN tables

(***************************************************************************)
(* The pages mapped so far are those before the current one.  A frame in   *)
(* use has been handed out: that is why the next one to be handed out is   *)
(* not in use.                                                             *)
(***************************************************************************)
SetUpInv ==
    /\ page \in Nat /\ heap_start_page <= page
    /\ DOMAIN mapped = heap_start_page .. page - 1
    /\ \A p \in DOMAIN mapped : Walkable(p) /\ HandedOut(mapped[p])
    /\ \A t \in DOMAIN tables : HandedOut(tables[t])
    /\ pc = "map" => HandedOut(frame) /\ \A p \in DOMAIN mapped : mapped[p] # frame
    /\ pc = "done" => page > heap_end_page
    /\ FramesExclusive

(***************************************************************************)
(* Division does not change the order of two addresses.                    *)
(***************************************************************************)
LEMMA PageOrder ==
    ASSUME NEW a \in Nat, NEW b \in Nat, a <= b
    PROVE  /\ containing_page(a) \in Nat /\ containing_page(b) \in Nat
           /\ containing_page(a) <= containing_page(b)
  <1> DEFINE q == a \div FRAME_SIZE
             r == b \div FRAME_SIZE
             m == a % FRAME_SIZE
             n == b % FRAME_SIZE
  <1>1. FRAME_SIZE \in Nat /\ FRAME_SIZE > 0
    BY FrameAssumption
  <1>2. /\ q \in Nat /\ m \in 0 .. FRAME_SIZE - 1 /\ a = FRAME_SIZE * q + m
        /\ r \in Nat /\ n \in 0 .. FRAME_SIZE - 1 /\ b = FRAME_SIZE * r + n
    BY <1>1
  <1> HIDE DEF q, r, m, n
  <1>3. q <= r
    <2> SUFFICES ASSUME r + 1 <= q PROVE FALSE
      BY <1>2
    <2>1. FRAME_SIZE * (r + 1) <= FRAME_SIZE * q
      BY <1>1, <1>2
    <2>2. FRAME_SIZE * (r + 1) = FRAME_SIZE * r + FRAME_SIZE
      BY <1>1, <1>2
    <2>3. FRAME_SIZE * r \in Nat /\ FRAME_SIZE * q \in Nat
      BY <1>1, <1>2
    <2> QED
      BY <2>1, <2>2, <2>3, <1>1, <1>2
  <1> QED
    BY <1>2, <1>3 DEF containing_page, q, r

(***************************************************************************)
(* The frame allocate_frame returns has not been handed out before, and    *)
(* has been now; the earlier ones stay handed out.                         *)
(***************************************************************************)
LEMMA FreshFrame ==
    ASSUME FrameInv, NEW f, SomeFrame(f)
    PROVE  /\ ~HandedOut(f)
           /\ HandedOut(f)'
           /\ \A g : HandedOut(g) => HandedOut(g)'
  <1>1. FrameInv'
    BY SomeFrameInv
  <1>2. handed \in Seq(Nat) /\ handed' \in Seq(Nat) /\ handed' = Append(handed, f)
    BY <1>1 DEF FrameInv, SomeFrame
  <1>3. /\ Len(handed') = Len(handed) + 1 /\ Len(handed) \in Nat
        /\ \A k \in 1 .. Len(handed) : handed'[k] = handed[k]
        /\ handed'[Len(handed) + 1] = f
    BY <1>2
  <1>4. NeverTwice'
    BY <1>1 DEF FrameInv
  <1> QED
    BY <1>3, <1>4 DEF HandedOut, NeverTwice

(***************************************************************************)
(* The invariant holds initially: nothing is mapped.                       *)
(***************************************************************************)
LEMMA SetUpInit == KmemInit => SetUpInv
  <1> SUFFICES ASSUME KmemInit PROVE SetUpInv
    OBVIOUS
  <1>1. heap_start_page \in Nat
    BY HeapInitAssumption, PageOrder DEF heap_start_page
  <1>2. page = heap_start_page /\ DOMAIN mapped = {} /\ DOMAIN tables = {} /\ pc \in {"alloc", "drain"}
    BY DEF KmemInit, HeapInitInit
  <1> QED
    BY <1>1, <1>2 DEF SetUpInv, FramesExclusive

(***************************************************************************)
(* A step that takes no frame into use and maps nothing keeps it.          *)
(***************************************************************************)
LEMMA SetUpIdle ==
    ASSUME SetUpInv, FrameInv, [FrameNext]_frameVars,
           UNCHANGED <<page, existing, tables, mapped, frame>>,
           pc' = "map" => pc = "map",
           pc' = "done" => pc = "done" \/ page > heap_end_page
    PROVE  SetUpInv'
  <1>1. \A g : HandedOut(g) => HandedOut(g)'
    <2>1. ASSUME NEW f, SomeFrame(f) PROVE \A g : HandedOut(g) => HandedOut(g)'
      BY <2>1, FreshFrame
    <2>2. CASE handed' = handed
      BY <2>2 DEF HandedOut
    <2> QED
      BY <2>1, <2>2 DEF FrameNext, NoFrame, frameVars
  <1> QED
    BY <1>1 DEF SetUpInv, FramesExclusive, Walkable

(***************************************************************************)
(* The frame taken for a page is used by no page and no table.             *)
(***************************************************************************)
LEMMA TakeFrameKeeps ==
    ASSUME SetUpInv, FrameInv, TakeFrame
    PROVE  SetUpInv'
  <1>1. PICK f : SomeFrame(f) /\ frame' = f
    BY DEF TakeFrame
  <1>2. pc' = "map" /\ UNCHANGED <<page, existing, tables, mapped>>
    BY DEF TakeFrame
  <1>3. ~HandedOut(f) /\ HandedOut(f)' /\ \A g : HandedOut(g) => HandedOut(g)'
    BY <1>1, FreshFrame
  <1> QED
    BY <1>1, <1>2, <1>3 DEF SetUpInv, FramesExclusive, Walkable

(***************************************************************************)
(* So is the frame the mapper takes for a missing table, although the      *)
(* page's own frame has been taken but is not in use yet.                  *)
(***************************************************************************)
LEMMA MakeTableKeeps ==
    ASSUME SetUpInv, FrameInv, MakeTable
    PROVE  SetUpInv'
  <1>0. PICK i \in Missing : \E f : SomeFrame(f) /\ tables' = With(tables, Walk[page][i], f)
    BY DEF MakeTable
  <1>1. PICK f : SomeFrame(f) /\ tables' = With(tables, Walk[page][i], f)
    BY <1>0
  <1> DEFINE t == Walk[page][i]
  <1>2. pc = "map" /\ UNCHANGED <<pc, page, frame, existing, mapped>>
    BY DEF MakeTable
  <1>3. ~HandedOut(f) /\ HandedOut(f)' /\ \A g : HandedOut(g) => HandedOut(g)'
    BY <1>1, FreshFrame
  <1>4. t \notin DOMAIN tables
    BY <1>1 DEF Missing
  <1>5. DOMAIN tables' = DOMAIN tables \cup {t} /\ tables'[t] = f
        /\ \A u \in DOMAIN tables : tables'[u] = tables[u]
    BY <1>1, <1>4 DEF With
  <1> HIDE DEF t
  <1>6. \A p \in DOMAIN mapped : Walkable(p)'
    BY <1>2, <1>5 DEF SetUpInv, Walkable
  <1>7. \A u \in DOMAIN tables' : HandedOut(tables[u])'
    BY <1>3, <1>5 DEF SetUpInv
  <1>8. FramesExclusive'
    BY <1>2, <1>3, <1>5 DEF SetUpInv, FramesExclusive
  <1> QED
    BY <1>2, <1>3, <1>6, <1>7, <1>8 DEF SetUpInv

(***************************************************************************)
(* A page is entered in the tables only when the walk to it is complete.   *)
(***************************************************************************)
LEMMA MapPageKeeps ==
    ASSUME SetUpInv, MapPage
    PROVE  SetUpInv'
  <1>1. /\ pc = "map" /\ pc' = "alloc" /\ Missing = {} /\ page' = page + 1
        /\ mapped' = With(mapped, page, frame)
        /\ UNCHANGED <<frameVars, frame, existing, tables>>
    BY DEF MapPage
  <1>2. heap_start_page \in Nat /\ page \in Nat
    BY HeapInitAssumption, PageOrder DEF heap_start_page, SetUpInv
  <1>3. page \notin DOMAIN mapped
    BY <1>2 DEF SetUpInv
  <1>4. DOMAIN mapped' = DOMAIN mapped \cup {page} /\ mapped'[page] = frame
        /\ \A p \in DOMAIN mapped : mapped'[p] = mapped[p]
    BY <1>1, <1>3 DEF With
  <1>5. heap_start_page <= page
    BY DEF SetUpInv
  <1>6. DOMAIN mapped' = heap_start_page .. page' - 1
    BY <1>1, <1>2, <1>4, <1>5 DEF SetUpInv
  <1>7. Walkable(page)
    BY <1>1 DEF Missing, Walkable
  <1>8. \A p : Walkable(p)' = Walkable(p) /\ HandedOut(p)' = HandedOut(p)
    BY <1>1 DEF Walkable, HandedOut, frameVars
  <1>9. \A p \in DOMAIN mapped' : Walkable(p)' /\ HandedOut(mapped[p])'
    BY <1>1, <1>4, <1>7, <1>8 DEF SetUpInv
  <1>10. FramesExclusive'
    BY <1>1, <1>4 DEF SetUpInv, FramesExclusive
  <1> QED
    BY <1>1, <1>2, <1>6, <1>8, <1>9, <1>10 DEF SetUpInv

(***************************************************************************)
(* The invariant is inductive, next to the frame allocator's.              *)
(***************************************************************************)
LEMMA SetUpNext == SetUpInv /\ FrameInv /\ [KmemNext]_allVars => SetUpInv'
  <1> SUFFICES ASSUME SetUpInv, FrameInv, [KmemNext]_allVars PROVE SetUpInv'
    OBVIOUS
  <1>1. [FrameNext]_frameVars
    BY KmemFrameStep
  <1>2. CASE TakeFrame
    BY <1>2, TakeFrameKeeps
  <1>3. CASE MakeTable
    BY <1>3, MakeTableKeeps
  <1>4. CASE MapPage
    BY <1>4, MapPageKeeps
  <1>5. CASE Drain \/ UNCHANGED allVars
    BY <1>1, <1>5, SetUpIdle DEF Drain, allVars, heapVars
  <1>6. CASE NoFrameForPage \/ NoFrameForTable \/ PageAlreadyMapped \/ InitAllocator
    BY <1>1, <1>6, SetUpIdle
    DEF NoFrameForPage, NoFrameForTable, PageAlreadyMapped, InitAllocator
  <1> QED
    BY <1>2, <1>3, <1>4, <1>5, <1>6 DEF KmemNext, Next

(***************************************************************************)
(* Both invariants hold of every state.                                    *)
(***************************************************************************)
LEMMA SetUpAlways == KmemSpec => [](FrameInv /\ SetUpInv)
  <1>1. KmemInit => FrameInv
    BY FrameInitInv DEF KmemInit
  <1>2. FrameInv /\ [KmemNext]_allVars => FrameInv'
    BY KmemFrameStep, FrameNextInv
  <1> QED
    BY <1>1, <1>2, SetUpInit, SetUpNext, PTL DEF KmemSpec

-----------------------------------------------------------------------------
(* Theorems *)

(***************************************************************************)
(* The frames of the heap are exclusively owned, as init_heap promises:    *)
(* none backs two pages and none is also a page table, whatever tables the *)
(* mapper has to make between taking a page's frame and using it.          *)
(***************************************************************************)
THEOREM HeapFramesExclusive == KmemSpec => []FramesExclusive
  <1>1. SetUpInv => FramesExclusive
    BY DEF SetUpInv
  <1> QED
    BY <1>1, SetUpAlways, PTL

(***************************************************************************)
(* When the buddy allocator is given the heap, every byte of it is on a    *)
(* mapped page whose tables exist, for every start and size of the heap,   *)
(* aligned to pages or not.                                                *)
(***************************************************************************)
THEOREM HeapFullyBacked == KmemSpec => []HeapBacked
  <1>1. SetUpInv => HeapBacked
    <2> SUFFICES ASSUME SetUpInv, pc = "done",
                        NEW a \in HEAP_START .. HEAP_START + HEAP_SIZE - 1
                 PROVE  /\ containing_page(a) \in DOMAIN mapped
                        /\ Walkable(containing_page(a))
      BY DEF HeapBacked, Walkable
    <2>1. a \in Nat /\ HEAP_START \in Nat /\ HEAP_START + HEAP_SIZE - 1 \in Nat
          /\ HEAP_START <= a /\ a <= HEAP_START + HEAP_SIZE - 1
      BY HeapInitAssumption
    <2>2. /\ containing_page(a) \in Nat /\ heap_start_page \in Nat /\ heap_end_page \in Nat
          /\ heap_start_page <= containing_page(a) /\ containing_page(a) <= heap_end_page
      BY <2>1, PageOrder DEF heap_start_page, heap_end_page
    <2>3. page \in Nat /\ page > heap_end_page
      BY DEF SetUpInv
    <2>4. containing_page(a) \in heap_start_page .. page - 1
      BY <2>2, <2>3
    <2> QED
      BY <2>4 DEF SetUpInv
  <1> QED
    BY <1>1, SetUpAlways, PTL
=============================================================================
