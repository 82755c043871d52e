----------------------------- MODULE MergeProofs -----------------------------
(***************************************************************************)
(* Merging in the buddy allocator: dealloc never leaves two free buddies   *)
(* side by side, and so alloc refuses only what it must.                   *)
(***************************************************************************)
EXTENDS BuddyProofs, WellFoundedInduction

-----------------------------------------------------------------------------
(* The inductive invariant *)

\* No block of the heap is above max_order.
OrdersBounded ==
    /\ \A o \in Orders : o > max_order => free_lists[o] = << >>
    /\ pc \in {"split", "merge"} => order <= max_order
    /\ \A x \in live : \A o \in order_for_layout(x.layout) : o <= max_order
    /\ initialized \/ pc = "init" => max_order = largest_order_for(HEAP_SIZE)

\* No block of L has its buddy in L, as far as the two could be merged to a block
\* of an order up to m that HEAP_START is a multiple of.
NoPairs(L, m) ==
    \A o \in Orders : o < m /\ HEAP_START % block_size(o + 1) = 0 =>
        \A i, j \in 1 .. Len(L[o]) : L[o][j] # buddy_of(L[o][i], o)

\* What init has seeded so far is behind it, and could not have been larger.
SeededLargest ==
    pc = "init" =>
        \A o \in Orders : o < max_order => \A i \in 1 .. Len(free_lists[o]) :
            /\ free_lists[o][i] + block_size(o) <= addr
            /\ free_lists[o][i] % block_size(o + 1) = 0 =>
                    free_lists[o][i] + block_size(o + 1) > HEAP_END

(***************************************************************************)
(* Two free buddies are never left side by side, neither by init nor by a  *)
(* split, and a merge that stops has no buddy to go on with.               *)
(***************************************************************************)
MergeInv == OrdersBounded /\ NoPairs(free_lists, max_order) /\ SeededLargest

\* The last answer was null, and nothing has happened since.
RefusedInv ==
    refused # NoLayout =>
        /\ pc = "idle" /\ refused \in Layouts
        /\ initialized => \A o \in order_for_layout(refused) : ~CanAllocate(o)

-----------------------------------------------------------------------------
(* Buddies *)

(***************************************************************************)
(* A block at a multiple of its size has a buddy that is another block at  *)
(* a multiple of that size, and is the buddy of its buddy.                 *)
(***************************************************************************)
LEMMA BuddySymmetric ==
    ASSUME NEW a \in Nat, NEW o \in Orders, AlignedLike(a, o), HEAP_START % block_size(o) = 0
    PROVE  /\ (a - HEAP_START) % block_size(o) = 0
           /\ buddy_of(a, o) # a /\ buddy_of(buddy_of(a, o), o) = a
  <1>1. block_size(o) \in Nat \ {0} /\ a \in Int /\ HEAP_START \in Int
    BY PowerAssumption, RangeAssumption
  <1>2. a % block_size(o) = 0
    BY OrderAssumption DEF AlignedLike, Orders
  <1>3. (a - HEAP_START) % block_size(o) = 0
    BY <1>1, <1>2, SumMultiple
  <1> QED
    BY <1>1, <1>3, BuddyHalves

(***************************************************************************)
(* HEAP_START is a multiple of the smaller block if it is one of the       *)
(* larger.                                                                 *)
(***************************************************************************)
LEMMA StartMultiple ==
    ASSUME NEW o \in Orders, NEW k \in MIN_ORDER .. o, HEAP_START % block_size(o) = 0
    PROVE  HEAP_START % block_size(k) = 0
  <1>1. /\ block_size(k) \in Nat \ {0} /\ block_size(o) \in Nat \ {0}
        /\ block_size(o) % block_size(k) = 0 /\ HEAP_START \in Int
    BY SizeMultiple, RangeAssumption
  <1> QED
    BY <1>1, MultipleOfMultiple

(***************************************************************************)
(* PushSource, of the pushed lists themselves.                             *)
(***************************************************************************)
LEMMA Pushed ==
    \A L \in [Orders -> Seq(Nat)], a \in Nat, o \in Orders, p \in Orders :
        \A i \in 1 .. Len(push_free_block(L, a, o)[p]) :
            \/ p = o /\ push_free_block(L, a, o)[p][i] = a
            \/ \E j \in 1 .. Len(L[p]) : push_free_block(L, a, o)[p][i] = L[p][j]
  <1> TAKE L \in [Orders -> Seq(Nat)], a \in Nat, o \in Orders
  <1> DEFINE M == push_free_block(L, a, o)
  <1>1. M = push_free_block(L, a, o)
    OBVIOUS
  <1> HIDE DEF M
  <1>2. \A p \in Orders : \A i \in 1 .. Len(M[p]) :
            (p = o /\ M[p][i] = a) \/ \E j \in 1 .. Len(L[p]) : M[p][i] = L[p][j]
    BY <1>1, PushSource, SMTT(30)
  <1> QED
    BY <1>2 DEF M

(***************************************************************************)
(* Pushing a block whose buddy is not listed makes no pair of buddies.     *)
(***************************************************************************)
LEMMA PushNoPairs ==
    ASSUME NEW L \in [Orders -> Seq(Nat)], NEW a \in Nat, NEW o \in Orders,
           NEW M, M = push_free_block(L, a, o)
    PROVE  \A m \in Orders :
            /\ NoPairs(L, m) /\ ListsAligned(L) /\ AlignedLike(a, o)
            /\ o < m /\ HEAP_START % block_size(o + 1) = 0 =>
                \A j \in 1 .. Len(L[o]) : L[o][j] # buddy_of(a, o)
            => NoPairs(M, m)
  <1>2. \A p \in Orders : \A i \in 1 .. Len(M[p]) :
            (p = o /\ M[p][i] = a) \/ \E j \in 1 .. Len(L[p]) : M[p][i] = L[p][j]
    BY PushSource, SMTT(30)
  <1> SUFFICES ASSUME NEW m \in Orders, NoPairs(L, m), ListsAligned(L), AlignedLike(a, o),
                      o < m /\ HEAP_START % block_size(o + 1) = 0 =>
                        \A j \in 1 .. Len(L[o]) : L[o][j] # buddy_of(a, o)
               PROVE  NoPairs(M, m)
    OBVIOUS
  <1>3. ASSUME NEW p \in Orders, p < m, HEAP_START % block_size(p + 1) = 0,
               NEW i \in 1 .. Len(M[p]), NEW j \in 1 .. Len(M[p])
        PROVE  M[p][j] # buddy_of(M[p][i], p)
    <2>1. HEAP_START % block_size(p) = 0
      <3>1. p + 1 \in Orders /\ p \in MIN_ORDER .. p + 1
        BY <1>3, OrderAssumption DEF Orders
      <3> QED
        BY <1>3, <3>1, StartMultiple
    <2>2. CASE p = o /\ M[p][i] = a
      <3>1. buddy_of(a, o) # a
        BY <2>1, <2>2, BuddySymmetric
      <3> QED
        BY <1>2, <1>3, <2>2, <3>1, SMTT(30)
    <2>3. ASSUME NEW x \in 1 .. Len(L[p]), M[p][i] = L[p][x]
          PROVE  M[p][j] # buddy_of(M[p][i], p)
      <3>1. L[p][x] \in Nat /\ AlignedLike(L[p][x], p)
        BY DEF ListsAligned
      <3>2. buddy_of(buddy_of(L[p][x], p), p) = L[p][x]
        BY <2>1, <3>1, BuddySymmetric
      <3>3. CASE p = o /\ M[p][j] = a
        BY <1>3, <2>3, <3>2, <3>3
      <3>4. ASSUME NEW y \in 1 .. Len(L[p]), M[p][j] = L[p][y]
            PROVE  M[p][j] # buddy_of(M[p][i], p)
        BY <1>3, <2>3, <3>4 DEF NoPairs
      <3> QED
        BY <1>2, <3>3, <3>4
    <2> QED
      BY <1>2, <2>2, <2>3
  <1> QED
    BY <1>3 DEF NoPairs

(***************************************************************************)
(* Neither does taking one.                                                *)
(***************************************************************************)
LEMMA SubNoPairs ==
    ASSUME NEW L \in [Orders -> Seq(Nat)], NEW m \in Orders, NoPairs(L, m),
           NEW M \in [Orders -> Seq(Nat)], NEW o \in Orders, NEW k \in Nat, SubLists(L, M, o, k)
    PROVE  NoPairs(M, m)
  <1>1. \A p \in Orders : \A i \in 1 .. Len(M[p]) : \E j \in 1 .. Len(L[p]) : M[p][i] = L[p][j]
    BY SubSource
  <1> SUFFICES ASSUME NEW p \in Orders, p < m, HEAP_START % block_size(p + 1) = 0,
                      NEW i \in 1 .. Len(M[p]), NEW j \in 1 .. Len(M[p])
               PROVE  M[p][j] # buddy_of(M[p][i], p)
    BY DEF NoPairs
  <1>2. PICK x \in 1 .. Len(L[p]) : M[p][i] = L[p][x]
    BY <1>1
  <1>3. PICK y \in 1 .. Len(L[p]) : M[p][j] = L[p][y]
    BY <1>1
  <1>4. L[p][y] # buddy_of(L[p][x], p)
    BY DEF NoPairs
  <1> QED
    BY <1>2, <1>3, <1>4

(***************************************************************************)
(* The lists above max_order stay empty when a block of an order up to it  *)
(* is pushed and when a block is taken.                                    *)
(***************************************************************************)
LEMMA StayBounded ==
    ASSUME NEW L \in [Orders -> Seq(Nat)], NEW m \in Orders,
           \A p \in Orders : p > m => L[p] = << >>
    PROVE  /\ \A a \in Nat, o \in Orders : o <= m =>
                \A p \in Orders : p > m => push_free_block(L, a, o)[p] = << >>
           /\ \A M \in [Orders -> Seq(Nat)], o \in Orders, k \in Nat : SubLists(L, M, o, k) /\ o <= m =>
                \A p \in Orders : p > m => M[p] = << >>
  <1>1. \A p \in Orders : p \in Int
    BY BlockSizes
  <1>2. ASSUME NEW a \in Nat, NEW o \in Orders, o <= m, NEW p \in Orders, p > m,
               NEW M, M = push_free_block(L, a, o)
        PROVE  M[p] = << >>
    <2>1. p # o
      BY <1>1, <1>2
    <2>2. push_free_block(L, a, o)[p] = L[p]
      BY <1>2, <2>1 DEF push_free_block
    <2> QED
      BY <1>2, <2>2
  <1>3. ASSUME NEW M \in [Orders -> Seq(Nat)], NEW o \in Orders, NEW k \in Nat,
               SubLists(L, M, o, k), o <= m, NEW p \in Orders, p > m
        PROVE  M[p] = << >>
    <2>1. p # o
      BY <1>1, <1>3
    <2> QED
      BY <1>3, <2>1 DEF SubLists
  <1> QED
    BY <1>2, <1>3

(***************************************************************************)
(* A block seeded now is not the buddy of one seeded before: the two would *)
(* have been seeded as one block.                                          *)
(***************************************************************************)
LEMMA SeedNotPaired ==
    ASSUME Inv, AlignInv, Seeding, MergeInv, pc = "init",
           NEW o \in Orders, block_size(o) <= remaining, addr % block_size(o) = 0,
           o < max_order, HEAP_START % block_size(o + 1) = 0, NEW j \in 1 .. Len(free_lists[o])
    PROVE  free_lists[o][j] # buddy_of(addr, o)
  <1> SUFFICES ASSUME free_lists[o][j] = buddy_of(addr, o) PROVE FALSE
    OBVIOUS
  <1> DEFINE s == block_size(o)
             c == free_lists[o][j]
  <1>1. /\ addr \in Nat /\ remaining \in Nat /\ c \in Nat /\ max_order \in Orders
    BY DEF Inv, TypeOK
  <1>2. o + 1 \in Orders
    BY <1>1, OrderAssumption DEF Orders
  <1>3. s \in Nat \ {0} /\ block_size(o + 1) = 2 * s /\ HEAP_START \in Int
    BY <1>2, BlockSizes, RangeAssumption
  <1>4. c + s <= addr /\ (c % (2 * s) = 0 => c + 2 * s > HEAP_END)
    BY <1>3 DEF MergeInv, SeededLargest
  <1>5. addr + remaining = HEAP_END
    BY DEF Seeding
  <1>6. HEAP_START % s = 0 /\ HEAP_START % (2 * s) = 0
    <2>1. o \in MIN_ORDER .. o + 1
      BY <1>2, OrderAssumption DEF Orders
    <2> QED
      BY <1>2, <1>3, <2>1, StartMultiple
  <1>7. (addr - HEAP_START) % s = 0
    <2>1. addr \in Int
      BY <1>1
    <2> QED
      BY <1>3, <1>6, <2>1, SumMultiple
  <1>8. c = addr - s /\ ((addr - s) - HEAP_START) % (2 * s) = 0
    <2>1. \/ buddy_of(addr, o) = addr + s
          \/ /\ buddy_of(addr, o) = addr - s
             /\ ((addr - s) - HEAP_START) % (2 * s) = 0
      BY <1>1, <1>7, BuddyHalves
    <2> HIDE DEF s, c
    <2>2. c = buddy_of(addr, o)
      BY DEF c
    <2> QED
      BY <1>1, <1>3, <1>4, <2>1, <2>2
  <1> HIDE DEF s, c
  <1>9. c % (2 * s) = 0
    <2> DEFINE t == 2 * s
    <2>1. t \in Nat \ {0} /\ (c - HEAP_START) % t = 0 /\ HEAP_START % t = 0 /\ c - HEAP_START \in Int
      BY <1>1, <1>3, <1>6, <1>8
    <2> HIDE DEF t
    <2>2. ((c - HEAP_START) + HEAP_START) % t = 0
      BY <1>3, <2>1, SumMultiple
    <2>3. (c - HEAP_START) + HEAP_START = c
      BY <1>1, <1>3
    <2> QED
      BY <2>2, <2>3 DEF t
  <1>10. s <= remaining
    BY DEF s
  <1> QED
    BY <1>1, <1>3, <1>4, <1>5, <1>8, <1>9, <1>10, RangeAssumption DEF HEAP_END

(***************************************************************************)
(* The upper half of a split block has the lower half for a buddy, which   *)
(* the call holds.                                                         *)
(***************************************************************************)
LEMMA SplitNotPaired ==
    ASSUME Inv, AlignInv, pc = "split", NEW o \in Orders, o + 1 = order,
           HEAP_START % block_size(o + 1) = 0, NEW j \in 1 .. Len(free_lists[o])
    PROVE  free_lists[o][j] # buddy_of(addr + block_size(o), o)
  <1> DEFINE s == block_size(o)
             c == free_lists[o][j]
  <1>1. addr \in Nat /\ order \in Orders /\ c \in Nat
    BY DEF Inv, TypeOK
  <1>2. s \in Nat \ {0} /\ block_size(order) = 2 * s /\ HEAP_START \in Int /\ 2 * s \in Nat \ {0}
    BY <1>1, BlockSizes, RangeAssumption
  <1>3. HEAP_START % (2 * s) = 0
    BY <1>1, <1>2
  <1>4. addr % (2 * s) = 0
    <2>1. AlignedLike(addr, order)
      BY DEF AlignInv
    <2>2. order \in MIN_ORDER .. order
      BY <1>1, OrderAssumption DEF Orders
    <2> QED
      BY <1>2, <1>3, <2>1, <2>2 DEF AlignedLike
  <1>5. (addr - HEAP_START) % (2 * s) = 0 /\ (addr - HEAP_START) % s = 0 /\ addr - HEAP_START \in Int
    <2> DEFINE t == 2 * s
    <2>1. t \in Nat \ {0} /\ addr % t = 0 /\ HEAP_START % t = 0 /\ addr \in Int
      BY <1>1, <1>2, <1>3, <1>4
    <2>2. t % s = 0
      <3>1. t \in Int
        BY <1>2
      <3> HIDE DEF s
      <3> QED
        BY <1>2, <3>1, IsMultiple, SMTT(30)
    <2> HIDE DEF t, s
    <2>3a. HEAP_START \in Int /\ addr - HEAP_START \in Int
      BY <1>2, <2>1
    <2>3. (addr - HEAP_START) % t = 0
      BY <2>1, <2>3a, SumMultiple
    <2>4. (addr - HEAP_START) % s = 0
      BY <1>2, <2>1, <2>2, <2>3, <2>3a, MultipleOfMultiple
    <2> QED
      BY <2>3, <2>3a, <2>4 DEF t
  <1>6. buddy_of(addr + s, o) = addr
    <2>1. \/ buddy_of(addr + s, o) = addr
          \/ ((addr - s) - HEAP_START) % (2 * s) = 0
      BY <1>1, <1>5, BuddyHalves
    <2>2. ((addr - s) - HEAP_START) % (2 * s) # 0
      <3> SUFFICES ASSUME ((addr - s) - HEAP_START) % (2 * s) = 0 PROVE FALSE
        OBVIOUS
      <3> DEFINE t == 2 * s
                 d == addr - HEAP_START
                 e == (addr - s) - HEAP_START
      <3>1. t \in Nat \ {0} /\ d \in Int /\ e \in Int /\ d % t = 0 /\ e % t = 0 /\ d - e = s
        BY <1>1, <1>2, <1>5
      <3> HIDE DEF t, d, e, s
      <3>2. s % t = 0
        BY <3>1, SumMultiple
      <3>3. PICK q \in Int : s = q * t
        <4>1. s \in Int
          BY <1>2
        <4> QED
          BY <3>1, <3>2, <4>1, IsMultiple
      <3>4. s = 2 * (q * s)
        BY <1>2, <3>3 DEF t
      <3>5. q * s <= 0 \/ q * s >= s
        <4>1. q <= 0 \/ q >= 1
          OBVIOUS
        <4>2. q <= 0 => q * s <= 0
          BY <1>2
        <4>3. q >= 1 => q * s >= s
          BY <1>2
        <4> QED
          BY <4>1, <4>2, <4>3
      <3> QED
        BY <1>2, <3>4, <3>5
    <2> QED
      BY <2>1, <2>2
  <1>7. Apart(c, s, addr, 2 * s)
    <2>1. HeldApart /\ HeldSize = block_size(order)
      BY DEF Inv, NoOverlap, HeldSize
    <2> QED
      BY <1>2, <2>1 DEF HeldApart, ListsApartFrom
  <1> HIDE DEF s, c
  <1>8. c # addr
    BY <1>1, <1>2, <1>7 DEF Apart
  <1> QED
    BY <1>6, <1>8 DEF s, c

-----------------------------------------------------------------------------
(* Every step keeps the invariant *)

(***************************************************************************)
(* A block that init seeds could not have been larger, and its buddy is    *)
(* not on the lists.                                                       *)
(***************************************************************************)
LEMMA SeedMerge == ASSUME Inv, AlignInv, Seeding, MergeInv, SeedBlock PROVE MergeInv'
  <1>0. /\ free_lists \in [Orders -> Seq(Nat)] /\ addr \in Nat /\ remaining \in Nat
        /\ max_order \in Orders /\ HEAP_END \in Nat
    BY RangeAssumption DEF Inv, TypeOK, HEAP_END
  <1>1. PICK o \in Orders :
            /\ o <= max_order /\ block_size(o) <= remaining /\ addr % block_size(o) = 0
            /\ \A k \in o + 1 .. max_order : ~SeedFits(k)
            /\ free_lists' = push_free_block(free_lists, addr, o)
            /\ addr' = addr + block_size(o) /\ remaining' = remaining - block_size(o)
            /\ pc = "init" /\ UNCHANGED <<pc, live, max_order, initialized, refused>>
    BY SeedStep
  <1>2. OrdersBounded'
    <2>1. \A p \in Orders : p > max_order => free_lists'[p] = << >>
      BY <1>0, <1>1, StayBounded DEF MergeInv, OrdersBounded
    <2> QED
      BY <1>1, <2>1 DEF MergeInv, OrdersBounded
  <1>3. NoPairs(free_lists', max_order')
    <2>1. AlignedLike(addr, o) /\ ListsAligned(free_lists) /\ NoPairs(free_lists, max_order)
      BY <1>0, <1>1, AlignedBlock DEF AlignInv, MergeInv
    <2>2. o < max_order /\ HEAP_START % block_size(o + 1) = 0 =>
            \A j \in 1 .. Len(free_lists[o]) : free_lists[o][j] # buddy_of(addr, o)
      BY <1>1, SeedNotPaired
    <2>3. \A m \in Orders :
            /\ NoPairs(free_lists, m) /\ ListsAligned(free_lists) /\ AlignedLike(addr, o)
            /\ o < m /\ HEAP_START % block_size(o + 1) = 0 =>
                \A j \in 1 .. Len(free_lists[o]) : free_lists[o][j] # buddy_of(addr, o)
            => NoPairs(free_lists', m)
      BY <1>0, <1>1, PushNoPairs
    <2> QED
      BY <1>0, <1>1, <2>1, <2>2, <2>3
  <1>4. SeededLargest'
    <2>1. addr + remaining = HEAP_END /\ block_size(o) \in Nat /\ block_size(o) > 0 /\ o \in Nat
      BY <1>1, BlockSizes DEF Seeding
    <2>2. \A p \in Orders : \A i \in 1 .. Len(free_lists'[p]) :
            (p = o /\ free_lists'[p][i] = addr) \/ \E j \in 1 .. Len(free_lists[p]) : free_lists'[p][i] = free_lists[p][j]
      <3>1. free_lists' = push_free_block(free_lists, addr, o)
        BY <1>1
      <3>2. free_lists \in [Orders -> Seq(Nat)] /\ addr \in Nat /\ o \in Orders
        BY <1>0
      <3>3. \A p \in Orders : \A i \in 1 .. Len(push_free_block(free_lists, addr, o)[p]) :
                \/ p = o /\ push_free_block(free_lists, addr, o)[p][i] = addr
                \/ \E j \in 1 .. Len(free_lists[p]) :
                        push_free_block(free_lists, addr, o)[p][i] = free_lists[p][j]
        BY <3>2, Pushed
      <3> QED
        BY <3>1, <3>3
    <2>3. ASSUME NEW p \in Orders, p < max_order, NEW i \in 1 .. Len(free_lists'[p])
          PROVE  /\ free_lists'[p][i] + block_size(p) <= addr'
                 /\ free_lists'[p][i] % block_size(p + 1) = 0 =>
                        free_lists'[p][i] + block_size(p + 1) > HEAP_END
      <3>0. p + 1 \in Orders /\ p \in Nat
        BY <1>0, <2>3, OrderAssumption DEF Orders
      <3>0a. block_size(p) \in Nat /\ block_size(p + 1) \in Nat
        BY <3>0, BlockSizes
      <3>1. CASE p = o /\ free_lists'[p][i] = addr
        <4>1. o + 1 \in o + 1 .. max_order
          BY <1>0, <2>1, <2>3, <3>1 DEF Orders
        <4>2. block_size(o + 1) > remaining \/ addr % block_size(o + 1) # 0
          <5>1. ~(block_size(o + 1) <= remaining) \/ addr % block_size(o + 1) # 0
            BY <1>1, <4>1 DEF SeedFits
          <5> QED
            BY <1>0, <3>0a, <3>1, <5>1
        <4> QED
          BY <1>0, <1>1, <2>1, <3>0a, <3>1, <4>2, SMTT(30)
      <3>2. ASSUME NEW j \in 1 .. Len(free_lists[p]), free_lists'[p][i] = free_lists[p][j]
            PROVE  /\ free_lists'[p][i] + block_size(p) <= addr'
                   /\ free_lists'[p][i] % block_size(p + 1) = 0 =>
                        free_lists'[p][i] + block_size(p + 1) > HEAP_END
        <4>1. /\ free_lists[p][j] + block_size(p) <= addr
              /\ free_lists[p][j] % block_size(p + 1) = 0 =>
                        free_lists[p][j] + block_size(p + 1) > HEAP_END
          BY <1>1, <2>3 DEF MergeInv, SeededLargest
        <4>2. free_lists[p][j] \in Nat
          BY <1>0
        <4>3. free_lists[p][j] + block_size(p) <= addr + block_size(o)
          BY <1>0, <2>1, <3>0a, <4>1, <4>2, SMTT(30)
        <4>4. addr' = addr + block_size(o)
          BY <1>1
        <4> QED
          BY <3>2, <4>1, <4>3, <4>4, Zenon
      <3> QED
        BY <2>2, <3>1, <3>2
    <2>4. max_order' = max_order /\ HEAP_END' = HEAP_END
      BY <1>1
    <2> QED
      BY <2>3, <2>4 DEF SeededLargest
  <1> QED
    BY <1>1, <1>2, <1>3, <1>4 DEF MergeInv

(***************************************************************************)
(* A split puts the upper half on the lists; its buddy is the half that is *)
(* kept.                                                                   *)
(***************************************************************************)
LEMMA SplitMerge == ASSUME Inv, AlignInv, MergeInv, SplitBlock PROVE MergeInv'
  <1>0. /\ free_lists \in [Orders -> Seq(Nat)] /\ max_order \in Orders
        /\ ListsAligned(free_lists) /\ NoPairs(free_lists, max_order)
    BY DEF Inv, TypeOK, AlignInv, MergeInv
  <1>1. PICK o \in Orders : o = order' /\ o + 1 = order
    BY SplitStep
  <1>2. PICK h \in Nat : h = addr + block_size(o)
    BY <1>1, SplitStep
  <1>3. /\ addr \in Nat /\ free_lists' = push_free_block(free_lists, h, o)
        /\ pc = "split" /\ UNCHANGED <<pc, live, max_order, initialized, refused>>
    BY <1>1, <1>2, SplitStep
  <1>4. order \in Orders /\ AlignedLike(addr, order) /\ order <= max_order /\ o <= max_order /\ o <= order
    BY <1>0, <1>1, <1>3, BlockSizes DEF AlignInv, MergeInv, OrdersBounded, Inv, TypeOK
  <1>5. AlignedLike(h, o)
    <2>1. AlignedLike(addr, o)
      BY <1>3, <1>4, AlignedBlock
    <2> QED
      BY <1>2, <1>3, <2>1, AlignedBlock
  <1>6. HEAP_START % block_size(o + 1) = 0 =>
            \A j \in 1 .. Len(free_lists[o]) : free_lists[o][j] # buddy_of(h, o)
    BY <1>1, <1>2, <1>3, SplitNotPaired
  <1>7. NoPairs(free_lists', max_order')
    <2>1. \A m \in Orders :
            /\ NoPairs(free_lists, m) /\ ListsAligned(free_lists) /\ AlignedLike(h, o)
            /\ o < m /\ HEAP_START % block_size(o + 1) = 0 =>
                \A j \in 1 .. Len(free_lists[o]) : free_lists[o][j] # buddy_of(h, o)
            => NoPairs(free_lists', m)
      BY <1>0, <1>3, PushNoPairs
    <2> QED
      BY <1>0, <1>3, <1>5, <1>6, <2>1
  <1>8. OrdersBounded'
    <2>1. \A p \in Orders : p > max_order => free_lists'[p] = << >>
      BY <1>0, <1>3, <1>4, StayBounded DEF MergeInv, OrdersBounded
    <2> QED
      BY <1>1, <1>3, <1>4, <2>1 DEF MergeInv, OrdersBounded
  <1> QED
    BY <1>3, <1>7, <1>8 DEF MergeInv, SeededLargest

(***************************************************************************)
(* What dealloc puts on the lists it could not merge.                      *)
(***************************************************************************)
LEMMA EndDeallocMerge == ASSUME Inv, AlignInv, MergeInv, EndDealloc PROVE MergeInv'
  <1>0. /\ free_lists \in [Orders -> Seq(Nat)] /\ max_order \in Orders /\ addr \in Nat
        /\ order \in Orders /\ ListsAligned(free_lists) /\ NoPairs(free_lists, max_order)
    BY DEF Inv, TypeOK, AlignInv, MergeInv
  <1>1. /\ pc = "merge" /\ pc' = "idle" /\ free_lists' = push_free_block(free_lists, addr, order)
        /\ UNCHANGED <<max_order, initialized, live, refused>>
    BY DEF EndDealloc, Return
  <1>2. AlignedLike(addr, order) /\ order <= max_order
    BY <1>1 DEF AlignInv, MergeInv, OrdersBounded
  <1>3. order < max_order =>
            \A j \in 1 .. Len(free_lists[order]) : free_lists[order][j] # buddy_of(addr, order)
    BY DEF EndDealloc, CanMerge, BuddyIndex
  <1>4. NoPairs(free_lists', max_order')
    <2>1. \A m \in Orders :
            /\ NoPairs(free_lists, m) /\ ListsAligned(free_lists) /\ AlignedLike(addr, order)
            /\ order < m /\ HEAP_START % block_size(order + 1) = 0 =>
                \A j \in 1 .. Len(free_lists[order]) : free_lists[order][j] # buddy_of(addr, order)
            => NoPairs(free_lists', m)
      BY <1>0, <1>1, PushNoPairs
    <2> QED
      BY <1>0, <1>1, <1>2, <1>3, <2>1
  <1>5. OrdersBounded'
    <2>1. \A p \in Orders : p > max_order => free_lists'[p] = << >>
      BY <1>0, <1>1, <1>2, StayBounded DEF MergeInv, OrdersBounded
    <2> QED
      BY <1>1, <2>1 DEF MergeInv, OrdersBounded
  <1> QED
    BY <1>1, <1>4, <1>5 DEF MergeInv, SeededLargest

(***************************************************************************)
(* Every step of every call keeps free buddies apart.                      *)
(***************************************************************************)
LEMMA MergeNext == Inv /\ AlignInv /\ Seeding /\ MergeInv /\ [Next]_vars => MergeInv'
  <1> SUFFICES ASSUME Inv, AlignInv, Seeding, MergeInv, [Next]_vars PROVE MergeInv'
    OBVIOUS
  <1>1. /\ free_lists \in [Orders -> Seq(Nat)] /\ max_order \in Orders /\ order \in Orders
        /\ NoPairs(free_lists, max_order)
        /\ \A o \in Orders : o > max_order => free_lists[o] = << >>
        /\ \A x \in live : \A o \in order_for_layout(x.layout) : o <= max_order
        /\ initialized \/ pc = "init" => max_order = largest_order_for(HEAP_SIZE)
    BY DEF Inv, TypeOK, MergeInv, OrdersBounded
  <1>2. CASE BeginInit
    <2>1. /\ free_lists' = [o \in Orders |-> << >>] /\ pc' = "init" /\ live' = {}
          /\ max_order' = largest_order_for(HEAP_SIZE)
      BY <1>2 DEF BeginInit, Inv, CallOK
    <2>2. \A o \in Orders : free_lists'[o] = << >> /\ Len(free_lists'[o]) = 0
      BY <2>1
    <2>3. OrdersBounded'
      BY <2>1, <2>2 DEF OrdersBounded
    <2>4. NoPairs(free_lists', max_order')
      BY <2>2 DEF NoPairs
    <2>5. SeededLargest'
      BY <2>2 DEF SeededLargest
    <2> QED
      BY <2>3, <2>4, <2>5 DEF MergeInv
  <1>3. CASE SeedBlock
    BY <1>3, SeedMerge
  <1>4. CASE EndInit
    <2>1. pc = "init" /\ pc' = "idle" /\ UNCHANGED <<free_lists, max_order, live>>
      BY <1>4 DEF EndInit, Return
    <2> QED
      BY <1>1, <2>1 DEF MergeInv, OrdersBounded, SeededLargest
  <1>5. ASSUME NEW l \in Layouts, BeginAlloc(l) PROVE MergeInv'
    <2>1. /\ order' \in Orders /\ order' <= max_order
          /\ free_lists' \in [Orders -> Seq(Nat)] /\ SubLists(free_lists, free_lists', order', 1)
          /\ pc' = "split" /\ initialized /\ UNCHANGED <<live, max_order, initialized>>
      BY <1>5, PopStep
    <2>2. \A p \in Orders : p > max_order => free_lists'[p] = << >>
      BY <1>1, <2>1, StayBounded
    <2>3. NoPairs(free_lists', max_order)
      BY <1>1, <2>1, SubNoPairs
    <2> QED
      BY <1>1, <2>1, <2>2, <2>3 DEF MergeInv, OrdersBounded, SeededLargest
  <1>6. CASE SplitBlock
    BY <1>6, SplitMerge
  <1>7. CASE EndAlloc
    <2>1. PICK z : z = [addr |-> addr, layout |-> layout]
      OBVIOUS
    <2>2. /\ live' = live \cup {z} /\ z.addr = addr /\ z.layout = layout
          /\ UNCHANGED <<free_lists, max_order, initialized>> /\ pc = "split" /\ pc' = "idle"
      BY <1>7, <2>1 DEF EndAlloc, Return
    <2>3. layout \in Layouts /\ order \in order_for_layout(layout) /\ order <= max_order
      BY <1>7 DEF EndAlloc, Inv, CallOK, MergeInv, OrdersBounded
    <2>4. \A o \in order_for_layout(z.layout) : o <= max_order
      BY <2>2, <2>3, OrderUnique
    <2> QED
      BY <1>1, <2>2, <2>4 DEF MergeInv, OrdersBounded, SeededLargest
  <1>8. ASSUME NEW x \in live, BeginDealloc(x) PROVE MergeInv'
    <2>1. /\ order' \in order_for_layout(x.layout) /\ pc' = "merge" /\ live' = live \ {x}
          /\ initialized /\ UNCHANGED <<free_lists, max_order, initialized>>
      BY <1>8 DEF BeginDealloc
    <2> QED
      BY <1>1, <2>1 DEF MergeInv, OrdersBounded, SeededLargest
  <1>9. CASE MergeBuddy
    <2>1. /\ order' = order + 1 /\ order < max_order /\ pc = "merge"
          /\ free_lists' \in [Orders -> Seq(Nat)]
          /\ UNCHANGED <<pc, live, max_order, initialized>>
      BY <1>9, MergeStep
    <2>2. PICK i \in 1 .. Len(free_lists[order]) : SubLists(free_lists, free_lists', order, i)
      BY <1>9, MergeStep
    <2>3. i \in Nat /\ order <= max_order /\ order' <= max_order
      BY <1>1, <2>1, BlockSizes
    <2>4. \A p \in Orders : p > max_order => free_lists'[p] = << >>
      BY <1>1, <2>1, <2>2, <2>3, StayBounded
    <2>5. NoPairs(free_lists', max_order)
      BY <1>1, <2>1, <2>2, <2>3, SubNoPairs
    <2> QED
      BY <1>1, <2>1, <2>3, <2>4, <2>5 DEF MergeInv, OrdersBounded, SeededLargest
  <1>10. CASE EndDealloc
    BY <1>10, EndDeallocMerge
  <1>11. ASSUME NEW l \in Layouts, AllocNull(l) PROVE MergeInv'
    BY <1>11 DEF AllocNull, MergeInv, OrdersBounded, SeededLargest
  <1>12. CASE UNCHANGED vars
    BY <1>12 DEF vars, MergeInv, OrdersBounded, SeededLargest
  <1> QED
    BY <1>2, <1>3, <1>4, <1>5, <1>6, <1>7, <1>8, <1>9, <1>10, <1>11, <1>12 DEF Next, Step

(***************************************************************************)
(* A refusal is remembered only until the next call takes the lock.        *)
(***************************************************************************)
LEMMA RefusedNext == Inv /\ RefusedInv /\ [Next]_vars => RefusedInv'
  <1> SUFFICES ASSUME Inv, RefusedInv, [Next]_vars, refused' # NoLayout PROVE RefusedInv'
    BY DEF RefusedInv
  <1>1. CASE BeginInit
    BY <1>1 DEF BeginInit
  <1>2. CASE SeedBlock \/ EndInit \/ SplitBlock \/ EndAlloc \/ MergeBuddy \/ EndDealloc
    BY <1>2 DEF SeedBlock, EndInit, SplitBlock, EndAlloc, MergeBuddy, EndDealloc, RefusedInv
  <1>3. ASSUME NEW l \in Layouts, BeginAlloc(l) PROVE FALSE
    BY <1>3 DEF BeginAlloc
  <1>4. ASSUME NEW x \in live, BeginDealloc(x) PROVE FALSE
    BY <1>4 DEF BeginDealloc
  <1>5. ASSUME NEW l \in Layouts, AllocNull(l) PROVE RefusedInv'
    BY <1>5 DEF AllocNull, Idle, RefusedInv, CanAllocate
  <1>6. CASE UNCHANGED vars
    BY <1>6 DEF vars, RefusedInv, CanAllocate
  <1> QED
    BY <1>1, <1>2, <1>3, <1>4, <1>5, <1>6 DEF Next, Step

-----------------------------------------------------------------------------
(* alloc refuses only what it must *)

(***************************************************************************)
(* A set of natural numbers has a least element.                           *)
(***************************************************************************)
LEMMA Least ==
    ASSUME NEW S \in SUBSET Nat, S # {}
    PROVE  \E m \in S : \A k \in S : m <= k
  <1> DEFINE R == OpToRel(<, Nat)
  <1>1. IsWellFoundedOn(R, Nat)
    BY NatLessThanWellFounded
  <1>2. \A x, y \in Nat : <<x, y>> \in R <=> x < y
    BY DEF OpToRel
  <1> HIDE DEF R
  <1>3. PICK m \in S : \A k \in S : ~(<<k, m>> \in R)
    BY <1>1, WFMin
  <1>4. ASSUME NEW k \in S PROVE m <= k
    <2>1. k \in Nat /\ m \in Nat
      OBVIOUS
    <2>2. ~(k < m)
      BY <1>2, <1>3, <2>1, Zenon
    <2> QED
      BY <2>1, <2>2
  <1> QED
    BY <1>4

(***************************************************************************)
(* largest_order_for is right: blocks of larger orders do not fit.         *)
(***************************************************************************)
LEMMA LargestOrder ==
    ASSUME NEW size \in Nat, NEW o \in Orders, o > largest_order_for(size)
    PROVE  block_size(o) > size
  <1> SUFFICES ASSUME block_size(o) <= size PROVE FALSE
    <2>1. block_size(o) \in Nat
      BY BlockSizes
    <2> QED
      BY <2>1
  <1> DEFINE fits == {k \in MIN_ORDER + 1 .. MAX_ORDER :
                        /\ block_size(k) <= size
                        /\ k < MAX_ORDER => block_size(k + 1) > size}
  <1>1. largest_order_for(size) = IF fits = {} THEN MIN_ORDER ELSE CHOOSE k \in fits : TRUE
    BY DEF largest_order_for
  <1>2. CASE fits # {}
    <2>1. PICK f \in fits : f = largest_order_for(size)
      BY <1>1, <1>2
    <2>2. f < o /\ f < MAX_ORDER /\ f \in Orders /\ f + 1 \in Orders /\ f + 1 \in MIN_ORDER .. o
      BY <2>1, OrderAssumption DEF Orders
    <2>3. block_size(f + 1) > size
      BY <2>2
    <2>4. block_size(f + 1) <= block_size(o) /\ block_size(f + 1) \in Nat /\ block_size(o) \in Nat
      BY <2>2, SizeMultiple
    <2> QED
      BY <2>3, <2>4
  <1>3. CASE fits = {}
    <2> DEFINE S == {d \in Nat : \E k \in MIN_ORDER + 1 .. MAX_ORDER : d = MAX_ORDER - k /\ block_size(k) <= size}
    <2>1. o \in MIN_ORDER + 1 .. MAX_ORDER
      BY <1>1, <1>3, OrderAssumption DEF Orders
    <2>2. MAX_ORDER - o \in S /\ S \in SUBSET Nat
      BY <2>1, OrderAssumption
    <2>3. PICK d \in S : \A e \in S : d <= e
      <3> HIDE DEF S
      <3> QED
        BY <2>2, Least
    <2>4. PICK k \in MIN_ORDER + 1 .. MAX_ORDER : d = MAX_ORDER - k /\ block_size(k) <= size
      OBVIOUS
    <2>5. k < MAX_ORDER => block_size(k + 1) > size
      <3> SUFFICES ASSUME k < MAX_ORDER, ~(block_size(k + 1) > size) PROVE FALSE
        OBVIOUS
      <3>1. k + 1 \in MIN_ORDER + 1 .. MAX_ORDER /\ k + 1 \in Orders
        BY OrderAssumption DEF Orders
      <3>2. block_size(k + 1) <= size
        <4>1. block_size(k + 1) \in Nat
          BY <3>1, BlockSizes
        <4> QED
          BY <4>1
      <3>3. MAX_ORDER - (k + 1) \in S
        BY <3>1, <3>2, OrderAssumption
      <3>4. d <= MAX_ORDER - (k + 1)
        <4> HIDE DEF S
        <4> QED
          BY <2>3, <3>3
      <3> QED
        BY <2>4, <3>4, OrderAssumption
    <2>6. k \in fits
      BY <2>4, <2>5
    <2> QED
      BY <1>3, <2>6
  <1> QED
    BY <1>2, <1>3

(***************************************************************************)
(* A range of n bytes at a multiple of n that has a byte in common with a  *)
(* range whose ends are multiples of n is inside that range.               *)
(***************************************************************************)
LEMMA Contained ==
    ASSUME NEW n \in Nat \ {0}, NEW x \in Int, NEW e \in Int, NEW m \in Int, NEW y \in Int,
           x % n = 0, e % n = 0, m % n = 0, x <= y, y < x + n, e <= y, y < e + m
    PROVE  e <= x /\ x + n <= e + m
  <1>1. PICK p \in Int : x = p * n
    BY IsMultiple
  <1>2. PICK q \in Int : e = q * n
    BY IsMultiple
  <1>3. PICK r \in Int : m = r * n
    BY IsMultiple
  <1>4. x + n = (p + 1) * n /\ e + m = (q + r) * n
    BY <1>1, <1>2, <1>3
  <1>5. q <= p
    <2> SUFFICES ASSUME q >= p + 1 PROVE FALSE
      OBVIOUS
    <2>1. q * n >= (p + 1) * n
      OBVIOUS
    <2> QED
      BY <1>2, <1>4, <2>1
  <1>6. p + 1 <= q + r
    <2> SUFFICES ASSUME p >= q + r PROVE FALSE
      OBVIOUS
    <2>1. p * n >= (q + r) * n
      OBVIOUS
    <2> QED
      BY <1>1, <1>4, <2>1
  <1>7. q * n <= p * n /\ (p + 1) * n <= (q + r) * n
    BY <1>5, <1>6
  <1> QED
    BY <1>1, <1>2, <1>4, <1>7

\* An aligned block of order o at a that no client holds a byte of.
Unused(o, a) ==
    /\ o \in Orders /\ HEAP_START % block_size(o) = 0
    /\ a \in HEAP_START .. HEAP_END - block_size(o) /\ a % block_size(o) = 0
    /\ \A x \in live : \A p \in order_for_layout(x.layout) :
            Apart(a, block_size(o), x.addr, block_size(p))

(***************************************************************************)
(* The types of such a block.                                              *)
(***************************************************************************)
LEMMA UnusedTypes ==
    ASSUME NEW o, NEW a, Unused(o, a)
    PROVE  /\ o \in Orders /\ o \in Nat /\ block_size(o) \in Nat \ {0} /\ HEAP_START \in Nat
           /\ a \in Nat /\ HEAP_START <= a /\ a + block_size(o) <= HEAP_START + HEAP_SIZE
           /\ HEAP_SIZE \in Nat /\ HEAP_START % block_size(o) = 0 /\ a % block_size(o) = 0
  <1>1. /\ o \in Orders /\ HEAP_START % block_size(o) = 0
        /\ a \in HEAP_START .. HEAP_END - block_size(o) /\ a % block_size(o) = 0
    BY DEF Unused
  <1>2. /\ o \in Nat /\ block_size(o) \in Nat \ {0} /\ HEAP_START \in Nat /\ HEAP_SIZE \in Nat
    BY <1>1, PowerAssumption, BlockSizes, RangeAssumption
  <1> QED
    BY <1>1, <1>2 DEF HEAP_END

(***************************************************************************)
(* When no call is in progress every byte of it is on the lists.           *)
(***************************************************************************)
LEMMA UnusedListed ==
    ASSUME Inv, NoLeak, initialized, pc = "idle", NEW o, NEW a, Unused(o, a)
    PROVE  \A b \in a .. a + block_size(o) - 1 : Listed(free_lists, b)
  <1>0. /\ o \in Orders /\ o \in Nat /\ block_size(o) \in Nat \ {0} /\ HEAP_START \in Nat
        /\ a \in Nat /\ HEAP_START <= a /\ a + block_size(o) <= HEAP_START + HEAP_SIZE
        /\ HEAP_SIZE \in Nat /\ HEAP_START % block_size(o) = 0 /\ a % block_size(o) = 0
    BY UnusedTypes
  <1>1. MIN_ORDER \in Orders /\ MIN_ORDER \in MIN_ORDER .. o
    BY <1>0, OrderAssumption DEF Orders
  <1>2. PICK n \in Nat \ {0} : n = block_size(MIN_ORDER) /\ block_size(o) % n = 0
    BY <1>0, <1>1, SizeMultiple
  <1>2a. PICK t \in Int : t = (a + block_size(o)) - HEAP_START
    BY <1>0
  <1>3. t % n = 0
    <2>1. block_size(o) \in Nat \ {0} /\ a \in Int /\ HEAP_START \in Int /\ block_size(o) \in Int
      BY <1>0
    <2>2. a % n = 0 /\ HEAP_START % n = 0
      BY <1>0, <1>2, <2>1, MultipleOfMultiple
    <2>3. (a + block_size(o)) % n = 0 /\ a + block_size(o) \in Int
      BY <1>2, <2>1, <2>2, SumMultiple
    <2>4. ((a + block_size(o)) - HEAP_START) % n = 0
      BY <1>2, <2>1, <2>2, <2>3, SumMultiple
    <2> QED
      BY <1>2a, <2>4
  <1>4. t \in Int /\ t <= HEAP_SIZE
    BY <1>0, <1>2a
  <1>5. t <= HEAP_SIZE - (HEAP_SIZE % n)
    <2>1. PICK p \in Int : t = p * n
      BY <1>2, <1>3, <1>4, IsMultiple
    <2>2. PICK q \in Int : HEAP_SIZE = n * q + (HEAP_SIZE % n)
      <3>1. HEAP_SIZE \div n \in Int /\ HEAP_SIZE = n * (HEAP_SIZE \div n) + (HEAP_SIZE % n)
        BY <1>0
      <3> QED
        BY <3>1
    <2>3. HEAP_SIZE % n \in 0 .. n - 1
      BY <1>0, <1>2
    <2>4. p <= q
      <3> SUFFICES ASSUME p >= q + 1 PROVE FALSE
        OBVIOUS
      <3>1. p * n >= (q + 1) * n
        BY <1>2
      <3>2. (q + 1) * n = n * q + n
        BY <1>2
      <3> QED
        BY <1>0, <1>2, <1>4, <2>1, <2>2, <2>3, <3>1, <3>2
    <2>5. p * n <= q * n
      BY <1>2, <2>4
    <2>6. q * n = n * q
      BY <1>2
    <2>7. HEAP_SIZE - (HEAP_SIZE % n) = n * q
      BY <1>0, <1>2, <2>2, <2>3
    <2> QED
      BY <2>1, <2>5, <2>6, <2>7
  <1> SUFFICES ASSUME NEW b \in a .. a + block_size(o) - 1 PROVE Listed(free_lists, b)
    OBVIOUS
  <1>6. b \in HEAP_START .. HEAP_END - 1 - (HEAP_SIZE % block_size(MIN_ORDER))
    <2>1. HEAP_SIZE % n \in Nat
      BY <1>0, <1>2
    <2>2. (a + block_size(o)) - HEAP_START <= HEAP_SIZE - (HEAP_SIZE % n)
      BY <1>2a, <1>5, Zenon
    <2>3. b \in HEAP_START .. (HEAP_START + HEAP_SIZE) - 1 - (HEAP_SIZE % n)
      BY <1>0, <2>1, <2>2
    <2>4. HEAP_END = HEAP_START + HEAP_SIZE
      BY DEF HEAP_END
    <2>5. b \in HEAP_START .. HEAP_END - 1 - (HEAP_SIZE % n)
      BY <2>3, <2>4, Zenon
    <2> QED
      BY <1>2, <2>5, Zenon
  <1>7. HasOwner(b)
    BY <1>6 DEF NoLeak, HasOwner, Listed, ClientHolds, CallHolds
  <1>8. ~CallHolds(b)
    <2>1. HeldSize = 0 /\ addr \in Nat
      BY DEF HeldSize, Inv, TypeOK
    <2> QED
      BY <2>1 DEF CallHolds
  <1>9. ~ClientHolds(b)
    <2> SUFFICES ASSUME NEW x \in live, NEW p \in order_for_layout(x.layout),
                        b \in x.addr .. x.addr + block_size(p) - 1
                 PROVE  FALSE
      BY DEF ClientHolds
    <2>1. x.addr \in Nat /\ block_size(p) \in Nat
      BY LiveTypes DEF Inv
    <2>2. Apart(a, block_size(o), x.addr, block_size(p))
      BY DEF Unused
    <2> QED
      BY <1>0, <2>1, <2>2 DEF Apart
  <1> QED
    BY <1>7, <1>8, <1>9 DEF HasOwner

(***************************************************************************)
(* A listed block that is not larger and has a byte of it is inside it, at *)
(* a multiple of its own size.                                             *)
(***************************************************************************)
LEMMA ListedInside ==
    ASSUME Inv, AlignInv, NEW o, NEW a, Unused(o, a),
           NEW k \in MIN_ORDER .. o, NEW i \in 1 .. Len(free_lists[k]),
           NEW b \in a .. a + block_size(o) - 1,
           b \in free_lists[k][i] .. free_lists[k][i] + block_size(k) - 1
    PROVE  /\ k \in Orders /\ free_lists[k][i] \in Nat /\ free_lists[k][i] % block_size(k) = 0
           /\ a <= free_lists[k][i] /\ free_lists[k][i] + block_size(k) <= a + block_size(o)
  <1>0. /\ o \in Orders /\ o \in Nat /\ block_size(o) \in Nat \ {0} /\ HEAP_START \in Nat
        /\ a \in Nat /\ HEAP_START % block_size(o) = 0 /\ a % block_size(o) = 0
    BY UnusedTypes
  <1>1. k \in Orders /\ block_size(k) \in Nat \ {0} /\ block_size(o) % block_size(k) = 0
    BY <1>0, SizeMultiple
  <1>2. PICK c \in Nat : c = free_lists[k][i]
    BY <1>1 DEF Inv, TypeOK
  <1>3. HEAP_START % block_size(k) = 0
    BY <1>0, StartMultiple
  <1>4. c % block_size(k) = 0
    <2>1. AlignedLike(c, k)
      BY <1>1, <1>2 DEF AlignInv, ListsAligned
    <2>2. k \in MIN_ORDER .. k
      BY <1>1, OrderAssumption DEF Orders
    <2> QED
      BY <1>3, <2>1, <2>2 DEF AlignedLike
  <1>5. a % block_size(k) = 0
    <2>1. a \in Int
      BY <1>0
    <2> QED
      BY <1>0, <1>1, <2>1, MultipleOfMultiple
  <1>6. /\ c \in Int /\ a \in Int /\ block_size(o) \in Int /\ b \in Int
        /\ c <= b /\ b < c + block_size(k) /\ a <= b /\ b < a + block_size(o)
    <2>1. b \in c .. c + block_size(k) - 1 /\ b \in a .. a + block_size(o) - 1
      BY <1>2
    <2>2. c \in Int /\ a \in Int /\ block_size(o) \in Int /\ block_size(k) \in Int
      BY <1>0, <1>1
    <2> HIDE <1>2
    <2> QED
      BY <2>1, <2>2
  <1>7. a <= c /\ c + block_size(k) <= a + block_size(o)
    BY <1>1, <1>4, <1>5, <1>6, Contained
  <1> QED
    BY <1>1, <1>2, <1>4, <1>7

(***************************************************************************)
(* Such a block cannot be made of smaller free blocks only: the smallest   *)
(* of them has its buddy in the block too, and that buddy is either listed *)
(* as well, which MergeInv excludes, or part of a larger listed block,     *)
(* which would overlap the smallest one.                                   *)
(***************************************************************************)
LEMMA UnusedNotSplit ==
    ASSUME Inv, AlignInv, NoLeak, MergeInv, initialized, pc = "idle",
           NEW o, NEW a, Unused(o, a), o <= max_order,
           \A k \in Orders : \A i \in 1 .. Len(free_lists[k]) :
                k >= o => Apart(free_lists[k][i], block_size(k), a, block_size(o))
    PROVE  FALSE
  <1>0. /\ o \in Orders /\ o \in Nat /\ block_size(o) \in Nat \ {0} /\ HEAP_START \in Nat
        /\ a \in Nat /\ HEAP_START % block_size(o) = 0 /\ a % block_size(o) = 0
    BY UnusedTypes
  <1>1. \A b \in a .. a + block_size(o) - 1 :
            \E k \in Orders : \E i \in 1 .. Len(free_lists[k]) :
                b \in free_lists[k][i] .. free_lists[k][i] + block_size(k) - 1
    BY UnusedListed DEF Listed
  <1>2. ASSUME NEW k \in Orders, NEW i \in 1 .. Len(free_lists[k]),
               NEW b \in a .. a + block_size(o) - 1,
               b \in free_lists[k][i] .. free_lists[k][i] + block_size(k) - 1
        PROVE  k < o /\ k \in MIN_ORDER .. o /\ k \in Nat
    <2>1. PICK c \in Nat : c = free_lists[k][i]
      BY DEF Inv, TypeOK
    <2>2. PICK s \in Nat \ {0} : s = block_size(k)
      BY PowerAssumption
    <2>3. PICK u \in Nat \ {0} : u = block_size(o)
      BY <1>0
    <2>4. b \in c .. c + s - 1 /\ b \in a .. a + u - 1
      BY <1>2, <2>1, <2>2, <2>3
    <2>5. ~Apart(c, s, a, u)
      BY <1>0, <2>4 DEF Apart
    <2>6. ~(k >= o)
      BY <2>1, <2>2, <2>3, <2>5
    <2> QED
      BY <1>0, <2>6, OrderAssumption DEF Orders
  <1> DEFINE S == {k \in Orders : \E i \in 1 .. Len(free_lists[k]) :
                    \E b \in a .. a + block_size(o) - 1 :
                        b \in free_lists[k][i] .. free_lists[k][i] + block_size(k) - 1}
  <1>3. S \in SUBSET Nat /\ S # {}
    <2>1. a \in a .. a + block_size(o) - 1
      BY <1>0
    <2> QED
      BY <1>1, <2>1, BlockSizes
  <1>4. PICK k \in S : \A m \in S : k <= m
    <2> HIDE DEF S
    <2> QED
      BY <1>3, Least
  <1>5. PICK i \in 1 .. Len(free_lists[k]) : \E b \in a .. a + block_size(o) - 1 :
            b \in free_lists[k][i] .. free_lists[k][i] + block_size(k) - 1
    BY <1>4
  <1>6. k \in Orders /\ k < o /\ k \in MIN_ORDER .. o /\ k \in Nat
    BY <1>2, <1>4, <1>5
  <1>7. /\ free_lists[k][i] \in Nat /\ free_lists[k][i] % block_size(k) = 0
        /\ a <= free_lists[k][i] /\ free_lists[k][i] + block_size(k) <= a + block_size(o)
    BY <1>5, <1>6, ListedInside
  <1>8. PICK c \in Nat : c = free_lists[k][i]
    BY <1>7
  <1>9. PICK s \in Nat \ {0} : s = block_size(k)
    BY <1>6, PowerAssumption
  <1>10. k + 1 \in Orders /\ k + 1 \in MIN_ORDER .. o /\ block_size(k + 1) = 2 * s
    BY <1>0, <1>6, <1>9, BlockSizes, OrderAssumption DEF Orders
  <1>11. PICK t \in Nat \ {0} : t = 2 * s
    BY <1>9
  <1>12. /\ HEAP_START % s = 0 /\ HEAP_START % t = 0 /\ a % t = 0 /\ block_size(o) % t = 0
    <2>1. HEAP_START % s = 0 /\ HEAP_START % t = 0
      BY <1>0, <1>6, <1>9, <1>10, <1>11, StartMultiple
    <2>2. block_size(o) % t = 0
      BY <1>0, <1>10, <1>11, SizeMultiple
    <2>3. a % t = 0
      <3>1. a \in Int
        BY <1>0
      <3> QED
        BY <1>0, <2>2, <3>1, MultipleOfMultiple
    <2> QED
      BY <2>1, <2>2, <2>3
  <1>13. (c - HEAP_START) % s = 0
    <2>1. c \in Int /\ HEAP_START \in Int /\ c % s = 0
      BY <1>0, <1>7, <1>8, <1>9, SMTT(30)
    <2> QED
      BY <1>12, <2>1, SumMultiple
  <1>14. PICK d \in Int, e \in Int :
            /\ e = buddy_of(c, k) /\ (d - HEAP_START) % t = 0 /\ e # c
            /\ e = c + s \/ e = c - s
            /\ d <= c /\ c + s <= d + t /\ d <= e /\ e + s <= d + t
    <2>1. \/ buddy_of(c, k) = c + s /\ (c - HEAP_START) % t = 0
          \/ buddy_of(c, k) = c - s /\ ((c - s) - HEAP_START) % t = 0
      BY <1>6, <1>9, <1>11, <1>13, BuddyHalves
    <2>2. CASE buddy_of(c, k) = c + s /\ (c - HEAP_START) % t = 0
      <3>1. c \in Int /\ c + s \in Int /\ c + s # c /\ c <= c /\ c + s <= c + t /\ c <= c + s /\ (c + s) + s <= c + t
        BY <1>11
      <3> QED
        BY <2>2, <3>1
    <2>3. CASE buddy_of(c, k) = c - s /\ ((c - s) - HEAP_START) % t = 0
      <3>1. /\ c - s \in Int /\ c - s # c /\ c - s <= c /\ c + s <= (c - s) + t
            /\ c - s <= c - s /\ (c - s) + s <= (c - s) + t
        BY <1>11
      <3> QED
        BY <2>3, <3>1
    <2> QED
      BY <2>1, <2>2, <2>3
  <1>15. d % t = 0
    <2>1. d - HEAP_START \in Int /\ HEAP_START \in Int /\ (d - HEAP_START) + HEAP_START = d
      BY <1>0
    <2>2. ((d - HEAP_START) + HEAP_START) % t = 0
      BY <1>12, <1>14, <2>1, SumMultiple
    <2> QED
      BY <2>1, <2>2
  <1>15a. PICK u \in Nat : u = block_size(o)
    BY <1>0
  <1>15b. d <= c /\ c + s <= d + t /\ d <= e /\ e + s <= d + t
    BY <1>14
  <1>15c. a <= c /\ c + s <= a + u
    BY <1>7, <1>8, <1>9, <1>15a
  <1>16. a <= d /\ d + t <= a + u
    <2>1. a \in Int /\ u \in Int /\ c \in Int /\ u % t = 0 /\ a % t = 0
      BY <1>0, <1>12, <1>15a
    <2>2. c < d + t /\ c < a + u
      BY <1>0, <1>15b, <1>15c
    <2> QED
      BY <1>15, <1>15b, <1>15c, <2>1, <2>2, Contained
  <1>17. e \in a .. a + block_size(o) - 1
    <2>1. e \in a .. a + u - 1
      BY <1>0, <1>15b, <1>16
    <2> QED
      BY <1>15a, <2>1
  <1>18. PICK m \in Orders : \E j \in 1 .. Len(free_lists[m]) :
            e \in free_lists[m][j] .. free_lists[m][j] + block_size(m) - 1
    BY <1>1, <1>17
  <1>19. PICK j \in 1 .. Len(free_lists[m]) :
            e \in free_lists[m][j] .. free_lists[m][j] + block_size(m) - 1
    BY <1>18
  <1>20. m \in S
    BY <1>17, <1>19
  <1>21. k <= m /\ m \in Nat /\ m < o /\ m \in MIN_ORDER .. o
    <2> HIDE DEF S
    <2> QED
      BY <1>2, <1>4, <1>17, <1>19, <1>20
  <1> HIDE DEF S
  <1>22. PICK f \in Nat : f = free_lists[m][j] /\ f % block_size(m) = 0
    BY <1>17, <1>19, <1>21, ListedInside
  <1>23. block_size(m) \in Nat \ {0} /\ e \in f .. f + block_size(m) - 1
    BY <1>19, <1>22, PowerAssumption
  <1>24. CASE m = k
    <2>1. e % s = 0 /\ s % s = 0
      <3>1. c \in Int /\ s \in Int /\ c % s = 0 /\ s = 1 * s
        BY <1>7, <1>8, <1>9
      <3>2. s % s = 0
        BY <3>1, IsMultiple
      <3>3. (c + s) % s = 0 /\ (c - s) % s = 0
        BY <3>1, <3>2, SumMultiple
      <3> QED
        BY <1>14, <3>2, <3>3
    <2>2. f \in Int /\ s \in Int /\ f % s = 0 /\ f <= e /\ e < f + s /\ e <= e /\ e < e + s
      BY <1>9, <1>22, <1>23, <1>24
    <2>3. e <= f
      BY <2>1, <2>2, Contained
    <2>4. e = f
      BY <2>2, <2>3
    <2>5. k < max_order
      <3>1. max_order \in Int
        BY BlockSizes DEF Inv, TypeOK
      <3> QED
        BY <1>0, <1>6, <3>1
    <2>6. HEAP_START % block_size(k + 1) = 0
      BY <1>10, <1>11, <1>12
    <2>7. free_lists[k][j] # buddy_of(free_lists[k][i], k)
      BY <1>6, <1>24, <2>5, <2>6 DEF MergeInv, NoPairs
    <2> QED
      BY <1>8, <1>14, <1>22, <1>24, <2>4, <2>7
  <1>25. CASE m # k
    <2>1. k + 1 \in MIN_ORDER .. m
      BY <1>6, <1>21, <1>25, OrderAssumption DEF Orders
    <2>2. block_size(m) % t = 0
      BY <1>10, <1>11, <2>1, SizeMultiple
    <2>3. f % t = 0
      <3>1. f \in Int
        OBVIOUS
      <3> QED
        BY <1>22, <1>23, <2>2, <3>1, MultipleOfMultiple
    <2>4. /\ f \in Int /\ block_size(m) \in Int
          /\ d <= e /\ e < d + t /\ f <= e /\ e < f + block_size(m)
      BY <1>14, <1>23, SMTT(30)
    <2>5. f <= d /\ d + t <= f + block_size(m)
      BY <1>15, <2>2, <2>3, <2>4, Contained
    <2>6. Apart(c, s, f, block_size(m))
      BY <1>6, <1>8, <1>9, <1>22, <1>25 DEF Inv, NoOverlap, ListsApart
    <2> QED
      BY <1>14, <1>23, <2>5, <2>6 DEF Apart
  <1> QED
    BY <1>24, <1>25

(***************************************************************************)
(* So when alloc has refused a layout, no aligned block it would fit into  *)
(* is free, whole or in parts.                                             *)
(***************************************************************************)
LEMMA Exhausted ==
    Inv /\ AlignInv /\ NoLeak /\ MergeInv /\ RefusedInv => NullOnlyWhenExhausted
  <1> SUFFICES ASSUME Inv, AlignInv, NoLeak, MergeInv, RefusedInv,
                      initialized, refused # NoLayout,
                      NEW o \in order_for_layout(refused), HEAP_START % block_size(o) = 0,
                      NEW a \in HEAP_START .. HEAP_END - block_size(o), a % block_size(o) = 0,
                      \A x \in live : \A p \in order_for_layout(x.layout) :
                            Apart(a, block_size(o), x.addr, block_size(p))
               PROVE  FALSE
    BY DEF NullOnlyWhenExhausted, FreeRange
  <1>1. refused \in Layouts /\ pc = "idle" /\ ~CanAllocate(o)
    BY DEF RefusedInv
  <1>2. o \in Orders
    BY <1>1, OrderUnique
  <1>3. Unused(o, a)
    BY <1>2 DEF Unused
  <1>4. max_order \in Orders /\ max_order \in Int /\ o \in Int
    BY <1>2, BlockSizes DEF Inv, TypeOK
  <1>5. o <= max_order
    <2> SUFFICES ASSUME o > max_order PROVE FALSE
      BY <1>4
    <2>1. max_order = largest_order_for(HEAP_SIZE) /\ HEAP_SIZE \in Nat
      BY RangeAssumption DEF MergeInv, OrdersBounded
    <2>2. block_size(o) > HEAP_SIZE
      BY <1>2, <2>1, LargestOrder
    <2>3. /\ a + block_size(o) <= HEAP_START + HEAP_SIZE /\ HEAP_START <= a
          /\ a \in Nat /\ HEAP_START \in Nat /\ block_size(o) \in Nat
      BY <1>3, UnusedTypes
    <2> QED
      BY <2>1, <2>2, <2>3
  <1>6. ASSUME NEW k \in Orders, k >= o PROVE free_lists[k] = << >>
    <2>1. k \in Int
      BY BlockSizes
    <2>2. CASE k > max_order
      BY <2>2 DEF MergeInv, OrdersBounded
    <2>3. CASE k <= max_order
      <3>1. k \in o .. max_order
        BY <1>4, <1>6, <2>1, <2>3
      <3> QED
        BY <1>1, <3>1 DEF CanAllocate
    <2> QED
      BY <1>4, <2>1, <2>2, <2>3
  <1>7. ASSUME NEW k \in Orders, NEW i \in 1 .. Len(free_lists[k]), k >= o PROVE FALSE
    BY <1>6, <1>7
  <1> QED
    BY <1>1, <1>3, <1>5, <1>7, UnusedNotSplit

(***************************************************************************)
(* alloc returns null only when it must: whatever was split, merged and    *)
(* freed before, in whatever order, free memory of the size asked for is   *)
(* found, for every block size HEAP_START is a multiple of.                *)
(***************************************************************************)
THEOREM RefusesOnlyWhenExhausted == Spec => []NullOnlyWhenExhausted
  <1>1. Init => Seeding /\ NoLeak /\ AlignInv /\ MergeInv /\ RefusedInv
    <2> SUFFICES ASSUME Init PROVE Seeding /\ NoLeak /\ AlignInv /\ MergeInv /\ RefusedInv
      OBVIOUS
    <2>1. /\ pc = "idle" /\ ~initialized /\ live = {} /\ refused = NoLayout
          /\ \A o \in Orders : free_lists[o] = << >> /\ Len(free_lists[o]) = 0
      BY DEF Init
    <2> QED
      BY <2>1 DEF Seeding, NoLeak, AlignInv, ListsAligned, MergeInv, OrdersBounded,
                  NoPairs, SeededLargest, RefusedInv
  <1> QED
    BY <1>1, InitInv, NextInv, SeedingKept, OwnersKept, AlignNext, MergeNext, RefusedNext,
       Exhausted, PTL DEF Spec

-----------------------------------------------------------------------------
(* What the clients have given back *)

\* No client has part of the block of order o at a.
NoClient(a, o) ==
    \A x \in live : \A p \in order_for_layout(x.layout) :
        Apart(a, block_size(o), x.addr, block_size(p))

\* Every aligned block that no client has part of, of a size HEAP_START is a
\* multiple of, is in one piece: it is a free block, or inside one.
WholeAgain ==
    (Idle /\ initialized) =>
        \A o \in MIN_ORDER .. max_order : \A a \in HEAP_START .. HEAP_END :
            IsBlock(a, o) /\ HEAP_START % block_size(o) = 0 /\ NoClient(a, o) =>
                \E k \in o .. max_order : \E i \in 1 .. Len(free_lists[k]) :
                    /\ free_lists[k][i] <= a
                    /\ a + block_size(o) <= free_lists[k][i] + block_size(k)

LEMMA CoalescedStep ==
    Inv /\ AlignInv /\ NoLeak /\ MergeInv => WholeAgain
  <1> SUFFICES ASSUME Inv, AlignInv, NoLeak, MergeInv, pc = "idle", initialized,
                      NEW o \in MIN_ORDER .. max_order, NEW a \in HEAP_START .. HEAP_END,
                      IsBlock(a, o), HEAP_START % block_size(o) = 0, NoClient(a, o)
               PROVE  \E k \in o .. max_order : \E i \in 1 .. Len(free_lists[k]) :
                          /\ free_lists[k][i] <= a
                          /\ a + block_size(o) <= free_lists[k][i] + block_size(k)
    BY DEF WholeAgain, Idle
  <1>1. /\ max_order \in Orders /\ max_order \in Int /\ o \in Orders /\ o \in Int /\ o <= max_order
        /\ HEAP_START \in Nat /\ HEAP_SIZE \in Nat /\ HEAP_END \in Nat
    BY BlockSizes, OrderAssumption, RangeAssumption DEF Inv, TypeOK, Orders, HEAP_END
  <1>2. PICK u \in Nat \ {0} : u = block_size(o)
    BY <1>1, PowerAssumption
  <1>3. a \in Nat /\ a % u = 0 /\ a + u <= HEAP_END
    BY <1>1, <1>2 DEF IsBlock, InHeap
  <1>4. Unused(o, a)
    BY <1>1, <1>2, <1>3 DEF Unused, NoClient
  <1>5. PICK k \in Orders : \E i \in 1 .. Len(free_lists[k]) :
            k >= o /\ ~Apart(free_lists[k][i], block_size(k), a, block_size(o))
    BY <1>1, <1>4, UnusedNotSplit
  <1>6. PICK i \in 1 .. Len(free_lists[k]) :
            k >= o /\ ~Apart(free_lists[k][i], block_size(k), a, block_size(o))
    BY <1>5
  <1>7. PICK f \in Nat, s \in Nat \ {0} : f = free_lists[k][i] /\ s = block_size(k)
    <2>1. free_lists[k][i] \in Nat
      BY DEF Inv, TypeOK
    <2>2. block_size(k) \in Nat \ {0}
      BY PowerAssumption
    <2> QED
      BY <2>1, <2>2
  <1>8. ~Apart(f, s, a, u)
    BY <1>2, <1>6, <1>7
  <1>9. k <= max_order /\ k \in Int
    <2>1. k \in Int /\ free_lists[k] # << >>
      BY BlockSizes
    <2> QED
      BY <1>1, <2>1 DEF MergeInv, OrdersBounded
  <1>10. o \in MIN_ORDER .. k
    BY <1>1, <1>6, <1>9
  <1>11. s % u = 0
    BY <1>2, <1>7, <1>10, SizeMultiple
  <1>12. f % u = 0
    <2>1. AlignedLike(f, k)
      BY <1>7 DEF AlignInv, ListsAligned
    <2> QED
      BY <1>2, <1>10, <2>1 DEF AlignedLike
  <1>13. PICK y \in Int : a <= y /\ y < a + u /\ f <= y /\ y < f + s
    <2>1. f < a + u /\ a < f + s
      BY <1>3, <1>8 DEF Apart
    <2>2. CASE a <= f
      <3>1. f \in Int /\ a <= f /\ f < a + u /\ f <= f /\ f < f + s
        BY <2>1, <2>2
      <3> QED
        BY <3>1
    <2>3. CASE f <= a
      <3>1. a \in Int /\ a <= a /\ a < a + u /\ f <= a /\ a < f + s
        BY <1>3, <2>1, <2>3
      <3> QED
        BY <3>1
    <2>4. a <= f \/ f <= a
      BY <1>3
    <2> QED
      BY <2>2, <2>3, <2>4
  <1>14. f <= a /\ a + u <= f + s
    <2>1. a \in Int /\ f \in Int /\ s \in Int
      BY <1>3
    <2> QED
      BY <1>3, <1>11, <1>12, <1>13, <2>1, Contained
  <1>15. k \in o .. max_order
    BY <1>1, <1>6, <1>9
  <1> QED
    BY <1>2, <1>7, <1>14, <1>15

\* A multiple of n at most n - 1 below a.
LEMMA MultipleBelow ==
    ASSUME NEW n \in Nat \ {0}, NEW a \in Nat
    PROVE  \E c \in Int : c % n = 0 /\ c <= a /\ a < c + n
  <1>1. PICK q \in Int : q = a \div n
    OBVIOUS
  <1>2. PICK c \in Int : c = q * n
    BY <1>1
  <1>3. c % n = 0
    BY <1>2, IsMultiple
  <1>4. a = n * (a \div n) + (a % n) /\ 0 <= a % n /\ a % n < n
    OBVIOUS
  <1>5. n * (a \div n) = c
    BY <1>1, <1>2
  <1>6. PICK r \in Int : r = a % n
    OBVIOUS
  <1>7. a = c + r /\ 0 <= r /\ r < n
    BY <1>4, <1>5, <1>6
  <1> QED
    BY <1>3, <1>7

LEMMA EntryIsNat ==
    ASSUME NEW list \in Seq(Nat), NEW n \in 1 .. Len(list)
    PROVE  list[n] \in Nat
  OBVIOUS

LEMMA ListedEntry ==
    ASSUME Inv, AlignInv, MergeInv, NEW k \in Orders, NEW i \in 1 .. Len(free_lists[k])
    PROVE  /\ free_lists[k][i] \in Nat /\ k \in MIN_ORDER .. max_order
           /\ free_lists[k][i] \in HEAP_START .. HEAP_END
           /\ InHeap(free_lists[k][i], block_size(k)) /\ AlignedLike(free_lists[k][i], k)
  <1>1. max_order \in Orders /\ max_order \in Int /\ k \in Int /\ HEAP_START \in Nat /\ HEAP_END \in Nat
    BY BlockSizes, RangeAssumption DEF Inv, TypeOK, HEAP_END
  <1>2. free_lists \in [Orders -> Seq(Nat)]
    BY DEF Inv, TypeOK
  <1>3. free_lists[k] \in Seq(Nat)
    BY <1>2
  <1>4. PICK f \in Nat, s \in Nat \ {0} : f = free_lists[k][i] /\ s = block_size(k)
    BY <1>3, EntryIsNat, PowerAssumption
  <1>5. k <= max_order
    <2>1. free_lists[k] # << >>
      OBVIOUS
    <2> QED
      BY <1>1, <2>1 DEF MergeInv, OrdersBounded
  <1>6. InHeap(f, s)
    BY <1>4 DEF Inv, NoOverlap, ListsInHeap
  <1>7. f \in HEAP_START .. HEAP_END
    BY <1>1, <1>6 DEF InHeap
  <1>8. AlignedLike(f, k)
    BY <1>4 DEF AlignInv, ListsAligned
  <1>9. k \in MIN_ORDER .. max_order
    BY <1>1, <1>5 DEF Orders
  <1> QED
    BY <1>4, <1>6, <1>7, <1>8, <1>9

LEMMA FreeIsListed ==
    ASSUME NEW x
    PROVE  x \in FreeBlocks <=>
               \E k \in Orders : \E i \in 1 .. Len(free_lists[k]) : x = <<free_lists[k][i], k>>
  BY DEF FreeBlocks

\* An aligned block of order p around address a, inside a range that is made of
\* such blocks.
LEMMA BlockAround ==
    ASSUME NEW p \in Orders, NEW e \in Nat, NEW m \in Nat, NEW a \in Nat,
           e % block_size(p) = 0, m % block_size(p) = 0, InHeap(e, m), e <= a, a < e + m
    PROVE  \E c \in HEAP_START .. HEAP_END :
               c \in Nat /\ IsBlock(c, p) /\ c <= a /\ a < c + block_size(p)
  <1>1. PICK n \in Nat \ {0} : n = block_size(p)
    BY PowerAssumption
  <1>2. PICK c \in Int : c % n = 0 /\ c <= a /\ a < c + n
    BY MultipleBelow
  <1>3. e <= c /\ c + n <= e + m
    <2>1. e \in Int /\ m \in Int /\ a \in Int /\ e % n = 0 /\ m % n = 0
      BY <1>1
    <2> QED
      BY <1>2, <2>1, Contained
  <1>4. HEAP_START \in Nat /\ HEAP_END \in Nat
    BY RangeAssumption DEF HEAP_END
  <1>5. HEAP_START <= e /\ e + m <= HEAP_END
    BY DEF InHeap
  <1>6. c \in HEAP_START .. HEAP_END /\ c \in Nat /\ HEAP_START <= c /\ c + n <= HEAP_END
    BY <1>3, <1>4, <1>5
  <1>7. IsBlock(c, p)
    BY <1>1, <1>2, <1>6 DEF IsBlock, InHeap
  <1> QED
    BY <1>1, <1>2, <1>6, <1>7

\* Two ranges that are not apart share an address.
LEMMA SharedAddress ==
    ASSUME NEW e \in Nat, NEW m \in Nat \ {0}, NEW a \in Nat, NEW n \in Nat \ {0}, ~Apart(e, m, a, n)
    PROVE  \E y \in Int : e <= y /\ y < e + m /\ a <= y /\ y < a + n
  <1>1. e < a + n /\ a < e + m
    BY DEF Apart
  <1>2. CASE a <= e
    <2>1. e \in Int /\ e <= e /\ e < e + m /\ a <= e /\ e < a + n
      BY <1>1, <1>2
    <2> QED
      BY <2>1
  <1>3. CASE e <= a
    <2>1. a \in Int /\ e <= a /\ a < e + m /\ a <= a /\ a < a + n
      BY <1>1, <1>3
    <2> QED
      BY <2>1
  <1>4. a <= e \/ e <= a
    OBVIOUS
  <1> QED
    BY <1>2, <1>3, <1>4

\* The listed blocks of an order whose buddies are aligned overlap no larger
\* aligned block.
LEMMA ListedIsLargest ==
    ASSUME Inv, AlignInv, MergeInv, WholeAgain, pc = "idle", initialized, live = {},
           NEW o \in MIN_ORDER .. max_order, BuddiesAligned(o),
           NEW i \in 1 .. Len(free_lists[o]), o \in Orders,
           NEW p \in o + 1 .. max_order, NEW b \in HEAP_START .. HEAP_END, IsBlock(b, p)
    PROVE  Apart(b, block_size(p), free_lists[o][i], block_size(o))
  <1>1. /\ max_order \in Orders /\ max_order \in Int /\ o \in Int /\ p \in Int /\ MIN_ORDER \in Int
        /\ HEAP_START \in Nat /\ HEAP_END \in Nat /\ p \in Orders /\ o + 1 \in Orders /\ o < max_order
    <2>1. max_order \in Orders /\ MIN_ORDER \in Nat /\ MAX_ORDER \in Nat
      BY OrderAssumption DEF Inv, TypeOK
    <2> QED
      BY <2>1, RangeAssumption DEF Orders, HEAP_END
  <1>2. HEAP_START % block_size(o + 1) = 0
    BY <1>1 DEF BuddiesAligned
  <1>3. o \in MIN_ORDER .. o + 1 /\ o + 1 \in MIN_ORDER .. p /\ o \in MIN_ORDER .. p
        /\ o \in MIN_ORDER .. o /\ o + 1 \in MIN_ORDER .. max_order
    BY <1>1
  <1>4. HEAP_START % block_size(o) = 0
    BY <1>1, <1>2, <1>3, StartMultiple
  <1>5. PICK f \in Nat, s \in Nat \ {0}, t \in Nat \ {0}, u \in Nat \ {0} :
            f = free_lists[o][i] /\ s = block_size(o) /\ t = block_size(o + 1) /\ u = block_size(p)
    <2>1. free_lists[o][i] \in Nat
      BY ListedEntry
    <2>2. block_size(o) \in Nat \ {0} /\ block_size(o + 1) \in Nat \ {0} /\ block_size(p) \in Nat \ {0}
      BY <1>1, PowerAssumption
    <2> QED
      BY <2>1, <2>2
  <1>6. f % s = 0
    <2>1. AlignedLike(f, o)
      BY <1>5, ListedEntry
    <2> QED
      BY <1>3, <1>4, <1>5, <2>1 DEF AlignedLike
  <1>7. b \in Nat /\ b % u = 0 /\ InHeap(b, u)
    BY <1>1, <1>5 DEF IsBlock
  <1>8. u % s = 0 /\ u % t = 0
    BY <1>1, <1>3, <1>5, SizeMultiple
  <1>9. b % s = 0 /\ b % t = 0
    <2>1. b \in Int
      BY <1>7
    <2> QED
      BY <1>7, <1>8, <2>1, MultipleOfMultiple
  <1> SUFFICES ASSUME ~Apart(b, u, f, s) PROVE FALSE
    BY <1>5
  <1>10. PICK y \in Int : b <= y /\ y < b + u /\ f <= y /\ y < f + s
    BY <1>7, SharedAddress
  <1>11. b <= f /\ f + s <= b + u
    <2>1. f \in Int /\ b \in Int /\ u \in Int
      BY <1>7
    <2> QED
      BY <1>6, <1>8, <1>9, <1>10, <2>1, Contained
  <1>12. f < b + u
    BY <1>7, <1>11
  <1>13. PICK c \in HEAP_START .. HEAP_END :
             c \in Nat /\ IsBlock(c, o + 1) /\ c <= f /\ f < c + t
    <2>1. /\ b % block_size(o + 1) = 0 /\ u % block_size(o + 1) = 0 /\ InHeap(b, u)
          /\ b <= f /\ f < b + u /\ b \in Nat /\ u \in Nat
      BY <1>5, <1>7, <1>8, <1>9, <1>11, <1>12
    <2>2. \E c \in HEAP_START .. HEAP_END :
              c \in Nat /\ IsBlock(c, o + 1) /\ c <= f /\ f < c + block_size(o + 1)
      BY <1>1, <2>1, BlockAround
    <2> QED
      BY <1>5, <2>2
  <1>14. NoClient(c, o + 1)
    BY DEF NoClient
  <1>15. PICK k \in o + 1 .. max_order : \E j \in 1 .. Len(free_lists[k]) :
             free_lists[k][j] <= c /\ c + block_size(o + 1) <= free_lists[k][j] + block_size(k)
    BY <1>2, <1>3, <1>13, <1>14 DEF WholeAgain, Idle
  <1>16. PICK j \in 1 .. Len(free_lists[k]) :
             free_lists[k][j] <= c /\ c + block_size(o + 1) <= free_lists[k][j] + block_size(k)
    BY <1>15
  <1>17. k \in Orders /\ k # o
    <2>1. max_order <= MAX_ORDER /\ MIN_ORDER \in Nat /\ MAX_ORDER \in Nat
      BY <1>1, OrderAssumption DEF Orders
    <2> QED
      BY <1>1, <2>1 DEF Orders
  <1>18. PICK g \in Nat, v \in Nat \ {0} : g = free_lists[k][j] /\ v = block_size(k)
    <2>1. free_lists[k][j] \in Nat
      BY <1>17, ListedEntry
    <2>2. block_size(k) \in Nat \ {0}
      BY <1>17, PowerAssumption
    <2> QED
      BY <2>1, <2>2
  <1>19. Apart(g, v, f, s)
    BY <1>5, <1>17, <1>18 DEF Inv, NoOverlap, ListsApart
  <1>20. g <= c /\ c + t <= g + v
    BY <1>5, <1>16, <1>18
  <1> QED
    BY <1>13, <1>19, <1>20 DEF Apart

\* The largest aligned blocks of such an order are listed.
LEMMA LargestIsListed ==
    ASSUME Inv, AlignInv, MergeInv, WholeAgain, pc = "idle", initialized, live = {},
           NEW o \in MIN_ORDER .. max_order, BuddiesAligned(o),
           NEW a \in HEAP_START .. HEAP_END, <<a, o>> \in LargestBlocks
    PROVE  o \in Orders /\ \E i \in 1 .. Len(free_lists[o]) : free_lists[o][i] = a
  <1>1. /\ max_order \in Orders /\ max_order \in Int /\ o \in Int /\ MIN_ORDER \in Int
        /\ HEAP_START \in Nat /\ HEAP_END \in Nat /\ o \in Orders /\ a \in Nat
    <2>1. max_order \in Orders /\ MIN_ORDER \in Nat /\ MAX_ORDER \in Nat
      BY OrderAssumption DEF Inv, TypeOK
    <2> QED
      BY <2>1, RangeAssumption DEF Orders, HEAP_END
  <1>2. /\ IsBlock(a, o)
        /\ \A p \in o + 1 .. max_order : \A b \in HEAP_START .. HEAP_END :
               IsBlock(b, p) => Apart(b, block_size(p), a, block_size(o))
    BY DEF LargestBlocks
  <1>3. HEAP_START % block_size(o) = 0
    <2>1. CASE o < max_order
      <3>1. HEAP_START % block_size(o + 1) = 0
        BY <2>1 DEF BuddiesAligned
      <3>2. o + 1 \in Orders /\ o \in MIN_ORDER .. o + 1
        BY <1>1, <2>1, OrderAssumption DEF Orders
      <3> QED
        BY <3>1, <3>2, StartMultiple
    <2>2. CASE ~(o < max_order)
      BY <2>2 DEF BuddiesAligned
    <2> QED
      BY <2>1, <2>2
  <1>4. NoClient(a, o)
    BY DEF NoClient
  <1>5. PICK k \in o .. max_order : \E j \in 1 .. Len(free_lists[k]) :
            free_lists[k][j] <= a /\ a + block_size(o) <= free_lists[k][j] + block_size(k)
    BY <1>2, <1>3, <1>4 DEF WholeAgain, Idle
  <1>6. PICK j \in 1 .. Len(free_lists[k]) :
            free_lists[k][j] <= a /\ a + block_size(o) <= free_lists[k][j] + block_size(k)
    BY <1>5
  <1>7. k \in Orders /\ k \in Int
    <2>1. max_order <= MAX_ORDER /\ MIN_ORDER \in Nat /\ MAX_ORDER \in Nat
      BY <1>1, OrderAssumption DEF Orders
    <2> QED
      BY <1>1, <2>1 DEF Orders
  <1>8. PICK g \in Nat, v \in Nat \ {0}, s \in Nat \ {0} :
            g = free_lists[k][j] /\ v = block_size(k) /\ s = block_size(o)
    <2>1. free_lists[k][j] \in Nat
      BY <1>7, ListedEntry
    <2>2. block_size(k) \in Nat \ {0} /\ block_size(o) \in Nat \ {0}
      BY <1>1, <1>7, PowerAssumption
    <2> QED
      BY <2>1, <2>2
  <1>9. g <= a /\ a + s <= g + v
    BY <1>6, <1>8
  <1>10. k = o
    <2> SUFFICES ASSUME k # o PROVE FALSE
      OBVIOUS
    <2>1. /\ o < max_order /\ o + 1 \in MIN_ORDER .. k /\ o + 1 \in o + 1 .. max_order
          /\ o + 1 \in Orders
      BY <1>1, <1>7, OrderAssumption DEF Orders
    <2>2. HEAP_START % block_size(o + 1) = 0
      BY <2>1 DEF BuddiesAligned
    <2>3. g % block_size(o + 1) = 0
      <3>1. AlignedLike(g, k)
        BY <1>7, <1>8, ListedEntry
      <3> QED
        BY <2>1, <2>2, <3>1 DEF AlignedLike
    <2>4. v % block_size(o + 1) = 0
      BY <1>7, <1>8, <2>1, SizeMultiple
    <2>5. InHeap(g, v)
      BY <1>7, <1>8, ListedEntry
    <2>6. g <= a /\ a < g + v /\ v \in Nat
      BY <1>1, <1>9
    <2>7. PICK c \in HEAP_START .. HEAP_END :
              c \in Nat /\ IsBlock(c, o + 1) /\ c <= a /\ a < c + block_size(o + 1)
      BY <1>1, <2>1, <2>3, <2>4, <2>5, <2>6, BlockAround
    <2>8. Apart(c, block_size(o + 1), a, s)
      BY <1>2, <1>8, <2>1, <2>7
    <2>9. PICK t \in Nat : t = block_size(o + 1)
      BY <2>1, PowerAssumption
    <2>10. Apart(c, t, a, s) /\ c <= a /\ a < c + t
      BY <2>7, <2>8, <2>9
    <2>11. a \in Nat /\ c \in Nat
      BY <1>1, <2>7
    <2>12. c + t <= a \/ a + s <= c
      BY <2>10 DEF Apart
    <2>13. ~(c + t <= a)
      BY <2>10, <2>11
    <2>14. ~(a + s <= c)
      BY <2>10, <2>11
    <2> QED
      BY <2>12, <2>13, <2>14
  <1>11. g = a
    <2>1. v = s
      BY <1>8, <1>10
    <2>2. a \in Nat
      BY <1>1
    <2> QED
      BY <1>9, <2>1, <2>2
  <1> QED
    BY <1>1, <1>8, <1>10, <1>11

LEMMA CoalescedBlocks ==
    ASSUME Inv, AlignInv, MergeInv, WholeAgain, pc = "idle", initialized, live = {},
           NEW o \in MIN_ORDER .. max_order, BuddiesAligned(o)
    PROVE  {x \in FreeBlocks : x[2] = o} = {x \in LargestBlocks : x[2] = o}
  <1>1. o \in Orders /\ o \in Int
    BY BlockSizes, OrderAssumption DEF Inv, TypeOK, Orders
  <1>2. ASSUME NEW x \in FreeBlocks, x[2] = o PROVE x \in LargestBlocks
    <2>1. PICK k \in Orders : \E i \in 1 .. Len(free_lists[k]) : x = <<free_lists[k][i], k>>
      BY <1>2, FreeIsListed
    <2>2. k = o
      BY <1>2, <2>1
    <2>3. PICK i \in 1 .. Len(free_lists[o]) : x = <<free_lists[o][i], o>>
      BY <2>1, <2>2
    <2>4. PICK f \in HEAP_START .. HEAP_END : f = free_lists[o][i]
      BY <1>1, ListedEntry
    <2>5. IsBlock(f, o)
      <3>1. InHeap(f, block_size(o)) /\ AlignedLike(f, o)
        BY <1>1, <2>4, ListedEntry
      <3>2. HEAP_START % block_size(o) = 0
        <4>1. CASE o < max_order
          <5>1. HEAP_START % block_size(o + 1) = 0
            BY <4>1 DEF BuddiesAligned
          <5>2. max_order \in Orders
            BY DEF Inv, TypeOK
          <5>3. o + 1 \in Orders /\ o \in MIN_ORDER .. o + 1
            BY <1>1, <4>1, <5>2, OrderAssumption DEF Orders
          <5> QED
            BY <5>1, <5>3, StartMultiple
        <4>2. CASE ~(o < max_order)
          BY <4>2 DEF BuddiesAligned
        <4> QED
          BY <4>1, <4>2
      <3>3. o \in MIN_ORDER .. o
        BY <1>1, OrderAssumption DEF Orders
      <3> QED
        BY <3>1, <3>2, <3>3 DEF IsBlock, AlignedLike
    <2>6. \A p \in o + 1 .. max_order : \A b \in HEAP_START .. HEAP_END :
              IsBlock(b, p) => Apart(b, block_size(p), f, block_size(o))
      BY <1>1, <2>4, ListedIsLargest
    <2>7. x = <<f, o>> /\ x[1] = f /\ x[2] = o
      BY <2>3, <2>4
    <2> QED
      BY <2>5, <2>6, <2>7 DEF LargestBlocks
  <1>3. ASSUME NEW x \in LargestBlocks, x[2] = o PROVE x \in FreeBlocks
    <2>1. PICK a \in HEAP_START .. HEAP_END, p \in MIN_ORDER .. max_order : x = <<a, p>>
      BY DEF LargestBlocks
    <2>2. x = <<a, o>>
      BY <1>3, <2>1
    <2>3. PICK i \in 1 .. Len(free_lists[o]) : free_lists[o][i] = a
      BY <1>3, <2>2, LargestIsListed
    <2> QED
      BY <1>1, <2>2, <2>3, FreeIsListed
  <1> QED
    BY <1>2, <1>3

LEMMA MergeInvariant == Spec => [](Inv /\ AlignInv /\ NoLeak /\ MergeInv)
  <1>1. Init => Seeding /\ NoLeak /\ AlignInv /\ MergeInv
    <2> SUFFICES ASSUME Init PROVE Seeding /\ NoLeak /\ AlignInv /\ MergeInv
      OBVIOUS
    <2>1. /\ pc = "idle" /\ ~initialized /\ live = {}
          /\ \A o \in Orders : free_lists[o] = << >> /\ Len(free_lists[o]) = 0
      BY DEF Init
    <2> QED
      BY <2>1 DEF Seeding, NoLeak, AlignInv, ListsAligned, MergeInv, OrdersBounded,
                  NoPairs, SeededLargest
  <1> QED
    BY <1>1, InitInv, NextInv, SeedingKept, OwnersKept, AlignNext, MergeNext, PTL DEF Spec

(***************************************************************************)
(* Whatever was split and merged before, what the clients have given back  *)
(* is merged again as far as they allow: between calls every aligned block *)
(* none of them has part of, of a size HEAP_START is a multiple of, is     *)
(* free in one piece; on every heap.                                       *)
(***************************************************************************)
THEOREM PiecesMergeAgain == Spec => []WholeAgain
  BY MergeInvariant, CoalescedStep, PTL

(***************************************************************************)
(* Merging undoes splitting, on every heap: once everything is given back, *)
(* the free blocks of each order whose buddies are aligned are exactly     *)
(* those init makes, the largest aligned blocks that fit.                  *)
(***************************************************************************)
THEOREM MergingUndoesSplitting == Spec => []FullyCoalesced
  <1>1. Inv /\ AlignInv /\ NoLeak /\ MergeInv => FullyCoalesced
    <2> SUFFICES ASSUME Inv, AlignInv, NoLeak, MergeInv, pc = "idle", initialized, live = {},
                        NEW o \in MIN_ORDER .. max_order, BuddiesAligned(o)
                 PROVE  {x \in FreeBlocks : x[2] = o} = {x \in LargestBlocks : x[2] = o}
      BY DEF FullyCoalesced, Idle
    <2>1. WholeAgain
      BY CoalescedStep
    <2> QED
      BY <2>1, CoalescedBlocks
  <1> QED
    BY <1>1, MergeInvariant, PTL
=============================================================================
