----------------------------- MODULE BuddyProofs -----------------------------
(***************************************************************************)
(* Theorems about the buddy allocator, for every heap, every range of      *)
(* orders and every set of layouts.                                        *)
(***************************************************************************)
EXTENDS BuddyAllocator, TLAPS

-----------------------------------------------------------------------------
(* Block sizes and orders *)

(***************************************************************************)
(* A block of order o + 1 is two blocks of order o, and no block is empty. *)
(***************************************************************************)
LEMMA BlockSizes ==
    /\ \A o \in Orders : block_size(o) \in Nat /\ block_size(o) > 0
    /\ \A o \in Orders : o + 1 \in Orders => block_size(o + 1) = 2 * block_size(o)
    /\ \A o \in Orders : o \in Nat
  BY OrderAssumption, PowerAssumption DEF Orders

(***************************************************************************)
(* order_for_size computes at most one order, so dealloc finds the order   *)
(* alloc used for the same layout.                                         *)
(***************************************************************************)
LEMMA OrderUnique ==
    ASSUME NEW l \in Layouts, NEW o \in order_for_layout(l), NEW p \in order_for_layout(l)
    PROVE  o = p /\ o \in Orders
  <1> DEFINE s == IF l.size >= l.align THEN l.size ELSE l.align
  <1>1. o \in order_for_size(s) /\ p \in order_for_size(s)
    BY DEF order_for_layout
  <1>2. s \in Nat
    BY LayoutAssumption
  <1> HIDE DEF s
  <1>3. o \in Orders /\ p \in Orders
    BY <1>1 DEF order_for_size
  <1>4. \A k \in Orders : k < o => block_size(k) < s \/ block_size(k) < NODE_SIZE
    BY <1>1, <1>3, OrderAssumption DEF order_for_size, Orders
  <1>5. \A k \in Orders : k < p => block_size(k) < s \/ block_size(k) < NODE_SIZE
    BY <1>1, <1>3, OrderAssumption DEF order_for_size, Orders
  <1>6. /\ block_size(o) >= s /\ block_size(o) >= NODE_SIZE
        /\ block_size(p) >= s /\ block_size(p) >= NODE_SIZE
    BY <1>1 DEF order_for_size
  <1>7. ~(p < o) /\ ~(o < p)
    BY <1>2, <1>3, <1>4, <1>5, <1>6, BlockSizes, OrderAssumption
  <1> QED
    BY <1>3, <1>7, BlockSizes

-----------------------------------------------------------------------------
(* Free lists: what a push, a pop and an unlink do to the three predicates *)

(***************************************************************************)
(* push_free_block puts a block in front of its list and touches no other. *)
(***************************************************************************)
LEMMA PushFacts ==
    ASSUME NEW L \in [Orders -> Seq(Nat)], NEW a \in Nat, NEW o \in Orders,
           NEW M, M = push_free_block(L, a, o)
    PROVE  /\ M \in [Orders -> Seq(Nat)]
           /\ Len(M[o]) = Len(L[o]) + 1 /\ M[o][1] = a
           /\ \A i \in 2 .. Len(M[o]) : i - 1 \in 1 .. Len(L[o]) /\ M[o][i] = L[o][i - 1]
           /\ \A p \in Orders \ {o} : M[p] = L[p]
  <1>1. M = [L EXCEPT ![o] = <<a>> \o L[o]]
    BY DEF push_free_block
  <1>2. L[o] \in Seq(Nat)
    OBVIOUS
  <1>3. <<a>> \o L[o] \in Seq(Nat) /\ Len(<<a>> \o L[o]) = Len(L[o]) + 1
    BY <1>2
  <1>4. (<<a>> \o L[o])[1] = a /\ \A i \in 2 .. Len(L[o]) + 1 : (<<a>> \o L[o])[i] = L[o][i - 1]
    BY <1>2
  <1>5. M[o] = <<a>> \o L[o] /\ \A p \in Orders \ {o} : M[p] = L[p]
    BY <1>1
  <1>6. M \in [Orders -> Seq(Nat)]
    BY <1>1, <1>3
  <1>7. \A i \in 2 .. Len(M[o]) : i - 1 \in 1 .. Len(L[o])
    BY <1>2, <1>3, <1>5
  <1> QED
    BY <1>3, <1>4, <1>5, <1>6, <1>7

\* M is L without the k-th block of order o.
SubLists(L, M, o, k) ==
    /\ \A p \in Orders \ {o} : M[p] = L[p]
    /\ \A i \in 1 .. Len(M[o]) :
        /\ i < k => i \in 1 .. Len(L[o]) /\ M[o][i] = L[o][i]
        /\ i >= k => i + 1 \in 1 .. Len(L[o]) /\ M[o][i] = L[o][i + 1]

(***************************************************************************)
(* pop_free_block takes the head of a non-empty list.                      *)
(***************************************************************************)
LEMMA PopFacts ==
    ASSUME NEW L \in [Orders -> Seq(Nat)], NEW o \in Orders, L[o] # << >>,
           NEW M, M = pop_free_block(L, o)
    PROVE  /\ M \in [Orders -> Seq(Nat)]
           /\ 1 \in 1 .. Len(L[o]) /\ Head(L[o]) = L[o][1]
           /\ SubLists(L, M, o, 1)
  <1>1. M = [L EXCEPT ![o] = Tail(L[o])]
    BY DEF pop_free_block
  <1>2. L[o] \in Seq(Nat)
    OBVIOUS
  <1>3. Tail(L[o]) \in Seq(Nat) /\ Len(Tail(L[o])) = Len(L[o]) - 1 /\ Len(L[o]) \in Nat \ {0}
    BY <1>2
  <1>4. \A i \in 1 .. Len(L[o]) - 1 : Tail(L[o])[i] = L[o][i + 1]
    BY <1>2
  <1>5. M[o] = Tail(L[o]) /\ \A p \in Orders \ {o} : M[p] = L[p]
    BY <1>1
  <1>6. M \in [Orders -> Seq(Nat)]
    BY <1>1, <1>3
  <1>7. 1 \in 1 .. Len(L[o]) /\ Head(L[o]) = L[o][1]
    BY <1>2, <1>3
  <1>8. \A i \in 1 .. Len(M[o]) : i + 1 \in 1 .. Len(L[o])
    BY <1>3, <1>5
  <1> QED
    BY <1>3, <1>4, <1>5, <1>6, <1>7, <1>8 DEF SubLists

(***************************************************************************)
(* remove_free_block unlinks one block and keeps the others in order.      *)
(***************************************************************************)
LEMMA RemoveFacts ==
    ASSUME NEW L \in [Orders -> Seq(Nat)], NEW o \in Orders, NEW k \in 1 .. Len(L[o]),
           NEW M, M = remove_free_block(L, k, o)
    PROVE  /\ M \in [Orders -> Seq(Nat)]
           /\ SubLists(L, M, o, k)
  <1> DEFINE s == L[o]
             t == [j \in 1 .. Len(s) - 1 |-> IF j < k THEN s[j] ELSE s[j + 1]]
  <1>1. M = [L EXCEPT ![o] = t]
    BY DEF remove_free_block
  <1>2. s \in Seq(Nat) /\ Len(s) \in Nat \ {0} /\ k \in 1 .. Len(s)
    OBVIOUS
  <1>3. \A j \in 1 .. Len(s) - 1 : (IF j < k THEN s[j] ELSE s[j + 1]) \in Nat
    BY <1>2
  <1>4. t \in Seq(Nat) /\ Len(t) = Len(s) - 1
    BY <1>2, <1>3
  <1>5. \A j \in 1 .. Len(s) - 1 : t[j] = IF j < k THEN s[j] ELSE s[j + 1]
    OBVIOUS
  <1>6. M[o] = t /\ \A p \in Orders \ {o} : M[p] = L[p]
    BY <1>1
  <1>7. M \in [Orders -> Seq(Nat)]
    BY <1>1, <1>4
  <1> HIDE DEF t
  <1> QED
    BY <1>2, <1>4, <1>5, <1>6, <1>7, SMTT(30) DEF SubLists

(***************************************************************************)
(* Pushing a block keeps the lists apart from each other, from any other   *)
(* range and inside the heap, if the block is.                             *)
(***************************************************************************)
LEMMA PushKeeps ==
    ASSUME NEW L \in [Orders -> Seq(Nat)], NEW a \in Nat, NEW o \in Orders,
           NEW M, M = push_free_block(L, a, o)
    PROVE  /\ M \in [Orders -> Seq(Nat)]
           /\ ListsApart(L) /\ ListsApartFrom(L, a, block_size(o)) => ListsApart(M)
           /\ ListsInHeap(L) /\ InHeap(a, block_size(o)) => ListsInHeap(M)
           /\ \A b, n \in Nat :
                ListsApartFrom(L, b, n) /\ Apart(a, block_size(o), b, n) => ListsApartFrom(M, b, n)
  <1> DEFINE Src(p, i) == IF p = o THEN i - 1 ELSE i
  <1>1. M \in [Orders -> Seq(Nat)] /\ M[o][1] = a /\ Len(M[o]) = Len(L[o]) + 1
    BY PushFacts
  <1>2. \A p \in Orders : \A i \in 1 .. Len(M[p]) :
            (p = o /\ i = 1) \/ (Src(p, i) \in 1 .. Len(L[p]) /\ M[p][i] = L[p][Src(p, i)])
    <2> TAKE p \in Orders
    <2> TAKE i \in 1 .. Len(M[p])
    <2>1. CASE p # o
      <3>1. M[p] = L[p]
        BY <2>1, PushFacts, SMTT(30)
      <3> QED
        BY <3>1, <2>1
    <2>2. CASE p = o /\ i # 1
      <3>1. i \in 2 .. Len(M[o])
        BY <2>2, <1>1
      <3> QED
        BY <3>1, <2>2, PushFacts
    <2> QED
      BY <2>1, <2>2
  <1>3. \A p, q \in Orders : \A i \in 1 .. Len(M[p]), j \in 1 .. Len(M[q]) :
            Src(p, i) = Src(q, j) /\ p = q => i = j
    BY <1>1
  <1>4. ASSUME ListsApart(L), ListsApartFrom(L, a, block_size(o)) PROVE ListsApart(M)
    <2> SUFFICES ASSUME NEW p \in Orders, NEW q \in Orders,
                        NEW i \in 1 .. Len(M[p]), NEW j \in 1 .. Len(M[q]), p # q \/ i # j
                 PROVE  Apart(M[p][i], block_size(p), M[q][j], block_size(q))
      BY DEF ListsApart
    <2>1. CASE p = o /\ i = 1
      <3>1. Src(q, j) \in 1 .. Len(L[q]) /\ M[q][j] = L[q][Src(q, j)]
        BY <2>1, <1>2
      <3> HIDE DEF Src
      <3> QED
        BY <3>1, <2>1, <1>1, <1>4 DEF ListsApartFrom, Apart
    <2>2. CASE q = o /\ j = 1
      <3>1. Src(p, i) \in 1 .. Len(L[p]) /\ M[p][i] = L[p][Src(p, i)]
        BY <2>2, <1>2
      <3> HIDE DEF Src
      <3> QED
        BY <3>1, <2>2, <1>1, <1>4 DEF ListsApartFrom, Apart
    <2>3. CASE ~(p = o /\ i = 1) /\ ~(q = o /\ j = 1)
      <3>1. /\ Src(q, j) \in 1 .. Len(L[q]) /\ M[q][j] = L[q][Src(q, j)]
            /\ Src(p, i) \in 1 .. Len(L[p]) /\ M[p][i] = L[p][Src(p, i)]
        BY <2>3, <1>2
      <3>2. p # q \/ Src(p, i) # Src(q, j)
        BY <1>3
      <3> HIDE DEF Src
      <3> QED
        BY <3>1, <3>2, <1>4 DEF ListsApart
    <2> QED
      BY <2>1, <2>2, <2>3
  <1> HIDE DEF Src
  <1>5. ASSUME ListsInHeap(L), InHeap(a, block_size(o)) PROVE ListsInHeap(M)
    BY <1>1, <1>2, <1>5 DEF ListsInHeap
  <1>6. ASSUME NEW b \in Nat, NEW n \in Nat,
               ListsApartFrom(L, b, n), Apart(a, block_size(o), b, n)
        PROVE  ListsApartFrom(M, b, n)
    BY <1>1, <1>2, <1>6 DEF ListsApartFrom
  <1> QED
    BY <1>1, <1>4, <1>5, <1>6

(***************************************************************************)
(* Lists that lack one block of L inherit what holds of L, and are apart   *)
(* from that block.  Src says where in L the i-th block of order p was.    *)
(***************************************************************************)
LEMMA SubListsKeep ==
    ASSUME NEW L \in [Orders -> Seq(Nat)], NEW M \in [Orders -> Seq(Nat)],
           NEW o \in Orders, NEW k \in Nat, SubLists(L, M, o, k)
    PROVE  /\ ListsApart(L) => ListsApart(M)
           /\ ListsInHeap(L) => ListsInHeap(M)
           /\ \A b, n \in Nat : ListsApartFrom(L, b, n) => ListsApartFrom(M, b, n)
           /\ ListsApart(L) /\ k \in 1 .. Len(L[o]) => ListsApartFrom(M, L[o][k], block_size(o))
  <1> DEFINE Src(p, i) == IF p = o /\ i >= k THEN i + 1 ELSE i
  <1>1. \A p \in Orders : \A i \in 1 .. Len(M[p]) :
            /\ Src(p, i) \in 1 .. Len(L[p]) /\ M[p][i] = L[p][Src(p, i)]
            /\ p = o => Src(p, i) # k
    BY DEF SubLists
  <1>2. \A p \in Orders : \A i, j \in 1 .. Len(M[p]) : Src(p, i) = Src(p, j) => i = j
    OBVIOUS
  <1> HIDE DEF Src
  <1>3. ASSUME ListsApart(L) PROVE ListsApart(M)
    <2> SUFFICES ASSUME NEW p \in Orders, NEW q \in Orders,
                        NEW i \in 1 .. Len(M[p]), NEW j \in 1 .. Len(M[q]), p # q \/ i # j
                 PROVE  Apart(M[p][i], block_size(p), M[q][j], block_size(q))
      BY DEF ListsApart
    <2>1. p # q \/ Src(p, i) # Src(q, j)
      BY <1>2
    <2> QED
      BY <2>1, <1>1, <1>3 DEF ListsApart
  <1>4. ASSUME ListsApart(L), k \in 1 .. Len(L[o])
        PROVE  ListsApartFrom(M, L[o][k], block_size(o))
    BY <1>1, <1>4 DEF ListsApart, ListsApartFrom
  <1> QED
    BY <1>1, <1>3, <1>4 DEF ListsInHeap, ListsApartFrom

(***************************************************************************)
(* Popping a block leaves lists that are apart from it.                    *)
(***************************************************************************)
LEMMA PopKeeps ==
    ASSUME NEW L \in [Orders -> Seq(Nat)], NEW o \in Orders, L[o] # << >>,
           NEW M, M = pop_free_block(L, o), ListsApart(L), ListsInHeap(L)
    PROVE  /\ M \in [Orders -> Seq(Nat)] /\ ListsApart(M) /\ ListsInHeap(M)
           /\ Head(L[o]) \in Nat
           /\ ListsApartFrom(M, Head(L[o]), block_size(o)) /\ InHeap(Head(L[o]), block_size(o))
           /\ \A b, n \in Nat : ListsApartFrom(L, b, n) =>
                    ListsApartFrom(M, b, n) /\ Apart(Head(L[o]), block_size(o), b, n)
  <1>1. /\ M \in [Orders -> Seq(Nat)]
        /\ 1 \in 1 .. Len(L[o]) /\ Head(L[o]) = L[o][1]
        /\ SubLists(L, M, o, 1)
    BY PopFacts
  <1>2. /\ ListsApart(M) /\ ListsInHeap(M) /\ ListsApartFrom(M, L[o][1], block_size(o))
        /\ \A b, n \in Nat : ListsApartFrom(L, b, n) => ListsApartFrom(M, b, n)
    BY <1>1, SubListsKeep
  <1>3. Head(L[o]) \in Nat
    BY <1>1
  <1> QED
    BY <1>1, <1>2, <1>3 DEF ListsInHeap, ListsApartFrom

(***************************************************************************)
(* So does unlinking a block.                                              *)
(***************************************************************************)
LEMMA RemoveKeeps ==
    ASSUME NEW L \in [Orders -> Seq(Nat)], NEW o \in Orders, NEW k \in 1 .. Len(L[o]),
           NEW M, M = remove_free_block(L, k, o), ListsApart(L), ListsInHeap(L)
    PROVE  /\ M \in [Orders -> Seq(Nat)] /\ ListsApart(M) /\ ListsInHeap(M)
           /\ L[o][k] \in Nat
           /\ ListsApartFrom(M, L[o][k], block_size(o)) /\ InHeap(L[o][k], block_size(o))
           /\ \A b, n \in Nat : ListsApartFrom(L, b, n) =>
                    ListsApartFrom(M, b, n) /\ Apart(L[o][k], block_size(o), b, n)
  <1>1. /\ M \in [Orders -> Seq(Nat)]
        /\ SubLists(L, M, o, k)
        /\ k \in Nat
    BY RemoveFacts
  <1>2. /\ ListsApart(M) /\ ListsInHeap(M) /\ ListsApartFrom(M, L[o][k], block_size(o))
        /\ \A b, n \in Nat : ListsApartFrom(L, b, n) => ListsApartFrom(M, b, n)
    BY <1>1, SubListsKeep
  <1>3. L[o][k] \in Nat
    OBVIOUS
  <1> QED
    BY <1>1, <1>2, <1>3 DEF ListsInHeap, ListsApartFrom

(***************************************************************************)
(* What is apart from a range is apart from every part of it, and what is  *)
(* apart from two adjacent ranges is apart from their union.               *)
(***************************************************************************)
LEMMA Ranges ==
    ASSUME NEW L \in [Orders -> Seq(Nat)], NEW b \in Nat, NEW n \in Nat
    PROVE  /\ \A c, m \in Nat : /\ ListsApartFrom(L, b, n) /\ b <= c /\ c + m <= b + n
                              => ListsApartFrom(L, c, m)
           /\ ListsApartFrom(L, b, n) /\ ListsApartFrom(L, b + n, n) => ListsApartFrom(L, b, 2 * n)
  <1>1. \A o \in Orders : \A i \in 1 .. Len(L[o]) :
            L[o][i] \in Nat /\ block_size(o) \in Nat /\ block_size(o) > 0
    BY BlockSizes
  <1>2. ASSUME NEW c \in Nat, NEW m \in Nat, ListsApartFrom(L, b, n), b <= c, c + m <= b + n
        PROVE  ListsApartFrom(L, c, m)
    BY <1>1, <1>2 DEF ListsApartFrom, Apart
  <1>3. ASSUME ListsApartFrom(L, b, n), ListsApartFrom(L, b + n, n)
        PROVE  ListsApartFrom(L, b, 2 * n)
    BY <1>1, <1>3 DEF ListsApartFrom, Apart
  <1> QED
    BY <1>2, <1>3

(***************************************************************************)
(* A non-empty range that is apart from two adjacent ranges of the same    *)
(* length is apart from their union.                                       *)
(***************************************************************************)
LEMMA ApartJoin ==
    ASSUME NEW a \in Nat, NEW n \in Nat, n > 0, NEW c \in Nat, NEW m \in Nat,
           Apart(a, n, c, m), Apart(a, n, c + m, m)
    PROVE  Apart(a, n, c, 2 * m)
  BY DEF Apart

-----------------------------------------------------------------------------
(* The inductive invariant *)

(***************************************************************************)
(* The address and the block size of what clients hold are numbers.        *)
(***************************************************************************)
LEMMA LiveTypes ==
    ASSUME TypeOK, NEW x \in live, NEW o \in order_for_layout(x.layout)
    PROVE  /\ x.addr \in Nat /\ x.layout \in Layouts
           /\ o \in Orders /\ block_size(o) \in Nat
  <1>1. x.addr \in Nat /\ x.layout \in Layouts
    BY DEF TypeOK
  <1> QED
    BY <1>1, OrderUnique, BlockSizes

(***************************************************************************)
(* NoOverlap alone is not inductive: a step of a call preserves it only    *)
(* because of what the call established when it took the lock.  Before     *)
(* init there is nothing live, and while a block is split its order is not *)
(* below the order asked for.                                              *)
(***************************************************************************)
CallOK ==
    /\ ~initialized => live = {} /\ pc \in {"idle", "init"}
    /\ pc = "init" => ~initialized
    /\ pc = "split" => layout \in Layouts /\ \E w \in order_for_layout(layout) : w <= order

Inv == TypeOK /\ CallOK /\ NoOverlap

(***************************************************************************)
(* The invariant holds of the state BuddyAllocator::new makes.             *)
(***************************************************************************)
LEMMA InitInv == Init => Inv
  <1> SUFFICES ASSUME Init PROVE Inv
    OBVIOUS
  <1>1. TypeOK
    <2>1. MIN_ORDER \in Orders
      BY OrderAssumption DEF Orders
    <2>2. free_lists \in [Orders -> Seq(Nat)]
      BY DEF Init
    <2> QED
      BY <2>1, <2>2 DEF Init, TypeOK
  <1>2. CallOK
    BY DEF Init, CallOK
  <1>3. NoOverlap
    BY DEF Init, NoOverlap, ListsApart, ListsInHeap, FreeApartFromLive, LiveApart, LiveInHeap
  <1> QED
    BY <1>1, <1>2, <1>3 DEF Inv

(***************************************************************************)
(* init takes the lock: the lists are empty and the whole heap is unseeded.*)
(***************************************************************************)
LEMMA BeginInitInv == Inv /\ BeginInit => Inv'
  <1> SUFFICES ASSUME Inv, BeginInit PROVE Inv'
    OBVIOUS
  <1> USE DEF BeginInit, Idle
  <1>1. live = {} /\ live' = {}
    BY DEF Inv, CallOK
  <1>2. largest_order_for(HEAP_SIZE) \in Orders
    BY OrderAssumption DEF largest_order_for, Orders
  <1>3. TypeOK'
    BY <1>1, <1>2, RangeAssumption, HeapAssumption DEF Inv, TypeOK
  <1>4. CallOK'
    BY <1>1 DEF CallOK
  <1>5. ListsApart(free_lists)' /\ ListsInHeap(free_lists)'
    BY DEF ListsApart, ListsInHeap
  <1>6. HeldApart'
    BY <1>1, RangeAssumption, HeapAssumption DEF HeldApart, HeldSize, ListsApartFrom, InHeap, HEAP_END
  <1> QED
    BY <1>1, <1>3, <1>4, <1>5, <1>6
    DEF Inv, NoOverlap, FreeApartFromLive, LiveApart, LiveInHeap

(***************************************************************************)
(* Seeding one block moves it from the unseeded range to its list.         *)
(***************************************************************************)
LEMMA SeedBlockInv == Inv /\ SeedBlock => Inv'
  <1> SUFFICES ASSUME Inv, SeedBlock PROVE Inv'
    OBVIOUS
  <1> USE DEF SeedBlock
  <1>1. PICK o \in MIN_ORDER .. max_order :
            /\ block_size(o) <= remaining
            /\ free_lists' = push_free_block(free_lists, addr, o)
            /\ addr' = addr + block_size(o)
            /\ remaining' = remaining - block_size(o)
    BY DEF SeedFits
  <1>2. TypeOK /\ CallOK /\ NoOverlap /\ pc = "init" /\ HeldApart /\ HeldSize = remaining
    BY DEF Inv, NoOverlap, HeldSize
  <1>3. o \in Orders /\ block_size(o) \in Nat /\ block_size(o) > 0
    BY <1>2, BlockSizes, OrderAssumption DEF TypeOK, Orders
  <1>4. addr \in Nat /\ remaining \in Nat /\ free_lists \in [Orders -> Seq(Nat)]
    BY <1>2 DEF TypeOK
  <1>5. live' = live /\ live = {}
    BY <1>2 DEF CallOK
  <1>6. TypeOK'
    <2>1. free_lists' \in [Orders -> Seq(Nat)]
      BY <1>1, <1>3, <1>4, PushKeeps
    <2>2. addr' \in Nat /\ remaining' \in Nat
      BY <1>1, <1>3, <1>4
    <2> QED
      BY <2>1, <2>2, <1>2 DEF TypeOK
  <1>7. CallOK'
    BY <1>2, <1>5 DEF CallOK
  <1>8. ListsApartFrom(free_lists, addr, block_size(o)) /\ InHeap(addr, block_size(o))
    <2>1. ListsApartFrom(free_lists, addr, remaining) /\ InHeap(addr, remaining)
      BY <1>2 DEF HeldApart
    <2>2. ListsApartFrom(free_lists, addr, block_size(o))
      BY <2>1, <1>1, <1>3, <1>4, Ranges
    <2>3. InHeap(addr, block_size(o))
      BY <2>1, <1>1, <1>3, <1>4, RangeAssumption, HeapAssumption DEF InHeap, HEAP_END
    <2> QED
      BY <2>2, <2>3
  <1>9. ListsApart(free_lists') /\ ListsInHeap(free_lists')
    BY <1>1, <1>2, <1>3, <1>4, <1>8, PushKeeps DEF NoOverlap
  <1>10. HeldApart'
    <2>1. HeldSize' = remaining - block_size(o) /\ addr' \in Nat /\ HeldSize' \in Nat
      BY <1>1, <1>2, <1>3, <1>4 DEF HeldSize
    <2>2. ListsApartFrom(free_lists, addr', HeldSize')
      <3>1. ListsApartFrom(free_lists, addr, remaining)
        BY <1>2 DEF HeldApart
      <3>2. addr <= addr' /\ addr' + HeldSize' <= addr + remaining
        BY <2>1, <1>1, <1>3, <1>4
      <3> QED
        BY <3>1, <3>2, <2>1, <1>4, Ranges
    <2>3. Apart(addr, block_size(o), addr', HeldSize')
      BY <1>1, <1>3, <1>4 DEF Apart
    <2>4. ListsApartFrom(free_lists', addr', HeldSize')
      BY <2>1, <2>2, <2>3, <1>1, <1>3, <1>4, PushKeeps
    <2>5. InHeap(addr', HeldSize')
      BY <2>1, <1>1, <1>2, <1>3, <1>4, RangeAssumption, HeapAssumption DEF HeldApart, InHeap, HEAP_END
    <2> QED
      BY <2>4, <2>5, <1>5 DEF HeldApart
  <1> QED
    BY <1>5, <1>6, <1>7, <1>9, <1>10
    DEF Inv, NoOverlap, FreeApartFromLive, LiveApart, LiveInHeap

(***************************************************************************)
(* init releases the lock.                                                 *)
(***************************************************************************)
LEMMA EndInitInv == Inv /\ EndInit => Inv'
  <1> SUFFICES ASSUME Inv, EndInit PROVE Inv'
    OBVIOUS
  <1> USE DEF EndInit, Return
  <1>1. MIN_ORDER \in Orders
    BY OrderAssumption DEF Orders
  <1>2. TypeOK'
    BY <1>1 DEF Inv, TypeOK
  <1>3. CallOK'
    BY DEF CallOK
  <1> QED
    BY <1>2, <1>3
    DEF Inv, NoOverlap, FreeApartFromLive, LiveApart, LiveInHeap

(***************************************************************************)
(* alloc pops a block: it belongs to the call now and to no list.          *)
(***************************************************************************)
LEMMA BeginAllocInv ==
    ASSUME NEW l \in Layouts, Inv, BeginAlloc(l)
    PROVE  Inv'
  <1> USE DEF BeginAlloc, Idle
  <1>0. PICK want \in order_for_layout(l) : \E k \in want .. max_order :
            /\ free_lists[k] # << >>
            /\ addr' = Head(free_lists[k])
            /\ order' = k
            /\ free_lists' = pop_free_block(free_lists, k)
    OBVIOUS
  <1>1. PICK k \in want .. max_order :
            /\ free_lists[k] # << >>
            /\ addr' = Head(free_lists[k])
            /\ order' = k
            /\ free_lists' = pop_free_block(free_lists, k)
    BY <1>0
  <1>2. TypeOK /\ CallOK /\ NoOverlap
    BY DEF Inv
  <1>3. want \in Orders /\ k \in Orders /\ want <= k
    BY <1>1, <1>2, OrderUnique, OrderAssumption DEF TypeOK, Orders
  <1>4. block_size(k) \in Nat /\ free_lists \in [Orders -> Seq(Nat)]
    BY <1>2, <1>3, BlockSizes DEF TypeOK
  <1>5. /\ free_lists' \in [Orders -> Seq(Nat)]
        /\ ListsApart(free_lists') /\ ListsInHeap(free_lists')
        /\ addr' \in Nat
        /\ ListsApartFrom(free_lists', addr', block_size(k)) /\ InHeap(addr', block_size(k))
        /\ \A b, n \in Nat : ListsApartFrom(free_lists, b, n) =>
                ListsApartFrom(free_lists', b, n) /\ Apart(addr', block_size(k), b, n)
    BY <1>1, <1>2, <1>3, <1>4, PopKeeps DEF NoOverlap
  <1>6. TypeOK'
    BY <1>1, <1>2, <1>3, <1>5 DEF TypeOK
  <1>7. CallOK'
    BY <1>1, <1>2, <1>3 DEF CallOK
  <1>8. \A x \in live : \A o \in order_for_layout(x.layout) :
            /\ x.addr \in Nat /\ block_size(o) \in Nat
            /\ ListsApartFrom(free_lists', x.addr, block_size(o))
            /\ Apart(addr', block_size(k), x.addr, block_size(o))
    <2> TAKE x \in live
    <2> TAKE o \in order_for_layout(x.layout)
    <2>1. x.addr \in Nat /\ block_size(o) \in Nat
      BY <1>2, LiveTypes
    <2>2. ListsApartFrom(free_lists, x.addr, block_size(o))
      BY <1>2 DEF NoOverlap, FreeApartFromLive
    <2> QED
      BY <2>1, <2>2, <1>5
  <1>9. FreeApartFromLive' /\ LiveApart' /\ LiveInHeap'
    BY <1>2, <1>8 DEF NoOverlap, FreeApartFromLive, LiveApart, LiveInHeap
  <1>10. HeldApart'
    <2>1. HeldSize' = block_size(k)
      BY <1>1 DEF HeldSize
    <2> QED
      BY <2>1, <1>5, <1>8, <1>4 DEF HeldApart, Apart
  <1> QED
    BY <1>5, <1>6, <1>7, <1>9, <1>10 DEF Inv, NoOverlap

(***************************************************************************)
(* Splitting gives the upper half of the call's block to the lists.        *)
(***************************************************************************)
LEMMA SplitBlockInv == Inv /\ SplitBlock => Inv'
  <1> SUFFICES ASSUME Inv, SplitBlock PROVE Inv'
    OBVIOUS
  <1> USE DEF SplitBlock
  <1> DEFINE q == order - 1
             s == block_size(q)
             up == addr + s
  <1>1. TypeOK /\ CallOK /\ NoOverlap /\ HeldApart /\ HeldSize = block_size(order)
    BY DEF Inv, NoOverlap, HeldSize
  <1>2. PICK w \in order_for_layout(layout) : w <= order /\ layout \in Layouts
    BY <1>1 DEF CallOK
  <1>3. w \in Orders /\ w < order /\ order \in Orders
    BY <1>1, <1>2, OrderUnique, BlockSizes DEF TypeOK
  <1>4. q \in Orders /\ w <= q /\ q + 1 = order
    BY <1>3, OrderAssumption DEF Orders
  <1>5. s \in Nat /\ s > 0 /\ block_size(order) = 2 * s
    BY <1>3, <1>4, BlockSizes
  <1>6. addr \in Nat /\ free_lists \in [Orders -> Seq(Nat)]
    BY <1>1 DEF TypeOK
  <1>7. free_lists' = push_free_block(free_lists, up, q) /\ up \in Nat /\ order' = q
    BY <1>5, <1>6
  <1>8. /\ ListsApartFrom(free_lists, up, s) /\ InHeap(up, s)
        /\ ListsApartFrom(free_lists, addr, s) /\ InHeap(addr, s)
    <2>1. ListsApartFrom(free_lists, addr, 2 * s) /\ InHeap(addr, 2 * s)
      BY <1>1, <1>5 DEF HeldApart
    <2>2. ListsApartFrom(free_lists, up, s) /\ ListsApartFrom(free_lists, addr, s)
      BY <2>1, <1>5, <1>6, <1>7, Ranges
    <2>3. InHeap(up, s) /\ InHeap(addr, s)
      BY <2>1, <1>5, <1>6, RangeAssumption, HeapAssumption DEF InHeap, HEAP_END
    <2> QED
      BY <2>2, <2>3
  <1>9. TypeOK'
    <2>1. free_lists' \in [Orders -> Seq(Nat)]
      BY <1>4, <1>6, <1>7, PushKeeps
    <2> QED
      BY <2>1, <1>1, <1>4, <1>7 DEF TypeOK
  <1>10. CallOK'
    BY <1>1, <1>2, <1>4, <1>7 DEF CallOK
  <1>11. ListsApart(free_lists') /\ ListsInHeap(free_lists')
    BY <1>1, <1>4, <1>6, <1>7, <1>8, PushKeeps DEF NoOverlap
  <1>12. \A x \in live : \A o \in order_for_layout(x.layout) :
            /\ ListsApartFrom(free_lists', x.addr, block_size(o))
            /\ Apart(x.addr, block_size(o), addr, s)
    <2> TAKE x \in live
    <2> TAKE o \in order_for_layout(x.layout)
    <2>1. x.addr \in Nat /\ block_size(o) \in Nat
      BY <1>1, LiveTypes
    <2>2. ListsApartFrom(free_lists, x.addr, block_size(o))
      BY <1>1 DEF NoOverlap, FreeApartFromLive
    <2>3. Apart(x.addr, block_size(o), addr, 2 * s)
      BY <1>1, <1>5 DEF HeldApart
    <2>4. Apart(x.addr, block_size(o), addr, s) /\ Apart(up, s, x.addr, block_size(o))
      BY <2>1, <2>3, <1>5, <1>6 DEF Apart
    <2> QED
      BY <2>1, <2>2, <2>4, <1>4, <1>6, <1>7, PushKeeps
  <1>13. FreeApartFromLive' /\ LiveApart' /\ LiveInHeap'
    BY <1>1, <1>12 DEF NoOverlap, FreeApartFromLive, LiveApart, LiveInHeap
  <1>14. HeldApart'
    <2>1. HeldSize' = s /\ addr' = addr
      BY <1>7 DEF HeldSize
    <2>2. ListsApartFrom(free_lists', addr, s)
      <3>1. Apart(up, s, addr, s)
        BY <1>5, <1>6 DEF Apart
      <3>2. \A b, n \in Nat :
                ListsApartFrom(free_lists, b, n) /\ Apart(up, s, b, n) => ListsApartFrom(free_lists', b, n)
        BY <1>4, <1>6, <1>7, PushKeeps, SMTT(30)
      <3> QED
        BY <3>1, <3>2, <1>5, <1>6, <1>8
    <2> QED
      BY <2>1, <2>2, <1>8, <1>12 DEF HeldApart
  <1> QED
    BY <1>9, <1>10, <1>11, <1>13, <1>14 DEF Inv, NoOverlap

(***************************************************************************)
(* alloc returns: the block of the call becomes its caller's.              *)
(***************************************************************************)
LEMMA EndAllocInv == Inv /\ EndAlloc => Inv'
  <1> SUFFICES ASSUME Inv, EndAlloc PROVE Inv'
    OBVIOUS
  <1> USE DEF EndAlloc, Return
  <1> DEFINE z == [addr |-> addr, layout |-> layout]
  <1>1. TypeOK /\ CallOK /\ NoOverlap /\ HeldApart /\ HeldSize = block_size(order)
    BY DEF Inv, NoOverlap, HeldSize
  <1>2. layout \in Layouts /\ order \in order_for_layout(layout) /\ addr \in Nat
    BY <1>1 DEF CallOK, TypeOK
  <1>3. \A o \in order_for_layout(z.layout) : o = order
    BY <1>2, OrderUnique
  <1>4. live' = live \cup {z} /\ z.addr = addr /\ z.layout = layout
    OBVIOUS
  <1>5. MIN_ORDER \in Orders
    BY OrderAssumption DEF Orders
  <1>6. TypeOK'
    <2>1. live' \subseteq [addr : Nat, layout : Layouts]
      BY <1>1, <1>2 DEF TypeOK
    <2> QED
      BY <2>1, <1>1, <1>5 DEF TypeOK
  <1>7. CallOK'
    BY <1>1 DEF CallOK
  <1> HIDE DEF z
  <1>8. FreeApartFromLive'
    BY <1>1, <1>3, <1>4 DEF NoOverlap, FreeApartFromLive, HeldApart
  <1>9. LiveInHeap'
    BY <1>1, <1>3, <1>4 DEF NoOverlap, LiveInHeap, HeldApart
  <1>10. LiveApart'
    <2> SUFFICES ASSUME NEW x \in live', NEW y \in live', x # y,
                        NEW o \in order_for_layout(x.layout), NEW p \in order_for_layout(y.layout)
                 PROVE  Apart(x.addr, block_size(o), y.addr, block_size(p))
      BY DEF LiveApart
    <2>1. CASE x \in live /\ y \in live
      BY <2>1, <1>1 DEF NoOverlap, LiveApart
    <2>2. CASE x \in live /\ y = z
      BY <2>2, <1>1, <1>3, <1>4 DEF HeldApart
    <2>3. CASE x = z /\ y \in live
      BY <2>3, <1>1, <1>3, <1>4 DEF HeldApart, Apart
    <2> QED
      BY <2>1, <2>2, <2>3, <1>4
  <1> QED
    BY <1>1, <1>6, <1>7, <1>8, <1>9, <1>10 DEF Inv, NoOverlap

(***************************************************************************)
(* dealloc takes the lock: the caller's block becomes the call's.          *)
(***************************************************************************)
LEMMA BeginDeallocInv ==
    ASSUME NEW x \in live, Inv, BeginDealloc(x)
    PROVE  Inv'
  <1> USE DEF BeginDealloc, Idle
  <1>1. TypeOK /\ CallOK /\ NoOverlap
    BY DEF Inv
  <1>2. order' \in Orders /\ x.addr \in Nat
    BY <1>1, LiveTypes
  <1>3. TypeOK'
    BY <1>1, <1>2 DEF TypeOK
  <1>4. CallOK'
    BY <1>1 DEF CallOK
  <1>5. FreeApartFromLive' /\ LiveApart' /\ LiveInHeap'
    BY <1>1 DEF NoOverlap, FreeApartFromLive, LiveApart, LiveInHeap
  <1>6. HeldApart'
    <2>1. HeldSize' = block_size(order')
      BY DEF HeldSize
    <2>2. ListsApartFrom(free_lists, x.addr, block_size(order')) /\ InHeap(x.addr, block_size(order'))
      BY <1>1 DEF NoOverlap, FreeApartFromLive, LiveInHeap
    <2>3. \A y \in live \ {x} : \A p \in order_for_layout(y.layout) :
            Apart(y.addr, block_size(p), x.addr, block_size(order'))
      BY <1>1 DEF NoOverlap, LiveApart
    <2> QED
      BY <2>1, <2>2, <2>3 DEF HeldApart
  <1> QED
    BY <1>1, <1>3, <1>4, <1>5, <1>6 DEF Inv, NoOverlap

(***************************************************************************)
(* The buddy of a block is adjacent to it, so a merged block is exactly    *)
(* the two blocks it came from, wherever the heap starts.                  *)
(***************************************************************************)
LEMMA BuddyAdjacent ==
    ASSUME NEW a \in Nat, NEW o \in Orders
    PROVE  buddy_of(a, o) = a + block_size(o) \/ buddy_of(a, o) = a - block_size(o)
  BY DEF buddy_of

(***************************************************************************)
(* Merging moves the buddy from its list to the call's block.              *)
(***************************************************************************)
LEMMA MergeBuddyInv == Inv /\ MergeBuddy => Inv'
  <1> SUFFICES ASSUME Inv, MergeBuddy PROVE Inv'
    OBVIOUS
  <1> DEFINE s == block_size(order)
             b == buddy_of(addr, order)
  <1>0. /\ pc = "merge" /\ order < max_order /\ order' = order + 1
        /\ addr' = IF addr <= b THEN addr ELSE b
        /\ UNCHANGED <<max_order, initialized, pc, remaining, layout, live, refused>>
    BY DEF MergeBuddy, CanMerge
  <1>1. PICK i \in 1 .. Len(free_lists[order]) :
            /\ free_lists[order][i] = b
            /\ free_lists' = remove_free_block(free_lists, i, order)
    BY DEF MergeBuddy, BuddyIndex
  <1>2. TypeOK /\ CallOK /\ NoOverlap /\ HeldApart /\ HeldSize = s
    BY <1>0 DEF Inv, NoOverlap, HeldSize
  <1>3. /\ order \in Orders /\ max_order \in Orders /\ addr \in Nat
        /\ free_lists \in [Orders -> Seq(Nat)]
    BY <1>2 DEF TypeOK
  <1>4. order + 1 \in Orders
    BY <1>0, <1>3, OrderAssumption DEF Orders
  <1>5. s \in Nat /\ s > 0 /\ block_size(order + 1) = 2 * s
    BY <1>3, <1>4, BlockSizes
  <1>6. /\ free_lists' \in [Orders -> Seq(Nat)]
        /\ ListsApart(free_lists') /\ ListsInHeap(free_lists')
        /\ b \in Nat
        /\ ListsApartFrom(free_lists', b, s) /\ InHeap(b, s)
        /\ \A c, n \in Nat : ListsApartFrom(free_lists, c, n) =>
                ListsApartFrom(free_lists', c, n) /\ Apart(b, s, c, n)
    <2>1. ListsApart(free_lists) /\ ListsInHeap(free_lists)
      BY <1>2 DEF NoOverlap
    <2> QED
      BY <2>1, <1>1, <1>3, RemoveKeeps, SMTT(30)
  <1>7. (addr' = addr /\ b = addr + s) \/ (addr' = b /\ addr = b + s)
    BY <1>0, <1>3, <1>5, <1>6, BuddyAdjacent, SMTT(30)
  <1>8. order' = order + 1 /\ addr' \in Nat /\ HeldSize' = 2 * s
    BY <1>0, <1>3, <1>5, <1>6, <1>7 DEF HeldSize
  <1>9. TypeOK'
    BY <1>0, <1>2, <1>4, <1>6, <1>8 DEF TypeOK
  <1>10. CallOK'
    BY <1>0, <1>2 DEF CallOK
  <1> HIDE DEF s, b
  <1>11. ListsApartFrom(free_lists', addr, s) /\ InHeap(addr, s)
    BY <1>2, <1>3, <1>5, <1>6 DEF HeldApart
  <1>12. ListsApartFrom(free_lists', addr', 2 * s)
    <2>1. ListsApartFrom(free_lists', addr', s) /\ ListsApartFrom(free_lists', addr' + s, s)
      BY <1>6, <1>7, <1>11
    <2> QED
      BY <2>1, <1>5, <1>6, <1>8, Ranges
  <1>13. InHeap(addr', 2 * s)
    BY <1>3, <1>5, <1>6, <1>7, <1>11, RangeAssumption, HeapAssumption, SMTT(30) DEF InHeap, HEAP_END
  <1>14. \A x \in live : \A o \in order_for_layout(x.layout) :
            /\ ListsApartFrom(free_lists', x.addr, block_size(o))
            /\ Apart(x.addr, block_size(o), addr', 2 * s)
    <2> TAKE x \in live
    <2> TAKE o \in order_for_layout(x.layout)
    <2>1. x.addr \in Nat /\ block_size(o) \in Nat /\ block_size(o) > 0
      BY <1>2, LiveTypes, BlockSizes
    <2>2. ListsApartFrom(free_lists, x.addr, block_size(o))
      BY <1>2 DEF NoOverlap, FreeApartFromLive
    <2>3. ListsApartFrom(free_lists', x.addr, block_size(o)) /\ Apart(b, s, x.addr, block_size(o))
      BY <2>1, <2>2, <1>6
    <2>4. Apart(x.addr, block_size(o), addr, s)
      BY <1>2 DEF HeldApart
    <2>5. Apart(x.addr, block_size(o), addr', s) /\ Apart(x.addr, block_size(o), addr' + s, s)
      BY <2>3, <2>4, <1>7 DEF Apart
    <2>6. Apart(x.addr, block_size(o), addr', 2 * s)
      BY <2>1, <2>5, <1>5, <1>8, ApartJoin
    <2> QED
      BY <2>3, <2>6
  <1>15. FreeApartFromLive' /\ LiveApart' /\ LiveInHeap'
    BY <1>0, <1>2, <1>14 DEF NoOverlap, FreeApartFromLive, LiveApart, LiveInHeap
  <1>16. HeldApart'
    BY <1>0, <1>8, <1>12, <1>13, <1>14 DEF HeldApart
  <1> QED
    BY <1>6, <1>9, <1>10, <1>15, <1>16 DEF Inv, NoOverlap

(***************************************************************************)
(* dealloc returns: the merged block goes onto its list.                   *)
(***************************************************************************)
LEMMA EndDeallocInv == Inv /\ EndDealloc => Inv'
  <1> SUFFICES ASSUME Inv, EndDealloc PROVE Inv'
    OBVIOUS
  <1> USE DEF EndDealloc, Return
  <1>1. TypeOK /\ CallOK /\ NoOverlap /\ HeldApart /\ HeldSize = block_size(order)
    BY DEF Inv, NoOverlap, HeldSize
  <1>2. /\ order \in Orders /\ addr \in Nat /\ free_lists \in [Orders -> Seq(Nat)]
        /\ MIN_ORDER \in Orders /\ block_size(order) \in Nat
    BY <1>1, OrderAssumption, BlockSizes DEF TypeOK, Orders
  <1>3. /\ free_lists' \in [Orders -> Seq(Nat)]
        /\ ListsApart(free_lists') /\ ListsInHeap(free_lists')
        /\ \A c, n \in Nat :
                ListsApartFrom(free_lists, c, n) /\ Apart(addr, block_size(order), c, n)
                    => ListsApartFrom(free_lists', c, n)
    BY <1>1, <1>2, PushKeeps DEF NoOverlap, HeldApart
  <1>4. TypeOK'
    BY <1>1, <1>2, <1>3 DEF TypeOK
  <1>5. CallOK'
    BY <1>1 DEF CallOK
  <1>6. FreeApartFromLive'
    <2> SUFFICES ASSUME NEW x \in live, NEW o \in order_for_layout(x.layout)
                 PROVE  ListsApartFrom(free_lists', x.addr, block_size(o))
      BY DEF FreeApartFromLive
    <2>1. x.addr \in Nat /\ block_size(o) \in Nat
      BY <1>1, LiveTypes
    <2>2. ListsApartFrom(free_lists, x.addr, block_size(o))
      BY <1>1 DEF NoOverlap, FreeApartFromLive
    <2>3. Apart(addr, block_size(order), x.addr, block_size(o))
      BY <1>1 DEF HeldApart, Apart
    <2> QED
      BY <2>1, <2>2, <2>3, <1>3
  <1> QED
    BY <1>1, <1>3, <1>4, <1>5, <1>6 DEF Inv, NoOverlap, LiveApart, LiveInHeap

(***************************************************************************)
(* Every step of the allocator preserves the invariant.                    *)
(***************************************************************************)
LEMMA NextInv == Inv /\ [Next]_vars => Inv'
  <1> SUFFICES ASSUME Inv, [Next]_vars PROVE Inv'
    OBVIOUS
  <1>1. CASE BeginInit
    BY <1>1, BeginInitInv
  <1>2. ASSUME NEW l \in Layouts, BeginAlloc(l) PROVE Inv'
    BY <1>2, BeginAllocInv
  <1>3. ASSUME NEW l \in Layouts, AllocNull(l) PROVE Inv'
    BY <1>3
    DEF AllocNull, Inv, TypeOK, CallOK, NoOverlap, FreeApartFromLive, LiveApart, LiveInHeap,
        HeldApart, HeldSize
  <1>4. ASSUME NEW x \in live, BeginDealloc(x) PROVE Inv'
    BY <1>4, BeginDeallocInv
  <1>5. CASE Step
    BY <1>5, SeedBlockInv, EndInitInv, SplitBlockInv, EndAllocInv, MergeBuddyInv, EndDeallocInv
    DEF Step
  <1>6. CASE UNCHANGED vars
    BY <1>6
    DEF vars, Inv, TypeOK, CallOK, NoOverlap, FreeApartFromLive, LiveApart, LiveInHeap,
        HeldApart, HeldSize
  <1> QED
    BY <1>1, <1>2, <1>3, <1>4, <1>5, <1>6 DEF Next

-----------------------------------------------------------------------------
(* Theorems *)

(***************************************************************************)
(* The fields of the allocator and the locals of its calls keep their      *)
(* types: in particular no loop leaves the range of orders that free_lists *)
(* is indexed with, and no address or remainder becomes negative.          *)
(***************************************************************************)
THEOREM TypeCorrect == Spec => []TypeOK
  <1>1. Inv => TypeOK
    BY DEF Inv
  <1> QED
    BY <1>1, InitInv, NextInv, PTL DEF Spec

(***************************************************************************)
(* No byte of the heap ever has two owners, for every heap range (aligned  *)
(* to its blocks or not), every range of orders and all layouts: blocks on *)
(* the free lists, blocks of clients and the block of the call in progress *)
(* are pairwise disjoint and inside the heap.                              *)
(***************************************************************************)
THEOREM MemorySafe == Spec => []NoOverlap
  <1>1. Inv => NoOverlap
    BY DEF Inv
  <1> QED
    BY <1>1, InitInv, NextInv, PTL DEF Spec

-----------------------------------------------------------------------------
(* Multiples *)

(***************************************************************************)
(* The quotient and the remainder of a division are unique.                *)
(***************************************************************************)
LEMMA DivisionUnique ==
    ASSUME NEW n \in Nat \ {0}, NEW q \in Int, NEW r \in 0 .. n - 1
    PROVE  (q * n + r) % n = r /\ (q * n + r) \div n = q
  <1> DEFINE a == q * n + r
             d == a \div n
             m == a % n
  <1>1. a \in Int /\ q * n \in Int
    OBVIOUS
  <1> HIDE DEF a
  <1>2. d \in Int /\ m \in 0 .. n - 1 /\ a = n * d + m
    BY <1>1
  <1> HIDE DEF d, m
  <1>3. d * n \in Int /\ n * d = d * n
    BY <1>2
  <1>4. ASSUME d + 1 <= q PROVE FALSE
    <2>1. (d + 1) * n <= q * n /\ (d + 1) * n = d * n + n
      BY <1>2, <1>4
    <2> QED
      BY <1>1, <1>2, <1>3, <2>1 DEF a
  <1>5. ASSUME q + 1 <= d PROVE FALSE
    <2>1. (q + 1) * n <= d * n /\ (q + 1) * n = q * n + n
      BY <1>2, <1>5
    <2> QED
      BY <1>1, <1>2, <1>3, <2>1 DEF a
  <1>6. d = q
    BY <1>2, <1>4, <1>5
  <1>7. m = r
    BY <1>1, <1>2, <1>3, <1>6 DEF a
  <1> QED
    BY <1>6, <1>7 DEF a, d, m

(***************************************************************************)
(* What leaves no remainder is a multiple.                                 *)
(***************************************************************************)
LEMMA IsMultiple ==
    ASSUME NEW n \in Nat \ {0}, NEW a \in Int
    PROVE  /\ a % n = 0 => \E q \in Int : a = q * n
           /\ \A q \in Int : a = q * n => a % n = 0
  <1>1. ASSUME a % n = 0 PROVE \E q \in Int : a = q * n
    <2>1. a \div n \in Int /\ a = n * (a \div n) + (a % n)
      OBVIOUS
    <2>2. n * (a \div n) = (a \div n) * n
      BY <2>1
    <2>3. a = (a \div n) * n
      BY <1>1, <2>1, <2>2
    <2> QED
      BY <2>1, <2>3
  <1>2. ASSUME NEW q \in Int, a = q * n PROVE a % n = 0
    <2>1. q * n + 0 = a
      BY <1>2
    <2>2. 0 \in 0 .. n - 1
      OBVIOUS
    <2>3. (q * n + 0) % n = 0
      BY <2>2, DivisionUnique
    <2> QED
      BY <2>1, <2>3
  <1> QED
    BY <1>1, <1>2

(***************************************************************************)
(* Sums and differences of multiples are multiples.                        *)
(***************************************************************************)
LEMMA SumMultiple ==
    ASSUME NEW n \in Nat \ {0}, NEW a \in Int, NEW b \in Int, a % n = 0, b % n = 0
    PROVE  (a + b) % n = 0 /\ (a - b) % n = 0
  <1>1. PICK p \in Int : a = p * n
    BY IsMultiple
  <1>2. PICK q \in Int : b = q * n
    BY IsMultiple
  <1>3. a + b = (p + q) * n /\ a - b = (p - q) * n
    BY <1>1, <1>2
  <1>4. a + b \in Int /\ a - b \in Int /\ p + q \in Int /\ p - q \in Int
    OBVIOUS
  <1> QED
    BY <1>3, <1>4, IsMultiple

-----------------------------------------------------------------------------
(* No byte is lost *)

\* Byte b is in a block of the lists L, of a client, or of the call in progress.
Listed(L, b) ==
    \E o \in Orders : \E i \in 1 .. Len(L[o]) : b \in L[o][i] .. L[o][i] + block_size(o) - 1
ClientHolds(b) ==
    \E x \in live : \E o \in order_for_layout(x.layout) : b \in x.addr .. x.addr + block_size(o) - 1
CallHolds(b) == b \in addr .. addr + HeldSize - 1
HasOwner(b) == Listed(free_lists, b) \/ ClientHolds(b) \/ CallHolds(b)

(***************************************************************************)
(* A push loses no listed byte and adds those of the block.                *)
(***************************************************************************)
LEMMA PushListed ==
    ASSUME NEW L \in [Orders -> Seq(Nat)], NEW a \in Nat, NEW o \in Orders,
           NEW M, M = push_free_block(L, a, o)
    PROVE  \A b : Listed(L, b) \/ b \in a .. a + block_size(o) - 1 => Listed(M, b)
  <1>0. Len(L[o]) \in Nat
    OBVIOUS
  <1>1. Len(M[o]) = Len(L[o]) + 1 /\ M[o][1] = a
    BY PushFacts
  <1>2a. ASSUME NEW i \in 2 .. Len(M[o]) PROVE M[o][i] = L[o][i - 1]
    BY PushFacts
  <1>2b. ASSUME NEW p \in Orders \ {o} PROVE M[p] = L[p]
    BY PushFacts
  <1> SUFFICES ASSUME NEW b, Listed(L, b) \/ b \in a .. a + block_size(o) - 1
               PROVE  Listed(M, b)
    OBVIOUS
  <1>2. CASE b \in a .. a + block_size(o) - 1
    <2>1. 1 \in 1 .. Len(M[o])
      BY <1>0, <1>1
    <2> QED
      BY <1>1, <1>2, <2>1 DEF Listed
  <1>3. ASSUME NEW p \in Orders, NEW i \in 1 .. Len(L[p]),
               b \in L[p][i] .. L[p][i] + block_size(p) - 1
        PROVE  Listed(M, b)
    <2>1. CASE p # o
      <3>1. M[p] = L[p]
        BY <1>2b, <2>1
      <3> QED
        BY <1>3, <3>1 DEF Listed
    <2>2. CASE p = o
      <3>1. i + 1 \in 2 .. Len(M[o]) /\ i + 1 \in 1 .. Len(M[o]) /\ (i + 1) - 1 = i
        BY <1>0, <1>1, <2>2
      <3>2. M[o][i + 1] = L[o][i]
        BY <1>2a, <3>1
      <3> QED
        BY <1>3, <2>2, <3>1, <3>2 DEF Listed
    <2> QED
      BY <2>1, <2>2
  <1> QED
    BY <1>2, <1>3 DEF Listed

(***************************************************************************)
(* Lists that lack the k-th block of order o list every byte outside it.   *)
(***************************************************************************)
LEMMA SubListed ==
    ASSUME NEW L \in [Orders -> Seq(Nat)], NEW M, NEW o \in Orders, NEW k \in 1 .. Len(L[o]),
           \A p \in Orders \ {o} : M[p] = L[p],
           Len(M[o]) = Len(L[o]) - 1,
           \A j \in 1 .. Len(L[o]) - 1 : M[o][j] = IF j < k THEN L[o][j] ELSE L[o][j + 1],
           NEW b, Listed(L, b), b \notin L[o][k] .. L[o][k] + block_size(o) - 1
    PROVE  Listed(M, b)
  <1>0. PICK p \in Orders : \E i \in 1 .. Len(L[p]) : b \in L[p][i] .. L[p][i] + block_size(p) - 1
    BY DEF Listed
  <1>1. PICK i \in 1 .. Len(L[p]) : b \in L[p][i] .. L[p][i] + block_size(p) - 1
    BY <1>0
  <1>2. CASE p # o
    <2>1. M[p] = L[p]
      BY <1>2
    <2> QED
      BY <1>1, <2>1 DEF Listed
  <1>3. CASE p = o
    <2> DEFINE j == IF i < k THEN i ELSE i - 1
    <2>1. i # k /\ Len(L[o]) \in Nat
      BY <1>1, <1>3
    <2>2. j \in 1 .. Len(L[o]) - 1
      BY <1>3, <2>1
    <2>3. M[o][j] = L[o][i]
      BY <1>3, <2>1, <2>2
    <2>4. j \in 1 .. Len(M[o])
      BY <2>2
    <2> HIDE DEF j
    <2> QED
      BY <1>1, <1>3, <2>3, <2>4 DEF Listed
  <1> QED
    BY <1>2, <1>3

(***************************************************************************)
(* A pop loses the bytes of the head and no others.                        *)
(***************************************************************************)
LEMMA PopListed ==
    ASSUME NEW L \in [Orders -> Seq(Nat)], NEW o \in Orders, L[o] # << >>,
           NEW b, Listed(L, b), b \notin Head(L[o]) .. Head(L[o]) + block_size(o) - 1
    PROVE  Listed(pop_free_block(L, o), b)
  <1> DEFINE M == pop_free_block(L, o)
             s == L[o]
  <1>1. s \in Seq(Nat) /\ s # << >>
    OBVIOUS
  <1>2. M = [L EXCEPT ![o] = Tail(s)]
    BY DEF pop_free_block
  <1>3. M[o] = Tail(s) /\ \A p \in Orders \ {o} : M[p] = L[p]
    BY <1>2
  <1> HIDE DEF M, s
  <1>4. /\ Len(Tail(s)) = Len(s) - 1 /\ 1 \in 1 .. Len(s) /\ Head(s) = s[1]
        /\ \A j \in 1 .. Len(s) - 1 : Tail(s)[j] = s[j + 1]
    BY <1>1
  <1>5. \A j \in 1 .. Len(s) - 1 : M[o][j] = IF j < 1 THEN s[j] ELSE s[j + 1]
    BY <1>3, <1>4
  <1> QED
    BY <1>3, <1>4, <1>5, SubListed DEF M, s

(***************************************************************************)
(* An unlink loses the bytes of the block it unlinks and no others.        *)
(***************************************************************************)
LEMMA RemoveListed ==
    ASSUME NEW L \in [Orders -> Seq(Nat)], NEW o \in Orders, NEW k \in 1 .. Len(L[o]),
           NEW b, Listed(L, b), b \notin L[o][k] .. L[o][k] + block_size(o) - 1
    PROVE  Listed(remove_free_block(L, k, o), b)
  <1> DEFINE M == remove_free_block(L, k, o)
             s == L[o]
             t == [j \in 1 .. Len(s) - 1 |-> IF j < k THEN s[j] ELSE s[j + 1]]
  <1>1. s \in Seq(Nat) /\ Len(s) \in Nat \ {0} /\ k \in 1 .. Len(s)
    OBVIOUS
  <1>2. M = [L EXCEPT ![o] = t]
    BY DEF remove_free_block
  <1>3. M[o] = t /\ \A p \in Orders \ {o} : M[p] = L[p]
    BY <1>2
  <1>4. \A j \in 1 .. Len(s) - 1 : (IF j < k THEN s[j] ELSE s[j + 1]) \in Nat
    BY <1>1
  <1>5. Len(t) = Len(s) - 1
    BY <1>1, <1>4
  <1>6. \A j \in 1 .. Len(s) - 1 : t[j] = IF j < k THEN s[j] ELSE s[j + 1]
    OBVIOUS
  <1> HIDE DEF M, t
  <1> QED
    BY <1>3, <1>5, <1>6, SubListed DEF M

\* What init has seeded is a multiple of the smallest block, and the rest of the
\* heap is still to be seeded.
Seeding ==
    pc = "init" => /\ addr + remaining = HEAP_END
                   /\ (addr - HEAP_START) % block_size(MIN_ORDER) = 0

(***************************************************************************)
(* init starts with the whole heap, and every block it seeds is a multiple *)
(* of the smallest.                                                        *)
(***************************************************************************)
LEMMA SeedingKept == Inv /\ Seeding /\ [Next]_vars => Seeding'
  <1> SUFFICES ASSUME Inv, Seeding, [Next]_vars, pc' = "init"
               PROVE  /\ addr' + remaining' = HEAP_END
                      /\ (addr' - HEAP_START) % block_size(MIN_ORDER) = 0
    BY DEF Seeding
  <1>1. MIN_ORDER \in Orders /\ block_size(MIN_ORDER) \in Nat \ {0}
    BY OrderAssumption, PowerAssumption DEF Orders
  <1>2. CASE BeginInit
    <2>1. addr' = HEAP_START /\ remaining' = HEAP_SIZE
      BY <1>2 DEF BeginInit
    <2>2. 0 % block_size(MIN_ORDER) = 0 /\ HEAP_START - HEAP_START = 0
      BY <1>1, RangeAssumption, IsMultiple
    <2> QED
      BY <2>1, <2>2 DEF HEAP_END
  <1>3. CASE SeedBlock
    <2>1. PICK o \in MIN_ORDER .. max_order :
            /\ addr' = addr + block_size(o)
            /\ remaining' = remaining - block_size(o)
      BY <1>3 DEF SeedBlock
    <2>2. /\ pc = "init" /\ addr \in Nat /\ remaining \in Nat /\ max_order \in Orders
          /\ addr + remaining = HEAP_END /\ (addr - HEAP_START) % block_size(MIN_ORDER) = 0
      BY <1>3 DEF SeedBlock, Seeding, Inv, TypeOK
    <2>3. o \in Orders /\ MIN_ORDER \in MIN_ORDER .. o
      BY <2>2, OrderAssumption DEF Orders
    <2>4. block_size(o) \in Nat /\ block_size(o) % block_size(MIN_ORDER) = 0
      BY <2>3, PowerAssumption
    <2>5. ((addr - HEAP_START) + block_size(o)) % block_size(MIN_ORDER) = 0
      <3>1. addr - HEAP_START \in Int /\ block_size(o) \in Int
        BY <2>2, <2>4, RangeAssumption
      <3> QED
        BY <1>1, <2>2, <2>4, <3>1, SumMultiple
    <2>6. addr' - HEAP_START = (addr - HEAP_START) + block_size(o)
      BY <2>1, <2>2, <2>4, RangeAssumption
    <2> QED
      BY <2>1, <2>2, <2>4, <2>5, <2>6
  <1>4. CASE UNCHANGED vars
    BY <1>4 DEF vars, Seeding
  <1> QED
    BY <1>2, <1>3, <1>4
    DEF Next, Step, BeginAlloc, AllocNull, BeginDealloc, Idle, EndInit, SplitBlock, EndAlloc,
        MergeBuddy, EndDealloc, Return

(***************************************************************************)
(* When no block fits any more, what is left of the heap is the remainder. *)
(***************************************************************************)
LEMMA SeedingEnds ==
    ASSUME Inv, Seeding, EndInit
    PROVE  remaining = HEAP_SIZE % block_size(MIN_ORDER)
  <1> DEFINE n == block_size(MIN_ORDER)
  <1>1. /\ MIN_ORDER \in Orders /\ n \in Nat \ {0} /\ addr \in Nat /\ remaining \in Nat
        /\ max_order \in Orders /\ HEAP_START \in Nat /\ HEAP_SIZE \in Nat
    BY OrderAssumption, PowerAssumption, RangeAssumption DEF Orders, Inv, TypeOK
  <1>2. /\ addr + remaining = HEAP_END /\ (addr - HEAP_START) % n = 0
        /\ ~SeedFits(MIN_ORDER)
    BY <1>1, OrderAssumption DEF EndInit, Seeding, Orders
  <1>3. HEAP_START % n = 0
    BY HeapAssumption
  <1> HIDE DEF n
  <1>4. addr % n = 0
    <2>0. addr - HEAP_START \in Int /\ HEAP_START \in Int
      BY <1>1
    <2>1. ((addr - HEAP_START) + HEAP_START) % n = 0
      BY <1>1, <1>2, <1>3, <2>0, SumMultiple
    <2>2. (addr - HEAP_START) + HEAP_START = addr
      BY <1>1
    <2> QED
      BY <2>1, <2>2
  <1>5. remaining \in 0 .. n - 1
    BY <1>1, <1>2, <1>4 DEF SeedFits, n
  <1>6. PICK q \in Int : addr - HEAP_START = q * n
    BY <1>1, <1>2, IsMultiple
  <1>7. (q * n + remaining) % n = remaining
    BY <1>1, <1>5, <1>6, DivisionUnique
  <1>8. q * n + remaining = HEAP_SIZE
    BY <1>1, <1>2, <1>6 DEF HEAP_END
  <1> QED
    BY <1>7, <1>8 DEF n

(***************************************************************************)
(* Seeding a block takes it from the unseeded range.                       *)
(***************************************************************************)
LEMMA SeedOwner == ASSUME Inv, SeedBlock, NEW b, HasOwner(b) PROVE HasOwner(b)'
  <1>1. PICK o \in MIN_ORDER .. max_order :
            /\ block_size(o) <= remaining
            /\ free_lists' = push_free_block(free_lists, addr, o)
            /\ addr' = addr + block_size(o)
            /\ remaining' = remaining - block_size(o)
    BY DEF SeedBlock, SeedFits
  <1>2. /\ addr \in Nat /\ remaining \in Nat /\ free_lists \in [Orders -> Seq(Nat)]
        /\ max_order \in Orders /\ pc = "init" /\ pc' = "init" /\ live' = live
    BY DEF SeedBlock, Inv, TypeOK
  <1>3. o \in Orders /\ block_size(o) \in Nat
    BY <1>2, BlockSizes, OrderAssumption DEF Orders
  <1>4. HeldSize = remaining /\ HeldSize' = remaining'
    BY <1>2 DEF HeldSize
  <1>5. \A c : Listed(free_lists, c) \/ c \in addr .. addr + block_size(o) - 1
                => Listed(free_lists', c)
    BY <1>1, <1>2, <1>3, PushListed
  <1>6. CASE CallHolds(b)
    <2>1. b \in addr .. addr + remaining - 1
      BY <1>4, <1>6 DEF CallHolds
    <2>2. b \in addr .. addr + block_size(o) - 1 \/ b \in addr' .. addr' + remaining' - 1
      BY <1>1, <1>2, <1>3, <2>1, SMTT(30)
    <2> QED
      BY <1>4, <1>5, <2>2 DEF HasOwner, CallHolds
  <1> QED
    BY <1>2, <1>5, <1>6 DEF HasOwner, ClientHolds

(***************************************************************************)
(* alloc owns the block it pops.                                           *)
(***************************************************************************)
LEMMA BeginAllocOwner ==
    ASSUME NEW l \in Layouts, Inv, BeginAlloc(l), NEW b, HasOwner(b)
    PROVE  HasOwner(b)'
  <1>0. PICK want \in order_for_layout(l) : \E k \in want .. max_order :
            /\ free_lists[k] # << >>
            /\ addr' = Head(free_lists[k])
            /\ order' = k
            /\ free_lists' = pop_free_block(free_lists, k)
    BY DEF BeginAlloc
  <1>1. PICK k \in want .. max_order :
            /\ free_lists[k] # << >>
            /\ addr' = Head(free_lists[k])
            /\ order' = k
            /\ free_lists' = pop_free_block(free_lists, k)
    BY <1>0
  <1>2. /\ free_lists \in [Orders -> Seq(Nat)] /\ max_order \in Orders /\ addr \in Nat
        /\ pc = "idle" /\ pc' = "split" /\ live' = live
    BY DEF BeginAlloc, Idle, Inv, TypeOK
  <1>3. k \in Orders
    BY <1>1, <1>2, OrderUnique, OrderAssumption DEF Orders
  <1>4. HeldSize = 0 /\ HeldSize' = block_size(k)
    BY <1>1, <1>2 DEF HeldSize
  <1>5. ~CallHolds(b)
    BY <1>2, <1>4 DEF CallHolds
  <1>6. CASE Listed(free_lists, b)
    <2>1. CASE b \in Head(free_lists[k]) .. Head(free_lists[k]) + block_size(k) - 1
      BY <1>1, <1>4, <2>1 DEF HasOwner, CallHolds
    <2>2. CASE b \notin Head(free_lists[k]) .. Head(free_lists[k]) + block_size(k) - 1
      BY <1>1, <1>2, <1>3, <1>6, <2>2, PopListed DEF HasOwner
    <2> QED
      BY <2>1, <2>2
  <1> QED
    BY <1>2, <1>5, <1>6 DEF HasOwner, ClientHolds

(***************************************************************************)
(* Of the two halves the call owns one and the list gets the other.        *)
(***************************************************************************)
LEMMA SplitOwner == ASSUME Inv, SplitBlock, NEW b, HasOwner(b) PROVE HasOwner(b)'
  <1> DEFINE q == order - 1
             s == block_size(q)
  <1>1. /\ pc = "split" /\ pc' = "split" /\ order' = q /\ addr' = addr /\ live' = live
        /\ free_lists' = push_free_block(free_lists, addr + s, q)
    BY DEF SplitBlock
  <1>2. /\ addr \in Nat /\ order \in Orders /\ free_lists \in [Orders -> Seq(Nat)]
        /\ layout \in Layouts
    BY <1>1 DEF Inv, TypeOK, CallOK
  <1>3. PICK w \in order_for_layout(layout) : w <= order /\ w # order
    BY <1>1 DEF Inv, CallOK, SplitBlock
  <1>4. q \in Orders /\ q + 1 = order
    BY <1>2, <1>3, OrderUnique, OrderAssumption DEF Orders
  <1>5. s \in Nat /\ block_size(order) = 2 * s
    BY <1>4, <1>2, BlockSizes
  <1>6. HeldSize = 2 * s /\ HeldSize' = s
    BY <1>1, <1>5 DEF HeldSize
  <1> HIDE DEF s
  <1>7. \A c : Listed(free_lists, c) \/ c \in addr + s .. (addr + s) + s - 1
                => Listed(free_lists', c)
    <2>1. addr + s \in Nat /\ free_lists' = push_free_block(free_lists, addr + s, q)
      BY <1>1, <1>2, <1>5 DEF s
    <2> HIDE DEF q
    <2> QED
      BY <1>2, <1>4, <2>1, PushListed DEF s
  <1>8. CASE CallHolds(b)
    <2>1. b \in addr .. addr + s - 1 \/ b \in addr + s .. (addr + s) + s - 1
      BY <1>2, <1>5, <1>6, <1>8 DEF CallHolds
    <2> QED
      BY <1>1, <1>6, <1>7, <2>1 DEF HasOwner, CallHolds
  <1> QED
    BY <1>1, <1>7, <1>8 DEF HasOwner, ClientHolds

(***************************************************************************)
(* The caller of alloc gets what the call owned.                           *)
(***************************************************************************)
LEMMA EndAllocOwner == ASSUME Inv, EndAlloc, NEW b, HasOwner(b) PROVE HasOwner(b)'
  <1>1. HeldSize = block_size(order) /\ order \in order_for_layout(layout)
    BY DEF EndAlloc, HeldSize
  <1>2. PICK z : z = [addr |-> addr, layout |-> layout]
    OBVIOUS
  <1>3. live' = live \cup {z} /\ z.addr = addr /\ z.layout = layout /\ free_lists' = free_lists
    BY <1>2 DEF EndAlloc
  <1>4. CallHolds(b) => ClientHolds(b)'
    BY <1>1, <1>3 DEF CallHolds, ClientHolds
  <1> QED
    BY <1>3, <1>4 DEF HasOwner, ClientHolds

(***************************************************************************)
(* dealloc owns the block it is given.                                     *)
(***************************************************************************)
LEMMA BeginDeallocOwner ==
    ASSUME NEW x \in live, Inv, BeginDealloc(x), NEW b, HasOwner(b)
    PROVE  HasOwner(b)'
  <1>1. /\ pc = "idle" /\ pc' = "merge" /\ order' \in order_for_layout(x.layout)
        /\ addr' = x.addr /\ live' = live \ {x} /\ free_lists' = free_lists
    BY DEF BeginDealloc, Idle
  <1>2. x.layout \in Layouts /\ addr \in Nat
    BY DEF Inv, TypeOK
  <1>3. \A o \in order_for_layout(x.layout) : o = order'
    BY <1>1, <1>2, OrderUnique
  <1>4. HeldSize = 0 /\ HeldSize' = block_size(order')
    BY <1>1 DEF HeldSize
  <1>5. ~CallHolds(b)
    BY <1>2, <1>4 DEF CallHolds
  <1>6. ClientHolds(b) => ClientHolds(b)' \/ CallHolds(b)'
    BY <1>1, <1>3, <1>4 DEF ClientHolds, CallHolds
  <1> QED
    BY <1>1, <1>5, <1>6 DEF HasOwner

(***************************************************************************)
(* The merged block is the call's block and its buddy.                     *)
(***************************************************************************)
LEMMA MergeOwner == ASSUME Inv, MergeBuddy, NEW b, HasOwner(b) PROVE HasOwner(b)'
  <1> DEFINE s == block_size(order)
             m == buddy_of(addr, order)
  <1>1. /\ pc = "merge" /\ pc' = "merge" /\ order < max_order /\ order' = order + 1
        /\ addr' = IF addr <= m THEN addr ELSE m
        /\ live' = live
    BY DEF MergeBuddy, CanMerge
  <1>2. PICK i \in 1 .. Len(free_lists[order]) :
            /\ free_lists[order][i] = m
            /\ free_lists' = remove_free_block(free_lists, i, order)
    BY DEF MergeBuddy, BuddyIndex
  <1>3. /\ addr \in Nat /\ order \in Orders /\ max_order \in Orders
        /\ free_lists \in [Orders -> Seq(Nat)]
    BY DEF Inv, TypeOK
  <1>4. s \in Nat /\ s > 0 /\ block_size(order + 1) = 2 * s /\ m \in Nat
    <2>1. order + 1 \in Orders
      BY <1>1, <1>3, OrderAssumption DEF Orders
    <2> QED
      BY <1>2, <1>3, <2>1, BlockSizes, SMTT(30)
  <1>5. (addr' = addr /\ m = addr + s) \/ (addr' = m /\ addr = m + s)
    BY <1>1, <1>3, <1>4, BuddyAdjacent, SMTT(30)
  <1>6. HeldSize = s /\ HeldSize' = 2 * s
    BY <1>1, <1>4 DEF HeldSize
  <1> HIDE DEF s, m
  <1>7. b \in addr .. addr + s - 1 \/ b \in m .. m + s - 1 => CallHolds(b)'
    BY <1>3, <1>4, <1>5, <1>6, SMTT(30) DEF CallHolds
  <1>8. CallHolds(b) => CallHolds(b)'
    BY <1>6, <1>7 DEF CallHolds
  <1>9. CASE Listed(free_lists, b) /\ b \notin m .. m + s - 1
    BY <1>2, <1>3, <1>9, RemoveListed DEF HasOwner, s
  <1> QED
    BY <1>1, <1>7, <1>8, <1>9 DEF HasOwner, ClientHolds

(***************************************************************************)
(* What dealloc has merged goes onto a list.                               *)
(***************************************************************************)
LEMMA EndDeallocOwner == ASSUME Inv, EndDealloc, NEW b, HasOwner(b) PROVE HasOwner(b)'
  <1>1. HeldSize = block_size(order) /\ live' = live
        /\ free_lists' = push_free_block(free_lists, addr, order)
    BY DEF EndDealloc, HeldSize
  <1>2. addr \in Nat /\ order \in Orders /\ free_lists \in [Orders -> Seq(Nat)]
    BY DEF Inv, TypeOK
  <1>3. \A c : Listed(free_lists, c) \/ c \in addr .. addr + block_size(order) - 1
                => Listed(free_lists', c)
    BY <1>1, <1>2, PushListed
  <1> QED
    BY <1>1, <1>3 DEF HasOwner, ClientHolds, CallHolds

(***************************************************************************)
(* Every step of every call passes every byte on to an owner; only the end *)
(* of init leaves bytes without one, and no more than a remainder below    *)
(* the smallest block.                                                     *)
(***************************************************************************)
LEMMA OwnersKept == Inv /\ Seeding /\ NoLeak /\ [Next]_vars => NoLeak'
  <1> DEFINE K == HEAP_START .. HEAP_END - 1 - (HEAP_SIZE % block_size(MIN_ORDER))
  <1>1. NoLeak <=> ((initialized \/ pc = "init") => \A b \in K : HasOwner(b))
    BY DEF NoLeak, HasOwner, Listed, ClientHolds, CallHolds
  <1>2. NoLeak' <=> ((initialized' \/ pc' = "init") => \A b \in K : HasOwner(b)')
    BY DEF NoLeak, HasOwner, Listed, ClientHolds, CallHolds
  <1> SUFFICES ASSUME Inv, Seeding, NoLeak, [Next]_vars, initialized' \/ pc' = "init",
                      NEW b \in K
               PROVE  HasOwner(b)'
    BY <1>2
  <1> USE <1>1
  <1>3. b \in Int /\ HEAP_START <= b /\ b < HEAP_END - (HEAP_SIZE % block_size(MIN_ORDER))
    <2>1. block_size(MIN_ORDER) \in Nat \ {0} /\ HEAP_SIZE \in Nat /\ HEAP_START \in Nat
      BY OrderAssumption, PowerAssumption, RangeAssumption DEF Orders
    <2>2. HEAP_SIZE % block_size(MIN_ORDER) \in Nat
      BY <2>1
    <2> HIDE <1>1
    <2> QED
      BY <2>1, <2>2 DEF HEAP_END
  <1>4. (initialized \/ pc = "init") => HasOwner(b)
    BY <1>1
  <1> HIDE <1>1 DEF K
  <1>5. CASE BeginInit
    <2>1. HeldSize' = HEAP_SIZE /\ addr' = HEAP_START
      BY <1>5 DEF BeginInit, HeldSize
    <2>2. HEAP_SIZE % block_size(MIN_ORDER) \in Nat /\ HEAP_SIZE \in Nat /\ HEAP_START \in Nat
      <3>1. block_size(MIN_ORDER) \in Nat \ {0} /\ HEAP_SIZE \in Nat /\ HEAP_START \in Nat
        BY OrderAssumption, PowerAssumption, RangeAssumption DEF Orders
      <3> QED
        BY <3>1
    <2>3. b \in HEAP_START .. HEAP_START + HEAP_SIZE - 1
      BY <1>3, <2>2 DEF HEAP_END
    <2> QED
      BY <2>1, <2>3 DEF HasOwner, CallHolds
  <1>6. CASE EndInit
    <2>1. pc = "init" /\ UNCHANGED <<free_lists, live>> /\ HeldSize = remaining
      BY <1>6 DEF EndInit, HeldSize
    <2>2. remaining = HEAP_SIZE % block_size(MIN_ORDER)
      BY <1>6, SeedingEnds
    <2>3. addr + remaining = HEAP_END /\ addr \in Nat /\ remaining \in Nat
      BY <2>1 DEF Seeding, Inv, TypeOK
    <2>4. ~CallHolds(b)
      BY <1>3, <2>1, <2>2, <2>3, RangeAssumption DEF CallHolds, HEAP_END
    <2> QED
      BY <1>4, <2>1, <2>4 DEF HasOwner, ClientHolds
  <1>7. CASE \E l \in Layouts : BeginAlloc(l)
    BY <1>4, <1>7, BeginAllocOwner DEF BeginAlloc
  <1>8. CASE \E l \in Layouts : AllocNull(l)
    BY <1>4, <1>8 DEF AllocNull, HasOwner, ClientHolds, CallHolds, HeldSize
  <1>9. CASE \E x \in live : BeginDealloc(x)
    BY <1>4, <1>9, BeginDeallocOwner DEF BeginDealloc
  <1>10. CASE SeedBlock
    BY <1>4, <1>10, SeedOwner DEF SeedBlock
  <1>11. CASE SplitBlock
    BY <1>4, <1>11, SplitOwner DEF SplitBlock
  <1>12. CASE EndAlloc
    BY <1>4, <1>12, EndAllocOwner DEF EndAlloc, Return
  <1>13. CASE MergeBuddy
    BY <1>4, <1>13, MergeOwner DEF MergeBuddy
  <1>14. CASE EndDealloc
    BY <1>4, <1>14, EndDeallocOwner DEF EndDealloc, Return
  <1>15. CASE UNCHANGED vars
    BY <1>4, <1>15 DEF vars, HasOwner, ClientHolds, CallHolds, HeldSize
  <1> QED
    BY <1>5, <1>6, <1>7, <1>8, <1>9, <1>10, <1>11, <1>12, <1>13, <1>14, <1>15 DEF Next, Step

(***************************************************************************)
(* No byte of the heap is ever lost, for every heap range, range of orders *)
(* and all layouts: at every step of every call a byte is in a block of    *)
(* the lists, of a client or of the call, except the remainder at the end  *)
(* of the heap that is smaller than the smallest block.                    *)
(***************************************************************************)
THEOREM NothingLost == Spec => []NoLeak
  <1>1. Init => Seeding /\ NoLeak
    BY DEF Init, Seeding, NoLeak
  <1> QED
    BY <1>1, InitInv, NextInv, SeedingKept, OwnersKept, PTL DEF Spec

-----------------------------------------------------------------------------
(* Alignment *)

\* a is a multiple of every block size up to order o that HEAP_START is one of.
AlignedLike(a, o) ==
    \A k \in MIN_ORDER .. o : HEAP_START % block_size(k) = 0 => a % block_size(k) = 0

ListsAligned(L) == \A o \in Orders : \A i \in 1 .. Len(L[o]) : AlignedLike(L[o][i], o)

(***************************************************************************)
(* The code tests the alignment of an address in init only.  Splitting and *)
(* merging keep it for every block, as far as HEAP_START has it: buddies   *)
(* are counted from there.                                                 *)
(***************************************************************************)
AlignInv ==
    /\ ListsAligned(free_lists)
    /\ pc \in {"split", "merge"} => AlignedLike(addr, order)
    /\ \A x \in live : order_for_layout(x.layout) # {}
    /\ \A x \in live : \A o \in order_for_layout(x.layout) : AlignedLike(x.addr, o)

\* Every pointer has the alignment asked for, if HEAP_START has it.
AlignedAsStart ==
    \A x \in live : HEAP_START % x.layout.align = 0 => x.addr % x.layout.align = 0

(***************************************************************************)
(* A multiple of a multiple is a multiple.                                 *)
(***************************************************************************)
LEMMA MultipleOfMultiple ==
    ASSUME NEW n \in Nat \ {0}, NEW m \in Nat \ {0}, NEW a \in Int, a % m = 0, m % n = 0
    PROVE  a % n = 0
  <1>1. PICK p \in Int : a = p * m
    BY IsMultiple
  <1>2. PICK q \in Int : m = q * n
    <2>1. m \in Int
      OBVIOUS
    <2> QED
      BY <2>1, IsMultiple
  <1>3. a = (p * q) * n
    BY <1>1, <1>2
  <1>4. p * q \in Int
    OBVIOUS
  <1> QED
    BY <1>3, <1>4, IsMultiple

(***************************************************************************)
(* Larger blocks are multiples of smaller ones.                            *)
(***************************************************************************)
LEMMA SizeMultiple ==
    ASSUME NEW o \in Orders, NEW k \in MIN_ORDER .. o
    PROVE  /\ k \in Orders /\ block_size(k) \in Nat \ {0} /\ block_size(o) \in Nat \ {0}
           /\ block_size(o) % block_size(k) = 0
           /\ block_size(k) <= block_size(o)
  <1>1. k \in Orders
    BY OrderAssumption DEF Orders
  <1>2. block_size(k) \in Nat \ {0} /\ block_size(o) \in Nat \ {0}
    BY <1>1, PowerAssumption
  <1>3. block_size(o) % block_size(k) = 0
    BY PowerAssumption
  <1>4. block_size(k) <= block_size(o)
    <2> DEFINE m == block_size(o)
               n == block_size(k)
    <2>1. m \in Nat \ {0} /\ n \in Nat \ {0} /\ m % n = 0 /\ m \in Int
      BY <1>2, <1>3
    <2> HIDE DEF m, n
    <2>2. PICK q \in Int : m = q * n
      BY <2>1, IsMultiple
    <2>3. q >= 1
      BY <2>1, <2>2
    <2>4. q * n >= 1 * n
      BY <2>1, <2>3
    <2> QED
      BY <2>1, <2>2, <2>4 DEF m, n
  <1> QED
    BY <1>1, <1>2, <1>3, <1>4

(***************************************************************************)
(* A multiple of a block size is aligned for that order; so is every block *)
(* at it, and the upper half of an aligned block.                          *)
(***************************************************************************)
LEMMA AlignedBlock ==
    ASSUME NEW a \in Nat, NEW o \in Orders
    PROVE  /\ a % block_size(o) = 0 => AlignedLike(a, o)
           /\ AlignedLike(a, o) => AlignedLike(a + block_size(o), o)
           /\ \A p \in Orders : p <= o /\ AlignedLike(a, o) => AlignedLike(a, p)
  <1>1. ASSUME a % block_size(o) = 0, NEW k \in MIN_ORDER .. o PROVE a % block_size(k) = 0
    <2>1. a \in Int
      OBVIOUS
    <2> QED
      BY <1>1, <2>1, SizeMultiple, MultipleOfMultiple
  <1>2. ASSUME AlignedLike(a, o), NEW k \in MIN_ORDER .. o, HEAP_START % block_size(k) = 0
        PROVE  (a + block_size(o)) % block_size(k) = 0
    <2>1. a % block_size(k) = 0
      BY <1>2 DEF AlignedLike
    <2>2. /\ block_size(k) \in Nat \ {0} /\ a \in Int /\ block_size(o) \in Int
          /\ block_size(o) % block_size(k) = 0
      BY SizeMultiple
    <2> QED
      BY <2>1, <2>2, SumMultiple
  <1>3. \A p \in Orders : p <= o /\ AlignedLike(a, o) => AlignedLike(a, p)
    BY OrderAssumption DEF AlignedLike, Orders
  <1> QED
    BY <1>1, <1>2, <1>3 DEF AlignedLike

(***************************************************************************)
(* The buddy of a block flips one bit: the two are the halves of a block   *)
(* whose distance from HEAP_START is a multiple of its size, and each is   *)
(* the buddy of the other.                                                 *)
(***************************************************************************)
LEMMA BuddyHalves ==
    ASSUME NEW a \in Nat, NEW o \in Orders, (a - HEAP_START) % block_size(o) = 0
    PROVE  \/ /\ buddy_of(a, o) = a + block_size(o)
              /\ (a - HEAP_START) % (2 * block_size(o)) = 0
              /\ buddy_of(a + block_size(o), o) = a
           \/ /\ buddy_of(a, o) = a - block_size(o)
              /\ ((a - block_size(o)) - HEAP_START) % (2 * block_size(o)) = 0
              /\ buddy_of(a - block_size(o), o) = a
  <1> DEFINE s == block_size(o)
             d == a - HEAP_START
             m == d \div s
  <1>1. s \in Nat \ {0} /\ d \in Int /\ 2 * s \in Nat \ {0} /\ HEAP_START \in Nat
    BY PowerAssumption, RangeAssumption
  <1>2. d % s = 0
    OBVIOUS
  <1> HIDE DEF s, d
  <1>3. m \in Int /\ d = m * s
    BY <1>1, <1>2
  <1>4. /\ (m * s) \div s = m /\ ((m + 1) * s) \div s = m + 1 /\ ((m - 1) * s) \div s = m - 1
    <2>1. 0 \in 0 .. s - 1 /\ m \in Int /\ m + 1 \in Int /\ m - 1 \in Int
      BY <1>1, <1>3
    <2>2. (m * s + 0) \div s = m /\ ((m + 1) * s + 0) \div s = m + 1 /\ ((m - 1) * s + 0) \div s = m - 1
      BY <1>1, <2>1, DivisionUnique
    <2>3. m * s + 0 = m * s /\ (m + 1) * s + 0 = (m + 1) * s /\ (m - 1) * s + 0 = (m - 1) * s
      BY <1>1, <1>3
    <2> QED
      BY <2>2, <2>3
  <1>5. (a + s) - HEAP_START = (m + 1) * s /\ (a - s) - HEAP_START = (m - 1) * s
    BY <1>1, <1>3 DEF d
  <1> HIDE DEF m
  <1>6. a - HEAP_START = m * s
    BY <1>3 DEF d
  <1>7. m % 2 \in {0, 1}
    BY <1>3
  <1>8. CASE m % 2 = 0
    <2>1. PICK j \in Int : m = 2 * j
      BY <1>3, <1>8
    <2>2. (m + 1) % 2 # 0
      BY <2>1
    <2>3. a - HEAP_START = j * (2 * s)
      BY <1>1, <1>6, <2>1
    <2>4. (a - HEAP_START) % (2 * s) = 0
      <3>1. a - HEAP_START \in Int
        BY <1>1
      <3> QED
        BY <1>1, <2>3, <3>1, IsMultiple
    <2>5. buddy_of(a, o) = a + s
      BY <1>4, <1>6, <1>8 DEF buddy_of, s
    <2>6. buddy_of(a + s, o) = (a + s) - s
      BY <1>4, <1>5, <2>2 DEF buddy_of, s
    <2> QED
      BY <1>1, <2>4, <2>5, <2>6 DEF s
  <1>9. CASE m % 2 = 1
    <2>1. PICK j \in Int : m = 2 * j + 1
      BY <1>3, <1>9
    <2>2. (m - 1) % 2 = 0 /\ m - 1 = 2 * j
      BY <2>1
    <2>3. (a - s) - HEAP_START = j * (2 * s)
      BY <1>1, <1>5, <2>1, <2>2
    <2>4. ((a - s) - HEAP_START) % (2 * s) = 0
      <3>1. (a - s) - HEAP_START \in Int
        BY <1>1
      <3> QED
        BY <1>1, <2>3, <3>1, IsMultiple
    <2>5. buddy_of(a, o) = a - s
      BY <1>4, <1>6, <1>9 DEF buddy_of, s
    <2>6. buddy_of(a - s, o) = (a - s) + s
      BY <1>4, <1>5, <2>2 DEF buddy_of, s
    <2> QED
      BY <1>1, <2>4, <2>5, <2>6 DEF s
  <1> QED
    BY <1>7, <1>8, <1>9

(***************************************************************************)
(* Every block of pushed lists is the new one or an old one.               *)
(***************************************************************************)
LEMMA PushSource ==
    ASSUME NEW L \in [Orders -> Seq(Nat)], NEW a \in Nat, NEW o \in Orders,
           NEW M, M = push_free_block(L, a, o)
    PROVE  \A p \in Orders : \A i \in 1 .. Len(M[p]) :
                (p = o /\ M[p][i] = a) \/ \E j \in 1 .. Len(L[p]) : M[p][i] = L[p][j]
  <1>a. M \in [Orders -> Seq(Nat)]
    BY PushFacts
  <1>b. Len(M[o]) = Len(L[o]) + 1
    BY PushFacts
  <1>c. M[o][1] = a
    BY PushFacts, SMTT(30)
  <1>0. M \in [Orders -> Seq(Nat)] /\ Len(M[o]) = Len(L[o]) + 1 /\ M[o][1] = a
    BY <1>a, <1>b, <1>c
  <1> SUFFICES ASSUME NEW p \in Orders, NEW i \in 1 .. Len(M[p])
               PROVE  (p = o /\ M[p][i] = a) \/ \E j \in 1 .. Len(L[p]) : M[p][i] = L[p][j]
    OBVIOUS
  <1>1. CASE p # o
    <2>1. M[p] = L[p]
      BY <1>1, PushFacts, SMTT(30)
    <2> QED
      BY <2>1
  <1>2. CASE p = o /\ i = 1
    BY <1>0, <1>2
  <1>3. CASE p = o /\ i # 1
    <2>1. i \in 2 .. Len(M[o])
      <3>1. Len(M[o]) \in Nat
        BY <1>0
      <3> QED
        BY <1>3, <3>1
    <2>2. i - 1 \in 1 .. Len(L[o]) /\ M[o][i] = L[o][i - 1]
      BY <2>1, PushFacts
    <2> QED
      BY <1>3, <2>2
  <1> QED
    BY <1>1, <1>2, <1>3

(***************************************************************************)
(* Every block of lists that lack one is an old one.                       *)
(***************************************************************************)
LEMMA SubSource ==
    ASSUME NEW L \in [Orders -> Seq(Nat)], NEW M \in [Orders -> Seq(Nat)],
           NEW o \in Orders, NEW k \in Nat, SubLists(L, M, o, k)
    PROVE  \A p \in Orders : \A i \in 1 .. Len(M[p]) : \E j \in 1 .. Len(L[p]) : M[p][i] = L[p][j]
  <1> SUFFICES ASSUME NEW p \in Orders, NEW i \in 1 .. Len(M[p])
               PROVE  \E j \in 1 .. Len(L[p]) : M[p][i] = L[p][j]
    OBVIOUS
  <1>1. CASE p # o
    BY <1>1 DEF SubLists
  <1>2. CASE p = o
    <2>1. CASE i < k
      BY <1>2, <2>1 DEF SubLists
    <2>2. CASE i >= k
      BY <1>2, <2>2 DEF SubLists
    <2>3. i < k \/ i >= k
      <3>1. i \in Int
        OBVIOUS
      <3> QED
        BY <3>1
    <2> QED
      BY <2>1, <2>2, <2>3, Zenon
  <1> QED
    BY <1>1, <1>2

(***************************************************************************)
(* The lists stay aligned under a push of an aligned block and when they   *)
(* lose a block.                                                           *)
(***************************************************************************)
LEMMA ListsStayAligned ==
    ASSUME NEW L \in [Orders -> Seq(Nat)], ListsAligned(L)
    PROVE  /\ \A a \in Nat, o \in Orders :
                AlignedLike(a, o) => ListsAligned(push_free_block(L, a, o))
           /\ \A M \in [Orders -> Seq(Nat)], o \in Orders, k \in Nat :
                SubLists(L, M, o, k) => ListsAligned(M)
  <1>1. ASSUME NEW a \in Nat, NEW o \in Orders, AlignedLike(a, o),
               NEW M, M = push_free_block(L, a, o)
        PROVE  ListsAligned(M)
    <2>1. \A p \in Orders : \A i \in 1 .. Len(M[p]) :
            (p = o /\ M[p][i] = a) \/ \E j \in 1 .. Len(L[p]) : M[p][i] = L[p][j]
      BY <1>1, PushSource, SMTT(30)
    <2> QED
      BY <1>1, <2>1 DEF ListsAligned
  <1>2. ASSUME NEW M \in [Orders -> Seq(Nat)], NEW o \in Orders, NEW k \in Nat,
               SubLists(L, M, o, k)
        PROVE  ListsAligned(M)
    <2>1. \A p \in Orders : \A i \in 1 .. Len(M[p]) : \E j \in 1 .. Len(L[p]) : M[p][i] = L[p][j]
      BY <1>2, SubSource
    <2> QED
      BY <2>1 DEF ListsAligned
  <1> QED
    BY <1>1, <1>2

(***************************************************************************)
(* The block merged from two buddies is aligned like them.                 *)
(***************************************************************************)
LEMMA MergedAligned ==
    ASSUME NEW a \in Nat, NEW o \in Orders, o + 1 \in Orders,
           AlignedLike(a, o), NEW b \in Nat, b = buddy_of(a, o), AlignedLike(b, o),
           NEW c, c = IF a <= b THEN a ELSE b
    PROVE  AlignedLike(c, o + 1)
  <1> DEFINE s == block_size(o)
  <1>1. s \in Nat \ {0} /\ block_size(o + 1) = 2 * s /\ HEAP_START \in Nat /\ o \in Nat
    BY BlockSizes, RangeAssumption
  <1>2. c \in Nat /\ AlignedLike(c, o)
    OBVIOUS
  <1>3. ASSUME HEAP_START % (2 * s) = 0 PROVE c % (2 * s) = 0
    <2>1. 2 * s \in Nat \ {0} /\ (2 * s) % s = 0
      <3>1. 2 * s \in Int
        BY <1>1
      <3> QED
        BY <1>1, <3>1, IsMultiple
    <2>2. HEAP_START % s = 0
      BY <1>1, <1>3, <2>1, MultipleOfMultiple
    <2>3. a % s = 0
      BY <2>2, OrderAssumption DEF AlignedLike, Orders
    <2>4. (a - HEAP_START) % s = 0
      BY <1>1, <2>2, <2>3, SumMultiple
    <2>5. (c - HEAP_START) % (2 * s) = 0
      BY <1>1, <2>4, BuddyHalves
    <2>6. c - HEAP_START \in Int /\ HEAP_START \in Int /\ (c - HEAP_START) + HEAP_START = c
      BY <1>1, <1>2
    <2>7. ((c - HEAP_START) + HEAP_START) % (2 * s) = 0
      <3> DEFINE t == 2 * s
      <3>1. t \in Nat \ {0} /\ (c - HEAP_START) % t = 0 /\ HEAP_START % t = 0
        BY <1>3, <2>1, <2>5
      <3> HIDE DEF t
      <3>2. ((c - HEAP_START) + HEAP_START) % t = 0
        BY <2>6, <3>1, SumMultiple
      <3> QED
        BY <3>2 DEF t
    <2> QED
      BY <2>6, <2>7
  <1> HIDE DEF s
  <1>4. ASSUME NEW k \in MIN_ORDER .. o + 1, HEAP_START % block_size(k) = 0
        PROVE  c % block_size(k) = 0
    <2>1. CASE k = o + 1
      BY <1>1, <1>3, <1>4, <2>1
    <2>2. CASE k # o + 1
      <3>1. k \in MIN_ORDER .. o
        BY <1>1, <2>2, OrderAssumption
      <3> QED
        BY <1>2, <1>4, <3>1 DEF AlignedLike
    <2> QED
      BY <2>1, <2>2
  <1> QED
    BY <1>4 DEF AlignedLike

(***************************************************************************)
(* A step of the seeding loop seeds the largest block that fits.           *)
(***************************************************************************)
LEMMA SeedStep ==
    ASSUME Inv, SeedBlock
    PROVE  \E o \in Orders :
                /\ o <= max_order /\ block_size(o) <= remaining /\ addr % block_size(o) = 0
                /\ \A k \in o + 1 .. max_order : ~SeedFits(k)
                /\ free_lists' = push_free_block(free_lists, addr, o)
                /\ addr' = addr + block_size(o) /\ remaining' = remaining - block_size(o)
                /\ pc = "init" /\ UNCHANGED <<pc, live, max_order, initialized, refused>>
  <1>1. max_order \in Orders
    BY DEF Inv, TypeOK
  <1>2. \A o \in MIN_ORDER .. max_order : o \in Orders /\ o <= max_order
    BY <1>1, OrderAssumption DEF Orders
  <1> QED
    BY <1>2 DEF SeedBlock, SeedFits

(***************************************************************************)
(* alloc takes the head of a list that is not empty.                       *)
(***************************************************************************)
LEMMA PopStep ==
    ASSUME NEW l \in Layouts, Inv, BeginAlloc(l)
    PROVE  /\ order' \in Orders /\ order' <= max_order /\ free_lists[order'] # << >>
           /\ addr' = free_lists[order'][1] /\ 1 \in 1 .. Len(free_lists[order'])
           /\ free_lists' \in [Orders -> Seq(Nat)]
           /\ SubLists(free_lists, free_lists', order', 1)
           /\ pc = "idle" /\ pc' = "split" /\ initialized
           /\ refused' = NoLayout /\ UNCHANGED <<live, max_order, initialized>>
  <1>0. PICK want \in order_for_layout(l) : \E k \in want .. max_order :
            /\ free_lists[k] # << >>
            /\ addr' = Head(free_lists[k])
            /\ order' = k
            /\ free_lists' = pop_free_block(free_lists, k)
    BY DEF BeginAlloc
  <1>1. PICK k \in want .. max_order :
            /\ free_lists[k] # << >>
            /\ addr' = Head(free_lists[k])
            /\ order' = k
            /\ free_lists' = pop_free_block(free_lists, k)
    BY <1>0
  <1>2. free_lists \in [Orders -> Seq(Nat)] /\ max_order \in Orders
    BY DEF Inv, TypeOK
  <1>3. k \in Orders /\ k <= max_order
    BY <1>2, OrderUnique, OrderAssumption DEF Orders
  <1>4. /\ pop_free_block(free_lists, k) \in [Orders -> Seq(Nat)]
        /\ 1 \in 1 .. Len(free_lists[k]) /\ Head(free_lists[k]) = free_lists[k][1]
        /\ SubLists(free_lists, pop_free_block(free_lists, k), k, 1)
    BY <1>1, <1>2, <1>3, PopFacts
  <1> QED
    BY <1>1, <1>3, <1>4 DEF BeginAlloc, Idle

(***************************************************************************)
(* A split keeps the lower half and lists the upper half.                  *)
(***************************************************************************)
LEMMA SplitStep ==
    ASSUME Inv, SplitBlock
    PROVE  /\ order' \in Orders /\ order' + 1 = order /\ order \in Orders
           /\ block_size(order') \in Nat \ {0} /\ block_size(order) = 2 * block_size(order')
           /\ addr \in Nat /\ addr' = addr /\ addr + block_size(order') \in Nat
           /\ free_lists' = push_free_block(free_lists, addr + block_size(order'), order')
           /\ pc = "split" /\ UNCHANGED <<pc, live, max_order, initialized, refused>>
  <1>1. /\ pc = "split" /\ order' = order - 1 /\ layout \in Layouts /\ order \in Orders /\ addr \in Nat
    BY DEF SplitBlock, Inv, CallOK, TypeOK
  <1>2. PICK w \in order_for_layout(layout) : w <= order /\ w # order
    BY <1>1 DEF Inv, CallOK, SplitBlock
  <1>3. order' \in Orders /\ order' + 1 = order
    BY <1>1, <1>2, OrderUnique, OrderAssumption DEF Orders
  <1>4. block_size(order') \in Nat \ {0} /\ block_size(order) = 2 * block_size(order')
    BY <1>1, <1>3, BlockSizes
  <1> QED
    BY <1>1, <1>3, <1>4 DEF SplitBlock

(***************************************************************************)
(* A merge unlinks the buddy and goes on with the lower of the two.        *)
(***************************************************************************)
LEMMA MergeStep ==
    ASSUME Inv, MergeBuddy
    PROVE  /\ order \in Orders /\ order' = order + 1 /\ order' \in Orders /\ order < max_order
           /\ block_size(order) \in Nat \ {0} /\ block_size(order') = 2 * block_size(order)
           /\ addr \in Nat /\ buddy_of(addr, order) \in Nat
           /\ addr' = IF addr <= buddy_of(addr, order) THEN addr ELSE buddy_of(addr, order)
           /\ free_lists' \in [Orders -> Seq(Nat)]
           /\ \E i \in 1 .. Len(free_lists[order]) :
                /\ free_lists[order][i] = buddy_of(addr, order)
                /\ SubLists(free_lists, free_lists', order, i)
           /\ pc = "merge" /\ UNCHANGED <<pc, live, max_order, initialized, refused>>
  <1>1. /\ pc = "merge" /\ order < max_order /\ order' = order + 1
        /\ addr' = IF addr <= buddy_of(addr, order) THEN addr ELSE buddy_of(addr, order)
    BY DEF MergeBuddy, CanMerge
  <1>2. PICK i \in 1 .. Len(free_lists[order]) :
            /\ free_lists[order][i] = buddy_of(addr, order)
            /\ free_lists' = remove_free_block(free_lists, i, order)
    BY DEF MergeBuddy, BuddyIndex
  <1>3. /\ addr \in Nat /\ order \in Orders /\ max_order \in Orders
        /\ free_lists \in [Orders -> Seq(Nat)]
    BY DEF Inv, TypeOK
  <1>4. order' \in Orders
    BY <1>1, <1>3, OrderAssumption DEF Orders
  <1>5. block_size(order) \in Nat \ {0} /\ block_size(order') = 2 * block_size(order)
    BY <1>1, <1>3, <1>4, BlockSizes
  <1>6. buddy_of(addr, order) \in Nat
    BY <1>2, <1>3
  <1>7. /\ remove_free_block(free_lists, i, order) \in [Orders -> Seq(Nat)]
        /\ SubLists(free_lists, remove_free_block(free_lists, i, order), order, i)
    BY <1>2, <1>3, RemoveFacts
  <1> QED
    BY <1>1, <1>2, <1>3, <1>4, <1>5, <1>6, <1>7 DEF MergeBuddy

(***************************************************************************)
(* Every step keeps every block aligned.                                   *)
(***************************************************************************)
LEMMA AlignNext == Inv /\ AlignInv /\ [Next]_vars => AlignInv'
  <1> SUFFICES ASSUME Inv, AlignInv, [Next]_vars PROVE AlignInv'
    OBVIOUS
  <1>1. /\ free_lists \in [Orders -> Seq(Nat)] /\ addr \in Nat /\ order \in Orders
        /\ ListsAligned(free_lists)
        /\ \A x \in live : order_for_layout(x.layout) # {}
        /\ \A x \in live : \A o \in order_for_layout(x.layout) : AlignedLike(x.addr, o)
    BY DEF Inv, TypeOK, AlignInv
  <1>2. CASE BeginInit
    <2>1. free_lists' = [o \in Orders |-> << >>] /\ pc' = "init" /\ live' = live
      BY <1>2 DEF BeginInit
    <2>2. ListsAligned(free_lists')
      BY <2>1 DEF ListsAligned
    <2> QED
      BY <1>1, <2>1, <2>2 DEF AlignInv
  <1>3. CASE SeedBlock
    <2>1. PICK o \in Orders : /\ free_lists' = push_free_block(free_lists, addr, o)
                              /\ addr % block_size(o) = 0
                              /\ pc' = "init" /\ live' = live
      BY <1>3, SeedStep
    <2>2. ListsAligned(free_lists')
      BY <1>1, <2>1, AlignedBlock, ListsStayAligned
    <2> QED
      BY <1>1, <2>1, <2>2 DEF AlignInv
  <1>4. CASE EndInit
    BY <1>1, <1>4 DEF EndInit, Return, AlignInv
  <1>5. ASSUME NEW l \in Layouts, BeginAlloc(l) PROVE AlignInv'
    <2>1. /\ order' \in Orders /\ addr' = free_lists[order'][1] /\ 1 \in 1 .. Len(free_lists[order'])
          /\ free_lists' \in [Orders -> Seq(Nat)] /\ SubLists(free_lists, free_lists', order', 1)
          /\ live' = live
      BY <1>5, PopStep
    <2>2. ListsAligned(free_lists')
      BY <1>1, <2>1, ListsStayAligned
    <2>3. AlignedLike(addr', order')
      BY <1>1, <2>1 DEF ListsAligned
    <2> QED
      BY <1>1, <2>1, <2>2, <2>3 DEF AlignInv
  <1>6. CASE SplitBlock
    <2>1. /\ order' \in Orders /\ order' <= order
          /\ addr + block_size(order') \in Nat /\ addr' = addr /\ live' = live /\ pc = "split"
          /\ free_lists' = push_free_block(free_lists, addr + block_size(order'), order')
      BY <1>6, SplitStep, BlockSizes
    <2>2. AlignedLike(addr, order')
      BY <1>1, <2>1, AlignedBlock DEF AlignInv
    <2>3. AlignedLike(addr + block_size(order'), order')
      BY <1>1, <2>1, <2>2, AlignedBlock
    <2>4. ListsAligned(free_lists')
      BY <1>1, <2>1, <2>3, ListsStayAligned
    <2> QED
      BY <1>1, <2>1, <2>2, <2>4 DEF AlignInv
  <1>7. CASE EndAlloc
    <2>1. PICK z : z = [addr |-> addr, layout |-> layout]
      OBVIOUS
    <2>2. /\ live' = live \cup {z} /\ z.addr = addr /\ z.layout = layout
          /\ free_lists' = free_lists /\ pc = "split" /\ pc' = "idle"
      BY <1>7, <2>1 DEF EndAlloc, Return
    <2>3. layout \in Layouts /\ order \in order_for_layout(layout)
      BY <1>7 DEF EndAlloc, Inv, CallOK
    <2>4. /\ order_for_layout(z.layout) # {}
          /\ \A o \in order_for_layout(z.layout) : AlignedLike(z.addr, o)
      BY <2>2, <2>3, OrderUnique DEF AlignInv
    <2> QED
      BY <1>1, <2>2, <2>4 DEF AlignInv
  <1>8. ASSUME NEW x \in live, BeginDealloc(x) PROVE AlignInv'
    BY <1>1, <1>8 DEF BeginDealloc, AlignInv
  <1>9. CASE MergeBuddy
    <2>1. /\ order' = order + 1 /\ order' \in Orders /\ buddy_of(addr, order) \in Nat
          /\ addr' = IF addr <= buddy_of(addr, order) THEN addr ELSE buddy_of(addr, order)
          /\ free_lists' \in [Orders -> Seq(Nat)] /\ pc = "merge" /\ live' = live
      BY <1>9, MergeStep
    <2>2. PICK i \in 1 .. Len(free_lists[order]) :
                /\ free_lists[order][i] = buddy_of(addr, order)
                /\ SubLists(free_lists, free_lists', order, i)
      BY <1>9, MergeStep
    <2>2a. i \in Nat
      OBVIOUS
    <2>2b. \A M \in [Orders -> Seq(Nat)], o \in Orders, k \in Nat :
                SubLists(free_lists, M, o, k) => ListsAligned(M)
      BY <1>1, ListsStayAligned
    <2>3. ListsAligned(free_lists')
      BY <1>1, <2>1, <2>2, <2>2a, <2>2b
    <2>4. AlignedLike(addr, order) /\ AlignedLike(buddy_of(addr, order), order)
      BY <1>1, <2>1, <2>2 DEF AlignInv, ListsAligned
    <2>5. AlignedLike(addr', order')
      BY <1>1, <2>1, <2>4, MergedAligned
    <2> QED
      BY <1>1, <2>1, <2>3, <2>5 DEF AlignInv
  <1>10. CASE EndDealloc
    <2>1. /\ free_lists' = push_free_block(free_lists, addr, order)
          /\ pc = "merge" /\ pc' = "idle" /\ live' = live
      BY <1>10 DEF EndDealloc, Return
    <2>2. ListsAligned(free_lists')
      BY <1>1, <2>1, ListsStayAligned DEF AlignInv
    <2> QED
      BY <1>1, <2>1, <2>2 DEF AlignInv
  <1>11. ASSUME NEW l \in Layouts, AllocNull(l) PROVE AlignInv'
    BY <1>11 DEF AllocNull, AlignInv
  <1>12. CASE UNCHANGED vars
    BY <1>12 DEF vars, AlignInv
  <1> QED
    BY <1>2, <1>3, <1>4, <1>5, <1>6, <1>7, <1>8, <1>9, <1>10, <1>11, <1>12 DEF Next, Step

(***************************************************************************)
(* What the alignment of blocks is for: the pointers handed out have the   *)
(* alignment of their layouts.                                             *)
(***************************************************************************)
LEMMA AlignedPointers == Inv /\ AlignInv => AlignedAsStart
  <1> SUFFICES ASSUME Inv, AlignInv, NEW x \in live, HEAP_START % x.layout.align = 0
               PROVE  x.addr % x.layout.align = 0
    BY DEF AlignedAsStart
  <1>1. x.layout \in Layouts /\ x.addr \in Nat
    BY DEF Inv, TypeOK
  <1>2. PICK o \in order_for_layout(x.layout) : AlignedLike(x.addr, o)
    BY DEF AlignInv
  <1>3. x.layout.align \in Nat \ {0} /\ x.layout.size \in Nat
    BY <1>1, LayoutAssumption
  <1>4. o \in Orders /\ block_size(o) >= x.layout.align
    <2>1. o \in order_for_size(IF x.layout.size >= x.layout.align THEN x.layout.size ELSE x.layout.align)
      BY <1>2 DEF order_for_layout
    <2>2. o \in Orders /\ block_size(o) >= IF x.layout.size >= x.layout.align THEN x.layout.size ELSE x.layout.align
      BY <2>1 DEF order_for_size
    <2>3. block_size(o) \in Nat
      BY <2>2, BlockSizes
    <2> QED
      BY <1>3, <2>2, <2>3
  <1>5. CASE block_size(MIN_ORDER) % x.layout.align = 0
    <2>1. MIN_ORDER \in Orders /\ MIN_ORDER \in MIN_ORDER .. o
      BY <1>4, OrderAssumption DEF Orders
    <2>2. x.addr % block_size(MIN_ORDER) = 0
      BY <1>2, <2>1, HeapAssumption DEF AlignedLike
    <2>3. block_size(MIN_ORDER) \in Nat \ {0} /\ x.addr \in Int
      BY <1>1, <2>1, PowerAssumption
    <2> QED
      BY <1>3, <1>5, <2>2, <2>3, MultipleOfMultiple
  <1>6. CASE \E k \in MIN_ORDER .. o : x.layout.align = block_size(k)
    BY <1>2, <1>6 DEF AlignedLike
  <1> QED
    BY <1>1, <1>4, <1>5, <1>6, PowerAssumption

(***************************************************************************)
(* alloc satisfies the alignment asked for, wherever the heap starts and   *)
(* however its blocks were split and merged, as long as HEAP_START itself  *)
(* has that alignment.  (When it has not, alloc does not; AlignedToLayout  *)
(* has the counterexample.)                                                *)
(***************************************************************************)
THEOREM PointersAligned == Spec => []AlignedAsStart
  <1>1. Init => AlignInv
    BY DEF Init, AlignInv, ListsAligned
  <1> QED
    BY <1>1, AlignedPointers, InitInv, NextInv, AlignNext, PTL DEF Spec
=============================================================================
