------------------------------ MODULE HeapProofs ------------------------------
(***************************************************************************)
(* Theorems about the list allocator and about LockedHeap with either      *)
(* allocator inside.                                                       *)
(***************************************************************************)
EXTENDS LockedHeap, BuddyProofs, SequenceTheorems

-----------------------------------------------------------------------------
(* The list allocator: its specification and its inductive invariant *)

Regions == [start : Nat, size : Nat]
BlockSize(x) == adjust_layout(x.layout).size

ListTypeOK ==
    /\ head \in Seq(Regions)
    /\ list_initialized \in BOOLEAN
    /\ list_live \subseteq [addr : Nat, layout : Layouts]
    /\ padding \subseteq Nat

\* n bytes at a are apart from the regions of H.
RegionsApartFrom(H, a, n) == \A i \in 1 .. Len(H) : Apart(H[i].start, H[i].size, a, n)

\* The regions of H have room for a node, are inside the heap and apart.
RegionsOK(H) ==
    /\ \A i \in 1 .. Len(H) : H[i].size >= LIST_NODE_SIZE /\ InHeap(H[i].start, H[i].size)
    /\ \A i, j \in 1 .. Len(H) : i # j => Apart(H[i].start, H[i].size, H[j].start, H[j].size)

BlocksOK ==
    /\ \A x \in list_live : InHeap(x.addr, BlockSize(x))
    /\ \A x, y \in list_live : x # y => Apart(x.addr, BlockSize(x), y.addr, BlockSize(y))

InRegions(H, b) == \E i \in 1 .. Len(H) : H[i].start <= b /\ b < H[i].start + H[i].size
InBlocks(b) == \E x \in list_live : x.addr <= b /\ b < x.addr + BlockSize(x)

(***************************************************************************)
(* The partition as arithmetic on the ends of the ranges, and what holds   *)
(* before init.                                                            *)
(***************************************************************************)
ListInv ==
    /\ ListTypeOK
    /\ ~list_initialized => head = << >> /\ list_live = {} /\ padding = {}
    /\ RegionsOK(head) /\ BlocksOK
    /\ \A x \in list_live : RegionsApartFrom(head, x.addr, BlockSize(x))
    /\ \A b \in padding : ~InRegions(head, b) /\ ~InBlocks(b)
    /\ list_initialized =>
        \A b \in HEAP_START .. HEAP_END - 1 : InRegions(head, b) \/ InBlocks(b) \/ b \in padding

-----------------------------------------------------------------------------
(* Layouts and addresses *)

(***************************************************************************)
(* adjust_layout makes room for a node and loses nothing of the layout.    *)
(***************************************************************************)
LEMMA Adjusted ==
    ASSUME NEW l \in Layouts
    PROVE  /\ l.size \in Nat \ {0} /\ l.align \in Nat \ {0}
           /\ adjust_layout(l).size \in Nat \ {0} /\ adjust_layout(l).align \in Nat \ {0}
           /\ adjust_layout(l).size >= LIST_NODE_SIZE /\ adjust_layout(l).size >= l.size
           /\ adjust_layout(l).align % l.align = 0
  <1>1. l.size \in Nat \ {0} /\ l.align \in Nat \ {0}
    BY LayoutAssumption
  <1>2. /\ adjust_layout(l).size = IF l.size >= LIST_NODE_SIZE THEN l.size ELSE LIST_NODE_SIZE
        /\ adjust_layout(l).align = IF l.align >= LIST_NODE_ALIGN THEN l.align ELSE LIST_NODE_ALIGN
    BY DEF adjust_layout, Greater
  <1>3. adjust_layout(l).align % l.align = 0
    <2>1. CASE l.align >= LIST_NODE_ALIGN
      <3>1. PICK n \in Nat \ {0} : n = l.align
        BY <1>1
      <3>2. n \in Int /\ n = 1 * n
        OBVIOUS
      <3>3. n % n = 0
        BY <3>2, IsMultiple
      <3> QED
        BY <1>2, <2>1, <3>1, <3>3
    <2>2. CASE ~(l.align >= LIST_NODE_ALIGN)
      <3>1. LIST_NODE_ALIGN >= l.align
        BY <1>1, <2>2, ListAssumption
      <3> QED
        BY <1>2, <2>2, <3>1, NodeAlignAssumption
    <2> QED
      BY <2>1, <2>2
  <1> QED
    BY <1>1, <1>2, <1>3, ListAssumption

(***************************************************************************)
(* align_up goes up to a multiple.                                         *)
(***************************************************************************)
LEMMA AlignUp ==
    ASSUME NEW a \in Nat, NEW n \in Nat \ {0}
    PROVE  align_up(a, n) \in Nat /\ a <= align_up(a, n) /\ align_up(a, n) % n = 0
  <1>1. PICK t \in Nat : t = a + (n - 1)
    OBVIOUS
  <1>2. align_up(a, n) = (t \div n) * n
    BY <1>1 DEF align_up
  <1>3. t \div n \in Int /\ t = n * (t \div n) + (t % n) /\ t % n \in 0 .. n - 1
    OBVIOUS
  <1>4. PICK q \in Int : q = t \div n
    BY <1>3
  <1>5. PICK r \in 0 .. n - 1 : r = t % n
    BY <1>3
  <1>6. t = n * q + r
    BY <1>3, <1>4, <1>5
  <1>7. q * n = n * q /\ q * n \in Int
    OBVIOUS
  <1>8. a <= q * n
    BY <1>1, <1>6, <1>7
  <1>9. (q * n) % n = 0
    BY <1>7, IsMultiple
  <1> QED
    BY <1>2, <1>4, <1>7, <1>8, <1>9

-----------------------------------------------------------------------------
(* The list *)

\* M is H with r in the place of its i-th region, or without it.
Replaced(H, M, i, r) ==
    Len(M) = Len(H) /\ \A j \in 1 .. Len(H) : M[j] = IF j = i THEN r ELSE H[j]
Dropped(H, M, i) ==
    Len(M) = Len(H) - 1 /\ \A j \in 1 .. Len(M) : M[j] = IF j < i THEN H[j] ELSE H[j + 1]

(***************************************************************************)
(* Unlinking a region re-links the regions before and behind it, and puts  *)
(* what the block leaves of it in between.                                 *)
(***************************************************************************)
LEMMA Relinked ==
    ASSUME NEW H \in Seq(Regions), NEW i \in 1 .. Len(H), NEW r \in Regions
    PROVE  /\ SubSeq(H, 1, i - 1) \o <<r>> \o SubSeq(H, i + 1, Len(H)) \in Seq(Regions)
           /\ Replaced(H, SubSeq(H, 1, i - 1) \o <<r>> \o SubSeq(H, i + 1, Len(H)), i, r)
           /\ SubSeq(H, 1, i - 1) \o << >> \o SubSeq(H, i + 1, Len(H)) \in Seq(Regions)
           /\ Dropped(H, SubSeq(H, 1, i - 1) \o << >> \o SubSeq(H, i + 1, Len(H)), i)
  <1>0. Len(H) \in Nat /\ i \in Nat
    OBVIOUS
  <1>1. PICK A \in Seq(Regions) : A = SubSeq(H, 1, i - 1) /\ Len(A) = i - 1 /\ \A j \in 1 .. i - 1 : A[j] = H[j]
    <2>1. 1 \in Int /\ i - 1 \in Int /\ \A j \in 1 .. i - 1 : H[j] \in Regions
      BY <1>0
    <2>2. /\ SubSeq(H, 1, i - 1) \in Seq(Regions)
          /\ Len(SubSeq(H, 1, i - 1)) = IF 1 <= i - 1 THEN (i - 1) - 1 + 1 ELSE 0
          /\ \A j \in 1 .. (i - 1) - 1 + 1 : SubSeq(H, 1, i - 1)[j] = H[1 + (j - 1)]
      BY <2>1, SubSeqProperties
    <2>3. Len(SubSeq(H, 1, i - 1)) = i - 1 /\ (i - 1) - 1 + 1 = i - 1
      BY <1>0, <2>2
    <2>4. \A j \in 1 .. i - 1 : 1 + (j - 1) = j
      BY <1>0
    <2> QED
      BY <2>2, <2>3, <2>4
  <1>2. PICK B \in Seq(Regions) : /\ B = SubSeq(H, i + 1, Len(H)) /\ Len(B) = Len(H) - i
                                  /\ \A j \in 1 .. Len(H) - i : B[j] = H[j + i]
    <2>1. i + 1 \in Int /\ Len(H) \in Int /\ \A j \in i + 1 .. Len(H) : H[j] \in Regions
      BY <1>0
    <2>2. /\ SubSeq(H, i + 1, Len(H)) \in Seq(Regions)
          /\ Len(SubSeq(H, i + 1, Len(H))) = IF i + 1 <= Len(H) THEN Len(H) - (i + 1) + 1 ELSE 0
          /\ \A j \in 1 .. Len(H) - (i + 1) + 1 : SubSeq(H, i + 1, Len(H))[j] = H[(i + 1) + (j - 1)]
      BY <2>1, SubSeqProperties
    <2>3. Len(SubSeq(H, i + 1, Len(H))) = Len(H) - i /\ Len(H) - (i + 1) + 1 = Len(H) - i
      BY <1>0, <2>2
    <2>4. \A j \in 1 .. Len(H) - i : (i + 1) + (j - 1) = j + i
      BY <1>0
    <2> QED
      BY <2>2, <2>3, <2>4
  <1>3. A \o <<r>> \in Seq(Regions) /\ Len(A \o <<r>>) = i /\ (A \o <<r>>)[i] = r
        /\ \A j \in 1 .. i - 1 : (A \o <<r>>)[j] = H[j]
    <2>1. <<r>> \in Seq(Regions) /\ Len(<<r>>) = 1 /\ <<r>>[1] = r
      OBVIOUS
    <2>2. /\ A \o <<r>> \in Seq(Regions) /\ Len(A \o <<r>>) = Len(A) + 1
          /\ \A j \in 1 .. Len(A) + 1 : (A \o <<r>>)[j] = IF j <= Len(A) THEN A[j] ELSE <<r>>[j - Len(A)]
      BY <2>1, ConcatProperties
    <2>3. Len(A) + 1 = i /\ Len(A) = i - 1 /\ i - (i - 1) = 1 /\ i \in 1 .. i /\ ~(i <= i - 1)
      BY <1>0, <1>1
    <2>4. \A j \in 1 .. i - 1 : j \in 1 .. i /\ j <= i - 1
      BY <1>0
    <2>5. (A \o <<r>>)[i] = r
      BY <2>1, <2>2, <2>3
    <2> QED
      BY <1>1, <2>2, <2>3, <2>4, <2>5
  <1>4. A \o << >> = A
    BY ConcatEmptySeq
  <1>5. PICK C \in Seq(Regions) : C = A \o <<r>> /\ Len(C) = i /\ C[i] = r /\ \A j \in 1 .. i - 1 : C[j] = H[j]
    BY <1>3
  <1>6. C \o B \in Seq(Regions) /\ Len(C \o B) = Len(H)
        /\ \A j \in 1 .. Len(H) : (C \o B)[j] = IF j <= i THEN C[j] ELSE B[j - i]
    <2>1. /\ C \o B \in Seq(Regions) /\ Len(C \o B) = Len(C) + Len(B)
          /\ \A j \in 1 .. Len(C) + Len(B) : (C \o B)[j] = IF j <= Len(C) THEN C[j] ELSE B[j - Len(C)]
      BY ConcatProperties
    <2>2. Len(C) + Len(B) = Len(H) /\ Len(C) = i
      <3>1. Len(C) = i /\ Len(B) = Len(H) - i
        BY <1>2, <1>5
      <3>2. i + (Len(H) - i) = Len(H)
        BY <1>0
      <3> QED
        BY <3>1, <3>2
    <2> QED
      BY <2>1, <2>2
  <1>7. A \o B \in Seq(Regions) /\ Len(A \o B) = Len(H) - 1
        /\ \A j \in 1 .. Len(H) - 1 : (A \o B)[j] = IF j <= i - 1 THEN A[j] ELSE B[j - (i - 1)]
    <2>1. /\ A \o B \in Seq(Regions) /\ Len(A \o B) = Len(A) + Len(B)
          /\ \A j \in 1 .. Len(A) + Len(B) : (A \o B)[j] = IF j <= Len(A) THEN A[j] ELSE B[j - Len(A)]
      BY ConcatProperties
    <2>2. Len(A) + Len(B) = Len(H) - 1 /\ Len(A) = i - 1
      <3>1. Len(A) = i - 1 /\ Len(B) = Len(H) - i
        BY <1>1, <1>2
      <3>2. (i - 1) + (Len(H) - i) = Len(H) - 1
        BY <1>0
      <3> QED
        BY <3>1, <3>2
    <2> QED
      BY <2>1, <2>2
  <1>8. Replaced(H, C \o B, i, r)
    <2> SUFFICES ASSUME NEW j \in 1 .. Len(H) PROVE (C \o B)[j] = IF j = i THEN r ELSE H[j]
      BY <1>6 DEF Replaced
    <2>1. CASE j = i
      <3>1. j <= i
        BY <1>0, <2>1
      <3> QED
        BY <1>5, <1>6, <2>1, <3>1
    <2>2. CASE j < i
      <3>1. j \in 1 .. i - 1 /\ j <= i /\ j # i
        BY <1>0, <2>2
      <3> QED
        BY <1>5, <1>6, <3>1
    <2>3. CASE j > i
      <3>1. j - i \in 1 .. Len(H) - i /\ (j - i) + i = j /\ ~(j <= i) /\ j # i
        BY <1>0, <2>3
      <3> QED
        BY <1>2, <1>6, <3>1
    <2>4. j = i \/ j < i \/ j > i
      BY <1>0
    <2> QED
      BY <2>1, <2>2, <2>3, <2>4, Zenon
  <1>9. Dropped(H, A \o B, i)
    <2> SUFFICES ASSUME NEW j \in 1 .. Len(H) - 1 PROVE (A \o B)[j] = IF j < i THEN H[j] ELSE H[j + 1]
      BY <1>7 DEF Dropped
    <2>1. CASE j < i
      <3>1. j \in 1 .. i - 1 /\ j <= i - 1
        BY <1>0, <2>1
      <3> QED
        BY <1>1, <1>7, <2>1, <3>1
    <2>2. CASE ~(j < i)
      <3>1. j - (i - 1) \in 1 .. Len(H) - i /\ (j - (i - 1)) + i = j + 1 /\ ~(j <= i - 1)
        BY <1>0, <2>2
      <3> QED
        BY <1>2, <1>7, <2>2, <3>1
    <2> QED
      BY <2>1, <2>2
  <1> QED
    BY <1>1, <1>2, <1>4, <1>5, <1>6, <1>7, <1>8, <1>9

(***************************************************************************)
(* add_free_region puts a region in front of the list.                     *)
(***************************************************************************)
LEMMA Prepended ==
    ASSUME NEW H \in Seq(Regions), NEW r \in Regions, NEW M, M = <<r>> \o H
    PROVE  /\ M \in Seq(Regions) /\ Len(M) = Len(H) + 1 /\ M[1] = r
           /\ \A j \in 2 .. Len(M) : j - 1 \in 1 .. Len(H) /\ M[j] = H[j - 1]
  <1>0. Len(H) \in Nat
    OBVIOUS
  <1>1. <<r>> \in Seq(Regions) /\ Len(<<r>>) = 1 /\ <<r>>[1] = r
    OBVIOUS
  <1>2. /\ M \in Seq(Regions) /\ Len(M) = 1 + Len(H)
        /\ \A j \in 1 .. 1 + Len(H) : M[j] = IF j <= 1 THEN <<r>>[j] ELSE H[j - 1]
    BY <1>1, ConcatProperties
  <1>3. 1 \in 1 .. 1 + Len(H) /\ 1 <= 1 /\ 1 + Len(H) = Len(H) + 1
    BY <1>0
  <1>4. M[1] = r
    BY <1>1, <1>2, <1>3
  <1>5. \A j \in 2 .. Len(H) + 1 : j - 1 \in 1 .. Len(H) /\ j \in 1 .. 1 + Len(H) /\ ~(j <= 1)
    BY <1>0
  <1> QED
    BY <1>2, <1>3, <1>4, <1>5

(***************************************************************************)
(* A region that is inside the heap and apart from the others may be put   *)
(* in front of them, in the place of a region that it is part of; and any  *)
(* region may be dropped.                                                  *)
(***************************************************************************)
LEMMA RegionsKept ==
    ASSUME NEW H \in Seq(Regions), RegionsOK(H), NEW M \in Seq(Regions)
    PROVE  /\ \A r \in Regions :
                /\ r.size >= LIST_NODE_SIZE /\ InHeap(r.start, r.size)
                /\ RegionsApartFrom(H, r.start, r.size) /\ M = <<r>> \o H
                => RegionsOK(M)
           /\ \A r \in Regions, i \in 1 .. Len(H) :
                /\ r.size >= LIST_NODE_SIZE /\ H[i].start <= r.start
                /\ r.start + r.size <= H[i].start + H[i].size /\ Replaced(H, M, i, r)
                => RegionsOK(M)
           /\ \A i \in 1 .. Len(H) : Dropped(H, M, i) => RegionsOK(M)
  <1>0. /\ Len(H) \in Nat /\ HEAP_START \in Nat /\ HEAP_END \in Nat /\ Len(M) \in Nat
        /\ \A i \in 1 .. Len(H) : H[i].start \in Nat /\ H[i].size \in Nat
    <2>1. Len(H) \in Nat /\ Len(M) \in Nat
      OBVIOUS
    <2>2. HEAP_START \in Nat /\ HEAP_END \in Nat
      BY RangeAssumption DEF HEAP_END
    <2>3. \A i \in 1 .. Len(H) : H[i] \in Regions
      OBVIOUS
    <2>4. \A i \in 1 .. Len(H) : H[i].start \in Nat /\ H[i].size \in Nat
      BY <2>3 DEF Regions
    <2> QED
      BY <2>1, <2>2, <2>4
  <1>1. ASSUME NEW r \in Regions, r.size >= LIST_NODE_SIZE, InHeap(r.start, r.size),
               RegionsApartFrom(H, r.start, r.size), M = <<r>> \o H
        PROVE  RegionsOK(M)
    <2>0. /\ Len(M) = Len(H) + 1 /\ M[1] = r
          /\ \A j \in 2 .. Len(M) : j - 1 \in 1 .. Len(H) /\ M[j] = H[j - 1]
      BY <1>1, Prepended
    <2>1. \A j \in 1 .. Len(M) : j = 1 \/ (j \in 2 .. Len(M) /\ j # 1)
      BY <1>0
    <2>2. ASSUME NEW j \in 1 .. Len(M) PROVE M[j].size >= LIST_NODE_SIZE /\ InHeap(M[j].start, M[j].size)
      BY <1>1, <2>0, <2>1 DEF RegionsOK
    <2>3. ASSUME NEW j \in 1 .. Len(M), NEW k \in 1 .. Len(M), j # k
          PROVE  Apart(M[j].start, M[j].size, M[k].start, M[k].size)
      <3>1. CASE j = 1
        <4>1. k - 1 \in 1 .. Len(H) /\ M[k] = H[k - 1] /\ M[j] = r
          BY <2>0, <2>1, <2>3, <3>1
        <4>2. Apart(H[k - 1].start, H[k - 1].size, r.start, r.size)
          BY <1>1, <4>1 DEF RegionsApartFrom
        <4> QED
          BY <4>1, <4>2 DEF Apart
      <3>2. CASE k = 1
        <4>1. j - 1 \in 1 .. Len(H) /\ M[j] = H[j - 1] /\ M[k] = r
          BY <2>0, <2>1, <2>3, <3>2
        <4> QED
          BY <1>1, <4>1 DEF RegionsApartFrom
      <3>3. CASE j # 1 /\ k # 1
        <4>1. /\ j - 1 \in 1 .. Len(H) /\ M[j] = H[j - 1]
              /\ k - 1 \in 1 .. Len(H) /\ M[k] = H[k - 1] /\ j - 1 # k - 1
          <5>1. j - 1 # k - 1
            BY <1>0, <2>3
          <5> QED
            BY <2>0, <2>1, <3>3, <5>1
        <4> QED
          BY <4>1 DEF RegionsOK
      <3> QED
        BY <3>1, <3>2, <3>3
    <2> QED
      BY <2>2, <2>3 DEF RegionsOK
  <1>2. ASSUME NEW r \in Regions, NEW i \in 1 .. Len(H), r.size >= LIST_NODE_SIZE,
               H[i].start <= r.start, r.start + r.size <= H[i].start + H[i].size,
               Replaced(H, M, i, r)
        PROVE  RegionsOK(M)
    <2>0. r.start \in Nat /\ r.size \in Nat
      BY DEF Regions
    <2>1. Len(M) = Len(H) /\ \A j \in 1 .. Len(H) : M[j] = IF j = i THEN r ELSE H[j]
      BY <1>2 DEF Replaced
    <2>2. InHeap(H[i].start, H[i].size)
      BY DEF RegionsOK
    <2>3. InHeap(r.start, r.size)
      BY <1>0, <1>2, <2>0, <2>2 DEF InHeap
    <2>4. \A j \in 1 .. Len(H) : j # i => Apart(H[j].start, H[j].size, r.start, r.size)
      <3> SUFFICES ASSUME NEW j \in 1 .. Len(H), j # i
                   PROVE  Apart(H[j].start, H[j].size, r.start, r.size)
        OBVIOUS
      <3>1. Apart(H[j].start, H[j].size, H[i].start, H[i].size)
        BY DEF RegionsOK
      <3>2. PICK u \in Nat : u = H[j].start
        BY <1>0
      <3>3. PICK v \in Nat : v = H[j].size
        BY <1>0
      <3>4. PICK w \in Nat : w = H[i].start
        BY <1>0
      <3>5. PICK x \in Nat : x = H[i].size
        BY <1>0
      <3>6. PICK y \in Nat : y = r.start
        BY <2>0
      <3>7. PICK z \in Nat : z = r.size
        BY <2>0
      <3>8. Apart(u, v, w, x) /\ w <= y /\ y + z <= w + x
        BY <1>2, <3>1, <3>2, <3>3, <3>4, <3>5, <3>6, <3>7
      <3>9. Apart(u, v, y, z)
        BY <3>8 DEF Apart
      <3> QED
        BY <3>2, <3>3, <3>6, <3>7, <3>9
    <2>5. ASSUME NEW j \in 1 .. Len(H), NEW k \in 1 .. Len(H), j # k
          PROVE  Apart(M[j].start, M[j].size, M[k].start, M[k].size)
      <3>1. CASE j = i
        BY <2>1, <2>4, <2>5, <3>1 DEF Apart
      <3>2. CASE k = i
        BY <2>1, <2>4, <2>5, <3>2
      <3>3. CASE j # i /\ k # i
        BY <2>1, <2>5, <3>3 DEF RegionsOK
      <3> QED
        BY <3>1, <3>2, <3>3
    <2>6. ASSUME NEW j \in 1 .. Len(H)
          PROVE  M[j].size >= LIST_NODE_SIZE /\ InHeap(M[j].start, M[j].size)
      BY <1>2, <2>1, <2>3 DEF RegionsOK
    <2> QED
      BY <2>1, <2>5, <2>6 DEF RegionsOK
  <1>3. ASSUME NEW i \in 1 .. Len(H), Dropped(H, M, i) PROVE RegionsOK(M)
    <2> DEFINE Src(j) == IF j < i THEN j ELSE j + 1
    <2>1. Len(M) = Len(H) - 1 /\ \A j \in 1 .. Len(M) : M[j] = IF j < i THEN H[j] ELSE H[j + 1]
      BY <1>3 DEF Dropped
    <2>2. \A j \in 1 .. Len(M) : Src(j) \in 1 .. Len(H) /\ M[j] = H[Src(j)]
      BY <1>0, <2>1
    <2>3. \A j, k \in 1 .. Len(M) : j # k => Src(j) # Src(k)
      BY <1>0
    <2> HIDE DEF Src
    <2> QED
      BY <2>2, <2>3 DEF RegionsOK
  <1> QED
    BY <1>1, <1>2, <1>3

-----------------------------------------------------------------------------
(* The steps of the list allocator *)

(***************************************************************************)
(* The types of what clients hold.                                         *)
(***************************************************************************)
LEMMA BlockTypes ==
    ASSUME ListTypeOK, NEW x \in list_live
    PROVE  x.addr \in Nat /\ x.layout \in Layouts /\ BlockSize(x) \in Nat \ {0}
           /\ BlockSize(x) >= LIST_NODE_SIZE /\ BlockSize(x) >= x.layout.size
  <1>1. x.addr \in Nat /\ x.layout \in Layouts
    BY DEF ListTypeOK
  <1> QED
    BY <1>1, Adjusted DEF BlockSize

(***************************************************************************)
(* The types of the regions.                                               *)
(***************************************************************************)
LEMMA RegionTypes ==
    ASSUME ListTypeOK
    PROVE  Len(head) \in Nat /\ \A i \in 1 .. Len(head) :
            head[i] \in Regions /\ head[i].start \in Nat /\ head[i].size \in Nat
  <1>1. Len(head) \in Nat /\ \A i \in 1 .. Len(head) : head[i] \in Regions
    BY DEF ListTypeOK
  <1> QED
    BY <1>1 DEF Regions

(***************************************************************************)
(* A region has the start and the size it is made with.                    *)
(***************************************************************************)
LEMMA RegionRecord ==
    ASSUME NEW a \in Nat, NEW n \in Nat
    PROVE  Region(a, n) \in Regions /\ Region(a, n).start = a /\ Region(a, n).size = n
  BY DEF Region, Regions

(***************************************************************************)
(* init makes the whole heap one region.                                   *)
(***************************************************************************)
LEMMA ListInitKept == ListInv /\ list_init => ListInv'
  <1> SUFFICES ASSUME ListInv, list_init PROVE ListInv'
    OBVIOUS
  <1>1. head = << >> /\ list_live = {} /\ padding = {} /\ list_initialized' = TRUE
        /\ list_live' = {} /\ padding' = {} /\ head' = <<Region(HEAP_START, HEAP_SIZE)>> \o head
    BY DEF ListInv, list_init, add_free_region
  <1>2. PICK r \in Regions : r = Region(HEAP_START, HEAP_SIZE)
    BY RangeAssumption DEF Region, Regions
  <1>3. r.start = HEAP_START /\ r.size = HEAP_SIZE /\ HEAP_START \in Nat /\ HEAP_SIZE \in Nat
    BY <1>2, RangeAssumption DEF Region
  <1>4. head' = <<r>>
    BY <1>1, <1>2
  <1>5. head' \in Seq(Regions) /\ Len(head') = 1 /\ head'[1] = r
    BY <1>4
  <1>6. ListTypeOK'
    BY <1>1, <1>5 DEF ListTypeOK
  <1>7. RegionsOK(head')
    BY <1>3, <1>5, ListAssumption DEF RegionsOK, InHeap, HEAP_END
  <1>8. \A b \in HEAP_START .. HEAP_END - 1 : InRegions(head', b)
    BY <1>3, <1>5 DEF InRegions, HEAP_END
  <1> QED
    BY <1>1, <1>6, <1>7, <1>8 DEF ListInv, BlocksOK

(***************************************************************************)
(* dealloc makes the block a region.                                       *)
(***************************************************************************)
LEMMA ListDeallocKept == ASSUME ListInv, NEW x \in list_live, list_dealloc(x) PROVE ListInv'
  <1>1. /\ head' = <<Region(x.addr, adjust_layout(x.layout).size)>> \o head
        /\ list_live' = list_live \ {x} /\ UNCHANGED <<list_initialized, padding>>
    BY DEF list_dealloc, add_free_region
  <1>2. ListTypeOK /\ RegionsOK(head) /\ BlocksOK
    BY DEF ListInv
  <1>3. x.addr \in Nat /\ BlockSize(x) \in Nat \ {0} /\ BlockSize(x) >= LIST_NODE_SIZE
    BY <1>2, BlockTypes
  <1>4. PICK r \in Regions : r = Region(x.addr, BlockSize(x)) /\ r.start = x.addr /\ r.size = BlockSize(x)
    BY <1>3, RegionRecord
  <1>5. head \in Seq(Regions) /\ head' = <<r>> \o head
    BY <1>1, <1>2, <1>4 DEF ListTypeOK, BlockSize
  <1>6. /\ head' \in Seq(Regions) /\ Len(head') = Len(head) + 1 /\ head'[1] = r
        /\ \A j \in 2 .. Len(head') : j - 1 \in 1 .. Len(head) /\ head'[j] = head[j - 1]
    BY <1>5, Prepended
  <1>6a. Len(head) \in Nat
    BY <1>5
  <1>7. RegionsOK(head')
    <2>1. InHeap(r.start, r.size) /\ RegionsApartFrom(head, r.start, r.size)
      BY <1>4 DEF ListInv, BlocksOK
    <2> QED
      BY <1>2, <1>3, <1>4, <1>5, <1>6, <2>1, RegionsKept
  <1>8. ListTypeOK'
    BY <1>1, <1>2, <1>6 DEF ListTypeOK
  <1>9. BlocksOK'
    BY <1>1, <1>2 DEF BlocksOK, BlockSize
  <1>10. \A j \in 1 .. Len(head') : j = 1 \/ j \in 2 .. Len(head')
    BY <1>6, <1>6a
  <1>11. ASSUME NEW y \in list_live' PROVE RegionsApartFrom(head', y.addr, BlockSize(y))
    <2>1. y \in list_live /\ y # x
      BY <1>1
    <2>2. RegionsApartFrom(head, y.addr, BlockSize(y)) /\ Apart(x.addr, BlockSize(x), y.addr, BlockSize(y))
      BY <2>1 DEF ListInv, BlocksOK
    <2> QED
      BY <1>4, <1>6, <1>10, <2>2 DEF RegionsApartFrom
  <1>12. ASSUME NEW b, InRegions(head', b)
         PROVE  InRegions(head, b) \/ (x.addr <= b /\ b < x.addr + BlockSize(x))
    <2>1. PICK j \in 1 .. Len(head') : head'[j].start <= b /\ b < head'[j].start + head'[j].size
      BY <1>12 DEF InRegions
    <2> QED
      BY <1>4, <1>6, <1>10, <2>1 DEF InRegions
  <1>13. ASSUME NEW b \in padding' PROVE ~InRegions(head', b) /\ ~InBlocks(b)'
    <2>1. ~InRegions(head, b) /\ ~InBlocks(b)
      BY <1>1, <1>13 DEF ListInv
    <2> QED
      BY <1>1, <1>12, <2>1 DEF InBlocks, BlockSize
  <1>14. ASSUME NEW b, InRegions(head, b) \/ InBlocks(b) PROVE InRegions(head', b) \/ InBlocks(b)'
    <2>1. ASSUME NEW i \in 1 .. Len(head), head[i].start <= b, b < head[i].start + head[i].size
          PROVE  InRegions(head', b)
      <3>1. i + 1 \in 2 .. Len(head') /\ i + 1 \in 1 .. Len(head') /\ (i + 1) - 1 = i
        BY <1>6, <1>6a
      <3>2. head'[i + 1] = head[i]
        BY <1>6, <3>1
      <3> QED
        BY <2>1, <3>1, <3>2 DEF InRegions
    <2>2. ASSUME x.addr <= b, b < x.addr + BlockSize(x) PROVE InRegions(head', b)
      <3>1. 1 \in 1 .. Len(head')
        BY <1>6, <1>6a
      <3> QED
        BY <1>4, <1>6, <2>2, <3>1 DEF InRegions
    <2>3. ASSUME NEW y \in list_live, y # x, y.addr <= b, b < y.addr + BlockSize(y) PROVE InBlocks(b)'
      BY <1>1, <2>3 DEF InBlocks, BlockSize
    <2> QED
      BY <1>14, <2>1, <2>2, <2>3 DEF InRegions, InBlocks
  <1>15. list_initialized
    BY DEF ListInv
  <1> QED
    BY <1>1, <1>7, <1>8, <1>9, <1>11, <1>13, <1>14, <1>15 DEF ListInv, BlockSize

\* The block that alloc cuts out of r: sz bytes at s, and the rest of r behind it
\* is empty or has room for a node.
Cut(r, s, sz) ==
    /\ r.start <= s /\ s + sz <= r.start + r.size
    /\ s + sz = r.start + r.size \/ (r.start + r.size) - (s + sz) >= LIST_NODE_SIZE

(***************************************************************************)
(* What alloc does to the list when it answers with a block.               *)
(***************************************************************************)
LEMMA AllocStep ==
    ASSUME ListInv, NEW layout0 \in Layouts, list_alloc(layout0)
    PROVE  \E i \in 1 .. Len(head) : \E s \in Nat :
            /\ Cut(head[i], s, adjust_layout(layout0).size)
            /\ s % adjust_layout(layout0).align = 0
            /\ head' \in Seq(Regions)
            /\ \/ /\ s + adjust_layout(layout0).size = head[i].start + head[i].size
                  /\ Dropped(head, head', i)
               \/ \E r \in Regions :
                    /\ r.start = s + adjust_layout(layout0).size /\ r.size >= LIST_NODE_SIZE
                    /\ r.start + r.size = head[i].start + head[i].size
                    /\ Replaced(head, head', i, r)
            /\ list_live' = list_live \cup {[addr |-> s, layout |-> layout0]}
            /\ padding' = padding \cup (head[i].start .. s - 1)
            /\ list_initialized' = list_initialized /\ list_initialized
  <1>1. PICK l : l = adjust_layout(layout0)
    OBVIOUS
  <1>2. l.size \in Nat \ {0} /\ l.align \in Nat \ {0}
    BY <1>1, Adjusted
  <1>3. PICK i \in 1 .. Len(head) :
            /\ FitsRegion(head[i], l)
            /\ head' = Unlink(i, l)
            /\ list_live' = list_live \cup {[addr |-> align_up(head[i].start, l.align), layout |-> layout0]}
            /\ padding' = padding \cup (head[i].start .. align_up(head[i].start, l.align) - 1)
            /\ list_initialized' = list_initialized /\ list_initialized
    BY <1>1 DEF list_alloc
  <1>4. head \in Seq(Regions) /\ head[i].start \in Nat /\ head[i].size \in Nat
    BY RegionTypes DEF ListInv, ListTypeOK
  <1>5. PICK s \in Nat : s = align_up(head[i].start, l.align) /\ head[i].start <= s /\ s % l.align = 0
    BY <1>2, <1>4, AlignUp
  <1>6. PICK e \in Nat : e = head[i].start + head[i].size
    BY <1>4
  <1>7. alloc_end(head[i], l) = s + l.size /\ region_end(head[i]) = e
    BY <1>5, <1>6 DEF alloc_end, region_end
  <1>8. excess_size(head[i], l) = e - (s + l.size)
    BY <1>7 DEF excess_size
  <1>9. s + l.size <= e /\ (e - (s + l.size) = 0 \/ e - (s + l.size) >= LIST_NODE_SIZE)
    BY <1>3, <1>7, <1>8 DEF FitsRegion
  <1>10. Cut(head[i], s, l.size)
    <2>1. s + l.size = e \/ e - (s + l.size) >= LIST_NODE_SIZE
      BY <1>2, <1>9
    <2> QED
      BY <1>5, <1>6, <1>9, <2>1 DEF Cut
  <1>11. CASE e - (s + l.size) >= LIST_NODE_SIZE
    <2>1. s + l.size \in Nat /\ e - (s + l.size) \in Nat
      BY <1>2, <1>9
    <2>2. PICK r \in Regions : /\ r = Region(s + l.size, e - (s + l.size))
                               /\ r.start = s + l.size /\ r.size = e - (s + l.size)
      BY <2>1, RegionRecord
    <2>3. head' = SubSeq(head, 1, i - 1) \o <<r>> \o SubSeq(head, i + 1, Len(head))
      BY <1>3, <1>7, <1>8, <1>11, <2>2 DEF Unlink
    <2>4. head' \in Seq(Regions) /\ Replaced(head, head', i, r)
      BY <1>4, <2>3, Relinked
    <2>5. r.start + r.size = e
      BY <1>2, <2>2
    <2> QED
      BY <1>1, <1>3, <1>5, <1>6, <1>10, <1>11, <2>2, <2>4, <2>5
  <1>12. CASE ~(e - (s + l.size) >= LIST_NODE_SIZE)
    <2>1. s + l.size = e
      BY <1>2, <1>9, <1>12
    <2>2. head' = SubSeq(head, 1, i - 1) \o << >> \o SubSeq(head, i + 1, Len(head))
      BY <1>3, <1>7, <1>8, <1>12 DEF Unlink
    <2>2a. head[i] \in Regions
      BY <1>4
    <2>3. head' \in Seq(Regions) /\ Dropped(head, head', i)
      BY <1>4, <2>2, <2>2a, Relinked
    <2> QED
      BY <1>1, <1>3, <1>5, <1>6, <1>10, <2>1, <2>3
  <1> QED
    BY <1>11, <1>12

(***************************************************************************)
(* After an alloc the list holds every other region and, of the region     *)
(* taken, no more than the rest.                                           *)
(***************************************************************************)
LEMMA Survivors ==
    ASSUME NEW H \in Seq(Regions), NEW M \in Seq(Regions), NEW i \in 1 .. Len(H)
    PROVE  /\ \A r \in Regions : Replaced(H, M, i, r) =>
                /\ \A j \in 1 .. Len(M) : M[j] = r \/ \E k \in 1 .. Len(H) : k # i /\ M[j] = H[k]
                /\ \A k \in 1 .. Len(H) : k # i => \E j \in 1 .. Len(M) : M[j] = H[k]
                /\ \E j \in 1 .. Len(M) : M[j] = r
           /\ Dropped(H, M, i) =>
                /\ \A j \in 1 .. Len(M) : \E k \in 1 .. Len(H) : k # i /\ M[j] = H[k]
                /\ \A k \in 1 .. Len(H) : k # i => \E j \in 1 .. Len(M) : M[j] = H[k]
  <1>0. Len(H) \in Nat /\ Len(M) \in Nat /\ i \in Nat
    OBVIOUS
  <1>1. ASSUME NEW r \in Regions, Replaced(H, M, i, r)
        PROVE  /\ \A j \in 1 .. Len(M) : M[j] = r \/ \E k \in 1 .. Len(H) : k # i /\ M[j] = H[k]
               /\ \A k \in 1 .. Len(H) : k # i => \E j \in 1 .. Len(M) : M[j] = H[k]
               /\ \E j \in 1 .. Len(M) : M[j] = r
    BY <1>1 DEF Replaced
  <1>2. ASSUME Dropped(H, M, i)
        PROVE  /\ \A j \in 1 .. Len(M) : \E k \in 1 .. Len(H) : k # i /\ M[j] = H[k]
               /\ \A k \in 1 .. Len(H) : k # i => \E j \in 1 .. Len(M) : M[j] = H[k]
    <2>1. Len(M) = Len(H) - 1 /\ \A j \in 1 .. Len(M) : M[j] = IF j < i THEN H[j] ELSE H[j + 1]
      BY <1>2 DEF Dropped
    <2>2. ASSUME NEW j \in 1 .. Len(M) PROVE \E k \in 1 .. Len(H) : k # i /\ M[j] = H[k]
      <3>1. CASE j < i
        <4>1. j \in 1 .. Len(H) /\ j # i /\ M[j] = H[j]
          BY <1>0, <2>1, <3>1
        <4> QED
          BY <4>1
      <3>2. CASE ~(j < i)
        <4>1. j + 1 \in 1 .. Len(H) /\ j + 1 # i /\ M[j] = H[j + 1]
          BY <1>0, <2>1, <3>2
        <4> QED
          BY <4>1
      <3> QED
        BY <3>1, <3>2
    <2>3. ASSUME NEW k \in 1 .. Len(H), k # i PROVE \E j \in 1 .. Len(M) : M[j] = H[k]
      <3>1. CASE k < i
        <4>1. k \in 1 .. Len(M) /\ M[k] = H[k]
          BY <1>0, <2>1, <3>1
        <4> QED
          BY <4>1
      <3>2. CASE ~(k < i)
        <4>1. k - 1 \in 1 .. Len(M) /\ ~(k - 1 < i) /\ (k - 1) + 1 = k
          BY <1>0, <2>1, <2>3, <3>2
        <4>2. M[k - 1] = H[k]
          BY <2>1, <4>1
        <4> QED
          BY <4>1, <4>2
      <3> QED
        BY <3>1, <3>2
    <2> QED
      BY <2>2, <2>3
  <1> QED
    BY <1>1, <1>2

(***************************************************************************)
(* alloc makes the first bytes of a region padding, the next ones a block, *)
(* and keeps the rest as a region.                                         *)
(***************************************************************************)
LEMMA ListAllocKept == ASSUME ListInv, NEW layout0 \in Layouts, list_alloc(layout0) PROVE ListInv'
  <1>1. PICK sz \in Nat \ {0} : sz = adjust_layout(layout0).size
    BY Adjusted
  <1>2. PICK i \in 1 .. Len(head) : \E s \in Nat :
            /\ Cut(head[i], s, sz)
            /\ head' \in Seq(Regions)
            /\ \/ s + sz = head[i].start + head[i].size /\ Dropped(head, head', i)
               \/ \E r \in Regions :
                    /\ r.start = s + sz /\ r.size >= LIST_NODE_SIZE
                    /\ r.start + r.size = head[i].start + head[i].size
                    /\ Replaced(head, head', i, r)
            /\ list_live' = list_live \cup {[addr |-> s, layout |-> layout0]}
            /\ padding' = padding \cup (head[i].start .. s - 1)
            /\ list_initialized' = list_initialized /\ list_initialized
    BY <1>1, AllocStep
  <1>3. PICK s \in Nat :
            /\ Cut(head[i], s, sz)
            /\ head' \in Seq(Regions)
            /\ \/ s + sz = head[i].start + head[i].size /\ Dropped(head, head', i)
               \/ \E r \in Regions :
                    /\ r.start = s + sz /\ r.size >= LIST_NODE_SIZE
                    /\ r.start + r.size = head[i].start + head[i].size
                    /\ Replaced(head, head', i, r)
            /\ list_live' = list_live \cup {[addr |-> s, layout |-> layout0]}
            /\ padding' = padding \cup (head[i].start .. s - 1)
            /\ list_initialized' = list_initialized /\ list_initialized
    BY <1>2
  <1>4. ListTypeOK /\ RegionsOK(head) /\ BlocksOK /\ head \in Seq(Regions)
    BY DEF ListInv, ListTypeOK
  <1>5. /\ Len(head) \in Nat
        /\ \A k \in 1 .. Len(head) : head[k] \in Regions /\ head[k].start \in Nat /\ head[k].size \in Nat
    BY <1>4, RegionTypes
  <1>6. PICK a \in Nat : a = head[i].start
    BY <1>5
  <1>7. PICK e \in Nat : e = head[i].start + head[i].size
    BY <1>5
  <1>8. a <= s /\ s + sz <= e /\ head[i].size = e - a
    BY <1>3, <1>5, <1>6, <1>7, SMTT(30) DEF Cut
  <1>9. PICK z : z = [addr |-> s, layout |-> layout0]
    OBVIOUS
  <1>10. z.addr = s /\ BlockSize(z) = sz /\ z \in [addr : Nat, layout : Layouts] /\ list_live' = list_live \cup {z}
    BY <1>1, <1>3, <1>9 DEF BlockSize
  \* The list afterwards.
  <1>11. /\ RegionsOK(head')
         /\ \A j \in 1 .. Len(head') :
                \/ \E k \in 1 .. Len(head) : k # i /\ head'[j] = head[k]
                \/ head'[j].start = s + sz /\ head'[j].start + head'[j].size = e
         /\ \A k \in 1 .. Len(head) : k # i => \E j \in 1 .. Len(head') : head'[j] = head[k]
         /\ s + sz = e \/ \E j \in 1 .. Len(head') : head'[j].start = s + sz /\ head'[j].start + head'[j].size = e
    <2>0. head' \in Seq(Regions)
      BY <1>3
    <2>1. CASE s + sz = head[i].start + head[i].size /\ Dropped(head, head', i)
      <3>1. RegionsOK(head')
        BY <1>4, <2>0, <2>1, RegionsKept
      <3>2. /\ \A j \in 1 .. Len(head') : \E k \in 1 .. Len(head) : k # i /\ head'[j] = head[k]
            /\ \A k \in 1 .. Len(head) : k # i => \E j \in 1 .. Len(head') : head'[j] = head[k]
        BY <1>4, <2>0, <2>1, Survivors
      <3> QED
        BY <1>7, <2>1, <3>1, <3>2
    <2>2. CASE \E r \in Regions :
                    /\ r.start = s + sz /\ r.size >= LIST_NODE_SIZE
                    /\ r.start + r.size = head[i].start + head[i].size
                    /\ Replaced(head, head', i, r)
      <3>1. PICK r \in Regions :
                    /\ r.start = s + sz /\ r.size >= LIST_NODE_SIZE
                    /\ r.start + r.size = head[i].start + head[i].size
                    /\ Replaced(head, head', i, r)
        BY <2>2
      <3>2. head[i].start <= r.start /\ r.start + r.size <= head[i].start + head[i].size
        <4>1. a <= s + sz
          BY <1>8
        <4>2. e <= e
          OBVIOUS
        <4> QED
          BY <1>6, <1>7, <3>1, <4>1, <4>2
      <3>3. RegionsOK(head')
        BY <1>4, <2>0, <3>1, <3>2, RegionsKept
      <3>4. /\ \A j \in 1 .. Len(head') : head'[j] = r \/ \E k \in 1 .. Len(head) : k # i /\ head'[j] = head[k]
            /\ \A k \in 1 .. Len(head) : k # i => \E j \in 1 .. Len(head') : head'[j] = head[k]
            /\ \E j \in 1 .. Len(head') : head'[j] = r
        BY <1>4, <2>0, <3>1, Survivors
      <3> QED
        BY <1>7, <3>1, <3>3, <3>4
    <2> QED
      BY <1>3, <2>1, <2>2
  <1>12. ListTypeOK'
    <2>1. padding' \subseteq Nat
      <3>1. a .. s - 1 \subseteq Nat
        OBVIOUS
      <3> QED
        BY <1>3, <1>4, <1>6, <3>1 DEF ListTypeOK
    <2>2. list_live' \subseteq [addr : Nat, layout : Layouts]
      BY <1>4, <1>10 DEF ListTypeOK
    <2> QED
      BY <1>3, <1>4, <2>1, <2>2 DEF ListTypeOK
  <1>13. \A y \in list_live : /\ y.addr \in Nat /\ BlockSize(y) \in Nat
                              /\ Apart(y.addr, BlockSize(y), s, sz)
                              /\ Apart(s, sz, y.addr, BlockSize(y))
                              /\ Apart(s + sz, e - (s + sz), y.addr, BlockSize(y))
    <2> SUFFICES ASSUME NEW y \in list_live
                 PROVE  /\ y.addr \in Nat /\ BlockSize(y) \in Nat
                        /\ Apart(y.addr, BlockSize(y), s, sz)
                        /\ Apart(s, sz, y.addr, BlockSize(y))
                        /\ Apart(s + sz, e - (s + sz), y.addr, BlockSize(y))
      OBVIOUS
    <2>1. y.addr \in Nat /\ BlockSize(y) \in Nat
      BY <1>4, BlockTypes
    <2>2. Apart(a, e - a, y.addr, BlockSize(y))
      BY <1>6, <1>8 DEF ListInv, RegionsApartFrom
    <2> QED
      BY <1>8, <2>1, <2>2, SMTT(30) DEF Apart
  <1>14. BlocksOK'
    <2>1. InHeap(s, sz)
      <3>1. InHeap(a, e - a)
        BY <1>4, <1>6, <1>8 DEF RegionsOK
      <3> QED
        BY <1>8, <3>1, RangeAssumption DEF InHeap, HEAP_END
    <2>2. \A x \in list_live' : InHeap(x.addr, BlockSize(x))
      BY <1>4, <1>10, <2>1 DEF BlocksOK
    <2>3. \A x, y \in list_live' : x # y => Apart(x.addr, BlockSize(x), y.addr, BlockSize(y))
      BY <1>4, <1>10, <1>13 DEF BlocksOK
    <2> QED
      BY <2>2, <2>3 DEF BlocksOK, BlockSize
  <1>15. \A x \in list_live' : RegionsApartFrom(head', x.addr, BlockSize(x))
    <2>1. ASSUME NEW x \in list_live', NEW j \in 1 .. Len(head')
          PROVE  Apart(head'[j].start, head'[j].size, x.addr, BlockSize(x))
      <3>0. head'[j] \in Regions
        BY <1>3
      <3>1. PICK p \in Nat : p = head'[j].start
        BY <3>0 DEF Regions
      <3>2. PICK q \in Nat : q = head'[j].size
        BY <3>0 DEF Regions
      <3>3. CASE \E k \in 1 .. Len(head) : k # i /\ head'[j] = head[k]
        <4>1. PICK k \in 1 .. Len(head) : k # i /\ head'[j] = head[k]
          BY <3>3
        <4>2. CASE x \in list_live
          BY <4>1, <4>2 DEF ListInv, RegionsApartFrom
        <4>3. CASE x = z
          <5>1. Apart(p, q, a, e - a)
            BY <1>4, <1>6, <1>8, <3>1, <3>2, <4>1 DEF RegionsOK
          <5>2. Apart(p, q, s, sz)
            BY <1>8, <5>1 DEF Apart
          <5> QED
            BY <1>10, <3>1, <3>2, <4>3, <5>2
        <4> QED
          BY <1>10, <2>1, <4>2, <4>3
      <3>4. CASE head'[j].start = s + sz /\ head'[j].start + head'[j].size = e
        <4>1. p = s + sz /\ q = e - (s + sz)
          BY <3>1, <3>2, <3>4
        <4>2. CASE x \in list_live
          BY <1>13, <3>1, <3>2, <4>1, <4>2
        <4>3. CASE x = z
          <5>1. Apart(p, q, s, sz)
            BY <4>1 DEF Apart
          <5> QED
            BY <1>10, <3>1, <3>2, <4>3, <5>1
        <4> QED
          BY <1>10, <2>1, <4>2, <4>3
      <3> QED
        BY <1>11, <3>3, <3>4
    <2> QED
      BY <2>1 DEF RegionsApartFrom
  <1>16. ASSUME NEW b \in Nat, InRegions(head', b)
         PROVE  InRegions(head, b) /\ (b < a \/ s + sz <= b)
    <2>1. PICK j \in 1 .. Len(head') : head'[j].start <= b /\ b < head'[j].start + head'[j].size
      BY <1>16 DEF InRegions
    <2>2. CASE \E k \in 1 .. Len(head) : k # i /\ head'[j] = head[k]
      <3>1. PICK k \in 1 .. Len(head) : k # i /\ head'[j] = head[k]
        BY <2>2
      <3>2. PICK p \in Nat : p = head[k].start
        BY <1>5
      <3>3. PICK q \in Nat : q = head[k].size
        BY <1>5
      <3>4. Apart(p, q, a, e - a)
        BY <1>4, <1>6, <1>8, <3>1, <3>2, <3>3 DEF RegionsOK
      <3>5. p <= b /\ b < p + q
        BY <2>1, <3>1, <3>2, <3>3
      <3>6. b < a \/ s + sz <= b
        BY <1>8, <3>4, <3>5 DEF Apart
      <3> QED
        BY <3>2, <3>3, <3>5, <3>6 DEF InRegions
    <2>3. CASE head'[j].start = s + sz /\ head'[j].start + head'[j].size = e
      <3>1. s + sz <= b /\ b < e
        BY <2>1, <2>3
      <3>2. a <= b /\ b < e
        BY <1>8, <3>1
      <3> QED
        BY <1>6, <1>7, <3>1, <3>2 DEF InRegions
    <2> QED
      BY <1>11, <2>2, <2>3
  <1>17. ASSUME NEW b, InBlocks(b)' PROVE InBlocks(b) \/ (s <= b /\ b < s + sz)
    <2>1. PICK x \in list_live' : x.addr <= b /\ b < x.addr + BlockSize(x)
      BY <1>17 DEF InBlocks, BlockSize
    <2> QED
      BY <1>10, <2>1 DEF InBlocks
  <1>18. ASSUME NEW b \in padding' PROVE ~InRegions(head', b) /\ ~InBlocks(b)'
    <2>0. b \in Nat
      BY <1>12, <1>18 DEF ListTypeOK
    <2>1. CASE b \in padding
      <3>1. ~InRegions(head, b) /\ ~InBlocks(b)
        BY <2>1 DEF ListInv
      <3>2. ~(a <= b /\ b < e)
        BY <1>6, <1>7, <3>1 DEF InRegions
      <3>3. ~(s <= b /\ b < s + sz)
        BY <1>8, <2>0, <3>2
      <3> QED
        BY <1>16, <1>17, <2>0, <3>1, <3>3
    <2>2. CASE a <= b /\ b < s
      <3>1. ~InRegions(head', b)
        BY <1>16, <2>0, <2>2
      <3>2. ~InBlocks(b)
        <4> SUFFICES ASSUME NEW x \in list_live, x.addr <= b, b < x.addr + BlockSize(x) PROVE FALSE
          BY DEF InBlocks
        <4>1. PICK p \in Nat : p = x.addr
          BY <1>13
        <4>2. PICK q \in Nat : q = BlockSize(x)
          BY <1>13
        <4>3. Apart(a, e - a, p, q)
          BY <1>6, <1>8, <4>1, <4>2 DEF ListInv, RegionsApartFrom
        <4> QED
          BY <1>8, <2>0, <2>2, <4>1, <4>2, <4>3 DEF Apart
      <3>3. ~(s <= b)
        BY <2>0, <2>2
      <3> QED
        BY <1>17, <3>1, <3>2, <3>3
    <2>3. b \in padding \/ (a <= b /\ b < s)
      BY <1>3, <1>6, <1>18, <2>0
    <2> QED
      BY <2>1, <2>2, <2>3
  <1>19. ASSUME NEW b \in HEAP_START .. HEAP_END - 1
         PROVE  InRegions(head', b) \/ InBlocks(b)' \/ b \in padding'
    <2>0. b \in Nat
      BY RangeAssumption DEF HEAP_END
    <2>1. CASE InRegions(head, b)
      <3>1. PICK k \in 1 .. Len(head) : head[k].start <= b /\ b < head[k].start + head[k].size
        BY <2>1 DEF InRegions
      <3>2. CASE k # i
        BY <1>11, <3>1, <3>2 DEF InRegions
      <3>3. CASE k = i
        <4>1. a <= b /\ b < e
          BY <1>6, <1>7, <3>1, <3>3
        <4>2. CASE b < s
          <5>1. b \in a .. s - 1
            BY <2>0, <4>1, <4>2
          <5> QED
            BY <1>3, <1>6, <5>1
        <4>3. CASE s <= b /\ b < s + sz
          BY <1>10, <4>3 DEF InBlocks, BlockSize
        <4>4. CASE s + sz <= b
          <5>1. s + sz # e
            BY <1>8, <2>0, <4>1, <4>4
          <5>2. PICK j \in 1 .. Len(head') : head'[j].start = s + sz /\ head'[j].start + head'[j].size = e
            BY <1>11, <5>1
          <5> QED
            BY <4>1, <4>4, <5>2 DEF InRegions
        <4> QED
          BY <1>8, <2>0, <4>2, <4>3, <4>4
      <3> QED
        BY <3>2, <3>3
    <2>2. CASE InBlocks(b)
      BY <1>10, <2>2 DEF InBlocks, BlockSize
    <2>3. CASE b \in padding
      BY <1>3, <2>3
    <2> QED
      BY <1>3, <2>1, <2>2, <2>3 DEF ListInv
  <1> QED
    BY <1>3, <1>11, <1>12, <1>14, <1>15, <1>18, <1>19 DEF ListInv, BlockSize

(***************************************************************************)
(* Every step of the list allocator keeps the invariant.                   *)
(***************************************************************************)
LEMMA ListNextKept == ListInv /\ [ListNext]_listVars => ListInv'
  <1> SUFFICES ASSUME ListInv, [ListNext]_listVars PROVE ListInv'
    OBVIOUS
  <1>1. CASE list_init
    BY <1>1, ListInitKept
  <1>2. ASSUME NEW l \in Layouts, list_alloc(l) PROVE ListInv'
    BY <1>2, ListAllocKept
  <1>3. CASE UNCHANGED listVars
    BY <1>3 DEF listVars, ListInv, ListTypeOK, BlocksOK, InBlocks, BlockSize
  <1>4. ASSUME NEW l \in Layouts, list_alloc_null(l) PROVE ListInv'
    BY <1>3, <1>4 DEF list_alloc_null
  <1>5. ASSUME NEW x \in list_live, list_dealloc(x) PROVE ListInv'
    BY <1>5, ListDeallocKept
  <1> QED
    BY <1>1, <1>2, <1>3, <1>4, <1>5 DEF ListNext

(***************************************************************************)
(* An empty list allocator satisfies the invariant.                        *)
(***************************************************************************)
LEMMA ListStarts == ListInit => ListInv
  <1> SUFFICES ASSUME ListInit PROVE ListInv
    OBVIOUS
  <1>1. head = << >> /\ list_live = {} /\ padding = {} /\ list_initialized = FALSE
    BY DEF ListInit
  <1>2. head \in Seq(Regions) /\ Len(head) = 0
    BY <1>1
  <1>3. ListTypeOK
    BY <1>1, <1>2 DEF ListTypeOK
  <1>4. RegionsOK(head)
    BY <1>2 DEF RegionsOK
  <1>5. BlocksOK
    BY <1>1 DEF BlocksOK
  <1> QED
    BY <1>1, <1>3, <1>4, <1>5 DEF ListInv

(***************************************************************************)
(* The invariant is the partition, said of bytes.                          *)
(***************************************************************************)
LEMMA InvPartition == ListInv => ListPartition
  <1> SUFFICES ASSUME ListInv PROVE ListPartition
    OBVIOUS
  <1>0. HEAP_START \in Nat /\ HEAP_END \in Nat
    BY RangeAssumption DEF HEAP_END
  <1>1. /\ Len(head) \in Nat
        /\ \A i \in 1 .. Len(head) : head[i].start \in Nat /\ head[i].size \in Nat
    BY RegionTypes DEF ListInv
  <1>2. \A x \in list_live : x.addr \in Nat /\ BlockSize(x) \in Nat
    BY BlockTypes DEF ListInv
  <1>3. \A b \in Int, i \in 1 .. Len(head) :
            b \in RegionBytes(i) <=> head[i].start <= b /\ b < head[i].start + head[i].size
    BY <1>1 DEF RegionBytes, region_end
  <1>3a. \A i \in 1 .. Len(head) : RegionBytes(i) \subseteq Int
    BY <1>1 DEF RegionBytes, region_end
  <1>4. \A b \in Int, x \in list_live : b \in BlockBytes(x) <=> x.addr <= b /\ b < x.addr + BlockSize(x)
    BY <1>2 DEF BlockBytes, BlockSize
  <1>4a. \A x \in list_live : BlockBytes(x) \subseteq Int
    BY <1>2 DEF BlockBytes, BlockSize
  \* Apart ranges share no byte, and a range inside the heap has its bytes there.
  <1>5. ASSUME NEW a \in Nat, NEW m \in Nat, NEW c \in Nat, NEW n \in Nat, Apart(a, m, c, n),
               NEW b \in Int, a <= b, b < a + m, c <= b, b < c + n
        PROVE  FALSE
    BY <1>5 DEF Apart
  <1>6. ASSUME NEW a \in Nat, NEW m \in Nat, InHeap(a, m), NEW b \in Int, a <= b, b < a + m
        PROVE  b \in HEAP_START .. HEAP_END - 1
    BY <1>0, <1>6 DEF InHeap
  <1>7. ASSUME list_initialized, NEW b \in HEAP_START .. HEAP_END - 1
        PROVE  \/ \E i \in 1 .. Len(head) : b \in RegionBytes(i)
               \/ \E x \in list_live : b \in BlockBytes(x)
               \/ b \in padding
    <2>1. b \in Int
      BY <1>0
    <2>2. InRegions(head, b) \/ InBlocks(b) \/ b \in padding
      BY <1>7 DEF ListInv
    <2> QED
      BY <1>3, <1>4, <2>1, <2>2 DEF InRegions, InBlocks
  <1>8. ASSUME NEW i \in 1 .. Len(head)
        PROVE  /\ head[i].size >= LIST_NODE_SIZE
               /\ RegionBytes(i) \subseteq HEAP_START .. HEAP_END - 1 /\ RegionBytes(i) \cap padding = {}
               /\ \A j \in 1 .. Len(head) : i # j => RegionBytes(i) \cap RegionBytes(j) = {}
               /\ \A x \in list_live : RegionBytes(i) \cap BlockBytes(x) = {}
    <2>1. head[i].size >= LIST_NODE_SIZE /\ InHeap(head[i].start, head[i].size)
      BY DEF ListInv, RegionsOK
    <2>2. RegionBytes(i) \subseteq HEAP_START .. HEAP_END - 1
      BY <1>1, <1>3, <1>3a, <1>6, <2>1
    <2>3. RegionBytes(i) \cap padding = {}
      <3> SUFFICES ASSUME NEW b \in RegionBytes(i), b \in padding PROVE FALSE
        OBVIOUS
      <3>1. InRegions(head, b)
        BY <1>3, <1>3a DEF InRegions
      <3> QED
        BY <3>1 DEF ListInv
    <2>4. ASSUME NEW j \in 1 .. Len(head), i # j, NEW b \in RegionBytes(i), b \in RegionBytes(j) PROVE FALSE
      <3>1. Apart(head[i].start, head[i].size, head[j].start, head[j].size)
        BY <2>4 DEF ListInv, RegionsOK
      <3>2. /\ b \in Int /\ head[i].start <= b /\ b < head[i].start + head[i].size
            /\ head[j].start <= b /\ b < head[j].start + head[j].size
        BY <1>3, <1>3a, <2>4
      <3> QED
        BY <1>1, <1>5, <3>1, <3>2
    <2>5. ASSUME NEW x \in list_live, NEW b \in RegionBytes(i), b \in BlockBytes(x) PROVE FALSE
      <3>1. Apart(head[i].start, head[i].size, x.addr, BlockSize(x))
        BY <2>5 DEF ListInv, RegionsApartFrom
      <3>2. /\ b \in Int /\ head[i].start <= b /\ b < head[i].start + head[i].size
            /\ x.addr <= b /\ b < x.addr + BlockSize(x)
        BY <1>3, <1>3a, <1>4, <2>5
      <3> QED
        BY <1>1, <1>2, <1>5, <3>1, <3>2
    <2>6. \A j \in 1 .. Len(head) : i # j => RegionBytes(i) \cap RegionBytes(j) = {}
      BY <2>4
    <2>7. \A x \in list_live : RegionBytes(i) \cap BlockBytes(x) = {}
      BY <2>5
    <2> QED
      BY <2>1, <2>2, <2>3, <2>6, <2>7
  <1>9. ASSUME NEW x \in list_live
        PROVE  /\ BlockBytes(x) \subseteq HEAP_START .. HEAP_END - 1 /\ BlockBytes(x) \cap padding = {}
               /\ \A y \in list_live : x # y => BlockBytes(x) \cap BlockBytes(y) = {}
    <2>1. InHeap(x.addr, BlockSize(x))
      BY DEF ListInv, BlocksOK
    <2>2. BlockBytes(x) \subseteq HEAP_START .. HEAP_END - 1
      BY <1>2, <1>4, <1>4a, <1>6, <2>1
    <2>3. BlockBytes(x) \cap padding = {}
      <3> SUFFICES ASSUME NEW b \in BlockBytes(x), b \in padding PROVE FALSE
        OBVIOUS
      <3>1. InBlocks(b)
        BY <1>4, <1>4a DEF InBlocks
      <3> QED
        BY <3>1 DEF ListInv
    <2>4. ASSUME NEW y \in list_live, x # y, NEW b \in BlockBytes(x), b \in BlockBytes(y) PROVE FALSE
      <3>1. Apart(x.addr, BlockSize(x), y.addr, BlockSize(y))
        BY <2>4 DEF ListInv, BlocksOK
      <3>2. /\ b \in Int /\ x.addr <= b /\ b < x.addr + BlockSize(x)
            /\ y.addr <= b /\ b < y.addr + BlockSize(y)
        BY <1>4, <1>4a, <2>4
      <3> QED
        BY <1>2, <1>5, <3>1, <3>2
    <2>5. \A y \in list_live : x # y => BlockBytes(x) \cap BlockBytes(y) = {}
      BY <2>4
    <2> QED
      BY <2>2, <2>3, <2>5
  <1> QED
    BY <1>7, <1>8, <1>9 DEF ListPartition

(***************************************************************************)
(* For every heap range, node size and set of layouts: the regions of the  *)
(* list, the blocks clients hold and the padding in front of blocks share  *)
(* no byte and are together the heap, whatever was allocated and given     *)
(* back, and every region has room for the node written into it.           *)
(***************************************************************************)
THEOREM ListPartitioned == LockedSpec => []ListPartition
  <1>1. LockedInit => ListInv
    BY ListStarts DEF LockedInit
  <1>2. [LockedNext]_lockedVars => [ListNext]_listVars
    BY DEF LockedNext, lockedVars
  <1>3. ListInv /\ [LockedNext]_lockedVars => ListInv'
    BY <1>2, ListNextKept
  <1>4. ListInv => ListPartition
    BY InvPartition
  <1> QED
    BY <1>1, <1>3, <1>4, PTL DEF LockedSpec

-----------------------------------------------------------------------------
(* LockedHeap keeps the contract of its clients *)

\* What a call may do to the allocations clients hold: HeapSpec's Next.
ContractStep(L, M) ==
    \E x \in [addr : HEAP_START .. HEAP_START + HEAP_SIZE - 1, layout : Layouts] :
        \/ /\ x.addr + x.layout.size <= HEAP_START + HEAP_SIZE
           /\ x.addr % x.layout.align = 0
           /\ \A y \in L : (x.addr .. x.addr + x.layout.size - 1)
                            \cap (y.addr .. y.addr + y.layout.size - 1) = {}
           /\ M = L \cup {x}
        \/ x \in L /\ M = L \ {x}

(***************************************************************************)
(* Inside ranges that are apart no byte is shared.                         *)
(***************************************************************************)
LEMMA ApartBytes ==
    ASSUME NEW a \in Nat, NEW m \in Nat, NEW b \in Nat, NEW n \in Nat, Apart(a, m, b, n),
           NEW p \in Nat, p <= m, NEW q \in Nat, q <= n
    PROVE  (a .. a + p - 1) \cap (b .. b + q - 1) = {}
  BY DEF Apart

(***************************************************************************)
(* The block of a layout has at least its size.                            *)
(***************************************************************************)
LEMMA BlockHolds ==
    ASSUME NEW l \in Layouts, NEW o \in order_for_layout(l)
    PROVE  o \in Orders /\ block_size(o) \in Nat /\ l.size \in Nat \ {0} /\ l.size <= block_size(o)
  <1>1. l.size \in Nat \ {0} /\ l.align \in Nat
    BY LayoutAssumption
  <1>2. o \in order_for_size(IF l.size >= l.align THEN l.size ELSE l.align)
    BY DEF order_for_layout
  <1>3. o \in Orders /\ block_size(o) >= IF l.size >= l.align THEN l.size ELSE l.align
    BY <1>2 DEF order_for_size
  <1>4. block_size(o) \in Nat
    BY <1>3, BlockSizes
  <1> QED
    BY <1>1, <1>3, <1>4

(***************************************************************************)
(* A call of the buddy allocator hands out, takes back, or neither.        *)
(***************************************************************************)
LEMMA BuddyContract ==
    ASSUME \A l \in Layouts : HEAP_START % l.align = 0,
           Inv, AlignInv, Inv', AlignInv', [Next]_vars
    PROVE  ContractStep(live, live') \/ live' = live
  <1>0. HEAP_START \in Nat /\ HEAP_SIZE \in Nat /\ HEAP_END = HEAP_START + HEAP_SIZE
    BY RangeAssumption DEF HEAP_END
  <1>1. CASE EndAlloc
    <2>1. /\ pc = "split" /\ order \in order_for_layout(layout)
          /\ live' = live \cup {[addr |-> addr, layout |-> layout]}
      BY <1>1 DEF EndAlloc
    <2>2. layout \in Layouts /\ addr \in Nat /\ HeldApart /\ HeldSize = block_size(order) /\ TypeOK
      BY <2>1 DEF Inv, TypeOK, CallOK, NoOverlap, HeldSize
    <2>3. PICK z : z = [addr |-> addr, layout |-> layout]
      OBVIOUS
    <2>4. z.addr = addr /\ z.layout = layout /\ live' = live \cup {z}
      BY <2>1, <2>3
    <2>5. PICK n \in Nat : n = block_size(order)
      BY <2>1, <2>2, BlockHolds
    <2>6. PICK sz \in Nat \ {0} : sz = layout.size
      BY <2>1, <2>2, BlockHolds
    <2>7. sz <= n
      BY <2>1, <2>2, <2>5, <2>6, BlockHolds
    <2>8. InHeap(addr, n)
      BY <2>2, <2>5 DEF HeldApart
    <2>9. addr + sz <= HEAP_START + HEAP_SIZE /\ addr \in HEAP_START .. HEAP_START + HEAP_SIZE - 1
      BY <1>0, <2>2, <2>7, <2>8 DEF InHeap
    <2>10. z \in [addr : HEAP_START .. HEAP_START + HEAP_SIZE - 1, layout : Layouts]
      BY <2>2, <2>3, <2>9
    <2>11. z.addr % z.layout.align = 0
      <3>1. AlignedAsStart'
        BY AlignedPointers, PTL
      <3>2. z \in live' /\ z.layout \in Layouts
        BY <2>2, <2>4
      <3> QED
        BY <3>1, <3>2 DEF AlignedAsStart
    <2>12. ASSUME NEW y \in live
           PROVE  (z.addr .. z.addr + z.layout.size - 1) \cap (y.addr .. y.addr + y.layout.size - 1) = {}
      <3>1. PICK o \in order_for_layout(y.layout) : TRUE
        BY DEF AlignInv
      <3>2. y.addr \in Nat /\ y.layout \in Layouts
        BY <2>2 DEF TypeOK
      <3>3. PICK m \in Nat : m = block_size(o)
        BY <3>1, <3>2, BlockHolds
      <3>4. PICK k \in Nat : k = y.layout.size
        BY <3>1, <3>2, BlockHolds
      <3>5. k <= m
        BY <3>1, <3>2, <3>3, <3>4, BlockHolds
      <3>6. Apart(y.addr, m, addr, n)
        BY <2>2, <2>5, <3>1, <3>3 DEF HeldApart
      <3>7. (y.addr .. y.addr + k - 1) \cap (addr .. addr + sz - 1) = {}
        BY <2>2, <2>7, <3>2, <3>5, <3>6, ApartBytes
      <3> QED
        BY <2>4, <2>6, <3>4, <3>7
    <2> QED
      BY <2>4, <2>6, <2>9, <2>10, <2>11, <2>12 DEF ContractStep
  <1>2. ASSUME NEW x \in live, BeginDealloc(x) PROVE ContractStep(live, live')
    <2>1. live' = live \ {x}
      BY <1>2 DEF BeginDealloc
    <2>2. PICK o \in order_for_layout(x.layout) : TRUE
      BY DEF AlignInv
    <2>3. x \in [addr : Nat, layout : Layouts]
      BY DEF Inv, TypeOK
    <2>4. o \in Orders /\ block_size(o) \in Nat /\ block_size(o) > 0
      BY <2>2, <2>3, BlockHolds, BlockSizes
    <2>5. InHeap(x.addr, block_size(o))
      BY <2>2 DEF Inv, NoOverlap, LiveInHeap
    <2>6. x.addr \in HEAP_START .. HEAP_START + HEAP_SIZE - 1
      BY <1>0, <2>3, <2>4, <2>5 DEF InHeap
    <2>7. x \in [addr : HEAP_START .. HEAP_START + HEAP_SIZE - 1, layout : Layouts]
      BY <2>3, <2>6
    <2> QED
      BY <2>1, <2>7 DEF ContractStep
  <1>3. CASE BeginInit \/ SeedBlock \/ EndInit \/ SplitBlock \/ MergeBuddy \/ EndDealloc
    BY <1>3 DEF BeginInit, SeedBlock, EndInit, SplitBlock, MergeBuddy, EndDealloc
  <1>4. ASSUME NEW l \in Layouts, BeginAlloc(l) \/ AllocNull(l) PROVE live' = live
    BY <1>4 DEF BeginAlloc, AllocNull
  <1>5. CASE UNCHANGED vars
    BY <1>5 DEF vars
  <1> QED
    BY <1>1, <1>2, <1>3, <1>4, <1>5 DEF Next, Step

(***************************************************************************)
(* So does a call of the list allocator, wherever the heap starts.         *)
(***************************************************************************)
LEMMA ListContract ==
    ASSUME ListInv, [ListNext]_listVars
    PROVE  ContractStep(list_live, list_live') \/ list_live' = list_live
  <1>0. HEAP_START \in Nat /\ HEAP_SIZE \in Nat /\ HEAP_END = HEAP_START + HEAP_SIZE
    BY RangeAssumption DEF HEAP_END
  <1>1. ListTypeOK /\ BlocksOK /\ RegionsOK(head)
    BY DEF ListInv
  <1>2. ASSUME NEW l \in Layouts, list_alloc(l) PROVE ContractStep(list_live, list_live')
    <2>1. PICK n \in Nat \ {0} : n = adjust_layout(l).size
      BY Adjusted
    <2>2. PICK al \in Nat \ {0} : al = adjust_layout(l).align
      BY Adjusted
    <2>3. PICK i \in 1 .. Len(head) : \E s \in Nat :
            /\ Cut(head[i], s, n) /\ s % al = 0
            /\ list_live' = list_live \cup {[addr |-> s, layout |-> l]}
      BY <1>2, <2>1, <2>2, AllocStep
    <2>4. PICK s \in Nat : /\ Cut(head[i], s, n) /\ s % al = 0
                           /\ list_live' = list_live \cup {[addr |-> s, layout |-> l]}
      BY <2>3
    <2>5. PICK z : z = [addr |-> s, layout |-> l]
      OBVIOUS
    <2>6. PICK a \in Nat : a = head[i].start
      BY <1>1, RegionTypes
    <2>7. PICK e \in Nat : e = head[i].size
      BY <1>1, RegionTypes
    <2>8. a <= s /\ s + n <= a + e /\ InHeap(a, e)
      BY <1>1, <2>4, <2>6, <2>7 DEF Cut, RegionsOK
    <2>9. PICK sz \in Nat \ {0} : sz = l.size /\ sz <= n
      BY <2>1, Adjusted
    <2>10. s + sz <= HEAP_START + HEAP_SIZE /\ s \in HEAP_START .. HEAP_START + HEAP_SIZE - 1
      BY <1>0, <2>8, <2>9 DEF InHeap
    <2>11. z \in [addr : HEAP_START .. HEAP_START + HEAP_SIZE - 1, layout : Layouts] /\ z.addr = s /\ z.layout = l
      BY <2>5, <2>10
    <2>12. s % l.align = 0
      <3>1. l.align \in Nat \ {0} /\ al % l.align = 0 /\ s \in Int
        BY <2>2, Adjusted
      <3> QED
        BY <2>4, <3>1, MultipleOfMultiple
    <2>13. ASSUME NEW y \in list_live
           PROVE  (z.addr .. z.addr + z.layout.size - 1) \cap (y.addr .. y.addr + y.layout.size - 1) = {}
      <3>1. PICK b \in Nat : b = y.addr
        BY <1>1, BlockTypes
      <3>2. PICK m \in Nat : m = BlockSize(y)
        BY <1>1, BlockTypes
      <3>3. PICK k \in Nat : k = y.layout.size /\ k <= m
        <4>1. y.layout \in Layouts /\ BlockSize(y) >= y.layout.size
          BY <1>1, BlockTypes
        <4>2. y.layout.size \in Nat
          BY <4>1, Adjusted
        <4> QED
          BY <3>2, <4>1, <4>2
      <3>4. Apart(a, e, b, m)
        BY <2>6, <2>7, <3>1, <3>2 DEF ListInv, RegionsApartFrom
      <3>5. Apart(s, n, b, m)
        BY <2>8, <3>4 DEF Apart
      <3>6. (s .. s + sz - 1) \cap (b .. b + k - 1) = {}
        BY <2>9, <3>3, <3>5, ApartBytes
      <3> QED
        BY <2>9, <2>11, <3>1, <3>3, <3>6
    <2> QED
      BY <2>4, <2>5, <2>9, <2>10, <2>11, <2>12, <2>13 DEF ContractStep
  <1>3. ASSUME NEW x \in list_live, list_dealloc(x) PROVE ContractStep(list_live, list_live')
    <2>1. list_live' = list_live \ {x}
      BY <1>3 DEF list_dealloc
    <2>2. PICK n \in Nat \ {0} : n = BlockSize(x)
      BY <1>1, BlockTypes
    <2>3. x \in [addr : Nat, layout : Layouts] /\ InHeap(x.addr, n)
      BY <1>1, <2>2 DEF ListTypeOK, BlocksOK
    <2>4. x.addr \in HEAP_START .. HEAP_START + HEAP_SIZE - 1
      BY <1>0, <2>3 DEF InHeap
    <2>5. x \in [addr : HEAP_START .. HEAP_START + HEAP_SIZE - 1, layout : Layouts]
      BY <2>3, <2>4
    <2> QED
      BY <2>1, <2>5 DEF ContractStep
  <1>4. CASE list_init
    BY <1>4 DEF list_init
  <1>5. ASSUME NEW l \in Layouts, list_alloc_null(l) PROVE list_live' = list_live
    BY <1>5 DEF list_alloc_null, listVars
  <1>6. CASE UNCHANGED listVars
    BY <1>6 DEF listVars
  <1> QED
    BY <1>2, <1>3, <1>4, <1>5, <1>6 DEF ListNext

\* Whichever allocator is inside, the other one stays as it was built.
LockedInv ==
    /\ inner \in {"BuddyAllocator", "ListAllocator"}
    /\ Inv /\ AlignInv /\ ListInv

(***************************************************************************)
(* For every heap range, block orders, node size and set of layouts:       *)
(* whichever allocator LockedHeap was built with, its clients see the      *)
(* contract of MemoryAllocator.  A pointer handed out has the alignment of *)
(* its layout, lies with all its bytes inside the heap and shares none of  *)
(* them with another allocation.  The one hypothesis is the hidden demand  *)
(* of the buddy allocator that the heap starts at a multiple of every      *)
(* alignment clients ask for; AlignedToLayout has the counterexample where *)
(* it does not.                                                            *)
(***************************************************************************)
THEOREM HeapImplemented ==
    ASSUME \A l \in Layouts : HEAP_START % l.align = 0
    PROVE  LockedSpec => ImplementsHeap
  <1>1. LockedInit => LockedInv
    <2>1. Init => AlignInv
      BY DEF Init, AlignInv, ListsAligned
    <2> QED
      BY <2>1, InitInv, ListStarts DEF LockedInit, LockedInv
  <1>2. LockedInv /\ [LockedNext]_lockedVars => LockedInv'
    <2> SUFFICES ASSUME LockedInv, [LockedNext]_lockedVars PROVE LockedInv'
      OBVIOUS
    <2>1. [Next]_vars /\ [ListNext]_listVars /\ inner' = inner
      BY DEF LockedNext, lockedVars
    <2> QED
      BY <2>1, NextInv, AlignNext, ListNextKept DEF LockedInv
  <1>3. LockedInit => Heap!Init
    BY DEF LockedInit, Init, ListInit, Heap!Init
  <1>4. LockedInv /\ LockedInv' /\ [LockedNext]_lockedVars
            => [Heap!Next]_(IF inner = "BuddyAllocator" THEN live ELSE list_live)
    <2> SUFFICES ASSUME LockedInv, LockedInv', [LockedNext]_lockedVars
                 PROVE  [Heap!Next]_(IF inner = "BuddyAllocator" THEN live ELSE list_live)
      OBVIOUS
    <2>1. [Next]_vars /\ [ListNext]_listVars /\ inner' = inner
      BY DEF LockedNext, lockedVars
    <2>2. ContractStep(live, live') \/ live' = live
      BY <2>1, BuddyContract DEF LockedInv
    <2>3. ContractStep(list_live, list_live') \/ list_live' = list_live
      BY <2>1, ListContract DEF LockedInv
    <2>4. CASE inner = "BuddyAllocator"
      BY <2>1, <2>2, <2>4 DEF ContractStep, Heap!Next, Heap!Alloc, Heap!Dealloc, Heap!Bytes, Heap!Allocations
    <2>5. CASE inner # "BuddyAllocator"
      BY <2>1, <2>3, <2>5 DEF ContractStep, Heap!Next, Heap!Alloc, Heap!Dealloc, Heap!Bytes, Heap!Allocations
    <2> QED
      BY <2>4, <2>5
  <1> QED
    BY <1>1, <1>2, <1>3, <1>4, PTL DEF LockedSpec, ImplementsHeap, Heap!Spec
===============================================================================
