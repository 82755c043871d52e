--------------------------- MODULE FramebufferProofs ---------------------------
(***************************************************************************)
(* Theorems about the framebuffer, for every screen, every pitch and every *)
(* argument of the calls: the raw accesses to the two buffers stay inside  *)
(* them, with the keyboard interrupt falling anywhere too.                 *)
(***************************************************************************)
EXTENDS FramebufferIrq, SequenceTheorems, TLAPS

Rects == [min_x : 0..WIDTH, min_y : 0..HEIGHT, max_x : 0..WIDTH, max_y : 0..HEIGHT]
\* Rectangles with a pixel in them.
Areas == {r \in Rects : r.min_x < r.max_x /\ r.min_y < r.max_y}

Fills == {Fill(r, c) : r \in Areas, c \in Colors}
Copies == {Copy(r, sx, sy) : r \in Areas, sx \in 0..WIDTH-1, sy \in 0..HEIGHT-1}
\* Copies whose source is on the screen.
CopiesInside == {o \in Copies : /\ o.sx + (o.r.max_x - o.r.min_x) <= WIDTH
                                /\ o.sy + (o.r.max_y - o.r.min_y) <= HEIGHT}
Marks == {Mark(r) : r \in Areas}
Ops == Fills \cup CopiesInside \cup Marks \cup {Present}

\* What the steps need of the operation they are at.
OpOK(o) ==
    /\ o.op \in {"fill", "copy", "mark", "present"}
    /\ o.op # "present" => o.r \in Areas
    /\ o.op = "copy" => /\ o.sx \in Nat /\ o.sx + (o.r.max_x - o.r.min_x) <= WIDTH
                        /\ o.sy \in Nat /\ o.sy + (o.r.max_y - o.r.min_y) <= HEIGHT

\* The values corner j may have.
Limit(j) == IF j \in {1, 3} THEN 0..WIDTH ELSE 0..HEIGHT

(***************************************************************************)
(* The inductive invariant for the accesses.  The corners of the dirty     *)
(* rectangle and of present's copy of it may belong to different           *)
(* rectangles, when an interrupt has torn them, so nothing relates them    *)
(* but the limits of the screen; what makes the copy safe is present's own *)
(* test for an empty rectangle.                                            *)
(***************************************************************************)
FbInv ==
    /\ dirty \in Rects /\ snap \in Rects /\ ops \in Seq(Ops)
    /\ pc \in {"idle", "done"} \/ ops # << >>
    /\ pc \in {"idle", "done", "row", "test", "dirty", "set", "load", "store",
               "ptest", "read", "clean", "show"}
    /\ pc = "row" => /\ Head(ops).op \in {"fill", "copy"}
                     /\ row \in Head(ops).r.min_y .. Head(ops).r.max_y - 1
    /\ pc \in {"test", "dirty", "set", "load", "store"} => Head(ops).op # "present"
    /\ pc \in {"dirty", "set", "load", "store", "read"} => k \in 1..4
    /\ pc = "store" => reg \in Limit(k)
    /\ pc = "show" => snap \in Areas /\ row \in snap.min_y .. snap.max_y - 1

-----------------------------------------------------------------------------
(* Rectangles *)

(***************************************************************************)
(* What clipping a rectangle that is not rejected gives.                   *)
(***************************************************************************)
LEMMA ClipFacts ==
    ASSUME NEW x \in 0..USIZE_MAX, NEW y \in 0..USIZE_MAX,
           NEW w \in 0..USIZE_MAX, NEW h \in 0..USIZE_MAX, ~Rejected(x, y, w, h)
    PROVE  /\ Clip(x, y, w, h) \in Areas
           /\ Clip(x, y, w, h).min_x = x /\ Clip(x, y, w, h).min_y = y
           /\ Clip(x, y, w, h).max_x <= x + w /\ Clip(x, y, w, h).max_y <= y + h
  <1> DEFINE mx == least(saturating_add(x, w), WIDTH)
             my == least(saturating_add(y, h), HEIGHT)
  <1>1. /\ x \in 0..WIDTH /\ mx \in 0..WIDTH /\ x < mx /\ mx <= x + w
        /\ y \in 0..HEIGHT /\ my \in 0..HEIGHT /\ y < my /\ my <= y + h
    BY ScreenAssumption DEF least, saturating_add, Rejected
  <1>2. Clip(x, y, w, h) = [min_x |-> x, min_y |-> y, max_x |-> mx, max_y |-> my]
    BY DEF Clip
  <1> HIDE DEF mx, my
  <1> QED
    BY <1>1, <1>2 DEF Areas, Rects

(***************************************************************************)
(* Storing one corner within its limit leaves a rectangle on the screen.   *)
(***************************************************************************)
LEMMA SetCorner ==
    ASSUME NEW r \in Rects, NEW j \in 1..4, NEW v \in Limit(j)
    PROVE  [r EXCEPT ![Corner[j]] = v] \in Rects
  <1>1. CASE j = 1
    BY <1>1 DEF Corner, Rects, Limit
  <1>2. CASE j = 2
    BY <1>2 DEF Corner, Rects, Limit
  <1>3. CASE j = 3
    BY <1>3 DEF Corner, Rects, Limit
  <1>4. CASE j = 4
    BY <1>4 DEF Corner, Rects, Limit
  <1> QED
    BY <1>1, <1>2, <1>3, <1>4

(***************************************************************************)
(* A corner of a rectangle on the screen is within its limit.              *)
(***************************************************************************)
LEMMA GetCorner ==
    ASSUME NEW r \in Rects, NEW j \in 1..4
    PROVE  r[Corner[j]] \in Limit(j)
  <1>1. CASE j = 1
    BY <1>1 DEF Corner, Rects, Limit
  <1>2. CASE j = 2
    BY <1>2 DEF Corner, Rects, Limit
  <1>3. CASE j = 3
    BY <1>3 DEF Corner, Rects, Limit
  <1>4. CASE j = 4
    BY <1>4 DEF Corner, Rects, Limit
  <1> QED
    BY <1>1, <1>2, <1>3, <1>4

(***************************************************************************)
(* The whole screen is an area, and the rectangle of no call is one too.   *)
(***************************************************************************)
LEMMA WholeFacts == Whole \in Areas /\ NoRect \in Rects
  BY ScreenAssumption DEF Whole, NoRect, Areas, Rects

(***************************************************************************)
(* Every operation of a call is well formed.                               *)
(***************************************************************************)
LEMMA OpFacts == \A o \in Ops : OpOK(o)
  <1> TAKE o \in Ops
  <1>1. CASE o \in Fills
    BY <1>1 DEF Fills, Fill, OpOK
  <1>2. CASE o \in CopiesInside
    BY <1>2, ScreenAssumption DEF CopiesInside, Copies, Copy, OpOK
  <1>3. CASE o \in Marks
    BY <1>3 DEF Marks, Mark, OpOK
  <1>4. CASE o = Present
    BY <1>4 DEF Present, OpOK
  <1> QED
    BY <1>1, <1>2, <1>3, <1>4 DEF Ops

-----------------------------------------------------------------------------
(* The calls *)

(***************************************************************************)
(* The operations of the calls that fill a rectangle.                      *)
(***************************************************************************)
LEMMA FillCalls ==
    ASSUME NEW x \in 0..USIZE_MAX, NEW y \in 0..USIZE_MAX,
           NEW w \in 0..USIZE_MAX, NEW h \in 0..USIZE_MAX, NEW c \in Colors
    PROVE  /\ put_pixel(x, y, c) \in Seq(Ops)
           /\ clear(c) \in Seq(Ops)
           /\ draw_rect(x, y, w, h, c) \in Seq(Ops)
  <1>1. \A r \in Areas : << Fill(r, c) >> \in Seq(Ops)
    BY DEF Ops, Fills
  <1>2. << >> \in Seq(Ops)
    OBVIOUS
  <1>3. put_pixel(x, y, c) \in Seq(Ops)
    <2>1. 1 \in 0..USIZE_MAX
      BY ScreenAssumption
    <2>2. ~(x >= WIDTH \/ y >= HEIGHT) => ~Rejected(x, y, 1, 1)
      BY DEF Rejected
    <2> QED
      BY <1>1, <1>2, <2>1, <2>2, ClipFacts DEF put_pixel
  <1>4. clear(c) \in Seq(Ops)
    BY <1>1, WholeFacts DEF clear
  <1>5. draw_rect(x, y, w, h, c) \in Seq(Ops)
    BY <1>1, <1>2, ClipFacts DEF draw_rect
  <1> QED
    BY <1>3, <1>4, <1>5

(***************************************************************************)
(* copy_rect clips its size at the source and at the destination.          *)
(***************************************************************************)
LEMMA CopyCall ==
    ASSUME NEW sx \in 0..USIZE_MAX, NEW sy \in 0..USIZE_MAX,
           NEW dx \in 0..USIZE_MAX, NEW dy \in 0..USIZE_MAX,
           NEW w \in 0..USIZE_MAX, NEW h \in 0..USIZE_MAX
    PROVE  copy_rect(sx, sy, dx, dy, w, h) \in Seq(Ops)
  <1> DEFINE cw == least(least(w, WIDTH - sx), WIDTH - dx)
             ch == least(least(h, HEIGHT - sy), HEIGHT - dy)
             r == Clip(dx, dy, cw, ch)
  <1>1. CASE Rejected(sx, sy, w, h) \/ Rejected(dx, dy, w, h)
    BY <1>1 DEF copy_rect
  <1>2. CASE ~Rejected(sx, sy, w, h) /\ ~Rejected(dx, dy, w, h)
    <2>1. /\ cw \in 0..USIZE_MAX /\ ch \in 0..USIZE_MAX /\ ~Rejected(dx, dy, cw, ch)
          /\ sx + cw <= WIDTH /\ sy + ch <= HEIGHT
          /\ sx \in 0..WIDTH-1 /\ sy \in 0..HEIGHT-1
      BY <1>2, ScreenAssumption DEF Rejected, least
    <2>2. copy_rect(sx, sy, dx, dy, w, h) = << Copy(r, sx, sy) >>
      BY <1>2 DEF copy_rect
    <2> HIDE DEF cw, ch
    <2>3. /\ r \in Areas /\ r.min_x = dx /\ r.min_y = dy
          /\ r.max_x <= dx + cw /\ r.max_y <= dy + ch
      BY <2>1, ClipFacts
    <2> HIDE DEF r
    <2>4. r.max_x \in Nat /\ r.max_y \in Nat
      BY <2>3, ScreenAssumption DEF Areas, Rects
    <2>5. sx + (r.max_x - r.min_x) <= WIDTH /\ sy + (r.max_y - r.min_y) <= HEIGHT
      BY <2>1, <2>3, <2>4, ScreenAssumption
    <2>6. Copy(r, sx, sy) \in CopiesInside
      BY <2>1, <2>3, <2>5 DEF CopiesInside, Copies, Copy
    <2> QED
      BY <2>2, <2>6 DEF Ops
  <1> QED
    BY <1>1, <1>2

(***************************************************************************)
(* The operations of scroll_up, which calls copy_rect and draw_rect.       *)
(***************************************************************************)
LEMMA ScrollCall ==
    ASSUME NEW n \in 0..USIZE_MAX, NEW c \in Colors
    PROVE  scroll_up(n, c) \in Seq(Ops)
  <1>1. CASE n = 0
    <2>1. scroll_up(n, c) = << >>
      BY <1>1, ScreenAssumption DEF scroll_up
    <2> QED
      BY <2>1
  <1>2. CASE n >= HEIGHT
    <2>1. scroll_up(n, c) = clear(c)
      BY <1>2, ScreenAssumption DEF scroll_up
    <2> QED
      BY <2>1, FillCalls
  <1>3. CASE n \in 1..HEIGHT-1
    <2>1. scroll_up(n, c) = copy_rect(0, n, 0, 0, WIDTH, HEIGHT - n)
                                \o draw_rect(0, HEIGHT - n, WIDTH, n, c)
      BY <1>3, ScreenAssumption DEF scroll_up
    <2>2. {0, WIDTH, HEIGHT - n} \subseteq 0..USIZE_MAX
      BY <1>3, ScreenAssumption
    <2>3. /\ copy_rect(0, n, 0, 0, WIDTH, HEIGHT - n) \in Seq(Ops)
          /\ draw_rect(0, HEIGHT - n, WIDTH, n, c) \in Seq(Ops)
      BY <2>2, CopyCall, FillCalls
    <2> QED
      BY <2>1, <2>3
  <1> QED
    BY <1>1, <1>2, <1>3, ScreenAssumption

(***************************************************************************)
(* The operations of the two presents.                                     *)
(***************************************************************************)
LEMMA PresentCalls == present \in Seq(Ops) /\ present_full \in Seq(Ops)
  <1>1. Present \in Ops /\ Mark(Whole) \in Ops
    BY WholeFacts DEF Ops, Marks
  <1> QED
    BY <1>1 DEF present, present_full

(***************************************************************************)
(* Every call starts with well-formed operations.                          *)
(***************************************************************************)
LEMMA CallsOps == Calls => /\ pc = "idle" /\ ops' \in Seq(Ops)
                           /\ pc' = Entry(ops') /\ row' = EntryRow(ops')
                           /\ UNCHANGED <<back, front, DIRTY, dirty, k, reg, snap>>
  <1> SUFFICES ASSUME Calls
               PROVE  /\ pc = "idle" /\ ops' \in Seq(Ops)
                      /\ pc' = Entry(ops') /\ row' = EntryRow(ops')
                      /\ UNCHANGED <<back, front, DIRTY, dirty, k, reg, snap>>
    OBVIOUS
  <1> USE ArgumentAssumption
  <1>1. CASE PutPixel
    BY <1>1, FillCalls DEF PutPixel, Call
  <1>2. CASE Clear
    <2>1. 0 \in 0..USIZE_MAX
      BY ScreenAssumption
    <2> QED
      BY <1>2, <2>1, FillCalls DEF Clear, Call
  <1>3. CASE DrawRect
    BY <1>3, FillCalls DEF DrawRect, Call
  <1>4. CASE CopyRect
    BY <1>4, CopyCall DEF CopyRect, Call
  <1>5. CASE ScrollUp
    BY <1>5, ScrollCall DEF ScrollUp, Call
  <1>6. CASE PresentDirty \/ PresentFull
    BY <1>6, PresentCalls DEF PresentDirty, PresentFull, Call
  <1> QED
    BY <1>1, <1>2, <1>3, <1>4, <1>5, <1>6 DEF Calls

(***************************************************************************)
(* Where the next operation starts.                                        *)
(***************************************************************************)
LEMMA EntryFacts ==
    ASSUME NEW todo \in Seq(Ops)
    PROVE  /\ Entry(todo) \in {"done", "row", "test", "ptest"}
           /\ Entry(todo) # "done" => todo # << >>
           /\ Entry(todo) = "row" => /\ Head(todo).op \in {"fill", "copy"}
                                     /\ EntryRow(todo) \in Head(todo).r.min_y .. Head(todo).r.max_y - 1
           /\ Entry(todo) = "test" => Head(todo).op = "mark"
           /\ Entry(todo) = "ptest" => Head(todo).op = "present"
  <1>1. CASE todo = << >>
    BY <1>1 DEF Entry
  <1>2. CASE todo # << >>
    <2>1. Head(todo) \in Ops
      BY <1>2
    <2>2. OpOK(Head(todo))
      BY <2>1, OpFacts
    <2>3. CASE Head(todo).op \in {"fill", "copy"}
      <3>1. Head(todo).op # "mark" /\ Head(todo).op # "present"
        BY <2>3
      <3>2. Entry(todo) = "row"
        BY <1>2, <2>3, <3>1 DEF Entry
      <3>3. Head(todo).r \in Areas
        BY <2>2, <3>1 DEF OpOK
      <3>4. EntryRow(todo) = Head(todo).r.min_y
        BY <1>2 DEF EntryRow
      <3>5. EntryRow(todo) \in Head(todo).r.min_y .. Head(todo).r.max_y - 1
        BY <3>3, <3>4, ScreenAssumption DEF Areas, Rects
      <3> QED
        BY <1>2, <2>3, <3>2, <3>5
    <2>4. CASE Head(todo).op = "mark"
      <3>1. Head(todo).op \notin {"fill", "copy"} /\ Head(todo).op # "present"
        BY <2>4
      <3>2. Entry(todo) = "test"
        BY <1>2, <2>4, <3>1 DEF Entry
      <3> QED
        BY <1>2, <2>4, <3>2
    <2>5. CASE Head(todo).op = "present"
      <3>1. Head(todo).op \notin {"fill", "copy"} /\ Head(todo).op # "mark"
        BY <2>5
      <3>2. Entry(todo) = "ptest"
        BY <1>2, <2>5, <3>1 DEF Entry
      <3> QED
        BY <1>2, <2>5, <3>2
    <2> QED
      BY <2>2, <2>3, <2>4, <2>5 DEF OpOK
  <1> QED
    BY <1>1, <1>2

-----------------------------------------------------------------------------
(* The steps preserve the invariant *)

(***************************************************************************)
(* Going on to another operation keeps the invariant.                      *)
(***************************************************************************)
LEMMA EnterInv ==
    ASSUME dirty' \in Rects, snap' \in Rects, ops' \in Seq(Ops),
           pc' = Entry(ops'), row' = EntryRow(ops')
    PROVE  FbInv'
  BY EntryFacts DEF FbInv

(***************************************************************************)
(* So does the end of an operation.                                        *)
(***************************************************************************)
LEMMA FinishInv ==
    ASSUME FbInv, ops # << >>, dirty' \in Rects, snap' \in Rects, Finish
    PROVE  FbInv'
  <1>1. ops' \in Seq(Ops)
    BY DEF FbInv, Finish
  <1> QED
    BY <1>1, EnterInv DEF Finish

(***************************************************************************)
(* Calls start in the invariant.                                           *)
(***************************************************************************)
LEMMA CallsInv == FbInv /\ Calls => FbInv'
  BY CallsOps, EnterInv DEF FbInv

(***************************************************************************)
(* The loop over rows stays inside the clipped rectangle.                  *)
(***************************************************************************)
LEMMA WriteRowInv == FbInv /\ WriteRow => FbInv'
  <1> SUFFICES ASSUME FbInv, WriteRow PROVE FbInv'
    OBVIOUS
  <1>1. /\ pc = "row" /\ row' = row + 1
        /\ pc' = IF row' = Head(ops).r.max_y THEN "test" ELSE "row"
        /\ UNCHANGED <<dirty, ops, k, reg, snap>>
    BY DEF WriteRow
  <1>2. Head(ops) \in Ops /\ Head(ops).op \in {"fill", "copy"}
    BY <1>1 DEF FbInv
  <1>3. Head(ops).r \in Areas
    BY <1>2, OpFacts DEF OpOK
  <1>4. Head(ops).r.min_y \in Nat /\ Head(ops).r.max_y \in Nat
    BY <1>3, ScreenAssumption DEF Areas, Rects
  <1>5. pc' = "row" => row' \in Head(ops).r.min_y .. Head(ops).r.max_y - 1
    BY <1>1, <1>4 DEF FbInv
  <1> QED
    BY <1>1, <1>2, <1>5 DEF FbInv

(***************************************************************************)
(* Whatever order the corners are read and stored in, each of them stays   *)
(* on the screen.                                                          *)
(***************************************************************************)
LEMMA MarkInv ==
    ASSUME FbInv, MarkTest \/ MarkFlag \/ MarkSet \/ MarkLoad \/ MarkStore
    PROVE  FbInv'
  <1>1. CASE MarkTest
    <2>1. /\ pc = "test" /\ pc' \in {"load", "dirty"} /\ k' = 1
          /\ UNCHANGED <<dirty, snap, ops, row, reg>>
      BY <1>1 DEF MarkTest
    <2> QED
      BY <2>1 DEF FbInv
  <1>2. ASSUME pc \in {"set", "load", "store"}
        PROVE  k \in 1..4 /\ ops # << >> /\ Head(ops).r \in Rects /\ dirty \in Rects
    <2>1. ops # << >> /\ ops \in Seq(Ops) /\ Head(ops).op # "present"
      BY <1>2 DEF FbInv
    <2>2. Head(ops) \in Ops
      BY <2>1
    <2> QED
      BY <1>2, <2>1, <2>2, OpFacts DEF OpOK, Areas, FbInv
  <1>3. CASE MarkSet
    <2>1. pc = "set" /\ k' = k + 1 /\ UNCHANGED <<snap, reg>>
          /\ dirty' = [dirty EXCEPT ![Corner[k]] = Head(ops).r[Corner[k]]]
      BY <1>3 DEF MarkSet
    <2>2. dirty' \in Rects
      BY <1>2, <2>1, GetCorner, SetCorner
    <2>3. CASE k = 4
      BY <1>2, <1>3, <2>1, <2>2, <2>3, FinishInv DEF MarkSet, FbInv
    <2>4. CASE k # 4
      BY <1>2, <1>3, <2>1, <2>2, <2>4 DEF MarkSet, FbInv
    <2> QED
      BY <2>3, <2>4
  <1>4. CASE MarkLoad
    <2>1. pc = "load" /\ pc' = "store" /\ reg' = Widened(Corner[k])
          /\ UNCHANGED <<ops, k, dirty, snap, row>>
      BY <1>4 DEF MarkLoad
    <2>2. Widened(Corner[k]) \in {dirty[Corner[k]], Head(ops).r[Corner[k]]}
      BY DEF Widened, least, greatest
    <2>3. reg' \in Limit(k)
      BY <1>2, <2>1, <2>2, GetCorner
    <2> QED
      BY <2>1, <2>3 DEF FbInv, Limit
  <1>5. CASE MarkStore
    <2>1. pc = "store" /\ k' = k + 1 /\ UNCHANGED <<snap, reg>>
          /\ dirty' = [dirty EXCEPT ![Corner[k]] = reg]
      BY <1>5 DEF MarkStore
    <2>2. dirty' \in Rects
      BY <1>2, <2>1, SetCorner DEF FbInv
    <2>3. CASE k = 4
      BY <1>2, <1>5, <2>1, <2>2, <2>3, FinishInv DEF MarkStore, FbInv
    <2>4. CASE k # 4
      BY <1>2, <1>5, <2>1, <2>2, <2>4 DEF MarkStore, FbInv
    <2> QED
      BY <2>3, <2>4
  <1>6. CASE MarkFlag
    <2>1. pc = "dirty" /\ pc' = "set" /\ UNCHANGED <<dirty, snap, ops, row, k, reg>>
      BY <1>6 DEF MarkFlag
    <2> QED
      BY <2>1 DEF FbInv
  <1> QED
    BY <1>1, <1>3, <1>4, <1>5, <1>6

(***************************************************************************)
(* present copies rows only of a rectangle that it has found nonempty.     *)
(***************************************************************************)
LEMMA PresentInv ==
    ASSUME FbInv, PresentTest \/ PresentRead \/ PresentClean \/ PresentRow
    PROVE  FbInv'
  <1>1. CASE PresentTest
    <2>1. CASE DIRTY
      BY <1>1, <2>1 DEF PresentTest, FbInv
    <2>2. CASE ~DIRTY
      BY <1>1, <2>2, FinishInv DEF PresentTest, FbInv
    <2> QED
      BY <2>1, <2>2
  <1>2. CASE PresentRead
    <2>1. /\ pc = "read" /\ k \in 1..4 /\ k' = k + 1
          /\ pc' = IF k = 4 THEN "clean" ELSE "read"
          /\ snap' = [snap EXCEPT ![Corner[k]] = dirty[Corner[k]]]
          /\ UNCHANGED <<dirty, ops, row, reg>>
      BY <1>2 DEF PresentRead, FbInv
    <2>2. snap' \in Rects
      BY <2>1, GetCorner, SetCorner DEF FbInv
    <2> QED
      BY <2>1, <2>2 DEF FbInv
  <1>3. CASE PresentClean
    <2>1. CASE snap.min_x >= snap.max_x \/ snap.min_y >= snap.max_y
      BY <1>3, <2>1, FinishInv DEF PresentClean, FbInv
    <2>2. CASE ~(snap.min_x >= snap.max_x \/ snap.min_y >= snap.max_y)
      <3>1. pc' = "show" /\ row' = snap.min_y /\ UNCHANGED <<dirty, snap, ops, k, reg>> /\ pc = "clean"
        BY <1>3, <2>2 DEF PresentClean
      <3>2. snap \in Areas /\ row' \in snap.min_y .. snap.max_y - 1
        BY <2>2, <3>1, ScreenAssumption DEF FbInv, Areas, Rects
      <3> QED
        BY <3>1, <3>2 DEF FbInv
    <2> QED
      BY <2>1, <2>2
  <1>4. CASE PresentRow
    <2>1. CASE row + 1 = snap.max_y
      BY <1>4, <2>1, FinishInv DEF PresentRow, FbInv
    <2>2. CASE row + 1 # snap.max_y
      <3>1. pc = "show" /\ row' = row + 1 /\ UNCHANGED <<dirty, snap, ops, k, reg, pc>>
        BY <1>4, <2>2 DEF PresentRow
      <3>2. snap.min_y \in Nat /\ snap.max_y \in Nat
        BY ScreenAssumption DEF FbInv, Rects
      <3>3. row' \in snap.min_y .. snap.max_y - 1
        BY <2>2, <3>1, <3>2 DEF FbInv
      <3> QED
        BY <3>1, <3>3 DEF FbInv
    <2> QED
      BY <2>1, <2>2
  <1> QED
    BY <1>1, <1>2, <1>3, <1>4

(***************************************************************************)
(* The invariant is inductive without interrupts.                          *)
(***************************************************************************)
LEMMA FbNextInv == FbInv /\ [FbNext]_vars => FbInv'
  <1> SUFFICES ASSUME FbInv, [FbNext]_vars PROVE FbInv'
    OBVIOUS
  <1>1. CASE Return
    BY <1>1, WholeFacts DEF Return, FbInv
  <1>2. CASE UNCHANGED vars
    BY <1>2 DEF vars, FbInv, Limit
  <1> QED
    BY <1>1, <1>2, CallsInv, WriteRowInv, MarkInv, PresentInv DEF FbNext, Steps

(***************************************************************************)
(* The invariant says that the accesses are in bounds.                     *)
(***************************************************************************)
LEMMA FbInvBounds == FbInv => AccessInBounds
  <1> SUFFICES ASSUME FbInv PROVE AccessInBounds
    OBVIOUS
  <1>1. ASSUME pc = "row"
        PROVE  LET op == Head(ops) IN
               /\ row < HEIGHT /\ op.r.min_x < op.r.max_x /\ op.r.max_x <= WIDTH
               /\ op.op = "copy" => /\ op.sx + (op.r.max_x - op.r.min_x) <= WIDTH
                                    /\ op.sy + (row - op.r.min_y) < HEIGHT
    <2>1. Head(ops) \in Ops /\ Head(ops).op \in {"fill", "copy"}
      BY <1>1 DEF FbInv
    <2>2. OpOK(Head(ops))
      BY <2>1, OpFacts
    <2>3. Head(ops).r \in Areas /\ row \in Head(ops).r.min_y .. Head(ops).r.max_y - 1
      BY <1>1, <2>1, <2>2 DEF OpOK, FbInv
    <2> QED
      BY <2>2, <2>3, ScreenAssumption DEF OpOK, Areas, Rects
  <1>2. ASSUME pc = "show"
        PROVE  snap.min_x < snap.max_x /\ snap.max_x <= WIDTH /\ row < HEIGHT
    BY <1>2, ScreenAssumption DEF FbInv, Areas, Rects
  <1> QED
    BY <1>1, <1>2 DEF AccessInBounds

(***************************************************************************)
(* The keyboard handler leaves the call it interrupts where it is, and its *)
(* own rectangle is on the screen.                                         *)
(***************************************************************************)
LEMMA KeyboardInv == FbInv /\ KeyboardIrq => FbInv'
  <1> SUFFICES ASSUME FbInv, KeyboardIrq PROVE FbInv'
    OBVIOUS
  <1>1. PICK x \in 0..USIZE_MAX, y \in 0..USIZE_MAX, w \in 0..USIZE_MAX, h \in 0..USIZE_MAX :
            ~Rejected(x, y, w, h) /\ dirty' = Joined(Clip(x, y, w, h))
    BY ArgumentAssumption DEF KeyboardIrq
  <1>2. Clip(x, y, w, h) \in Rects
    BY <1>1, ClipFacts DEF Areas
  <1>3. \A r \in Rects : Joined(r) \in Rects
    BY DEF Joined, least, greatest, Rects, FbInv
  <1> QED
    BY <1>1, <1>2, <1>3 DEF KeyboardIrq, FbInv, Limit

(***************************************************************************)
(* The invariant holds when init is about to clear the screen.             *)
(***************************************************************************)
LEMMA FbInitInv == FbInit => FbInv
  <1> SUFFICES ASSUME FbInit PROVE FbInv
    OBVIOUS
  <1>1. ops \in Seq(Ops)
    <2>1. 0 \in 0..USIZE_MAX /\ BLACK \in Colors
      BY ScreenAssumption, ColorAssumption
    <2>2. clear(BLACK) \in Seq(Ops)
      BY <2>1, FillCalls
    <2> QED
      BY <2>2, PresentCalls DEF FbInit
  <1> QED
    BY <1>1, EntryFacts, WholeFacts DEF FbInit, FbInv

(***************************************************************************)
(* The invariant is inductive with interrupts.                             *)
(***************************************************************************)
LEMMA IrqInvariant ==
    /\ IrqInit => FbInv
    /\ FbInv /\ [IrqNext]_irqVars => FbInv'
  <1>1. IrqInit => FbInv
    BY WholeFacts DEF IrqInit, FbInv, Areas
  <1>2. IrqNext => FbNext \/ KeyboardIrq
    BY DEF IrqNext, FbNext
  <1>3. UNCHANGED irqVars => UNCHANGED vars
    BY DEF irqVars
  <1> QED
    BY <1>1, <1>2, <1>3, FbNextInv, KeyboardInv

-----------------------------------------------------------------------------
(* Theorems *)

(***************************************************************************)
(* No call reads or writes outside its row of either buffer, whatever      *)
(* rectangle it is asked for.                                              *)
(***************************************************************************)
THEOREM FbAccess == FbSpec => []AccessInBounds
  BY FbInitInv, FbNextInv, FbInvBounds, PTL DEF FbSpec

(***************************************************************************)
(* Nor when the keyboard interrupt falls between any two steps of a call   *)
(* and redraws, resets DIRTY and replaces corners that the call has read:  *)
(* the unsynchronised statics of fb.rs cost pixels, never memory safety.   *)
(***************************************************************************)
THEOREM FbIrqAccess == IrqSpec => []AccessInBounds
  BY IrqInvariant, FbInvBounds, PTL DEF IrqSpec

-----------------------------------------------------------------------------
(* Corners of rectangles *)

\* Corner j of rectangle d is at that of rectangle r or outside it.
Covers(d, r, j) ==
    IF j \in {1, 2} THEN d[Corner[j]] <= r[Corner[j]] ELSE d[Corner[j]] >= r[Corner[j]]

(***************************************************************************)
(* A rectangle whose four corners cover another's holds its pixels.        *)
(***************************************************************************)
LEMMA CoversIn ==
    ASSUME NEW d \in Rects, NEW r \in Rects, \A j \in 1..4 : Covers(d, r, j),
           NEW p \in Pixels, In(p, r)
    PROVE  In(p, d)
  <1>1. /\ d.min_x <= r.min_x /\ d.min_y <= r.min_y
        /\ d.max_x >= r.max_x /\ d.max_y >= r.max_y
    <2>1. Covers(d, r, 1) /\ Covers(d, r, 2) /\ Covers(d, r, 3) /\ Covers(d, r, 4)
      OBVIOUS
    <2> QED
      BY <2>1 DEF Covers, Corner
  <1>2. /\ d.min_x \in Int /\ d.min_y \in Int /\ d.max_x \in Int /\ d.max_y \in Int
        /\ r.min_x \in Int /\ r.min_y \in Int /\ r.max_x \in Int /\ r.max_y \in Int
        /\ p[1] \in Int /\ p[2] \in Int
    BY ScreenAssumption DEF Rects, Pixels
  <1> QED
    BY <1>1, <1>2 DEF In

(***************************************************************************)
(* Storing a corner changes no other corner.                               *)
(***************************************************************************)
LEMMA StoreCorner ==
    ASSUME NEW d \in Rects, NEW j \in 1..4, NEW v
    PROVE  /\ [d EXCEPT ![Corner[j]] = v][Corner[j]] = v
           /\ \A i \in 1..4 : i # j => [d EXCEPT ![Corner[j]] = v][Corner[i]] = d[Corner[i]]
  <1>1. DOMAIN d = {"min_x", "min_y", "max_x", "max_y"}
    BY DEF Rects
  <1>2. \A i \in 1..4 : Corner[i] \in {"min_x", "min_y", "max_x", "max_y"}
    BY DEF Corner
  <1>3. \A i \in 1..4 : i # j => Corner[i] # Corner[j]
    BY DEF Corner
  <1> QED
    BY <1>1, <1>2, <1>3

(***************************************************************************)
(* Storing a corner that covers another rectangle's leaves the corners     *)
(* stored before it covering theirs.                                       *)
(***************************************************************************)
LEMMA StoreCovers ==
    ASSUME NEW d \in Rects, NEW r, NEW j \in 1..4, NEW v,
           \A i \in 1 .. j - 1 : Covers(d, r, i),
           IF j \in {1, 2} THEN v <= r[Corner[j]] ELSE v >= r[Corner[j]]
    PROVE  \A i \in 1 .. (j + 1) - 1 : Covers([d EXCEPT ![Corner[j]] = v], r, i)
  <1> DEFINE e == [d EXCEPT ![Corner[j]] = v]
  <1>1. e[Corner[j]] = v /\ \A i \in 1..4 : i # j => e[Corner[i]] = d[Corner[i]]
    BY StoreCorner
  <1> HIDE DEF e
  <1>2. ASSUME NEW i \in 1 .. (j + 1) - 1 PROVE Covers(e, r, i)
    <2>1. CASE i = j
      BY <1>1, <2>1 DEF Covers
    <2>2. CASE i # j
      <3>1. i \in 1 .. j - 1 /\ i \in 1..4
        BY <2>2
      <3> QED
        BY <1>1, <2>2, <3>1 DEF Covers
    <2> QED
      BY <2>1, <2>2
  <1> QED
    BY <1>2 DEF e

(***************************************************************************)
(* The widened corner covers both the dirty rectangle's and the            *)
(* operation's.                                                            *)
(***************************************************************************)
LEMMA WidenedCovers ==
    ASSUME dirty \in Rects, Head(ops).r \in Rects, NEW j \in 1..4
    PROVE  /\ IF j \in {1, 2} THEN Widened(Corner[j]) <= Head(ops).r[Corner[j]]
                              ELSE Widened(Corner[j]) >= Head(ops).r[Corner[j]]
           /\ IF j \in {1, 2} THEN Widened(Corner[j]) <= dirty[Corner[j]]
                              ELSE Widened(Corner[j]) >= dirty[Corner[j]]
  <1>1. /\ dirty[Corner[j]] \in Int /\ Head(ops).r[Corner[j]] \in Int
    BY GetCorner, ScreenAssumption DEF Limit
  <1>2. Corner[j] \in {"min_x", "min_y"} <=> j \in {1, 2}
    BY DEF Corner
  <1> QED
    BY <1>1, <1>2 DEF Widened, least, greatest

(***************************************************************************)
(* Widening one corner of a rectangle loses none of its pixels.            *)
(***************************************************************************)
LEMMA WidenIn ==
    ASSUME NEW d \in Rects, NEW j \in 1..4, NEW v \in Limit(j),
           IF j \in {1, 2} THEN v <= d[Corner[j]] ELSE v >= d[Corner[j]],
           NEW p \in Pixels, In(p, d)
    PROVE  In(p, [d EXCEPT ![Corner[j]] = v])
  <1> DEFINE e == [d EXCEPT ![Corner[j]] = v]
  <1>1. e[Corner[j]] = v /\ \A i \in 1..4 : i # j => e[Corner[i]] = d[Corner[i]]
    BY StoreCorner
  <1>2. e \in Rects
    BY SetCorner
  <1> HIDE DEF e
  <1>3. \A i \in 1..4 : d[Corner[i]] \in Int
    BY GetCorner, ScreenAssumption DEF Limit
  <1>4. \A i \in 1..4 : Covers(e, d, i)
    BY <1>1, <1>3 DEF Covers
  <1>5. In(p, e)
    BY <1>2, <1>4, CoversIn
  <1> QED
    BY <1>5 DEF e

-----------------------------------------------------------------------------
(* Where a pixel is in the buffers *)

(***************************************************************************)
(* In a buffer with rows of w pixels, a pixel is in row n exactly when its *)
(* offset from the start of row n is a column.                             *)
(***************************************************************************)
LEMMA RowOffset ==
    ASSUME NEW w \in Nat, NEW x \in 0 .. w - 1, NEW y \in Nat, NEW n \in Nat,
           (y * w + x) - n * w \in 0 .. w - 1
    PROVE  y = n
  <1>1. y * w \in Nat /\ n * w \in Nat
    OBVIOUS
  <1>2. ASSUME y + 1 <= n PROVE FALSE
    <2>1. (y + 1) * w <= n * w /\ (y + 1) * w = y * w + w
      BY <1>2
    <2> QED
      BY <2>1, <1>1
  <1>3. ASSUME n + 1 <= y PROVE FALSE
    <2>1. (n + 1) * w <= y * w /\ (n + 1) * w = n * w + w
      BY <1>3
    <2> QED
      BY <2>1, <1>1
  <1> QED
    BY <1>2, <1>3

(***************************************************************************)
(* A pixel of the screen is inside a buffer with rows of w pixels.         *)
(***************************************************************************)
LEMMA OffsetRange ==
    ASSUME NEW w \in Nat, NEW h \in Nat, NEW x \in 0 .. w - 1, NEW y \in 0 .. h - 1
    PROVE  y * w + x \in 0 .. w * h - 1
  <1>1. y * w \in Nat /\ w * h \in Nat /\ h * w = w * h
    OBVIOUS
  <1>2. (y + 1) * w <= h * w /\ (y + 1) * w = y * w + w
    OBVIOUS
  <1> QED
    BY <1>1, <1>2

-----------------------------------------------------------------------------
(* What the screen does not show yet *)

Buffers ==
    /\ DOMAIN back = 0 .. WIDTH * HEIGHT - 1 /\ back = [i \in DOMAIN back |-> back[i]]
    /\ DOMAIN front = 0 .. PITCH * HEIGHT - 1

\* Every pixel the screen does not show yet satisfies C.
Pending(C(_)) == \A p \in Pixels : Differs(p) => C(p)
InDirty(p) == DIRTY /\ In(p, dirty)
InCall(p) == In(p, Head(ops).r)
InRest(p) == In(p, snap) /\ row <= p[2]

(***************************************************************************)
(* DirtyCovers at every step of a call: where the pixels are that the      *)
(* screen does not show yet, while the corners of the dirty rectangle are  *)
(* stored one by one and while present reads them and copies row by row.   *)
(***************************************************************************)
CoverInv ==
    /\ Buffers
    /\ pc \in {"set", "load", "store", "read", "clean"} => DIRTY
    /\ pc = "dirty" => ~DIRTY /\ k = 1
    /\ pc \in {"idle", "done", "ptest", "read"} => Pending(InDirty)
    /\ pc \in {"row", "test", "load", "store"} => Pending(LAMBDA p : InDirty(p) \/ InCall(p))
    /\ pc \in {"dirty", "set"} => Pending(InCall)
    /\ pc \in {"set", "load", "store"} =>
        \A j \in 1 .. k - 1 : Covers(dirty, Head(ops).r, j)
    /\ pc = "store" => reg = Widened(Corner[k])
    /\ pc = "read" => \A j \in 1 .. k - 1 : Covers(snap, dirty, j)
    /\ pc = "clean" => Pending(LAMBDA p : In(p, snap))
    /\ pc = "show" => Pending(InRest)

(***************************************************************************)
(* What a present_full that no interrupt has fallen into has reached: the  *)
(* corners stored so far cover the whole screen, then the corners read     *)
(* do, then the rows copied so far are shown.                              *)
(***************************************************************************)
FullReached ==
    /\ pc \in {"test", "dirty", "set", "load", "store", "ptest", "read", "clean", "show", "done"}
    /\ pc \in {"test", "dirty", "set", "load", "store"} => ops = present_full
    /\ pc \in {"ptest", "read", "clean", "show"} => ops = present
    /\ pc \in {"set", "load", "store", "ptest"} => DIRTY
    /\ pc = "dirty" => k = 1
    /\ pc \in {"set", "load", "store"} => \A j \in 1 .. k - 1 : Covers(dirty, Whole, j)
    /\ pc = "store" => reg = Widened(Corner[k])
    /\ pc \in {"ptest", "read"} => \A j \in 1..4 : Covers(dirty, Whole, j)
    /\ pc = "read" => \A j \in 1 .. k - 1 : Covers(snap, Whole, j)
    /\ pc \in {"clean", "show"} => \A j \in 1..4 : Covers(snap, Whole, j)
    /\ pc = "show" => Pending(LAMBDA p : row <= p[2])
    /\ pc = "done" => Pending(LAMBDA p : FALSE)

FullInv ==
    /\ Buffers
    /\ pc = "idle" => shows = "none"
    /\ shows = "full" /\ ~hit => FullReached

(***************************************************************************)
(* present's row copy: a pixel still differs only if it did before and is  *)
(* not in the copied part of the row.                                      *)
(***************************************************************************)
LEMMA RowShown ==
    ASSUME FbInv, Buffers, pc = "show", front' = Shown(snap, row), back' = back,
           NEW p \in Pixels, Differs(p)'
    PROVE  Differs(p) /\ ~(In(p, snap) /\ p[2] = row)
  <1> DEFINE x == p[1]
             y == p[2]
             i == y * PITCH + x
             c == i - row * PITCH
  <1>1. /\ x \in 0 .. WIDTH - 1 /\ y \in 0 .. HEIGHT - 1
        /\ x \in 0 .. PITCH - 1 /\ y \in Nat /\ PITCH \in Nat /\ HEIGHT \in Nat
    BY ScreenAssumption DEF Pixels
  <1>2. row \in Nat /\ snap.min_x .. snap.max_x - 1 \subseteq 0 .. PITCH - 1
    BY ScreenAssumption, SMTT(30) DEF FbInv, Areas, Rects
  <1>3. i \in DOMAIN front
    BY <1>1, OffsetRange DEF Buffers
  <1>4. front'[i] = IF c \in snap.min_x .. snap.max_x - 1 THEN back[Offset(c, row)] ELSE front[i]
    BY <1>3 DEF Shown
  <1>5. back[Offset(x, y)] # front'[i]
    BY DEF Differs, FrontOffset, Offset
  <1>6. c \notin snap.min_x .. snap.max_x - 1
    <2> SUFFICES ASSUME c \in snap.min_x .. snap.max_x - 1 PROVE FALSE
      OBVIOUS
    <2>1. y = row
      BY <1>1, <1>2, RowOffset
    <2>2. row * PITCH \in Nat
      BY <1>1, <1>2
    <2>3. c = x
      BY <1>1, <2>1, <2>2
    <2> QED
      BY <1>4, <1>5, <2>1, <2>3
  <1>7. back[Offset(x, y)] # front[i]
    BY <1>4, <1>5, <1>6
  <1>8. ~(In(p, snap) /\ y = row)
    <2> SUFFICES ASSUME In(p, snap), y = row PROVE FALSE
      OBVIOUS
    <2>1. row * PITCH \in Nat
      BY <1>1, <1>2
    <2>2. c = x
      BY <1>1, <2>1
    <2>3. snap.min_x \in Int /\ snap.max_x \in Int
      BY ScreenAssumption DEF FbInv, Rects
    <2> QED
      BY <1>1, <1>6, <2>2, <2>3 DEF In
  <1> QED
    BY <1>7, <1>8 DEF Differs, FrontOffset

(***************************************************************************)
(* The row loop of a drawing call changes only pixels of the call's        *)
(* rectangle.                                                              *)
(***************************************************************************)
LEMMA RowWritten ==
    ASSUME FbInv, Buffers, WriteRow, NEW p \in Pixels, Differs(p)'
    PROVE  Differs(p) \/ InCall(p)
  <1> DEFINE x == p[1]
             y == p[2]
             i == y * WIDTH + x
             c == i - row * WIDTH
             r == Head(ops).r
  <1>1. /\ x \in 0 .. WIDTH - 1 /\ y \in 0 .. HEIGHT - 1 /\ y \in Nat /\ WIDTH \in Nat
        /\ HEIGHT \in Nat
    BY ScreenAssumption DEF Pixels
  <1>2. pc = "row" /\ front' = front
    BY DEF WriteRow
  <1>3. Head(ops) \in Ops /\ Head(ops).op \in {"fill", "copy"}
    BY <1>2 DEF FbInv
  <1>4. r \in Areas /\ row \in r.min_y .. r.max_y - 1
    BY <1>2, <1>3, OpFacts DEF OpOK, FbInv
  <1>5. /\ row \in Nat /\ r.min_x .. r.max_x - 1 \subseteq 0 .. WIDTH - 1
        /\ r.min_x \in Int /\ r.max_x \in Int /\ r.min_y \in Int /\ r.max_y \in Int
    BY <1>4, ScreenAssumption DEF Areas, Rects
  <1>6. i \in DOMAIN back
    BY <1>1, OffsetRange DEF Buffers
  <1>7. CASE c \in r.min_x .. r.max_x - 1
    <2>1. y = row
      BY <1>1, <1>5, <1>7, RowOffset
    <2>2. row * WIDTH \in Nat
      BY <1>1, <1>5
    <2>3. c = x
      BY <1>1, <2>1, <2>2
    <2> QED
      BY <1>4, <1>5, <1>7, <2>1, <2>3 DEF InCall, In
  <1>8. CASE c \notin r.min_x .. r.max_x - 1
    <2>1. back'[i] = back[i]
      BY <1>6, <1>8 DEF WriteRow
    <2> QED
      BY <1>2, <2>1 DEF Differs, Offset
  <1> QED
    BY <1>7, <1>8

(***************************************************************************)
(* The steps keep the buffers' sizes.                                      *)
(***************************************************************************)
LEMMA BuffersKept ==
    ASSUME Buffers, [FbNext]_vars \/ KeyboardIrq
    PROVE  Buffers'
  <1>1. Calls => UNCHANGED <<back, front>>
    BY CallsOps
  <1>2. UNCHANGED <<back, front>> => Buffers'
    BY DEF Buffers
  <1>3. WriteRow => Buffers'
    BY DEF WriteRow, Buffers
  <1>4. PresentRow => Buffers'
    BY DEF PresentRow, Shown, Buffers
  <1>5. KeyboardIrq => Buffers'
    BY DEF KeyboardIrq, Drawn, Buffers
  <1> QED
    BY <1>1, <1>2, <1>3, <1>4, <1>5
    DEF FbNext, Steps, MarkTest, MarkFlag, MarkSet, MarkLoad, MarkStore, PresentTest,
        PresentRead, PresentClean, Return, vars

(***************************************************************************)
(* Going on to another operation, everything pending being in the dirty    *)
(* rectangle.                                                              *)
(***************************************************************************)
LEMMA EnterCover ==
    ASSUME Buffers', ops' \in Seq(Ops), pc' = Entry(ops'),
           \A p \in Pixels : Differs(p)' => InDirty(p)'
    PROVE  CoverInv'
  <1>1. pc' \in {"done", "row", "test", "ptest"}
    BY EntryFacts
  <1> QED
    BY <1>1 DEF CoverInv, Pending, InDirty

(***************************************************************************)
(* A drawing call grows the dirty rectangle around what it has drawn, one  *)
(* corner at a time.                                                       *)
(***************************************************************************)
LEMMA MarkCover ==
    ASSUME FbInv, CoverInv, Buffers',
           MarkTest \/ MarkFlag \/ MarkSet \/ MarkLoad \/ MarkStore
    PROVE  CoverInv'
  <1>1. \A p \in Pixels : Differs(p)' = Differs(p)
    BY DEF MarkTest, MarkFlag, MarkSet, MarkLoad, MarkStore, Differs
  <1>2. CASE MarkTest
    <2>1. CASE DIRTY
      BY <1>1, <1>2, <2>1 DEF MarkTest, CoverInv, Pending, InDirty, InCall
    <2>2. CASE ~DIRTY
      BY <1>1, <1>2, <2>2 DEF MarkTest, CoverInv, Pending, InDirty, InCall
    <2> QED
      BY <2>1, <2>2
  <1>3. CASE MarkFlag
    <2>1. /\ pc = "dirty" /\ pc' = "set" /\ DIRTY' = TRUE
          /\ UNCHANGED <<dirty, ops, k>>
      BY <1>3 DEF MarkFlag
    <2>2. \A j \in 1 .. k' - 1 : FALSE
      BY <2>1 DEF CoverInv
    <2> QED
      BY <1>1, <2>1, <2>2 DEF CoverInv, Pending, InCall
  <1>4. ASSUME pc \in {"set", "load", "store"}
        PROVE  /\ k \in 1..4 /\ ops # << >> /\ ops \in Seq(Ops) /\ DIRTY
               /\ Head(ops).r \in Rects /\ dirty \in Rects
    <2>1. ops # << >> /\ ops \in Seq(Ops) /\ Head(ops).op # "present"
      BY <1>4 DEF FbInv
    <2>2. Head(ops) \in Ops
      BY <2>1
    <2> QED
      BY <1>4, <2>1, <2>2, OpFacts DEF OpOK, Areas, FbInv, CoverInv
  <1>5. CASE MarkLoad
    <2>1. /\ pc = "load" /\ pc' = "store" /\ reg' = Widened(Corner[k])
          /\ UNCHANGED <<dirty, DIRTY, ops, k>>
      BY <1>5 DEF MarkLoad
    <2>2. Widened(Corner[k])' = Widened(Corner[k])
      BY <2>1 DEF Widened
    <2> QED
      BY <1>1, <1>4, <2>1, <2>2 DEF CoverInv, Pending, InDirty, InCall, Covers
  <1>6. ASSUME NEW v, dirty' = [dirty EXCEPT ![Corner[k]] = v], k \in 1..4, k' = k + 1,
               dirty \in Rects, dirty' \in Rects, Head(ops).r \in Rects,
               \A j \in 1 .. k - 1 : Covers(dirty, Head(ops).r, j),
               IF k \in {1, 2} THEN v <= Head(ops).r[Corner[k]] ELSE v >= Head(ops).r[Corner[k]]
        PROVE  /\ \A j \in 1 .. k' - 1 : Covers(dirty', Head(ops).r, j)
               /\ k = 4 => \A p \in Pixels : InCall(p) => In(p, dirty')
    <2>1. \A j \in 1 .. (k + 1) - 1 : Covers(dirty', Head(ops).r, j)
      BY <1>6, StoreCovers
    <2>2. \A j \in 1 .. k' - 1 : Covers(dirty', Head(ops).r, j)
      BY <1>6, <2>1
    <2>3. ASSUME k = 4, NEW p \in Pixels, InCall(p) PROVE In(p, dirty')
      <3>1. \A j \in 1..4 : Covers(dirty', Head(ops).r, j)
        BY <2>1, <2>3
      <3> QED
        BY <1>6, <2>3, <3>1, CoversIn DEF InCall
    <2> QED
      BY <2>2, <2>3
  <1>7. CASE MarkSet
    <2>1. /\ pc = "set" /\ k' = k + 1 /\ DIRTY' = DIRTY
          /\ dirty' = [dirty EXCEPT ![Corner[k]] = Head(ops).r[Corner[k]]]
      BY <1>7 DEF MarkSet
    <2>2. Head(ops).r[Corner[k]] \in Limit(k) /\ Head(ops).r[Corner[k]] \in Int
      BY <1>4, <2>1, GetCorner, ScreenAssumption, SMTT(30) DEF Limit
    <2>3. dirty' \in Rects
      BY <1>4, <2>1, <2>2, SetCorner
    <2>4. /\ \A j \in 1 .. k' - 1 : Covers(dirty', Head(ops).r, j)
          /\ k = 4 => \A p \in Pixels : InCall(p) => In(p, dirty')
      <3> DEFINE v == Head(ops).r[Corner[k]]
      <3>1. IF k \in {1, 2} THEN v <= Head(ops).r[Corner[k]] ELSE v >= Head(ops).r[Corner[k]]
        BY <2>2
      <3>2. \A j \in 1 .. k - 1 : Covers(dirty, Head(ops).r, j)
        BY <2>1 DEF CoverInv
      <3> QED
        BY <1>4, <1>6, <2>1, <2>3, <3>1, <3>2
    <2>5. CASE k = 4
      <3>1. ops' \in Seq(Ops) /\ pc' = Entry(ops')
        BY <1>4, <1>7, <2>1, <2>5 DEF MarkSet, Finish
      <3>2. \A p \in Pixels : Differs(p)' => InDirty(p)'
        BY <1>1, <1>4, <2>1, <2>4, <2>5 DEF CoverInv, Pending, InDirty
      <3> QED
        BY <3>1, <3>2, EnterCover
    <2>6. CASE k # 4
      <3>1. UNCHANGED <<ops, pc>>
        BY <1>7, <2>6 DEF MarkSet
      <3> QED
        BY <1>1, <1>4, <2>1, <2>4, <3>1 DEF CoverInv, Pending, InCall
    <2> QED
      BY <2>5, <2>6
  <1>8. CASE MarkStore
    <2>1. /\ pc = "store" /\ k' = k + 1 /\ DIRTY' = DIRTY
          /\ dirty' = [dirty EXCEPT ![Corner[k]] = reg]
          /\ reg = Widened(Corner[k]) /\ reg \in Limit(k)
      BY <1>8 DEF MarkStore, CoverInv, FbInv
    <2>2. dirty' \in Rects
      BY <1>4, <2>1, SetCorner
    <2>3. /\ \A j \in 1 .. k' - 1 : Covers(dirty', Head(ops).r, j)
          /\ k = 4 => \A p \in Pixels : InCall(p) => In(p, dirty')
      BY <1>4, <1>6, <2>1, <2>2, WidenedCovers DEF CoverInv
    <2>4. \A p \in Pixels : In(p, dirty) => In(p, dirty')
      BY <1>4, <2>1, WidenedCovers, WidenIn
    <2>5. CASE k = 4
      <3>1. ops' \in Seq(Ops) /\ pc' = Entry(ops')
        BY <1>4, <1>8, <2>1, <2>5 DEF MarkStore, Finish
      <3>2. \A p \in Pixels : Differs(p)' => InDirty(p)'
        BY <1>1, <1>4, <2>1, <2>3, <2>4, <2>5 DEF CoverInv, Pending, InDirty
      <3> QED
        BY <3>1, <3>2, EnterCover
    <2>6. CASE k # 4
      <3>1. ops' = ops /\ pc' = "load"
        BY <1>8, <2>6 DEF MarkStore
      <3> QED
        BY <1>1, <1>4, <2>1, <2>3, <2>4, <3>1 DEF CoverInv, Pending, InDirty, InCall
    <2> QED
      BY <2>5, <2>6
  <1> QED
    BY <1>2, <1>3, <1>5, <1>7, <1>8

(***************************************************************************)
(* present takes off the dirty rectangle exactly what it shows.            *)
(***************************************************************************)
LEMMA PresentCover ==
    ASSUME FbInv, CoverInv, Buffers', FbInv',
           PresentTest \/ PresentRead \/ PresentClean \/ PresentRow
    PROVE  CoverInv'
  <1>1. ~PresentRow => \A p \in Pixels : Differs(p)' = Differs(p)
    BY DEF PresentTest, PresentRead, PresentClean, Differs
  <1>2. ops' \in Seq(Ops) /\ dirty \in Rects /\ snap \in Rects
    BY DEF FbInv
  <1>3. CASE PresentTest
    <2>1. CASE DIRTY
      <3>1. /\ pc = "ptest" /\ pc' = "read" /\ k' = 1
            /\ UNCHANGED <<back, front, DIRTY, dirty, snap>>
        BY <1>3, <2>1 DEF PresentTest
      <3> QED
        BY <2>1, <3>1 DEF CoverInv, Pending, InDirty, Differs
    <2>2. CASE ~DIRTY
      <3>1. /\ pc = "ptest" /\ pc' = Entry(ops') /\ UNCHANGED <<back, front>>
        BY <1>3, <2>2 DEF PresentTest, Finish
      <3>2. \A p \in Pixels : Differs(p)' => InDirty(p)'
        BY <2>2, <3>1 DEF CoverInv, Pending, InDirty, Differs
      <3> QED
        BY <1>2, <3>1, <3>2, EnterCover
    <2> QED
      BY <2>1, <2>2
  <1>4. CASE PresentRead
    <2>1. /\ pc = "read" /\ k \in 1..4 /\ k' = k + 1 /\ pc' = IF k = 4 THEN "clean" ELSE "read"
          /\ UNCHANGED <<back, front, DIRTY, dirty>>
      BY <1>4 DEF PresentRead, FbInv
    <2>2. snap' = [snap EXCEPT ![Corner[k]] = dirty[Corner[k]]]
      BY <1>4 DEF PresentRead
    <2>3. dirty[Corner[k]] \in Int
      BY <1>2, <2>1, GetCorner, ScreenAssumption DEF Limit
    <2>4. \A j \in 1 .. (k + 1) - 1 : Covers(snap', dirty, j)
      <3> DEFINE v == dirty[Corner[k]]
      <3>1. IF k \in {1, 2} THEN v <= dirty[Corner[k]] ELSE v >= dirty[Corner[k]]
        BY <2>3
      <3>2. \A j \in 1 .. k - 1 : Covers(snap, dirty, j)
        BY <2>1 DEF CoverInv
      <3> QED
        BY <1>2, <2>1, <2>2, <3>1, <3>2, StoreCovers
    <2>5. CASE k = 4
      <3>1. snap' \in Rects
        BY DEF FbInv
      <3>2. \A j \in 1 .. 4 : Covers(snap', dirty, j)
        BY <2>4, <2>5
      <3>3. \A p \in Pixels : In(p, dirty) => In(p, snap')
        BY <1>2, <3>1, <3>2, CoversIn
      <3> QED
        BY <2>1, <2>5, <3>3 DEF CoverInv, Pending, InDirty, Differs
    <2>6. CASE k # 4
      BY <2>1, <2>4, <2>6 DEF CoverInv, Pending, InDirty, Differs
    <2> QED
      BY <2>5, <2>6
  <1>5. CASE PresentClean
    <2>1. /\ snap.min_x \in Int /\ snap.max_x \in Int /\ snap.min_y \in Int /\ snap.max_y \in Int
          /\ \A p \in Pixels : p[1] \in Int /\ p[2] \in Int
      BY <1>2, ScreenAssumption, SMTT(30) DEF Rects, Pixels
    <2>2. \A p \in Pixels : Differs(p)' => In(p, snap)
      BY <1>5 DEF PresentClean, CoverInv, Pending, Differs
    <2>3. CASE snap.min_x >= snap.max_x \/ snap.min_y >= snap.max_y
      <3>1. pc' = Entry(ops')
        BY <1>5, <2>3 DEF PresentClean, Finish
      <3>2. \A p \in Pixels : ~In(p, snap)
        BY <2>1, <2>3 DEF In
      <3> QED
        BY <1>2, <2>2, <3>1, <3>2, EnterCover
    <2>4. CASE ~(snap.min_x >= snap.max_x \/ snap.min_y >= snap.max_y)
      <3>1. pc' = "show" /\ row' = snap.min_y /\ snap' = snap
        BY <1>5, <2>4 DEF PresentClean
      <3> QED
        BY <2>1, <2>2, <3>1 DEF CoverInv, Pending, InRest, In
    <2> QED
      BY <2>3, <2>4
  <1>6. CASE PresentRow
    <2>1. pc = "show" /\ front' = Shown(snap, row) /\ back' = back /\ snap' = snap
      BY <1>6 DEF PresentRow
    <2>2. /\ row \in Int /\ snap.min_y \in Int /\ snap.max_y \in Int
          /\ \A p \in Pixels : p[2] \in Int
      BY <1>2, <2>1, ScreenAssumption DEF Rects, Pixels, FbInv
    <2>3. \A p \in Pixels : Differs(p)' => In(p, snap) /\ row + 1 <= p[2]
      <3> SUFFICES ASSUME NEW p \in Pixels, Differs(p)' PROVE In(p, snap) /\ row + 1 <= p[2]
        OBVIOUS
      <3>1. Differs(p) /\ ~(In(p, snap) /\ p[2] = row)
        BY <2>1, RowShown DEF CoverInv
      <3>2. In(p, snap) /\ row <= p[2]
        BY <2>1, <3>1 DEF CoverInv, Pending, InRest
      <3> QED
        BY <2>2, <3>1, <3>2
    <2>4. CASE row + 1 = snap.max_y
      <3>1. pc' = Entry(ops')
        BY <1>6, <2>4 DEF PresentRow, Finish
      <3>2. \A p \in Pixels : ~Differs(p)'
        BY <2>2, <2>3, <2>4 DEF In
      <3> QED
        BY <1>2, <3>1, <3>2, EnterCover
    <2>5. CASE row + 1 # snap.max_y
      <3>1. pc' = "show" /\ row' = row + 1
        BY <1>6, <2>1, <2>5 DEF PresentRow
      <3> QED
        BY <2>1, <2>3, <3>1 DEF CoverInv, Pending, InRest
    <2> QED
      BY <2>4, <2>5
  <1> QED
    BY <1>3, <1>4, <1>5, <1>6

(***************************************************************************)
(* The invariant of the pending pixels is inductive.                       *)
(***************************************************************************)
LEMMA CoverNext == FbInv /\ CoverInv /\ [FbNext]_vars => CoverInv'
  <1> SUFFICES ASSUME FbInv, CoverInv, [FbNext]_vars PROVE CoverInv'
    OBVIOUS
  <1>1. FbInv' /\ Buffers'
    BY FbNextInv, BuffersKept DEF CoverInv
  <1>2. CASE Calls
    <2>1. /\ pc = "idle" /\ ops' \in Seq(Ops) /\ pc' = Entry(ops')
          /\ UNCHANGED <<back, front, DIRTY, dirty>>
      BY <1>2, CallsOps
    <2>2. \A p \in Pixels : Differs(p)' => InDirty(p)'
      BY <2>1 DEF CoverInv, Pending, InDirty, Differs
    <2> QED
      BY <1>1, <2>1, <2>2, EnterCover
  <1>3. CASE WriteRow
    <2>1. /\ pc = "row" /\ pc' \in {"row", "test"}
          /\ UNCHANGED <<DIRTY, dirty, ops>>
      BY <1>3 DEF WriteRow
    <2>2. \A p \in Pixels : Differs(p)' => InDirty(p) \/ InCall(p)
      BY <1>3, <2>1, RowWritten DEF CoverInv, Pending
    <2> QED
      BY <1>1, <2>1, <2>2 DEF CoverInv, Pending, InDirty, InCall
  <1>4. CASE Return
    BY <1>1, <1>4 DEF Return, CoverInv, Pending, InDirty, Differs
  <1>5. CASE UNCHANGED vars
    BY <1>5
    DEF vars, CoverInv, Buffers, Pending, InDirty, InCall, InRest, Differs, Covers, Widened
  <1> QED
    BY <1>1, <1>2, <1>3, <1>4, <1>5, MarkCover, PresentCover DEF FbNext, Steps

(***************************************************************************)
(* Between calls whatever the screen does not show is inside the dirty     *)
(* rectangle, for every sequence of drawing calls and presents on every    *)
(* screen: present, which copies only that rectangle, is enough.           *)
(***************************************************************************)
THEOREM DirtyIsEnough == FbSpec => []DirtyCovers
  <1>1. FbInit => CoverInv
    <2> SUFFICES ASSUME FbInit PROVE CoverInv
      OBVIOUS
    <2>1. ops = << Fill(Whole, BLACK) >> \o << Present >>
      BY DEF FbInit, clear, present
    <2>2. ops # << >> /\ Head(ops) = Fill(Whole, BLACK)
      <3> DEFINE f == Fill(Whole, BLACK)
      <3> HIDE DEF f
      <3>1. ops = << f >> \o << Present >>
        BY <2>1 DEF f
      <3>2. Len(ops) = 2 /\ ops[1] = f
        BY <3>1
      <3>3. ops # << >> /\ Head(ops) = f
        BY <3>2
      <3> QED
        BY <3>3 DEF f
    <2>3. Head(ops).op = "fill" /\ Head(ops).r = Whole
      BY <2>2 DEF Fill
    <2>4. pc = "row"
      <3>1. Head(ops).op \in {"fill", "copy"}
        BY <2>3
      <3> QED
        BY <2>2, <3>1 DEF FbInit, Entry
    <2>5. \A p \in Pixels : InCall(p)
      BY <2>3, ScreenAssumption DEF Pixels, InCall, In, Whole
    <2>6. Buffers
      BY DEF FbInit, Buffers
    <2> QED
      BY <2>4, <2>5, <2>6 DEF CoverInv, Pending
  <1>2. CoverInv => DirtyCovers
    BY DEF CoverInv, Pending, InDirty, DirtyCovers
  <1> QED
    BY <1>1, <1>2, FbInitInv, FbNextInv, CoverNext, PTL DEF FbSpec

-----------------------------------------------------------------------------
(* present_full repairs *)

(***************************************************************************)
(* The operations present_full goes through.                               *)
(***************************************************************************)
LEMMA FullOps ==
    /\ Head(present_full).r = Whole /\ Head(present_full).op = "mark"
    /\ Tail(present_full) = present /\ Tail(present) = << >>
    /\ Entry(present_full) = "test" /\ Entry(present) = "ptest" /\ Entry(<< >>) = "done"
  <1>1. /\ present_full # << >> /\ Head(present_full) = Mark(Whole)
        /\ Tail(present_full) = << Present >>
    <2> DEFINE m == Mark(Whole)
    <2> HIDE DEF m
    <2>1. present_full = << m, Present >>
      BY DEF present_full, m
    <2>2. present_full # << >> /\ Head(present_full) = m /\ Tail(present_full) = << Present >>
      BY <2>1
    <2> QED
      BY <2>2 DEF m
  <1>2. present # << >> /\ Head(present) = Present /\ Tail(present) = << >>
    BY DEF present
  <1>3. Head(present_full).op = "mark" /\ Head(present_full).r = Whole
    BY <1>1 DEF Mark
  <1>4. Head(present).op = "present"
    BY <1>2 DEF Present
  <1>5. Entry(present_full) = "test"
    <2>1. Head(present_full).op \notin {"fill", "copy"} /\ Head(present_full).op # "present"
      BY <1>3
    <2> QED
      BY <1>1, <1>3, <2>1 DEF Entry
  <1>6. Entry(present) = "ptest"
    <2>1. Head(present).op \notin {"fill", "copy"} /\ Head(present).op # "mark"
      BY <1>4
    <2> QED
      BY <1>2, <1>4, <2>1 DEF Entry
  <1>7. Entry(<< >>) = "done"
    BY DEF Entry
  <1> QED
    BY <1>1, <1>2, <1>3, <1>5, <1>6, <1>7 DEF present

(***************************************************************************)
(* Marking the whole screen makes every corner reach it, whatever the      *)
(* corners were before.                                                    *)
(***************************************************************************)
LEMMA FullMark ==
    ASSUME FbInv, FullReached, MarkTest \/ MarkFlag \/ MarkSet \/ MarkLoad \/ MarkStore
    PROVE  FullReached'
  <1>1. /\ pc \in {"test", "dirty", "set", "load", "store"}
        /\ ops = present_full /\ Head(ops).r = Whole
    BY FullOps DEF MarkTest, MarkFlag, MarkSet, MarkLoad, MarkStore, FullReached
  <1>2. dirty \in Rects /\ Whole \in Rects
    BY WholeFacts DEF FbInv, Areas
  <1>3. CASE MarkTest
    <2>1. CASE DIRTY
      BY <1>1, <1>3, <2>1 DEF MarkTest, FullReached
    <2>2. CASE ~DIRTY
      BY <1>1, <1>3, <2>2 DEF MarkTest, FullReached
    <2> QED
      BY <2>1, <2>2
  <1>4. CASE MarkFlag
    <2>1. /\ pc = "dirty" /\ pc' = "set" /\ DIRTY' = TRUE /\ k = 1
          /\ UNCHANGED <<ops, k>>
      BY <1>4 DEF MarkFlag, FullReached
    <2>2. \A j \in 1 .. k' - 1 : FALSE
      BY <2>1
    <2> QED
      BY <1>1, <2>1, <2>2 DEF FullReached
  <1>5. CASE MarkLoad
    <2>1. /\ pc = "load" /\ pc' = "store" /\ reg' = Widened(Corner[k])
          /\ UNCHANGED <<dirty, DIRTY, ops, k>>
      BY <1>5 DEF MarkLoad
    <2>2. Widened(Corner[k])' = Widened(Corner[k])
      BY <2>1 DEF Widened
    <2> QED
      BY <1>1, <2>1, <2>2 DEF FullReached, Covers
  <1>6. CASE MarkSet \/ MarkStore
    <2>1. /\ pc \in {"set", "store"} /\ k \in 1..4 /\ k' = k + 1 /\ DIRTY /\ DIRTY' = DIRTY
          /\ \A j \in 1 .. k - 1 : Covers(dirty, Whole, j)
      BY <1>6 DEF MarkSet, MarkStore, FbInv, FullReached
    <2>2. PICK v : /\ dirty' = [dirty EXCEPT ![Corner[k]] = v]
                   /\ IF k \in {1, 2} THEN v <= Whole[Corner[k]] ELSE v >= Whole[Corner[k]]
      <3>1. Whole[Corner[k]] \in Int
        BY <1>2, <2>1, GetCorner, ScreenAssumption DEF Limit
      <3>2. CASE MarkSet
        <4>1. dirty' = [dirty EXCEPT ![Corner[k]] = Whole[Corner[k]]]
          BY <1>1, <3>2 DEF MarkSet
        <4> DEFINE v == Whole[Corner[k]]
        <4>2. IF k \in {1, 2} THEN v <= Whole[Corner[k]] ELSE v >= Whole[Corner[k]]
          BY <3>1
        <4> WITNESS v
        <4> QED
          BY <4>1, <4>2
      <3>3. CASE MarkStore
        BY <1>1, <1>2, <2>1, <3>3, WidenedCovers DEF MarkStore, FullReached
      <3> QED
        BY <1>6, <3>2, <3>3
    <2>3. \A j \in 1 .. (k + 1) - 1 : Covers(dirty', Whole, j)
      BY <1>2, <2>1, <2>2, StoreCovers
    <2>4. CASE k = 4
      <3>1. ops' = Tail(ops) /\ pc' = Entry(ops')
        BY <1>6, <2>1, <2>4 DEF MarkSet, MarkStore, Finish
      <3>2. ops' = present /\ pc' = "ptest"
        BY <1>1, <3>1, FullOps
      <3> QED
        BY <2>1, <2>3, <2>4, <3>2 DEF FullReached
    <2>5. CASE k # 4
      <3>1. ops' = ops /\ pc' \in {"set", "load"}
        BY <1>6, <2>1, <2>5 DEF MarkSet, MarkStore
      <3> QED
        BY <1>1, <2>1, <2>3, <3>1 DEF FullReached
    <2> QED
      BY <2>4, <2>5
  <1> QED
    BY <1>3, <1>4, <1>5, <1>6

(***************************************************************************)
(* The present that follows reads those corners and copies every row.      *)
(***************************************************************************)
LEMMA FullPresent ==
    ASSUME FbInv, Buffers, FullReached,
           PresentTest \/ PresentRead \/ PresentClean \/ PresentRow
    PROVE  FullReached'
  <1>1. /\ pc \in {"ptest", "read", "clean", "show"} /\ ops = present /\ Tail(ops) = << >>
        /\ snap \in Rects /\ dirty \in Rects /\ Whole \in Rects
    BY FullOps, WholeFacts
    DEF PresentTest, PresentRead, PresentClean, PresentRow, FullReached, FbInv, Areas
  <1>2. CASE PresentTest
    <2>1. pc = "ptest" /\ pc' = "read" /\ k' = 1 /\ UNCHANGED <<ops, dirty>>
      BY <1>1, <1>2 DEF PresentTest, FullReached
    <2> QED
      BY <1>1, <2>1 DEF FullReached
  <1>3. CASE PresentRead
    <2>1. /\ pc = "read" /\ k \in 1..4 /\ k' = k + 1 /\ UNCHANGED <<dirty, ops>>
          /\ pc' = IF k = 4 THEN "clean" ELSE "read"
      BY <1>3 DEF PresentRead, FbInv
    <2>2. snap' = [snap EXCEPT ![Corner[k]] = dirty[Corner[k]]]
      BY <1>3 DEF PresentRead
    <2>3. \A j \in 1 .. (k + 1) - 1 : Covers(snap', Whole, j)
      <3> DEFINE v == dirty[Corner[k]]
      <3>1. Covers(dirty, Whole, k)
        BY <2>1 DEF FullReached
      <3>2. IF k \in {1, 2} THEN v <= Whole[Corner[k]] ELSE v >= Whole[Corner[k]]
        BY <3>1 DEF Covers
      <3>3. \A j \in 1 .. k - 1 : Covers(snap, Whole, j)
        BY <2>1 DEF FullReached
      <3> QED
        BY <1>1, <2>1, <2>2, <3>2, <3>3, StoreCovers
    <2>4. CASE k = 4
      BY <1>1, <2>1, <2>3, <2>4 DEF FullReached
    <2>5. CASE k # 4
      BY <1>1, <2>1, <2>3, <2>5 DEF FullReached
    <2> QED
      BY <2>4, <2>5
  <1>4. ASSUME pc \in {"clean", "show"}
        PROVE  /\ snap.min_x <= 0 /\ snap.min_y <= 0 /\ snap.max_x >= WIDTH /\ snap.max_y >= HEIGHT
               /\ snap.min_x = 0 /\ snap.min_y = 0 /\ snap.max_x = WIDTH /\ snap.max_y = HEIGHT
    <2>1. Covers(snap, Whole, 1) /\ Covers(snap, Whole, 2) /\ Covers(snap, Whole, 3) /\ Covers(snap, Whole, 4)
      BY <1>4 DEF FullReached
    <2>2. /\ snap.min_x <= 0 /\ snap.min_y <= 0 /\ snap.max_x >= WIDTH /\ snap.max_y >= HEIGHT
      BY <2>1 DEF Covers, Corner, Whole
    <2> QED
      BY <1>1, <2>2, ScreenAssumption DEF Rects
  <1>5. \A p \in Pixels : p[2] \in 0 .. HEIGHT - 1 /\ p[1] \in 0 .. WIDTH - 1
    BY DEF Pixels
  <1>6. CASE PresentClean
    <2>1. pc = "clean" /\ pc' = "show" /\ row' = snap.min_y /\ UNCHANGED <<ops, snap>>
      BY <1>4, <1>6, ScreenAssumption DEF PresentClean
    <2> QED
      BY <1>1, <1>4, <1>5, <2>1, ScreenAssumption DEF FullReached, Pending
  <1>7. CASE PresentRow
    <2>1. pc = "show" /\ front' = Shown(snap, row) /\ back' = back /\ snap' = snap
      BY <1>7 DEF PresentRow
    <2>2. row \in Int
      BY <1>4, <2>1 DEF FbInv
    <2>3. \A p \in Pixels : Differs(p)' => row + 1 <= p[2]
      <3> SUFFICES ASSUME NEW p \in Pixels, Differs(p)' PROVE row + 1 <= p[2]
        OBVIOUS
      <3>1. Differs(p) /\ ~(In(p, snap) /\ p[2] = row)
        BY <2>1, RowShown
      <3>2. row <= p[2]
        BY <2>1, <3>1 DEF FullReached, Pending
      <3>3. In(p, snap)
        BY <1>4, <1>5, <2>1, ScreenAssumption DEF In
      <3> QED
        BY <1>5, <2>2, <3>1, <3>2, <3>3
    <2>4. CASE row + 1 = snap.max_y
      <3>1. ops' = << >> /\ pc' = "done"
        BY <1>1, <1>7, <2>4, FullOps DEF PresentRow, Finish
      <3>2. \A p \in Pixels : ~Differs(p)'
        BY <1>4, <1>5, <2>1, <2>2, <2>3, <2>4, ScreenAssumption
      <3> QED
        BY <3>1, <3>2 DEF FullReached, Pending
    <2>5. CASE row + 1 # snap.max_y
      <3>1. pc' = "show" /\ row' = row + 1 /\ UNCHANGED ops
        BY <1>7, <2>1, <2>5 DEF PresentRow
      <3> QED
        BY <1>1, <2>1, <2>3, <3>1 DEF FullReached, Pending
    <2> QED
      BY <2>4, <2>5
  <1> QED
    BY <1>2, <1>3, <1>6, <1>7

(***************************************************************************)
(* The invariant of present_full is inductive with interrupts.             *)
(***************************************************************************)
LEMMA FullNext == FbInv /\ FullInv /\ [IrqNext]_irqVars => FullInv'
  <1> SUFFICES ASSUME FbInv, FullInv, [IrqNext]_irqVars PROVE FullInv'
    OBVIOUS
  <1>1. Buffers'
    <2>1. IrqNext => FbNext \/ KeyboardIrq
      BY DEF IrqNext, FbNext
    <2>2. UNCHANGED irqVars => UNCHANGED vars
      BY DEF irqVars
    <2> QED
      BY <2>1, <2>2, BuffersKept DEF FullInv
  <1>2. CASE Calls /\ hit' = FALSE
    <2>1. pc' # "idle"
      <3>1. ops' \in Seq(Ops) /\ pc' = Entry(ops')
        BY <1>2, CallsOps
      <3> QED
        BY <3>1, EntryFacts
    <2>2. CASE PresentFull
      <3>1. ops' = present_full /\ pc' = "test"
        BY <2>2, FullOps DEF PresentFull, Call
      <3> QED
        BY <1>1, <2>1, <3>1 DEF FullInv, FullReached
    <2>3. CASE ~PresentFull
      <3>1. shows' # "full"
        BY <1>2, <2>3
        DEF Calls, PutPixel, Clear, DrawRect, CopyRect, ScrollUp, PresentDirty, Call
      <3> QED
        BY <1>1, <2>1, <3>1 DEF FullInv
    <2> QED
      BY <2>2, <2>3
  <1>3. CASE KeyboardIrq
    <2>1. hit' = (pc # "idle") /\ UNCHANGED <<pc, shows>>
      BY <1>3 DEF KeyboardIrq
    <2> QED
      BY <1>1, <2>1 DEF FullInv
  <1>4. CASE UNCHANGED irqVars
    <2>1. FullReached => FullReached'
      BY <1>4 DEF irqVars, vars, FullReached, Pending, Differs, Covers, Widened
    <2> QED
      BY <1>1, <1>4, <2>1 DEF irqVars, vars, FullInv
  <1>5. CASE Steps /\ UNCHANGED hit
    <2>1. CASE Return
      BY <1>1, <2>1 DEF Return, FullInv
    <2>2. CASE ~Return
      <3>1. shows' = shows /\ pc' # "idle"
        <4>1. shows' = shows
          BY <1>5, <2>2
          DEF Steps, WriteRow, MarkTest, MarkFlag, MarkSet, MarkLoad, MarkStore,
              PresentTest, PresentRead, PresentClean, PresentRow
        <4>2. pc # "idle" /\ pc # "done"
          BY <1>5, <2>2
          DEF Steps, WriteRow, MarkTest, MarkFlag, MarkSet, MarkLoad, MarkStore,
              PresentTest, PresentRead, PresentClean, PresentRow
        <4>3. Finish => pc' # "idle"
          <5>1. ops \in Seq(Ops) /\ ops # << >>
            BY <4>2 DEF FbInv
          <5>2. Tail(ops) \in Seq(Ops)
            BY <5>1
          <5> QED
            BY <5>2, EntryFacts DEF Finish
        <4> QED
          BY <1>5, <2>2, <4>1, <4>2, <4>3
          DEF Steps, WriteRow, MarkTest, MarkFlag, MarkSet, MarkLoad, MarkStore,
              PresentTest, PresentRead, PresentClean, PresentRow
      <3>2. ASSUME shows = "full", ~hit PROVE FullReached'
        <4>1. FullReached
          BY <3>2 DEF FullInv
        <4>2. ~WriteRow
          BY <4>1 DEF WriteRow, FullReached
        <4> QED
          BY <1>5, <2>2, <4>1, <4>2, FullMark, FullPresent DEF Steps, FullInv
      <3> QED
        BY <1>1, <1>5, <3>1, <3>2 DEF FullInv
    <2> QED
      BY <2>1, <2>2
  <1> QED
    BY <1>2, <1>3, <1>4, <1>5 DEF IrqNext

(***************************************************************************)
(* However often interrupts have torn the dirty rectangle, a present_full  *)
(* that none falls into shows the whole back buffer, on every screen.      *)
(***************************************************************************)
THEOREM FullRepairs == IrqSpec => []PresentFullRepairs
  <1>1. IrqInit => FullInv
    BY DEF IrqInit, FullInv, Buffers
  <1>2. FullInv => PresentFullRepairs
    BY DEF FullInv, FullReached, Pending, PresentFullRepairs
  <1> QED
    BY <1>1, <1>2, IrqInvariant, FullNext, PTL DEF IrqSpec

-----------------------------------------------------------------------------
(* What the calls draw *)

Pixel(p) == back[Offset(p[1], p[2])]
Wanted(p) == want[Offset(p[1], p[2])]

\* What the row loop writes to pixel p, and the colour of p when it has ended.
Source(o, p) ==
    IF o.op = "fill" THEN o.pixel
    ELSE back[Offset(p[1] - o.r.min_x + o.sx, p[2] - o.r.min_y + o.sy)]
RowsDone(p) ==
    IF In(p, Head(ops).r) /\ row <= p[2] THEN Source(Head(ops), p) ELSE Pixel(p)

\* Colour c of pixel p after the second operation of the call.
Then(c, p) ==
    IF Len(ops) = 2 /\ ops[2].op = "fill" /\ In(p, ops[2].r) THEN ops[2].pixel ELSE c

\* The row loop of copy o, from the top down, never reads a row it has written.
CopySafe(o) ==
    o.op = "copy" => \/ o.r.min_y <= o.sy
                     \/ o.sy + (o.r.max_y - o.r.min_y) <= o.r.min_y
                     \/ o.sx + (o.r.max_x - o.r.min_x) <= o.r.min_x
                     \/ o.r.max_x <= o.sx

(***************************************************************************)
(* What a call has still to do turns the back buffer into the one it       *)
(* promises, after each row and between its two operations.                *)
(***************************************************************************)
EffectInv ==
    /\ pc # "idle" => /\ want = [i \in DOMAIN back |-> want[i]]
                      /\ Len(ops) <= 2 /\ (Len(ops) = 2 => ops[2].op \in {"fill", "present"})
    /\ pc = "row" => CopySafe(Head(ops)) /\ \A p \in Pixels : Wanted(p) = Then(RowsDone(p), p)
    /\ pc \in {"test", "dirty", "set", "load", "store"} =>
        \A p \in Pixels : Wanted(p) = Then(Pixel(p), p)
    /\ pc \in {"ptest", "read", "clean", "show"} => Len(ops) = 1
    /\ pc \in {"ptest", "read", "clean", "show", "done"} =>
        \A p \in Pixels : Wanted(p) = Pixel(p)

(***************************************************************************)
(* The column and the row of a pixel, from its place in the back buffer.   *)
(***************************************************************************)
LEMMA OffsetInverse ==
    ASSUME NEW w \in Nat \ {0}, NEW x \in 0 .. w - 1, NEW y \in Nat
    PROVE  (y * w + x) % w = x /\ (y * w + x) \div w = y
  <1> DEFINE i == y * w + x
             q == i \div w
             m == i % w
  <1>1. i \in Nat /\ y * w \in Nat
    OBVIOUS
  <1> HIDE DEF i
  <1>2. q \in Nat /\ m \in 0 .. w - 1 /\ i = w * q + m
    BY <1>1
  <1> HIDE DEF q, m
  <1>3. q * w \in Nat /\ w * q = q * w
    BY <1>2
  <1>4. (q * w + m) - y * w \in 0 .. w - 1
    BY <1>1, <1>2, <1>3 DEF i
  <1>5. q = y
    BY <1>2, <1>4, RowOffset
  <1>6. m = x
    BY <1>1, <1>2, <1>3, <1>5 DEF i
  <1> QED
    BY <1>5, <1>6 DEF i, q, m

(***************************************************************************)
(* Every index of the back buffer is the place of a pixel.                 *)
(***************************************************************************)
LEMMA IndexPixel ==
    ASSUME NEW i \in 0 .. WIDTH * HEIGHT - 1
    PROVE  \E p \in Pixels : i = Offset(p[1], p[2])
  <1> DEFINE q == i \div WIDTH
             m == i % WIDTH
  <1>1. WIDTH \in Nat \ {0} /\ HEIGHT \in Nat /\ WIDTH * HEIGHT \in Nat /\ i \in Nat
    BY ScreenAssumption
  <1>2. q \in Nat /\ m \in 0 .. WIDTH - 1 /\ i = WIDTH * q + m
    BY <1>1
  <1> HIDE DEF q, m
  <1>3. q < HEIGHT
    <2> SUFFICES ASSUME HEIGHT <= q PROVE FALSE
      BY <1>1, <1>2
    <2>1. WIDTH * HEIGHT <= WIDTH * q
      BY <1>1, <1>2
    <2> QED
      BY <1>1, <1>2, <2>1
  <1>4. <<m, q>> \in Pixels
    BY <1>1, <1>2, <1>3 DEF Pixels
  <1>5. i = Offset(m, q)
    BY <1>1, <1>2 DEF Offset
  <1> QED
    BY <1>4, <1>5

(***************************************************************************)
(* Pixels have different places in the back buffer, and are in it.         *)
(***************************************************************************)
LEMMA PixelFacts ==
    ASSUME NEW p \in Pixels
    PROVE  /\ p[1] \in 0 .. WIDTH - 1 /\ p[2] \in 0 .. HEIGHT - 1 /\ p = <<p[1], p[2]>>
           /\ Offset(p[1], p[2]) \in 0 .. WIDTH * HEIGHT - 1
           /\ Offset(p[1], p[2]) % WIDTH = p[1] /\ Offset(p[1], p[2]) \div WIDTH = p[2]
  <1>1. p[1] \in 0 .. WIDTH - 1 /\ p[2] \in 0 .. HEIGHT - 1 /\ p = <<p[1], p[2]>>
    BY DEF Pixels
  <1>2. WIDTH \in Nat \ {0} /\ HEIGHT \in Nat /\ p[2] \in Nat
    BY <1>1, ScreenAssumption
  <1> QED
    BY <1>1, <1>2, OffsetRange, OffsetInverse DEF Offset

(***************************************************************************)
(* Two buffers that agree on the pixels are equal.                         *)
(***************************************************************************)
LEMMA SamePixels ==
    ASSUME Buffers, want = [i \in DOMAIN back |-> want[i]],
           \A p \in Pixels : Wanted(p) = Pixel(p)
    PROVE  back = want
  <1>1. ASSUME NEW i \in DOMAIN back PROVE back[i] = want[i]
    <2>1. PICK p \in Pixels : i = Offset(p[1], p[2])
      BY <1>1, IndexPixel DEF Buffers
    <2> QED
      BY <2>1 DEF Wanted, Pixel
  <1> QED
    BY <1>1 DEF Buffers

(***************************************************************************)
(* One turn of the row loop writes the row and nothing else.               *)
(***************************************************************************)
LEMMA RowDrawn ==
    ASSUME FbInv, Buffers, WriteRow, NEW p \in Pixels
    PROVE  Pixel(p)' = IF In(p, Head(ops).r) /\ p[2] = row THEN Source(Head(ops), p) ELSE Pixel(p)
  <1> DEFINE o == Head(ops)
             r == o.r
             i == Offset(p[1], p[2])
             c == i - row * WIDTH
  <1>1. pc = "row" /\ o \in Ops /\ o.op \in {"fill", "copy"}
    BY DEF WriteRow, FbInv
  <1>2. r \in Areas /\ row \in r.min_y .. r.max_y - 1
    BY <1>1, OpFacts DEF OpOK, FbInv
  <1>3. /\ row \in Nat /\ r.min_x .. r.max_x - 1 \subseteq 0 .. WIDTH - 1
        /\ r.min_x \in Int /\ r.max_x \in Int /\ r.min_y \in Int /\ r.max_y \in Int
    BY <1>2, ScreenAssumption DEF Areas, Rects
  <1>4. /\ p[1] \in 0 .. WIDTH - 1 /\ p[2] \in Nat /\ WIDTH \in Nat
        /\ i \in DOMAIN back /\ i = p[2] * WIDTH + p[1]
    BY PixelFacts, ScreenAssumption DEF Buffers, Offset
  <1>5. back'[i] = IF c \in r.min_x .. r.max_x - 1 THEN RowSource(o, c) ELSE back[i]
    BY <1>4 DEF WriteRow
  <1>6. row * WIDTH \in Nat
    BY <1>3, <1>4
  <1>7. CASE In(p, r) /\ p[2] = row
    <2>1. c = p[1] /\ c \in r.min_x .. r.max_x - 1
      BY <1>3, <1>4, <1>6, <1>7 DEF In
    <2> QED
      BY <1>5, <1>7, <2>1 DEF RowSource, Source, Pixel
  <1>8. CASE ~(In(p, r) /\ p[2] = row)
    <2>1. c \notin r.min_x .. r.max_x - 1
      <3> SUFFICES ASSUME c \in r.min_x .. r.max_x - 1 PROVE FALSE
        OBVIOUS
      <3>1. p[2] = row
        BY <1>3, <1>4, RowOffset
      <3>2. c = p[1]
        BY <1>4, <1>6, <3>1
      <3> QED
        BY <1>2, <1>3, <1>8, <3>1, <3>2 DEF In
    <2> QED
      BY <1>5, <1>8, <2>1 DEF Pixel
  <1> QED
    BY <1>7, <1>8

(***************************************************************************)
(* The rows still to be copied have their sources as they were.            *)
(***************************************************************************)
LEMMA SourceKept ==
    ASSUME FbInv, Buffers, WriteRow, CopySafe(Head(ops)),
           NEW p \in Pixels, In(p, Head(ops).r), row + 1 <= p[2]
    PROVE  Source(Head(ops), p)' = Source(Head(ops), p)
  <1> DEFINE o == Head(ops)
             r == o.r
  <1>1. pc = "row" /\ o \in Ops /\ o.op \in {"fill", "copy"} /\ ops' = ops
    BY DEF WriteRow, FbInv
  <1>2. CASE o.op = "fill"
    BY <1>1, <1>2 DEF Source
  <1>3. CASE o.op = "copy"
    <2>1. /\ r \in Areas /\ row \in r.min_y .. r.max_y - 1
          /\ o.sx \in Nat /\ o.sx + (r.max_x - r.min_x) <= WIDTH
          /\ o.sy \in Nat /\ o.sy + (r.max_y - r.min_y) <= HEIGHT
      BY <1>1, <1>3, OpFacts DEF OpOK, FbInv
    <2>2. /\ r.min_x \in Int /\ r.max_x \in Int /\ r.min_y \in Int /\ r.max_y \in Int
          /\ row \in Int /\ p[1] \in Int /\ p[2] \in Int
          /\ r.min_x <= p[1] /\ p[1] < r.max_x /\ r.min_y <= p[2] /\ p[2] < r.max_y
      BY <2>1, PixelFacts, ScreenAssumption DEF Areas, Rects, In
    <2>3. p[1] - r.min_x + o.sx \in 0 .. WIDTH - 1 /\ p[2] - r.min_y + o.sy \in 0 .. HEIGHT - 1
      BY <2>1, <2>2, ScreenAssumption
    <2>4. PICK s \in Pixels : s[1] = p[1] - r.min_x + o.sx /\ s[2] = p[2] - r.min_y + o.sy
      <3>1. <<p[1] - r.min_x + o.sx, p[2] - r.min_y + o.sy>> \in Pixels
        BY <2>3 DEF Pixels
      <3> QED
        BY <3>1
    <2>5. ~(In(s, r) /\ s[2] = row)
      <3> SUFFICES ASSUME r.min_x <= s[1], s[1] < r.max_x, s[2] = row PROVE FALSE
        BY DEF In
      <3>1. \/ r.min_y <= o.sy
            \/ o.sy + (r.max_y - r.min_y) <= r.min_y
            \/ o.sx + (r.max_x - r.min_x) <= r.min_x
            \/ r.max_x <= o.sx
        BY <1>3 DEF CopySafe
      <3> QED
        BY <2>1, <2>2, <2>4, <3>1
    <2>6. Pixel(s)' = Pixel(s)
      BY <2>4, <2>5, RowDrawn
    <2>7. Source(o, p) = Pixel(s) /\ Source(o, p)' = Pixel(s)'
      BY <1>1, <1>3, <2>4 DEF Source, Pixel
    <2> QED
      BY <2>6, <2>7
  <1> QED
    BY <1>1, <1>2, <1>3

(***************************************************************************)
(* The row loop carries on towards the promise.                            *)
(***************************************************************************)
LEMMA WriteRowEffect ==
    ASSUME FbInv, Buffers, EffectInv, WriteRow
    PROVE  EffectInv'
  <1> DEFINE r == Head(ops).r
  <1>1. /\ pc = "row" /\ row' = row + 1 /\ pc' = IF row' = r.max_y THEN "test" ELSE "row"
        /\ ops' = ops /\ want' = want
    BY DEF WriteRow
  <1>2. /\ Head(ops) \in Ops /\ Head(ops).op \in {"fill", "copy"}
    BY <1>1 DEF FbInv
  <1>3. /\ row \in Int /\ r.max_y \in Int /\ \A p \in Pixels : p[2] \in Int
    <2>1. r \in Areas /\ row \in r.min_y .. r.max_y - 1
      BY <1>1, <1>2, OpFacts DEF OpOK, FbInv
    <2> QED
      BY <2>1, PixelFacts, ScreenAssumption DEF Areas, Rects
  <1>4. \A p \in Pixels : Pixel(p)' =
            IF In(p, r) /\ p[2] = row THEN Source(Head(ops), p) ELSE Pixel(p)
    BY RowDrawn
  <1>5. DOMAIN back' = DOMAIN back
    BY DEF WriteRow
  <1>6. \A p \in Pixels : Wanted(p)' = Wanted(p) /\ \A c : Then(c, p)' = Then(c, p)
    BY <1>1 DEF Wanted, Then
  <1>7. \A p \in Pixels : Wanted(p) = Then(RowsDone(p), p)
    BY <1>1 DEF EffectInv
  <1>8. CopySafe(Head(ops))
    BY <1>1 DEF EffectInv
  <1>9. CASE row' = r.max_y
    <2>1. ASSUME NEW p \in Pixels PROVE RowsDone(p) = Pixel(p)'
      BY <1>1, <1>3, <1>4, <1>9 DEF RowsDone, In
    <2>2. \A p \in Pixels : Wanted(p)' = Then(Pixel(p)', p)
      BY <1>6, <1>7, <2>1
    <2>3. \A p \in Pixels : (Wanted(p) = Then(Pixel(p), p))'
      BY <1>1, <2>2 DEF Then
    <2> QED
      BY <1>1, <1>5, <1>9, <2>3 DEF EffectInv
  <1>10. CASE row' # r.max_y
    <2>1. ASSUME NEW p \in Pixels PROVE RowsDone(p)' = RowsDone(p)
      <3>1. CASE In(p, r) /\ row + 1 <= p[2]
        <4>1. Source(Head(ops), p)' = Source(Head(ops), p)
          BY <1>8, <3>1, SourceKept
        <4> QED
          BY <1>1, <1>3, <3>1, <4>1 DEF RowsDone
      <3>2. CASE ~(In(p, r) /\ row + 1 <= p[2])
        <4>1. RowsDone(p)' = Pixel(p)'
          BY <1>1, <3>2 DEF RowsDone
        <4>2. RowsDone(p) = IF In(p, r) /\ p[2] = row THEN Source(Head(ops), p) ELSE Pixel(p)
          BY <1>3, <3>2 DEF RowsDone
        <4> QED
          BY <1>4, <4>1, <4>2
      <3> QED
        BY <3>1, <3>2
    <2>2. \A p \in Pixels : (Wanted(p) = Then(RowsDone(p), p))'
      BY <1>1, <1>6, <1>7, <2>1 DEF Then
    <2>3. CopySafe(Head(ops))'
      BY <1>1, <1>8 DEF CopySafe
    <2> QED
      BY <1>1, <1>5, <1>10, <2>2, <2>3 DEF EffectInv
  <1> QED
    BY <1>9, <1>10

(***************************************************************************)
(* What is left of a call of one or two operations after the first.        *)
(***************************************************************************)
LEMMA RestOfCall ==
    ASSUME NEW S, NEW s \in Seq(S), s # << >>, Len(s) <= 2
    PROVE  \/ Len(s) = 1 /\ Tail(s) = << >> /\ Len(Tail(s)) = 0
           \/ /\ Len(s) = 2 /\ Tail(s) \in Seq(S) /\ Len(Tail(s)) = 1
              /\ Tail(s) # << >> /\ Head(Tail(s)) = s[2]
  <1>1. Len(s) = 1 \/ Len(s) = 2
    <2> DEFINE n == Len(s)
    <2>1. n \in Nat /\ n # 0 /\ n <= 2
      BY EmptySeq, LenProperties
    <2> HIDE DEF n
    <2>2. n = 1 \/ n = 2
      BY <2>1
    <2> QED
      BY <2>2 DEF n
  <1>2. CASE Len(s) = 1
    <2>1. Tail(s) \in Seq(S) /\ Len(Tail(s)) = 0
      BY <1>2
    <2> QED
      BY <1>2, <2>1, EmptySeq
  <1>3. CASE Len(s) = 2
    <2>1. Tail(s) \in Seq(S) /\ Len(Tail(s)) = 1 /\ Tail(s)[1] = s[2]
      BY <1>3
    <2> QED
      BY <1>3, <2>1
  <1> QED
    BY <1>1, <1>2, <1>3

(***************************************************************************)
(* The end of an operation: what is left is the fill after a copy, a       *)
(* present, or nothing.                                                    *)
(***************************************************************************)
LEMMA FinishEffect ==
    ASSUME FbInv, pc # "idle", ops # << >>, Finish, UNCHANGED <<back, want>>,
           want = [i \in DOMAIN back |-> want[i]],
           Len(ops) <= 2, Len(ops) = 2 => ops[2].op \in {"fill", "present"},
           \A p \in Pixels : Wanted(p) = Then(Pixel(p), p)
    PROVE  EffectInv'
  <1>1. ops \in Seq(Ops) /\ ops' = Tail(ops) /\ pc' = Entry(ops') /\ row' = EntryRow(ops')
    BY DEF FbInv, Finish
  <1>2. \A p \in Pixels : Pixel(p)' = Pixel(p) /\ Wanted(p)' = Wanted(p)
    BY DEF Pixel, Wanted
  <1>3. CASE Len(ops) = 1 /\ ops' = << >> /\ Len(ops') = 0
    <2>1. pc' = "done"
      BY <1>1, <1>3 DEF Entry
    <2>2. \A p \in Pixels : Wanted(p)' = Pixel(p)'
      BY <1>2, <1>3 DEF Then
    <2> QED
      BY <1>3, <2>1, <2>2 DEF EffectInv
  <1>4. CASE /\ Len(ops) = 2 /\ ops' \in Seq(Ops) /\ Len(ops') = 1
             /\ ops' # << >> /\ Head(ops') = ops[2]
    <2>1. ops' \in Seq(Ops) /\ Len(ops') = 1 /\ ops' # << >> /\ Head(ops') = ops[2]
      BY <1>4
    <2>2. CASE ops[2].op = "present"
      <3>1. ops[2].op \notin {"fill", "copy"} /\ ops[2].op # "mark"
        BY <2>2
      <3>2. pc' = "ptest"
        BY <1>1, <2>1, <2>2, <3>1 DEF Entry
      <3>3. \A p \in Pixels : Wanted(p)' = Pixel(p)'
        BY <1>2, <2>2 DEF Then
      <3> QED
        BY <2>1, <3>2, <3>3 DEF EffectInv
    <2>3. CASE ops[2].op = "fill"
      <3>1. ops[2].op \in {"fill", "copy"}
        BY <2>3
      <3>2. pc' = "row"
        BY <1>1, <2>1, <3>1 DEF Entry
      <3>3. row' = ops[2].r.min_y
        BY <1>1, <2>1 DEF EntryRow
      <3>4. ASSUME NEW p \in Pixels PROVE (Wanted(p) = Then(RowsDone(p), p))'
        <4>1. Then(RowsDone(p), p)' = RowsDone(p)'
          BY <2>1 DEF Then
        <4>2. RowsDone(p)' = IF In(p, ops[2].r) THEN ops[2].pixel ELSE Pixel(p)
          BY <1>2, <2>1, <2>3, <3>3 DEF RowsDone, Source, In
        <4>3. Wanted(p) = IF In(p, ops[2].r) THEN ops[2].pixel ELSE Pixel(p)
          BY <1>4, <2>3 DEF Then
        <4> QED
          BY <1>2, <4>1, <4>2, <4>3
      <3>5. CopySafe(Head(ops))'
        BY <2>1, <2>3 DEF CopySafe
      <3> QED
        BY <2>1, <3>2, <3>4, <3>5 DEF EffectInv
    <2> QED
      BY <1>4, <2>2, <2>3
  <1> QED
    BY <1>1, <1>3, <1>4, RestOfCall

(***************************************************************************)
(* Marking and presenting draw nothing.                                    *)
(***************************************************************************)
LEMMA OtherEffect ==
    ASSUME FbInv, EffectInv,
           \/ MarkTest \/ MarkFlag \/ MarkSet \/ MarkLoad \/ MarkStore
           \/ PresentTest \/ PresentRead \/ PresentClean \/ PresentRow
    PROVE  EffectInv'
  <1>1. UNCHANGED <<back, want>>
    BY DEF MarkTest, MarkFlag, MarkSet, MarkLoad, MarkStore,
           PresentTest, PresentRead, PresentClean, PresentRow
  <1>2. \A p \in Pixels : Pixel(p)' = Pixel(p) /\ Wanted(p)' = Wanted(p)
    BY <1>1 DEF Pixel, Wanted
  <1>3. pc # "idle" /\ pc # "done" /\ pc # "row" /\ ops # << >>
    BY DEF MarkTest, MarkFlag, MarkSet, MarkLoad, MarkStore,
           PresentTest, PresentRead, PresentClean, PresentRow, FbInv
  <1>4. \A p \in Pixels : Wanted(p) = Then(Pixel(p), p)
    BY <1>3 DEF EffectInv, FbInv, Then
  <1>5. CASE Finish
    BY <1>1, <1>3, <1>4, <1>5, FinishEffect DEF EffectInv
  <1>6. CASE ~Finish
    <2>1. ops' = ops
      BY <1>6 DEF MarkTest, MarkFlag, MarkSet, MarkLoad, MarkStore,
                  PresentTest, PresentRead, PresentClean, PresentRow
    <2>2. \/ /\ pc \in {"test", "dirty", "set", "load", "store"}
             /\ pc' \in {"test", "dirty", "set", "load", "store"}
          \/ /\ pc \in {"ptest", "read", "clean", "show"}
             /\ pc' \in {"ptest", "read", "clean", "show"}
      BY <1>6 DEF MarkTest, MarkFlag, MarkSet, MarkLoad, MarkStore,
                  PresentTest, PresentRead, PresentClean, PresentRow
    <2>3. \A p \in Pixels : (Then(Pixel(p), p))' = Then(Pixel(p), p)
      BY <1>2, <2>1 DEF Then
    <2> QED
      BY <1>1, <1>2, <2>1, <2>2, <2>3 DEF EffectInv
  <1> QED
    BY <1>5, <1>6

-----------------------------------------------------------------------------
(* The calls' promises *)

(***************************************************************************)
(* The clipped rectangle has the pixels of the screen the caller means,    *)
(* and a rejected one means none.                                          *)
(***************************************************************************)
LEMMA ClipMeant ==
    ASSUME NEW x \in 0..USIZE_MAX, NEW y \in 0..USIZE_MAX,
           NEW w \in 0..USIZE_MAX, NEW h \in 0..USIZE_MAX, NEW p \in Pixels
    PROVE  /\ Rejected(x, y, w, h) => ~Meant(p[1], p[2], x, y, w, h)
           /\ ~Rejected(x, y, w, h) =>
                (In(p, Clip(x, y, w, h)) <=> Meant(p[1], p[2], x, y, w, h))
  <1>1. p[1] \in 0 .. WIDTH - 1 /\ p[2] \in 0 .. HEIGHT - 1
    BY PixelFacts
  <1>2. /\ Clip(x, y, w, h).min_x = x /\ Clip(x, y, w, h).min_y = y
        /\ Clip(x, y, w, h).max_x = least(saturating_add(x, w), WIDTH)
        /\ Clip(x, y, w, h).max_y = least(saturating_add(y, h), HEIGHT)
    BY DEF Clip
  <1>3. Rejected(x, y, w, h) => ~Meant(p[1], p[2], x, y, w, h)
    BY <1>1, ScreenAssumption DEF Rejected, Meant
  <1>4. /\ p[1] < least(saturating_add(x, w), WIDTH) <=> p[1] < x + w
        /\ p[2] < least(saturating_add(y, h), HEIGHT) <=> p[2] < y + h
    BY <1>1, ScreenAssumption DEF least, saturating_add
  <1> QED
    BY <1>1, <1>2, <1>3, <1>4 DEF In, Meant

(***************************************************************************)
(* A call that draws starts with its promise to be kept.                   *)
(***************************************************************************)
LEMMA StartDrawing ==
    ASSUME pc = "idle", back' = back, pc' = Entry(ops'), row' = EntryRow(ops'),
           want' = [i \in DOMAIN back |-> want'[i]],
           ops' # << >>, Head(ops').op \in {"fill", "copy"}, CopySafe(Head(ops')),
           Len(ops') = 1 \/ (Len(ops') = 2 /\ ops'[2].op = "fill"),
           \A p \in Pixels : Wanted(p)' =
               IF Len(ops') = 2 /\ In(p, ops'[2].r) THEN ops'[2].pixel
               ELSE IF In(p, Head(ops').r) THEN Source(Head(ops'), p) ELSE Pixel(p)
    PROVE  EffectInv'
  <1>1. pc' = "row" /\ row' = Head(ops').r.min_y
    BY DEF Entry, EntryRow
  <1>2. ASSUME NEW p \in Pixels PROVE (Wanted(p) = Then(RowsDone(p), p))'
    <2>1. RowsDone(p)' = IF In(p, Head(ops').r) THEN Source(Head(ops'), p) ELSE Pixel(p)
      BY <1>1 DEF RowsDone, In, Source, Pixel
    <2> QED
      BY <2>1 DEF Then
  <1>3. CopySafe(Head(ops))'
    BY DEF CopySafe
  <1>4. want' = [i \in DOMAIN back' |-> want'[i]]
    OBVIOUS
  <1>5. Len(ops') <= 2 /\ (Len(ops') = 2 => ops'[2].op \in {"fill", "present"})
    <2>1. CASE Len(ops') = 1
      BY <2>1
    <2>2. CASE Len(ops') = 2 /\ ops'[2].op = "fill"
      BY <2>2
    <2> QED
      BY <2>1, <2>2
  <1> QED
    BY <1>1, <1>2, <1>3, <1>4, <1>5 DEF EffectInv

(***************************************************************************)
(* So does one that fills a single rectangle.                              *)
(***************************************************************************)
LEMMA StartFill ==
    ASSUME pc = "idle", back' = back, pc' = Entry(ops'), row' = EntryRow(ops'),
           want' = [i \in DOMAIN back |-> want'[i]],
           NEW r, NEW c, ops' = << Fill(r, c) >>,
           \A p \in Pixels : Wanted(p)' = IF In(p, r) THEN color_to_u32(c) ELSE Pixel(p)
    PROVE  EffectInv'
  <1>1. ops' # << >> /\ Head(ops') = Fill(r, c) /\ Len(ops') = 1
    OBVIOUS
  <1>2. Fill(r, c).op = "fill" /\ Fill(r, c).r = r /\ Fill(r, c).pixel = color_to_u32(c)
    BY DEF Fill
  <1>3. \A p \in Pixels : Source(Head(ops'), p) = color_to_u32(c)
    BY <1>1, <1>2 DEF Source
  <1>4. Head(ops').op \in {"fill", "copy"} /\ CopySafe(Head(ops')) /\ Head(ops').r = r
    BY <1>1, <1>2 DEF CopySafe
  <1> QED
    BY <1>1, <1>3, <1>4, StartDrawing

(***************************************************************************)
(* A call that does not draw promises the buffer as it is.                 *)
(***************************************************************************)
LEMMA StartNothing ==
    ASSUME pc = "idle", back' = back, pc' = Entry(ops'),
           want' = [i \in DOMAIN back |-> want'[i]],
           ops' \in {<< >>, present, present_full},
           \A p \in Pixels : Wanted(p)' = Pixel(p)
    PROVE  EffectInv'
  <1>1. \A p \in Pixels : Wanted(p)' = Pixel(p)'
    BY DEF Pixel
  <1>2. CASE ops' = << >>
    <2>1. pc' = "done" /\ Len(ops') = 0
      BY <1>2, FullOps
    <2> QED
      BY <1>1, <2>1 DEF EffectInv
  <1>3. CASE ops' = present
    <2>1. pc' = "ptest" /\ Len(ops') = 1
      BY <1>3, FullOps DEF present
    <2> QED
      BY <1>1, <2>1 DEF EffectInv
  <1>4. CASE ops' = present_full
    <2>1. pc' = "test" /\ Len(ops') = 2 /\ ops'[2] = Present
      BY <1>4, FullOps DEF present_full
    <2>2. ops'[2].op = "present"
      BY <2>1 DEF Present
    <2>3. \A p \in Pixels : (Wanted(p) = Then(Pixel(p), p))'
      BY <1>1, <2>2 DEF Then
    <2> QED
      BY <2>1, <2>2, <2>3 DEF EffectInv
  <1> QED
    BY <1>2, <1>3, <1>4

(***************************************************************************)
(* What copy_rect copies: the pixels the caller means whose source is on   *)
(* the screen, from where the caller means.                                *)
(***************************************************************************)
LEMMA CopyMeant ==
    ASSUME NEW sx \in 0..USIZE_MAX, NEW sy \in 0..USIZE_MAX,
           NEW dx \in 0..USIZE_MAX, NEW dy \in 0..USIZE_MAX,
           NEW w \in 0..USIZE_MAX, NEW h \in 0..USIZE_MAX,
           ~Rejected(sx, sy, w, h), ~Rejected(dx, dy, w, h),
           ~ReadsItsOwnRows(sx, sy, dx, dy, w, h)
    PROVE  \E o : /\ copy_rect(sx, sy, dx, dy, w, h) = << o >> /\ o.op = "copy" /\ CopySafe(o)
                  /\ \A p \in Pixels :
                        /\ In(p, o.r) <=> /\ Meant(p[1], p[2], dx, dy, w, h)
                                          /\ <<p[1] - dx + sx, p[2] - dy + sy>> \in Pixels
                        /\ Source(o, p) = Kept(p[1] - dx + sx, p[2] - dy + sy)
  <1> DEFINE cw == least(least(w, WIDTH - sx), WIDTH - dx)
             ch == least(least(h, HEIGHT - sy), HEIGHT - dy)
             r == Clip(dx, dy, cw, ch)
             o == Copy(r, sx, sy)
  <1>1. /\ cw \in 0..USIZE_MAX /\ ch \in 0..USIZE_MAX /\ ~Rejected(dx, dy, cw, ch)
        /\ dx + cw <= WIDTH /\ dy + ch <= HEIGHT /\ cw <= w
        /\ sy < dy => ch = least(h, HEIGHT - dy)
    BY ScreenAssumption DEF Rejected, least
  <1>2. copy_rect(sx, sy, dx, dy, w, h) = << o >>
    BY DEF copy_rect
  <1>3. \A a, b \in Int : /\ a < dx + cw <=> a < dx + w /\ a < dx + WIDTH - sx /\ a < WIDTH
                          /\ b < dy + ch <=> b < dy + h /\ b < dy + HEIGHT - sy /\ b < HEIGHT
    BY ScreenAssumption DEF least
  <1> HIDE DEF cw, ch
  <1>4. /\ r.min_x = dx /\ r.min_y = dy /\ r.max_x = dx + cw /\ r.max_y = dy + ch
    BY <1>1, ScreenAssumption DEF Clip, least, saturating_add
  <1>5. \A p \in Pixels : In(p, r) <=> Meant(p[1], p[2], dx, dy, cw, ch)
    BY <1>1, ClipMeant
  <1> HIDE DEF r
  <1>6. o.op = "copy" /\ o.r = r /\ o.sx = sx /\ o.sy = sy
    BY DEF Copy
  <1> HIDE DEF o
  <1>7. CopySafe(o)
    <2>1. \/ dy <= sy \/ sy + ch <= dy \/ sx + cw <= dx \/ dx + cw <= sx
      <3> SUFFICES ASSUME sy < dy, dy < sy + ch, dx < sx + cw, sx < dx + cw PROVE FALSE
        BY <1>1, ScreenAssumption
      <3>1. dy < sy + least(h, HEIGHT - dy)
        BY <1>1
      <3>2. sx < dx + w /\ dx < sx + w
        BY <1>1
      <3> QED
        BY <3>1, <3>2 DEF ReadsItsOwnRows
    <2> QED
      BY <1>1, <1>4, <1>6, <2>1 DEF CopySafe
  <1>8. ASSUME NEW p \in Pixels
        PROVE  /\ In(p, r) <=> /\ Meant(p[1], p[2], dx, dy, w, h)
                               /\ <<p[1] - dx + sx, p[2] - dy + sy>> \in Pixels
               /\ Source(o, p) = Kept(p[1] - dx + sx, p[2] - dy + sy)
    <2>1. p[1] \in 0 .. WIDTH - 1 /\ p[2] \in 0 .. HEIGHT - 1
      BY PixelFacts
    <2>2. <<p[1] - dx + sx, p[2] - dy + sy>> \in Pixels <=>
            p[1] - dx + sx \in 0 .. WIDTH - 1 /\ p[2] - dy + sy \in 0 .. HEIGHT - 1
      BY DEF Pixels
    <2>3. In(p, r) <=> p[1] >= dx /\ p[1] < dx + cw /\ p[2] >= dy /\ p[2] < dy + ch
      BY <1>5 DEF Meant
    <2>4. /\ p[1] < dx + cw <=> p[1] < dx + w /\ p[1] < dx + WIDTH - sx
          /\ p[2] < dy + ch <=> p[2] < dy + h /\ p[2] < dy + HEIGHT - sy
      BY <1>3, <2>1, ScreenAssumption
    <2>5. In(p, r) <=> /\ Meant(p[1], p[2], dx, dy, w, h)
                       /\ <<p[1] - dx + sx, p[2] - dy + sy>> \in Pixels
      BY <2>1, <2>2, <2>3, <2>4, ScreenAssumption DEF Meant
    <2> QED
      BY <1>4, <1>6, <2>5 DEF Source, Kept
  <1> QED
    BY <1>2, <1>6, <1>7, <1>8

(***************************************************************************)
(* Every call starts with its promise to be kept.                          *)
(***************************************************************************)
LEMMA CallsEffect ==
    ASSUME Buffers, Calls
    PROVE  EffectInv'
  <1>1. /\ pc = "idle" /\ pc' = Entry(ops') /\ row' = EntryRow(ops') /\ back' = back
    BY CallsOps
  <1>2. ASSUME NEW p \in Pixels
        PROVE  /\ Offset(p[1], p[2]) \in DOMAIN back
               /\ Offset(p[1], p[2]) % WIDTH = p[1] /\ Offset(p[1], p[2]) \div WIDTH = p[2]
               /\ Kept(p[1], p[2]) = Pixel(p)
               /\ p[1] \in 0 .. WIDTH - 1 /\ p[2] \in 0 .. HEIGHT - 1
    BY PixelFacts DEF Buffers, Kept, Pixel
  <1>3. CASE PutPixel
    <2>1. PICK x \in 0..USIZE_MAX, y \in 0..USIZE_MAX, c \in Colors :
            /\ ops' = put_pixel(x, y, c)
            /\ want' = [i \in DOMAIN back |->
                          IF i % WIDTH = x /\ i \div WIDTH = y THEN color_to_u32(c)
                          ELSE Kept(i % WIDTH, i \div WIDTH)]
      BY <1>3, ArgumentAssumption DEF PutPixel, Call
    <2>2. want' = [i \in DOMAIN back |-> want'[i]]
      BY <2>1
    <2>3. \A p \in Pixels : Wanted(p)' =
              IF p[1] = x /\ p[2] = y THEN color_to_u32(c) ELSE Pixel(p)
      BY <1>2, <2>1 DEF Wanted
    <2>4. CASE x >= WIDTH \/ y >= HEIGHT
      <3>1. ops' = << >>
        BY <2>1, <2>4 DEF put_pixel
      <3>2. \A p \in Pixels : Wanted(p)' = Pixel(p)
        BY <1>2, <2>3, <2>4, ScreenAssumption
      <3> QED
        BY <1>1, <2>2, <3>1, <3>2, StartNothing
    <2>5. CASE ~(x >= WIDTH \/ y >= HEIGHT)
      <3>1. ops' = << Fill(Clip(x, y, 1, 1), c) >>
        BY <2>1, <2>5 DEF put_pixel
      <3>2. 1 \in 0..USIZE_MAX /\ ~Rejected(x, y, 1, 1)
        BY <2>5, ScreenAssumption DEF Rejected
      <3>3. \A p \in Pixels : In(p, Clip(x, y, 1, 1)) <=> Meant(p[1], p[2], x, y, 1, 1)
        BY <3>2, ClipMeant
      <3>4. \A p \in Pixels : Meant(p[1], p[2], x, y, 1, 1) <=> p[1] = x /\ p[2] = y
        BY <1>2, ScreenAssumption DEF Meant
      <3>5. \A p \in Pixels : Wanted(p)' =
                IF In(p, Clip(x, y, 1, 1)) THEN color_to_u32(c) ELSE Pixel(p)
        BY <2>3, <3>3, <3>4
      <3> QED
        BY <1>1, <2>2, <3>1, <3>5, StartFill
    <2> QED
      BY <2>4, <2>5
  <1>4. CASE Clear
    <2>1. PICK c \in Colors :
            /\ ops' = << Fill(Whole, c) >>
            /\ want' = [i \in DOMAIN back |-> color_to_u32(c)]
      BY <1>4 DEF Clear, Call, clear
    <2>2. want' = [i \in DOMAIN back |-> want'[i]]
      BY <2>1
    <2>3. \A p \in Pixels : Wanted(p)' = color_to_u32(c)
      BY <1>2, <2>1 DEF Wanted
    <2>4. \A p \in Pixels : In(p, Whole)
      BY <1>2, ScreenAssumption DEF In, Whole
    <2> QED
      BY <1>1, <2>1, <2>2, <2>3, <2>4, StartFill
  <1>5. CASE DrawRect
    <2>1. PICK x \in 0..USIZE_MAX, y \in 0..USIZE_MAX, w \in 0..USIZE_MAX, h \in 0..USIZE_MAX,
               c \in Colors :
            /\ ops' = draw_rect(x, y, w, h, c)
            /\ want' = [i \in DOMAIN back |->
                          IF Meant(i % WIDTH, i \div WIDTH, x, y, w, h) THEN color_to_u32(c)
                          ELSE Kept(i % WIDTH, i \div WIDTH)]
      BY <1>5, ArgumentAssumption DEF DrawRect, Call
    <2>2. want' = [i \in DOMAIN back |-> want'[i]]
      BY <2>1
    <2>3. \A p \in Pixels : Wanted(p)' =
              IF Meant(p[1], p[2], x, y, w, h) THEN color_to_u32(c) ELSE Pixel(p)
      BY <1>2, <2>1 DEF Wanted
    <2>4. CASE Rejected(x, y, w, h)
      <3>1. ops' = << >>
        BY <2>1, <2>4 DEF draw_rect
      <3>2. \A p \in Pixels : Wanted(p)' = Pixel(p)
        BY <2>3, <2>4, ClipMeant
      <3> QED
        BY <1>1, <2>2, <3>1, <3>2, StartNothing
    <2>5. CASE ~Rejected(x, y, w, h)
      <3>1. ops' = << Fill(Clip(x, y, w, h), c) >>
        BY <2>1, <2>5 DEF draw_rect
      <3>2. \A p \in Pixels : Wanted(p)' =
                IF In(p, Clip(x, y, w, h)) THEN color_to_u32(c) ELSE Pixel(p)
        BY <2>3, <2>5, ClipMeant
      <3> QED
        BY <1>1, <2>2, <3>1, <3>2, StartFill
    <2> QED
      BY <2>4, <2>5
  <1>6. CASE CopyRect
    <2>1. PICK sx \in Xs, sy \in Ys, dx \in Xs, dy \in Ys, w \in Sizes, h \in Sizes :
            /\ ~ReadsItsOwnRows(sx, sy, dx, dy, w, h)
            /\ ops' = copy_rect(sx, sy, dx, dy, w, h)
            /\ want' = [i \in DOMAIN back |->
                   IF /\ Meant(i % WIDTH, i \div WIDTH, dx, dy, w, h)
                      /\ <<(i % WIDTH) - dx + sx, (i \div WIDTH) - dy + sy>> \in Pixels
                   THEN Kept((i % WIDTH) - dx + sx, (i \div WIDTH) - dy + sy)
                   ELSE Kept(i % WIDTH, i \div WIDTH)]
      BY <1>6, SMT DEF CopyRect, Call
    <2>a. /\ sx \in 0..USIZE_MAX /\ sy \in 0..USIZE_MAX /\ dx \in 0..USIZE_MAX
          /\ dy \in 0..USIZE_MAX /\ w \in 0..USIZE_MAX /\ h \in 0..USIZE_MAX
      BY ArgumentAssumption
    <2>2. want' = [i \in DOMAIN back |-> want'[i]]
      BY <2>1
    <2>3. \A p \in Pixels : Wanted(p)' =
              IF /\ Meant(p[1], p[2], dx, dy, w, h)
                 /\ <<p[1] - dx + sx, p[2] - dy + sy>> \in Pixels
              THEN Kept(p[1] - dx + sx, p[2] - dy + sy) ELSE Pixel(p)
      BY <1>2, <2>1 DEF Wanted
    <2>4. CASE Rejected(sx, sy, w, h) \/ Rejected(dx, dy, w, h)
      <3>1. ops' = << >>
        BY <2>1, <2>4 DEF copy_rect
      <3>2. ASSUME NEW p \in Pixels, Meant(p[1], p[2], dx, dy, w, h),
                   <<p[1] - dx + sx, p[2] - dy + sy>> \in Pixels
            PROVE  FALSE
        <4>1. p[1] - dx + sx \in 0 .. WIDTH - 1 /\ p[2] - dy + sy \in 0 .. HEIGHT - 1
          BY <3>2 DEF Pixels
        <4> QED
          BY <1>2, <2>4, <2>a, <3>2, <4>1, ScreenAssumption DEF Rejected, Meant
      <3>3. \A p \in Pixels : Wanted(p)' = Pixel(p)
        BY <2>3, <3>2
      <3> QED
        BY <1>1, <2>2, <3>1, <3>3, StartNothing
    <2>5. CASE ~(Rejected(sx, sy, w, h) \/ Rejected(dx, dy, w, h))
      <3>0. PICK o : /\ copy_rect(sx, sy, dx, dy, w, h) = << o >> /\ o.op = "copy" /\ CopySafe(o)
                     /\ \A p \in Pixels :
                        /\ In(p, o.r) <=> /\ Meant(p[1], p[2], dx, dy, w, h)
                                          /\ <<p[1] - dx + sx, p[2] - dy + sy>> \in Pixels
                        /\ Source(o, p) = Kept(p[1] - dx + sx, p[2] - dy + sy)
        <4>1. ~Rejected(sx, sy, w, h) /\ ~Rejected(dx, dy, w, h)
          BY <2>5
        <4>2. ~ReadsItsOwnRows(sx, sy, dx, dy, w, h)
          BY <2>1
        <4> QED
          BY <2>a, <4>1, <4>2, CopyMeant, SMTT(60)
      <3>1. ops' = << o >>
        BY <2>1, <3>0
      <3>2. ops' # << >> /\ Head(ops') = o /\ Len(ops') = 1
        BY <3>1
      <3>3. \A p \in Pixels : Wanted(p)' = IF In(p, o.r) THEN Source(o, p) ELSE Pixel(p)
        BY <2>3, <3>0
      <3> QED
        BY <1>1, <2>2, <3>0, <3>2, <3>3, StartDrawing
    <2> QED
      BY <2>4, <2>5
  <1>7. CASE PresentDirty \/ PresentFull
    <2>1. /\ ops' \in {present, present_full}
          /\ want' = [i \in DOMAIN back |-> Kept(i % WIDTH, i \div WIDTH)]
      BY <1>7 DEF PresentDirty, PresentFull, Call
    <2>2. want' = [i \in DOMAIN back |-> want'[i]]
      BY <2>1
    <2>3. \A p \in Pixels : Wanted(p)' = Pixel(p)
      BY <1>2, <2>1 DEF Wanted
    <2> QED
      BY <1>1, <2>1, <2>2, <2>3, StartNothing
  <1>8. CASE ScrollUp
    <2>1. PICK n \in Sizes, c \in Colors :
            /\ ops' = scroll_up(n, c)
            /\ want' = [i \in DOMAIN back |->
                   IF (i \div WIDTH) + n < HEIGHT THEN Kept(i % WIDTH, (i \div WIDTH) + n)
                   ELSE color_to_u32(c)]
      BY <1>8 DEF ScrollUp, Call
    <2>2. n \in 0..USIZE_MAX
      BY ArgumentAssumption
    <2>3. want' = [i \in DOMAIN back |-> want'[i]]
      BY <2>1
    <2>4. \A p \in Pixels : Wanted(p)' =
              IF p[2] + n < HEIGHT THEN Kept(p[1], p[2] + n) ELSE color_to_u32(c)
      BY <1>2, <2>1 DEF Wanted
    <2>5. CASE n = 0
      <3>1. ops' = << >>
        <4>1. n = 0 /\ ~(n >= HEIGHT) /\ n \notin 1 .. HEIGHT - 1
          BY <2>5, ScreenAssumption
        <4>2. scroll_up(n, c) = << >>
          BY <4>1, Zenon DEF scroll_up
        <4> QED
          BY <2>1, <4>2
      <3>2. \A p \in Pixels : Wanted(p)' = Pixel(p)
        BY <1>2, <2>4, <2>5, ScreenAssumption
      <3> QED
        BY <1>1, <2>3, <3>1, <3>2, StartNothing
    <2>6. CASE n >= HEIGHT
      <3>1. n # 0 /\ n \notin 1 .. HEIGHT - 1
        BY <2>2, <2>6, ScreenAssumption
      <3>2. ops' = << Fill(Whole, c) >>
        BY <2>1, <2>6, <3>1, Zenon DEF scroll_up, clear
      <3>3. \A p \in Pixels : In(p, Whole)
        BY <1>2, ScreenAssumption DEF In, Whole
      <3>4. \A p \in Pixels : Wanted(p)' = color_to_u32(c)
        BY <1>2, <2>2, <2>4, <2>6, ScreenAssumption
      <3> QED
        BY <1>1, <2>3, <3>2, <3>3, <3>4, StartFill
    <2>7. CASE n \in 1 .. HEIGHT - 1
      <3> DEFINE f == Fill(Clip(0, HEIGHT - n, WIDTH, n), c)
      <3>1. n # 0 /\ ~(n >= HEIGHT)
        BY <2>2, <2>7, ScreenAssumption
      <3>2. ops' = copy_rect(0, n, 0, 0, WIDTH, HEIGHT - n)
                       \o draw_rect(0, HEIGHT - n, WIDTH, n, c)
        BY <2>1, <2>7, <3>1, Zenon DEF scroll_up
      <3>3. /\ 0 \in 0..USIZE_MAX /\ WIDTH \in 0..USIZE_MAX /\ HEIGHT - n \in 0..USIZE_MAX
            /\ ~Rejected(0, n, WIDTH, HEIGHT - n) /\ ~Rejected(0, 0, WIDTH, HEIGHT - n)
            /\ ~ReadsItsOwnRows(0, n, 0, 0, WIDTH, HEIGHT - n)
            /\ ~Rejected(0, HEIGHT - n, WIDTH, n)
        BY <2>2, <2>7, ScreenAssumption DEF Rejected, ReadsItsOwnRows
      <3>4. PICK o : /\ copy_rect(0, n, 0, 0, WIDTH, HEIGHT - n) = << o >>
                     /\ o.op = "copy" /\ CopySafe(o)
                     /\ \A p \in Pixels :
                        /\ In(p, o.r) <=> /\ Meant(p[1], p[2], 0, 0, WIDTH, HEIGHT - n)
                                          /\ <<p[1] - 0 + 0, p[2] - 0 + n>> \in Pixels
                        /\ Source(o, p) = Kept(p[1] - 0 + 0, p[2] - 0 + n)
        BY <2>2, <3>3, CopyMeant
      <3>5. draw_rect(0, HEIGHT - n, WIDTH, n, c) = << f >>
        BY <3>3 DEF draw_rect
      <3>6. f.op = "fill" /\ f.pixel = color_to_u32(c) /\ f.r = Clip(0, HEIGHT - n, WIDTH, n)
        BY DEF Fill
      <3>7. \A p \in Pixels : In(p, f.r) <=> p[2] + n >= HEIGHT
        <4>1. \A p \in Pixels : In(p, f.r) <=> Meant(p[1], p[2], 0, HEIGHT - n, WIDTH, n)
          BY <2>2, <3>3, <3>6, ClipMeant
        <4> QED
          BY <1>2, <2>2, <4>1, ScreenAssumption DEF Meant
      <3>8. \A p \in Pixels : p[2] + n < HEIGHT =>
                In(p, o.r) /\ Source(o, p) = Kept(p[1], p[2] + n)
        <4> SUFFICES ASSUME NEW p \in Pixels, p[2] + n < HEIGHT
                     PROVE  In(p, o.r) /\ Source(o, p) = Kept(p[1], p[2] + n)
          OBVIOUS
        <4>1. p[1] - 0 + 0 = p[1] /\ p[2] - 0 + n = p[2] + n
          BY <1>2, <2>2
        <4>2. <<p[1], p[2] + n>> \in Pixels
          BY <1>2, <2>2, ScreenAssumption DEF Pixels
        <4>3. Meant(p[1], p[2], 0, 0, WIDTH, HEIGHT - n)
          BY <1>2, <2>2, ScreenAssumption DEF Meant
        <4> QED
          BY <3>4, <4>1, <4>2, <4>3
      <3> HIDE DEF f
      <3>9. ops' = << o >> \o << f >>
        BY <3>2, <3>4, <3>5
      <3>10. ops' # << >> /\ Head(ops') = o /\ Len(ops') = 2 /\ ops'[2] = f
        BY <3>9
      <3>11. \A p \in Pixels : Wanted(p)' =
                 IF Len(ops') = 2 /\ In(p, ops'[2].r) THEN ops'[2].pixel
                 ELSE IF In(p, Head(ops').r) THEN Source(Head(ops'), p) ELSE Pixel(p)
        BY <1>2, <2>2, <2>4, <3>6, <3>7, <3>8, <3>10, ScreenAssumption
      <3> QED
        BY <1>1, <2>3, <3>4, <3>6, <3>10, <3>11, StartDrawing
    <2> QED
      BY <2>2, <2>5, <2>6, <2>7, ScreenAssumption
  <1> QED
    BY <1>3, <1>4, <1>5, <1>6, <1>7, <1>8 DEF Calls

(***************************************************************************)
(* init draws a black screen and presents it.                              *)
(***************************************************************************)
LEMMA EffectInit == FbInit => Buffers /\ EffectInv
  <1> SUFFICES ASSUME FbInit PROVE Buffers /\ EffectInv
    OBVIOUS
  <1> DEFINE f == Fill(Whole, BLACK)
  <1>1. f.op = "fill" /\ f.r = Whole /\ f.pixel = color_to_u32(BLACK)
    BY DEF Fill
  <1> HIDE DEF f
  <1>2. ops # << >> /\ Head(ops) = f /\ Len(ops) = 2 /\ ops[2] = Present
    <2>1. ops = << f >> \o << Present >>
      BY DEF FbInit, clear, present, f
    <2> QED
      BY <2>1
  <1>3. pc = "row" /\ row = 0
    <2>1. Head(ops).op \in {"fill", "copy"}
      BY <1>1, <1>2
    <2>2. pc = Entry(ops) /\ row = EntryRow(ops) /\ Whole.min_y = 0
      BY DEF FbInit, Whole
    <2> QED
      BY <1>1, <1>2, <2>1, <2>2 DEF Entry, EntryRow
  <1>4. Buffers /\ want = [i \in DOMAIN back |-> color_to_u32(BLACK)]
    BY DEF FbInit, Buffers
  <1>5. ASSUME NEW p \in Pixels PROVE Wanted(p) = Then(RowsDone(p), p)
    <2>1. p[1] \in 0 .. WIDTH - 1 /\ p[2] \in 0 .. HEIGHT - 1 /\ Offset(p[1], p[2]) \in DOMAIN back
      BY <1>4, PixelFacts DEF Buffers
    <2>2. In(p, Whole)
      BY <2>1, ScreenAssumption DEF In, Whole
    <2>3. RowsDone(p) = color_to_u32(BLACK)
      BY <1>1, <1>2, <1>3, <2>1, <2>2 DEF RowsDone, Source
    <2>4. ops[2].op # "fill"
      BY <1>2 DEF Present
    <2> QED
      BY <1>4, <2>1, <2>3, <2>4 DEF Then, Wanted
  <1>6. want = [i \in DOMAIN back |-> want[i]]
    BY <1>4
  <1>7. CopySafe(Head(ops)) /\ ops[2].op = "present"
    BY <1>1, <1>2 DEF CopySafe, Present
  <1> QED
    BY <1>2, <1>3, <1>4, <1>5, <1>6, <1>7 DEF EffectInv

(***************************************************************************)
(* Every step of a call carries on towards the promise.                    *)
(***************************************************************************)
LEMMA EffectNext ==
    ASSUME FbInv, Buffers,
           \/ EffectInv /\ Steps
           \/ EffectInv /\ UNCHANGED vars
           \/ Calls
    PROVE  EffectInv'
  <1>1. CASE Calls
    BY <1>1, CallsEffect
  <1>2. CASE EffectInv /\ Return
    BY <1>2 DEF Return, EffectInv
  <1>3. CASE EffectInv /\ WriteRow
    BY <1>3, WriteRowEffect
  <1>4. CASE EffectInv /\ UNCHANGED vars
    <2>1. UNCHANGED <<back, want, ops, pc, row>>
      BY <1>4 DEF vars
    <2>2. \A p \in Pixels : /\ Wanted(p)' = Wanted(p) /\ Pixel(p)' = Pixel(p)
                            /\ RowsDone(p)' = RowsDone(p)
      BY <2>1 DEF Wanted, Pixel, RowsDone, Source
    <2>3. \A p \in Pixels : /\ Then(Pixel(p), p)' = Then(Pixel(p), p)
                            /\ Then(RowsDone(p), p)' = Then(RowsDone(p), p)
      BY <2>1, <2>2 DEF Then
    <2>4. CopySafe(Head(ops))' <=> CopySafe(Head(ops))
      BY <2>1 DEF CopySafe
    <2> QED
      BY <1>4, <2>1, <2>2, <2>3, <2>4 DEF EffectInv
  <1> QED
    BY <1>1, <1>2, <1>3, <1>4, OtherEffect DEF Steps

(***************************************************************************)
(* When a call returns, the back buffer is what the caller asked for.      *)
(***************************************************************************)
LEMMA EffectDone == Buffers /\ EffectInv /\ pc = "done" => back = want
  <1> SUFFICES ASSUME Buffers, EffectInv, pc = "done" PROVE back = want
    OBVIOUS
  <1>1. want = [i \in DOMAIN back |-> want[i]] /\ \A p \in Pixels : Wanted(p) = Pixel(p)
    BY DEF EffectInv
  <1> QED
    BY <1>1, SamePixels

(***************************************************************************)
(* Every drawing call leaves in the back buffer exactly the pixels its     *)
(* caller means, for every screen, rectangle and colour: what is off the   *)
(* screen is left out, at the source of a copy too, and scroll_up, which   *)
(* copies the screen onto itself, loses no row.                            *)
(***************************************************************************)
THEOREM DrawsWhatIsMeant == FbSpec => []CallEffect
  <1>1. FbInv /\ Buffers /\ EffectInv /\ [FbNext]_vars => Buffers' /\ EffectInv'
    BY BuffersKept, EffectNext DEF FbNext
  <1>2. Buffers /\ EffectInv => CallEffect
    BY EffectDone DEF CallEffect
  <1> QED
    BY <1>1, <1>2, EffectInit, FbInitInv, FbNextInv, PTL DEF FbSpec

(***************************************************************************)
(* The same of every call that no keyboard interrupt falls into, whatever  *)
(* the handler has drawn between the calls before it.                      *)
(***************************************************************************)
THEOREM DrawsWhatIsMeantIrq == IrqSpec => []DrawsAsAsked
  <1> DEFINE Inv == Buffers /\ (~hit => EffectInv)
  <1>1. IrqInit => Inv
    <2> SUFFICES ASSUME IrqInit PROVE Buffers /\ EffectInv
      OBVIOUS
    <2>1. pc = "idle"
      BY DEF IrqInit
    <2>2. EffectInv
      BY <2>1 DEF EffectInv
    <2> QED
      BY <2>2 DEF IrqInit, Buffers
  <1>2. FbInv /\ Inv /\ [IrqNext]_irqVars => Inv'
    <2> SUFFICES ASSUME FbInv, Inv, [IrqNext]_irqVars PROVE Inv'
      OBVIOUS
    <2>1. CASE Calls /\ hit' = FALSE
      BY <2>1, BuffersKept, EffectNext DEF FbNext
    <2>2. CASE Steps /\ UNCHANGED hit
      BY <2>2, BuffersKept, EffectNext DEF FbNext
    <2>3. CASE KeyboardIrq
      <3>1. pc' = pc /\ (~hit' => pc = "idle")
        BY <2>3 DEF KeyboardIrq
      <3>2. ~hit' => EffectInv'
        BY <3>1 DEF EffectInv
      <3> QED
        BY <2>3, <3>2, BuffersKept
    <2>4. CASE UNCHANGED irqVars
      <3>1. UNCHANGED vars /\ UNCHANGED hit
        BY <2>4 DEF irqVars
      <3> QED
        BY <3>1, BuffersKept, EffectNext
    <2> QED
      BY <2>1, <2>2, <2>3, <2>4 DEF IrqNext
  <1>3. Inv => DrawsAsAsked
    BY EffectDone DEF DrawsAsAsked
  <1> QED
    BY <1>1, <1>2, <1>3, IrqInvariant, PTL DEF IrqSpec
================================================================================
