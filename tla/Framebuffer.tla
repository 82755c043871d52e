------------------------------ MODULE Framebuffer ------------------------------
(***************************************************************************)
(* The double-buffered framebuffer of src/src/fb.rs.  Drawing goes to a    *)
(* back buffer and grows one dirty rectangle [min_x, max_x) x              *)
(* [min_y, max_y); present copies that rectangle to the screen.            *)
(*                                                                         *)
(* Both buffers are the linear arrays of the code: pixel (x, y) is at      *)
(* y * WIDTH + x of the back buffer and at y * PITCH + x of the screen     *)
(* (counted in pixels).  A call is broken into the row copies and the      *)
(* single loads and stores of the dirty rectangle that an interrupt can    *)
(* fall between; FramebufferIrq adds the interrupt.                        *)
(***************************************************************************)
EXTENDS Integers, Sequences, FiniteSets

CONSTANTS WIDTH, HEIGHT,      \* info.width, info.height
          PITCH,              \* info.front_pitch, in pixels
          USIZE_MAX,          \* usize::MAX
          RED_SHIFT, GREEN_SHIFT, BLUE_SHIFT,
          Colors,             \* the colours drawn with: records r, g, b
          BLACK,              \* Color::BLACK
          GARBAGE,            \* what the screen shows before init
          Xs, Ys, Sizes       \* arguments of the calls, bounded

\* init panics on a framebuffer without pixels (fb.rs:149), and a row of the
\* screen holds at least its pixels.
ASSUME ScreenAssumption ==
    /\ WIDTH \in Nat \ {0} /\ HEIGHT \in Nat \ {0}
    /\ PITCH \in Nat /\ PITCH >= WIDTH
    /\ USIZE_MAX \in Nat /\ USIZE_MAX >= WIDTH /\ USIZE_MAX >= HEIGHT
ASSUME ArgumentAssumption ==
    Xs \subseteq 0..USIZE_MAX /\ Ys \subseteq 0..USIZE_MAX /\ Sizes \subseteq 0..USIZE_MAX
ASSUME ColorAssumption ==
    /\ {RED_SHIFT, GREEN_SHIFT, BLUE_SHIFT} \subseteq Nat
    /\ \A c \in Colors : {c.r, c.g, c.b} \subseteq 0..255
    /\ BLACK = [r |-> 0, g |-> 0, b |-> 0] /\ BLACK \in Colors

VARIABLES
    back,     \* BACKBUFFER
    front,    \* the memory of the screen
    DIRTY,
    dirty,    \* DIRTY_MIN_X, DIRTY_MIN_Y, DIRTY_MAX_X, DIRTY_MAX_Y
    ops,      \* what the call in progress has still to do
    pc,       \* where it stands in Head(ops)
    row,      \* its row loop
    k,        \* the corner of the dirty rectangle it is at
    reg,      \* the corner it has computed and not yet stored
    snap,     \* the corners present has read
    want,     \* ghost: the back buffer the call promises
    shows     \* ghost: which present the call is, if it is one

vars == <<back, front, DIRTY, dirty, ops, pc, row, k, reg, snap, want, shows>>

Corner == <<"min_x", "min_y", "max_x", "max_y">>
NoRect == [min_x |-> 0, min_y |-> 0, max_x |-> 0, max_y |-> 0]
Whole == [min_x |-> 0, min_y |-> 0, max_x |-> WIDTH, max_y |-> HEIGHT]

Pixels == (0..WIDTH-1) \X (0..HEIGHT-1)
In(p, r) == r.min_x <= p[1] /\ p[1] < r.max_x /\ r.min_y <= p[2] /\ p[2] < r.max_y
Offset(x, y) == y * WIDTH + x
FrontOffset(x, y) == y * PITCH + x

--------------------------------------------------------------------------------
(* The pure parts: colours, clipping, and what each call does to pixels.       *)

\* The channels of a mode do not overlap, so the | of the code is a sum.
color_to_u32(c) == c.r * 2^RED_SHIFT + c.g * 2^GREEN_SHIFT + c.b * 2^BLUE_SHIFT

least(a, b) == IF a < b THEN a ELSE b
greatest(a, b) == IF a > b THEN a ELSE b
saturating_add(a, b) == least(a + b, USIZE_MAX)

\* The test and the clipping that draw_rect and mark_dirty start with.
Rejected(x, y, w, h) == w = 0 \/ h = 0 \/ x >= WIDTH \/ y >= HEIGHT
Clip(x, y, w, h) ==
    [min_x |-> x, min_y |-> y,
     max_x |-> least(saturating_add(x, w), WIDTH),
     max_y |-> least(saturating_add(y, h), HEIGHT)]

Fill(r, c) == [op |-> "fill", r |-> r, pixel |-> color_to_u32(c)]
Copy(r, sx, sy) == [op |-> "copy", r |-> r, sx |-> sx, sy |-> sy]
Mark(r) == [op |-> "mark", r |-> r]
Present == [op |-> "present", r |-> NoRect]

put_pixel(x, y, c) ==
    IF x >= WIDTH \/ y >= HEIGHT THEN <<>> ELSE << Fill(Clip(x, y, 1, 1), c) >>

clear(c) == << Fill(Whole, c) >>

draw_rect(x, y, w, h, c) ==
    IF Rejected(x, y, w, h) THEN <<>> ELSE << Fill(Clip(x, y, w, h), c) >>

\* A fault: the size is clipped at the destination and not at the source.
copy_rect_dst(sx, sy, dx, dy, w, h) ==
    IF Rejected(sx, sy, w, h) \/ Rejected(dx, dy, w, h) THEN <<>>
    ELSE << Copy(Clip(dx, dy, w, h), sx, sy) >>

copy_rect(sx, sy, dx, dy, w, h) ==
    LET cw == least(least(w, WIDTH - sx), WIDTH - dx)
        ch == least(least(h, HEIGHT - sy), HEIGHT - dy)
    IN  IF Rejected(sx, sy, w, h) \/ Rejected(dx, dy, w, h) THEN <<>>
        ELSE << Copy(Clip(dx, dy, cw, ch), sx, sy) >>

\* A fault: the exposed rows are filled before the others are moved.
scroll_up_swapped(n, c) ==
    CASE n = 0 -> <<>>
      [] n >= HEIGHT -> clear(c)
      [] n \in 1..HEIGHT-1 ->
            draw_rect(0, HEIGHT - n, WIDTH, n, c)
                \o copy_rect(0, n, 0, 0, WIDTH, HEIGHT - n)

scroll_up(n, c) ==
    CASE n = 0 -> <<>>
      [] n >= HEIGHT -> clear(c)
      [] n \in 1..HEIGHT-1 ->
            copy_rect(0, n, 0, 0, WIDTH, HEIGHT - n)
                \o draw_rect(0, HEIGHT - n, WIDTH, n, c)

present == << Present >>
present_full_unmarked == << Present >>       \* a fault: nothing is marked
present_full == << Mark(Whole), Present >>

--------------------------------------------------------------------------------
(* The steps of a call.                                                        *)

Entry(todo) ==
    IF todo = <<>> THEN "done"
    ELSE CASE Head(todo).op \in {"fill", "copy"} -> "row"
           [] Head(todo).op = "mark" -> "test"
           [] Head(todo).op = "present" -> "ptest"

EntryRow(todo) ==
    IF todo = <<>> THEN 0 ELSE Head(todo).r.min_y

\* The caller's view of a call: it starts with the back buffer as it is, and
\* promises the pixels Promise(x, y).
Call(todo, Promise(_, _), screen) ==
    /\ pc = "idle"
    /\ ops' = todo /\ pc' = Entry(todo) /\ row' = EntryRow(todo)
    /\ want' = [i \in DOMAIN back |-> Promise(i % WIDTH, i \div WIDTH)]
    /\ shows' = screen
    /\ UNCHANGED <<back, front, DIRTY, dirty, k, reg, snap>>

\* Head(ops) is finished.
Finish ==
    /\ ops' = Tail(ops) /\ pc' = Entry(ops') /\ row' = EntryRow(ops')

Return ==
    /\ pc = "done"
    /\ pc' = "idle" /\ shows' = "none" /\ want' = back
    /\ k' = 1 /\ reg' = 0 /\ snap' = NoRect /\ row' = 0
    /\ UNCHANGED <<back, front, DIRTY, dirty, ops>>

Kept(x, y) == back[Offset(x, y)]
\* The rectangle a caller means, before any clipping.
Meant(x, y, p, q, w, h) == x >= p /\ x < p + w /\ y >= q /\ y < q + h

PutPixel ==
    \E x \in Xs, y \in Ys, c \in Colors :
        Call(put_pixel(x, y, c),
             LAMBDA px, py : IF px = x /\ py = y THEN color_to_u32(c) ELSE Kept(px, py),
             "none")

Clear ==
    \E c \in Colors : Call(clear(c), LAMBDA px, py : color_to_u32(c), "none")

DrawRect ==
    \E x \in Xs, y \in Ys, w \in Sizes, h \in Sizes, c \in Colors :
        Call(draw_rect(x, y, w, h, c),
             LAMBDA px, py : IF Meant(px, py, x, y, w, h) THEN color_to_u32(c)
                             ELSE Kept(px, py),
             "none")

\* Rows are copied from the top one down, so a copy to a lower place that
\* overlaps its source reads rows it has already written, although fb.rs:436
\* calls copies overlap-safe.  No caller makes one: scroll_up copies upwards.
ReadsItsOwnRows(sx, sy, dx, dy, w, h) ==
    /\ sy < dy /\ dy < sy + least(h, HEIGHT - dy)
    /\ sx < dx + w /\ dx < sx + w

\* Pixels whose source is off the screen keep their colour.
CopyRect ==
    \E sx \in Xs, sy \in Ys, dx \in Xs, dy \in Ys, w \in Sizes, h \in Sizes :
        /\ ~ReadsItsOwnRows(sx, sy, dx, dy, w, h)
        /\ Call(copy_rect(sx, sy, dx, dy, w, h),
                LAMBDA px, py :
                    IF /\ Meant(px, py, dx, dy, w, h)
                       /\ <<px - dx + sx, py - dy + sy>> \in Pixels
                    THEN Kept(px - dx + sx, py - dy + sy) ELSE Kept(px, py),
                "none")

ScrollUp ==
    \E n \in Sizes, c \in Colors :
        Call(scroll_up(n, c),
             LAMBDA px, py : IF py + n < HEIGHT THEN Kept(px, py + n) ELSE color_to_u32(c),
             "none")

PresentDirty == Call(present, Kept, "dirty")
PresentFull == Call(present_full, Kept, "full")

--------------------------------------------------------------------------------
\* One turn of the loop over rows: row.fill(pixel), or ptr::copy of one row.
RowSource(op, x) ==
    IF op.op = "fill" THEN op.pixel
    ELSE back[Offset(x - op.r.min_x + op.sx, row - op.r.min_y + op.sy)]

\* A fault: the rows are taken from the bottom one up.
WriteRow_bottom_up ==
    /\ pc = "row" /\ row < Head(ops).r.max_y
    /\ LET op == Head(ops)
           target == op.r.max_y - 1 - (row - op.r.min_y)
           x(i) == i - target * WIDTH
           source(i) == Offset(x(i) - op.r.min_x + op.sx, target - op.r.min_y + op.sy)
       IN  back' = [i \in DOMAIN back |->
                      IF x(i) \notin op.r.min_x .. op.r.max_x - 1 THEN back[i]
                      ELSE IF op.op = "fill" THEN op.pixel ELSE back[source(i)]]
    /\ row' = row + 1
    /\ pc' = IF row' = Head(ops).r.max_y THEN "test" ELSE "row"
    /\ UNCHANGED <<front, DIRTY, dirty, ops, k, reg, snap, want, shows>>

WriteRow ==
    /\ pc = "row" /\ row < Head(ops).r.max_y
    /\ LET op == Head(ops)
           x(i) == i - row * WIDTH
       IN  back' = [i \in DOMAIN back |->
                      IF x(i) \in op.r.min_x .. op.r.max_x - 1
                      THEN RowSource(op, x(i)) ELSE back[i]]
    /\ row' = row + 1
    /\ pc' = IF row' = Head(ops).r.max_y THEN "test" ELSE "row"
    /\ UNCHANGED <<front, DIRTY, dirty, ops, k, reg, snap, want, shows>>

\* if !DIRTY
MarkTest ==
    /\ pc = "test"
    /\ pc' = IF DIRTY THEN "load" ELSE "dirty"
    /\ k' = 1
    /\ UNCHANGED <<back, front, DIRTY, dirty, ops, row, reg, snap, want, shows>>

\* DIRTY = true
MarkFlag ==
    /\ pc = "dirty"
    /\ DIRTY' = TRUE /\ pc' = "set"
    /\ UNCHANGED <<back, front, dirty, ops, row, k, reg, snap, want, shows>>

\* DIRTY_MIN_X = x, then the other three.
MarkSet ==
    /\ pc = "set"
    /\ dirty' = [dirty EXCEPT ![Corner[k]] = Head(ops).r[Corner[k]]]
    /\ k' = k + 1
    /\ IF k = 4 THEN Finish ELSE UNCHANGED <<ops, pc, row>>
    /\ UNCHANGED <<back, front, DIRTY, reg, snap, want, shows>>

\* A fault: the right and lower edges are replaced, not widened.
Widened_replaced(c) ==
    IF c \in {"min_x", "min_y"} THEN least(dirty[c], Head(ops).r[c]) ELSE Head(ops).r[c]

\* DIRTY_MIN_X.min(x), then the other three.
Widened(c) ==
    IF c \in {"min_x", "min_y"} THEN least(dirty[c], Head(ops).r[c])
                                ELSE greatest(dirty[c], Head(ops).r[c])
MarkLoad ==
    /\ pc = "load"
    /\ reg' = Widened(Corner[k]) /\ pc' = "store"
    /\ UNCHANGED <<back, front, DIRTY, dirty, ops, row, k, snap, want, shows>>

MarkStore ==
    /\ pc = "store"
    /\ dirty' = [dirty EXCEPT ![Corner[k]] = reg]
    /\ k' = k + 1
    /\ IF k = 4 THEN Finish ELSE pc' = "load" /\ UNCHANGED <<ops, row>>
    /\ UNCHANGED <<back, front, DIRTY, reg, snap, want, shows>>

\* if !DIRTY { return; }
PresentTest ==
    /\ pc = "ptest"
    /\ IF DIRTY THEN pc' = "read" /\ UNCHANGED <<ops, row>> ELSE Finish
    /\ k' = 1
    /\ UNCHANGED <<back, front, DIRTY, dirty, reg, snap, want, shows>>

PresentRead ==
    /\ pc = "read"
    /\ snap' = [snap EXCEPT ![Corner[k]] = dirty[Corner[k]]]
    /\ k' = k + 1
    /\ pc' = IF k = 4 THEN "clean" ELSE "read"
    /\ UNCHANGED <<back, front, DIRTY, dirty, ops, row, reg, want, shows>>

\* A fault: the rectangle that was read is taken to be nonempty.
PresentClean_unchecked ==
    /\ pc = "clean"
    /\ DIRTY' = FALSE /\ pc' = "show" /\ row' = snap.min_y
    /\ UNCHANGED <<back, front, dirty, ops, k, reg, snap, want, shows>>

\* DIRTY = false, then the test for an empty rectangle.
PresentClean ==
    /\ pc = "clean"
    /\ DIRTY' = FALSE
    /\ IF snap.min_x >= snap.max_x \/ snap.min_y >= snap.max_y
       THEN Finish
       ELSE pc' = "show" /\ row' = snap.min_y /\ UNCHANGED ops
    /\ UNCHANGED <<back, front, dirty, k, reg, snap, want, shows>>

Shown(r, y) ==
    LET x(i) == i - y * PITCH
    IN  [i \in DOMAIN front |->
            IF x(i) \in r.min_x .. r.max_x - 1 THEN back[Offset(x(i), y)] ELSE front[i]]

PresentRow ==
    /\ pc = "show"
    /\ front' = Shown(snap, row)
    /\ IF row + 1 = snap.max_y THEN Finish
       ELSE row' = row + 1 /\ UNCHANGED <<ops, pc>>
    /\ UNCHANGED <<back, DIRTY, dirty, k, reg, snap, want, shows>>

--------------------------------------------------------------------------------
\* init: the screen holds anything, BACKBUFFER is zero (a static), and
\* clear(Color::BLACK) and present() are about to run.
FbInit ==
    /\ back = [i \in 0 .. WIDTH * HEIGHT - 1 |-> 0]
    /\ front = [i \in 0 .. PITCH * HEIGHT - 1 |-> GARBAGE]
    /\ DIRTY = FALSE /\ dirty = NoRect
    /\ ops = clear(BLACK) \o present
    /\ pc = Entry(ops) /\ row = EntryRow(ops)
    /\ k = 1 /\ reg = 0 /\ snap = NoRect
    /\ want = [i \in DOMAIN back |-> color_to_u32(BLACK)] /\ shows = "dirty"

Steps ==
    \/ WriteRow \/ MarkTest \/ MarkFlag \/ MarkSet \/ MarkLoad \/ MarkStore
    \/ PresentTest \/ PresentRead \/ PresentClean \/ PresentRow \/ Return

Calls ==
    \/ PutPixel \/ Clear \/ DrawRect \/ CopyRect \/ ScrollUp
    \/ PresentDirty \/ PresentFull

FbNext == Calls \/ Steps
FbSpec == FbInit /\ [][FbNext]_vars
--------------------------------------------------------------------------------
(* Properties.                                                                 *)

\* The raw pointer accesses of draw_rect, copy_rect and present stay within one
\* row of the buffers: the row exists, at the source too, and the slice from
\* min_x to max_x is not empty and does not run over the end of the row.
AccessInBounds ==
    /\ pc = "row" =>
          LET op == Head(ops) IN
          /\ row < HEIGHT /\ op.r.min_x < op.r.max_x /\ op.r.max_x <= WIDTH
          /\ op.op = "copy" =>
                /\ op.sx + (op.r.max_x - op.r.min_x) <= WIDTH
                /\ op.sy + (row - op.r.min_y) < HEIGHT
    /\ pc = "show" =>
          snap.min_x < snap.max_x /\ snap.max_x <= WIDTH /\ row < HEIGHT

Differs(p) == back[Offset(p[1], p[2])] # front[FrontOffset(p[1], p[2])]

\* Between calls, whatever the screen does not show yet is inside the dirty
\* rectangle: "If DIRTY is false, there is nothing to present" (fb.rs:113), and
\* if it is true, presenting the rectangle is enough.
DirtyCovers ==
    pc = "idle" => \A p \in Pixels : Differs(p) => DIRTY /\ In(p, dirty)

\* Every drawing call changes exactly the pixels it is asked to, to exactly
\* what it is asked to, whatever part of the rectangle is off the screen and
\* however far scroll_up scrolls.
CallEffect == pc = "done" => back = want

================================================================================
