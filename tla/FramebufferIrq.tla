---------------------------- MODULE FramebufferIrq -----------------------------
(***************************************************************************)
(* The framebuffer with the keyboard interrupt.  kernel_main enables       *)
(* interrupts before it prints and presents (main.rs:110-142), and the     *)
(* keyboard handler echoes the key: it draws and presents too              *)
(* (int.rs:394, console.rs:816).  The statics of fb.rs have no lock.       *)
(*                                                                         *)
(* An interrupt gate keeps interrupts off, so the handler runs from start  *)
(* to end between two steps of the call it interrupts: one action.         *)
(***************************************************************************)
EXTENDS Framebuffer

VARIABLE hit      \* ghost: an interrupt fell into the call in progress

irqVars == <<vars, hit>>

\* What draw_rect and mark_dirty do when nothing interrupts them.
Drawn(r, c) ==
    [i \in DOMAIN back |->
        IF In(<<i % WIDTH, i \div WIDTH>>, r) THEN color_to_u32(c) ELSE back[i]]

Joined(r) ==
    IF ~DIRTY THEN r
    ELSE [min_x |-> least(dirty.min_x, r.min_x), min_y |-> least(dirty.min_y, r.min_y),
          max_x |-> greatest(dirty.max_x, r.max_x), max_y |-> greatest(dirty.max_y, r.max_y)]

\* The keyboard handler: it draws a cell, marks it dirty and presents.
KeyboardIrq ==
    \E x \in Xs, y \in Ys, w \in Sizes, h \in Sizes, c \in Colors :
        /\ ~Rejected(x, y, w, h)
        /\ back' = Drawn(Clip(x, y, w, h), c)
        /\ dirty' = Joined(Clip(x, y, w, h))
        /\ DIRTY' = FALSE
        /\ front' = [i \in DOMAIN front |->
                       LET p == <<i % PITCH, i \div PITCH>> IN
                       IF In(p, dirty') THEN back'[Offset(p[1], p[2])] ELSE front[i]]
        /\ hit' = (pc # "idle")
        /\ UNCHANGED <<ops, pc, row, k, reg, snap, want, shows>>

\* Interrupts are enabled once fb::init has cleared and presented the screen.
IrqInit ==
    /\ back = [i \in 0 .. WIDTH * HEIGHT - 1 |-> color_to_u32(BLACK)]
    /\ front = [i \in 0 .. PITCH * HEIGHT - 1 |->
                  IF i % PITCH < WIDTH THEN color_to_u32(BLACK) ELSE GARBAGE]
    /\ DIRTY = FALSE /\ dirty = Whole
    /\ ops = <<>> /\ pc = "idle" /\ row = 0
    /\ k = 1 /\ reg = 0 /\ snap = NoRect
    /\ want = back /\ shows = "none" /\ hit = FALSE

IrqNext ==
    \/ Calls /\ hit' = FALSE
    \/ Steps /\ UNCHANGED hit
    \/ KeyboardIrq

IrqSpec == IrqInit /\ [][IrqNext]_irqVars

--------------------------------------------------------------------------------
\* However often the interrupts have torn the dirty rectangle before, a
\* present_full that no interrupt falls into shows the whole back buffer.
PresentFullRepairs ==
    pc = "done" /\ shows = "full" /\ ~hit => \A p \in Pixels : ~Differs(p)

\* A call that no interrupt falls into draws exactly what it is asked to, though
\* the handler has drawn before it; scroll_up's copy, which overlaps itself, too.
DrawsAsAsked == pc = "done" /\ ~hit => back = want

\* "If DIRTY is false, there is nothing to present." (fb.rs:113)
NothingToPresent ==
    pc = "idle" /\ ~DIRTY => \A p \in Pixels : ~Differs(p)

================================================================================
