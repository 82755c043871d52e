----------------------------- MODULE MCFramebuffer -----------------------------
(* Small screens for TLC: two colours, a padded screen row, and arguments that *)
(* reach one past each edge and up to usize::MAX.                              *)
EXTENDS Framebuffer

MCBlack == [r |-> 0, g |-> 0, b |-> 0]
MCColors == {MCBlack, [r |-> 255, g |-> 1, b |-> 0]}
MCXs == {0, 1, WIDTH}
MCYs == 0..HEIGHT
MCSizes == {0, 1, 2, USIZE_MAX}

================================================================================
