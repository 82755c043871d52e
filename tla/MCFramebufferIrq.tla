--------------------------- MODULE MCFramebufferIrq ----------------------------
(* Small screens for TLC: three rows of one pixel, so that a copy upwards can   *)
(* overlap itself, and one row of two.                                         *)
EXTENDS FramebufferIrq

MCBlack == [r |-> 0, g |-> 0, b |-> 0]
MCColors == {MCBlack, [r |-> 255, g |-> 1, b |-> 0]}
MCXs == 0 .. WIDTH - 1
MCYs == 0 .. HEIGHT - 1
MCSizes == {1, 2}

================================================================================
