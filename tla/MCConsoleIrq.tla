----------------------------- MODULE MCConsoleIrq ------------------------------
(* A console of three rows of four columns, printed over its right and lower   *)
(* edge while keys are pressed.                                                *)
EXTENDS ConsoleIrq

MCGlyphs == {"a"}
MCColors == {"black", "white", "green"}
MCBootText == <<"a", "a", "a", "LF", "save", "color", "a", "LF", "restore",
                "a", "a", "a", "a", "a", "LF">>

================================================================================
