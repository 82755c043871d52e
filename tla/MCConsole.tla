------------------------------- MODULE MCConsole -------------------------------
(* A console of two rows of five columns: the prompt, three characters of      *)
(* input, and a fourth that wraps and scrolls.                                 *)
EXTENDS Console

MCGlyphs == {"a"}
MCColors == {"black", "white", "red"}
MCTexts == { <<"a", " ", "a", "a", " ", "a", "LF">>,
             <<"a", "TAB", "a", "CR", "BS", "a", "other", "LF">> }

================================================================================
