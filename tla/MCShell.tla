------------------------------- MODULE MCShell --------------------------------
(***************************************************************************)
(* Two names, every way to spell them with too few or too many slashes,    *)
(* and numerals that are zero, too large, not a power of two or not        *)
(* decimal, or the start of the heap with "0x" and without.                *)
(***************************************************************************)
EXTENDS Shell

s == SLASH
MCPaths == {<<s>>, <<s, s>>, <<"a">>, <<s, "a">>, <<s, "a", s>>, <<s, s, "a">>,
            <<s, "b">>, <<s, "a", s, "b">>, <<s, "a", s, "b", s>>,
            <<s, "a", s, s, "b">>, <<"a", s, "b">>, <<s, "b", s, "a">>}

MCNumerals ==
    {Decimal(n) : n \in {0, 1, 2, 127}} \cup
    {Numeral(prefix, Digits(HEAP_START, 16)) : prefix \in BOOLEAN}

\* No command touches both the files and the heap: the states in which both
\* have been used are not gone on from, nor those with a stray and a live block.
FilesOrHeap ==
    /\ (live = {} /\ careful) \/ (dirs = {} /\ DOMAIN files = {})
    /\ live = {} \/ stray = {}
===============================================================================
