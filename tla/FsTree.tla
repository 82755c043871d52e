--------------------------------- MODULE FsTree --------------------------------
(***************************************************************************)
(* What a user expects of a file system: a tree.  A place is the sequence  *)
(* of names on the way from the root to it; it holds a directory or the    *)
(* content of a file.  A directory, or a file made with touch, appears     *)
(* only inside a directory; write asks for no directory (the trait         *)
(* FileSystem of src/src/fs.rs does not say that it should).               *)
(***************************************************************************)
EXTENDS Naturals, Sequences

CONSTANTS Places,       \* nonempty sequences of names
          Contents,     \* what a file may hold ...
          EMPTY_FILE,   \* ... when it is new
          DIR           \* what a place holds that is a directory

VARIABLE tree           \* place -> DIR or a content

Parent(p) == SubSeq(p, 1, Len(p) - 1)
IsDir(p) == p \in DOMAIN tree /\ tree[p] = DIR
Put(p, v) == [q \in DOMAIN tree \cup {p} |-> IF q = p THEN v ELSE tree[q]]

Init == tree = [p \in {<< >>} |-> DIR]

MakeDir(p) == p \notin DOMAIN tree /\ IsDir(Parent(p)) /\ tree' = Put(p, DIR)
Touch(p) == p \notin DOMAIN tree /\ IsDir(Parent(p)) /\ tree' = Put(p, EMPTY_FILE)
Write(p, d) == ~IsDir(p) /\ tree' = Put(p, d)
Remove(p) ==
    /\ p \in DOMAIN tree /\ ~IsDir(p)
    /\ tree' = [q \in DOMAIN tree \ {p} |-> tree[q]]

Next ==
    \E p \in Places :
        \/ MakeDir(p) \/ Touch(p) \/ Remove(p)
        \/ \E d \in Contents : Write(p, d)

Spec == Init /\ [][Next]_tree
================================================================================
