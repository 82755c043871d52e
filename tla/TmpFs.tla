--------------------------------- MODULE TmpFs ---------------------------------
(***************************************************************************)
(* The in-memory file system of src/src/fs/tempfs.rs: a map from path      *)
(* strings to contents and a set of path strings.  There is no tree: a     *)
(* path belongs to the directory parent_of computes from its text, and two *)
(* texts for one place are two keys.                                       *)
(*                                                                         *)
(* A path is the sequence of its slashes and of the names between them, so *)
(* that "/a", "a", "/a/" and "//a" are different paths.                    *)
(***************************************************************************)
EXTENDS Naturals, Sequences, FiniteSets

CONSTANTS Names,        \* what stands between slashes
          Paths,        \* the paths used
          Contents,     \* what is written to files
          EMPTY_FILE,   \* Vec::new()
          MAX_ENTRIES   \* bound: files and directories that exist

SLASH == "/"
ROOT == <<SLASH>>

\* split_whitespace gives no empty word, and two names have a slash between them.
ASSUME PathAssumption ==
    /\ SLASH \notin Names /\ MAX_ENTRIES \in Nat
    /\ "dir" \notin Contents \cup {EMPTY_FILE}
    /\ \A p \in Paths :
        /\ p \in Seq(Names \cup {SLASH}) /\ p # << >>
        /\ \A i \in 1 .. Len(p) - 1 : p[i] = SLASH \/ p[i + 1] = SLASH

VARIABLES files,        \* path -> content
          dirs,         \* set of paths
          written       \* ghost: the files that write has created or changed

fsVars == <<files, dirs, written>>

--------------------------------------------------------------------------------
(* What the text of a path says *)

\* path.trim_end_matches('/')
trim_end(p) ==
    SubSeq(p, 1, CHOOSE n \in 0 .. Len(p) : /\ n = 0 \/ p[n] # SLASH
                                            /\ \A i \in n + 1 .. Len(p) : p[i] = SLASH)

\* rfind('/') as a set of at most one position.
rfind(p) == {i \in 1 .. Len(p) : p[i] = SLASH /\ \A j \in i + 1 .. Len(p) : p[j] # SLASH}

parent_of(p) ==
    IF rfind(trim_end(p)) \subseteq {1} THEN ROOT
    ELSE SubSeq(p, 1, (CHOOSE i \in rfind(trim_end(p)) : TRUE) - 1)

\* The text after the last separator; "" for a path of slashes.
last_segment(p) == IF trim_end(p) = << >> THEN "" ELSE p[Len(trim_end(p))]

--------------------------------------------------------------------------------
(* The operations.  An operation that answers an error changes nothing. *)

is_dir(p) == p = ROOT \/ p \in dirs
is_file(p) == p \in DOMAIN files

CanCreate == Cardinality(dirs) + Cardinality(DOMAIN files) < MAX_ENTRIES
Store(p, d) == [q \in DOMAIN files \cup {p} |-> IF q = p THEN d ELSE files[q]]

\* A fault: a file of that name is not looked for.
mkdir_result_dirs(p) ==
    CASE is_dir(p) -> "AlreadyExists"
      [] ~is_dir(p) /\ ~is_dir(parent_of(p)) -> "NotFound"
      [] OTHER -> "Ok"

mkdir_result(p) ==
    CASE is_dir(p) \/ is_file(p) -> "AlreadyExists"
      [] ~is_dir(p) /\ ~is_file(p) /\ ~is_dir(parent_of(p)) -> "NotFound"
      [] OTHER -> "Ok"

mkdir(p) ==
    /\ CanCreate
    /\ mkdir_result(p) = "Ok"
    /\ dirs' = dirs \cup {p}
    /\ UNCHANGED <<files, written>>

\* A fault: the parent is not looked for.
touch_result_unrooted(p) == IF is_dir(p) THEN "IsADirectory" ELSE "Ok"

touch_result(p) ==
    CASE is_dir(p) -> "IsADirectory"
      [] ~is_dir(p) /\ ~is_dir(parent_of(p)) -> "NotFound"
      [] OTHER -> "Ok"

\* A fault: a file that exists is emptied.
touch_truncating(p) ==
    /\ CanCreate \/ is_file(p)
    /\ touch_result(p) = "Ok"
    /\ files' = Store(p, EMPTY_FILE)
    /\ UNCHANGED <<dirs, written>>

\* entry(path).or_insert_with(Vec::new)
touch(p) ==
    /\ CanCreate \/ is_file(p)
    /\ touch_result(p) = "Ok"
    /\ files' = IF is_file(p) THEN files ELSE Store(p, EMPTY_FILE)
    /\ UNCHANGED <<dirs, written>>

\* write replaces the content and looks for no parent.
write(p, d) ==
    /\ CanCreate \/ is_file(p)
    /\ ~is_dir(p)
    /\ files' = Store(p, d)
    /\ written' = written \cup {p}
    /\ UNCHANGED dirs

remove(p) ==
    /\ is_file(p)
    /\ files' = [q \in DOMAIN files \ {p} |-> files[q]]
    /\ written' = written \ {p}
    /\ UNCHANGED dirs

\* The answers of read and list_entries; an error is the empty set.
read(p) == IF is_file(p) THEN {files[p]} ELSE {}

\* A fault: everything below the directory is listed.
list_entries_deep(p) ==
    {[kind |-> "File", path |-> q, name |-> last_segment(q)] :
        q \in {q \in dirs \cup DOMAIN files : Len(p) < Len(q) /\ SubSeq(q, 1, Len(p)) = p}}

list_entries(p) ==
    IF ~is_dir(p) THEN {}
    ELSE {[kind |-> "Dir", path |-> q, name |-> last_segment(q)] :
              q \in {q \in dirs : parent_of(q) = p}}
         \cup
         {[kind |-> "File", path |-> q, name |-> last_segment(q)] :
              q \in {q \in DOMAIN files : parent_of(q) = p}}

FsInit == files = << >> /\ dirs = {} /\ written = {}

FsNext ==
    \E p \in Paths :
        mkdir(p) \/ touch(p) \/ remove(p) \/ \E d \in Contents : write(p, d)

FsSpec == FsInit /\ [][FsNext]_fsVars

--------------------------------------------------------------------------------
(* Properties *)

\* Types.
FsTypeOK ==
    /\ DOMAIN files \subseteq Paths /\ dirs \subseteq Paths
    /\ \A p \in DOMAIN files : files[p] \in Contents \cup {EMPTY_FILE}
    /\ written \subseteq DOMAIN files

\* No path is a file and a directory, and the root, which is in neither
\* collection, can be made into neither: three operations check this against
\* two collections (tempfs.rs:31, 47, 95).
KindsDisjoint == dirs \cap DOMAIN files = {} /\ ROOT \notin dirs \cup DOMAIN files

\* Whatever the order of the calls, every entry is inside a directory that
\* exists, so that some listing shows it; the only files outside are those
\* write has made, which unlike touch and mkdir looks for no parent
\* (tempfs.rs:94).
Rooted ==
    /\ \A d \in dirs : is_dir(parent_of(d))
    /\ \A f \in DOMAIN files : is_dir(parent_of(f)) \/ f \in written

\* Nothing is below a file, unless write has put it, or the file, there.
NothingBelowFiles ==
    \A f \in DOMAIN files : \A e \in dirs \cup DOMAIN files :
        parent_of(e) = f => e \in written

\* The spelling a tree knows: a leading slash, single slashes, no trailing one.
Plain(p) ==
    /\ p # ROOT /\ Len(p) % 2 = 0
    /\ \A i \in 1 .. Len(p) : p[i] = SLASH <=> i % 2 = 1
Place(p) == [i \in 1 .. Len(p) \div 2 |-> p[2 * i]]
Spelling(q) == [i \in 1 .. 2 * Len(q) |-> IF i % 2 = 1 THEN SLASH ELSE q[i \div 2]]

PlainDirs == {Place(p) : p \in {p \in dirs : Plain(p)}}
PlainFiles == {Place(p) : p \in {p \in DOMAIN files : Plain(p)}}

PlainPlaces == {Place(p) : p \in {p \in Paths : Plain(p)}}

TreeView == [q \in {<< >>} \cup PlainDirs \cup PlainFiles |->
                IF q \in PlainFiles THEN files[Spelling(q)] ELSE "dir"]

Tree == INSTANCE FsTree WITH Places <- PlainPlaces, DIR <- "dir", tree <- TreeView

\* Seen through plain paths the map and the set are a tree, and every call is
\* one step of it: the other spellings, which are keys of their own, never
\* make a plain path appear, disappear or change, and give no plain path a
\* parent.  Creating never destroys: touch leaves the content of a file alone.
ImplementsTree == Tree!Spec
================================================================================
