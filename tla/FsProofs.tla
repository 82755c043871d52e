-------------------------------- MODULE FsProofs -------------------------------
(***************************************************************************)
(* What holds of the file system and of the commands that use it, for      *)
(* every set of paths and contents and every number of entries.  The four  *)
(* invariants of the collections are proved together: a new file has       *)
(* nothing below it because what could be there would have a directory as  *)
(* its parent (Rooted) and no path is both (KindsDisjoint).  Of parent_of  *)
(* they use only that it is a function of the path; what it computes from  *)
(* the text of a plain path is what the listings and the refinement of the *)
(* tree rest on.  The last part is about alloc! and dealloc!.              *)
(***************************************************************************)
EXTENDS Shell, SequenceTheorems, TLAPS

FsInv == FsTypeOK /\ KindsDisjoint /\ Rooted /\ NothingBelowFiles

\* mkdir goes ahead only for a path that is neither kind and whose parent is a
\* directory.
LEMMA MkdirOk ==
    ASSUME NEW p, mkdir_result(p) = "Ok"
    PROVE  ~is_dir(p) /\ ~is_file(p) /\ is_dir(parent_of(p))
  <1>1. ~is_dir(p) /\ ~is_file(p)
    BY DEF mkdir_result
  <1>2. is_dir(parent_of(p))
    BY <1>1 DEF mkdir_result
  <1> QED BY <1>1, <1>2

\* touch goes ahead only for a path that is no directory and whose parent is one.
LEMMA TouchOk ==
    ASSUME NEW p, touch_result(p) = "Ok"
    PROVE  ~is_dir(p) /\ is_dir(parent_of(p))
  <1>1. ~is_dir(p)
    BY DEF touch_result
  <1>2. is_dir(parent_of(p))
    BY <1>1 DEF touch_result
  <1> QED BY <1>1, <1>2

\* Storing a file adds its path, with the content given.
LEMMA StoreEffect ==
    ASSUME NEW p, NEW d
    PROVE  /\ DOMAIN Store(p, d) = DOMAIN files \cup {p}
           /\ Store(p, d)[p] = d
  BY DEF Store

\* mkdir preserves the invariant.
LEMMA MkdirInv ==
    ASSUME FsInv, NEW p \in Paths, mkdir(p)
    PROVE  FsInv'
  <1>1. ~is_dir(p) /\ ~is_file(p) /\ is_dir(parent_of(p))
    BY MkdirOk DEF mkdir
  <1>2. dirs' = dirs \cup {p} /\ files' = files /\ written' = written
    BY DEF mkdir
  <1>3. FsTypeOK'
    BY <1>2 DEF FsInv, FsTypeOK
  <1>4. KindsDisjoint'
    BY <1>1, <1>2 DEF FsInv, KindsDisjoint, is_dir, is_file
  <1>5. Rooted'
    BY <1>1, <1>2 DEF FsInv, Rooted, is_dir
  <1>6. NothingBelowFiles'
    BY <1>1, <1>2 DEF FsInv, NothingBelowFiles, KindsDisjoint, is_dir
  <1> QED BY <1>3, <1>4, <1>5, <1>6 DEF FsInv

\* Nothing that write has not made is below a path that is no directory.
LEMMA NothingBelow ==
    ASSUME FsInv, NEW p, ~is_dir(p)
    PROVE  \A e \in dirs \cup DOMAIN files : parent_of(e) = p => e \in written
  BY DEF FsInv, Rooted

\* touch preserves the invariant.
LEMMA TouchInv ==
    ASSUME FsInv, NEW p \in Paths, touch(p)
    PROVE  FsInv'
  <1>1. ~is_dir(p) /\ is_dir(parent_of(p))
    BY TouchOk DEF touch
  <1>2. dirs' = dirs /\ written' = written
    BY DEF touch
  <1>3. CASE is_file(p)
    <2>1. files' = files
      BY <1>3 DEF touch
    <2> QED
      BY <1>2, <2>1 DEF FsInv, FsTypeOK, KindsDisjoint, Rooted, NothingBelowFiles, is_dir
  <1>4. CASE ~is_file(p)
    <2>1. files' = Store(p, EMPTY_FILE)
      BY <1>4 DEF touch
    <2>2. DOMAIN files' = DOMAIN files \cup {p}
      BY <2>1, StoreEffect
    <2>3. FsTypeOK'
      <3>1. files'[p] = EMPTY_FILE
        BY <2>1, StoreEffect
      <3>2. \A q \in DOMAIN files : q # p => files'[q] = files[q]
        BY <2>1 DEF Store
      <3> QED BY <1>2, <2>2, <3>1, <3>2 DEF FsInv, FsTypeOK
    <2>4. KindsDisjoint'
      BY <1>1, <1>2, <2>2 DEF FsInv, KindsDisjoint, is_dir
    <2>5. Rooted'
      BY <1>1, <1>2, <2>2 DEF FsInv, Rooted, is_dir
    <2>6. NothingBelowFiles'
      <3>1. parent_of(p) \notin DOMAIN files'
        BY <1>1, <2>2 DEF FsInv, KindsDisjoint, is_dir
      <3>2. \A e \in dirs \cup DOMAIN files : parent_of(e) = p => e \in written
        BY <1>1, NothingBelow
      <3> QED BY <1>2, <2>2, <3>1, <3>2 DEF FsInv, NothingBelowFiles
    <2> QED BY <2>3, <2>4, <2>5, <2>6 DEF FsInv
  <1> QED BY <1>3, <1>4

\* write preserves the invariant.
LEMMA WriteInv ==
    ASSUME FsInv, NEW p \in Paths, NEW d \in Contents, write(p, d)
    PROVE  FsInv'
  <1>1. ~is_dir(p) /\ dirs' = dirs /\ written' = written \cup {p} /\ files' = Store(p, d)
    BY DEF write
  <1>2. DOMAIN files' = DOMAIN files \cup {p}
    BY <1>1, StoreEffect
  <1>3. FsTypeOK'
    <2>1. files'[p] = d
      BY <1>1, StoreEffect
    <2>2. \A q \in DOMAIN files : q # p => files'[q] = files[q]
      BY <1>1 DEF Store
    <2> QED BY <1>1, <1>2, <2>1, <2>2 DEF FsInv, FsTypeOK
  <1>4. KindsDisjoint'
    BY <1>1, <1>2 DEF FsInv, KindsDisjoint, is_dir
  <1>5. Rooted'
    BY <1>1, <1>2 DEF FsInv, Rooted, is_dir
  <1>6. NothingBelowFiles'
    <2>1. \A e \in dirs \cup DOMAIN files : parent_of(e) = p => e \in written
      BY <1>1, NothingBelow
    <2> QED BY <1>1, <1>2, <2>1 DEF FsInv, NothingBelowFiles
  <1> QED BY <1>3, <1>4, <1>5, <1>6 DEF FsInv

\* remove preserves the invariant.
LEMMA RemoveInv ==
    ASSUME FsInv, NEW p \in Paths, remove(p)
    PROVE  FsInv'
  <1>1. dirs' = dirs /\ written' = written \ {p} /\ DOMAIN files' = DOMAIN files \ {p}
        /\ \A q \in DOMAIN files' : files'[q] = files[q]
    BY DEF remove
  <1>2. FsTypeOK'
    BY <1>1 DEF FsInv, FsTypeOK
  <1>3. KindsDisjoint'
    BY <1>1 DEF FsInv, KindsDisjoint
  <1>4. Rooted'
    BY <1>1 DEF FsInv, Rooted, is_dir
  <1>5. NothingBelowFiles'
    <2>1. p \notin dirs
      BY DEF FsInv, KindsDisjoint, remove, is_file
    <2> QED BY <1>1, <2>1 DEF FsInv, NothingBelowFiles
  <1> QED BY <1>2, <1>3, <1>4, <1>5 DEF FsInv

\* The four invariants hold together in every state of the file system.
LEMMA FsInvariant == FsSpec => []FsInv
  <1>1. FsInit => FsInv
    BY DEF FsInit, FsInv, FsTypeOK, KindsDisjoint, Rooted, NothingBelowFiles
  <1>2. FsInv /\ [FsNext]_fsVars => FsInv'
    <2> SUFFICES ASSUME FsInv, [FsNext]_fsVars PROVE FsInv'
      OBVIOUS
    <2>1. CASE FsNext
      <3>1. PICK p \in Paths :
              mkdir(p) \/ touch(p) \/ remove(p) \/ \E d \in Contents : write(p, d)
        BY <2>1 DEF FsNext
      <3> QED BY <3>1, MkdirInv, TouchInv, RemoveInv, WriteInv
    <2>2. CASE UNCHANGED fsVars
      BY <2>2 DEF fsVars, FsInv, FsTypeOK, KindsDisjoint, Rooted, NothingBelowFiles, is_dir
    <2> QED BY <2>1, <2>2
  <1> QED BY <1>1, <1>2, PTL DEF FsSpec

\* The collections hold only paths that were used, and contents that were written.
THEOREM FsTypeCorrect == FsSpec => []FsTypeOK
  <1>1. FsInv => FsTypeOK
    BY DEF FsInv
  <1> QED BY <1>1, FsInvariant, PTL

\* No sequence of mkdir, touch, write and remove makes a path, or the root, both a
\* file and a directory.
THEOREM KindsStayDisjoint == FsSpec => []KindsDisjoint
  <1>1. FsInv => KindsDisjoint
    BY DEF FsInv
  <1> QED BY <1>1, FsInvariant, PTL

\* Whatever the order of the calls, everything that write has not made is in a
\* directory that exists.
THEOREM AlwaysRooted == FsSpec => []Rooted
  <1>1. FsInv => Rooted
    BY DEF FsInv
  <1> QED BY <1>1, FsInvariant, PTL

\* Whatever the order of the calls, only what write has made is below a file.
THEOREM FilesAreLeaves == FsSpec => []NothingBelowFiles
  <1>1. FsInv => NothingBelowFiles
    BY DEF FsInv
  <1> QED BY <1>1, FsInvariant, PTL

--------------------------------------------------------------------------------
(* What the text of a plain path says: "/a/b" is the entry b of "/a".          *)

Texts == Seq(Names \cup {SLASH})

LEMMA Evens ==
    ASSUME NEW m \in Nat
    PROVE  /\ m % 2 = 0 => \E k \in Nat : m = 2 * k
           /\ (2 * m) % 2 = 0 /\ (2 * m + 1) % 2 = 1
           /\ (2 * m) \div 2 = m
           /\ m # 0 => (2 * m - 1) % 2 = 1
  <1>1. m % 2 = 0 => m = 2 * (m \div 2) /\ m \div 2 \in Nat
    OBVIOUS
  <1> QED
    BY <1>1

\* Its last text is a name, the one before it a slash.
LEMMA PlainEnds ==
    ASSUME NEW q \in Paths, Plain(q)
    PROVE  /\ q \in Texts /\ Len(q) \in Nat
           /\ \E k \in Nat \ {0} : Len(q) = 2 * k
           /\ q[Len(q)] # SLASH /\ q[Len(q) - 1] = SLASH
  <1>1. q \in Texts /\ q # << >>
    BY PathAssumption DEF Texts
  <1>2. PICK m \in Nat \ {0} : m = Len(q)
    BY <1>1, EmptySeq DEF Texts
  <1>3. m % 2 = 0 /\ \A i \in 1 .. m : q[i] = SLASH <=> i % 2 = 1
    BY <1>2 DEF Plain
  <1>4. PICK k \in Nat \ {0} : m = 2 * k
    <2>1. PICK k \in Nat : m = 2 * k
      BY <1>3, Evens
    <2> QED
      BY <1>2, <2>1
  <1>5. m \in 1 .. m /\ m - 1 \in 1 .. m /\ m % 2 # 1 /\ (m - 1) % 2 = 1
    BY <1>3, <1>4
  <1>6. q[m] # SLASH /\ q[m - 1] = SLASH
    BY <1>3, <1>5
  <1> QED
    BY <1>1, <1>2, <1>4, <1>6

LEMMA PlainTrim ==
    ASSUME NEW q \in Paths, Plain(q)
    PROVE  trim_end(q) = q
  <1>1. q \in Texts
    BY PlainEnds
  <1>2. PICK m \in Nat \ {0} : m = Len(q) /\ q[m] # SLASH
    BY PlainEnds
  <1> DEFINE Fits(n) == /\ n = 0 \/ q[n] # SLASH
                        /\ \A i \in n + 1 .. m : q[i] = SLASH
  <1>3. Fits(m)
    BY <1>2
  <1>4. ASSUME NEW n \in 0 .. m, Fits(n) PROVE n = m
    <2>1. n < m => m \in n + 1 .. m
      OBVIOUS
    <2> QED
      BY <1>2, <1>4, <2>1
  <1>5. (CHOOSE n \in 0 .. m : Fits(n)) = m
    <2> HIDE DEF Fits
    <2>1. m \in 0 .. m
      OBVIOUS
    <2> QED
      BY <1>3, <1>4, <2>1
  <1>6. trim_end(q) = SubSeq(q, 1, m)
    BY <1>2, <1>5 DEF trim_end
  <1> QED
    BY <1>1, <1>2, <1>6, SubSeqFull DEF Texts

LEMMA PlainSlash ==
    ASSUME NEW q \in Paths, Plain(q)
    PROVE  rfind(q) = {Len(q) - 1}
  <1>1. PICK m \in Nat \ {0} : /\ m = Len(q) /\ q[m] # SLASH /\ q[m - 1] = SLASH
                               /\ m - 1 \in 1 .. m /\ m \in 1 .. m
    BY PlainEnds
  <1>2. ASSUME NEW i \in 1 .. m, q[i] = SLASH, \A j \in i + 1 .. m : q[j] # SLASH
        PROVE  i = m - 1
    <2>1. i # m
      BY <1>1, <1>2
    <2>2. i < m - 1 => m - 1 \in i + 1 .. m
      BY <1>1
    <2> QED
      BY <1>1, <1>2, <2>1, <2>2
  <1>3. \A j \in (m - 1) + 1 .. m : j = m
    OBVIOUS
  <1> QED
    BY <1>1, <1>2, <1>3 DEF rfind

LEMMA PlainParent ==
    ASSUME NEW q \in Paths, Plain(q)
    PROVE  /\ Len(q) = 2 => parent_of(q) = ROOT
           /\ Len(q) # 2 => parent_of(q) = SubSeq(q, 1, Len(q) - 2)
           /\ last_segment(q) = q[Len(q)]
  <1>1. trim_end(q) = q /\ rfind(q) = {Len(q) - 1}
    BY PlainTrim, PlainSlash
  <1>2. PICK m \in Nat : m = Len(q) /\ m >= 2
    BY PlainEnds
  <1>3. q # << >>
    BY PathAssumption
  <1>4. (CHOOSE i \in {m - 1} : TRUE) = m - 1
    OBVIOUS
  <1>5. {m - 1} \subseteq {1} <=> m = 2
    BY <1>2
  <1>6. m = 2 => parent_of(q) = ROOT
    BY <1>1, <1>2, <1>5 DEF parent_of
  <1>7. m # 2 => parent_of(q) = SubSeq(q, 1, (m - 1) - 1)
    BY <1>1, <1>2, <1>4, <1>5 DEF parent_of
  <1>8. (m - 1) - 1 = m - 2
    BY <1>2
  <1>9. last_segment(q) = q[Len(q)]
    BY <1>1, <1>3 DEF last_segment
  <1> QED
    BY <1>2, <1>6, <1>7, <1>8, <1>9

LEMMA PlainJoin ==
    ASSUME NEW q \in Paths, Plain(q)
    PROVE  Below(parent_of(q), last_segment(q)) = q
  <1>1. q \in Texts /\ last_segment(q) = q[Len(q)]
    BY PlainEnds, PlainParent
  <1>2. PICK k \in Nat \ {0} : Len(q) = 2 * k
    BY PlainEnds
  <1>3. PICK m \in Nat : m = Len(q) /\ m = 2 * k
    BY <1>2
  <1>4. q[m - 1] = SLASH
    BY <1>3, PlainEnds
  <1>5. PICK n \in Names \cup {SLASH} : n = q[m]
    BY <1>1, <1>2, <1>3 DEF Texts
  <1>6. <<SLASH, n>> \in Texts /\ Len(<<SLASH, n>>) = 2
        /\ <<SLASH, n>>[1] = SLASH /\ <<SLASH, n>>[2] = n
    BY DEF Texts
  <1>7. PICK t \in Texts : t = <<SLASH, n>> /\ Len(t) = 2 /\ t[1] = SLASH /\ t[2] = n
    BY <1>6
  <1>8. CASE m = 2
    <2>1. \A i \in 1 .. 2 : i = 1 \/ i = 2
      OBVIOUS
    <2>2. \A i \in 1 .. 2 : q[i] = t[i]
      BY <1>4, <1>5, <1>7, <1>8, <2>1
    <2>3. q = t
      BY <1>1, <1>3, <1>7, <1>8, <2>2, SeqEqual DEF Texts
    <2>4. parent_of(q) = ROOT
      BY <1>3, <1>8, PlainParent
    <2> QED
      BY <1>1, <1>3, <1>5, <1>7, <2>3, <2>4 DEF Below
  <1>9. CASE m # 2
    <2>1. m - 2 \in Nat /\ m - 2 >= 2
      BY <1>3, <1>9
    <2>2. parent_of(q) = SubSeq(q, 1, m - 2)
      BY <1>3, <1>9, PlainParent
    <2>3. \A i \in 1 .. m - 2 : q[i] \in Names \cup {SLASH}
      <3>1. \A i \in 1 .. m : q[i] \in Names \cup {SLASH}
        BY <1>1, <1>3, LenProperties DEF Texts
      <3>2. \A i \in 1 .. m - 2 : i \in 1 .. m
        OBVIOUS
      <3> QED
        BY <3>1, <3>2
    <2>4. PICK p \in Texts : /\ p = parent_of(q) /\ Len(p) = m - 2
                             /\ \A i \in 1 .. m - 2 : p[i] = q[i]
      <3>1. /\ SubSeq(q, 1, m - 2) \in Texts /\ Len(SubSeq(q, 1, m - 2)) = m - 2
            /\ \A i \in 1 .. m - 2 : SubSeq(q, 1, m - 2)[i] = q[i]
        BY <2>1, <2>3, SubSeqProperties DEF Texts
      <3> QED
        BY <2>2, <3>1
    <2>5. p # ROOT
      <3>1. Len(ROOT) = 1
        BY DEF ROOT
      <3> QED
        BY <2>1, <2>4, <3>1
    <2>6. /\ p \o t \in Texts /\ Len(p \o t) = m
          /\ \A i \in 1 .. m : (p \o t)[i] = IF i <= m - 2 THEN p[i] ELSE t[i - (m - 2)]
      <3>1. /\ p \o t \in Texts /\ Len(p \o t) = Len(p) + Len(t)
            /\ \A i \in 1 .. Len(p) + Len(t) : (p \o t)[i] = IF i <= Len(p) THEN p[i] ELSE t[i - Len(p)]
        BY ConcatProperties DEF Texts
      <3>2. Len(p) + Len(t) = m
        BY <1>7, <2>4
      <3> QED
        BY <2>4, <3>1, <3>2
    <2>7. ASSUME NEW i \in 1 .. m PROVE (p \o t)[i] = q[i]
      <3>1. i <= m - 2 \/ (i = m - 1 /\ i - (m - 2) = 1) \/ (i = m /\ i - (m - 2) = 2)
        OBVIOUS
      <3>2. i <= m - 2 => i \in 1 .. m - 2
        OBVIOUS
      <3>3. ~(m - 1 <= m - 2) /\ ~(m <= m - 2)
        OBVIOUS
      <3> QED
        BY <1>4, <1>5, <1>7, <2>4, <2>6, <3>1, <3>2, <3>3
    <2>8. p \o t = q
      BY <1>1, <1>3, <2>6, <2>7, SeqEqual DEF Texts
    <2> QED
      BY <1>1, <1>3, <1>5, <1>7, <2>4, <2>5, <2>8 DEF Below
  <1> QED
    BY <1>8, <1>9

\* mkdir, touch, write and remove are all that reaches the file system: the
\* commands of the shell, with every word they turn away, keep to them.
THEOREM ShellRunsFs == ShellSpec => FsSpec
  <1>1. ShellInit => FsInit
    BY DEF ShellInit
  <1>2. ASSUME [ShellNext]_shellVars PROVE [FsNext]_fsVars
    <2>1. CASE \E p \in Optional(Paths) : mkdir_cmd(p) \/ touch_cmd(p)
      <3>1. PICK p \in Optional(Paths) : mkdir_cmd(p) \/ touch_cmd(p)
        BY <2>1
      <3>2. p # << >> => p[1] \in Paths
        BY DEF Optional
      <3> QED
        BY <3>1, <3>2 DEF mkdir_cmd, touch_cmd, FsNext, shellVars
    <2>2. CASE FileSystemCall
      BY <2>2 DEF FileSystemCall, FsNext
    <2>3. CASE \E args \in Lines : alloc_cmd(args) \/ alloc_rejected(args)
      BY <2>3 DEF alloc_cmd, alloc_rejected, shellVars
    <2>4. CASE \/ \E args \in FreeLines : dealloc_cmd(args) \/ dealloc_rejected(args)
               \/ \E x \in live : unknown_command(hint(x))
      BY <2>4 DEF dealloc_cmd, dealloc_rejected, unknown_command, shellVars
    <2>5. CASE UNCHANGED shellVars
      BY <2>5 DEF shellVars
    <2> QED
      BY <1>2, <2>1, <2>2, <2>3, <2>4, <2>5 DEF ShellNext
  <1> QED
    BY <1>1, <1>2, PTL DEF ShellSpec, FsSpec

\* What ls shows of plainly spelled paths can be typed back: a plain entry listed
\* for the root or for a plain directory is found at the directory's path, a slash
\* and the name shown.  Every entry whose parent exists, however it is spelled, is
\* shown by some ls.  This holds for every set of names and paths, whatever was
\* created and removed.
THEOREM ListingsUsable == ShellSpec => []ListingUsable
  <1>1. FsTypeOK => ListingUsable
    <2> SUFFICES ASSUME FsTypeOK PROVE ListingUsable
      OBVIOUS
    <2>1. ASSUME NEW p, NEW e \in ls(<<p>>), Plain(e.path)
          PROVE  Below(p, e.name) = e.path
      <3>1. e \in list_entries(p)
        BY <2>1 DEF ls
      <3>2. PICK q \in dirs \cup DOMAIN files :
                e.path = q /\ e.name = last_segment(q) /\ parent_of(q) = p
        BY <3>1 DEF list_entries
      <3>3. q \in Paths
        BY DEF FsTypeOK
      <3> QED
        BY <2>1, <3>2, <3>3, PlainJoin
    <2>2. ASSUME NEW q \in dirs \cup DOMAIN files, is_dir(parent_of(q))
          PROVE  \E e \in ls(IF parent_of(q) = ROOT THEN << >> ELSE <<parent_of(q)>>) : e.path = q
      <3>1. PICK p : p = parent_of(q)
        OBVIOUS
      <3>2. ls(IF p = ROOT THEN << >> ELSE <<p>>) = list_entries(p)
        <4>1. CASE p = ROOT
          BY <4>1 DEF ls
        <4>2. CASE p # ROOT
          <5>1. <<p>> # << >> /\ <<p>>[1] = p
            OBVIOUS
          <5> QED
            BY <4>2, <5>1 DEF ls
        <4> QED
          BY <4>1, <4>2
      <3>3. \E e \in list_entries(p) : e.path = q
        <4>1. CASE q \in dirs
          <5>1. PICK e : e = [kind |-> "Dir", path |-> q, name |-> last_segment(q)]
            OBVIOUS
          <5>2. e.path = q /\ e \in list_entries(p)
            BY <2>2, <3>1, <4>1, <5>1 DEF list_entries
          <5> QED
            BY <5>2
        <4>2. CASE q \in DOMAIN files
          <5>1. PICK e : e = [kind |-> "File", path |-> q, name |-> last_segment(q)]
            OBVIOUS
          <5>2. e.path = q /\ e \in list_entries(p)
            BY <2>2, <3>1, <4>2, <5>1 DEF list_entries
          <5> QED
            BY <5>2
        <4> QED
          BY <4>1, <4>2
      <3> QED
        BY <3>1, <3>2, <3>3
    <2> QED
      BY <2>1, <2>2 DEF ListingUsable
  <1> QED
    BY <1>1, ShellRunsFs, FsTypeCorrect, PTL

--------------------------------------------------------------------------------
(* The map and the set, seen through plain paths, are the tree of FsTree.      *)

\* A plain path and the place it names determine each other.
LEMMA PlaceFacts ==
    ASSUME NEW q \in Paths, Plain(q), NEW k \in Nat \ {0}, Len(q) = 2 * k
    PROVE  /\ Place(q) \in Texts /\ Len(Place(q)) = k
           /\ \A i \in 1 .. k : Place(q)[i] = q[2 * i]
  <1>1. q \in Texts /\ Len(q) \div 2 = k
    BY PlainEnds, Evens
  <1>2. ASSUME NEW i \in 1 .. k PROVE q[2 * i] \in Names \cup {SLASH}
    <2>1. 2 * i \in 1 .. 2 * k
      OBVIOUS
    <2> QED
      BY <1>1, <2>1, LenProperties DEF Texts
  <1>3. Place(q) = [i \in 1 .. k |-> q[2 * i]]
    BY <1>1 DEF Place
  <1>4. [i \in 1 .. k |-> q[2 * i]] \in Texts
    BY <1>2 DEF Texts
  <1> QED
    BY <1>3, <1>4 DEF Texts

LEMMA PlaceSpelled ==
    ASSUME NEW q \in Paths, Plain(q)
    PROVE  Spelling(Place(q)) = q /\ Place(q) # << >>
  <1>1. PICK k \in Nat \ {0} : Len(q) = 2 * k
    BY PlainEnds
  <1>2. PICK t \in Texts : t = Place(q) /\ Len(t) = k /\ \A i \in 1 .. k : t[i] = q[2 * i]
    BY <1>1, PlaceFacts
  <1>3. q \in Texts /\ DOMAIN q = 1 .. 2 * k /\ q = [i \in 1 .. 2 * k |-> q[i]]
    BY <1>1, PlainEnds, LenProperties DEF Texts
  <1>4. \A i \in 1 .. 2 * k : q[i] = SLASH <=> i % 2 = 1
    BY <1>1 DEF Plain
  <1>5. ASSUME NEW i \in 1 .. 2 * k, i % 2 # 1 PROVE t[i \div 2] = q[i]
    <2>1. i % 2 = 0
      BY <1>5
    <2>2. PICK j \in Nat : i = 2 * j
      BY <2>1, Evens
    <2>3. j \in 1 .. k /\ i \div 2 = j
      BY <2>2, Evens
    <2> QED
      BY <1>2, <2>2, <2>3
  <1>6. Spelling(t) = [i \in 1 .. 2 * k |-> IF i % 2 = 1 THEN SLASH ELSE t[i \div 2]]
    BY <1>2 DEF Spelling
  <1>7. \A i \in 1 .. 2 * k : q[i] = IF i % 2 = 1 THEN SLASH ELSE t[i \div 2]
    BY <1>4, <1>5
  <1>8. Spelling(t) = q
    BY <1>3, <1>6, <1>7
  <1>9. t # << >>
    BY <1>2
  <1> QED
    BY <1>2, <1>8, <1>9

\* The parent of a plain path names the parent of its place.
LEMMA ParentPlace ==
    ASSUME NEW q \in Paths, Plain(q)
    PROVE  /\ Len(q) = 2 => Tree!Parent(Place(q)) = << >>
           /\ Len(q) # 2 /\ parent_of(q) \in Paths
                => Plain(parent_of(q)) /\ Place(parent_of(q)) = Tree!Parent(Place(q))
  <1>1. PICK k \in Nat \ {0} : Len(q) = 2 * k
    BY PlainEnds
  <1>2. PICK t \in Texts : t = Place(q) /\ Len(t) = k /\ \A i \in 1 .. k : t[i] = q[2 * i]
    BY <1>1, PlaceFacts
  <1>3. Tree!Parent(t) = SubSeq(t, 1, k - 1)
    BY <1>2 DEF Tree!Parent
  <1>4. CASE k = 1
    BY <1>1, <1>2, <1>3, <1>4, SubSeqEmpty
  <1>5. CASE k # 1 /\ parent_of(q) \in Paths
    <2>1. PICK j \in Nat \ {0} : k = j + 1
      <3>1. k - 1 \in Nat \ {0} /\ k = (k - 1) + 1
        BY <1>5
      <3> QED
        BY <3>1
    <2>2. PICK p \in Paths : p = parent_of(q) /\ p = SubSeq(q, 1, 2 * j)
      BY <1>1, <1>5, <2>1, PlainParent
    <2>3. Len(p) = 2 * j /\ \A i \in 1 .. 2 * j : p[i] = q[i]
      <3>1. \A i \in 1 .. 2 * j : q[i] \in Names \cup {SLASH}
        <4>1. \A i \in 1 .. 2 * k : q[i] \in Names \cup {SLASH}
          BY <1>1, PlainEnds, LenProperties DEF Texts
        <4>2. \A i \in 1 .. 2 * j : i \in 1 .. 2 * k
          BY <2>1
        <4> QED
          BY <4>1, <4>2
      <3>2. /\ Len(SubSeq(q, 1, 2 * j)) = 2 * j
            /\ \A i \in 1 .. 2 * j : SubSeq(q, 1, 2 * j)[i] = q[i]
        BY <3>1, SubSeqProperties
      <3> QED
        BY <2>2, <3>2
    <2>4. Plain(p)
      <3>1. p # ROOT
        <4>1. Len(ROOT) = 1
          BY DEF ROOT
        <4>2. 2 * j # 1
          OBVIOUS
        <4> QED
          BY <2>3, <4>1, <4>2, Zenon
      <3>2. (2 * j) % 2 = 0
        BY Evens
      <3>3. \A i \in 1 .. 2 * j : q[i] = SLASH <=> i % 2 = 1
        <4>1. \A i \in 1 .. 2 * k : q[i] = SLASH <=> i % 2 = 1
          BY <1>1 DEF Plain
        <4>2. \A i \in 1 .. 2 * j : i \in 1 .. 2 * k
          BY <2>1
        <4> QED
          BY <4>1, <4>2
      <3> QED
        BY <2>3, <3>1, <3>2, <3>3 DEF Plain
    <2>5. PICK u \in Texts : u = Place(p) /\ Len(u) = j /\ \A i \in 1 .. j : u[i] = p[2 * i]
      BY <2>3, <2>4, PlaceFacts
    <2>6. PICK v \in Texts : v = SubSeq(t, 1, j) /\ Len(v) = j /\ \A i \in 1 .. j : v[i] = t[i]
      <3>1. \A i \in 1 .. j : t[i] \in Names \cup {SLASH}
        <4>1. \A i \in 1 .. k : t[i] \in Names \cup {SLASH}
          BY <1>2, LenProperties DEF Texts
        <4>2. \A i \in 1 .. j : i \in 1 .. k
          BY <2>1
        <4> QED
          BY <4>1, <4>2
      <3>2. /\ SubSeq(t, 1, j) \in Texts /\ Len(SubSeq(t, 1, j)) = j
            /\ \A i \in 1 .. j : SubSeq(t, 1, j)[i] = t[i]
        BY <3>1, SubSeqProperties DEF Texts
      <3> QED
        BY <3>2
    <2>7. ASSUME NEW i \in 1 .. j PROVE u[i] = v[i]
      <3>1. i \in 1 .. k /\ 2 * i \in 1 .. 2 * j
        BY <2>1
      <3> QED
        BY <1>2, <2>3, <2>5, <2>6, <3>1
    <2>8. u = v
      BY <2>5, <2>6, <2>7, SeqEqual DEF Texts
    <2>9. k - 1 = j
      BY <2>1
    <2> QED
      BY <1>1, <1>2, <1>3, <1>5, <2>2, <2>4, <2>5, <2>6, <2>8, <2>9
  <1>6. k = 1 <=> Len(q) = 2
    BY <1>1
  <1> QED
    BY <1>4, <1>5, <1>6, <1>2

\* TreeView, of a map F and a set D.
Entries(F, D) == D \cup DOMAIN F
Held(F, q) == IF q \in DOMAIN F THEN F[q] ELSE "dir"
PlacesOf(S) == {Place(p) : p \in {p \in S : Plain(p)}}
View(F, D) ==
    [t \in {<< >>} \cup PlacesOf(D) \cup PlacesOf(DOMAIN F) |->
        IF t \in PlacesOf(DOMAIN F) THEN F[Spelling(t)] ELSE "dir"]

LEMMA TreeIsView == TreeView = View(files, dirs) /\ TreeView' = View(files', dirs')
  BY DEF TreeView, View, PlainDirs, PlainFiles, PlacesOf

LEMMA PlaceIn ==
    ASSUME NEW S, S \subseteq Paths, NEW p \in Paths, Plain(p)
    PROVE  Place(p) \in PlacesOf(S) <=> p \in S
  <1>1. p \in S => Place(p) \in PlacesOf(S)
    BY DEF PlacesOf
  <1>2. ASSUME Place(p) \in PlacesOf(S) PROVE p \in S
    <2>1. PICK q \in S : Plain(q) /\ Place(p) = Place(q)
      BY <1>2 DEF PlacesOf
    <2>2. q \in Paths /\ Spelling(Place(q)) = q /\ Spelling(Place(p)) = p
      BY <2>1, PlaceSpelled
    <2> QED
      BY <2>1, <2>2
  <1> QED
    BY <1>1, <1>2

LEMMA ViewAt ==
    ASSUME NEW F, NEW D, Entries(F, D) \subseteq Paths
    PROVE  /\ DOMAIN View(F, D) = {<< >>} \cup PlacesOf(Entries(F, D))
           /\ View(F, D)[<< >>] = "dir"
           /\ \A p \in Entries(F, D) : Plain(p) => View(F, D)[Place(p)] = Held(F, p)
  <1>1. D \subseteq Paths /\ DOMAIN F \subseteq Paths
    BY DEF Entries
  <1>2. DOMAIN View(F, D) = {<< >>} \cup PlacesOf(D) \cup PlacesOf(DOMAIN F)
    BY DEF View
  <1>3. PlacesOf(Entries(F, D)) = PlacesOf(D) \cup PlacesOf(DOMAIN F)
    BY DEF PlacesOf, Entries
  <1>4. << >> \notin PlacesOf(DOMAIN F)
    <2> SUFFICES ASSUME << >> \in PlacesOf(DOMAIN F) PROVE FALSE
      OBVIOUS
    <2>1. PICK q \in DOMAIN F : Plain(q) /\ << >> = Place(q)
      BY DEF PlacesOf
    <2> QED
      BY <1>1, <2>1, PlaceSpelled
  <1>5. View(F, D)[<< >>] = "dir"
    BY <1>4 DEF View
  <1>6. ASSUME NEW p \in Entries(F, D), Plain(p) PROVE View(F, D)[Place(p)] = Held(F, p)
    <2>1. p \in Paths /\ Spelling(Place(p)) = p
      BY <1>6, PlaceSpelled
    <2>2. Place(p) \in PlacesOf(DOMAIN F) <=> p \in DOMAIN F
      BY <1>1, <1>6, <2>1, PlaceIn
    <2>3. Place(p) \in PlacesOf(Entries(F, D))
      BY <1>6 DEF PlacesOf
    <2>4. PICK t : t = Place(p)
      OBVIOUS
    <2>5. View(F, D)[t] = IF t \in PlacesOf(DOMAIN F) THEN F[Spelling(t)] ELSE "dir"
      BY <1>3, <2>3, <2>4 DEF View
    <2> QED
      BY <2>1, <2>2, <2>4, <2>5 DEF Held
  <1> QED
    BY <1>2, <1>3, <1>5, <1>6

IsView(f) == f = [t \in DOMAIN f |-> f[t]]

LEMMA ViewIsFunction ==
    ASSUME NEW F, NEW D
    PROVE  IsView(View(F, D))
  BY DEF View, IsView

\* Two views that agree at every place are equal.
LEMMA SameView ==
    ASSUME NEW f, NEW g, IsView(f), IsView(g), DOMAIN f = DOMAIN g,
           \A t \in DOMAIN f : f[t] = g[t]
    PROVE  f = g
  BY DEF IsView

\* A change at a path that is not plain is not seen.
LEMMA ViewKept ==
    ASSUME NEW F, NEW D, Entries(F, D) \subseteq Paths,
           NEW F2, NEW D2, Entries(F2, D2) \subseteq Paths,
           \A q \in Paths : Plain(q) => /\ q \in Entries(F2, D2) <=> q \in Entries(F, D)
                                        /\ q \in Entries(F, D) => Held(F2, q) = Held(F, q)
    PROVE  View(F2, D2) = View(F, D)
  <1>1. PICK f, g : f = View(F, D) /\ g = View(F2, D2) /\ IsView(f) /\ IsView(g)
    BY ViewIsFunction
  <1>2. PlacesOf(Entries(F, D)) = PlacesOf(Entries(F2, D2))
    BY DEF PlacesOf
  <1>3. DOMAIN f = {<< >>} \cup PlacesOf(Entries(F, D)) /\ DOMAIN g = DOMAIN f
    BY <1>1, <1>2, ViewAt
  <1>4. ASSUME NEW t \in DOMAIN f PROVE f[t] = g[t]
    <2>1. CASE t = << >>
      BY <1>1, <2>1, ViewAt
    <2>2. CASE t \in PlacesOf(Entries(F, D))
      <3>1. PICK p \in Entries(F, D) : Plain(p) /\ t = Place(p)
        BY <2>2 DEF PlacesOf
      <3>2. f[t] = Held(F, p)
        BY <1>1, <3>1, ViewAt
      <3>3. p \in Entries(F2, D2) /\ Held(F2, p) = Held(F, p)
        BY <3>1
      <3>4. g[t] = Held(F2, p)
        BY <1>1, <3>1, <3>3, ViewAt
      <3> QED
        BY <3>2, <3>3, <3>4
    <2> QED
      BY <1>3, <2>1, <2>2
  <1> QED
    BY <1>1, <1>3, <1>4, SameView

PutAt(f, a, v) == [t \in DOMAIN f \cup {a} |-> IF t = a THEN v ELSE f[t]]
CutAt(f, a) == [t \in DOMAIN f \ {a} |-> f[t]]

\* An entry added or changed at a plain path is a place added or changed.
LEMMA ViewPut ==
    ASSUME NEW F, NEW D, Entries(F, D) \subseteq Paths,
           NEW F2, NEW D2, Entries(F2, D2) \subseteq Paths,
           NEW p \in Paths, Plain(p), Entries(F2, D2) = Entries(F, D) \cup {p},
           \A q \in Entries(F, D) : q # p => Held(F2, q) = Held(F, q)
    PROVE  View(F2, D2) = PutAt(View(F, D), Place(p), Held(F2, p))
  <1>1. PICK f, g, h : f = View(F, D) /\ g = View(F2, D2) /\ h = PutAt(f, Place(p), Held(F2, p))
    OBVIOUS
  <1>2. IsView(f) /\ IsView(g) /\ IsView(h)
    BY <1>1, ViewIsFunction DEF PutAt, IsView
  <1>3. PICK a : a = Place(p) /\ a # << >>
    BY PlaceSpelled
  <1>4. PlacesOf(Entries(F2, D2)) = PlacesOf(Entries(F, D)) \cup {a}
    BY <1>3 DEF PlacesOf
  <1>5. DOMAIN f = {<< >>} \cup PlacesOf(Entries(F, D)) /\ DOMAIN g = DOMAIN f \cup {a}
    <2>1. DOMAIN f = {<< >>} \cup PlacesOf(Entries(F, D))
      BY <1>1, ViewAt
    <2>2. DOMAIN g = {<< >>} \cup PlacesOf(Entries(F2, D2))
      BY <1>1, ViewAt
    <2> QED
      BY <1>4, <2>1, <2>2
  <1>6. /\ DOMAIN h = DOMAIN f \cup {a} /\ h[a] = Held(F2, p)
        /\ \A t \in DOMAIN f : t # a => h[t] = f[t]
    BY <1>1, <1>3 DEF PutAt
  <1>7. ASSUME NEW t \in DOMAIN g PROVE g[t] = h[t]
    <2>1. CASE t = a
      BY <1>1, <1>3, <1>6, <2>1, ViewAt, ZenonT(60)
    <2>2. CASE t = << >>
      BY <1>1, <1>3, <1>5, <1>6, <2>2, ViewAt, ZenonT(60)
    <2>3. CASE t # a /\ t \in PlacesOf(Entries(F, D))
      <3>1. PICK q \in Entries(F, D) : Plain(q) /\ t = Place(q)
        BY <2>3 DEF PlacesOf
      <3>2. q # p /\ q \in Entries(F2, D2)
        BY <1>3, <2>3, <3>1
      <3>3. f[t] = Held(F, q) /\ g[t] = Held(F2, q)
        BY <1>1, <3>1, <3>2, ViewAt
      <3> QED
        BY <1>5, <1>6, <2>3, <3>2, <3>3
    <2> QED
      BY <1>5, <2>1, <2>2, <2>3
  <1>8. g = h
    BY <1>2, <1>5, <1>6, <1>7, SameView
  <1> QED
    BY <1>1, <1>8

\* An entry removed at a plain path is a place removed.
LEMMA ViewCut ==
    ASSUME NEW F, NEW D, Entries(F, D) \subseteq Paths,
           NEW F2, NEW D2, NEW p \in Paths, Plain(p), Entries(F2, D2) = Entries(F, D) \ {p},
           \A q \in Entries(F, D) : q # p => Held(F2, q) = Held(F, q)
    PROVE  View(F2, D2) = CutAt(View(F, D), Place(p))
  <1>1. PICK f, g, h : f = View(F, D) /\ g = View(F2, D2) /\ h = CutAt(f, Place(p))
    OBVIOUS
  <1>2. IsView(f) /\ IsView(g) /\ IsView(h)
    BY <1>1, ViewIsFunction DEF CutAt, IsView
  <1>3. PICK a : a = Place(p) /\ a # << >>
    BY PlaceSpelled
  <1>4. PlacesOf(Entries(F2, D2)) = PlacesOf(Entries(F, D)) \ {a}
    <2>1. ASSUME NEW q \in Entries(F, D), Plain(q) PROVE Place(q) = a <=> q = p
      <3>1. q \in Paths
        OBVIOUS
      <3>2. Spelling(Place(q)) = q /\ Spelling(Place(p)) = p
        BY <2>1, <3>1, PlaceSpelled
      <3> QED
        BY <1>3, <3>2
    <2> QED
      BY <2>1 DEF PlacesOf
  <1>5. /\ DOMAIN f = {<< >>} \cup PlacesOf(Entries(F, D)) /\ DOMAIN g = DOMAIN f \ {a}
        /\ Entries(F2, D2) \subseteq Paths
    <2>1. DOMAIN f = {<< >>} \cup PlacesOf(Entries(F, D))
      BY <1>1, ViewAt
    <2>2. Entries(F2, D2) \subseteq Paths
      OBVIOUS
    <2>3. DOMAIN g = {<< >>} \cup PlacesOf(Entries(F2, D2))
      BY <1>1, <2>2, ViewAt
    <2> QED
      BY <1>3, <1>4, <2>1, <2>2, <2>3
  <1>6. DOMAIN h = DOMAIN f \ {a} /\ \A t \in DOMAIN h : h[t] = f[t]
    BY <1>1, <1>3 DEF CutAt
  <1>7. ASSUME NEW t \in DOMAIN g PROVE g[t] = h[t]
    <2>1. CASE t = << >>
      BY <1>1, <1>5, <1>6, <2>1, ViewAt, ZenonT(60)
    <2>2. CASE t # << >>
      <3>1. PICK q \in Entries(F2, D2) : Plain(q) /\ t = Place(q)
        BY <1>4, <1>5, <2>2 DEF PlacesOf
      <3>2. f[t] = Held(F, q) /\ g[t] = Held(F2, q)
        BY <1>1, <1>5, <3>1, ViewAt
      <3> QED
        BY <1>5, <1>6, <3>1, <3>2
    <2> QED
      BY <2>1, <2>2
  <1>8. g = h
    BY <1>2, <1>5, <1>6, <1>7, SameView
  <1> QED
    BY <1>1, <1>8

\* What the tree holds at a plain path, and what is a directory in it.
LEMMA TreeAt ==
    ASSUME FsInv, NEW p \in Paths, Plain(p)
    PROVE  /\ Place(p) \in DOMAIN TreeView <=> is_dir(p) \/ is_file(p)
           /\ Tree!IsDir(Place(p)) <=> is_dir(p)
           /\ Tree!IsDir(<< >>)
  <1>1. Entries(files, dirs) \subseteq Paths /\ TreeView = View(files, dirs)
    BY TreeIsView DEF FsInv, FsTypeOK, Entries
  <1>2. p # ROOT /\ Place(p) # << >>
    BY PlaceSpelled DEF Plain
  <1>3. Place(p) \in DOMAIN TreeView <=> p \in Entries(files, dirs)
    <2>1. Place(p) \in PlacesOf(Entries(files, dirs)) <=> p \in Entries(files, dirs)
      BY <1>1, PlaceIn
    <2> QED
      BY <1>1, <1>2, <2>1, ViewAt
  <1>4. p \in Entries(files, dirs) <=> is_dir(p) \/ is_file(p)
    BY <1>2 DEF Entries, is_dir, is_file
  <1>5. p \in Entries(files, dirs) => TreeView[Place(p)] = Held(files, p)
    BY <1>1, ViewAt
  <1>6. is_file(p) => Held(files, p) # "dir" /\ ~is_dir(p)
    BY <1>2, PathAssumption DEF FsInv, FsTypeOK, KindsDisjoint, Held, is_file, is_dir
  <1>7. ~is_file(p) => Held(files, p) = "dir"
    BY DEF Held, is_file
  <1>8. Tree!IsDir(Place(p)) <=> is_dir(p)
    BY <1>3, <1>4, <1>5, <1>6, <1>7 DEF Tree!IsDir
  <1>9. Tree!IsDir(<< >>)
    BY <1>1, ViewAt DEF Tree!IsDir
  <1> QED
    BY <1>3, <1>4, <1>8, <1>9

LEMMA ParentIsDir ==
    ASSUME FsInv, NEW p \in Paths, Plain(p), is_dir(parent_of(p))
    PROVE  Tree!IsDir(Tree!Parent(Place(p)))
  <1>1. CASE Len(p) = 2
    BY <1>1, ParentPlace, TreeAt
  <1>2. CASE Len(p) # 2
    <2>1. parent_of(p) # ROOT
      <3>1. parent_of(p) = SubSeq(p, 1, Len(p) - 2)
        BY <1>2, PlainParent
      <3>2. PICK k \in Nat \ {0, 1} : Len(p) = 2 * k /\ p \in Texts
        <4>1. PICK k \in Nat \ {0} : Len(p) = 2 * k
          BY PlainEnds
        <4>2. p \in Texts
          BY PlainEnds
        <4>3. k # 1
          BY <1>2, <4>1
        <4> QED
          BY <4>1, <4>2, <4>3
      <3>3. Len(p) - 2 \in Nat /\ Len(p) - 2 # 1 /\ Len(p) - 2 >= 1
        BY <3>2
      <3>4. \A i \in 1 .. Len(p) - 2 : p[i] \in Names \cup {SLASH}
        <4>1. \A i \in 1 .. Len(p) : p[i] \in Names \cup {SLASH}
          BY <3>2, LenProperties DEF Texts
        <4>2. \A i \in 1 .. Len(p) - 2 : i \in 1 .. Len(p)
          BY <3>2
        <4> QED
          BY <4>1, <4>2
      <3>5. PICK n \in Int : n = Len(p) - 2 /\ n # 1 /\ n >= 1
        <4>1. Len(p) - 2 \in Int
          BY <3>2
        <4> QED
          BY <3>3, <4>1, Zenon
      <3>6. Len(SubSeq(p, 1, n)) = n
        <4>1. Len(SubSeq(p, 1, n)) = IF 1 <= n THEN n - 1 + 1 ELSE 0
          BY <3>4, <3>5, SubSeqProperties
        <4> QED
          BY <3>5, <4>1
      <3>7. Len(ROOT) = 1
        BY DEF ROOT
      <3> QED
        BY <3>1, <3>5, <3>6, <3>7, Zenon
    <2>2. parent_of(p) \in Paths
      BY <2>1 DEF FsInv, FsTypeOK, is_dir
    <2>3. Plain(parent_of(p)) /\ Place(parent_of(p)) = Tree!Parent(Place(p))
      BY <1>2, <2>2, ParentPlace
    <2> QED
      BY <2>2, <2>3, TreeAt
  <1> QED
    BY <1>1, <1>2

LEMMA FilesStored ==
    ASSUME NEW p, NEW d, NEW F2, F2 = Store(p, d)
    PROVE  /\ DOMAIN F2 = DOMAIN files \cup {p} /\ Held(F2, p) = d
           /\ \A q : q # p => Held(F2, q) = Held(files, q)
  BY DEF Store, Held

\* A step that adds or changes one entry, seen in the tree.
LEMMA TreePut ==
    ASSUME FsInv, FsInv', NEW p \in Paths, NEW v,
           Entries(files', dirs') = Entries(files, dirs) \cup {p}, Held(files', p) = v,
           \A q : q # p => Held(files', q) = Held(files, q)
    PROVE  /\ Plain(p) => TreeView' = Tree!Put(Place(p), v)
           /\ ~Plain(p) => TreeView' = TreeView
  <1>1. /\ Entries(files, dirs) \subseteq Paths /\ TreeView = View(files, dirs)
        /\ Entries(files', dirs') \subseteq Paths /\ TreeView' = View(files', dirs')
    BY TreeIsView DEF FsInv, FsTypeOK, Entries
  <1>2. PICK F, D, F2, D2 : F = files /\ D = dirs /\ F2 = files' /\ D2 = dirs'
    OBVIOUS
  <1>3. CASE Plain(p)
    <2>1. View(F2, D2) = PutAt(View(F, D), Place(p), Held(F2, p))
      BY <1>1, <1>2, <1>3, ViewPut
    <2> QED
      BY <1>1, <1>2, <1>3, <2>1 DEF PutAt, Tree!Put
  <1>4. CASE ~Plain(p)
    <2>1. View(F2, D2) = View(F, D)
      BY <1>1, <1>2, <1>4, ViewKept
    <2> QED
      BY <1>1, <1>2, <1>4, <2>1
  <1> QED
    BY <1>3, <1>4

LEMMA MkdirTree ==
    ASSUME FsInv, FsInv', NEW p \in Paths, mkdir(p)
    PROVE  [Tree!Next]_TreeView
  <1>1. ~is_dir(p) /\ ~is_file(p) /\ is_dir(parent_of(p))
    BY MkdirOk DEF mkdir
  <1>2. dirs' = dirs \cup {p} /\ files' = files
    BY DEF mkdir
  <1>3. /\ Entries(files', dirs') = Entries(files, dirs) \cup {p} /\ Held(files', p) = "dir"
        /\ \A q : q # p => Held(files', q) = Held(files, q)
    BY <1>1, <1>2 DEF Entries, Held, is_file
  <1>4. CASE Plain(p)
    <2>1. TreeView' = Tree!Put(Place(p), "dir")
      BY <1>3, <1>4, TreePut
    <2>2. Place(p) \notin DOMAIN TreeView /\ Tree!IsDir(Tree!Parent(Place(p)))
      BY <1>1, <1>4, TreeAt, ParentIsDir
    <2>3. Tree!MakeDir(Place(p))
      BY <2>1, <2>2 DEF Tree!MakeDir
    <2>4. Place(p) \in PlainPlaces
      BY <1>4 DEF PlainPlaces
    <2> QED
      BY <2>3, <2>4 DEF Tree!Next
  <1>5. CASE ~Plain(p)
    BY <1>3, <1>5, TreePut
  <1> QED
    BY <1>4, <1>5

LEMMA TouchTree ==
    ASSUME FsInv, FsInv', NEW p \in Paths, touch(p)
    PROVE  [Tree!Next]_TreeView
  <1>1. ~is_dir(p) /\ is_dir(parent_of(p)) /\ dirs' = dirs
    BY TouchOk DEF touch
  <1>2. CASE is_file(p)
    <2>1. files' = files
      BY <1>2 DEF touch
    <2> QED
      BY <1>1, <2>1, TreeIsView
  <1>3. CASE ~is_file(p)
    <2>1. files' = Store(p, EMPTY_FILE)
      BY <1>3 DEF touch
    <2>2. /\ Entries(files', dirs') = Entries(files, dirs) \cup {p} /\ Held(files', p) = EMPTY_FILE
          /\ \A q : q # p => Held(files', q) = Held(files, q)
      <3>1. PICK F : F = files'
        OBVIOUS
      <3>2. /\ DOMAIN F = DOMAIN files \cup {p} /\ Held(F, p) = EMPTY_FILE
            /\ \A q : q # p => Held(F, q) = Held(files, q)
        BY <2>1, <3>1, FilesStored
      <3> QED
        BY <1>1, <3>1, <3>2 DEF Entries
    <2>3. CASE Plain(p)
      <3>1. TreeView' = Tree!Put(Place(p), EMPTY_FILE)
        BY <2>2, <2>3, TreePut
      <3>2. Place(p) \notin DOMAIN TreeView /\ Tree!IsDir(Tree!Parent(Place(p)))
        BY <1>1, <1>3, <2>3, TreeAt, ParentIsDir
      <3>3. Tree!Touch(Place(p))
        BY <3>1, <3>2 DEF Tree!Touch
      <3>4. Place(p) \in PlainPlaces
        BY <2>3 DEF PlainPlaces
      <3> QED
        BY <3>3, <3>4 DEF Tree!Next
    <2>4. CASE ~Plain(p)
      BY <2>2, <2>4, TreePut
    <2> QED
      BY <2>3, <2>4
  <1> QED
    BY <1>2, <1>3

LEMMA WriteTree ==
    ASSUME FsInv, FsInv', NEW p \in Paths, NEW d \in Contents, write(p, d)
    PROVE  [Tree!Next]_TreeView
  <1>1. ~is_dir(p) /\ dirs' = dirs /\ files' = Store(p, d)
    BY DEF write
  <1>2. /\ Entries(files', dirs') = Entries(files, dirs) \cup {p} /\ Held(files', p) = d
        /\ \A q : q # p => Held(files', q) = Held(files, q)
    <2>1. PICK F : F = files'
      OBVIOUS
    <2>2. /\ DOMAIN F = DOMAIN files \cup {p} /\ Held(F, p) = d
          /\ \A q : q # p => Held(F, q) = Held(files, q)
      <3>1. F = Store(p, d)
        BY <1>1, <2>1
      <3> QED
        BY <3>1 DEF Store, Held
    <2> QED
      BY <1>1, <2>1, <2>2 DEF Entries
  <1>3. CASE Plain(p)
    <2>1. TreeView' = Tree!Put(Place(p), d)
      BY <1>2, <1>3, TreePut
    <2>2. ~Tree!IsDir(Place(p))
      BY <1>1, <1>3, TreeAt
    <2>3. Tree!Write(Place(p), d)
      BY <2>1, <2>2 DEF Tree!Write
    <2>4. Place(p) \in PlainPlaces
      BY <1>3 DEF PlainPlaces
    <2> QED
      BY <2>3, <2>4 DEF Tree!Next
  <1>4. CASE ~Plain(p)
    BY <1>2, <1>4, TreePut
  <1> QED
    BY <1>3, <1>4

LEMMA RemoveTree ==
    ASSUME FsInv, FsInv', NEW p \in Paths, remove(p)
    PROVE  [Tree!Next]_TreeView
  <1>1. is_file(p) /\ dirs' = dirs /\ files' = [q \in DOMAIN files \ {p} |-> files[q]]
    BY DEF remove
  <1>2. p \notin dirs
    BY <1>1 DEF FsInv, KindsDisjoint, is_file
  <1>3. PICK F, D, F2, D2 : F = files /\ D = dirs /\ F2 = files' /\ D2 = dirs'
    OBVIOUS
  <1>4. /\ Entries(F, D) \subseteq Paths /\ TreeView = View(F, D)
        /\ Entries(F2, D2) \subseteq Paths /\ TreeView' = View(F2, D2)
    BY <1>3, TreeIsView DEF FsInv, FsTypeOK, Entries
  <1>5. Entries(F2, D2) = Entries(F, D) \ {p}
    BY <1>1, <1>2, <1>3 DEF Entries
  <1>6. \A q : q # p => Held(F2, q) = Held(F, q)
    BY <1>1, <1>3 DEF Held
  <1>7. CASE Plain(p)
    <2>1. TreeView' = CutAt(TreeView, Place(p))
      BY <1>4, <1>5, <1>6, <1>7, ViewCut
    <2>2. Place(p) \in DOMAIN TreeView /\ ~Tree!IsDir(Place(p))
      <3>1. ~is_dir(p)
        BY <1>2, <1>7 DEF is_dir, Plain
      <3> QED
        BY <1>1, <1>7, <3>1, TreeAt
    <2>3. Tree!Remove(Place(p))
      BY <2>1, <2>2 DEF Tree!Remove, CutAt
    <2>4. Place(p) \in PlainPlaces
      BY <1>7 DEF PlainPlaces
    <2> QED
      BY <2>3, <2>4 DEF Tree!Next
  <1>8. CASE ~Plain(p)
    <2>1. View(F2, D2) = View(F, D)
      BY <1>4, <1>5, <1>6, <1>8, ViewKept
    <2> QED
      BY <1>4, <2>1
  <1> QED
    BY <1>7, <1>8

\* Through plain paths the map and the set behave as a tree in which every call
\* is one step, whatever other spellings are used besides: the code keeps no
\* tree, and yet nothing is created outside a directory, no directory is
\* overwritten and touch leaves the content of a file alone.
THEOREM ImplementsATree == ShellSpec => ImplementsTree
  <1>1. FsInit => Tree!Init
    <2> SUFFICES ASSUME FsInit PROVE Tree!Init
      OBVIOUS
    <2>1. DOMAIN files = {} /\ dirs = {}
      BY DEF FsInit
    <2>2. PlacesOf({}) = {}
      BY DEF PlacesOf
    <2>3. TreeView = [q \in {<< >>} |-> "dir"]
      BY <2>1, <2>2, TreeIsView DEF View
    <2> QED
      BY <2>3 DEF Tree!Init
  <1>2. ASSUME FsInv, FsInv', [FsNext]_fsVars PROVE [Tree!Next]_TreeView
    <2>1. CASE FsNext
      BY <1>2, <2>1, MkdirTree, TouchTree, WriteTree, RemoveTree DEF FsNext
    <2>2. CASE UNCHANGED fsVars
      BY <2>2, TreeIsView DEF fsVars
    <2> QED
      BY <1>2, <2>1, <2>2
  <1> QED
    BY <1>1, <1>2, ShellRunsFs, FsInvariant, PTL DEF FsSpec, ImplementsTree, Tree!Spec

--------------------------------------------------------------------------------
(* alloc! and dealloc! as clients of the heap.                                 *)

\* A word is read as one number at most, which fits usize.
AtMostOne(S) == \A x \in S, y \in S : x = y
IsNumber(S) == AtMostOne(S) /\ S \subseteq 0 .. USIZE_MAX

LEMMA RadixNumber ==
    ASSUME NEW digits, NEW base
    PROVE  IsNumber(from_str_radix(digits, base))
  <1>1. PICK v : v = Value(digits, base)
    OBVIOUS
  <1>2. from_str_radix(digits, base) \subseteq {v} \cap 0 .. USIZE_MAX
    BY <1>1 DEF from_str_radix
  <1> QED
    BY <1>2 DEF IsNumber, AtMostOne

LEMMA WordNumber ==
    ASSUME NEW args, NEW i
    PROVE  IsNumber(number(args, i))
  <1>1. IsNumber({})
    BY DEF IsNumber, AtMostOne
  <1>2. \A w : IsNumber(parse(w))
    <2> TAKE w
    <2>1. IsNumber(from_str_radix(w.digits, 10))
      BY RadixNumber
    <2> QED
      BY <1>1, <2>1 DEF parse
  <1> QED
    BY <1>1, <1>2 DEF number

LEMMA WordAlignment ==
    ASSUME NEW args, NEW i
    PROVE  \A a \in alignment(args, i) : a \in 0 .. USIZE_MAX /\ a \in Nat /\ is_power_of_two(a)
  <1>1. CASE i <= Len(args)
    <2>1. PICK S : S = parse(args[i])
      OBVIOUS
    <2>2. IsNumber(S)
      <3>1. number(args, i) = S
        BY <1>1, <2>1 DEF number
      <3> QED
        BY <3>1, WordNumber
    <2>3. alignment(args, i) = {a \in S : is_power_of_two(a)}
      BY <1>1, <2>1 DEF alignment
    <2>4. S \subseteq 0 .. USIZE_MAX /\ S \subseteq Nat
      BY <2>2, ShellAssumption DEF IsNumber
    <2> QED
      BY <2>3, <2>4
  <1>2. CASE ~(i <= Len(args))
    <2>1. alignment(args, i) = {DEFAULT_ALIGN}
      BY <1>2 DEF alignment
    <2> QED
      BY <2>1, ShellAssumption
  <1> QED
    BY <1>1, <1>2

\* Layouts the shell makes of words: they are legal, and their size and alignment,
\* written out and read back, make them again.
TypedLayout(l) ==
    \E s, a \in 0 .. USIZE_MAX :
        /\ s > 0 /\ is_power_of_two(a) /\ s <= ISIZE_MAX - (a - 1)
        /\ l = [size |-> s, align |-> a]

LEMMA LayoutLegal ==
    ASSUME NEW args \in Lines, NEW l \in alloc_layout(args)
    PROVE  /\ l \in LegalLayouts /\ TypedLayout(l)
           /\ l.size \in Nat /\ l.size > 0 /\ l.align \in Nat
  <1>1. PICK s \in number(args, 1) \ {0}, a \in alignment(args, 2) : l \in from_size_align(s, a)
    BY DEF alloc_layout
  <1>2. s <= ISIZE_MAX - (a - 1) /\ l = [size |-> s, align |-> a]
    BY <1>1 DEF from_size_align
  <1>3. s \in 0 .. USIZE_MAX /\ s \in Nat /\ s > 0
    <2>1. s \in 0 .. USIZE_MAX /\ s # 0
      BY <1>1, WordNumber DEF IsNumber
    <2> QED
      BY <2>1, ShellAssumption
  <1>4. a \in 0 .. USIZE_MAX /\ a \in Nat /\ is_power_of_two(a)
    BY <1>1, WordAlignment, ShellAssumption
  <1>5. l.size = s /\ l.align = a
    BY <1>2
  <1>6. l \in LegalLayouts
    BY <1>3, <1>4, <1>5 DEF LegalLayouts
  <1>7. TypedLayout(l)
    BY <1>2, <1>3, <1>4 DEF TypedLayout
  <1> QED
    BY <1>3, <1>4, <1>5, <1>6, <1>7

\* The invariant: what is held has an address and a layout that can be written out
\* and read back, what was freed has an address, and for a careful user there are
\* no strays and what is held is what the contract allows.
HeapInv ==
    /\ careful \in BOOLEAN
    /\ careful => stray = {} /\ live \subseteq Heap!Allocations
    /\ \A x \in live : /\ x.addr \in 1 .. USIZE_MAX
                       /\ TypedLayout(x.layout)
                       /\ x = [addr |-> x.addr, layout |-> x.layout]
    /\ \A x \in stray : x.addr \in 1 .. USIZE_MAX

\* A number that was written out is read back.
LEMMA WordsReadBack ==
    ASSUME NEW n \in 0 .. USIZE_MAX
    PROVE  parse(Decimal(n)) = {n} /\ parse_ptr(Hexadecimal(n)) = {n}
  <1>1. from_str_radix(Digits(n, 10), 10) = {n} /\ from_str_radix(Digits(n, 16), 16) = {n}
    BY NumeralAssumption
  <1>2. Decimal(n).prefix = FALSE /\ Decimal(n).digits = Digits(n, 10)
    BY DEF Decimal, Numeral
  <1>3. Hexadecimal(n).digits = Digits(n, 16)
    BY DEF Hexadecimal, Numeral
  <1> QED
    BY <1>1, <1>2, <1>3 DEF parse, parse_ptr

DeallocLayouts(args) ==
    UNION {from_size_align(s, a) : s \in number(args, 2), a \in alignment(args, 3)}

\* What alloc! prints for a block names that block, in three words and, with the
\* default alignment, in two.
LEMMA HintNames ==
    ASSUME HeapInv, NEW x \in live
    PROVE  /\ dealloc_block(hint(x).args) = {x}
           /\ x.layout.align = DEFAULT_ALIGN =>
                dealloc_block(SubSeq(hint(x).args, 1, 2)) = {x}
  <1>1. PICK b \in 1 .. USIZE_MAX : b = x.addr
    BY DEF HeapInv
  <1>2. PICK s, a \in 0 .. USIZE_MAX :
            /\ is_power_of_two(a) /\ s <= ISIZE_MAX - (a - 1)
            /\ x.layout = [size |-> s, align |-> a]
    BY DEF HeapInv, TypedLayout
  <1>3. PICK l : l = x.layout /\ from_size_align(s, a) = {l} /\ x = [addr |-> b, layout |-> l]
    <2>1. from_size_align(s, a) = {[size |-> s, align |-> a]}
      BY <1>2 DEF from_size_align
    <2> QED
      BY <1>1, <1>2, <2>1 DEF HeapInv
  <1>4. x.layout.size = s /\ x.layout.align = a
    BY <1>2
  <1>5. PICK p, m, n : p = Hexadecimal(b) /\ m = Decimal(s) /\ n = Decimal(a)
    OBVIOUS
  <1>6. b \in 0 .. USIZE_MAX /\ b # 0
    BY <1>1, ShellAssumption
  <1>7. parse_ptr(p) = {b} /\ parse(m) = {s} /\ parse(n) = {a}
    BY <1>5, <1>6, WordsReadBack
  <1>8. hint(x).args = <<p, m, n>>
    BY <1>1, <1>4, <1>5 DEF hint
  <1>9. PICK w : w = <<p, m, n>>
    OBVIOUS
  <1>10. dealloc_block(w) = {x}
    <2>1. number(w, 2) = {s} /\ w # << >> /\ parse_ptr(w[1]) = {b}
      BY <1>7, <1>9 DEF number
    <2>2. alignment(w, 3) = {a}
      BY <1>2, <1>7, <1>9 DEF alignment
    <2>3. DeallocLayouts(w) = {l}
      <3>1. PICK N, A : N = number(w, 2) /\ A = alignment(w, 3)
        OBVIOUS
      <3>2. N = {s} /\ A = {a}
        BY <2>1, <2>2, <3>1
      <3>3. DeallocLayouts(w) = UNION {from_size_align(t, c) : t \in N, c \in A}
        BY <3>1 DEF DeallocLayouts
      <3> QED
        BY <1>3, <3>2, <3>3
    <2>4. dealloc_block(w) = {y \in [addr : {b}, layout : {l}] : y.addr # 0}
      BY <2>1, <2>3 DEF dealloc_block, DeallocLayouts
    <2>5. dealloc_block(w) = {[addr |-> b, layout |-> l]}
      BY <1>6, <2>4
    <2> QED
      BY <1>3, <2>5
  <1>11. PICK v : v = <<p, m>>
    OBVIOUS
  <1>12. ASSUME a = DEFAULT_ALIGN PROVE dealloc_block(v) = {x}
    <2>1. number(v, 2) = {s} /\ v # << >> /\ parse_ptr(v[1]) = {b}
      BY <1>7, <1>11 DEF number
    <2>2. alignment(v, 3) = {a}
      BY <1>11, <1>12 DEF alignment
    <2>3. DeallocLayouts(v) = {l}
      <3>1. PICK N, A : N = number(v, 2) /\ A = alignment(v, 3)
        OBVIOUS
      <3>2. N = {s} /\ A = {a}
        BY <2>1, <2>2, <3>1
      <3>3. DeallocLayouts(v) = UNION {from_size_align(t, c) : t \in N, c \in A}
        BY <3>1 DEF DeallocLayouts
      <3> QED
        BY <1>3, <3>2, <3>3
    <2>4. dealloc_block(v) = {y \in [addr : {b}, layout : {l}] : y.addr # 0}
      BY <2>1, <2>3 DEF dealloc_block, DeallocLayouts
    <2>5. dealloc_block(v) = {[addr |-> b, layout |-> l]}
      BY <1>6, <2>4
    <2> QED
      BY <1>3, <2>5
  <1>13. SubSeq(w, 1, 2) = v
    <2>1. w \in Seq({p, m, n}) /\ v \in Seq({p, m, n}) /\ Len(w) = 3 /\ Len(v) = 2
      BY <1>9, <1>11
    <2>2. /\ SubSeq(w, 1, 2) \in Seq({p, m, n}) /\ Len(SubSeq(w, 1, 2)) = 2
          /\ \A i \in 1 .. 2 : SubSeq(w, 1, 2)[i] = w[i]
      <3>1. \A i \in 1 .. 2 : w[i] \in {p, m, n}
        BY <1>9
      <3>2. /\ SubSeq(w, 1, 2) \in Seq({p, m, n})
            /\ Len(SubSeq(w, 1, 2)) = IF 1 <= 2 THEN 2 - 1 + 1 ELSE 0
            /\ \A i \in 1 .. 2 - 1 + 1 : SubSeq(w, 1, 2)[i] = w[1 + i - 1]
        BY <3>1, SubSeqProperties
      <3> QED
        BY <3>2
    <2>3. w[1] = v[1] /\ w[2] = v[2]
      BY <1>9, <1>11
    <2>4. \A i \in 1 .. 2 : SubSeq(w, 1, 2)[i] = v[i]
      BY <2>2, <2>3
    <2> QED
      BY <2>1, <2>2, <2>4, SeqEqual
  <1> QED
    BY <1>4, <1>8, <1>9, <1>10, <1>12, <1>13

\* What was advised names a block that is held.
LEMMA AdvisedNames ==
    ASSUME HeapInv, NEW args \in Advised
    PROVE  \E x \in live : dealloc_block(args) = {x}
  <1>1. PICK x \in live :
            \/ args = hint(x).args
            \/ x.layout.align = DEFAULT_ALIGN /\ args = SubSeq(hint(x).args, 1, 2)
    BY DEF Advised
  <1> QED
    BY <1>1, HintNames

\* alloc!: the heap returns what the contract allows as long as it was kept.
LEMMA AllocStep ==
    ASSUME HeapInv, NEW args \in Lines, alloc_cmd(args)
    PROVE  HeapInv' /\ (careful' => stray' = {} /\ Heap!Next)
  <1>1. PICK l \in alloc_layout(args) : \E x \in heap_alloc(l) : live' = live \cup {x}
    BY DEF alloc_cmd
  <1>2. PICK x \in heap_alloc(l) : live' = live \cup {x}
    BY <1>1
  <1>3. stray' = stray /\ careful' = careful
    BY DEF alloc_cmd
  <1>4. l \in LegalLayouts /\ TypedLayout(l) /\ l.size \in Nat /\ l.size > 0
    BY LayoutLegal
  <1>5. PICK n \in Nat : n = l.size /\ n > 0
    BY <1>4
  <1>6. CASE stray = {}
    <2>1. /\ x \in [addr : HEAP_START .. HEAP_START + HEAP_SIZE - n, layout : {l}]
          /\ x.addr % l.align = 0 /\ \A y \in live : Bytes(x) \cap Bytes(y) = {}
      BY <1>2, <1>5, <1>6 DEF heap_alloc
    <2>2. x.addr \in HEAP_START .. HEAP_START + HEAP_SIZE - n /\ x.layout = l
          /\ x = [addr |-> x.addr, layout |-> l]
      BY <2>1
    <2>3. PICK b \in Int : b = x.addr /\ b \in HEAP_START .. HEAP_START + HEAP_SIZE - n
      BY <2>2, ShellAssumption
    <2>4. /\ b \in HEAP_START .. HEAP_START + HEAP_SIZE - 1 /\ b + n <= HEAP_START + HEAP_SIZE
          /\ b \in 1 .. USIZE_MAX
      BY <1>5, <2>3, ShellAssumption
    <2>5. x \in Heap!Allocations
      BY <1>4, <2>2, <2>3, <2>4 DEF Heap!Allocations
    <2>6. Heap!Alloc(x)
      BY <1>2, <1>5, <2>1, <2>2, <2>3, <2>4 DEF Heap!Alloc, Heap!Bytes, Bytes
    <2>7. HeapInv'
      BY <1>2, <1>3, <1>4, <2>2, <2>3, <2>4, <2>5 DEF HeapInv, Heap!Allocations
    <2> QED
      BY <1>3, <1>6, <2>5, <2>6, <2>7 DEF Heap!Next
  <1>7. CASE stray # {}
    <2>1. x \in [addr : Addresses \cup {y.addr : y \in stray}, layout : {l}]
      BY <1>2, <1>7 DEF heap_alloc
    <2>2. x.addr \in Addresses \cup {y.addr : y \in stray} /\ x.layout = l
          /\ x = [addr |-> x.addr, layout |-> x.layout]
      BY <2>1
    <2>3. Addresses \subseteq 1 .. USIZE_MAX
      BY ShellAssumption DEF Addresses
    <2>4. x.addr \in 1 .. USIZE_MAX
      BY <2>2, <2>3 DEF HeapInv
    <2>5. ~careful
      BY <1>7 DEF HeapInv
    <2> QED
      BY <1>2, <1>3, <1>4, <2>2, <2>4, <2>5 DEF HeapInv
  <1> QED
    BY <1>6, <1>7

\* dealloc!: a careful user gives back one block that is held; any other makes
\* strays with an address.
LEMMA DeallocStep ==
    ASSUME HeapInv, NEW args, dealloc_cmd(args)
    PROVE  HeapInv' /\ (careful' => stray' = {} /\ Heap!Next)
  <1>1. PICK D : D = dealloc_block(args)
    OBVIOUS
  <1>2. live' = live \ D /\ stray' = stray \cup (D \ live) /\ careful' = (careful /\ args \in Advised)
    BY <1>1 DEF dealloc_cmd
  <1>3. \A x \in D : x.addr \in 1 .. USIZE_MAX
    <2> SUFFICES ASSUME NEW x \in D PROVE x.addr \in 1 .. USIZE_MAX
      OBVIOUS
    <2>1. PICK A, L : A = parse_ptr(args[1]) /\ L = DeallocLayouts(args)
      OBVIOUS
    <2>2. x \in [addr : A, layout : L] /\ x.addr # 0
      BY <1>1, <2>1 DEF dealloc_block, DeallocLayouts
    <2>3. PICK b : b = x.addr /\ b \in A /\ b # 0
      BY <2>2
    <2>4. A \subseteq 0 .. USIZE_MAX
      BY <2>1, RadixNumber DEF parse_ptr, IsNumber
    <2>5. b \in 1 .. USIZE_MAX
      BY <2>3, <2>4, ShellAssumption
    <2> QED
      BY <2>3, <2>5
  <1>4. CASE careful /\ args \in Advised
    <2>1. PICK x \in live : D = {x}
      BY <1>1, <1>4, AdvisedNames
    <2>2. live' = live \ {x} /\ stray' = {}
      BY <1>2, <1>4, <2>1 DEF HeapInv
    <2>3. x \in Heap!Allocations
      BY <1>4, <2>1 DEF HeapInv
    <2>4. Heap!Next
      BY <2>1, <2>2, <2>3 DEF Heap!Next, Heap!Dealloc
    <2>5. HeapInv'
      BY <1>2, <1>4, <2>2 DEF HeapInv, Heap!Allocations
    <2> QED
      BY <2>2, <2>4, <2>5
  <1>5. CASE ~(careful /\ args \in Advised)
    <2>1. careful' = FALSE
      BY <1>2, <1>5
    <2> QED
      BY <1>2, <1>3, <2>1 DEF HeapInv
  <1> QED
    BY <1>4, <1>5

LEMMA HeapStep ==
    ASSUME HeapInv, [ShellNext]_shellVars
    PROVE  /\ HeapInv'
           /\ UNCHANGED shellVars \/ (careful' => stray' = {} /\ (live' = live \/ Heap!Next))
  <1>1. CASE UNCHANGED heapVars
    <2>1. live' = live /\ stray' = stray /\ careful' = careful
      BY <1>1 DEF heapVars
    <2> QED
      BY <2>1 DEF HeapInv, Heap!Allocations
  <1>2. CASE \E args \in Lines : alloc_cmd(args)
    BY <1>2, AllocStep
  <1>3. CASE \E args \in FreeLines : dealloc_cmd(args)
    BY <1>3, DeallocStep
  <1>4. \/ UNCHANGED heapVars \/ \E args \in Lines : alloc_cmd(args)
        \/ \E args \in FreeLines : dealloc_cmd(args)
    BY DEF ShellNext, mkdir_cmd, touch_cmd, FileSystemCall, alloc_rejected, dealloc_rejected,
           unknown_command, shellVars
  <1> QED
    BY <1>1, <1>2, <1>3, <1>4

LEMMA HeapInvariant == ShellSpec => []HeapInv
  <1>1. ShellInit => HeapInv
    BY DEF ShellInit, HeapInv
  <1>2. HeapInv /\ [ShellNext]_shellVars => HeapInv'
    BY HeapStep
  <1> QED
    BY <1>1, <1>2, PTL DEF ShellSpec

\* The words alloc! prints, typed behind dealloc!, name exactly the block they were
\* printed for, with its layout, as long as it is held: whatever else was typed,
\* for every word size, heap and default alignment.
THEOREM HintWordsName == ShellSpec => []HintWordsFree
  <1>1. HeapInv => HintWordsFree
    BY HintNames DEF HintWordsFree
  <1> QED
    BY <1>1, HeapInvariant, PTL

\* A user who frees only what alloc! printed and what is still held, by the printed
\* words, keeps to the contract of the heap whatever is typed after alloc!: a size
\* above zero, an alignment that is a power of two, one block at a time, nothing
\* freed that was not held.
THEOREM ShellUsesHeapLegally == ShellSpec => UsesHeapLegally
  <1>1. HeapInv /\ [ShellNext]_shellVars
          => [careful' => stray' = {} /\ (live' = live \/ Heap!Next)]_shellVars
    BY HeapStep
  <1> QED
    BY <1>1, HeapInvariant, PTL DEF ShellSpec, UsesHeapLegally
================================================================================
