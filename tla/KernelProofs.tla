----------------------------- MODULE KernelProofs ------------------------------
(***************************************************************************)
(* Theorems about the kernel as a whole, for every set of machines,        *)
(* firmwares and commands.                                                 *)
(*                                                                         *)
(* What a context has still to do is a list of operations, to which steps  *)
(* add others in front.  The proofs describe a list by what is true before *)
(* and after each of its operations, the way a program is described by     *)
(* assertions between its statements: which locks the context holds,       *)
(* whether interrupts are on while it runs, what it has got done, whether  *)
(* the interrupt was ended.  `Does` is the rule of one operation, `Runs`   *)
(* that of a list; lists are put together with Cat.                        *)
(***************************************************************************)
EXTENDS Kernel, SequenceTheorems, TLAPS

Parts == {"console", "gdt", "idt", "pic", "heap"}

\* What else a context gets done: the boot code has found the tables readable, and
\* has stored what they say; a handler that reboots has tried the register.
Marks == {"acpi", "stored", "tried"}

\* What is known of a context between two of its operations.
Facts == [held : SUBSET Locks, on : BOOLEAN, set : SUBSET (Parts \cup Marks), served : BOOLEAN, ended : BOOLEAN]

\* A context that has nothing to do, one that begins, and a handler that begins.
Idle == [held |-> {}, on |-> FALSE, set |-> {}, served |-> TRUE, ended |-> TRUE]
Fresh == [held |-> {}, on |-> FALSE, set |-> {}, served |-> TRUE, ended |-> FALSE]
Entered == [held |-> {}, on |-> FALSE, set |-> {}, served |-> FALSE, ended |-> FALSE]
WithKey == [held |-> {"KEYBOARD"}, on |-> FALSE, set |-> {}, served |-> FALSE, ended |-> FALSE]

Take(a, l) == [a EXCEPT !.held = a.held \cup {l}]
Drop(a, l) == [a EXCEPT !.held = a.held \ {l}]
Masked(a) == [a EXCEPT !.on = FALSE]
Unmasked(a) == [a EXCEPT !.on = TRUE]
Having(a, part) == [a EXCEPT !.set = a.set \cup {part}]
Without(a, part) == [a EXCEPT !.set = a.set \ {part}]
Served(a) == [a EXCEPT !.served = TRUE]

\* Operations that change none of these facts, once what they add to the list is
\* done; and operations behind which nothing of the list is ever done.
Quiet ==
    {"serial", "print", "maybe_print", "int3", "toggle_serial", "fb_init", "kmem_init"}
Last == {"hlt", "loop", "exit_qemu", "panic"}

OpNames ==
    Quiet \cup Last \cup {"lock", "unlock", "alloc", "cli", "sti", "console_init", "gdt_init",
                         "idt_init", "pic_init", "heap_init", "acpi_init", "store",
                         "reset_reg", "pulse_8042", "triple_fault", "key", "eoi", "iret"}
Ops == [op : OpNames, of : Locks \cup {"", "panic", "print"}]

LockRule(c, l, a) ==
    /\ l \in Locks /\ l \notin a.held
    /\ c = "main" => l # "KEYBOARD"
    /\ c = "nmi" => l = "SERIAL"
    /\ a.on => l \in {"HEAP", "FS"}

\* Context c may do o where a holds, and then b holds.
Does(c, o, a, b) ==
    /\ a.ended = FALSE
    /\ \/ o.op \in Quiet /\ "SERIAL" \notin a.held /\ b = a
       \/ o.op \in Last /\ "SERIAL" \notin a.held
       \/ o.op = "lock" /\ LockRule(c, o.of, a) /\ b = Take(a, o.of)
       \/ o.op = "unlock" /\ o.of \in a.held /\ b = Drop(a, o.of)
       \/ /\ o.op = "alloc" /\ o.of \in {"panic", "print"}
          /\ "HEAP" \in a.held /\ "SERIAL" \notin a.held /\ b = Drop(a, "HEAP")
       \/ o.op = "cli" /\ b = Masked(a)
       \/ /\ o.op = "sti" /\ c = "main" /\ "idt" \in a.set /\ "pic" \in a.set
          /\ "SERIAL" \notin a.held /\ "PICS" \notin a.held /\ b = Unmasked(a)
       \/ o.op = "console_init" /\ c = "main" /\ b = Having(a, "console")
       \/ o.op = "gdt_init" /\ c = "main" /\ b = Having(a, "gdt")
       \/ o.op = "idt_init" /\ c = "main" /\ b = Having(a, "idt")
       \/ o.op = "pic_init" /\ c = "main" /\ b = Having(a, "pic")
       \/ o.op = "heap_init" /\ c = "main" /\ "stored" \in a.set /\ b = Having(a, "heap")
       \/ /\ o.op = "acpi_init" /\ c = "main" /\ "SERIAL" \notin a.held
          /\ b = Having(Having(a, "acpi"), "stored")
       \/ /\ o.op = "store" /\ c = "main" /\ "acpi" \in a.set /\ "SERIAL" \notin a.held
          /\ b = Having(a, "stored")
       \/ /\ o.op = "reset_reg" /\ c = "irq" /\ "tried" \notin a.set /\ "SERIAL" \notin a.held
          /\ b = a
       \/ o.op = "pulse_8042" /\ c = "irq" /\ "tried" \in a.set /\ b = a
       \/ o.op = "triple_fault" /\ c = "irq" /\ "tried" \in a.set /\ b = Without(a, "tried")
       \/ o.op = "key" /\ c = "irq" /\ a = WithKey /\ b = Idle
       \/ o.op = "eoi" /\ c = "irq" /\ "PICS" \in a.held /\ b = Served(a)
       \/ o.op = "iret" /\ c = "irq" /\ a = Fresh /\ b = Idle

\* The list s leads from a to b.
Runs(c, s, a, b) ==
    /\ s \in Seq(Ops) /\ a \in Facts /\ b \in Facts
    /\ \E lab \in [1 .. Len(s) + 1 -> Facts] :
        /\ lab[1] = a /\ lab[Len(s) + 1] = b
        /\ \A i \in 1 .. Len(s) : Does(c, s[i], lab[i], lab[i + 1])

--------------------------------------------------------------------------------
(* Lists *)

(***************************************************************************)
(* The empty list changes nothing.                                         *)
(***************************************************************************)
LEMMA None ==
    ASSUME NEW c
    PROVE  /\ \A a \in Facts : Runs(c, << >>, a, a)
           /\ \A a, b : Runs(c, << >>, a, b) => a = b
  <1>1. ASSUME NEW a \in Facts PROVE Runs(c, << >>, a, a)
    <2> DEFINE lab == [i \in 1 .. 1 |-> a]
    <2>1. Len(<< >>) = 0 /\ << >> \in Seq(Ops) /\ lab \in [1 .. 0 + 1 -> Facts] /\ lab[1] = a /\ 0 + 1 = 1
      OBVIOUS
    <2> HIDE DEF lab
    <2>2. 1 .. 0 = {}
      OBVIOUS
    <2> QED
      BY <2>1, <2>2 DEF Runs
  <1>2. ASSUME NEW a, NEW b, Runs(c, << >>, a, b) PROVE a = b
    <2>1. Len(<< >>) = 0
      OBVIOUS
    <2> QED
      BY <1>2, <2>1 DEF Runs
  <1> QED
    BY <1>1, <1>2

(***************************************************************************)
(* A list of one operation does what the operation does.                   *)
(***************************************************************************)
LEMMA One ==
    ASSUME NEW c, NEW o \in Ops, NEW a \in Facts, NEW b \in Facts, Does(c, o, a, b)
    PROVE  Runs(c, <<o>>, a, b)
  <1> DEFINE lab == [i \in 1 .. 2 |-> IF i = 1 THEN a ELSE b]
  <1>1. Len(<<o>>) = 1 /\ <<o>> \in Seq(Ops) /\ <<o>>[1] = o
    OBVIOUS
  <1>2. lab \in [1 .. 1 + 1 -> Facts] /\ lab[1] = a /\ lab[1 + 1] = b
    OBVIOUS
  <1> HIDE DEF lab
  <1>3. \A i \in 1 .. 1 : i = 1
    OBVIOUS
  <1> QED
    BY <1>1, <1>2, <1>3 DEF Runs

(***************************************************************************)
(* Two lists, one after the other.                                         *)
(***************************************************************************)
LEMMA Cat ==
    ASSUME NEW c, NEW s, NEW t, NEW a, NEW b, NEW d, Runs(c, s, a, b), Runs(c, t, b, d)
    PROVE  Runs(c, s \o t, a, d)
  <1>0. s \in Seq(Ops) /\ t \in Seq(Ops) /\ a \in Facts /\ b \in Facts /\ d \in Facts
    BY DEF Runs
  <1>1. PICK p \in [1 .. Len(s) + 1 -> Facts] :
            p[1] = a /\ p[Len(s) + 1] = b /\ \A i \in 1 .. Len(s) : Does(c, s[i], p[i], p[i + 1])
    BY DEF Runs
  <1>2. PICK q \in [1 .. Len(t) + 1 -> Facts] :
            q[1] = b /\ q[Len(t) + 1] = d /\ \A i \in 1 .. Len(t) : Does(c, t[i], q[i], q[i + 1])
    BY DEF Runs
  <1>3. PICK m \in Nat : m = Len(s)
    BY <1>0
  <1>4. PICK n \in Nat : n = Len(t)
    BY <1>0
  <1>5. PICK u \in Seq(Ops) : u = s \o t
    BY <1>0, ConcatProperties
  <1>6. Len(u) = m + n /\ (\A i \in 1 .. m : u[i] = s[i]) /\ \A i \in m + 1 .. m + n : u[i] = t[i - m]
    <2>1. Len(u) = Len(s) + Len(t) /\ \A i \in 1 .. Len(s) + Len(t) : u[i] = IF i <= Len(s) THEN s[i] ELSE t[i - Len(s)]
      BY <1>0, <1>5, ConcatProperties
    <2> QED
      BY <1>3, <1>4, <2>1
  <1> DEFINE lab == [i \in 1 .. (m + n) + 1 |-> IF i <= m + 1 THEN p[i] ELSE q[i - m]]
  <1>7. lab \in [1 .. Len(u) + 1 -> Facts]
    <2>1. \A i \in 1 .. (m + n) + 1 : ~(i <= m + 1) => i - m \in 1 .. n + 1
      OBVIOUS
    <2>2. \A i \in 1 .. (m + n) + 1 : i <= m + 1 => i \in 1 .. m + 1
      OBVIOUS
    <2> QED
      BY <1>1, <1>2, <1>3, <1>4, <1>6, <2>1, <2>2
  <1>8. lab[1] = a
    BY <1>1
  <1>9. lab[Len(u) + 1] = d
    <2>1. CASE n = 0
      BY <1>1, <1>2, <1>3, <1>4, <1>6, <2>1
    <2>2. CASE n > 0
      <3>1. (m + n) + 1 \in 1 .. (m + n) + 1 /\ ~((m + n) + 1 <= m + 1) /\ ((m + n) + 1) - m = n + 1
        BY <2>2
      <3> QED
        BY <1>2, <1>4, <1>6, <3>1
    <2> QED
      BY <2>1, <2>2
  <1>10. ASSUME NEW i \in 1 .. Len(u) PROVE Does(c, u[i], lab[i], lab[i + 1])
    <2>1. CASE i <= m
      <3>1. i \in 1 .. m /\ lab[i] = p[i] /\ lab[i + 1] = p[i + 1]
        BY <1>6, <2>1
      <3> HIDE DEF lab
      <3> QED
        BY <1>1, <1>3, <1>6, <3>1
    <2>2. CASE ~(i <= m)
      <3>1. i \in m + 1 .. m + n /\ i - m \in 1 .. n /\ (i + 1) - m = (i - m) + 1
        BY <1>6, <2>2
      <3>2. lab[i + 1] = q[(i - m) + 1]
        BY <1>6, <3>1
      <3>3. lab[i] = q[i - m]
        <4>1. CASE i = m + 1
          <5>1. lab[i] = p[m + 1] /\ i - m = 1
            BY <4>1, <3>1
          <5> HIDE DEF lab
          <5> QED
            BY <1>1, <1>2, <1>3, <5>1
        <4>2. CASE i # m + 1
          BY <3>1, <4>2
        <4> QED
          BY <4>1, <4>2
      <3> HIDE DEF lab
      <3>4. u[i] = t[i - m]
        BY <1>6, <3>1
      <3>5. Does(c, t[i - m], q[i - m], q[(i - m) + 1])
        BY <1>2, <1>4, <3>1
      <3> QED
        BY <3>2, <3>3, <3>4, <3>5
    <2> QED
      BY <2>1, <2>2
  <1> HIDE DEF lab
  <1> QED
    BY <1>0, <1>5, <1>7, <1>8, <1>9, <1>10 DEF Runs

(***************************************************************************)
(* A list that is not empty does its first operation and then the others.  *)
(***************************************************************************)
LEMMA First ==
    ASSUME NEW c, NEW s, NEW a, NEW b, Runs(c, s, a, b), s # << >>
    PROVE  /\ Head(s) \in Ops
           /\ \E m \in Facts : Does(c, Head(s), a, m) /\ Runs(c, Tail(s), m, b)
  <1>0. s \in Seq(Ops) /\ a \in Facts /\ b \in Facts
    BY DEF Runs
  <1>1. PICK p \in [1 .. Len(s) + 1 -> Facts] :
            p[1] = a /\ p[Len(s) + 1] = b /\ \A i \in 1 .. Len(s) : Does(c, s[i], p[i], p[i + 1])
    BY DEF Runs
  <1>2. PICK n \in Nat : n = Len(s)
    BY <1>0
  <1>3. PICK t \in Seq(Ops) : t = Tail(s)
    BY <1>0, HeadTailProperties
  <1>3a. Head(s) = s[1] /\ Len(s) # 0 /\ s[1] \in Ops
    BY <1>0
  <1>4. n >= 1 /\ Len(t) = n - 1 /\ Head(s) = s[1] /\ Head(s) \in Ops /\ \A i \in 1 .. n - 1 : t[i] = s[i + 1]
    <2>1. n >= 1
      BY <1>2, <1>3a
    <2>2. Len(t) = n - 1 /\ \A i \in 1 .. n - 1 : t[i] = s[i + 1]
      BY <1>0, <1>2, <1>3, HeadTailProperties
    <2> QED
      BY <1>3a, <2>1, <2>2
  <1>5. Does(c, Head(s), a, p[2]) /\ p[2] \in Facts
    <2>1. 1 \in 1 .. n /\ 1 + 1 = 2 /\ 2 \in 1 .. n + 1
      BY <1>4
    <2> QED
      BY <1>1, <1>2, <1>4, <2>1
  <1> DEFINE q == [i \in 1 .. (n - 1) + 1 |-> p[i + 1]]
  <1>6. q \in [1 .. Len(t) + 1 -> Facts]
    <2>1. \A i \in 1 .. (n - 1) + 1 : i + 1 \in 1 .. n + 1
      BY <1>4
    <2> QED
      BY <1>1, <1>2, <1>4, <2>1
  <1>7. q[1] = p[2] /\ q[Len(t) + 1] = b
    <2>1. 1 \in 1 .. (n - 1) + 1 /\ Len(t) + 1 \in 1 .. (n - 1) + 1 /\ (Len(t) + 1) + 1 = n + 1 /\ 1 + 1 = 2
      BY <1>4
    <2>2. q[1] = p[1 + 1] /\ q[Len(t) + 1] = p[(Len(t) + 1) + 1]
      BY <2>1
    <2> QED
      BY <1>1, <1>2, <2>1, <2>2
  <1>8. ASSUME NEW i \in 1 .. Len(t) PROVE Does(c, t[i], q[i], q[i + 1])
    <2>1. i + 1 \in 1 .. n /\ i \in 1 .. (n - 1) + 1 /\ i + 1 \in 1 .. (n - 1) + 1 /\ i \in 1 .. n - 1
      BY <1>4
    <2>2. q[i] = p[i + 1] /\ q[i + 1] = p[(i + 1) + 1] /\ t[i] = s[i + 1]
      BY <1>4, <2>1
    <2> HIDE DEF q
    <2>3. Does(c, s[i + 1], p[i + 1], p[(i + 1) + 1])
      BY <1>1, <1>2, <2>1
    <2> QED
      BY <2>2, <2>3
  <1> HIDE DEF q
  <1>9. Runs(c, t, p[2], b)
    BY <1>0, <1>3, <1>5, <1>6, <1>7, <1>8 DEF Runs
  <1> QED
    BY <1>3, <1>4, <1>5, <1>9

(***************************************************************************)
(* Lists of two and of three operations.                                   *)
(***************************************************************************)
LEMMA Two ==
    ASSUME NEW c, NEW o \in Ops, NEW p \in Ops, NEW a \in Facts, NEW b \in Facts, NEW d \in Facts,
           Does(c, o, a, b), Does(c, p, b, d)
    PROVE  Runs(c, <<o, p>>, a, d)
  <1> DEFINE lab == [i \in 1 .. 3 |-> IF i = 1 THEN a ELSE IF i = 2 THEN b ELSE d]
  <1>1. Len(<<o, p>>) = 2 /\ <<o, p>> \in Seq(Ops) /\ <<o, p>>[1] = o /\ <<o, p>>[2] = p
    OBVIOUS
  <1>2. lab \in [1 .. 2 + 1 -> Facts] /\ lab[1] = a /\ lab[1 + 1] = b /\ lab[2] = b /\ lab[2 + 1] = d
    OBVIOUS
  <1> HIDE DEF lab
  <1>3. \A i \in 1 .. 2 : i = 1 \/ i = 2
    OBVIOUS
  <1> QED
    BY <1>1, <1>2, <1>3 DEF Runs

LEMMA Three ==
    ASSUME NEW c, NEW o \in Ops, NEW p \in Ops, NEW q \in Ops,
           NEW a \in Facts, NEW b \in Facts, NEW d \in Facts, NEW e \in Facts,
           Does(c, o, a, b), Does(c, p, b, d), Does(c, q, d, e)
    PROVE  Runs(c, <<o, p, q>>, a, e)
  <1> DEFINE lab == [i \in 1 .. 4 |-> IF i = 1 THEN a ELSE IF i = 2 THEN b ELSE IF i = 3 THEN d ELSE e]
  <1>1. /\ Len(<<o, p, q>>) = 3 /\ <<o, p, q>> \in Seq(Ops)
        /\ <<o, p, q>>[1] = o /\ <<o, p, q>>[2] = p /\ <<o, p, q>>[3] = q
    OBVIOUS
  <1>2. /\ lab \in [1 .. 3 + 1 -> Facts] /\ lab[1] = a /\ lab[1 + 1] = b /\ lab[2] = b
        /\ lab[2 + 1] = d /\ lab[3] = d /\ lab[3 + 1] = e
    OBVIOUS
  <1> HIDE DEF lab
  <1>3. \A i \in 1 .. 3 : i = 1 \/ i = 2 \/ i = 3
    OBVIOUS
  <1> QED
    BY <1>1, <1>2, <1>3 DEF Runs

LEMMA OneAndThree ==
    ASSUME NEW o \in Ops, NEW p \in Ops, NEW q \in Ops, NEW r \in Ops
    PROVE  <<o>> \o <<p, q, r>> = <<o, p, q, r>>
  <1>a. Len(<<o>>) = 1 /\ <<o>> \in Seq(Ops) /\ <<o>>[1] = o
    OBVIOUS
  <1>b. /\ Len(<<p, q, r>>) = 3 /\ <<p, q, r>> \in Seq(Ops)
        /\ <<p, q, r>>[1] = p /\ <<p, q, r>>[2] = q /\ <<p, q, r>>[3] = r
    OBVIOUS
  <1>c. /\ Len(<<o, p, q, r>>) = 4 /\ <<o, p, q, r>> \in Seq(Ops) /\ <<o, p, q, r>>[1] = o
        /\ <<o, p, q, r>>[2] = p /\ <<o, p, q, r>>[3] = q /\ <<o, p, q, r>>[4] = r
    OBVIOUS
  <1>1. PICK s \in Seq(Ops) : s = <<o>> /\ Len(s) = 1 /\ s[1] = o
    BY <1>a
  <1>2. PICK t \in Seq(Ops) : t = <<p, q, r>> /\ Len(t) = 3 /\ t[1] = p /\ t[2] = q /\ t[3] = r
    BY <1>b
  <1>3. PICK v \in Seq(Ops) : /\ v = <<o, p, q, r>> /\ Len(v) = 4
                              /\ v[1] = o /\ v[2] = p /\ v[3] = q /\ v[4] = r
    BY <1>c
  <1>4. PICK u \in Seq(Ops) : u = s \o t
    BY ConcatProperties
  <1>5. Len(u) = Len(s) + Len(t) /\ \A i \in 1 .. Len(s) + Len(t) : u[i] = IF i <= Len(s) THEN s[i] ELSE t[i - Len(s)]
    BY <1>4, ConcatProperties
  <1>6. Len(u) = 4 /\ \A i \in 1 .. 4 : u[i] = IF i <= 1 THEN s[i] ELSE t[i - 1]
    BY <1>1, <1>2, <1>5
  <1>7. u[1] = o /\ u[2] = p /\ u[3] = q /\ u[4] = r
    BY <1>1, <1>2, <1>6
  <1>8. \A i \in 1 .. 4 : i = 1 \/ i = 2 \/ i = 3 \/ i = 4
    OBVIOUS
  <1>9. Len(u) = Len(v) /\ \A i \in 1 .. Len(u) : u[i] = v[i]
    BY <1>3, <1>6, <1>7, <1>8
  <1>10. u = v
    BY <1>9, SeqEqual
  <1> QED
    BY <1>1, <1>2, <1>3, <1>4, <1>10

--------------------------------------------------------------------------------
(* Facts *)

(***************************************************************************)
(* Facts are what they say of the five things.                             *)
(***************************************************************************)
LEMMA FactFields ==
    ASSUME NEW a \in Facts
    PROVE  /\ a.held \subseteq Locks /\ a.set \subseteq Parts \cup Marks
           /\ a.on = TRUE \/ a.on = FALSE
  <1>1. a.held \subseteq Locks /\ a.set \subseteq Parts \cup Marks
    BY DEF Facts
  <1>2. a.on \in BOOLEAN
    BY DEF Facts
  <1>3. a.on = TRUE \/ a.on = FALSE
    BY <1>2
  <1> QED
    BY <1>1, <1>3

LEMMA Same ==
    ASSUME NEW a \in Facts, NEW b \in Facts, a.held = b.held, a.on = b.on, a.set = b.set,
           a.served = b.served, a.ended = b.ended
    PROVE  a = b
  BY DEF Facts

LEMMA FixedFacts ==
    /\ Idle \in Facts /\ Fresh \in Facts /\ Entered \in Facts /\ WithKey \in Facts
    /\ Idle.held = {} /\ Idle.on = FALSE /\ Idle.set = {} /\ Idle.served = TRUE /\ Idle.ended = TRUE
    /\ Fresh.held = {} /\ Fresh.on = FALSE /\ Fresh.set = {} /\ Fresh.served = TRUE /\ Fresh.ended = FALSE
    /\ Entered.held = {} /\ Entered.on = FALSE /\ Entered.set = {} /\ Entered.served = FALSE /\ Entered.ended = FALSE
    /\ WithKey.held = {"KEYBOARD"} /\ WithKey.on = FALSE /\ WithKey.set = {} /\ WithKey.served = FALSE /\ WithKey.ended = FALSE
  BY DEF Facts, Idle, Fresh, Entered, WithKey, Locks

LEMMA TakeFacts ==
    ASSUME NEW a \in Facts, NEW l \in Locks
    PROVE  /\ Take(a, l) \in Facts /\ Take(a, l).held = a.held \cup {l}
           /\ Take(a, l).on = a.on /\ Take(a, l).set = a.set
           /\ Take(a, l).served = a.served /\ Take(a, l).ended = a.ended
  BY DEF Facts, Take

LEMMA DropFacts ==
    ASSUME NEW a \in Facts, NEW l
    PROVE  /\ Drop(a, l) \in Facts /\ Drop(a, l).held = a.held \ {l}
           /\ Drop(a, l).on = a.on /\ Drop(a, l).set = a.set
           /\ Drop(a, l).served = a.served /\ Drop(a, l).ended = a.ended
  BY DEF Facts, Drop

LEMMA MaskFacts ==
    ASSUME NEW a \in Facts
    PROVE  /\ Masked(a) \in Facts /\ Masked(a).held = a.held /\ Masked(a).on = FALSE
           /\ Masked(a).set = a.set /\ Masked(a).served = a.served /\ Masked(a).ended = a.ended
           /\ Unmasked(a) \in Facts /\ Unmasked(a).held = a.held /\ Unmasked(a).on = TRUE
           /\ Unmasked(a).set = a.set /\ Unmasked(a).served = a.served /\ Unmasked(a).ended = a.ended
           /\ Served(a) \in Facts /\ Served(a).held = a.held /\ Served(a).on = a.on
           /\ Served(a).set = a.set /\ Served(a).served = TRUE /\ Served(a).ended = a.ended
  BY DEF Facts, Masked, Unmasked, Served

LEMMA HavingFacts ==
    ASSUME NEW a \in Facts, NEW p \in Parts \cup Marks
    PROVE  /\ Having(a, p) \in Facts /\ Having(a, p).set = a.set \cup {p}
           /\ Having(a, p).held = a.held /\ Having(a, p).on = a.on
           /\ Having(a, p).served = a.served /\ Having(a, p).ended = a.ended
  BY DEF Facts, Having

LEMMA WithoutFacts ==
    ASSUME NEW a \in Facts, NEW p
    PROVE  /\ Without(a, p) \in Facts /\ Without(a, p).set = a.set \ {p}
           /\ Without(a, p).held = a.held /\ Without(a, p).on = a.on
           /\ Without(a, p).served = a.served /\ Without(a, p).ended = a.ended
  BY DEF Facts, Without

(***************************************************************************)
(* Dropping a lock undoes taking it; unmasking undoes masking; a mark can  *)
(* be taken back.                                                          *)
(***************************************************************************)
LEMMA Undone ==
    ASSUME NEW a \in Facts
    PROVE  /\ \A l \in Locks : l \notin a.held => Drop(Take(a, l), l) = a
           /\ a.on = TRUE => Unmasked(Masked(a)) = a
           /\ a.on = FALSE => Masked(a) = a
           /\ "tried" \notin a.set => Without(Having(a, "tried"), "tried") = a
  <1>1. ASSUME NEW l \in Locks, l \notin a.held PROVE Drop(Take(a, l), l) = a
    <2>1. PICK t \in Facts : t = Take(a, l)
      BY TakeFacts
    <2>2. t.held = a.held \cup {l} /\ t.on = a.on /\ t.set = a.set /\ t.served = a.served /\ t.ended = a.ended
      BY <2>1, TakeFacts
    <2>3. /\ Drop(t, l) \in Facts /\ Drop(t, l).held = a.held /\ Drop(t, l).on = a.on /\ Drop(t, l).set = a.set
          /\ Drop(t, l).served = a.served /\ Drop(t, l).ended = a.ended
      <3>1. t.held \ {l} = a.held
        BY <1>1, <2>2
      <3> QED
        BY <2>2, <3>1, DropFacts
    <2> QED
      BY <2>1, <2>3, Same
  <1>2. ASSUME a.on = TRUE PROVE Unmasked(Masked(a)) = a
    <2>1. PICK t \in Facts : t = Masked(a)
      BY MaskFacts
    <2>2. t.held = a.held /\ t.set = a.set /\ t.served = a.served /\ t.ended = a.ended
      BY <2>1, MaskFacts
    <2>3. /\ Unmasked(t) \in Facts /\ Unmasked(t).held = a.held /\ Unmasked(t).on = a.on
          /\ Unmasked(t).set = a.set /\ Unmasked(t).served = a.served /\ Unmasked(t).ended = a.ended
      BY <1>2, <2>2, MaskFacts
    <2> QED
      BY <2>1, <2>3, Same
  <1>3. ASSUME a.on = FALSE PROVE Masked(a) = a
    <2>1. /\ Masked(a) \in Facts /\ Masked(a).held = a.held /\ Masked(a).on = a.on
          /\ Masked(a).set = a.set /\ Masked(a).served = a.served /\ Masked(a).ended = a.ended
      BY <1>3, MaskFacts
    <2> QED
      BY <2>1, Same
  <1>4. ASSUME "tried" \notin a.set PROVE Without(Having(a, "tried"), "tried") = a
    <2>0. "tried" \in Parts \cup Marks
      BY DEF Marks
    <2>1. /\ Having(a, "tried") \in Facts /\ Having(a, "tried").set = a.set \cup {"tried"}
          /\ Having(a, "tried").held = a.held /\ Having(a, "tried").on = a.on
          /\ Having(a, "tried").served = a.served /\ Having(a, "tried").ended = a.ended
      BY <2>0, HavingFacts
    <2>2. PICK t \in Facts : /\ t = Having(a, "tried") /\ t.set = a.set \cup {"tried"}
                             /\ t.held = a.held /\ t.on = a.on /\ t.served = a.served /\ t.ended = a.ended
      BY <2>1
    <2>3. t.set \ {"tried"} = a.set
      BY <1>4, <2>2
    <2>4. /\ Without(t, "tried") \in Facts /\ Without(t, "tried").set = a.set
          /\ Without(t, "tried").held = a.held /\ Without(t, "tried").on = a.on
          /\ Without(t, "tried").served = a.served /\ Without(t, "tried").ended = a.ended
      BY <2>2, <2>3, WithoutFacts, ZenonT(60)
    <2> QED
      BY <2>2, <2>4, Same
  <1> QED
    BY <1>1, <1>2, <1>3, <1>4

(***************************************************************************)
(* The operations are operations.                                          *)
(***************************************************************************)
LEMMA OpsOf ==
    /\ \A o \in OpNames : Op(o) \in Ops /\ Op(o).op = o
    /\ \A l \in Locks : Lock(l) \in Ops /\ Lock(l).op = "lock" /\ Lock(l).of = l
    /\ \A l \in Locks : Unlock(l) \in Ops /\ Unlock(l).op = "unlock" /\ Unlock(l).of = l
  <1>1. \A o \in OpNames : Op(o) \in Ops /\ Op(o).op = o
    BY DEF Op, Ops
  <1>2. "lock" \in OpNames /\ "unlock" \in OpNames
    BY DEF OpNames
  <1>3. \A l \in Locks : Lock(l) \in Ops /\ Lock(l).op = "lock" /\ Lock(l).of = l
    BY <1>2 DEF Lock, Ops
  <1>4. \A l \in Locks : Unlock(l) \in Ops /\ Unlock(l).op = "unlock" /\ Unlock(l).of = l
    BY <1>2 DEF Unlock, Ops
  <1> QED
    BY <1>1, <1>3, <1>4

--------------------------------------------------------------------------------
(* The functions of the code *)

\* Where a message may be printed: the serial port is not locked by this context.
MayPrint(a) == a \in Facts /\ a.ended = FALSE /\ "SERIAL" \notin a.held

(***************************************************************************)
(* Quiet operations, last operations, and prints.                          *)
(***************************************************************************)
LEMMA QuietOp ==
    ASSUME NEW c, NEW a, MayPrint(a)
    PROVE  \A o \in Quiet : Runs(c, <<Op(o)>>, a, a)
  <1> SUFFICES ASSUME NEW o \in Quiet PROVE Runs(c, <<Op(o)>>, a, a)
    OBVIOUS
  <1>1. PICK x \in Ops : x = Op(o) /\ x.op = o
    BY OpsOf DEF OpNames
  <1>2. a \in Facts /\ Does(c, x, a, a)
    BY <1>1 DEF MayPrint, Does
  <1> QED
    BY <1>1, <1>2, One

LEMMA LastOp ==
    ASSUME NEW c, NEW a, MayPrint(a), NEW b \in Facts
    PROVE  \A o \in Last : Runs(c, <<Op(o)>>, a, b)
  <1> SUFFICES ASSUME NEW o \in Last PROVE Runs(c, <<Op(o)>>, a, b)
    OBVIOUS
  <1>1. PICK x \in Ops : x = Op(o) /\ x.op = o
    BY OpsOf DEF OpNames
  <1>2. a \in Facts /\ Does(c, x, a, b)
    BY <1>1 DEF MayPrint, Does
  <1> QED
    BY <1>1, <1>2, One

LEMMA Prints ==
    ASSUME NEW c, NEW a, MayPrint(a)
    PROVE  /\ Runs(c, serial, a, a) /\ Runs(c, print, a, a) /\ Runs(c, << >>, a, a)
           /\ Runs(c, breakpoint_handler, a, a)
  <1>1. Runs(c, serial, a, a)
    BY QuietOp DEF serial, Quiet
  <1>2. Runs(c, print, a, a)
    BY QuietOp DEF print, Quiet
  <1>3. Runs(c, << >>, a, a)
    BY None DEF MayPrint
  <1>4. Runs(c, serial \o print, a, a)
    BY <1>1, <1>2, Cat
  <1> QED
    BY <1>1, <1>2, <1>3, <1>4 DEF breakpoint_handler

(***************************************************************************)
(* What runs after a panic and after an exception never comes back.        *)
(***************************************************************************)
LEMMA Panics ==
    ASSUME NEW c, NEW a, MayPrint(a), NEW b \in Facts
    PROVE  Runs(c, panic, a, b) /\ Runs(c, fatal_exception, Masked(a), b) /\ Runs(c, <<Op("panic")>>, a, b)
  <1>1. Runs(c, <<Op("loop")>>, a, b) /\ Runs(c, <<Op("panic")>>, a, b)
    BY LastOp DEF Last
  <1>2. Runs(c, print \o serial \o <<Op("loop")>>, a, b)
    <2>1. Runs(c, print, a, a) /\ Runs(c, serial, a, a)
      BY Prints
    <2>2. Runs(c, print \o serial, a, a)
      BY <2>1, Cat
    <2> QED
      BY <1>1, <2>2, Cat
  <1>3a. a \in Facts
    BY DEF MayPrint
  <1>3b. Masked(a) \in Facts /\ Masked(a).held = a.held /\ Masked(a).on = FALSE /\ Masked(a).ended = a.ended
    BY <1>3a, MaskFacts
  <1>3. PICK m : m = Masked(a) /\ MayPrint(m) /\ m.on = FALSE
    BY <1>3b DEF MayPrint
  <1>4. Runs(c, panic_loop, m, b)
    <2>1. PICK x \in Ops : x = Op("cli") /\ x.op = "cli"
      BY OpsOf DEF OpNames
    <2>2. PICK y \in Ops : y = Op("loop") /\ y.op = "loop"
      BY OpsOf DEF OpNames, Last
    <2>3. m \in Facts /\ Masked(m) = m
      BY <1>3, Undone DEF MayPrint
    <2>4. Does(c, x, m, m)
      BY <1>3, <2>1, <2>3 DEF Does, MayPrint
    <2>5. Does(c, y, m, b)
      BY <1>3, <2>2 DEF Does, MayPrint, Last
    <2>6. Runs(c, <<x, y>>, m, b)
      BY <2>3, <2>4, <2>5, Two
    <2> QED
      BY <2>1, <2>2, <2>6 DEF panic_loop
  <1>5. Runs(c, serial, m, m)
    BY <1>3, Prints
  <1>6. Runs(c, serial \o panic_loop, m, b)
    BY <1>4, <1>5, Cat
  <1> QED
    BY <1>1, <1>2, <1>3, <1>6 DEF panic, fatal_exception

(***************************************************************************)
(* Taking a lock and dropping it.                                          *)
(***************************************************************************)
LEMMA TakeDrop ==
    ASSUME NEW c, NEW a \in Facts, a.ended = FALSE, NEW l \in Locks, LockRule(c, l, a)
    PROVE  /\ Runs(c, <<Lock(l)>>, a, Take(a, l)) /\ Runs(c, <<Unlock(l)>>, Take(a, l), a)
           /\ Runs(c, <<Lock(l), Unlock(l)>>, a, a)
  <1>1. PICK x \in Ops : x = Lock(l) /\ x.op = "lock" /\ x.of = l
    BY OpsOf
  <1>2. PICK y \in Ops : y = Unlock(l) /\ y.op = "unlock" /\ y.of = l
    BY OpsOf
  <1>3. PICK t \in Facts : t = Take(a, l) /\ t.held = a.held \cup {l} /\ t.ended = FALSE
    BY TakeFacts
  <1>4. Drop(t, l) = a
    BY <1>3, Undone DEF LockRule
  <1>5. Does(c, x, a, t)
    BY <1>1, <1>3 DEF Does
  <1>6. Does(c, y, t, a)
    BY <1>2, <1>3, <1>4 DEF Does
  <1>7. Runs(c, <<x>>, a, t) /\ Runs(c, <<y>>, t, a)
    BY <1>5, <1>6, One
  <1>8. Runs(c, <<x, y>>, a, a)
    BY <1>5, <1>6, Two
  <1> QED
    BY <1>1, <1>2, <1>3, <1>7, <1>8

(***************************************************************************)
(* A call of the allocator: HEAP is taken and dropped.                     *)
(***************************************************************************)
LEMMA Allocates ==
    ASSUME NEW c, NEW a, MayPrint(a), LockRule(c, "HEAP", a)
    PROVE  \A n \in {"panic", "print"} : Runs(c, alloc(n), a, a)
  <1> SUFFICES ASSUME NEW n \in {"panic", "print"} PROVE Runs(c, alloc(n), a, a)
    OBVIOUS
  <1>0. "HEAP" \in Locks /\ a \in Facts /\ a.ended = FALSE /\ "HEAP" \notin a.held
    BY DEF Locks, MayPrint, LockRule
  <1>1. PICK x \in Ops : x = Lock("HEAP") /\ x.op = "lock" /\ x.of = "HEAP"
    BY <1>0, OpsOf
  <1>2a. "alloc" \in OpNames
    BY DEF OpNames
  <1>2b. [op |-> "alloc", of |-> n] \in Ops
    BY <1>2a DEF Ops
  <1>2. PICK y \in Ops : y = [op |-> "alloc", of |-> n] /\ y.op = "alloc" /\ y.of = n
    BY <1>2b
  <1>3. PICK t \in Facts : t = Take(a, "HEAP") /\ t.held = a.held \cup {"HEAP"} /\ t.ended = FALSE
    BY <1>0, TakeFacts
  <1>4. Drop(t, "HEAP") = a
    BY <1>0, <1>3, Undone
  <1>5. Does(c, x, a, t)
    BY <1>0, <1>1, <1>3 DEF Does
  <1>6. Does(c, y, t, a)
    BY <1>2, <1>3, <1>4 DEF Does, MayPrint
  <1> QED
    BY <1>0, <1>1, <1>2, <1>5, <1>6, Two DEF alloc

(***************************************************************************)
(* The end of interrupt, and the handlers around it.                       *)
(***************************************************************************)
LEMMA EndsInterrupt ==
    ASSUME NEW a \in Facts, a.ended = FALSE, a.on = FALSE, "PICS" \notin a.held
    PROVE  Runs("irq", end_of_interrupt, a, Served(a))
  <1>0. "PICS" \in Locks
    BY DEF Locks
  <1>1. PICK x \in Ops : x = Lock("PICS") /\ x.op = "lock" /\ x.of = "PICS"
    BY <1>0, OpsOf
  <1>2. PICK y \in Ops : y = Op("eoi") /\ y.op = "eoi"
    BY OpsOf DEF OpNames
  <1>3. PICK z \in Ops : z = Unlock("PICS") /\ z.op = "unlock" /\ z.of = "PICS"
    BY <1>0, OpsOf
  <1>4. PICK t \in Facts : /\ t = Take(a, "PICS") /\ t.held = a.held \cup {"PICS"} /\ t.ended = FALSE
                           /\ t.on = FALSE /\ t.set = a.set
    BY <1>0, TakeFacts
  <1>5a. /\ Served(t) \in Facts /\ Served(t).held = t.held /\ Served(t).ended = t.ended
         /\ Served(t).on = t.on /\ Served(t).set = t.set /\ Served(t).served = TRUE
    BY MaskFacts
  <1>6a. /\ Served(a) \in Facts /\ Served(a).held = a.held /\ Served(a).ended = a.ended
         /\ Served(a).on = a.on /\ Served(a).set = a.set /\ Served(a).served = TRUE
    BY MaskFacts
  <1>5. PICK u \in Facts : /\ u = Served(t) /\ u.held = t.held /\ u.ended = FALSE
                           /\ u.on = FALSE /\ u.set = a.set /\ u.served = TRUE
    BY <1>4, <1>5a
  <1>6. PICK v \in Facts : /\ v = Served(a) /\ v.held = a.held /\ v.ended = FALSE
                           /\ v.on = FALSE /\ v.set = a.set /\ v.served = TRUE
    BY <1>6a
  <1>7. Drop(u, "PICS") = v
    <2>1. a.held = u.held \ {"PICS"}
      BY <1>4, <1>5
    <2>2. /\ Drop(u, "PICS") \in Facts /\ Drop(u, "PICS").held = v.held /\ Drop(u, "PICS").on = v.on
          /\ Drop(u, "PICS").set = v.set /\ Drop(u, "PICS").served = v.served /\ Drop(u, "PICS").ended = v.ended
      BY <1>5, <1>6, <2>1, DropFacts, ZenonT(60)
    <2> QED
      BY <2>2, Same
  <1>8. Does("irq", x, a, t)
    BY <1>0, <1>1, <1>4 DEF Does, LockRule
  <1>9. Does("irq", y, t, u)
    BY <1>2, <1>4, <1>5 DEF Does
  <1>10. Does("irq", z, u, v)
    BY <1>3, <1>4, <1>5, <1>7 DEF Does
  <1>11. Runs("irq", <<x, y, z>>, a, v)
    BY <1>8, <1>9, <1>10, Three
  <1> QED
    BY <1>1, <1>2, <1>3, <1>6, <1>11 DEF end_of_interrupt

LEMMA Handlers ==
    /\ Runs("irq", timer_interrupt_handler, Entered, Idle)
    /\ Runs("irq", keyboard_interrupt_handler, Entered, Idle)
    /\ Runs("irq", AfterKey, WithKey, Idle)
  <1>0. "KEYBOARD" \in Locks /\ "KEYBOARD" # "PICS"
    BY DEF Locks
  <1>1. Served(Entered) = Fresh
    <2>1. /\ Served(Entered) \in Facts /\ Served(Entered).held = Fresh.held /\ Served(Entered).on = Fresh.on
          /\ Served(Entered).set = Fresh.set /\ Served(Entered).served = Fresh.served
          /\ Served(Entered).ended = Fresh.ended
      BY MaskFacts, FixedFacts
    <2> QED
      BY <2>1, Same, FixedFacts
  <1>2. Runs("irq", end_of_interrupt, Entered, Fresh)
    BY <1>1, EndsInterrupt, FixedFacts
  <1>3. PICK x \in Ops : x = Op("iret") /\ x.op = "iret"
    BY OpsOf DEF OpNames
  <1>4. Does("irq", x, Fresh, Idle)
    BY <1>3, FixedFacts DEF Does
  <1>5. Runs("irq", <<Op("iret")>>, Fresh, Idle)
    BY <1>3, <1>4, One, FixedFacts
  <1>6. Runs("irq", timer_interrupt_handler, Entered, Idle)
    BY <1>2, <1>5, Cat DEF timer_interrupt_handler
  <1>7. PICK y \in Ops : y = Lock("KEYBOARD") /\ y.op = "lock" /\ y.of = "KEYBOARD"
    BY <1>0, OpsOf
  <1>8. PICK z \in Ops : z = Op("key") /\ z.op = "key"
    BY OpsOf DEF OpNames
  <1>9. Take(Entered, "KEYBOARD") = WithKey
    <2>1. Entered.held \cup {"KEYBOARD"} = WithKey.held
      BY FixedFacts
    <2>2. /\ Take(Entered, "KEYBOARD") \in Facts /\ Take(Entered, "KEYBOARD").held = WithKey.held
          /\ Take(Entered, "KEYBOARD").on = WithKey.on /\ Take(Entered, "KEYBOARD").set = WithKey.set
          /\ Take(Entered, "KEYBOARD").served = WithKey.served /\ Take(Entered, "KEYBOARD").ended = WithKey.ended
      BY <1>0, <2>1, TakeFacts, FixedFacts
    <2> QED
      BY <2>2, Same, FixedFacts
  <1>10. Does("irq", y, Entered, WithKey)
    BY <1>0, <1>7, <1>9, FixedFacts DEF Does, LockRule
  <1>11. Does("irq", z, WithKey, Idle)
    BY <1>8, FixedFacts DEF Does
  <1>12. Runs("irq", keyboard_interrupt_handler, Entered, Idle)
    BY <1>7, <1>8, <1>10, <1>11, Two, FixedFacts DEF keyboard_interrupt_handler
  <1>13a. /\ Served(WithKey) \in Facts /\ Served(WithKey).held = WithKey.held /\ Served(WithKey).on = WithKey.on
          /\ Served(WithKey).set = WithKey.set /\ Served(WithKey).served = TRUE
          /\ Served(WithKey).ended = WithKey.ended
    BY MaskFacts, FixedFacts
  <1>13. PICK s \in Facts : /\ s = Served(WithKey) /\ s.held = {"KEYBOARD"} /\ s.on = FALSE /\ s.set = {}
                            /\ s.served = TRUE /\ s.ended = FALSE
    BY <1>13a, FixedFacts
  <1>14. Drop(s, "KEYBOARD") = Fresh
    <2>1. s.held \ {"KEYBOARD"} = Fresh.held
      BY <1>13, FixedFacts
    <2>2. /\ Drop(s, "KEYBOARD") \in Facts /\ Drop(s, "KEYBOARD").held = Fresh.held
          /\ Drop(s, "KEYBOARD").on = Fresh.on /\ Drop(s, "KEYBOARD").set = Fresh.set
          /\ Drop(s, "KEYBOARD").served = Fresh.served /\ Drop(s, "KEYBOARD").ended = Fresh.ended
      BY <1>13, <2>1, DropFacts, FixedFacts
    <2> QED
      BY <2>2, Same, FixedFacts
  <1>15. PICK w \in Ops : w = Unlock("KEYBOARD") /\ w.op = "unlock" /\ w.of = "KEYBOARD"
    BY <1>0, OpsOf
  <1>16. Does("irq", w, s, Fresh)
    BY <1>13, <1>14, <1>15 DEF Does
  <1>17. Runs("irq", <<w, x>>, s, Idle)
    BY <1>4, <1>13, <1>16, Two, FixedFacts
  <1>18. Runs("irq", end_of_interrupt, WithKey, s)
    BY <1>0, <1>13, EndsInterrupt, FixedFacts
  <1>19. Runs("irq", AfterKey, WithKey, Idle)
    BY <1>3, <1>15, <1>17, <1>18, Cat DEF AfterKey
  <1> QED
    BY <1>6, <1>12, <1>19

(***************************************************************************)
(* Every command leaves its handler what it has found, if it comes back.   *)
(***************************************************************************)
LEMMA KeyPrints == MayPrint(WithKey) /\ LockRule("irq", "HEAP", WithKey) /\ LockRule("irq", "FS", WithKey)
  BY FixedFacts DEF MayPrint, LockRule, Locks

LEMMA FsCalls ==
    ASSUME NEW c, NEW a, MayPrint(a), LockRule(c, "FS", a), LockRule(c, "HEAP", a)
    PROVE  /\ Runs(c, <<Lock("FS")>> \o alloc("panic"), a, Take(a, "FS"))
           /\ MayPrint(Take(a, "FS")) /\ Runs(c, <<Unlock("FS")>>, Take(a, "FS"), a)
  <1>0. a \in Facts /\ a.ended = FALSE /\ "FS" \in Locks /\ "SERIAL" \notin a.held
    BY DEF MayPrint, Locks
  <1>1. Runs(c, <<Lock("FS")>>, a, Take(a, "FS")) /\ Runs(c, <<Unlock("FS")>>, Take(a, "FS"), a)
    BY <1>0, TakeDrop
  <1>2. /\ Take(a, "FS") \in Facts /\ Take(a, "FS").held = a.held \cup {"FS"}
        /\ Take(a, "FS").on = a.on /\ Take(a, "FS").ended = a.ended
    BY <1>0, TakeFacts
  <1>3. PICK t : t = Take(a, "FS") /\ t \in Facts /\ t.held = a.held \cup {"FS"} /\ t.on = a.on /\ t.ended = FALSE
    BY <1>0, <1>2
  <1>4. MayPrint(t) /\ LockRule(c, "HEAP", t)
    BY <1>0, <1>3 DEF MayPrint, LockRule
  <1>5. Runs(c, alloc("panic"), t, t)
    BY <1>4, Allocates
  <1>6. Runs(c, <<Lock("FS")>> \o alloc("panic"), a, t)
    BY <1>1, <1>3, <1>5, Cat
  <1> QED
    BY <1>1, <1>3, <1>4, <1>6

LEMMA Resets ==
    ASSUME NEW a, MayPrint(a), "tried" \notin a.set
    PROVE  Runs("irq", serial \o fallback_reboot, Having(a, "tried"), a)
  <1>0. a \in Facts /\ a.ended = FALSE /\ "SERIAL" \notin a.held /\ "tried" \in Parts \cup Marks
    BY DEF MayPrint, Marks
  <1>1. /\ Having(a, "tried") \in Facts /\ Having(a, "tried").set = a.set \cup {"tried"}
        /\ Having(a, "tried").held = a.held /\ Having(a, "tried").ended = a.ended
    BY <1>0, HavingFacts
  <1>2. PICK t \in Facts : t = Having(a, "tried") /\ "tried" \in t.set /\ t.held = a.held /\ t.ended = FALSE
    BY <1>0, <1>1
  <1>3. Without(t, "tried") = a
    BY <1>0, <1>2, Undone
  <1>4. Runs("irq", serial, t, t)
    BY <1>0, <1>2, Prints DEF MayPrint
  <1>5. PICK v \in Ops : v = Op("pulse_8042") /\ v.op = "pulse_8042"
    BY OpsOf DEF OpNames
  <1>6. PICK w \in Ops : w = Op("triple_fault") /\ w.op = "triple_fault"
    BY OpsOf DEF OpNames
  <1>7. Does("irq", v, t, t)
    BY <1>2, <1>5 DEF Does
  <1>8. Does("irq", w, t, a)
    BY <1>2, <1>3, <1>6 DEF Does
  <1>9. Runs("irq", <<Op("pulse_8042"), Op("triple_fault")>>, t, a)
    BY <1>0, <1>5, <1>6, <1>7, <1>8, Two
  <1>10. Runs("irq", fallback_reboot, t, a)
    BY <1>4, <1>9, Cat DEF fallback_reboot
  <1> QED
    BY <1>2, <1>4, <1>10, Cat

LEMMA Reboots ==
    ASSUME NEW a, MayPrint(a), a.on = FALSE, "tried" \notin a.set
    PROVE  Runs("irq", reboot, a, a)
  <1>0. a \in Facts /\ a.ended = FALSE /\ "SERIAL" \notin a.held /\ Masked(a) = a
    BY Undone DEF MayPrint
  <1>1. Runs("irq", serial, a, a)
    BY Prints
  <1>2. PICK x \in Ops : x = Op("cli") /\ x.op = "cli"
    BY OpsOf DEF OpNames
  <1>3. PICK y \in Ops : y = Op("reset_reg") /\ y.op = "reset_reg"
    BY OpsOf DEF OpNames
  <1>4. Does("irq", x, a, a)
    BY <1>0, <1>2 DEF Does
  <1>5. Does("irq", y, a, a)
    BY <1>0, <1>3 DEF Does
  <1>6. Runs("irq", <<Op("cli"), Op("reset_reg")>>, a, a)
    BY <1>0, <1>2, <1>3, <1>4, <1>5, Two
  <1> QED
    BY <1>1, <1>6, Cat DEF reboot

LEMMA Executes ==
    ASSUME NEW c
    PROVE  Runs("irq", execute(c), WithKey, WithKey)
  <1>0. WithKey \in Facts
    BY FixedFacts
  <1>1. Runs("irq", print, WithKey, WithKey) /\ Runs("irq", << >>, WithKey, WithKey)
    BY KeyPrints, Prints
  <1>2. Runs("irq", <<Op("toggle_serial")>>, WithKey, WithKey) /\ Runs("irq", <<Op("int3")>>, WithKey, WithKey)
    BY KeyPrints, QuietOp DEF Quiet
  <1>3. Runs("irq", <<Op("panic")>>, WithKey, WithKey) /\ Runs("irq", <<Op("exit_qemu")>>, WithKey, WithKey)
    BY <1>0, KeyPrints, LastOp DEF Last
  <1>4. Runs("irq", <<Op("toggle_serial")>> \o print, WithKey, WithKey)
    BY <1>1, <1>2, Cat
  <1>5. Runs("irq", print \o <<Op("exit_qemu")>>, WithKey, WithKey)
    BY <1>1, <1>3, Cat
  <1>6. Runs("irq", alloc("print"), WithKey, WithKey)
    BY KeyPrints, Allocates
  <1>7. Runs("irq", alloc("print") \o print, WithKey, WithKey)
    BY <1>1, <1>6, Cat
  <1>8. Runs("irq", reboot, WithKey, WithKey)
    BY KeyPrints, Reboots, FixedFacts
  <1>9. PICK t : t = Take(WithKey, "FS") /\ MayPrint(t) /\ Runs("irq", <<Unlock("FS")>>, t, WithKey)
                 /\ Runs("irq", <<Lock("FS")>> \o alloc("panic"), WithKey, t)
    BY KeyPrints, FsCalls
  <1>10. Runs("irq", <<Lock("FS")>> \o alloc("panic") \o <<Unlock("FS")>> \o print, WithKey, WithKey)
    <2>1. Runs("irq", <<Lock("FS")>> \o alloc("panic") \o <<Unlock("FS")>>, WithKey, WithKey)
      BY <1>9, Cat
    <2> QED
      BY <1>1, <2>1, Cat
  <1>11. Runs("irq", <<Lock("FS")>> \o alloc("panic") \o <<Op("maybe_print"), Unlock("FS")>>, WithKey, WithKey)
    <2>0. t \in Facts /\ t.ended = FALSE /\ "SERIAL" \notin t.held /\ "FS" \in Locks
      BY <1>9 DEF MayPrint, Locks
    <2>1. PICK x \in Ops : x = Op("maybe_print") /\ x.op = "maybe_print"
      BY OpsOf DEF OpNames, Quiet
    <2>2. PICK y \in Ops : y = Unlock("FS") /\ y.op = "unlock" /\ y.of = "FS"
      BY <2>0, OpsOf
    <2>3. Does("irq", x, t, t)
      BY <2>0, <2>1 DEF Does, Quiet
    <2>4. "FS" \in t.held /\ Drop(t, "FS") = WithKey
      <3>1. "FS" \notin WithKey.held
        BY FixedFacts
      <3>2. Take(WithKey, "FS").held = WithKey.held \cup {"FS"}
        BY <1>0, <2>0, TakeFacts
      <3> QED
        BY <1>0, <1>9, <2>0, <3>1, <3>2, Undone
    <2>5. Does("irq", y, t, WithKey)
      BY <2>0, <2>2, <2>4 DEF Does
    <2>6. Runs("irq", <<Op("maybe_print"), Unlock("FS")>>, t, WithKey)
      BY <1>0, <2>0, <2>1, <2>2, <2>3, <2>5, Two
    <2> QED
      BY <1>9, <2>6, Cat
  <1> QED
    BY <1>1, <1>2, <1>3, <1>4, <1>5, <1>7, <1>8, <1>10, <1>11 DEF execute

--------------------------------------------------------------------------------
(* The boot sequence *)

\* The operations that set a part up.
SetsUpPart(o, p) ==
    \/ o = "console_init" /\ p = "console"
    \/ o = "gdt_init" /\ p = "gdt"
    \/ o = "idt_init" /\ p = "idt"
    \/ o = "pic_init" /\ p = "pic"
    \/ o = "heap_init" /\ p = "heap"

(***************************************************************************)
(* Setting a part up, without and with a lock.                             *)
(***************************************************************************)
LEMMA SetsUp ==
    ASSUME NEW a \in Facts, a.ended = FALSE, NEW o, NEW p, SetsUpPart(o, p),
           o = "heap_init" => "stored" \in a.set
    PROVE  /\ Op(o) \in Ops /\ Does("main", Op(o), a, Having(a, p)) /\ p \in Parts
           /\ Runs("main", <<Op(o)>>, a, Having(a, p))
           /\ Having(a, p) \in Facts /\ Having(a, p).ended = FALSE
           /\ Having(a, p).held = a.held /\ Having(a, p).on = a.on
           /\ Having(a, p).set = a.set \cup {p}
  <1>1. o \in OpNames /\ p \in Parts
    BY DEF SetsUpPart, OpNames, Parts
  <1>2. PICK x \in Ops : x = Op(o) /\ x.op = o
    BY <1>1, OpsOf
  <1>3. PICK b \in Facts : b = Having(a, p)
    BY <1>1, HavingFacts DEF Parts
  <1>4. Does("main", x, a, b)
    BY <1>2, <1>3 DEF Does, SetsUpPart
  <1>5. Runs("main", <<x>>, a, b)
    BY <1>4, One
  <1>6. /\ Having(a, p) \in Facts /\ Having(a, p).ended = a.ended
        /\ Having(a, p).held = a.held /\ Having(a, p).on = a.on /\ Having(a, p).set = a.set \cup {p}
    BY <1>1, HavingFacts
  <1> QED
    BY <1>1, <1>2, <1>3, <1>4, <1>5, <1>6

LEMMA LockedSetUp ==
    ASSUME NEW a \in Facts, a.ended = FALSE, NEW o, NEW p, SetsUpPart(o, p),
           o = "heap_init" => "stored" \in a.set, NEW l \in Locks, LockRule("main", l, a)
    PROVE  Runs("main", <<Lock(l), Op(o), Unlock(l)>>, a, Having(a, p))
  <1>1. PICK x \in Ops : x = Lock(l) /\ x.op = "lock" /\ x.of = l
    BY OpsOf
  <1>2. PICK z \in Ops : z = Unlock(l) /\ z.op = "unlock" /\ z.of = l
    BY OpsOf
  <1>3. /\ Take(a, l) \in Facts /\ Take(a, l).held = a.held \cup {l} /\ Take(a, l).on = a.on
        /\ Take(a, l).set = a.set /\ Take(a, l).served = a.served /\ Take(a, l).ended = a.ended
    BY TakeFacts
  <1>4. PICK t \in Facts : /\ t = Take(a, l) /\ t.held = a.held \cup {l} /\ t.on = a.on
                           /\ t.set = a.set /\ t.served = a.served /\ t.ended = FALSE
    BY <1>3
  <1>5. p \in Parts
    BY DEF SetsUpPart, Parts
  <1>6. /\ Having(t, p) \in Facts /\ Having(t, p).ended = t.ended /\ Having(t, p).served = t.served
        /\ Having(t, p).held = t.held /\ Having(t, p).on = t.on /\ Having(t, p).set = t.set \cup {p}
    BY <1>5, HavingFacts
  <1>7. PICK u \in Facts : /\ u = Having(t, p) /\ u.ended = FALSE /\ u.served = a.served
                           /\ u.held = a.held \cup {l} /\ u.on = a.on /\ u.set = a.set \cup {p}
    BY <1>4, <1>6
  <1>8. /\ Having(a, p) \in Facts /\ Having(a, p).ended = a.ended /\ Having(a, p).served = a.served
        /\ Having(a, p).held = a.held /\ Having(a, p).on = a.on /\ Having(a, p).set = a.set \cup {p}
    BY <1>5, HavingFacts
  <1>9. PICK v \in Facts : /\ v = Having(a, p) /\ v.ended = FALSE /\ v.served = a.served
                           /\ v.held = a.held /\ v.on = a.on /\ v.set = a.set \cup {p}
    BY <1>8
  <1>10. Drop(u, l) = v
    <2>1. u.held \ {l} = v.held
      BY <1>7, <1>9 DEF LockRule
    <2>2. /\ Drop(u, l) \in Facts /\ Drop(u, l).held = v.held /\ Drop(u, l).on = v.on
          /\ Drop(u, l).set = v.set /\ Drop(u, l).served = v.served /\ Drop(u, l).ended = v.ended
      BY <1>7, <1>9, <2>1, DropFacts, ZenonT(60)
    <2> QED
      BY <2>2, Same
  <1>11. Does("main", x, a, t)
    BY <1>1, <1>4 DEF Does
  <1>12. Op(o) \in Ops /\ Does("main", Op(o), t, u)
    BY <1>4, <1>7, SetsUp
  <1>13. Does("main", z, u, v)
    BY <1>2, <1>7, <1>10 DEF Does
  <1>14. Runs("main", <<x, Op(o), z>>, a, v)
    BY <1>11, <1>12, <1>13, Three
  <1> QED
    BY <1>1, <1>2, <1>9, <1>14

(***************************************************************************)
(* What runs when boot is over never ends.                                 *)
(***************************************************************************)
LEMMA AfterBoot ==
    ASSUME NEW a, MayPrint(a), a.held = {}, NEW build
    PROVE  Runs("main", AfterKinit(build), a, Idle)
  <1>0. Idle \in Facts /\ LockRule("main", "FS", a) /\ LockRule("main", "HEAP", a)
    BY FixedFacts DEF LockRule, Locks
  <1>1. Runs("main", print, a, a) /\ Runs("main", serial, a, a)
    BY Prints
  <1>2. Runs("main", <<Op("hlt")>>, a, Idle) /\ Runs("main", <<Op("exit_qemu")>>, a, Idle)
    BY <1>0, LastOp DEF Last
  <1>3. Runs("main", kernel, a, Idle)
    BY <1>1, <1>2, Cat DEF kernel
  <1>4. Runs("main", <<Lock("FS")>>, a, Take(a, "FS"))
    BY <1>0, TakeDrop DEF MayPrint, Locks
  <1>5. PICK t : /\ t = Take(a, "FS") /\ MayPrint(t) /\ t.held = {"FS"} /\ t.on = a.on
                 /\ Runs("main", <<Unlock("FS")>>, t, a)
    <2>0. a \in Facts /\ "FS" \in Locks
      BY DEF MayPrint, Locks
    <2>1. Take(a, "FS").held = a.held \cup {"FS"} /\ Take(a, "FS").on = a.on
      BY <2>0, TakeFacts
    <2>2. a.held \cup {"FS"} = {"FS"}
      OBVIOUS
    <2>3. MayPrint(Take(a, "FS")) /\ Runs("main", <<Unlock("FS")>>, Take(a, "FS"), a)
      BY <1>0, FsCalls
    <2> QED
      BY <2>1, <2>2, <2>3
  <1>6. Runs("main", alloc("panic"), t, t)
    <2>1. LockRule("main", "HEAP", t)
      BY <1>5 DEF LockRule, Locks
    <2> QED
      BY <1>5, <2>1, Allocates
  <1>7. Runs("main", serial \o <<Lock("FS")>>, a, t)
    BY <1>1, <1>4, <1>5, Cat
  <1>8. Runs("main", serial \o <<Lock("FS")>> \o alloc("panic"), a, t)
    BY <1>6, <1>7, Cat
  <1>9. Runs("main", serial \o <<Lock("FS")>> \o alloc("panic") \o <<Unlock("FS")>>, a, a)
    BY <1>5, <1>8, Cat
  <1>10. Runs("main", serial \o <<Lock("FS")>> \o alloc("panic") \o <<Unlock("FS")>> \o serial, a, a)
    BY <1>1, <1>9, Cat
  <1>11. Runs("main", test_run, a, Idle)
    BY <1>2, <1>10, Cat DEF test_run
  <1> QED
    BY <1>3, <1>11 DEF AfterKinit

(***************************************************************************)
(* The boot sequence: interrupts are enabled when there are handlers and   *)
(* the controller is programmed, and boot then goes on without the locks   *)
(* its handlers need.                                                      *)
(***************************************************************************)
LEMMA Boots ==
    ASSUME NEW build
    PROVE  Runs("main", kmain(build), Fresh, Idle)
  <1>0. Fresh \in Facts /\ Idle \in Facts /\ "PICS" \in Locks /\ "HEAP" \in Locks
    BY FixedFacts DEF Locks
  <1>1. Fresh.ended = FALSE /\ Fresh.held = {} /\ Fresh.on = FALSE /\ Fresh.set = {}
    BY FixedFacts
  <1>2. ASSUME NEW a \in Facts, a.ended = FALSE, a.held = {}
        PROVE  /\ Runs("main", print, a, a) /\ Runs("main", serial, a, a)
               /\ Runs("main", <<Op("fb_init")>>, a, a) /\ Runs("main", <<Op("kmem_init")>>, a, a)
    <2>1. MayPrint(a)
      BY <1>2 DEF MayPrint
    <2>2. "fb_init" \in Quiet /\ "kmem_init" \in Quiet
      BY DEF Quiet
    <2> QED
      BY <2>1, <2>2, Prints, QuietOp
  <1>3. PICK f \in Facts : /\ f.ended = FALSE /\ f.held = {} /\ f.on = FALSE
                           /\ Runs("main", <<Op("console_init")>>, Fresh, f)
    <2>1. SetsUpPart("console_init", "console")
      BY DEF SetsUpPart
    <2> QED
      BY <1>0, <1>1, <2>1, SetsUp
  <1>4. PICK g \in Facts : /\ g.ended = FALSE /\ g.held = {} /\ g.on = FALSE
                           /\ Runs("main", <<Op("gdt_init")>>, f, g)
    <2>1. SetsUpPart("gdt_init", "gdt")
      BY DEF SetsUpPart
    <2> QED
      BY <1>3, <2>1, SetsUp
  <1>5. PICK h \in Facts : /\ h.ended = FALSE /\ h.held = {} /\ h.on = FALSE /\ "idt" \in h.set
                           /\ Runs("main", <<Op("idt_init")>>, g, h)
    <2>1. SetsUpPart("idt_init", "idt")
      BY DEF SetsUpPart
    <2>2. /\ Having(g, "idt") \in Facts /\ Having(g, "idt").ended = FALSE /\ Having(g, "idt").held = g.held
          /\ Having(g, "idt").on = g.on /\ Having(g, "idt").set = g.set \cup {"idt"}
          /\ Runs("main", <<Op("idt_init")>>, g, Having(g, "idt"))
      BY <1>4, <2>1, SetsUp
    <2> QED
      BY <1>4, <2>2
  <1>6. Runs("main", kinit_to_idt, Fresh, h)
    <2>1. Runs("main", serial \o <<Op("fb_init")>>, Fresh, Fresh)
      BY <1>0, <1>1, <1>2, Cat
    <2>2. Runs("main", serial \o <<Op("fb_init")>> \o serial, Fresh, Fresh)
      BY <1>0, <1>1, <1>2, <2>1, Cat
    <2>3. Runs("main", serial \o <<Op("fb_init")>> \o serial \o <<Op("console_init")>>, Fresh, f)
      BY <1>3, <2>2, Cat
    <2>4. Runs("main", serial \o <<Op("fb_init")>> \o serial \o <<Op("console_init")>> \o serial, Fresh, f)
      BY <1>2, <1>3, <2>3, Cat
    <2>5. Runs("main", serial \o <<Op("fb_init")>> \o serial \o <<Op("console_init")>> \o serial \o print, Fresh, f)
      BY <1>2, <1>3, <2>4, Cat
    <2>6. Runs("main", serial \o <<Op("fb_init")>> \o serial \o <<Op("console_init")>> \o serial \o print
                        \o <<Op("gdt_init")>>, Fresh, g)
      BY <1>4, <2>5, Cat
    <2>7. Runs("main", serial \o <<Op("fb_init")>> \o serial \o <<Op("console_init")>> \o serial \o print
                        \o <<Op("gdt_init")>> \o print, Fresh, g)
      BY <1>2, <1>4, <2>6, Cat
    <2> QED
      BY <1>5, <2>7, Cat DEF kinit_to_idt
  <1>7. PICK i \in Facts : /\ i.ended = FALSE /\ i.held = {} /\ i.on = FALSE /\ "idt" \in i.set /\ "pic" \in i.set
                           /\ Runs("main", <<Lock("PICS"), Op("pic_init"), Unlock("PICS")>>, h, i)
    <2>0. LockRule("main", "PICS", h)
      BY <1>0, <1>5 DEF LockRule
    <2>1. SetsUpPart("pic_init", "pic")
      BY DEF SetsUpPart
    <2>2. Runs("main", <<Lock("PICS"), Op("pic_init"), Unlock("PICS")>>, h, Having(h, "pic"))
      BY <1>0, <1>5, <2>0, <2>1, LockedSetUp
    <2>3. /\ Having(h, "pic") \in Facts /\ Having(h, "pic").ended = FALSE /\ Having(h, "pic").held = {}
          /\ Having(h, "pic").on = FALSE /\ Having(h, "pic").set = h.set \cup {"pic"}
      BY <1>5, <2>1, SetsUp, ZenonT(60)
    <2> QED
      BY <1>5, <2>2, <2>3
  <1>8. Runs("main", kinit_pic, h, i)
    BY <1>2, <1>5, <1>7, Cat DEF kinit_pic
  <1>9. PICK j \in Facts : j.ended = FALSE /\ j.held = {} /\ Runs("main", <<Op("sti")>>, i, j)
    <2>1. Unmasked(i) \in Facts /\ Unmasked(i).held = i.held /\ Unmasked(i).ended = i.ended
      BY MaskFacts
    <2>2. PICK x \in Ops : x = Op("sti") /\ x.op = "sti"
      BY OpsOf DEF OpNames
    <2>3. Does("main", x, i, Unmasked(i))
      BY <1>7, <2>2 DEF Does
    <2>4. Runs("main", <<x>>, i, Unmasked(i))
      BY <2>1, <2>3, One
    <2> QED
      BY <1>7, <2>1, <2>2, <2>4
  <1>9a. PICK q \in Facts : /\ q.ended = FALSE /\ q.held = {} /\ "stored" \in q.set
                            /\ Runs("main", <<Op("acpi_init")>>, j, q)
    <2>1. "acpi" \in Parts \cup Marks /\ "stored" \in Parts \cup Marks
      BY DEF Marks
    <2>2. Having(j, "acpi") \in Facts /\ Having(j, "acpi").held = j.held /\ Having(j, "acpi").ended = j.ended
      BY <2>1, HavingFacts
    <2>3. PICK t \in Facts : t = Having(j, "acpi") /\ t.held = {} /\ t.ended = FALSE
      BY <1>9, <2>2
    <2>4. /\ Having(t, "stored") \in Facts /\ Having(t, "stored").held = t.held
          /\ Having(t, "stored").ended = t.ended /\ Having(t, "stored").set = t.set \cup {"stored"}
      BY <2>1, HavingFacts
    <2>5. PICK o \in Ops : o = Op("acpi_init") /\ o.op = "acpi_init"
      BY OpsOf DEF OpNames
    <2>6. Does("main", o, j, Having(t, "stored"))
      BY <1>9, <2>3, <2>5 DEF Does
    <2>7. Runs("main", <<o>>, j, Having(t, "stored"))
      BY <2>4, <2>6, One
    <2> QED
      BY <2>3, <2>4, <2>5, <2>7
  <1>10. PICK k \in Facts : /\ k.ended = FALSE /\ k.held = {}
                            /\ Runs("main", <<Op("kmem_init"), Lock("HEAP"), Op("heap_init"), Unlock("HEAP")>>, q, k)
    <2>0. LockRule("main", "HEAP", q)
      BY <1>0, <1>9a DEF LockRule
    <2>1. SetsUpPart("heap_init", "heap")
      BY DEF SetsUpPart
    <2>2. Runs("main", <<Lock("HEAP"), Op("heap_init"), Unlock("HEAP")>>, q, Having(q, "heap"))
      BY <1>0, <1>9a, <2>0, <2>1, LockedSetUp
    <2>3. Having(q, "heap") \in Facts /\ Having(q, "heap").ended = q.ended /\ Having(q, "heap").held = q.held
      BY HavingFacts DEF Parts
    <2>4. Runs("main", <<Op("kmem_init")>> \o <<Lock("HEAP"), Op("heap_init"), Unlock("HEAP")>>, q, Having(q, "heap"))
      BY <1>2, <1>9a, <2>2, Cat
    <2>5. <<Op("kmem_init")>> \o <<Lock("HEAP"), Op("heap_init"), Unlock("HEAP")>>
            = <<Op("kmem_init"), Lock("HEAP"), Op("heap_init"), Unlock("HEAP")>>
      <3>1. "kmem_init" \in OpNames /\ "heap_init" \in OpNames
        BY DEF OpNames, Quiet
      <3> QED
        BY <1>0, <3>1, OpsOf, OneAndThree
    <2> QED
      BY <1>9a, <2>3, <2>4, <2>5
  <1>11. Runs("main", kinit_rest, j, k)
    <2>1. Runs("main", serial \o <<Op("acpi_init")>>, j, q)
      BY <1>2, <1>9, <1>9a, Cat
    <2>2. Runs("main", serial \o <<Op("acpi_init")>> \o print, j, q)
      BY <1>2, <1>9a, <2>1, Cat
    <2>3. Runs("main", serial \o <<Op("acpi_init")>> \o print
                \o <<Op("kmem_init"), Lock("HEAP"), Op("heap_init"), Unlock("HEAP")>>, j, k)
      BY <1>10, <2>2, Cat
    <2> QED
      BY <1>2, <1>10, <2>3, Cat DEF kinit_rest
  <1>12. Runs("main", AfterKinit(build), k, Idle)
    BY <1>10, AfterBoot DEF MayPrint
  <1>13. Runs("main", serial \o kinit_to_idt, Fresh, h)
    BY <1>0, <1>1, <1>2, <1>6, Cat
  <1>14. Runs("main", serial \o kinit_to_idt \o kinit_pic, Fresh, i)
    BY <1>8, <1>13, Cat
  <1>15. Runs("main", serial \o kinit_to_idt \o kinit_pic \o print, Fresh, i)
    BY <1>2, <1>7, <1>14, Cat
  <1>16. Runs("main", serial \o kinit_to_idt \o kinit_pic \o print \o <<Op("sti")>>, Fresh, j)
    BY <1>9, <1>15, Cat
  <1>17. Runs("main", serial \o kinit_to_idt \o kinit_pic \o print \o <<Op("sti")>> \o print, Fresh, j)
    BY <1>2, <1>9, <1>16, Cat
  <1>18. Runs("main", serial \o kinit_to_idt \o kinit_pic \o print \o <<Op("sti")>> \o print \o kinit_rest, Fresh, k)
    BY <1>11, <1>17, Cat
  <1> QED
    BY <1>12, <1>18, Cat DEF kmain

--------------------------------------------------------------------------------
(* The invariant *)

\* Facts a context can have: interrupts are on only in the boot code, when they
\* can be handled and while it has no lock that the handlers need; the heap comes
\* after the tables were read.
Proper(c, x) ==
    /\ x.on = TRUE =>
        /\ c = "main" /\ "idt" \in x.set /\ "pic" \in x.set
        /\ "SERIAL" \notin x.held /\ "PICS" \notin x.held
    /\ c = "main" => "KEYBOARD" \notin x.held /\ ("heap" \in x.set => "stored" \in x.set)

\* No two contexts hold the same lock.
Exclusive(a) == \A c, d \in Contexts : c # d => a[c].held \cap a[d].held = {}

\* What reboot writes, if anything.
Usable == Field("some") = 1 /\ Field("space") = 1 /\ Field("address") <= PORT_MAX

\* What the marks of the boot code x and of the handler y say.
Meant(x, y) ==
    /\ "acpi" \in x.set => ~ReadsUnmapped(firmware)
    /\ "stored" \in x.set => reset_info_of(firmware) = {} \/ DOMAIN reset_info = Fields
    /\ "tried" \in y.set => port # {} \/ ~Usable
    /\ port # {} => todo["irq"] # << >> /\ (machine = "running" => "tried" \in y.set)
    /\ \A p \in port :
        /\ p = [address |-> Field("address"), value |-> Field("value")]
        /\ Field("some") = 1 /\ Field("space") = 1

\* The facts a describe the state.
Described(a) ==
    /\ todo \in [Contexts -> Seq(Ops)]
    /\ \A c \in Contexts : Runs(c, todo[c], a[c], Idle) /\ Proper(c, a[c])
    /\ a["main"].ended = FALSE
    /\ Exclusive(a)
    /\ holder = [l \in Locks |-> {c \in Contexts : l \in a[c].held}]
    /\ IF_ = a[Active].on
    /\ todo["irq"] # << >> => a["main"].on = TRUE
    /\ ready = a["main"].set \cap Parts
    /\ Meant(a["main"], a["irq"])
    /\ a["irq"].served = TRUE => isr = {}
    /\ \E i \in {TIMER, KEYBOARD_IRQ} : isr \subseteq {i}

KInv == HandlersInPlace /\ \E a \in [Contexts -> Facts] : Described(a)

(***************************************************************************)
(* The active context has an operation to do; the contexts it suspends     *)
(* and the ones that could suspend it are where they should be.            *)
(***************************************************************************)
LEMMA Current ==
    ASSUME NEW a \in [Contexts -> Facts], Described(a)
    PROVE  /\ Active \in Contexts /\ todo[Active] # << >>
           /\ Active = "main" <=> (todo["irq"] = << >> /\ todo["nmi"] = << >>)
           /\ Active = "irq" <=> (todo["irq"] # << >> /\ todo["nmi"] = << >>)
           /\ Active = "nmi" <=> todo["nmi"] # << >>
           /\ a[Active] \in Facts /\ op \in Ops /\ a[Active].ended = FALSE
           /\ \E m \in Facts : Does(Active, op, a[Active], m) /\ Runs(Active, Tail(todo[Active]), m, Idle)
  <1>1. todo["main"] # << >>
    <2>1. SUFFICES ASSUME todo["main"] = << >> PROVE FALSE
      OBVIOUS
    <2>2. Runs("main", << >>, a["main"], Idle)
      BY <2>1 DEF Described, Contexts
    <2>3. a["main"] = Idle
      BY <2>2, None
    <2> QED
      BY <2>3, FixedFacts DEF Described
  <1>2. /\ Active \in Contexts /\ todo[Active] # << >>
        /\ Active = "main" <=> (todo["irq"] = << >> /\ todo["nmi"] = << >>)
        /\ Active = "irq" <=> (todo["irq"] # << >> /\ todo["nmi"] = << >>)
        /\ Active = "nmi" <=> todo["nmi"] # << >>
    BY <1>1 DEF Active, Contexts
  <1>3. PICK A \in Contexts : A = Active
    BY <1>2
  <1>4. Runs(A, todo[A], a[A], Idle) /\ todo[A] # << >>
    BY <1>2, <1>3 DEF Described
  <1>5. Head(todo[A]) \in Ops /\ \E m \in Facts : Does(A, Head(todo[A]), a[A], m) /\ Runs(A, Tail(todo[A]), m, Idle)
    BY <1>4, First
  <1>6. a[A].ended = FALSE
    BY <1>5 DEF Does
  <1> QED
    BY <1>2, <1>3, <1>5, <1>6 DEF op

(***************************************************************************)
(* A context with nothing to do has no lock and no interrupt in service.   *)
(***************************************************************************)
LEMMA IdleFacts ==
    ASSUME NEW a \in [Contexts -> Facts], Described(a), NEW c \in Contexts, todo[c] = << >>
    PROVE  a[c] = Idle
  <1>1. Runs(c, << >>, a[c], Idle)
    BY DEF Described
  <1> QED
    BY <1>1, None

(***************************************************************************)
(* A step of the active context keeps the state described when the facts   *)
(* it has afterwards do what is left of its list.                          *)
(***************************************************************************)
LEMMA Kept ==
    ASSUME NEW a \in [Contexts -> Facts], Described(a), NEW n \in Facts, NEW t,
           todo' = [todo EXCEPT ![Active] = t], Runs(Active, t, n, Idle), n.ended = FALSE,
           Proper(Active, n), IF_' = n.on,
           Active = "main" => ready' = n.set \cap Parts, Active # "main" => ready' = ready,
           firmware' = firmware, machine = "running",
           Active = "main" => Meant(n, Idle)', Active = "irq" => Meant(a["main"], n)',
           Active = "nmi" => UNCHANGED <<reset_info, port>>,
           \A l \in Locks : holder'[l] = {c \in Contexts : l \in (IF c = Active THEN n.held ELSE a[c].held)},
           holder' = [l \in Locks |-> holder'[l]],
           \A c \in Contexts : c # Active => n.held \cap a[c].held = {},
           Active = "irq" => (n.served = TRUE => isr' = {}), Active # "irq" => isr' = isr, isr' \subseteq isr
    PROVE  \E b \in [Contexts -> Facts] : Described(b)'
  <1>1. PICK A \in Contexts : A = Active /\ todo[A] # << >>
    BY Current
  <1>2. PICK b \in [Contexts -> Facts] : b[A] = n /\ \A c \in Contexts : c # A => b[c] = a[c]
    <2> DEFINE f == [a EXCEPT ![A] = n]
    <2>1. f \in [Contexts -> Facts] /\ f[A] = n /\ \A c \in Contexts : c # A => f[c] = a[c]
      OBVIOUS
    <2> QED
      BY <2>1
  <1>3. t \in Seq(Ops)
    BY DEF Runs
  <1>4. todo' \in [Contexts -> Seq(Ops)] /\ todo'[A] = t /\ \A c \in Contexts : c # A => todo'[c] = todo[c]
    BY <1>1, <1>3 DEF Described
  <1>5. t # << >>
    <2>1. SUFFICES ASSUME t = << >> PROVE FALSE
      OBVIOUS
    <2>2. n = Idle
      BY <2>1, None
    <2> QED
      BY <2>2, FixedFacts
  <1>6. Active' = A
    BY <1>1, <1>4, <1>5 DEF Active, Contexts
  <1>7. ASSUME NEW c \in Contexts PROVE Runs(c, todo'[c], b[c], Idle) /\ Proper(c, b[c])
    BY <1>1, <1>2, <1>4 DEF Described
  <1>8. b["main"].ended = FALSE
    BY <1>2 DEF Described, Contexts
  <1>9. holder' = [l \in Locks |-> {c \in Contexts : l \in b[c].held}]
    <2>1. ASSUME NEW l \in Locks PROVE holder'[l] = {c \in Contexts : l \in b[c].held}
      BY <1>1, <1>2
    <2> QED
      BY <2>1
  <1>10. IF_' = b[A].on
    BY <1>2
  <1>11. todo'["irq"] # << >> => b["main"].on = TRUE
    <2>1. CASE A = "main"
      <3>1. todo["irq"] = << >>
        BY <1>1, <2>1, Current
      <3> QED
        BY <1>4, <2>1, <3>1 DEF Contexts
    <2>2. CASE A # "main"
      <3>1. b["main"] = a["main"] /\ (todo'["irq"] # << >> => todo["irq"] # << >>)
        BY <1>1, <1>2, <1>4, <2>2 DEF Contexts
      <3> QED
        BY <3>1 DEF Described
    <2> QED
      BY <2>1, <2>2
  <1>12. ready' = b["main"].set \cap Parts
    BY <1>1, <1>2 DEF Described, Contexts
  <1>13. b["irq"].served = TRUE => isr' = {}
    BY <1>1, <1>2 DEF Described, Contexts
  <1>14. \E i \in {TIMER, KEYBOARD_IRQ} : isr' \subseteq {i}
    BY DEF Described
  <1>14a. Exclusive(b)
    <2> SUFFICES ASSUME NEW c \in Contexts, NEW d \in Contexts, c # d
                 PROVE  b[c].held \cap b[d].held = {}
      BY DEF Exclusive
    <2>1. CASE c # A /\ d # A
      BY <1>2, <2>1 DEF Described, Exclusive
    <2>2. CASE c = A
      BY <1>1, <1>2, <2>2
    <2>3. CASE d = A
      BY <1>1, <1>2, <2>3
    <2> QED
      BY <2>1, <2>2, <2>3
  <1>14b. Meant(b["main"], b["irq"])'
    <2>1. CASE A = "main"
      <3>1. todo["irq"] = << >>
        BY <1>1, <2>1, Current
      <3>2. b["main"] = n /\ b["irq"] = Idle
        BY <1>2, <2>1, <3>1, IdleFacts DEF Contexts
      <3> QED
        BY <1>1, <2>1, <3>2
    <2>2. CASE A = "irq"
      <3>1. b["main"] = a["main"] /\ b["irq"] = n
        BY <1>2, <2>2 DEF Contexts
      <3> QED
        BY <1>1, <2>2, <3>1
    <2>3. CASE A = "nmi"
      <3>1. b["main"] = a["main"] /\ b["irq"] = a["irq"] /\ todo'["irq"] = todo["irq"]
        BY <1>2, <1>4, <2>3 DEF Contexts
      <3>2. Meant(a["main"], a["irq"])
        BY DEF Described
      <3>3. UNCHANGED <<reset_info, port>>
        BY <1>1, <2>3
      <3>4. Meant(a["main"], a["irq"])'
        BY <3>1, <3>2, <3>3 DEF Meant, Usable, Field
      <3> QED
        BY <3>1, <3>4
    <2> QED
      BY <2>1, <2>2, <2>3 DEF Contexts
  <1>15. Described(b)'
    BY <1>14a, <1>14b, <1>4, <1>6, <1>7, <1>8, <1>9, <1>10, <1>11, <1>12, <1>13, <1>14 DEF Described
  <1> QED
    BY <1>2, <1>15

(***************************************************************************)
(* The same for a step that leaves the locks and the controller alone.     *)
(***************************************************************************)
\* A step that touches neither the tables nor the ports.
SameTables == machine = "running" /\ UNCHANGED <<firmware, reset_info, port>>

LEMMA SameMeaning ==
    ASSUME NEW a \in [Contexts -> Facts], Described(a), SameTables, NEW n \in Facts, NEW t,
           todo' = [todo EXCEPT ![Active] = t], Runs(Active, t, n, Idle), n.ended = FALSE,
           n.set \cap Marks = a[Active].set \cap Marks
    PROVE  /\ Active = "main" => Meant(n, Idle)'
           /\ Active = "irq" => Meant(a["main"], n)'
  <1>0. firmware' = firmware /\ reset_info' = reset_info /\ port' = port /\ machine = "running"
    BY DEF SameTables
  <1>1. Meant(a["main"], a["irq"])
    BY DEF Described
  <1>2. "acpi" \in Marks /\ "stored" \in Marks /\ "tried" \in Marks
    BY DEF Marks
  <1>3. CASE Active = "main"
    <2>1. todo["irq"] = << >>
      BY <1>3, Current
    <2>2. a["irq"] = Idle /\ port = {}
      BY <1>1, <2>1, IdleFacts DEF Contexts, Meant
    <2>3. ("acpi" \in n.set => "acpi" \in a["main"].set) /\ ("stored" \in n.set => "stored" \in a["main"].set)
      BY <1>2, <1>3
    <2>4. Meant(n, Idle)'
      BY <1>0, <1>1, <2>2, <2>3, FixedFacts DEF Meant
    <2> QED
      BY <1>3, <2>4
  <1>4. CASE Active = "irq"
    <2>1. "tried" \in n.set <=> "tried" \in a["irq"].set
      BY <1>2, <1>4
    <2>2. t # << >>
      <3>1. SUFFICES ASSUME t = << >> PROVE FALSE
        OBVIOUS
      <3>2. n = Idle
        BY <3>1, None
      <3> QED
        BY <3>2, FixedFacts
    <2>3. todo'["irq"] # << >>
      BY <1>4, <2>2 DEF Described, Contexts
    <2>4. Meant(a["main"], n)'
      BY <1>0, <1>1, <2>1, <2>3 DEF Meant, Usable, Field
    <2> QED
      BY <1>4, <2>4
  <1> QED
    BY <1>3, <1>4

LEMMA KeptQuiet ==
    ASSUME NEW a \in [Contexts -> Facts], Described(a), NEW n \in Facts, NEW t,
           todo' = [todo EXCEPT ![Active] = t], Runs(Active, t, n, Idle), n.ended = FALSE,
           Proper(Active, n), IF_' = n.on,
           Active = "main" => ready' = n.set \cap Parts, Active # "main" => ready' = ready,
           n.set \cap Marks = a[Active].set \cap Marks, SameTables,
           n.held = a[Active].held, n.served = a[Active].served, holder' = holder, isr' = isr
    PROVE  \E b \in [Contexts -> Facts] : Described(b)'
  <1>1. \A l \in Locks : holder'[l] = {c \in Contexts : l \in (IF c = Active THEN n.held ELSE a[c].held)}
    BY DEF Described
  <1>2. holder' = [l \in Locks |-> holder'[l]]
    BY DEF Described
  <1>3. Active = "irq" => (n.served = TRUE => isr' = {})
    BY DEF Described
  <1>4. \A c \in Contexts : c # Active => n.held \cap a[c].held = {}
    BY Current DEF Described, Exclusive
  <1>5. /\ Active = "main" => Meant(n, Idle)'
        /\ Active = "irq" => Meant(a["main"], n)'
        /\ Active = "nmi" => UNCHANGED <<reset_info, port>>
        /\ firmware' = firmware /\ machine = "running"
    BY SameMeaning DEF SameTables
  <1> QED
    BY <1>1, <1>2, <1>3, <1>4, <1>5, Kept

(***************************************************************************)
(* Continue puts operations in front of the rest of the list.              *)
(***************************************************************************)
LEMMA Continued ==
    ASSUME NEW a \in [Contexts -> Facts], Described(a), NEW ops, Continue(ops), NEW n, NEW m,
           Runs(Active, ops, n, m), Runs(Active, Tail(todo[Active]), m, Idle)
    PROVE  \E t : todo' = [todo EXCEPT ![Active] = t] /\ Runs(Active, t, n, Idle)
  <1>1. Runs(Active, ops \o Tail(todo[Active]), n, Idle)
    BY Cat
  <1>2. todo' = [todo EXCEPT ![Active] = ops \o Tail(todo[Active])]
    BY DEF Continue
  <1> QED
    BY <1>1, <1>2

--------------------------------------------------------------------------------
(* Steps after which the active context has the facts it had before *)

LEMMA SameFacts ==
    ASSUME NEW a \in [Contexts -> Facts], Described(a), NEW t,
           todo' = [todo EXCEPT ![Active] = t], Runs(Active, t, a[Active], Idle),
           IF_' = IF_, ready' = ready, holder' = holder, isr' = isr, SameTables
    PROVE  \E b \in [Contexts -> Facts] : Described(b)'
  <1>1. PICK n \in Facts : n = a[Active] /\ n.ended = FALSE
    BY Current
  <1>2. Proper(Active, n) /\ IF_' = n.on
    BY <1>1, Current DEF Described
  <1>3. Active = "main" => ready' = n.set \cap Parts
    BY <1>1 DEF Described
  <1> QED
    BY <1>1, <1>2, <1>3, KeptQuiet

LEMMA SameContinued ==
    ASSUME NEW a \in [Contexts -> Facts], Described(a), NEW ops, Continue(ops), NEW m,
           Runs(Active, ops, a[Active], m), Runs(Active, Tail(todo[Active]), m, Idle),
           IF_' = IF_, ready' = ready, holder' = holder, isr' = isr, SameTables
    PROVE  \E b \in [Contexts -> Facts] : Described(b)'
  <1>1. PICK t : todo' = [todo EXCEPT ![Active] = t] /\ Runs(Active, t, a[Active], Idle)
    BY Continued
  <1> QED
    BY <1>1, SameFacts

(***************************************************************************)
(* What a quiet operation and a last operation may rely on.                *)
(***************************************************************************)
LEMMA AtQuiet ==
    ASSUME NEW a \in [Contexts -> Facts], Described(a), op.op \in Quiet
    PROVE  MayPrint(a[Active]) /\ Runs(Active, Tail(todo[Active]), a[Active], Idle)
  <1>1. PICK m \in Facts : Does(Active, op, a[Active], m) /\ Runs(Active, Tail(todo[Active]), m, Idle)
    BY Current
  <1>2. m = a[Active] /\ "SERIAL" \notin a[Active].held
    BY <1>1 DEF Does, Quiet, Last
  <1>3. a[Active] \in Facts /\ a[Active].ended = FALSE
    BY Current
  <1> QED
    BY <1>1, <1>2, <1>3 DEF MayPrint

LEMMA AtLast ==
    ASSUME NEW a \in [Contexts -> Facts], Described(a), op.op \in Last
    PROVE  MayPrint(a[Active])
  <1>1. PICK m \in Facts : Does(Active, op, a[Active], m)
    BY Current
  <1>2. "SERIAL" \notin a[Active].held
    BY <1>1 DEF Does, Quiet, Last
  <1>3. a[Active] \in Facts /\ a[Active].ended = FALSE
    BY Current
  <1> QED
    BY <1>2, <1>3 DEF MayPrint

LEMMA QuietContinued ==
    ASSUME NEW a \in [Contexts -> Facts], Described(a), op.op \in Quiet, NEW ops, Continue(ops),
           Runs(Active, ops, a[Active], a[Active]),
           IF_' = IF_, ready' = ready, holder' = holder, isr' = isr, SameTables
    PROVE  \E b \in [Contexts -> Facts] : Described(b)'
  BY AtQuiet, SameContinued

(***************************************************************************)
(* Printing, and what does nothing else to locks and interrupts.           *)
(***************************************************************************)
LEMMA PrintKept ==
    ASSUME NEW a \in [Contexts -> Facts], Described(a), PrintOp
    PROVE  \E b \in [Contexts -> Facts] : Described(b)'
  <1>0. op.op \in Quiet
    BY DEF PrintOp, At, Quiet
  <1>1. IF_' = IF_ /\ ready' = ready /\ holder' = holder /\ isr' = isr /\ SameTables
    BY DEF PrintOp, NoLockChange, SameTables, At
  <1>2. ASSUME Continue(IF mirror THEN serial ELSE << >>) PROVE \E b \in [Contexts -> Facts] : Described(b)'
    <2>1. Runs(Active, serial, a[Active], a[Active]) /\ Runs(Active, << >>, a[Active], a[Active])
      BY <1>0, AtQuiet, Prints
    <2>2. Runs(Active, IF mirror THEN serial ELSE << >>, a[Active], a[Active])
      BY <2>1
    <2> QED
      BY <1>0, <1>1, <1>2, <2>2, QuietContinued
  <1>3. ASSUME UNCHANGED todo PROVE \E b \in [Contexts -> Facts] : Described(b)'
    <2>1. Active' = Active
      BY <1>3 DEF Active
    <2>2. Meant(a["main"], a["irq"])'
      BY <1>1, <1>3 DEF Described, Meant, Usable, Field, SameTables
    <2>3. Described(a)'
      BY <1>1, <1>3, <2>1, <2>2 DEF Described
    <2> QED
      BY <2>3
  <1> QED
    BY <1>2, <1>3 DEF PrintOp

LEMMA QuietKept ==
    ASSUME NEW a \in [Contexts -> Facts], Described(a), MaybePrint \/ ToggleSerial
    PROVE  \E b \in [Contexts -> Facts] : Described(b)'
  <1>0. op.op \in Quiet
    BY DEF MaybePrint, ToggleSerial, At, Quiet
  <1>1. IF_' = IF_ /\ ready' = ready /\ holder' = holder /\ isr' = isr /\ SameTables
    BY DEF MaybePrint, ToggleSerial, OnlyTodoChanges, NoLockChange, SameTables, At
  <1>2. PICK x : x = a[Active] /\ MayPrint(x)
    BY <1>0, AtQuiet
  <1>3. Runs(Active, print, x, x) /\ Runs(Active, << >>, x, x)
    BY <1>2, Prints
  <1>4. Continue(<< >>) \/ Continue(print)
    BY DEF MaybePrint, ToggleSerial
  <1> QED
    BY <1>0, <1>1, <1>2, <1>3, <1>4, QuietContinued

(***************************************************************************)
(* A panic, the end of QEMU, and the set-up that may fail: what was left   *)
(* is never done.                                                          *)
(***************************************************************************)
LEMMA AbandonKept ==
    ASSUME NEW a \in [Contexts -> Facts], Described(a), Panic \/ ExitQemu \/ FbInit \/ KmemInit
    PROVE  \E b \in [Contexts -> Facts] : Described(b)'
  <1>0. op.op \in Quiet \/ op.op \in Last
    BY DEF Panic, ExitQemu, FbInit, KmemInit, MayFail, Halting, At, Quiet, Last
  <1>1. IF_' = IF_ /\ ready' = ready /\ holder' = holder /\ isr' = isr /\ SameTables
    BY DEF Panic, ExitQemu, FbInit, KmemInit, MayFail, Halting, OnlyTodoChanges, NoLockChange, SameTables, At
  <1>2. PICK x : x = a[Active] /\ MayPrint(x)
    BY <1>0, AtQuiet, AtLast
  <1>3. Idle \in Facts
    BY FixedFacts
  <1>4. Runs(Active, panic, x, Idle) /\ Runs(Active, <<Op("panic")>>, x, Idle)
    BY <1>2, <1>3, Panics
  <1>5. Runs(Active, <<Op("loop")>>, x, Idle)
    BY <1>2, <1>3, LastOp DEF Last
  <1>6. CASE Panic \/ ExitQemu
    <2>1. Abandon(panic) \/ Abandon(<<Op("loop")>>)
      BY <1>6 DEF Panic, ExitQemu
    <2>2. PICK t : todo' = [todo EXCEPT ![Active] = t] /\ Runs(Active, t, x, Idle)
      BY <1>4, <1>5, <2>1 DEF Abandon
    <2> QED
      BY <1>1, <1>2, <2>2, SameFacts
  <1>7. CASE FbInit \/ KmemInit
    <2>0. op.op \in Quiet
      BY <1>7 DEF FbInit, KmemInit, MayFail, At, Quiet
    <2>1. Continue(<< >>) \/ Abandon(<<Op("panic")>>)
      BY <1>7 DEF FbInit, KmemInit, MayFail
    <2>2. CASE Continue(<< >>)
      BY <1>1, <1>2, <2>0, <2>2, Prints, QuietContinued
    <2>3. CASE Abandon(<<Op("panic")>>)
      <3>1. todo' = [todo EXCEPT ![Active] = <<Op("panic")>>]
        BY <2>3 DEF Abandon
      <3> QED
        BY <1>1, <1>2, <1>4, <3>1, SameFacts
    <2> QED
      BY <2>1, <2>2, <2>3
  <1> QED
    BY <1>6, <1>7

(***************************************************************************)
(* A call of the allocator and a command.                                  *)
(***************************************************************************)
LEMMA AllocKept ==
    ASSUME NEW a \in [Contexts -> Facts], Described(a), Alloc
    PROVE  \E b \in [Contexts -> Facts] : Described(b)'
  <1>0. op.op = "alloc" /\ IF_' = IF_ /\ ready' = ready /\ holder' = holder /\ isr' = isr /\ SameTables
    BY DEF Alloc, At, OnlyTodoChanges, NoLockChange, SameTables
  <1>1. PICK x \in Facts : x = a[Active] /\ x.ended = FALSE
    BY Current
  <1>2. PICK m \in Facts : Does(Active, op, x, m) /\ Runs(Active, Tail(todo[Active]), m, Idle)
    BY <1>1, Current
  <1>3. op.of \in {"panic", "print"} /\ "HEAP" \in x.held /\ "SERIAL" \notin x.held /\ m = Drop(x, "HEAP")
    BY <1>0, <1>2 DEF Does, Quiet, Last
  <1>4. "HEAP" \in Locks
    BY DEF Locks
  <1>5. MayPrint(m)
    <2>1. Drop(x, "HEAP").held = x.held \ {"HEAP"} /\ Drop(x, "HEAP").ended = x.ended
      BY DropFacts
    <2> QED
      BY <1>1, <1>3, <2>1 DEF MayPrint
  <1>6. PICK u \in Ops : u = Unlock("HEAP") /\ u.op = "unlock" /\ u.of = "HEAP"
    BY <1>4, OpsOf
  <1>7. Does(Active, u, x, m)
    BY <1>1, <1>3, <1>6 DEF Does
  <1>8. Runs(Active, <<u>>, x, m)
    BY <1>7, One
  <1>9. PICK v \in Ops : v = Op(op.of) /\ v.op = op.of
    <2>1. op.of \in OpNames
      BY <1>3 DEF OpNames, Quiet, Last
    <2> QED
      BY <2>1, OpsOf
  <1>10. Does(Active, v, m, m)
    BY <1>3, <1>5, <1>9 DEF Does, MayPrint, Quiet, Last
  <1>11. Runs(Active, <<u, v>>, x, m)
    BY <1>7, <1>10, Two
  <1>12. Continue(<<u>>) \/ Continue(<<u, v>>)
    BY <1>6, <1>9 DEF Alloc
  <1> QED
    BY <1>0, <1>1, <1>2, <1>8, <1>11, <1>12, SameContinued

LEMMA KeyKept ==
    ASSUME NEW a \in [Contexts -> Facts], Described(a), ReceiveKey
    PROVE  \E b \in [Contexts -> Facts] : Described(b)'
  <1>0. op.op = "key" /\ IF_' = IF_ /\ ready' = ready /\ holder' = holder /\ isr' = isr /\ SameTables
    BY DEF ReceiveKey, At, OnlyTodoChanges, NoLockChange, SameTables
  <1>1. PICK m \in Facts : Does(Active, op, a[Active], m) /\ Runs(Active, Tail(todo[Active]), m, Idle)
    BY Current
  <1>2. Active = "irq" /\ a[Active] = WithKey /\ m = Idle
    BY <1>0, <1>1 DEF Does, Quiet, Last
  <1>3. PICK c \in Commands : Continue(execute(c) \o AfterKey)
    BY DEF ReceiveKey
  <1>4. Runs("irq", execute(c), WithKey, WithKey) /\ Runs("irq", AfterKey, WithKey, Idle)
    BY Executes, Handlers
  <1>5. Runs("irq", execute(c) \o AfterKey, WithKey, Idle)
    BY <1>4, Cat
  <1> QED
    BY <1>0, <1>1, <1>2, <1>3, <1>5, SameContinued

--------------------------------------------------------------------------------
(* Steps that change the interrupt flag *)

LEMMA MaskedSteps ==
    ASSUME NEW a \in [Contexts -> Facts], Described(a), NEW t,
           todo' = [todo EXCEPT ![Active] = t], Runs(Active, t, Masked(a[Active]), Idle),
           IF_' = FALSE, ready' = ready, holder' = holder, isr' = isr, SameTables
    PROVE  \E b \in [Contexts -> Facts] : Described(b)'
  <1>1. PICK x \in Facts : x = a[Active] /\ x.ended = FALSE
    BY Current
  <1>2. /\ Masked(x) \in Facts /\ Masked(x).held = x.held /\ Masked(x).on = FALSE
        /\ Masked(x).set = x.set /\ Masked(x).served = x.served /\ Masked(x).ended = x.ended
    BY MaskFacts
  <1>3. PICK n \in Facts : /\ n = Masked(x) /\ n.held = x.held /\ n.on = FALSE
                           /\ n.set = x.set /\ n.served = x.served /\ n.ended = FALSE
    BY <1>1, <1>2
  <1>4. Proper(Active, n)
    <2>1. Proper(Active, x)
      BY <1>1, Current DEF Described
    <2> QED
      BY <1>3, <2>1 DEF Proper
  <1>5. Active = "main" => ready' = n.set \cap Parts
    BY <1>1, <1>3 DEF Described
  <1> QED
    BY <1>1, <1>3, <1>4, <1>5, KeptQuiet

(***************************************************************************)
(* Where interrupts are masked, their flag is restored as it was.          *)
(***************************************************************************)
LEMMA Restores ==
    ASSUME NEW a \in [Contexts -> Facts], Described(a), MayPrint(a[Active])
    PROVE  /\ MayPrint(Masked(a[Active]))
           /\ Runs(Active, IF IF_ THEN <<Op("sti")>> ELSE << >>, Masked(a[Active]), a[Active])
  <1>1. PICK x \in Facts : x = a[Active] /\ x.ended = FALSE /\ "SERIAL" \notin x.held
    BY DEF MayPrint
  <1>2. /\ Masked(x) \in Facts /\ Masked(x).held = x.held /\ Masked(x).on = FALSE
        /\ Masked(x).set = x.set /\ Masked(x).ended = x.ended
    BY MaskFacts
  <1>3. PICK n \in Facts : n = Masked(x) /\ n.held = x.held /\ n.on = FALSE /\ n.set = x.set /\ n.ended = FALSE
    BY <1>1, <1>2
  <1>4. MayPrint(n)
    BY <1>1, <1>3 DEF MayPrint
  <1>5. IF_ = x.on /\ Proper(Active, x)
    BY <1>1, Current DEF Described
  <1>6. CASE x.on = TRUE
    <2>1. PICK o \in Ops : o = Op("sti") /\ o.op = "sti"
      BY OpsOf DEF OpNames
    <2>2. Unmasked(n) = x
      BY <1>3, <1>6, Undone
    <2>3. Does(Active, o, n, x)
      BY <1>3, <1>5, <1>6, <2>1, <2>2 DEF Does, Proper
    <2>4. Runs(Active, <<o>>, n, x)
      BY <2>3, One
    <2> QED
      BY <1>1, <1>3, <1>4, <1>5, <1>6, <2>1, <2>4
  <1>7. CASE x.on = FALSE
    <2>1. n = x
      BY <1>3, <1>7, Undone
    <2>2. Runs(Active, << >>, n, x)
      BY <2>1, None
    <2> QED
      BY <1>1, <1>3, <1>4, <1>5, <1>7, <2>2
  <1> QED
    BY <1>6, <1>7, FactFields

LEMMA SerialKept ==
    ASSUME NEW a \in [Contexts -> Facts], Described(a), Serial \/ Int3
    PROVE  \E b \in [Contexts -> Facts] : Described(b)'
  <1>0. op.op \in Quiet
    BY DEF Serial, Int3, At, Quiet
  <1>1. IF_' = FALSE /\ ready' = ready /\ holder' = holder /\ isr' = isr /\ SameTables
    BY DEF Serial, Int3, NoLockChange, SameTables, At
  <1>2. MayPrint(a[Active]) /\ Runs(Active, Tail(todo[Active]), a[Active], Idle)
    BY <1>0, AtQuiet
  <1>3. PICK x : x = a[Active] /\ MayPrint(x)
    BY <1>2
  <1>4. PICK n : n = Masked(a[Active]) /\ MayPrint(n) /\ Runs(Active, IF IF_ THEN <<Op("sti")>> ELSE << >>, n, x)
    BY <1>2, <1>3, Restores
  <1>5. Runs(Active, <<Lock("SERIAL"), Unlock("SERIAL")>>, n, n)
    <2>1. n \in Facts /\ n.ended = FALSE /\ "SERIAL" \notin n.held /\ "SERIAL" \in Locks
      BY <1>4 DEF MayPrint, Locks
    <2>2. n.on = FALSE
      BY <1>3, <1>4, MaskFacts DEF MayPrint
    <2>3. LockRule(Active, "SERIAL", n)
      BY <2>1, <2>2 DEF LockRule
    <2> QED
      BY <2>1, <2>3, TakeDrop
  <1>6. Runs(Active, breakpoint_handler, n, n)
    BY <1>4, Prints
  <1>7. PICK ops : Continue(ops) /\ Runs(Active, ops, n, x)
    <2>1. CASE Serial
      <3>1. Continue(<<Lock("SERIAL"), Unlock("SERIAL")>> \o IF IF_ THEN <<Op("sti")>> ELSE << >>)
        BY <2>1 DEF Serial
      <3>2. Runs(Active, <<Lock("SERIAL"), Unlock("SERIAL")>> \o IF IF_ THEN <<Op("sti")>> ELSE << >>, n, x)
        BY <1>4, <1>5, Cat
      <3> QED
        BY <3>1, <3>2
    <2>2. CASE Int3
      <3>1. Continue(breakpoint_handler \o IF IF_ THEN <<Op("sti")>> ELSE << >>)
        BY <2>2 DEF Int3
      <3>2. Runs(Active, breakpoint_handler \o IF IF_ THEN <<Op("sti")>> ELSE << >>, n, x)
        BY <1>4, <1>6, Cat
      <3> QED
        BY <3>1, <3>2
    <2> QED
      BY <2>1, <2>2
  <1>8. PICK t : todo' = [todo EXCEPT ![Active] = t] /\ Runs(Active, t, n, Idle)
    BY <1>2, <1>3, <1>7, Continued
  <1> QED
    BY <1>1, <1>4, <1>8, MaskedSteps

\* Nothing in front of the rest of the list.
LEMMA Rest ==
    ASSUME NEW a \in [Contexts -> Facts], Described(a), Continue(<< >>), NEW m \in Facts,
           Runs(Active, Tail(todo[Active]), m, Idle)
    PROVE  \E t : todo' = [todo EXCEPT ![Active] = t] /\ Runs(Active, t, m, Idle)
  <1>1. Runs(Active, << >>, m, m)
    BY None
  <1> QED
    BY <1>1, Continued

LEMMA FlagKept ==
    ASSUME NEW a \in [Contexts -> Facts], Described(a), SetIF
    PROVE  \E b \in [Contexts -> Facts] : Described(b)'
  <1>1. ready' = ready /\ holder' = holder /\ isr' = isr /\ Continue(<< >>) /\ SameTables
    BY DEF SetIF, NoLockChange, SameTables, At
  <1>2. PICK x \in Facts : x = a[Active] /\ x.ended = FALSE
    BY Current
  <1>3. PICK m \in Facts : Does(Active, op, x, m) /\ Runs(Active, Tail(todo[Active]), m, Idle)
    BY <1>2, Current
  <1>4. PICK t : todo' = [todo EXCEPT ![Active] = t] /\ Runs(Active, t, m, Idle)
    BY <1>1, <1>3, Rest
  <1>5. CASE op.op = "cli" /\ IF_' = FALSE
    <2>1. m = Masked(x)
      BY <1>3, <1>5 DEF Does, Quiet, Last
    <2> QED
      BY <1>1, <1>2, <1>4, <1>5, <2>1, MaskedSteps
  <1>6. CASE op.op = "sti" /\ IF_' = TRUE
    <2>1. /\ m = Unmasked(x) /\ Active = "main" /\ "idt" \in x.set /\ "pic" \in x.set
          /\ "SERIAL" \notin x.held /\ "PICS" \notin x.held
      BY <1>3, <1>6 DEF Does, Quiet, Last
    <2>2. /\ Unmasked(x).held = x.held /\ Unmasked(x).on = TRUE /\ Unmasked(x).set = x.set
          /\ Unmasked(x).served = x.served /\ Unmasked(x).ended = x.ended
      BY MaskFacts
    <2>3. m.held = x.held /\ m.on = TRUE /\ m.set = x.set /\ m.served = x.served /\ m.ended = FALSE
      BY <1>2, <2>1, <2>2
    <2>4. Proper(Active, m)
      <3>1. Proper(Active, x)
        BY <1>2, Current DEF Described
      <3> QED
        BY <2>1, <2>3, <3>1 DEF Proper
    <2>5. ready' = m.set \cap Parts
      BY <1>1, <1>2, <2>1, <2>3 DEF Described
    <2> QED
      BY <1>1, <1>2, <1>4, <1>6, <2>1, <2>3, <2>4, <2>5, KeptQuiet
  <1> QED
    BY <1>5, <1>6 DEF SetIF, At

--------------------------------------------------------------------------------
(* Locks, set-up, and interrupts *)

LEMMA LockKept ==
    ASSUME NEW a \in [Contexts -> Facts], Described(a), Acquire \/ Release
    PROVE  \E b \in [Contexts -> Facts] : Described(b)'
  <1>1. IF_' = IF_ /\ ready' = ready /\ isr' = isr /\ Continue(<< >>) /\ SameTables
    BY DEF Acquire, Release, SameTables, At
  <1>2. PICK x \in Facts : x = a[Active] /\ x.ended = FALSE
    BY Current
  <1>3. PICK m \in Facts : Does(Active, op, x, m) /\ Runs(Active, Tail(todo[Active]), m, Idle)
    BY <1>2, Current
  <1>4. PICK t : todo' = [todo EXCEPT ![Active] = t] /\ Runs(Active, t, m, Idle)
    BY <1>1, <1>3, Rest
  <1>5. PICK A \in Contexts : A = Active
    BY Current
  <1>6. Proper(A, x) /\ IF_ = x.on /\ (A = "main" => ready = x.set \cap Parts) /\ (A = "irq" => (x.served = TRUE => isr = {}))
    BY <1>2, <1>5 DEF Described
  <1>7. holder = [l \in Locks |-> {c \in Contexts : l \in a[c].held}]
    BY DEF Described
  <1>8. /\ m.on = x.on /\ m.set = x.set /\ m.served = x.served /\ m.ended = FALSE /\ Proper(A, m)
        /\ \A l \in Locks : holder'[l] = {c \in Contexts : l \in (IF c = A THEN m.held ELSE a[c].held)}
        /\ holder' = [l \in Locks |-> holder'[l]]
        /\ \A c \in Contexts : c # A => m.held \cap a[c].held = {}
    <2>0. \A c \in Contexts : c # A => x.held \cap a[c].held = {}
      BY <1>2, <1>5 DEF Described, Exclusive
    <2>1. CASE Acquire
      <3>1. op.op = "lock" /\ holder[op.of] = {} /\ holder' = [holder EXCEPT ![op.of] = {A}]
        BY <1>5, <2>1 DEF Acquire, At
      <3>2. LockRule(A, op.of, x) /\ m = Take(x, op.of)
        BY <1>3, <1>5, <3>1 DEF Does, Quiet, Last
      <3>3. PICK l \in Locks : l = op.of
        BY <3>2 DEF LockRule
      <3>4. /\ Take(x, l).held = x.held \cup {l} /\ Take(x, l).on = x.on /\ Take(x, l).set = x.set
            /\ Take(x, l).served = x.served /\ Take(x, l).ended = x.ended
        BY TakeFacts
      <3>5. m.held = x.held \cup {l} /\ m.on = x.on /\ m.set = x.set /\ m.served = x.served /\ m.ended = FALSE
        BY <1>2, <3>2, <3>3, <3>4
      <3>6. Proper(A, m)
        BY <1>6, <3>2, <3>3, <3>5 DEF Proper, LockRule
      <3>7. holder'[l] = {A} /\ \A k \in Locks : k # l => holder'[k] = holder[k]
        BY <1>7, <3>1, <3>3
      <3>8. \A c \in Contexts : l \notin a[c].held
        BY <1>7, <3>1, <3>3
      <3>9. \A k \in Locks : holder'[k] = {c \in Contexts : k \in (IF c = A THEN m.held ELSE a[c].held)}
        <4> TAKE k \in Locks
        <4>1. CASE k = l
          BY <3>5, <3>7, <3>8, <4>1
        <4>2. CASE k # l
          BY <1>2, <1>5, <1>7, <3>5, <3>7, <4>2
        <4> QED
          BY <4>1, <4>2
      <3>10. holder' = [k \in Locks |-> holder'[k]]
        BY <1>7, <3>1
      <3>11. \A c \in Contexts : c # A => m.held \cap a[c].held = {}
        BY <2>0, <3>5, <3>8
      <3> QED
        BY <3>5, <3>6, <3>9, <3>10, <3>11
    <2>2. CASE Release
      <3>1. op.op = "unlock" /\ holder' = [holder EXCEPT ![op.of] = {}]
        BY <2>2 DEF Release, At
      <3>2. op.of \in x.held /\ m = Drop(x, op.of)
        BY <1>3, <3>1 DEF Does, Quiet, Last
      <3>3. PICK l \in Locks : l = op.of
        BY <3>2, FactFields
      <3>4. /\ Drop(x, l).held = x.held \ {l} /\ Drop(x, l).on = x.on /\ Drop(x, l).set = x.set
            /\ Drop(x, l).served = x.served /\ Drop(x, l).ended = x.ended
        BY DropFacts
      <3>5. m.held = x.held \ {l} /\ m.on = x.on /\ m.set = x.set /\ m.served = x.served /\ m.ended = FALSE
        BY <1>2, <3>2, <3>3, <3>4
      <3>6. Proper(A, m)
        BY <1>6, <3>5 DEF Proper
      <3>7. holder'[l] = {} /\ \A k \in Locks : k # l => holder'[k] = holder[k]
        BY <1>7, <3>1, <3>3
      <3>8. \A c \in Contexts : c # A => l \notin a[c].held
        BY <2>0, <3>2, <3>3
      <3>9. \A k \in Locks : holder'[k] = {c \in Contexts : k \in (IF c = A THEN m.held ELSE a[c].held)}
        <4> TAKE k \in Locks
        <4>1. CASE k = l
          BY <3>5, <3>7, <3>8, <4>1
        <4>2. CASE k # l
          BY <1>2, <1>5, <1>7, <3>5, <3>7, <4>2
        <4> QED
          BY <4>1, <4>2
      <3>10. holder' = [k \in Locks |-> holder'[k]]
        BY <1>7, <3>1
      <3>11. \A c \in Contexts : c # A => m.held \cap a[c].held = {}
        BY <2>0, <3>5
      <3> QED
        BY <3>5, <3>6, <3>9, <3>10, <3>11
    <2> QED
      BY <2>1, <2>2
  <1>9. /\ \A l \in Locks : holder'[l] = {c \in Contexts : l \in (IF c = Active THEN m.held ELSE a[c].held)}
        /\ holder' = [l \in Locks |-> holder'[l]]
        /\ \A c \in Contexts : c # Active => m.held \cap a[c].held = {}
    BY <1>5, <1>8
  <1>10. /\ Proper(Active, m) /\ IF_' = m.on /\ m.ended = FALSE
         /\ (Active = "main" => ready' = m.set \cap Parts) /\ (Active # "main" => ready' = ready)
         /\ (Active = "irq" => (m.served = TRUE => isr' = {})) /\ (Active # "irq" => isr' = isr)
         /\ isr' \subseteq isr
    BY <1>1, <1>5, <1>6, <1>8
  <1>11. m.set \cap Marks = a[Active].set \cap Marks
    BY <1>2, <1>8
  <1>12. /\ Active = "main" => Meant(m, Idle)'
         /\ Active = "irq" => Meant(a["main"], m)'
         /\ Active = "nmi" => UNCHANGED <<reset_info, port>>
         /\ firmware' = firmware /\ machine = "running"
    BY <1>1, <1>4, <1>10, <1>11, SameMeaning DEF SameTables
  <1> QED
    BY <1>4, <1>9, <1>10, <1>12, Kept

LEMMA SetUpKept ==
    ASSUME NEW a \in [Contexts -> Facts], Described(a), NEW o, NEW p, SetsUpPart(o, p), SetUp(o, p)
    PROVE  \E b \in [Contexts -> Facts] : Described(b)'
  <1>1. /\ op.op = o /\ IF_' = IF_ /\ ready' = ready \cup {p} /\ holder' = holder /\ isr' = isr /\ Continue(<< >>)
        /\ SameTables
    BY DEF SetUp, At, NoLockChange, SameTables
  <1>2. PICK x \in Facts : x = a[Active] /\ x.ended = FALSE
    BY Current
  <1>3. PICK m \in Facts : Does(Active, op, x, m) /\ Runs(Active, Tail(todo[Active]), m, Idle)
    BY <1>2, Current
  <1>4. PICK t : todo' = [todo EXCEPT ![Active] = t] /\ Runs(Active, t, m, Idle)
    BY <1>1, <1>3, Rest
  <1>5. Active = "main" /\ m = Having(x, p) /\ (p = "heap" => "stored" \in x.set)
    BY <1>1, <1>3 DEF Does, Quiet, Last, SetsUpPart
  <1>6. p \in Parts
    BY DEF SetsUpPart, Parts
  <1>7. /\ Having(x, p).held = x.held /\ Having(x, p).on = x.on /\ Having(x, p).set = x.set \cup {p}
        /\ Having(x, p).served = x.served /\ Having(x, p).ended = x.ended
    BY <1>6, HavingFacts DEF Parts
  <1>8. m.held = x.held /\ m.on = x.on /\ m.set = x.set \cup {p} /\ m.served = x.served /\ m.ended = FALSE
    BY <1>2, <1>5, <1>7
  <1>9. Proper(Active, x) /\ IF_ = x.on /\ ready = x.set \cap Parts
    BY <1>2, <1>5, Current DEF Described
  <1>10. Proper(Active, m)
    BY <1>5, <1>8, <1>9 DEF Proper
  <1>11. IF_' = m.on /\ ready' = m.set \cap Parts
    BY <1>1, <1>6, <1>8, <1>9
  <1>12. m.set \cap Marks = x.set \cap Marks
    BY <1>6, <1>8 DEF Parts, Marks
  <1> QED
    BY <1>1, <1>2, <1>4, <1>5, <1>8, <1>10, <1>11, <1>12, KeptQuiet

LEMMA EoiKept ==
    ASSUME NEW a \in [Contexts -> Facts], Described(a), Eoi
    PROVE  \E b \in [Contexts -> Facts] : Described(b)'
  <1>1. /\ op.op = "eoi" /\ IF_' = IF_ /\ ready' = ready /\ holder' = holder /\ Continue(<< >>)
        /\ isr' = {i \in isr : \E j \in isr : j < i} /\ SameTables
    BY DEF Eoi, At, SameTables
  <1>2. PICK x \in Facts : x = a[Active] /\ x.ended = FALSE
    BY Current
  <1>3. PICK m \in Facts : Does(Active, op, x, m) /\ Runs(Active, Tail(todo[Active]), m, Idle)
    BY <1>2, Current
  <1>4. PICK t : todo' = [todo EXCEPT ![Active] = t] /\ Runs(Active, t, m, Idle)
    BY <1>1, <1>3, Rest
  <1>5. Active = "irq" /\ m = Served(x)
    BY <1>1, <1>3 DEF Does, Quiet, Last
  <1>6. Served(x).held = x.held /\ Served(x).on = x.on /\ Served(x).set = x.set /\ Served(x).ended = x.ended
    BY MaskFacts
  <1>7. m.held = x.held /\ m.on = x.on /\ m.set = x.set /\ m.ended = FALSE
    BY <1>2, <1>5, <1>6
  <1>8. isr' = {}
    <2>1. PICK i \in {TIMER, KEYBOARD_IRQ} : isr \subseteq {i}
      BY DEF Described
    <2>2. ~(i < i)
      BY <2>1 DEF TIMER, KEYBOARD_IRQ
    <2> QED
      BY <1>1, <2>1, <2>2
  <1>9. Proper(Active, x) /\ IF_ = x.on
    BY <1>2, Current DEF Described
  <1>10. Proper(Active, m) /\ IF_' = m.on
    BY <1>1, <1>7, <1>9 DEF Proper
  <1>11. \A l \in Locks : holder'[l] = {c \in Contexts : l \in (IF c = Active THEN m.held ELSE a[c].held)}
    BY <1>1, <1>2, <1>7 DEF Described
  <1>12. holder' = [l \in Locks |-> holder'[l]]
    BY <1>1 DEF Described
  <1>13. \A c \in Contexts : c # Active => m.held \cap a[c].held = {}
    BY <1>2, <1>7, Current DEF Described, Exclusive
  <1>14. isr' \subseteq isr
    BY <1>8
  <1>15. m.set \cap Marks = a[Active].set \cap Marks
    BY <1>2, <1>7
  <1>16. Meant(a["main"], m)' /\ firmware' = firmware /\ machine = "running"
    BY <1>1, <1>4, <1>5, <1>7, <1>15, SameMeaning DEF SameTables
  <1> QED
    BY <1>1, <1>4, <1>5, <1>7, <1>8, <1>10, <1>11, <1>12, <1>13, <1>14, <1>16, Kept

(***************************************************************************)
(* A handler returns to boot code that has interrupts on.                  *)
(***************************************************************************)
LEMMA IretKept ==
    ASSUME NEW a \in [Contexts -> Facts], Described(a), Iret
    PROVE  \E b \in [Contexts -> Facts] : Described(b)'
  <1>1. /\ op.op = "iret" /\ IF_' = TRUE /\ ready' = ready /\ holder' = holder /\ isr' = isr
        /\ Continue(<< >>) /\ SameTables
    BY DEF Iret, At, NoLockChange, SameTables
  <1>2. PICK m \in Facts : Does(Active, op, a[Active], m) /\ Runs(Active, Tail(todo[Active]), m, Idle)
    BY Current
  <1>3. Active = "irq" /\ a["irq"] = Fresh /\ m = Idle
    BY <1>1, <1>2 DEF Does, Quiet, Last
  <1>4. PICK t : todo' = [todo EXCEPT ![Active] = t] /\ Runs("irq", t, Idle, Idle)
    BY <1>1, <1>2, <1>3, Rest
  <1>5. t = << >>
    <2>1. SUFFICES ASSUME t # << >> PROVE FALSE
      OBVIOUS
    <2>2. PICK d \in Facts : Does("irq", Head(t), Idle, d)
      BY <1>4, <2>1, First
    <2> QED
      BY <2>2, FixedFacts DEF Does
  <1>6. todo["irq"] # << >> /\ todo["nmi"] = << >>
    BY <1>3, Current
  <1>7. /\ todo' \in [Contexts -> Seq(Ops)] /\ todo'["irq"] = << >>
        /\ \A c \in Contexts : c # "irq" => todo'[c] = todo[c]
    BY <1>3, <1>4, <1>5 DEF Described, Contexts
  <1>8. Active' = "main"
    BY <1>6, <1>7 DEF Active, Contexts
  <1>9. PICK b \in [Contexts -> Facts] : b["irq"] = Idle /\ \A c \in Contexts : c # "irq" => b[c] = a[c]
    <2> DEFINE f == [a EXCEPT !["irq"] = Idle]
    <2>1. f \in [Contexts -> Facts] /\ f["irq"] = Idle /\ \A c \in Contexts : c # "irq" => f[c] = a[c]
      BY FixedFacts DEF Contexts
    <2> QED
      BY <2>1
  <1>10. b["main"] = a["main"] /\ a["main"].on = TRUE
    BY <1>6, <1>9 DEF Described, Contexts
  <1>11. \A c \in Contexts : b[c].held = a[c].held
    BY <1>3, <1>9, FixedFacts
  <1>12. holder' = [l \in Locks |-> {c \in Contexts : l \in b[c].held}]
    BY <1>1, <1>11 DEF Described
  <1>13. Exclusive(b)
    BY <1>11 DEF Described, Exclusive
  <1>14. ASSUME NEW c \in Contexts PROVE Runs(c, todo'[c], b[c], Idle) /\ Proper(c, b[c])
    <2>1. CASE c = "irq"
      <3>1. Runs("irq", << >>, Idle, Idle)
        BY None, FixedFacts
      <3>2. Proper("irq", Idle)
        BY FixedFacts DEF Proper
      <3> QED
        BY <1>7, <1>9, <2>1, <3>1, <3>2
    <2>2. CASE c # "irq"
      BY <1>7, <1>9, <2>2 DEF Described
    <2> QED
      BY <2>1, <2>2
  <1>15. isr' = {}
    <2>1. a["irq"].served = TRUE
      BY <1>3, FixedFacts
    <2> QED
      BY <1>1, <2>1 DEF Described
  <1>16. b["main"].ended = FALSE /\ IF_' = b["main"].on /\ ready' = b["main"].set \cap Parts
    BY <1>1, <1>10 DEF Described
  <1>16a. Meant(b["main"], b["irq"])'
    <2>1. port = {} /\ Meant(a["main"], a["irq"])
      BY <1>1, <1>3, FixedFacts DEF Described, Meant, SameTables
    <2> QED
      BY <1>1, <1>9, <1>10, <2>1, FixedFacts DEF Meant, SameTables
  <1>17. Described(b)'
    BY <1>7, <1>8, <1>10, <1>12, <1>13, <1>14, <1>15, <1>16, <1>16a DEF Described
  <1> QED
    BY <1>9, <1>17

(***************************************************************************)
(* A context that begins: it has nothing yet.                              *)
(***************************************************************************)
LEMMA Begins ==
    ASSUME NEW a \in [Contexts -> Facts], Described(a), NEW A \in {"irq", "nmi"}, todo[A] = << >>,
           NEW n \in Facts, n.held = {}, n.on = FALSE, n.ended = FALSE, NEW t, Runs(A, t, n, Idle),
           todo' = [todo EXCEPT ![A] = t], IF_' = FALSE, ready' = ready, holder' = holder, SameTables,
           n.set = {}, A = "irq" => todo["nmi"] = << >> /\ a["main"].on = TRUE /\ n.served = FALSE,
           A = "nmi" => isr' = isr,
           \E i \in {TIMER, KEYBOARD_IRQ} : isr' \subseteq {i}
    PROVE  todo'[A] # << >> /\ \E b \in [Contexts -> Facts] : Described(b)'
  <1>0. A \in Contexts /\ A # "main"
    BY DEF Contexts
  <1>1. t \in Seq(Ops)
    BY DEF Runs
  <1>2. t # << >>
    <2>1. SUFFICES ASSUME t = << >> PROVE FALSE
      OBVIOUS
    <2>2. n = Idle
      BY <2>1, None
    <2> QED
      BY <2>2, FixedFacts
  <1>3. todo' \in [Contexts -> Seq(Ops)] /\ todo'[A] = t /\ \A c \in Contexts : c # A => todo'[c] = todo[c]
    BY <1>0, <1>1 DEF Described
  <1>4. Active' = A
    BY <1>2, <1>3 DEF Active, Contexts
  <1>5. PICK b \in [Contexts -> Facts] : b[A] = n /\ \A c \in Contexts : c # A => b[c] = a[c]
    <2> DEFINE f == [a EXCEPT ![A] = n]
    <2>1. f \in [Contexts -> Facts] /\ f[A] = n /\ \A c \in Contexts : c # A => f[c] = a[c]
      BY <1>0
    <2> QED
      BY <2>1
  <1>6. b["main"] = a["main"]
    BY <1>0, <1>5 DEF Contexts
  <1>7. \A c \in Contexts : b[c].held = a[c].held
    <2>1. a[A].held = {}
      BY <1>0, IdleFacts, FixedFacts
    <2> QED
      BY <1>5, <2>1
  <1>8. holder' = [l \in Locks |-> {c \in Contexts : l \in b[c].held}]
    BY <1>7 DEF Described
  <1>9. Exclusive(b)
    BY <1>7 DEF Described, Exclusive
  <1>10. ASSUME NEW c \in Contexts PROVE Runs(c, todo'[c], b[c], Idle) /\ Proper(c, b[c])
    <2>1. CASE c = A
      <3>1. Proper(A, n)
        BY <1>0 DEF Proper
      <3> QED
        BY <1>3, <1>5, <2>1, <3>1
    <2>2. CASE c # A
      BY <1>3, <1>5, <2>2 DEF Described
    <2> QED
      BY <2>1, <2>2
  <1>11. b["irq"].served = TRUE => isr' = {}
    <2>1. CASE A = "irq"
      BY <1>5, <2>1
    <2>2. CASE A = "nmi"
      <3>1. b["irq"] = a["irq"]
        BY <1>5, <2>2 DEF Contexts
      <3> QED
        BY <2>2, <3>1 DEF Described
    <2> QED
      BY <2>1, <2>2
  <1>12. todo'["irq"] # << >> => b["main"].on = TRUE
    <2>1. CASE A = "irq"
      BY <1>6, <2>1
    <2>2. CASE A = "nmi"
      <3>1. todo'["irq"] = todo["irq"]
        BY <1>3, <2>2 DEF Contexts
      <3> QED
        BY <1>6, <3>1 DEF Described
    <2> QED
      BY <2>1, <2>2
  <1>13. b["main"].ended = FALSE /\ IF_' = b[A].on /\ ready' = b["main"].set \cap Parts
    BY <1>5, <1>6 DEF Described
  <1>13a. Meant(b["main"], b["irq"])'
    <2>0. Meant(a["main"], a["irq"])
      BY DEF Described
    <2>1. CASE A = "irq"
      <3>1. port = {} /\ b["irq"] = n
        BY <1>5, <2>0, <2>1 DEF Meant
      <3> QED
        BY <1>6, <2>0, <3>1 DEF Meant, SameTables
    <2>2. CASE A = "nmi"
      <3>1. b["irq"] = a["irq"] /\ todo'["irq"] = todo["irq"]
        BY <1>3, <1>5, <2>2 DEF Contexts
      <3> QED
        BY <1>6, <2>0, <3>1 DEF Meant, Usable, Field, SameTables
    <2> QED
      BY <2>1, <2>2
  <1>14. Described(b)'
    BY <1>3, <1>4, <1>8, <1>9, <1>10, <1>11, <1>12, <1>13, <1>13a DEF Described
  <1> QED
    BY <1>2, <1>3, <1>5, <1>14

(***************************************************************************)
(* An interrupt comes only to boot code that has set up its handlers, and  *)
(* no other interrupt is then in service.                                  *)
(***************************************************************************)
LEMMA DeliverKept ==
    ASSUME NEW a \in [Contexts -> Facts], Described(a), NEW i \in {TIMER, KEYBOARD_IRQ}, Deliver(i)
    PROVE  machine' = "running" /\ \E b \in [Contexts -> Facts] : Described(b)'
  <1>0. /\ IF_ /\ todo.nmi = << >> /\ IF_' = FALSE /\ isr' = isr \cup {i}
        /\ ready' = ready /\ holder' = holder
        /\ machine' = IF {"idt", "pic"} \subseteq ready THEN "running" ELSE "lost"
        /\ SameTables
    BY DEF Deliver, SameTables
  <1>1. PICK A \in Contexts : A = Active
    BY Current
  <1>2. a[A].on = TRUE /\ Proper(A, a[A])
    <2>1. a[A].on = TRUE \/ a[A].on = FALSE
      BY FactFields
    <2>2. IF_ = a[A].on
      BY <1>1 DEF Described
    <2> QED
      BY <1>0, <1>1, <2>1, <2>2 DEF Described
  <1>3. A = "main" /\ "idt" \in a["main"].set /\ "pic" \in a["main"].set
    BY <1>2 DEF Proper
  <1>4. machine' = "running"
    BY <1>0, <1>3 DEF Described, Parts
  <1>5. todo["irq"] = << >> /\ todo["nmi"] = << >>
    BY <1>1, <1>3, Current
  <1>6. isr = {}
    <2>1. a["irq"] = Idle
      BY <1>5, IdleFacts DEF Contexts
    <2> QED
      BY <2>1, FixedFacts DEF Described
  <1>7. Runs("irq", Handler(i), Entered, Idle)
    BY Handlers DEF Handler
  <1>8. Handler(i) \o << >> = Handler(i)
    BY <1>7 DEF Runs
  <1>9. todo' = [todo EXCEPT !["irq"] = Handler(i)]
    <2>1. todo' = [todo EXCEPT !["irq"] = Handler(i) \o todo["irq"]]
      BY DEF Deliver
    <2> QED
      BY <1>5, <1>8, <2>1
  <1>10. isr' \subseteq {i}
    BY <1>0, <1>6
  <1>11. a["main"].on = TRUE
    BY <1>2, <1>3
  <1>12. \E b \in [Contexts -> Facts] : Described(b)'
    BY <1>0, <1>5, <1>7, <1>9, <1>10, <1>11, FixedFacts, Begins
  <1> QED
    BY <1>4, <1>12

LEMMA NmiKept ==
    ASSUME NEW a \in [Contexts -> Facts], Described(a), Nmi
    PROVE  todo'["nmi"] # << >> /\ \E b \in [Contexts -> Facts] : Described(b)'
  <1>0. todo["nmi"] = << >> /\ IF_' = FALSE /\ isr' = isr /\ ready' = ready /\ holder' = holder /\ SameTables
    BY DEF Nmi, SameTables
  <1>1. Runs("nmi", fatal_exception, Fresh, Idle)
    <2>1. MayPrint(Fresh) /\ Idle \in Facts /\ Fresh.on = FALSE /\ Fresh \in Facts
      BY FixedFacts DEF MayPrint
    <2>2. Masked(Fresh) = Fresh
      BY <2>1, Undone
    <2>3. Runs("nmi", fatal_exception, Masked(Fresh), Idle)
      BY <2>1, Panics
    <2> QED
      BY <2>2, <2>3
  <1>2. todo' = [todo EXCEPT !["nmi"] = fatal_exception]
    BY DEF Nmi
  <1>3. \E i \in {TIMER, KEYBOARD_IRQ} : isr' \subseteq {i}
    BY <1>0 DEF Described
  <1> QED
    BY <1>0, <1>1, <1>2, <1>3, FixedFacts, Begins

--------------------------------------------------------------------------------
(* The tables and the reset register *)

(***************************************************************************)
(* acpi::init: a fault, nothing to store, or a store.                      *)
(***************************************************************************)
LEMMA AcpiKept ==
    ASSUME NEW a \in [Contexts -> Facts], Described(a), AcpiInit
    PROVE  \E b \in [Contexts -> Facts] : Described(b)'
  <1>1. op.op = "acpi_init" /\ ready' = ready /\ holder' = holder /\ isr' = isr /\ SameTables
    BY DEF AcpiInit, NoLockChange, SameTables, At
  <1>2. PICK x \in Facts : x = a[Active] /\ x.ended = FALSE
    BY Current
  <1>3. PICK m \in Facts : Does(Active, op, x, m) /\ Runs(Active, Tail(todo[Active]), m, Idle)
    BY <1>2, Current
  <1>4. Active = "main" /\ "SERIAL" \notin x.held /\ m = Having(Having(x, "acpi"), "stored")
    BY <1>1, <1>3 DEF Does, Quiet, Last
  <1>5. MayPrint(x)
    BY <1>2, <1>4 DEF MayPrint
  <1>6. ASSUME Abandon(fatal_exception), IF_' = FALSE PROVE \E b \in [Contexts -> Facts] : Described(b)'
    <2>1. Runs(Active, fatal_exception, Masked(x), Idle)
      BY <1>5, Panics, FixedFacts
    <2>2. todo' = [todo EXCEPT ![Active] = fatal_exception]
      BY <1>6 DEF Abandon
    <2> QED
      BY <1>1, <1>2, <1>6, <2>1, <2>2, MaskedSteps
  <1>7. ASSUME ~ReadsUnmapped(firmware), IF_' = IF_,
               Continue(IF reset_info_of(firmware) = {} THEN serial ELSE <<Op("store")>> \o serial)
        PROVE  \E b \in [Contexts -> Facts] : Described(b)'
    <2>0. "acpi" \in Parts \cup Marks /\ "stored" \in Parts \cup Marks
      BY DEF Marks
    <2>1. /\ Having(x, "acpi") \in Facts /\ Having(x, "acpi").held = x.held /\ Having(x, "acpi").on = x.on
          /\ Having(x, "acpi").ended = x.ended /\ Having(x, "acpi").served = x.served
          /\ Having(x, "acpi").set = x.set \cup {"acpi"}
      BY <2>0, HavingFacts
    <2>2. PICK y \in Facts : /\ y = Having(x, "acpi") /\ y.held = x.held /\ y.on = x.on /\ y.ended = FALSE
                             /\ y.served = x.served /\ y.set = x.set \cup {"acpi"}
      BY <1>2, <2>1
    <2>3. /\ Having(y, "stored").held = y.held /\ Having(y, "stored").on = y.on
          /\ Having(y, "stored").ended = y.ended /\ Having(y, "stored").served = y.served
          /\ Having(y, "stored").set = y.set \cup {"stored"}
      BY <2>0, HavingFacts
    <2>4. /\ m = Having(y, "stored") /\ m.held = x.held /\ m.on = x.on /\ m.ended = FALSE
          /\ m.served = x.served /\ m.set = x.set \cup {"acpi", "stored"}
      BY <1>4, <2>2, <2>3
    <2>5. Runs(Active, serial, m, m)
      BY <1>4, <2>4, Prints DEF MayPrint
    <2>6. Runs(Active, <<Op("store")>>, y, m)
      <3>1. PICK o \in Ops : o = Op("store") /\ o.op = "store"
        BY OpsOf DEF OpNames
      <3>2. Does(Active, o, y, m)
        BY <1>4, <2>2, <2>4, <3>1 DEF Does
      <3> QED
        BY <3>1, <3>2, One
    <2>7. Runs(Active, <<Op("store")>> \o serial, y, m)
      BY <2>5, <2>6, Cat
    <2>8. Proper(Active, x) /\ IF_ = x.on /\ ready = x.set \cap Parts /\ Meant(x, Idle)
      <3>1. a["irq"] = Idle
        BY <1>4, Current, IdleFacts DEF Contexts
      <3> QED
        BY <1>2, <1>4, <3>1, Current DEF Described
    <2>9. ASSUME NEW n \in Facts, n.held = x.held, n.on = x.on, n.ended = FALSE, n.served = x.served,
                 n.set = x.set \cup {"acpi"} \/ (n.set = x.set \cup {"acpi", "stored"} /\ reset_info_of(firmware) = {}),
                 NEW ops, Continue(ops), Runs(Active, ops, n, m)
          PROVE  \E b \in [Contexts -> Facts] : Described(b)'
      <3>1. PICK t : todo' = [todo EXCEPT ![Active] = t] /\ Runs(Active, t, n, Idle)
        BY <1>3, <2>9, Continued
      <3>2. Proper(Active, n)
        BY <2>8, <2>9 DEF Proper
      <3>3. ready' = n.set \cap Parts
        BY <1>1, <2>8, <2>9 DEF Parts
      <3>4. Meant(n, Idle)'
        <4>1. port = {}
          BY <1>4, Current DEF Described, Meant
        <4> QED
          BY <1>1, <1>7, <2>8, <2>9, <4>1, FixedFacts DEF Meant, SameTables
      <3>5. /\ \A l \in Locks : holder'[l] = {c \in Contexts : l \in (IF c = Active THEN n.held ELSE a[c].held)}
            /\ holder' = [l \in Locks |-> holder'[l]]
        BY <1>1, <1>2, <2>9 DEF Described
      <3>6. \A c \in Contexts : c # Active => n.held \cap a[c].held = {}
        BY <1>2, <2>9, Current DEF Described, Exclusive
      <3>7. IF_' = n.on
        BY <1>7, <2>8, <2>9
      <3>8. /\ firmware' = firmware /\ machine = "running" /\ isr' = isr /\ isr' \subseteq isr
            /\ Active = "main" /\ Active # "irq" /\ Active # "nmi"
        BY <1>1, <1>4 DEF SameTables
      <3>9. n.ended = FALSE
        BY <2>9
      <3> QED
        BY <3>1, <3>2, <3>3, <3>4, <3>5, <3>6, <3>7, <3>8, <3>9, Kept
    <2>10. CASE reset_info_of(firmware) = {}
      BY <1>7, <2>4, <2>5, <2>9, <2>10
    <2>11. CASE reset_info_of(firmware) # {}
      BY <1>7, <2>2, <2>7, <2>9, <2>11
    <2> QED
      BY <2>10, <2>11
  <1> QED
    BY <1>6, <1>7 DEF AcpiInit

\* Kept, for a step that leaves the locks and the controller alone.
LEMMA KeptMeant ==
    ASSUME NEW a \in [Contexts -> Facts], Described(a), NEW n \in Facts, NEW t,
           todo' = [todo EXCEPT ![Active] = t], Runs(Active, t, n, Idle), n.ended = FALSE,
           Proper(Active, n), IF_' = n.on,
           Active = "main" => ready' = n.set \cap Parts, Active # "main" => ready' = ready,
           n.held = a[Active].held, n.served = a[Active].served, holder' = holder, isr' = isr,
           firmware' = firmware, machine = "running", Active # "nmi",
           Active = "main" => Meant(n, Idle)', Active = "irq" => Meant(a["main"], n)'
    PROVE  \E b \in [Contexts -> Facts] : Described(b)'
  <1>1. /\ \A l \in Locks : holder'[l] = {c \in Contexts : l \in (IF c = Active THEN n.held ELSE a[c].held)}
        /\ holder' = [l \in Locks |-> holder'[l]]
    BY DEF Described
  <1>2. Active = "irq" => (n.served = TRUE => isr' = {})
    BY DEF Described
  <1>3. \A c \in Contexts : c # Active => n.held \cap a[c].held = {}
    BY Current DEF Described, Exclusive
  <1>4. isr' \subseteq isr
    OBVIOUS
  <1> QED
    BY <1>1, <1>2, <1>3, <1>4, Kept

LEMMA NotDone ==
    ASSUME NEW c, NEW t, NEW n, Runs(c, t, n, Idle), n.ended = FALSE
    PROVE  t # << >>
  <1> SUFFICES ASSUME t = << >> PROVE FALSE
    OBVIOUS
  <1>1. n = Idle
    BY None
  <1> QED
    BY <1>1, FixedFacts

(***************************************************************************)
(* RESET_INFO, one field after the other.                                  *)
(***************************************************************************)
LEMMA StoreKept ==
    ASSUME NEW a \in [Contexts -> Facts], Described(a), StoreResetInfo
    PROVE  \E b \in [Contexts -> Facts] : Described(b)'
  <1>1. /\ op.op = "store" /\ machine = "running" /\ IF_' = IF_ /\ ready' = ready /\ holder' = holder
        /\ isr' = isr /\ firmware' = firmware /\ port' = port
    BY DEF StoreResetInfo, NoLockChange, At
  <1>2. PICK f \in Fields \ DOMAIN reset_info, i \in reset_info_of(firmware) :
            Continue(IF DOMAIN reset_info' = Fields THEN << >> ELSE <<op>>)
    BY DEF StoreResetInfo
  <1>3. PICK x \in Facts : x = a[Active] /\ x.ended = FALSE
    BY Current
  <1>4. PICK m \in Facts : Does(Active, op, x, m) /\ Runs(Active, Tail(todo[Active]), m, Idle)
    BY <1>3, Current
  <1>5. Active = "main" /\ "acpi" \in x.set /\ m = Having(x, "stored")
    BY <1>1, <1>4 DEF Does, Quiet, Last
  <1>6. "stored" \in Parts \cup Marks
    BY DEF Marks
  <1>7. /\ Having(x, "stored").held = x.held /\ Having(x, "stored").on = x.on
        /\ Having(x, "stored").ended = x.ended /\ Having(x, "stored").served = x.served
        /\ Having(x, "stored").set = x.set \cup {"stored"}
    BY <1>6, HavingFacts
  <1>8. /\ m.held = x.held /\ m.on = x.on /\ m.ended = FALSE /\ m.served = x.served
        /\ m.set = x.set \cup {"stored"}
    BY <1>3, <1>5, <1>7
  <1>9. Proper(Active, x) /\ IF_ = x.on /\ ready = x.set \cap Parts /\ Meant(x, Idle) /\ port = {}
    <2>1. a["irq"] = Idle
      BY <1>5, Current, IdleFacts DEF Contexts
    <2>2. port = {}
      BY <1>5, Current DEF Described, Meant
    <2> QED
      BY <1>3, <1>5, <2>1, <2>2, Current DEF Described
  <1>10. CASE DOMAIN reset_info' = Fields
    <2>1. PICK t : todo' = [todo EXCEPT ![Active] = t] /\ Runs(Active, t, m, Idle)
      BY <1>2, <1>4, <1>10, Rest
    <2>2. Proper(Active, m)
      BY <1>8, <1>9 DEF Proper
    <2>3. ready' = m.set \cap Parts /\ IF_' = m.on
      BY <1>1, <1>8, <1>9 DEF Parts
    <2>4. Meant(m, Idle)'
      BY <1>1, <1>5, <1>9, <1>10, FixedFacts DEF Meant
    <2> QED
      BY <1>1, <1>3, <1>5, <1>8, <2>1, <2>2, <2>3, <2>4, KeptMeant
  <1>11. CASE DOMAIN reset_info' # Fields
    <2>1. Runs(Active, <<op>>, x, m)
      BY <1>4, Current, One
    <2>2. PICK t : todo' = [todo EXCEPT ![Active] = t] /\ Runs(Active, t, x, Idle)
      BY <1>2, <1>4, <1>11, <2>1, Continued
    <2>3. "stored" \notin x.set
      BY <1>2, <1>9 DEF Meant
    <2>4. Meant(x, Idle)'
      BY <1>1, <1>5, <1>9, <2>3, FixedFacts DEF Meant
    <2> QED
      BY <1>1, <1>3, <1>5, <1>9, <2>2, <2>4, KeptMeant
  <1> QED
    BY <1>10, <1>11

(***************************************************************************)
(* The attempts of a reboot.                                               *)
(***************************************************************************)
LEMMA ResetKept ==
    ASSUME NEW a \in [Contexts -> Facts], Described(a), ResetReg
    PROVE  \E b \in [Contexts -> Facts] : Described(b)'
  <1>1. /\ op.op = "reset_reg" /\ machine = "running" /\ IF_' = IF_ /\ ready' = ready /\ holder' = holder
        /\ isr' = isr /\ firmware' = firmware /\ reset_info' = reset_info
        /\ Continue(serial \o fallback_reboot)
    BY DEF ResetReg, NoLockChange, At
  <1>2. \/ Usable /\ port' = {[address |-> Field("address"), value |-> Field("value")]}
        \/ ~Usable /\ port' = port
    BY DEF ResetReg, Usable
  <1>3. PICK x \in Facts : x = a[Active] /\ x.ended = FALSE
    BY Current
  <1>4. PICK m \in Facts : Does(Active, op, x, m) /\ Runs(Active, Tail(todo[Active]), m, Idle)
    BY <1>3, Current
  <1>5. Active = "irq" /\ "tried" \notin x.set /\ m = x /\ "SERIAL" \notin x.held
    BY <1>1, <1>4 DEF Does, Quiet, Last
  <1>6. "tried" \in Parts \cup Marks
    BY DEF Marks
  <1>7. /\ Having(x, "tried") \in Facts /\ Having(x, "tried").held = x.held /\ Having(x, "tried").on = x.on
        /\ Having(x, "tried").ended = x.ended /\ Having(x, "tried").served = x.served
        /\ Having(x, "tried").set = x.set \cup {"tried"}
    BY <1>6, HavingFacts
  <1>8. PICK n \in Facts : /\ n = Having(x, "tried") /\ n.held = x.held /\ n.on = x.on /\ n.ended = FALSE
                           /\ n.served = x.served /\ n.set = x.set \cup {"tried"}
    BY <1>3, <1>7
  <1>9. Runs(Active, serial \o fallback_reboot, n, x)
    BY <1>3, <1>5, <1>8, Resets DEF MayPrint
  <1>10. PICK t : todo' = [todo EXCEPT ![Active] = t] /\ Runs(Active, t, n, Idle)
    BY <1>1, <1>4, <1>5, <1>9, Continued
  <1>11. t # << >> /\ todo'["irq"] # << >>
    BY <1>5, <1>8, <1>10, NotDone DEF Described, Contexts
  <1>12. Proper(Active, x) /\ IF_ = x.on /\ Meant(a["main"], x)
    BY <1>3, <1>5, Current DEF Described
  <1>13. Proper(Active, n)
    BY <1>5, <1>8, <1>12 DEF Proper
  <1>14. Meant(a["main"], n)'
    <2>1. "tried" \in n.set
      BY <1>8
    <2>2. CASE Usable /\ port' = {[address |-> Field("address"), value |-> Field("value")]}
      <3>1. Usable' /\ port' # {}
        BY <1>1, <2>2 DEF Usable, Field
      <3>2. \A p \in port' : /\ p = [address |-> Field("address")', value |-> Field("value")']
                             /\ Field("some")' = 1 /\ Field("space")' = 1
        BY <1>1, <2>2 DEF Usable, Field
      <3> QED
        BY <1>1, <1>11, <1>12, <2>1, <3>1, <3>2 DEF Meant
    <2>3. CASE ~Usable /\ port' = port
      BY <1>1, <1>11, <1>12, <2>1, <2>3 DEF Meant, Usable, Field
    <2> QED
      BY <1>2, <2>2, <2>3
  <1>15. IF_' = n.on
    BY <1>1, <1>8, <1>12
  <1> QED
    BY <1>1, <1>3, <1>5, <1>8, <1>10, <1>13, <1>14, <1>15, KeptMeant

LEMMA FallbackKept ==
    ASSUME NEW a \in [Contexts -> Facts], Described(a), Pulse8042 \/ TripleFault
    PROVE  \E b \in [Contexts -> Facts] : Described(b)'
  <1>1. IF_' = IF_ /\ ready' = ready /\ holder' = holder /\ isr' = isr /\ SameTables /\ Continue(<< >>)
    BY DEF Pulse8042, TripleFault, Halting, NoLockChange, SameTables, At
  <1>2. PICK x \in Facts : x = a[Active] /\ x.ended = FALSE
    BY Current
  <1>3. PICK m \in Facts : Does(Active, op, x, m) /\ Runs(Active, Tail(todo[Active]), m, Idle)
    BY <1>2, Current
  <1>4. CASE Pulse8042
    <2>1. m = x
      BY <1>3, <1>4 DEF Does, Quiet, Last, Pulse8042, Halting, At
    <2>2. Runs(Active, << >>, x, x)
      BY None
    <2> QED
      BY <1>1, <1>2, <1>3, <2>1, <2>2, SameContinued
  <1>5. CASE TripleFault
    <2>1. Active = "irq" /\ m = Without(x, "tried") /\ machine' = "reset"
      BY <1>3, <1>5 DEF Does, Quiet, Last, TripleFault, Halting, At
    <2>2. /\ Without(x, "tried").held = x.held /\ Without(x, "tried").on = x.on
          /\ Without(x, "tried").ended = x.ended /\ Without(x, "tried").served = x.served
          /\ Without(x, "tried").set = x.set \ {"tried"}
      BY WithoutFacts
    <2>3. /\ m.held = x.held /\ m.on = x.on /\ m.ended = FALSE /\ m.served = x.served
          /\ m.set = x.set \ {"tried"}
      BY <1>2, <2>1, <2>2
    <2>4. PICK t : todo' = [todo EXCEPT ![Active] = t] /\ Runs(Active, t, m, Idle)
      BY <1>1, <1>3, Rest
    <2>5. t # << >> /\ todo'["irq"] # << >>
      BY <2>1, <2>3, <2>4, NotDone DEF Described, Contexts
    <2>6. Proper(Active, x) /\ IF_ = x.on /\ Meant(a["main"], x)
      BY <1>2, <2>1, Current DEF Described
    <2>7. Proper(Active, m)
      BY <2>1, <2>3, <2>6 DEF Proper
    <2>8. Meant(a["main"], m)'
      BY <1>1, <2>1, <2>3, <2>5, <2>6 DEF Meant, Usable, Field, SameTables
    <2>9. IF_' = m.on /\ firmware' = firmware /\ machine = "running" /\ Active # "nmi" /\ Active # "main"
      BY <1>1, <2>1, <2>3, <2>6 DEF SameTables
    <2> QED
      BY <1>1, <1>2, <2>3, <2>4, <2>7, <2>8, <2>9, KeptMeant
  <1> QED
    BY <1>4, <1>5

--------------------------------------------------------------------------------
(* Theorems *)

LEMMA ThreeLists ==
    ASSUME NEW S, NEW k \in S, NEW e \in S
    PROVE  [main |-> k, irq |-> e, nmi |-> e] \in [{"main", "irq", "nmi"} -> S]
  OBVIOUS

LEMMA KInvInit == KernelInit => KInv
  <1> SUFFICES ASSUME KernelInit PROVE KInv
    OBVIOUS
  <1>1. PICK m \in Machines : todo = [main |-> kmain(m.build), irq |-> << >>, nmi |-> << >>]
    BY DEF KernelInit
  <1>2. /\ holder = [l \in Locks |-> {}] /\ IF_ = FALSE /\ isr = {} /\ ready = {} /\ machine = "running" /\ port = {}
    BY DEF KernelInit
  <1>3. PICK b \in [Contexts -> Facts] : b["main"] = Fresh /\ b["irq"] = Idle /\ b["nmi"] = Idle
    <2> DEFINE f == [c \in Contexts |-> IF c = "main" THEN Fresh ELSE Idle]
    <2>1. f \in [Contexts -> Facts] /\ f["main"] = Fresh /\ f["irq"] = Idle /\ f["nmi"] = Idle
      BY FixedFacts DEF Contexts
    <2> QED
      BY <2>1
  <1>4. Runs("main", kmain(m.build), Fresh, Idle) /\ Runs("irq", << >>, Idle, Idle) /\ Runs("nmi", << >>, Idle, Idle)
    BY Boots, None, FixedFacts
  <1>5. todo["main"] = kmain(m.build) /\ todo["irq"] = << >> /\ todo["nmi"] = << >>
    BY <1>1
  <1>6. todo \in [Contexts -> Seq(Ops)]
    <2>1. kmain(m.build) \in Seq(Ops) /\ << >> \in Seq(Ops)
      BY <1>4 DEF Runs
    <2>2. [main |-> kmain(m.build), irq |-> << >>, nmi |-> << >>] \in [{"main", "irq", "nmi"} -> Seq(Ops)]
      BY <2>1, ThreeLists
    <2> QED
      BY <1>1, <2>2 DEF Contexts
  <1>7. ASSUME NEW c \in Contexts PROVE Runs(c, todo[c], b[c], Idle) /\ Proper(c, b[c]) /\ b[c].held = {}
    <2>1. c = "main" \/ c = "irq" \/ c = "nmi"
      BY DEF Contexts
    <2>2. Proper("main", Fresh) /\ Proper("irq", Idle) /\ Proper("nmi", Idle)
      BY FixedFacts DEF Proper
    <2> QED
      BY <1>3, <1>4, <1>5, <2>1, <2>2, FixedFacts
  <1>8. Active = "main"
    BY <1>5 DEF Active
  <1>9. Exclusive(b)
    BY <1>7 DEF Exclusive
  <1>10. holder = [l \in Locks |-> {c \in Contexts : l \in b[c].held}]
    BY <1>2, <1>7
  <1>11. b["main"].ended = FALSE /\ IF_ = b["main"].on /\ ready = b["main"].set \cap Parts
    BY <1>2, <1>3, FixedFacts
  <1>11a. Meant(b["main"], b["irq"])
    BY <1>2, <1>3, FixedFacts DEF Meant
  <1>12. Described(b)
    BY <1>2, <1>5, <1>6, <1>7, <1>8, <1>9, <1>10, <1>11, <1>11a DEF Described
  <1> QED
    BY <1>2, <1>12 DEF KInv, HandlersInPlace

\* One operation of the active context.
LEMMA StepKept ==
    ASSUME NEW a \in [Contexts -> Facts], Described(a), Step
    PROVE  \E b \in [Contexts -> Facts] : Described(b)'
  <1>1. ASSUME ConsoleInit \/ GdtInit \/ IdtInit \/ PicInit \/ HeapInit
        PROVE  \E b \in [Contexts -> Facts] : Described(b)'
    <2>1. PICK o, p : SetsUpPart(o, p) /\ SetUp(o, p)
      BY <1>1 DEF ConsoleInit, GdtInit, IdtInit, PicInit, HeapInit, SetsUpPart
    <2> QED
      BY <2>1, SetUpKept
  <1>2. ASSUME Boot PROVE \E b \in [Contexts -> Facts] : Described(b)'
    BY <1>1, <1>2, AbandonKept, AcpiKept, StoreKept DEF Boot
  <1> QED
    BY <1>2, LockKept, SerialKept, FlagKept, PrintKept, AbandonKept, QuietKept, KeyKept, AllocKept,
       EoiKept, IretKept, ResetKept, FallbackKept DEF Step

LEMMA KInvNext == KInv /\ [KernelNext]_kernelVars => KInv'
  <1> SUFFICES ASSUME KInv, [KernelNext]_kernelVars PROVE KInv'
    OBVIOUS
  <1>0. PICK a \in [Contexts -> Facts] : Described(a)
    BY DEF KInv
  <1>1. CASE Step
    <2>1. \E b \in [Contexts -> Facts] : Described(b)'
      BY <1>0, <1>1, StepKept
    <2>2. machine = "running" /\ (machine' # "lost" \/ ("console" \notin ready /\ ready' = ready))
      BY <1>1 DEF Step, Boot, At, Acquire, Release, Serial, SetIF, PrintOp, Panic, MaybePrint, ReceiveKey,
                  ToggleSerial, Int3, Alloc, ConsoleInit, GdtInit, IdtInit, PicInit, HeapInit, SetUp,
                  FbInit, KmemInit, MayFail, AcpiInit, StoreResetInfo, ResetReg, MayReset, Pulse8042,
                  TripleFault, ExitQemu, Halting, Eoi, Iret, OnlyTodoChanges
    <2> QED
      BY <2>1, <2>2 DEF KInv, HandlersInPlace
  <1>2. ASSUME NEW i \in {TIMER, KEYBOARD_IRQ}, Deliver(i) PROVE KInv'
    BY <1>0, <1>2, DeliverKept DEF KInv, HandlersInPlace
  <1>3. CASE Tick \/ KeyPress \/ UNCHANGED kernelVars
    <2>1. UNCHANGED <<todo, holder, IF_, isr, ready, machine, firmware, reset_info, port>>
      BY <1>3 DEF Tick, KeyPress, kernelVars
    <2>2. Active' = Active
      BY <2>1 DEF Active
    <2>3. Meant(a["main"], a["irq"])'
      BY <1>0, <2>1 DEF Described, Meant, Usable, Field
    <2>4. Described(a)'
      BY <1>0, <2>1, <2>2, <2>3 DEF Described
    <2> QED
      BY <2>1, <2>4 DEF KInv, HandlersInPlace
  <1>4. CASE Nmi
    <2>1. todo'["nmi"] # << >> /\ \E b \in [Contexts -> Facts] : Described(b)'
      BY <1>0, <1>4, NmiKept
    <2>2. ready' = ready /\ (machine' = "lost" => "idt" \notin ready)
      BY <1>4 DEF Nmi
    <2> QED
      BY <2>1, <2>2 DEF KInv, HandlersInPlace
  <1> QED
    BY <1>1, <1>2, <1>3, <1>4 DEF KernelNext

(***************************************************************************)
(* kinit puts the handlers and the interrupt controller in place before it *)
(* enables interrupts: no interrupt ever comes to a kernel without them.   *)
(***************************************************************************)
THEOREM InterruptsHandled == KernelSpec => []HandlersInPlace
  <1>1. KInv => HandlersInPlace
    BY DEF KInv
  <1> QED
    BY <1>1, KInvInit, KInvNext, PTL DEF KernelSpec

(***************************************************************************)
(* int.rs: handlers do not nest, whatever command they run, and one that   *)
(* returns leaves no interrupt in service.                                 *)
(***************************************************************************)
THEOREM HandlersDoNotNest == KernelSpec => []HandlersSeparate
  <1>1. KInv => HandlersSeparate
    <2> SUFFICES ASSUME KInv PROVE HandlersSeparate
      OBVIOUS
    <2>0. PICK a \in [Contexts -> Facts] : Described(a)
      BY DEF KInv
    <2>1. PICK A \in Contexts : A = Active
      BY <2>0, Current
    <2>2. ASSUME todo["irq"] # << >> PROVE ~IF_
      <3>1. A # "main" /\ IF_ = a[A].on /\ Proper(A, a[A])
        BY <2>0, <2>1, <2>2, Current DEF Described
      <3>2. a[A].on = FALSE
        BY <3>1, FactFields DEF Proper
      <3> QED
        BY <3>1, <3>2
    <2>3. ASSUME todo["irq"] = << >> PROVE isr = {}
      <3>1. a["irq"] = Idle
        BY <2>0, <2>3, IdleFacts DEF Contexts
      <3> QED
        BY <2>0, <3>1, FixedFacts DEF Described
    <2> QED
      BY <2>2, <2>3 DEF HandlersSeparate
  <1> QED
    BY <1>1, KInvInit, KInvNext, PTL DEF KernelSpec

(***************************************************************************)
(* The spin locks: a context waits for ever in two cases only, a command   *)
(* that needs the heap or the file system the interrupted boot code holds, *)
(* and an NMI that comes while the serial port is written.                 *)
(***************************************************************************)
THEOREM SpinsKnown == KernelSpec => []SpinsOnlyKnown
  <1>1. KInv => SpinsOnlyKnown
    <2> SUFFICES ASSUME KInv, NEW c \in Contexts, NEW l \in Locks, Spinning(c, l)
                 PROVE  \/ c = "irq" /\ l \in {"HEAP", "FS"} /\ holder[l] = {"main"}
                        \/ c = "nmi" /\ l = "SERIAL"
      BY DEF SpinsOnlyKnown
    <2>0. PICK a \in [Contexts -> Facts] : Described(a)
      BY DEF KInv
    <2>1. c = Active /\ op.op = "lock" /\ op.of = l /\ holder[l] # {}
      BY DEF Spinning
    <2>2. PICK m \in Facts : Does(c, op, a[c], m)
      BY <2>0, <2>1, Current
    <2>3. LockRule(c, l, a[c])
      BY <2>1, <2>2 DEF Does, Quiet, Last
    <2>4. holder[l] = {d \in Contexts : l \in a[d].held}
      BY <2>0 DEF Described
    <2>5. l \notin a[c].held
      BY <2>3 DEF LockRule
    <2>6. CASE c = "main"
      <3>1. todo["irq"] = << >> /\ todo["nmi"] = << >>
        BY <2>0, <2>1, <2>6, Current
      <3>2. a["irq"].held = {} /\ a["nmi"].held = {}
        BY <2>0, <3>1, IdleFacts, FixedFacts DEF Contexts
      <3> QED
        BY <2>1, <2>4, <2>5, <2>6, <3>2 DEF Contexts
    <2>7. CASE c = "irq"
      <3>1. todo["irq"] # << >> /\ todo["nmi"] = << >>
        BY <2>0, <2>1, <2>7, Current
      <3>2. a["nmi"].held = {}
        BY <2>0, <3>1, IdleFacts, FixedFacts DEF Contexts
      <3>3. l \in a["main"].held /\ holder[l] = {"main"}
        BY <2>1, <2>4, <2>5, <2>7, <3>2 DEF Contexts
      <3>4. a["main"].on = TRUE /\ Proper("main", a["main"])
        BY <2>0, <3>1 DEF Described, Contexts
      <3>5. l # "SERIAL" /\ l # "PICS" /\ l # "KEYBOARD"
        BY <3>3, <3>4 DEF Proper
      <3> QED
        BY <2>7, <3>3, <3>5 DEF Locks
    <2>8. CASE c = "nmi"
      BY <2>3, <2>8 DEF LockRule
    <2> QED
      BY <2>6, <2>7, <2>8 DEF Contexts
  <1> QED
    BY <1>1, KInvInit, KInvNext, PTL DEF KernelSpec

--------------------------------------------------------------------------------
(* What init stores and what reboot writes *)

\* The reset register of the table at a.
RegisterOf(f, a) == [space |-> f.tables[a].space, address |-> f.tables[a].address, value |-> f.tables[a].value]

\* The tables init may take the register from.
Sources(f) ==
    {a \in IF \E r \in f.rsdp : RsdpAccepted(r) THEN find_fadt(f) ELSE {} : FadtAccepted(f.tables[a])}

(***************************************************************************)
(* find_fadt stops at the first FADT, so init has at most one register to  *)
(* store.                                                                  *)
(***************************************************************************)
LEMMA AtMostOne ==
    ASSUME NEW f \in Firmwares
    PROVE  \A i, j \in reset_info_of(f) : i = j
  <1>1. ASSUME NEW a \in find_fadt(f), NEW b \in find_fadt(f) PROVE a = b
    <2>0. entry_count(f.xsdt) \in Nat
      BY AcpiAssumption DEF entry_count
    <2>1. PICK i \in Visited(f) : f.xsdt.entries[i] = a
      BY DEF find_fadt
    <2>2. PICK j \in Visited(f) : f.xsdt.entries[j] = b
      BY DEF find_fadt
    <2>3. /\ a \in DOMAIN f.tables /\ f.tables[a].signature = "FACP"
          /\ b \in DOMAIN f.tables /\ f.tables[b].signature = "FACP"
      BY DEF find_fadt
    <2>4. i \in 1 .. entry_count(f.xsdt) /\ j \in 1 .. entry_count(f.xsdt)
      BY DEF Visited
    <2>5. i \notin 1 .. j - 1
      BY <2>1, <2>3 DEF Visited
    <2>6. j \notin 1 .. i - 1
      BY <2>2, <2>3 DEF Visited
    <2>7. i = j
      BY <2>0, <2>4, <2>5, <2>6
    <2> QED
      BY <2>1, <2>2, <2>7
  <1> SUFFICES ASSUME NEW i \in reset_info_of(f), NEW j \in reset_info_of(f) PROVE i = j
    OBVIOUS
  <1>2. PICK a \in Sources(f) : i = RegisterOf(f, a)
    BY DEF reset_info_of, Sources, RegisterOf
  <1>3. PICK b \in Sources(f) : j = RegisterOf(f, b)
    BY DEF reset_info_of, Sources, RegisterOf
  <1>4. a \in find_fadt(f) /\ b \in find_fadt(f)
    BY DEF Sources
  <1> QED
    BY <1>1, <1>2, <1>3, <1>4

(***************************************************************************)
(* A table init reads the register from is one that can be trusted, when   *)
(* the way to it led over mapped memory only.                              *)
(***************************************************************************)
LEMMA SourceTrusted ==
    ASSUME NEW f \in Firmwares, ~ReadsUnmapped(f), NEW a \in Sources(f)
    PROVE  a \in DOMAIN f.tables /\ Trusted(f, a)
  <1>1. PICK r \in f.rsdp : RsdpAccepted(r)
    BY DEF Sources
  <1>2. a \in find_fadt(f) /\ FadtAccepted(f.tables[a])
    BY DEF Sources
  <1>3. f.xsdt.signature = "XSDT" /\ a \in DOMAIN f.tables /\ f.tables[a].signature = "FACP"
    BY <1>2 DEF find_fadt
  <1>4. PICK i \in Visited(f) : f.xsdt.entries[i] = a
    BY <1>2 DEF find_fadt
  <1>5. \A k \in Visited(f) : f.xsdt.entries[k] \in DOMAIN f.tables
    BY <1>1, <1>3 DEF ReadsUnmapped
  <1>6. /\ f.xsdt.length \in Nat /\ SDT_HEADER \in Nat
    BY AcpiAssumption
  <1>7. i \in 1 .. entry_count(f.xsdt)
    BY DEF Visited
  <1>8. SDT_HEADER < f.xsdt.length /\ i \in 1 .. f.xsdt.length - SDT_HEADER
    BY <1>6, <1>7 DEF entry_count
  <1>9. ASSUME NEW j \in 1 .. i - 1, f.xsdt.entries[j] # 0
        PROVE  f.tables[f.xsdt.entries[j]].signature # "FACP"
    <2>1. j \in 1 .. entry_count(f.xsdt) /\ \A k \in 1 .. j - 1 : k \in 1 .. i - 1
      BY <1>6, <1>7 DEF entry_count
    <2>2. j \in Visited(f)
      BY <1>9, <2>1 DEF Visited
    <2>3. f.xsdt.entries[j] \in DOMAIN f.tables
      BY <1>5, <2>2
    <2> QED
      BY <2>3 DEF Visited
  <1>10. /\ r.signature = "RSD PTR " /\ r.revision >= 2
         /\ \A n \in {RSDP_V1, r.length} : SumFunctionOnSet(r.bytes, 1 .. n) % 256 = 0
    BY <1>1 DEF RsdpAccepted, checksum_valid
  <1>11. RESET_END <= f.tables[a].length /\ SumFunctionOnSet(f.tables[a].bytes, 1 .. f.tables[a].length) % 256 = 0
    BY <1>2 DEF FadtAccepted, checksum_valid
  <1> QED
    BY <1>3, <1>4, <1>8, <1>9, <1>10, <1>11 DEF Trusted

(***************************************************************************)
(* And init does read the register of a table that can be trusted, unless  *)
(* it has none.                                                            *)
(***************************************************************************)
LEMMA TrustedSource ==
    ASSUME NEW f \in Firmwares, NEW a \in DOMAIN f.tables, Trusted(f, a), f.tables[a].address # 0
    PROVE  a \in Sources(f)
  <1>1. \E r \in f.rsdp : RsdpAccepted(r)
    BY DEF Trusted, RsdpAccepted, checksum_valid
  <1>2. FadtAccepted(f.tables[a])
    <2>1. RESET_END <= f.tables[a].length /\ SumFunctionOnSet(f.tables[a].bytes, 1 .. f.tables[a].length) % 256 = 0
      BY DEF Trusted
    <2> QED
      BY <2>1 DEF FadtAccepted, checksum_valid
  <1>3. f.xsdt.length \in Nat /\ SDT_HEADER \in Nat /\ 0 \notin DOMAIN f.tables
    BY AcpiAssumption
  <1>4. PICK i \in 1 .. f.xsdt.length - SDT_HEADER :
            /\ f.xsdt.entries[i] = a
            /\ \A j \in 1 .. i - 1 :
                f.xsdt.entries[j] # 0 => f.tables[f.xsdt.entries[j]].signature # "FACP"
    BY DEF Trusted
  <1>5. i \in 1 .. entry_count(f.xsdt)
    BY <1>3, <1>4 DEF entry_count
  <1>6. i \in Visited(f)
    BY <1>3, <1>4, <1>5 DEF Visited
  <1>7. a \in find_fadt(f)
    BY <1>4, <1>6 DEF find_fadt, Trusted
  <1> QED
    BY <1>1, <1>2, <1>7 DEF Sources

\* What of RESET_INFO is stored comes from the one register init has found, and
\* only the boot code that is storing it leaves it incomplete.
InfoInv ==
    /\ firmware \in Firmwares
    /\ DOMAIN reset_info \subseteq Fields
    /\ DOMAIN reset_info # {} =>
        /\ ~ReadsUnmapped(firmware)
        /\ \E i \in reset_info_of(firmware) :
            \A f \in DOMAIN reset_info : reset_info[f] = IF f = "some" THEN 1 ELSE i[f]
    /\ DOMAIN reset_info \notin {{}, Fields} => Head(todo["main"]).op = "store"

LEMMA InfoInit == KernelInit => InfoInv
  <1> SUFFICES ASSUME KernelInit PROVE InfoInv
    OBVIOUS
  <1>1. firmware \in Firmwares
    BY KernelAssumption DEF KernelInit
  <1>2. reset_info = << >>
    BY DEF KernelInit
  <1>3. DOMAIN reset_info = {}
    BY <1>2
  <1> QED
    BY <1>1, <1>3 DEF InfoInv

(***************************************************************************)
(* Every other operation leaves RESET_INFO and the other contexts alone.   *)
(***************************************************************************)
LEMMA OtherSteps ==
    ASSUME Step, ~StoreResetInfo, todo \in [Contexts -> Seq(Ops)]
    PROVE  /\ op.op # "store" /\ firmware' = firmware /\ reset_info' = reset_info
           /\ \A c \in Contexts : c # Active => todo'[c] = todo[c]
  <1>1. op.op # "store"
    BY DEF Step, Boot, At, Acquire, Release, Serial, SetIF, PrintOp, Panic, MaybePrint, ReceiveKey,
           ToggleSerial, Int3, Alloc, ConsoleInit, GdtInit, IdtInit, PicInit, HeapInit, SetUp,
           FbInit, KmemInit, MayFail, AcpiInit, ResetReg, Pulse8042, TripleFault, ExitQemu, Halting,
           Eoi, Iret
  <1>2. firmware' = firmware /\ reset_info' = reset_info
    BY DEF Step, Boot, Acquire, Release, Serial, SetIF, PrintOp, Panic, MaybePrint, ReceiveKey,
           ToggleSerial, Int3, Alloc, ConsoleInit, GdtInit, IdtInit, PicInit, HeapInit, SetUp,
           FbInit, KmemInit, MayFail, AcpiInit, ResetReg, Pulse8042, TripleFault, ExitQemu, Halting,
           Eoi, Iret, OnlyTodoChanges, NoLockChange
  <1>3. (\E ops : Continue(ops)) \/ (\E ops : Abandon(ops)) \/ todo' = todo
    <2>1. ASSUME Acquire \/ Release \/ Serial \/ SetIF \/ PrintOp \/ MaybePrint \/ ReceiveKey
                 \/ ToggleSerial \/ Int3 \/ Alloc \/ ResetReg \/ Pulse8042 \/ TripleFault \/ Eoi \/ Iret
          PROVE  (\E ops : Continue(ops)) \/ todo' = todo
      BY <2>1 DEF Acquire, Release, Serial, SetIF, PrintOp, MaybePrint, ReceiveKey, ToggleSerial, Int3,
                  Alloc, ResetReg, Pulse8042, TripleFault, Eoi, Iret
    <2>2. ASSUME Boot PROVE (\E ops : Continue(ops)) \/ (\E ops : Abandon(ops))
      BY <2>2 DEF Boot, ConsoleInit, GdtInit, IdtInit, PicInit, HeapInit, SetUp, FbInit, KmemInit,
                  MayFail, AcpiInit
    <2>3. ASSUME Panic \/ ExitQemu PROVE \E ops : Abandon(ops)
      BY <2>3 DEF Panic, ExitQemu
    <2> QED
      BY <2>1, <2>2, <2>3 DEF Step
  <1>4. \A c \in Contexts : c # Active => todo'[c] = todo[c]
    BY <1>3 DEF Continue, Abandon
  <1> QED
    BY <1>1, <1>2, <1>4

(***************************************************************************)
(* One field more.                                                         *)
(***************************************************************************)
LEMMA StoreInfo ==
    ASSUME NEW a \in [Contexts -> Facts], Described(a), InfoInv, StoreResetInfo
    PROVE  InfoInv'
  <1>1. op.op = "store" /\ firmware' = firmware
    BY DEF StoreResetInfo, NoLockChange, At
  <1>2. PICK f \in Fields \ DOMAIN reset_info, i \in reset_info_of(firmware) :
            /\ reset_info' = [g \in DOMAIN reset_info \cup {f} |->
                                IF g # f THEN reset_info[g] ELSE IF g = "some" THEN 1 ELSE i[g]]
            /\ Continue(IF DOMAIN reset_info' = Fields THEN << >> ELSE <<op>>)
    BY DEF StoreResetInfo
  <1>3. PICK m \in Facts : Does(Active, op, a[Active], m)
    BY Current
  <1>4. Active = "main" /\ "acpi" \in a["main"].set
    BY <1>1, <1>3 DEF Does, Quiet, Last
  <1>5. ~ReadsUnmapped(firmware)
    BY <1>4 DEF Described, Meant
  <1>6. DOMAIN reset_info' = DOMAIN reset_info \cup {f}
    BY <1>2
  <1>7. ASSUME NEW g \in DOMAIN reset_info' PROVE reset_info'[g] = IF g = "some" THEN 1 ELSE i[g]
    <2>1. CASE g = f
      BY <1>2, <2>1
    <2>2. CASE g # f
      <3>1. g \in DOMAIN reset_info /\ reset_info'[g] = reset_info[g]
        BY <1>2, <1>6, <1>7, <2>2
      <3>2. PICK k \in reset_info_of(firmware) : reset_info[g] = IF g = "some" THEN 1 ELSE k[g]
        BY <3>1 DEF InfoInv
      <3>3. k = i
        BY AtMostOne DEF InfoInv
      <3> QED
        BY <3>1, <3>2, <3>3
    <2> QED
      BY <2>1, <2>2
  <1>8. ASSUME DOMAIN reset_info' # Fields PROVE Head(todo'["main"]).op = "store"
    <2>1. todo' = [todo EXCEPT !["main"] = <<op>> \o Tail(todo["main"])]
      BY <1>2, <1>4, <1>8 DEF Continue
    <2>2. todo \in [Contexts -> Seq(Ops)] /\ todo["main"] # << >> /\ op \in Ops
      BY <1>4, Current DEF Described
    <2>3. PICK t \in Seq(Ops) : t = Tail(todo["main"])
      BY <2>2, HeadTailProperties DEF Contexts
    <2>3a. PICK o \in Ops : o = op
      BY <2>2
    <2>3b. <<o>> \in Seq(Ops) /\ Len(<<o>>) = 1 /\ <<o>>[1] = o
      OBVIOUS
    <2>4. PICK s \in Seq(Ops) : s = <<op>> /\ Len(s) = 1 /\ s[1] = op
      BY <2>3a, <2>3b
    <2>5. Len(s \o t) = Len(s) + Len(t) /\ s \o t \in Seq(Ops) /\ (s \o t)[1] = s[1]
      BY <2>4, ConcatProperties
    <2>6. Head(s \o t) = op
      BY <2>4, <2>5
    <2>7. todo'["main"] = s \o t
      BY <2>1, <2>2, <2>3, <2>4 DEF Contexts
    <2> QED
      BY <1>1, <2>6, <2>7
  <1>9. DOMAIN reset_info' \subseteq Fields
    BY <1>2, <1>6 DEF InfoInv
  <1> QED
    BY <1>1, <1>2, <1>5, <1>7, <1>8, <1>9 DEF InfoInv

LEMMA InfoNext == KInv /\ InfoInv /\ [KernelNext]_kernelVars => InfoInv'
  <1> SUFFICES ASSUME KInv, InfoInv, [KernelNext]_kernelVars PROVE InfoInv'
    OBVIOUS
  <1>0. PICK a \in [Contexts -> Facts] : Described(a)
    BY DEF KInv
  <1>1. todo \in [Contexts -> Seq(Ops)]
    BY <1>0 DEF Described
  <1>2. ASSUME firmware' = firmware, reset_info' = reset_info, todo'["main"] = todo["main"] PROVE InfoInv'
    BY <1>2 DEF InfoInv
  <1>3. CASE Step /\ ~StoreResetInfo
    <2>1. /\ op.op # "store" /\ firmware' = firmware /\ reset_info' = reset_info
          /\ \A c \in Contexts : c # Active => todo'[c] = todo[c]
      BY <1>1, <1>3, OtherSteps
    <2>2. CASE Active # "main"
      BY <1>2, <2>1, <2>2 DEF Contexts
    <2>3. CASE Active = "main"
      <3>1. Head(todo["main"]).op # "store"
        BY <2>1, <2>3 DEF op
      <3> QED
        BY <2>1, <3>1 DEF InfoInv
    <2> QED
      BY <2>2, <2>3
  <1>4. CASE StoreResetInfo
    BY <1>0, <1>4, StoreInfo
  <1>5. ASSUME NEW i \in {TIMER, KEYBOARD_IRQ}, Deliver(i) PROVE InfoInv'
    <2>1. firmware' = firmware /\ reset_info' = reset_info /\ todo'["main"] = todo["main"]
      BY <1>1, <1>5 DEF Deliver, Contexts
    <2> QED
      BY <1>2, <2>1
  <1>6. CASE Nmi
    <2>1. firmware' = firmware /\ reset_info' = reset_info /\ todo'["main"] = todo["main"]
      BY <1>1, <1>6 DEF Nmi, Contexts
    <2> QED
      BY <1>2, <2>1
  <1>7. CASE Tick \/ KeyPress \/ UNCHANGED kernelVars
    <2>1. firmware' = firmware /\ reset_info' = reset_info /\ todo'["main"] = todo["main"]
      BY <1>7 DEF Tick, KeyPress, kernelVars
    <2> QED
      BY <1>2, <2>1
  <1> QED
    BY <1>3, <1>4, <1>5, <1>6, <1>7 DEF KernelNext

(***************************************************************************)
(* acpi::init checks everything reboot relies on: what reboot writes to a  *)
(* port is what a table says that passed every check, unless it was typed  *)
(* while RESET_INFO was being stored.                                      *)
(***************************************************************************)
THEOREM ResetFromTable == KernelSpec => []ResetValidated
  <1>1. KInv /\ InfoInv => ResetValidated
    <2> SUFFICES ASSUME KInv, InfoInv, NEW p \in port
                 PROVE  \E b \in DOMAIN firmware.tables :
                            /\ Trusted(firmware, b)
                            /\ \/ /\ firmware.tables[b].space = 1
                                  /\ p.address = firmware.tables[b].address
                                  /\ p.value = firmware.tables[b].value
                               \/ Head(todo["main"]).op = "store"
      BY DEF ResetValidated
    <2>1. PICK a \in [Contexts -> Facts] : Described(a)
      BY DEF KInv
    <2>2. /\ p = [address |-> Field("address"), value |-> Field("value")]
          /\ Field("some") = 1 /\ Field("space") = 1
      BY <2>1 DEF Described, Meant
    <2>3. "some" \in DOMAIN reset_info
      BY <2>2 DEF Field
    <2>4. firmware \in Firmwares /\ ~ReadsUnmapped(firmware)
      BY <2>3 DEF InfoInv
    <2>5. PICK i \in reset_info_of(firmware) :
              \A f \in DOMAIN reset_info : reset_info[f] = IF f = "some" THEN 1 ELSE i[f]
      BY <2>3 DEF InfoInv
    <2>6. PICK b \in Sources(firmware) : i = RegisterOf(firmware, b)
      BY <2>5 DEF reset_info_of, Sources, RegisterOf
    <2>7. b \in DOMAIN firmware.tables /\ Trusted(firmware, b)
      BY <2>4, <2>6, SourceTrusted
    <2>8. CASE DOMAIN reset_info = Fields
      <3>1. /\ reset_info["space"] = i["space"] /\ reset_info["address"] = i["address"]
            /\ reset_info["value"] = i["value"]
        BY <2>5, <2>8 DEF Fields
      <3>2. /\ Field("space") = i.space /\ Field("address") = i.address /\ Field("value") = i.value
        BY <2>8, <3>1 DEF Field, Fields
      <3>3. /\ i.space = firmware.tables[b].space /\ i.address = firmware.tables[b].address
            /\ i.value = firmware.tables[b].value
        BY <2>6 DEF RegisterOf
      <3> QED
        BY <2>2, <2>7, <3>2, <3>3
    <2>9. CASE DOMAIN reset_info # Fields
      BY <2>3, <2>7, <2>9 DEF InfoInv
    <2> QED
      BY <2>8, <2>9
  <1> QED
    BY <1>1, KInvInit, KInvNext, InfoInit, InfoNext, PTL DEF KernelSpec

(***************************************************************************)
(* reboot goes on to the keyboard controller, once the kernel has booted,  *)
(* only when it has written to the reset register or the tables offer no   *)
(* register that is an I/O port.                                           *)
(***************************************************************************)
THEOREM RegisterTriedFirst == KernelSpec => []ResetRegisterUsed
  <1>1. KInv /\ InfoInv => ResetRegisterUsed
    <2> SUFFICES ASSUME KInv, InfoInv, todo["irq"] # << >>, Head(todo["irq"]).op = "pulse_8042",
                        "heap" \in ready, port = {}, NEW b \in DOMAIN firmware.tables,
                        Trusted(firmware, b), firmware.tables[b].space = 1,
                        firmware.tables[b].address \in 1 .. PORT_MAX
                 PROVE  FALSE
      BY DEF ResetRegisterUsed
    <2>1. PICK a \in [Contexts -> Facts] : Described(a)
      BY DEF KInv
    <2>2. Runs("irq", todo["irq"], a["irq"], Idle)
      BY <2>1 DEF Described, Contexts
    <2>3. PICK m \in Facts : Does("irq", Head(todo["irq"]), a["irq"], m)
      BY <2>2, First
    <2>4. "tried" \in a["irq"].set
      BY <2>3 DEF Does, Quiet, Last
    <2>5. ~Usable
      BY <2>1, <2>4 DEF Described, Meant
    <2>6. "stored" \in a["main"].set
      <3>1. "heap" \in a["main"].set /\ Proper("main", a["main"])
        BY <2>1 DEF Described, Contexts
      <3> QED
        BY <3>1 DEF Proper
    <2>7. firmware \in Firmwares
      BY DEF InfoInv
    <2>8. b \in Sources(firmware)
      <3>1. firmware.tables[b].address # 0
        OBVIOUS
      <3> QED
        BY <2>7, <3>1, TrustedSource
    <2>9. RegisterOf(firmware, b) \in reset_info_of(firmware)
      BY <2>8 DEF reset_info_of, Sources, RegisterOf
    <2>10. DOMAIN reset_info = Fields
      BY <2>1, <2>6, <2>9 DEF Described, Meant
    <2>11. PICK i \in reset_info_of(firmware) :
               \A f \in DOMAIN reset_info : reset_info[f] = IF f = "some" THEN 1 ELSE i[f]
      BY <2>10 DEF InfoInv, Fields
    <2>12. i = RegisterOf(firmware, b)
      BY <2>7, <2>9, AtMostOne
    <2>13. i.space = firmware.tables[b].space /\ i.address = firmware.tables[b].address
      BY <2>12 DEF RegisterOf
    <2>14. reset_info["some"] = 1 /\ reset_info["space"] = i["space"] /\ reset_info["address"] = i["address"]
      BY <2>10, <2>11 DEF Fields
    <2>15. Field("some") = 1 /\ Field("space") = i.space /\ Field("address") = i.address
      BY <2>10, <2>14 DEF Field, Fields
    <2>16. firmware.tables[b].address <= PORT_MAX
      OBVIOUS
    <2> QED
      BY <2>5, <2>13, <2>15, <2>16 DEF Usable
  <1> QED
    BY <1>1, KInvInit, KInvNext, InfoInit, InfoNext, PTL DEF KernelSpec
================================================================================
