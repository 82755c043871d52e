--------------------------------- MODULE Shell ---------------------------------
(***************************************************************************)
(* The commands of src/src/shell.rs that keep something between lines: ls, *)
(* mkdir and touch on the file system, alloc! and dealloc! on the heap.    *)
(* A line is a command and the words behind it; a command either rejects   *)
(* the words and changes nothing, or makes its one call.  (setfg and setbg *)
(* are in Console; panic, bp, reboot, shutdown and tg-serial are in        *)
(* Kernel; help, echo and info only print.)                                *)
(*                                                                         *)
(* The heap is seen through the contract of MemoryAllocator.  dealloc!     *)
(* frees whatever is typed: a block that nobody holds, a stray, is against *)
(* the contract, and from then on the heap may return anything.  (Such a   *)
(* free may also crash the kernel or write over other memory: the first is *)
(* a shell that stops, the second is left out.)                            *)
(*                                                                         *)
(* A number on the line is a numeral: its digits, and whether "0x" stands  *)
(* before them.  A leading "+" and a second "0x", which change nothing,    *)
(* are left out.                                                           *)
(***************************************************************************)
EXTENDS TmpFs, Integers, SequencesExt

CONSTANTS HEAP_START, HEAP_SIZE,
          USIZE_BITS, USIZE_MAX,  \* usize::BITS and usize::MAX
          DEFAULT_ALIGN,\* align_of::<usize>()
          Numerals,     \* the numerals typed
          MAX_LIVE,     \* bound: blocks the user holds
          MAX_STRAY     \* bound: strays

VARIABLES live,         \* the blocks alloc! has handed out: [addr, layout]
          stray,        \* the blocks dealloc! has freed that nobody held
          careful       \* every dealloc! so far was one that alloc! has advised

heapVars == <<live, stray, careful>>
shellVars == <<fsVars, heapVars>>

ISIZE_MAX == USIZE_MAX \div 2

\* args.next() of a command that takes one optional word.
Optional(S) == {<< >>} \cup {<<x>> : x \in S}

--------------------------------------------------------------------------------
(* Numerals *)

Numeral(prefix, digits) == [prefix |-> prefix, digits |-> digits]

Digits(n, base) ==
    LET d == CHOOSE d \in 1 .. 32 : base ^ d > n /\ \A e \in 1 .. d - 1 : base ^ e <= n
    IN  [i \in 1 .. d |-> (n \div base ^ (d - i)) % base]

Value(digits, base) == FoldLeft(LAMBDA v, d : base * v + d, 0, digits)

\* format!("{}") and format!("{:#x}")
Decimal(n) == Numeral(FALSE, Digits(n, 10))
Hexadecimal(n) == Numeral(TRUE, Digits(n, 16))

\* from_str_radix: a number of that base that fits, or nothing.
from_str_radix(digits, base) ==
    IF digits # << >> /\ (\A i \in 1 .. Len(digits) : digits[i] < base)
    THEN {Value(digits, base)} \cap 0 .. USIZE_MAX
    ELSE {}

\* str::parse::<usize>
parse(w) == IF w.prefix THEN {} ELSE from_str_radix(w.digits, 10)

\* A fault: the digits of a pointer are read as a decimal number.
parse_ptr_decimal(w) == from_str_radix(w.digits, 10)

\* The pointer of dealloc!, without its "0x" if it has one.
parse_ptr(w) == from_str_radix(w.digits, 16)

is_power_of_two(n) == \E e \in 0 .. USIZE_BITS - 1 : n = 2 ^ e

ASSUME ShellAssumption ==
    /\ USIZE_BITS \in Nat /\ USIZE_MAX \in Nat /\ USIZE_MAX = 2 ^ USIZE_BITS - 1
    /\ HEAP_START \in Nat \ {0} /\ HEAP_SIZE \in Nat
    /\ HEAP_START + HEAP_SIZE - 1 <= USIZE_MAX
    /\ DEFAULT_ALIGN \in 0 .. USIZE_MAX /\ is_power_of_two(DEFAULT_ALIGN)
    /\ MAX_LIVE \in Nat /\ MAX_STRAY \in Nat

\* What core::fmt writes, from_str_radix reads back.
ASSUME NumeralAssumption ==
    \A n \in 0 .. USIZE_MAX, base \in {10, 16} : from_str_radix(Digits(n, base), base) = {n}

\* The i-th word of the line, if there is one, as a number.
number(args, i) == IF i <= Len(args) THEN parse(args[i]) ELSE {}

\* The alignment, which may be left out.
alignment(args, i) ==
    IF i <= Len(args) THEN {a \in parse(args[i]) : is_power_of_two(a)} ELSE {DEFAULT_ALIGN}

\* Layout::from_size_align: the size, rounded up to the alignment, fits isize.
from_size_align(s, a) ==
    IF s <= ISIZE_MAX - (a - 1) THEN {[size |-> s, align |-> a]} ELSE {}

--------------------------------------------------------------------------------
(* alloc! <size> [align] and dealloc! <ptr> <size> [align] *)

\* A fault: a size of zero is not turned away.
alloc_layout_zero(args) ==
    UNION {from_size_align(s, a) : s \in number(args, 1), a \in alignment(args, 2)}

\* The layout alloc! asks the heap for, if it accepts the words.
alloc_layout(args) ==
    UNION {from_size_align(s, a) : s \in number(args, 1) \ {0}, a \in alignment(args, 2)}

Bytes(x) == x.addr .. x.addr + x.layout.size - 1

Addresses == HEAP_START .. HEAP_START + HEAP_SIZE - 1

\* What the heap may return: any block that satisfies the layout and is free,
\* and after a stray any block at all.
heap_alloc(l) ==
    IF stray = {}
    THEN {x \in [addr : HEAP_START .. HEAP_START + HEAP_SIZE - l.size, layout : {l}] :
             x.addr % l.align = 0 /\ \A y \in live : Bytes(x) \cap Bytes(y) = {}}
    ELSE [addr : Addresses \cup {x.addr : x \in stray}, layout : {l}]

alloc_cmd(args) ==
    /\ Cardinality(live) < MAX_LIVE
    /\ \E l \in alloc_layout(args) : \E x \in heap_alloc(l) : live' = live \cup {x}
    /\ UNCHANGED <<fsVars, stray, careful>>

\* The words are not accepted, or the heap returns null, which it may at any
\* time: a message and no effect.
alloc_rejected(args) == UNCHANGED shellVars

\* The line alloc! prints after "To free: ".
hint(x) == [command |-> "dealloc",
            args |-> <<Hexadecimal(x.addr), Decimal(x.layout.size), Decimal(x.layout.align)>>]

\* The words of the hints for the blocks the user holds.  The last word may be
\* left out when it is what dealloc! takes in its place.
Advised ==
    {hint(x).args : x \in live} \cup
    {SubSeq(hint(x).args, 1, 2) : x \in {y \in live : y.layout.align = DEFAULT_ALIGN}}

\* The block dealloc! gives to the heap, if it accepts the words.
dealloc_block(args) ==
    IF args = << >> THEN {}
    ELSE {x \in [addr : parse_ptr(args[1]),
                layout : UNION {from_size_align(s, a) :
                                    s \in number(args, 2), a \in alignment(args, 3)}] :
            x.addr # 0}

dealloc_cmd(args) ==
    /\ dealloc_block(args) # {}
    /\ live' = live \ dealloc_block(args)
    /\ stray' = stray \cup (dealloc_block(args) \ live)
    /\ Cardinality(stray') <= MAX_STRAY
    /\ careful' = (careful /\ args \in Advised)
    /\ UNCHANGED fsVars

dealloc_rejected(args) ==
    /\ dealloc_block(args) = {}
    /\ UNCHANGED shellVars

--------------------------------------------------------------------------------
(* ls [path], mkdir <path> and touch <path> *)

\* The entries ls shows; the order in which it shows them is left out.
ls(path) == list_entries(IF path = << >> THEN ROOT ELSE path[1])

mkdir_cmd(path) ==
    \/ path # << >> /\ mkdir(path[1]) /\ UNCHANGED heapVars
    \/ (path # << >> => mkdir_result(path[1]) # "Ok") /\ UNCHANGED shellVars

touch_cmd(path) ==
    \/ path # << >> /\ touch(path[1]) /\ UNCHANGED heapVars
    \/ (path # << >> => touch_result(path[1]) # "Ok") /\ UNCHANGED shellVars

\* The rest of the trait FileSystem, which no command calls.
FileSystemCall ==
    /\ \E p \in Paths : remove(p) \/ \E d \in Contents : write(p, d)
    /\ UNCHANGED heapVars

--------------------------------------------------------------------------------

(* The command line *)

Commands == {"help", "clear", "echo", "info", "panic", "bp", "sven", "reboot", "shutdown",
             "exit", "setbg", "setfg", "mem-analyze", "tg-serial", "alloc!", "dealloc!",
             "ls", "mkdir", "touch"}

\* execute knows no such command: a message and no effect.
unknown_command(line) == line.command \notin Commands /\ UNCHANGED shellVars

\* What is typed after alloc!, and after dealloc!: numerals, the pointer to a
\* block and numerals, or what was advised.
Lines == BoundedSeq(Numerals, 2)
FreeLines == Lines \cup Advised \cup {<<Hexadecimal(x.addr)>> \o args : x \in live, args \in Lines}

ShellInit == FsInit /\ live = {} /\ stray = {} /\ careful = TRUE

\* The last disjunct is a hint typed as it was printed.
ShellNext ==
    \/ \E p \in Optional(Paths) : mkdir_cmd(p) \/ touch_cmd(p)
    \/ FileSystemCall
    \/ \E args \in Lines : alloc_cmd(args) \/ alloc_rejected(args)
    \/ \E args \in FreeLines : dealloc_cmd(args) \/ dealloc_rejected(args)
    \/ \E x \in live : unknown_command(hint(x))

ShellSpec == ShellInit /\ [][ShellNext]_shellVars

--------------------------------------------------------------------------------
(* Properties *)

Below(p, n) == IF p = ROOT THEN <<SLASH, n>> ELSE p \o <<SLASH, n>>

\* What ls shows can be used: a plain entry listed for a directory is found
\* again at the directory's path, a slash and the name shown, and every plain
\* entry whose parent exists is shown by some ls.
ListingUsable ==
    /\ \A p \in {ROOT} \cup {d \in dirs : Plain(d)} :
        \A e \in {e \in ls(<<p>>) : Plain(e.path)} : Below(p, e.name) = e.path
    /\ \A q \in dirs \cup DOMAIN files : is_dir(parent_of(q)) =>
        \E e \in ls(IF parent_of(q) = ROOT THEN << >> ELSE <<parent_of(q)>>) : e.path = q

\* The words of the hint, typed behind dealloc!, name exactly the block that was
\* allocated: the pointer goes out in hexadecimal with a prefix, size and
\* alignment in decimal, and dealloc! reads the three words back to the same
\* block and the same layout, from which the buddy allocator computes the order
\* again; two words are enough for the default alignment.  (The hint's own
\* command is not one that execute knows: typed as printed it has no effect.)
HintWordsFree ==
    \A x \in live :
        /\ dealloc_block(hint(x).args) = {x}
        /\ x.layout.align = DEFAULT_ALIGN => dealloc_block(SubSeq(hint(x).args, 1, 2)) = {x}

LegalLayouts == {l \in UNION {alloc_layout(args) : args \in Lines} :
                    l.size > 0 /\ is_power_of_two(l.align)}
Heap == INSTANCE HeapSpec WITH Layouts <- LegalLayouts, live <- live

\* A user who frees only as alloc! advised, and what is still held, never breaks
\* the contract of the heap, whatever is typed after alloc!: layouts have a size
\* above zero and an alignment that is a power of two (GlobalAlloc), what is freed
\* was held with that layout, and a line allocates or frees one block or has no
\* effect.  Nothing is said of a user who frees anything else.
UsesHeapLegally ==
    [][careful' => stray' = {} /\ (live' = live \/ Heap!Next)]_shellVars
================================================================================
