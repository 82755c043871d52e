# SillOS: models, model checking and proofs

SillOS is a small single-core x86-64 kernel in Rust. The main thread boots it and
then sleeps in `hlt`; from then on everything the user does (echo, the shell, its
commands) runs inside the keyboard interrupt handler. Interrupts are switched on in
the middle of the boot, so for a while the two overlap, and most of the shared state
(`CONSOLE`, the framebuffer statics, `RESET_INFO`) has no lock.

This directory models the kernel's own logic in TLA+, checks it with TLC on small
instances and proves most of its safety with TLAPS. Source paths are relative to `src/src/`.
Every load and store of a shared field is a memory access of its own. Arithmetic that
the code does not check is kept in range by a property or an assumption, never wrapped
silently.

## 1. Inventory

| Component | Source | State | Operations | Used by |
|---|---|---|---|---|
| Frame allocator | `kmem/frame.rs` | position in the memory map (`current_region`, `next_frame`) | `allocate_frame` | heap set-up, page mapper |
| Heap set-up | `kmem/heap.rs` `init_heap`, `kmem/mod.rs` `init` | page tables, heap pages | map every page, then hand the range to the allocator | `kinit` |
| Memory report | `kmem/mod.rs` `mem_analyze` | none | figures over the memory map | shell |
| Buddy allocator | `kmem/heap/buddy.rs`, lock in `kmem/heap.rs` | free lists per order | `init`, `alloc`, `dealloc` | `alloc` crate, shell `alloc!`/`dealloc!` |
| List allocator | `kmem/heap.rs` | one list of regions | `init`, `alloc`, `dealloc` | compiled, not installed |
| Framebuffer | `fb.rs` | back buffer, screen, dirty rectangle | drawing calls, `present` | console, `kinit` |
| Console | `console.rs` | cursor, colours, cell buffer, input line | `put_char`, `receive_key`, `read_line`, `clear`, printing | shell, `kinit`, exceptions |
| Shell | `shell.rs` | none of its own | `execute` and the commands | keyboard handler |
| File system | `fs.rs`, `fs/tempfs.rs` | files and directories by path | `mkdir`, `touch`, `write`, `remove`, `read`, `list_entries` | shell, behind a spin lock |
| Interrupts, PIC | `int.rs`, `pic.rs` | IDT, masks, requests in service | timer, keyboard, exceptions, NMI | hardware |
| Boot, serial | `main.rs`, `serial.rs` | what is set up, spin locks | `kinit`, `kernel`, panic handler, `_print` | |
| ACPI | `acpi.rs` | `RESET_INFO` | validate tables, `reboot` | `kinit`, shell |
| Test runner | `test.rs` | none | run tests, leave QEMU | `kmain` of the test build |
| GDT, font, test bodies | `gdt.rs`, `font.rs`, `unit_tests.rs`, `kmem/memtests.rs` | tables and data | | |

What is hard here, and the property that would notice it going wrong (`PROJECT.json`
lists each at its line):

* the allocator's ownership of memory through split, merge and a heap that does not
  start at a multiple of its largest block (`NoOverlap`, `NoLeak`, `AlignedToLayout`,
  `FullyCoalesced`, `NullOnlyWhenExhausted`, `ListPartition`, `ImplementsHeap`);
* rounding and address overflow at the edges of memory regions; a frame used twice
  (`FramesUsable`, `NeverTwice`, `NoneOnlyWhenEmpty`, `NoneIsFinal`, `ReportAgrees`);
* two users of one frame allocator inside one loop, and failure half way
  (`FramesExclusive`, `HeapBacked`);
* the dirty rectangle as a summary of everything not shown yet, and its update by two
  contexts without a lock (`DirtyCovers`, `NothingToPresent`, `PresentFullRepairs`);
* clipping at the edges and at `usize::MAX` before raw pointer writes, copies that
  overlap themselves (`CallEffect`, `AccessInBounds`, `DrawsAsAsked`);
* prompt, echo and input line kept in step over wraps, scrolls and erasures
  (`EchoMatches`); two copies of the screen (`TextSynced`); check-then-act on the
  cursor and the colour (`CursorInside`, `CursorNearby`, `NewlineRecovers`, `ColorKept`);
* a file system whose keys are path texts: several spellings of one place, and an
  operation that checks less than the others (`ImplementsTree`, `KindsDisjoint`,
  `Rooted`, `ListingUsable`);
* text from the user that ends in unsafe calls of the allocator (`UsesHeapLegally`,
  `HintWordsFree`);
* spin locks taken with interrupts on, handlers that must not nest, an end of interrupt
  that comes only after a command has returned (`SpinsOnlyKnown`, `HeapLockSafe`,
  `HandlersSeparate`, `HandlersInPlace`, `KeyServed`);
* firmware tables that may be anything, a store in several parts that a command may
  read half done, and reset attempts that may go unnoticed (`ResetValidated`,
  `ResetRegisterUsed`, `RebootResets`).

## 2. Modules

| Module | Models | Notes |
|---|---|---|
| `HeapSpec` | the contract of `trait MemoryAllocator` | abstract: a set of live blocks |
| `HeapRange` | the heap range and the layouts | constants and assumptions only |
| `BuddyAllocator` | `BuddyAllocator` | one action per loop iteration |
| `BuddyProofs` | | theorems about `BuddyAllocator`: ownership, losslessness, alignment |
| `MergeProofs` | | theorems about its merging; extends `BuddyProofs` |
| `ListAllocator` | `ListAllocator` | one action per call |
| `LockedHeap` | `LockedHeap` with either allocator inside | refines `HeapSpec` |
| `HeapProofs` | | theorems about `ListAllocator` and `LockedHeap`; extends `BuddyProofs` |
| `FrameAllocator` | `BootInfoFrameAllocator` | one action per outcome of `allocate_frame` |
| `HeapInit` | `init_heap` over `FrameAllocator` and the page mapper | the mapper is the x86_64 crate's, external |
| `Kmem` | `HeapInit`, a draining client and `mem_analyze` | extends `HeapInit` |
| `KmemProofs` | | theorems about `FrameAllocator`, `HeapInit` and `Kmem` |
| `Framebuffer` | `fb.rs` | rows and single accesses |
| `FramebufferIrq` | the same with the keyboard interrupt | extends `Framebuffer` |
| `FramebufferProofs` | | theorems about both |
| `Terminal` | the methods of `Console`, and the variable `con` they are called on | functions from Console to Console |
| `Console` | keyboard handler and printing commands after boot | extends `Terminal` |
| `ConsoleIrq` | boot-time printing with the keyboard interrupt | extends `Terminal` |
| `ConsoleProofs` | | theorems about `Console` and `ConsoleIrq` |
| `FsTree` | what a user expects of a file system | abstract: a tree of places |
| `TmpFs` | `TmpFs` | refines `FsTree` |
| `Shell` | the commands that keep something between lines | extends `TmpFs`, uses `HeapSpec` |
| `FsProofs` | | theorems about `TmpFs` and `Shell` |
| `Acpi` | the table checks of `acpi::init` | operators |
| `Kernel` | boot, interrupts, locks, panics, reboot | extends `Acpi` |
| `KernelProofs` | | theorems about `Kernel` and `Acpi` |
| `MC*` | small constants for TLC | |

Definitions whose comment says *fault* (or *Faulty*) are wrong variants of a
definition, kept to show that the properties notice them (`mutants` in
`PROJECT.json`); no specification uses them.

**BuddyAllocator.** `free_lists` is a sequence of addresses per order, as the linked
lists are. The spin lock lets one call run at a time; `pc` says which, and `addr`,
`order`, `remaining`, `layout` are its locals. `BeginInit`, `SeedBlock`, `EndInit` are
`init`; `BeginAlloc` finds the order and pops, `SplitBlock` is one return of the
recursion of `allocate_order`, `EndAlloc` and `AllocNull` are the results;
`BeginDealloc`, `MergeBuddy`, `EndDealloc` are the merge loop. `live` is what clients
hold and `refused` the layout of the last null; both are ghosts.

**ListAllocator, LockedHeap.** The free list is a sequence of regions. `list_alloc`
takes the first region that fits and puts the rest back in its place; the bytes skipped
for the alignment are in no region any more, and the ghost `padding` remembers them. In
`LockedHeap` the variable `inner` says which allocator the lock guards.

**FrameAllocator, HeapInit, Kmem.** The memory map is chosen in `Init`. `SomeFrame` and
`NoFrame` are the two outcomes of `allocate_frame`, with the rounding, the overflow
check and the skipping of regions as operators. `HeapInit` calls them from the loop of
`init_heap` and from the mapper's creation of page tables, with every error return.
`Kmem` adds a client that takes frames until there are none and asks again, and the
figures of `mem_analyze` as operators with the code's saturating arithmetic.

**Framebuffer.** Buffers are linear arrays with the code's own offsets; `put_pixel`,
`clear`, `draw_rect`, `copy_rect`, `scroll_up`, `present`, `present_full` give a list
of operations after clipping; `WriteRow` writes a row, `MarkTest`, `MarkFlag`,
`MarkSet`, `MarkLoad`, `MarkStore` are the accesses of `mark_dirty`, `PresentTest`,
`PresentRead`, `PresentClean`, `PresentRow` those of `present`. The ghost `want` is the
back buffer the caller is promised, written down independently of the clipping. A
pixel's colour is the value `color_to_u32` computes (the `|` of disjoint channels as a
sum). Copies that move down over their own source are left out (`ReadsItsOwnRows`): the
code copies rows from the top and would read rows it has overwritten, and nobody calls
it so. In `FramebufferIrq` the handler is one step because an interrupt gate keeps
interrupts off; it may come between any two steps once the screen is initialised.

**Terminal, Console, ConsoleIrq.** A Console is a record with the struct's fields, the
cell buffer and the screen as cells. `screen` says what each 8x16 cell looks like; a
space shows only its background. In `Console` the handler is sequential: `Key`,
`Enter`, then the command as prints, coloured prints, colour changes, `clear`, or a
halt, then `ShowPrompt`. Which words run which command is left out: any nonblank line
may run any. In `ConsoleIrq` the main thread's `put_char` is broken into its accesses
of the shared fields, a coloured print saves, sets and restores the foreground
(`SaveColor`, `SetColor`, `RestoreColor`), and the handler (echo, Enter with its
command, `setfg` among them, and the prompt) falls between any two of them.

**FsTree, TmpFs, Shell.** A path is the sequence of its slashes and of the names between
them, so `/a`, `a`, `/a/` and `//a` are different keys, as they are in the code's
`BTreeMap`; `trim_end`, `rfind`, `parent_of` and `last_segment` compute on that
sequence. The refinement maps the *plain* paths (a leading slash, single slashes, none
at the end) to places of a tree. `Shell` gives each command the words of its line.
Numbers are numerals (digits and whether `0x` stands in front), parsed and printed in
their base, because `alloc!` prints a pointer in hexadecimal that `dealloc!` reads back.
The heap behind the shell is any heap that keeps the contract. `dealloc!` passes on any
pointer, size and alignment it can parse, and so does `dealloc_cmd`. A block freed that
nobody held with that layout is a `stray`; from then on the heap may return anything,
since the contract is broken. (That such a free may also overwrite other memory, or
crash the kernel, is left out; what is said of the file system is said of a kernel
whose memory is intact.) `hint` is the line `alloc!` prints, `Advised` the words of the
hints for blocks still held, and the ghost `careful` says that every `dealloc!` so far
had such words. The hint's own command word is `dealloc`, which `execute` does not know
(`unknown_command`). `write` and `remove` have no command; `FileSystemCall` makes them all the same, since the trait offers them.

**Acpi, Kernel.** `Kernel` is who runs when, who holds what and what never comes back;
what the parts compute is in the other modules. There are three contexts: the boot code
(`main`), hardware interrupts (`irq`) and the non-maskable interrupt (`nmi`); a later
one suspends the earlier ones. `todo` holds the operations a context has still to do,
and the operators `kmain`, `kinit_*`, `execute`, `timer_interrupt_handler`, ... write
each function of the code down as such a list (a print, a serial print, a lock, an
allocation, the programming of the PIC). One action runs the first operation of the
active context. The interrupt controller has requests (`irr`) and interrupts in service
(`isr`), with the timer before the keyboard. A panic abandons what was to be done, so
its locks stay held. `RESET_INFO` is stored field by field in any order, with interrupts
on. A *machine* is what is booted: the kernel or the test build, with a firmware whose
tables may fail any of the checks.

## 3. Runs

| Run | Expect | Shows |
|---|---|---|
| `heaps` | pass | buddy: disjoint, lossless, merging undoes splitting, null only when it must; list: the heap is partitioned; `LockedHeap` implements `HeapSpec` with either |
| `heap_alignment` | violation | on a heap that starts below the alignment of its largest block a pointer lacks the alignment asked for |
| `kmem` | pass | whole usable frames, each once, all of them, then `None` for ever; every heap byte backed by a frame of its own before the allocator gets it; `mem_analyze` agrees |
| `fb_window` | pass | every call draws exactly what it should, in bounds; the dirty rectangle covers what is not shown |
| `fb_irq` | pass | torn dirty rectangles never lead out of the buffers; calls that are not interrupted draw what they should; an uninterrupted `present_full` repairs the screen |
| `fb_irq_lost` | violation | an interrupted `mark_dirty` loses its pixels |
| `console` | pass | cursor, echo, text, and the return to a prompt |
| `console_irq` | pass | races move the cursor at most one step out, an uninterrupted line feed repairs it, a colour chosen outside a coloured print stays |
| `console_escape` | violation | a race in `newline` leaves the cursor below the last row |
| `shell` | pass | files and directories stay apart and rooted, listings can be used, plain paths are a tree; the printed words name the allocated block, and a user who frees only by them what is still held keeps the heap's contract |
| `kernel` | pass | interrupts find their handlers and do not nest, nobody spins but in the known cases, keys are served, a reboot resets, through validated tables only |
| `heap_lock` | violation | a command that allocates while `init_heap` holds the heap's lock spins for ever |

The four violations are disagreements between the code and what its comments or tests
say; `findings` in `PROJECT.json` quotes both. In short: `AlignedToLayout` fails on the
kernel's own heap range because `buddy_of` works relative to the heap start while
blocks are seeded by absolute alignment; the shell's `alloc!` lets a user ask for any
power-of-two alignment and meet it. The other three need a key press in the boot window,
between `sti` and the end of `kinit`.

Three more texts promise more than the code does and have no run. The line `alloc!`
prints, `To free: dealloc {:#x} {} {}` (`shell.rs:271`), and the usage line
`Usage: dealloc <ptr> <size> [align]` (`shell.rs:281`) name a command that does not
exist: `execute` knows only `dealloc!` (`shell.rs:34`), as the help says
(`shell.rs:60`), so the line typed as it is printed is answered with `Unknown command`.
The last disjunct of `ShellNext` is this line, and it has no effect; `HintWordsFree` is
about the three words behind it. `copy_rect` is said to handle overlapping rectangles (`fb.rs:436`), which it does upwards only, and the
scroll in `newline` is said to keep the cell buffer synchronised with the framebuffer
(`console.rs:394`), although the cells it exposes get a black background whatever
`setbg` has chosen; only `render`, which nobody calls, would show it. `TextSynced` states
what does hold.

`SpinsOnlyKnown` names the cases in which a context does spin: a handler on the heap's
lock (the violation above) or, when the tests run, on the file system's, and an NMI on
the serial port's. `ResetValidated` says that a write to a port comes from validated
tables, and is exactly what they say unless `reboot` was typed during the store of
`RESET_INFO`.

### Bounds

* Heaps: orders 1 to 4, a heap of 19 bytes at 16 (aligned) or 17 bytes at 4: blocks of
  every order, a remainder too small for a block, up to nine live blocks, and splits
  and merges over three orders. Layouts include sizes one above a block size,
  alignments above the size, and one nothing can hold. List nodes have four bytes.
* Memory: 4-byte frames, all maps of three adjacent regions with lengths 0, 3, 4, 9, 12
  (and one that overflows), usable or not, in both orders, starting at 0, 3 or 4; sums
  that saturate. Heap set-up: three pages below two last-level tables, tables present or
  not, a page in use or not.
* Framebuffer: 2x2 pixels with one pixel of padding per row, two colours, `usize::MAX`
  = 7; arguments 0 to one past the edge, and the maximum. Interrupts: 1x3, where an
  upward copy overlaps itself; 2x1 for the violation, which has two different dirty
  rectangles to confuse.
* Console: 2 rows of 5 columns, six characters of input, so the prompt, a wrapped row,
  a scroll and an erasable character in the wrapped row all occur; one print per
  command (`MAX_PRINTS`). Boot: 3 rows of 4 columns, a text with a coloured part that
  runs over both edges, three keys (`MAX_KEYS`); a single key, pressed between the test
  and the increment, suffices for the escape.
* Shell: two names in twelve spellings, four entries (`MAX_ENTRIES`), two blocks
  (`MAX_LIVE`), one stray (`MAX_STRAY`), an 8-bit `usize` (`USIZE_BITS`), numerals that
  are zero, too large, no power of two, not decimal, or a pointer with `0x` and without.
  After `dealloc!` come any two of them, the pointer to a block and any two, or advised
  words: wrong layouts, double frees and pointers never allocated all occur. States in
  which files and heap have both been used, or with a stray and a live block, are not
  gone on from (`FilesOrHeap`): no command touches both files and heap, and a stray
  voids what is said of the heap.
* Kernel: two keys on a good firmware, so that a command meets what another has left;
  one key in the test build and on each of sixteen firmwares that fail one check; nine
  commands, one for each thing a command needs from the kernel. Ticks and the NMI are
  not bounded (an NMI's handler does not return).

`CHECK_DEADLOCK FALSE` is set where the system stops: `kmem` ends when `init_heap`
returns, and `kernel` and `heap_lock` when the machine is off or reset, or when a
context loops with interrupts off.

### Fairness

* `PromptReturns`: `FairSpec` assumes weak fairness of the handler's own steps
  (`Running`) and nothing of the keyboard. The processor executes the handler until it
  returns, nothing can preempt it, and each command makes finitely many prints.
* `KeyServed`, `RebootResets`: weak fairness of the steps of the handlers, which run
  with interrupts off; strong fairness of the steps of the boot code, which the timer
  interrupts again and again but whose period is far longer than an instruction; and
  strong fairness of the delivery of each interrupt, which is the controller's. A tick
  does not come while the timer's own handler runs, for the same reason. Nothing is
  assumed of keys, ticks and NMIs.

## 4. Proofs

All for every value of the constants that meets the stated assumptions.

| Theorem | Statement | Module |
|---|---|---|
| `TypeCorrect` | `Spec => []TypeOK` | `BuddyProofs` |
| `MemorySafe` | `Spec => []NoOverlap` | `BuddyProofs` |
| `NothingLost` | `Spec => []NoLeak` | `BuddyProofs` |
| `PointersAligned` | `Spec => []AlignedAsStart` | `BuddyProofs` |
| `RefusesOnlyWhenExhausted` | `Spec => []NullOnlyWhenExhausted` | `MergeProofs` |
| `PiecesMergeAgain` | `Spec => []WholeAgain` | `MergeProofs` |
| `MergingUndoesSplitting` | `Spec => []FullyCoalesced` | `MergeProofs` |
| `ListPartitioned` | `LockedSpec => []ListPartition` | `HeapProofs` |
| `HeapImplemented` | `LockedSpec => ImplementsHeap`, on a heap that starts aligned | `HeapProofs` |
| `FramesUnique` | `FrameSpec => []NeverTwice` | `KmemProofs` |
| `FramesAreUsable` | `FrameSpec => []FramesUsable` | `KmemProofs` |
| `NoneMeansEmpty` | `FrameSpec => []NoneOnlyWhenEmpty` | `KmemProofs` |
| `NoneStays` | `FrameSpec => NoneIsFinal` | `KmemProofs` |
| `KmemImplementsFrames` | `KmemSpec => FrameSpec` | `KmemProofs` |
| `HeapFramesExclusive` | `KmemSpec => []FramesExclusive` | `KmemProofs` |
| `HeapFullyBacked` | `KmemSpec => []HeapBacked` | `KmemProofs` |
| `FbAccess`, `FbIrqAccess` | `FbSpec => []AccessInBounds`, `IrqSpec => []AccessInBounds` | `FramebufferProofs` |
| `DirtyIsEnough` | `FbSpec => []DirtyCovers` | `FramebufferProofs` |
| `FullRepairs` | `IrqSpec => []PresentFullRepairs` | `FramebufferProofs` |
| `DrawsWhatIsMeant`, `DrawsWhatIsMeantIrq` | `FbSpec => []CallEffect`, `IrqSpec => []DrawsAsAsked` | `FramebufferProofs` |
| `ConTypeCorrect` | `ConSpec => []ConTypeOK`, on a screen with a cell | `ConsoleProofs` |
| `ScreenMatchesCells` | `ConSpec => []TextSynced`, likewise | `ConsoleProofs` |
| `LineRunIsLineShown` | `ConSpec => []EchoMatches`, likewise | `ConsoleProofs` |
| `CursorStaysNear` | `BootSpec => []CursorNearby` | `ConsoleProofs` |
| `ColorSurvivesBoot` | `BootSpec => []ColorKept` | `ConsoleProofs` |
| `LineFeedRecovers` | `BootSpec => NewlineRecovers` | `ConsoleProofs` |
| `FsTypeCorrect` | `FsSpec => []FsTypeOK` | `FsProofs` |
| `KindsStayDisjoint` | `FsSpec => []KindsDisjoint` | `FsProofs` |
| `AlwaysRooted` | `FsSpec => []Rooted` | `FsProofs` |
| `FilesAreLeaves` | `FsSpec => []NothingBelowFiles` | `FsProofs` |
| `ShellRunsFs` | `ShellSpec => FsSpec` | `FsProofs` |
| `ListingsUsable` | `ShellSpec => []ListingUsable` | `FsProofs` |
| `ImplementsATree` | `ShellSpec => ImplementsTree` | `FsProofs` |
| `HintWordsName` | `ShellSpec => []HintWordsFree` | `FsProofs` |
| `ShellUsesHeapLegally` | `ShellSpec => UsesHeapLegally` | `FsProofs` |
| `InterruptsHandled` | `KernelSpec => []HandlersInPlace` | `KernelProofs` |
| `HandlersDoNotNest` | `KernelSpec => []HandlersSeparate` | `KernelProofs` |
| `SpinsKnown` | `KernelSpec => []SpinsOnlyKnown` | `KernelProofs` |
| `ResetFromTable` | `KernelSpec => []ResetValidated` | `KernelProofs` |
| `RegisterTriedFirst` | `KernelSpec => []ResetRegisterUsed` | `KernelProofs` |

**Buddy allocator.** *MemorySafe* covers any heap range, also the kernel's misaligned
one, any set of layouts and any sequence of calls: no byte belongs to two of free lists,
clients and the call in progress. `NoOverlap` names the block the call in progress
holds, which makes it inductive together with `TypeOK` and the facts about the locals
(`Inv`): a split hands half of the held block to a list, a merge takes a block off a
list into the held one, and both preserve disjointness by arithmetic on adjacent ranges.
The lemmas state once what pushing, popping and removing do to disjoint lists.
*NothingLost* is the other half: every byte `init` has passed belongs to a list, a
client or the call, and what `init` leaves at the end is smaller than the smallest
block. *PointersAligned* says how far alignment goes: splitting and merging never test
an address, and keep for each block the alignment of its size exactly as far as
`HEAP_START` has it (`AlignInv`), which is why `AlignedToLayout` fails on the kernel's
own range.

*RefusesOnlyWhenExhausted* needs that no two free buddies are ever left side by side
(`MergeInv`): `init` seeds the largest blocks it can, a split leaves one half in use, a
merge that stops has no free buddy. If the bytes of a whole block of the order asked for
were free, they would be covered by listed blocks; of these take a smallest one: its
buddy lies in the same range and is covered by listed blocks no smaller, hence listed
itself, and the two are a pair. The argument takes the least order with a listed
block there. It needs buddies to be aligned blocks, so the property asks
it of block sizes `HEAP_START` is a multiple of; above those, buddies straddle the
places where aligned blocks may start, and free halves that nobody can merge are a
consequence of the same misalignment, not of a wrong merge.

*PiecesMergeAgain* is the same argument between calls: an aligned block no client has
part of is not made of smaller free blocks, so a listed block at least as large touches
it, and by alignment contains it. It holds on every heap, for the block sizes the start
is a multiple of. *MergingUndoesSplitting* draws the consequence for an empty heap: its
free blocks of an order are the aligned blocks that no larger one overlaps
(`LargestBlocks`), for each order whose buddies make up an aligned block
(`BuddiesAligned`: `HEAP_START` is a multiple of the next order's size). On a heap that
starts at a multiple of its largest block these are all orders. The kernel's heap of
100 MiB at `0x4444_4444_0000` starts at a multiple of 256 KiB and no more, and its
largest block has 64 MiB: for it both theorems speak of the blocks up to 256 KiB (the
second of those below), and nothing is claimed above, where buddies straddle.

Assumptions: the asserts of `init` (`HeapAssumption`), the orders (`OrderAssumption`),
nonempty layouts with power-of-two alignments (`LayoutAssumption`), and arithmetic of
powers of two that TLC evaluates and the provers do not know (`PowerAssumption`: sizes
double, a larger one is a multiple of a smaller one, an alignment up to a block size is
a block size or divides the smallest).

**List allocator, locked heap.** *ListPartitioned*: regions, blocks and skipped bytes
partition the heap. `ListInv` says the same as arithmetic on the ends of the ranges,
which is what the provers can add up when a region is cut into padding, block and rest.
*HeapImplemented* is the refinement, for either allocator: a pointer handed out has its
layout's alignment, is inside the heap and shares no byte with another. It rests on
`LockedInv` (the invariants of both allocators; the one not inside stays as built) and
has one hypothesis, that the heap starts at a multiple of every alignment asked for,
without which it is false (run `heap_alignment`).

**Frames and heap set-up.** *FramesUnique* holds because every frame handed out lies
below the cursor of its region or in a region already left (`FrameInv`), and usable
regions overlap no other region (the bootloader's promise, an assumption on the maps).
*NoneMeansEmpty* and *NoneStays* need what the walk leaves behind (`WalkInv`): no usable
frame of a region it has passed, and after `None` a place it cannot move on from.
*KmemImplementsFrames* shows that the heap set-up uses the allocator through its two
outcomes only, so these theorems hold inside `Kmem`; *HeapFramesExclusive* and
*HeapFullyBacked* follow with `SetUpInv` (pages before the current one are mapped, and
every frame in use has been handed out, so the next one is not in use).

**Framebuffer.** For any screen, pitch and arguments up to `USIZE_MAX`. *FbIrqAccess* is
the one with torn rectangles: `FbInv` relates the corners of the dirty rectangle to
nothing but the limits of the screen, and `present`'s own test for an empty rectangle
makes the copy safe. *DirtyIsEnough* says where the pixels not yet shown are at each
step (`CoverInv`): in the dirty rectangle, in that of the call, in the corners already
stored, or in rows `present` has still to copy. *FullRepairs* follows an uninterrupted
`present_full` through torn beginnings (`FullInv`). *DrawsWhatIsMeant* says that what
the call has still to do turns the back buffer into the promised one after every row
(`EffectInv`); for copies this is where overlapping rows matter.

**File system.** The four theorems hold for any set of paths, contents and any number of
entries, and of the text of a path use nothing but that `parent_of` is a function of it.
They are proved together (`FsInv`): `mkdir` checks that the parent is a directory, which
makes its entry rooted, and that nothing is below a file follows because a directory is
never also a file; `remove` keeps entries rooted because what it removes was no
directory. What `write` creates is the exception all of them have to name, so the ghost
`written` is part of the invariant. `FilesAreLeaves` follows from the two before it and
is not checked in a run of its own.

The commands of the shell reach the file system only through its operations
(*ShellRunsFs*), so these theorems hold for whatever is typed. *ListingsUsable* and
*ImplementsATree* are about the text of paths: the lemmas say what `trim_end`, `rfind`,
`parent_of` and `last_segment` give for a plain path (at its last slash it splits into
its parent and its name, and two plain paths with the same place are one). The tree is a
function of the two collections (`View`), and each operation of the trait is shown to put
one place into it (`PutAt`), to take one out (`CutAt`), or to leave it alone, the last
also for every other spelling of a path. `FsTree`'s guards then follow from `FsInv`.
Assumptions: no two names stand next to each other in a path and none is a slash, and
the mark `"dir"` the tree uses is no content (`PathAssumption`).

*HintWordsName* and *ShellUsesHeapLegally* share an invariant (`HeapInv`): what is held
has an address and a layout that can be written out and read back (`TypedLayout`), and
for a careful user there are no strays and every live block is an allocation the
contract allows. The first theorem follows from it for every user, also after strays:
the words of a hint name the block it was printed for and no other, with the default
alignment also without the last word. So a careful user gives back exactly one block
that is held, with its layout, and as `alloc!` turns away a size of zero, an alignment
that is no power of two and a layout that does not fit, no step of a careful user leaves
the contract. Nothing is proved of a user who frees anything else. Assumptions: the heap
lies within the address space and not at zero, the default alignment is a power of two
(`ShellAssumption`), and `from_str_radix` reads back what `core::fmt` writes
(`NumeralAssumption`; both are the standard library's, and an induction over digits is
out of the provers' reach; TLC evaluates it for the word size of the run).

**Console.** After boot, for any screen with at least one cell, any input size, any
printed text that ends in a line feed and any number of prints (`ConsoleAssumption`).
Every method of `Console` gets a lemma that it keeps the console well formed, its
colours, its cursor on the screen and the two copies in step (`Kept`); that is
*ConTypeCorrect* and *ScreenMatchesCells* (characters always, the whole look except the
background of blank cells when a background other than black was chosen). *LineRunIsLineShown* needs more: `Shows`
says that prompt and input are the text before the cursor, counted along the rows as one
line, unless it has scrolled off the top. A character adds one at the end, also where
the row wraps and the screen scrolls; erasing takes the cursor back one place, also over
the edge of a row. It starts afresh at each prompt because every print ends with a line
feed, so the cursor stands at the start of a row (`AtLineStart`). The invariant is
`ConInv`: types, line start, echo.

During boot (`BootInv`) the hard part is the list of accesses the main thread has still
to do when a key falls between two of them. `Chain` says which access may follow which,
so that the handler can be allowed to change the cursor at any place, and the cursor
still leaves the screen by at most one (*CursorStaysNear*): `Ready` says what holds
before each access whatever the handler did. `Undisturbed` says that without a key since
the call began the row it is about to enter is on the screen (*LineFeedRecovers*). For
the colour (`ColorInv`) what is left to print is a tail of the boot text, and the saved
colour is present exactly inside a coloured part of it (*ColorSurvivesBoot*).
Assumptions: `BootText` saves, sets and restores in that order, as `write_fmt_color`
does (`BootAssumption`); glyphs are not control characters, and the mark `"none"` is no
colour (`TerminalAssumption`).

**Kernel.** For any set of machines, firmwares and commands and any number of keys, so
for command sequences and interrupt nestings TLC cannot enumerate. The properties speak
of the next operation only, while what makes them true is in the whole list a context
has still to do. So lists are described as programs are, by assertions between their
operations: `Facts` (locks held, interrupts on or off, what is set up, whether the
interrupt was ended), `Does` the rule of one operation, `Runs` of a list. Each function of the
code gets a lemma (`Boots`, `Handlers`, `Executes`, `Reboots`, ...), lists are put
together with `Cat`, and a step of the CPU takes the first operation off with `First`.
The invariant `KInv` is that there are facts for the three contexts that describe their
lists and the state: they say who holds each lock, no two hold the same, interrupts are
on only in the boot code, after IDT and PIC, and never while it holds a lock a handler
needs without masking. *SpinsKnown* is then what is left of "someone else holds it".

For the reboot, facts also carry marks (tables found readable, `RESET_INFO` stored,
register tried) whose meaning `Meant` states, and `InfoInv` says that the fields stored
so far belong to one and the same validated table: `find_fadt` stops at the first FADT
(`AtMostOne`), and only the boot code that is storing leaves the record incomplete. That
init's checks are exactly what `Trusted` asks is `SourceTrusted` and `TrustedSource`.
Assumptions: `KernelAssumption`, and `AcpiAssumption` (sizes are numbers, a table has
the bytes its length says, nothing is mapped at the null pointer).

`KInv` quantifies over all labellings of the lists, which TLC cannot enumerate; what the
`kernel` run checks are its consequences.

Left to TLC:

* liveness: `PromptReturns`, `KeyServed`, `RebootResets`;
* what would be an induction over data, which no installed prover can carry out for
  recursively computed values: `ReportAgrees` (sums over a memory map), and that
  numerals are read back as they were written (`NumeralAssumption`).

## 5. Not modelled

* `font.rs` (glyph data and the loop that draws it), the bodies of the tests
  (`unit_tests.rs`, `kmem/memtests.rs`; what they assert is stated as properties), the
  descriptors of the GDT and TSS (in `Kernel` they are one step of the boot).
* `Console::render`, which nobody calls; the wording and layout of every message.
* `usable_memory` of `frame.rs`, which nobody calls; it is the sum in `Kmem` without the
  saturation.
* A UART that is missing or fails, the checks of the video mode in `fb::init` (they are
  assumptions on the constants), the arithmetic of HHDM pointers except where
  `mem_analyze` prints it.
* Whether the offsets 0x70 and 0x7C at which `parse_fadt` reads the reset register and
  value are those of the ACPI standard: tables are abstracted to the fields that are
  read. An RSDP that declares a length below 36 leaves part of itself out of the second
  checksum; the code accepts it and so would the model, but no firmware of the run does it.
* Panics on addresses no such machine has: `PhysAddr::new` from 2^52 (`frame.rs:126`) and
  `VirtAddr::new` on a sum that is not canonical (`kmem/mod.rs:133`). The mapper's
  `ParentEntryHugePage`, which ends `init_heap` as its other errors do. An XSDT whose
  length is not a whole number of entries: the division rounds down as it does for
  `entry_count`, which counts whole entries.
* In `FramebufferIrq` the handler draws one rectangle and presents. In `ConsoleIrq` the
  `clear` before the welcome text (`main.rs:132`) and a `setbg` by the handler are left
  out, and a command prints at most an empty line. `set_cell` writes through a raw
  pointer without a bounds check; outside the cell buffer it has no effect in the model.
  The column is on the console whenever a cell is picked (`Ready` in `ConsoleProofs`);
  the row may be one too far, which `CursorInside` is about.
* A panic of the boot code loops with interrupts on, so keys are still handled after its
  report. The model has the behaviour; nothing in the repository says it should not be.

## 6. Plan

Done, in this order: buddy allocator and its contract with the first proofs; frame
allocator, its proofs and the heap set-up; framebuffer and console, each alone and with
the interrupt; list allocator, memory report, file system with its abstract tree and
its proofs, shell, ACPI and the kernel as a whole.

Then the proofs, in the same order: allocators and their refinement, frames and heap
set-up, framebuffer with and without the interrupt, file system, kernel, console with and
without the interrupt, shell.

What could come next: `usize` arithmetic at its real width in `ListAllocator`, and the
inductions over data above, once a prover with induction is at hand.
