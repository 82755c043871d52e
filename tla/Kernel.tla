--------------------------------- MODULE Kernel --------------------------------
(***************************************************************************)
(* The whole kernel on its one CPU: the boot sequence of main.rs, the      *)
(* handlers of int.rs and the interrupt controller, the spin locks, the    *)
(* commands the keyboard handler runs, panics, exceptions and the reboot   *)
(* chain of acpi.rs.  What the parts compute is in the other modules; here *)
(* is who runs when, who holds what, and what never comes back.            *)
(*                                                                         *)
(* A context is the boot code ("main"), a hardware interrupt ("irq") or a  *)
(* non-maskable interrupt ("nmi"); a later one suspends the earlier ones.  *)
(* `todo` holds the operations a context has still to do.  An operation    *)
(* that calls code with a choice puts the operations of the choice in      *)
(* front of the rest.                                                      *)
(***************************************************************************)
EXTENDS Acpi

CONSTANTS Machines,     \* what may be booted: [build, firmware, keys], where build is
                        \* "kernel", or "test" for the feature that runs the tests,
                        \* and keys bounds the keys pressed while it runs
          Commands,     \* the commands typed
          PORT_MAX      \* u16::MAX

ASSUME KernelAssumption ==
    \A m \in Machines : m.build \in {"kernel", "test"} /\ m.firmware \in Firmwares /\ m.keys \in Nat

Contexts == {"main", "irq", "nmi"}
Locks == {"SERIAL", "HEAP", "KEYBOARD", "PICS", "FS"}
TIMER == 0              \* IRQ lines; the smaller number has priority
KEYBOARD_IRQ == 1

VARIABLES todo,         \* context -> sequence of operations
          holder,       \* lock -> set of at most one context
          IF_,          \* the interrupt flag
          irr,          \* interrupt requests the controller has latched
          isr,          \* interrupts in service
          ready,        \* what boot has set up
          mirror,       \* SERIAL_MIRROR
          firmware,
          reset_info,   \* RESET_INFO: the fields stored so far
          machine,      \* running, reset, off, or lost (nothing left to run)
          port,         \* what reboot wrote to an I/O port
          keys          \* keys that may still be pressed

kernelVars == <<todo, holder, IF_, irr, isr, ready, mirror, firmware, reset_info,
                machine, port, keys>>

Op(o) == [op |-> o, of |-> ""]
Lock(l) == [op |-> "lock", of |-> l]
Unlock(l) == [op |-> "unlock", of |-> l]

--------------------------------------------------------------------------------
(* What the code does, as operations *)

print == <<Op("print")>>        \* console_print! and its relatives
serial == <<Op("serial")>>      \* serial_print! and its relatives

\* One call of the allocator: what a null pointer leads to depends on the caller.
alloc(on_null) == <<Lock("HEAP"), [op |-> "alloc", of |-> on_null]>>

\* The test runner: one test stands for all of them, and for their FS.lock().
test_run ==
    serial \o <<Lock("FS")>> \o alloc("panic") \o <<Unlock("FS")>> \o serial \o <<Op("exit_qemu")>>

\* kernel() and the loop after it.
kernel == print \o <<Op("hlt")>>

kinit_to_idt ==
    serial \o <<Op("fb_init")>> \o serial \o <<Op("console_init")>> \o serial
    \o print \o <<Op("gdt_init")>> \o print \o <<Op("idt_init")>>
kinit_pic == print \o <<Lock("PICS"), Op("pic_init"), Unlock("PICS")>>
kinit_rest ==
    serial \o <<Op("acpi_init")>> \o print
    \o <<Op("kmem_init"), Lock("HEAP"), Op("heap_init"), Unlock("HEAP")>> \o print

AfterKinit(build) == IF build = "test" THEN test_run ELSE kernel

\* Faulty: interrupts are enabled before the controller is programmed.
kmain_early(build) ==
    serial \o kinit_to_idt \o <<Op("sti")>> \o kinit_pic \o print \o kinit_rest \o AfterKinit(build)

kmain(build) ==
    serial \o kinit_to_idt \o kinit_pic \o print \o <<Op("sti")>> \o print \o kinit_rest
    \o AfterKinit(build)

\* #[panic_handler], and the handler of an exception that does not return.
panic == print \o serial \o <<Op("loop")>>
panic_loop == <<Op("cli"), Op("loop")>>
fatal_exception == serial \o panic_loop

breakpoint_handler == serial \o print

\* Faulty: the triple fault is left out.
fallback_reboot_8042 == serial \o <<Op("pulse_8042"), Op("loop")>>

fallback_reboot == serial \o <<Op("pulse_8042"), Op("triple_fault")>>

reboot == serial \o <<Op("cli"), Op("reset_reg")>>

\* shell::execute, by what the command needs from the kernel; one command stands
\* for those that need the same.
execute(c) ==
    CASE c = "echo" -> print
      [] c = "tg-serial" -> <<Op("toggle_serial")>> \o print
      [] c = "ls" -> <<Lock("FS")>> \o alloc("panic") \o <<Unlock("FS")>> \o print
      [] c = "mkdir" -> <<Lock("FS")>> \o alloc("panic") \o <<Op("maybe_print"), Unlock("FS")>>
      [] c = "alloc!" -> alloc("print") \o print
      [] c = "bp" -> <<Op("int3")>>
      [] c = "panic" -> <<Op("panic")>>
      [] c = "reboot" -> reboot
      [] c = "shutdown" -> print \o <<Op("exit_qemu")>>
      [] OTHER -> << >>

end_of_interrupt == <<Lock("PICS"), Op("eoi"), Unlock("PICS")>>

\* Faulty: the timer's interrupt is not ended.
timer_interrupt_handler_silent == <<Op("iret")>>

timer_interrupt_handler == end_of_interrupt \o <<Op("iret")>>

\* The key's command comes between reading the key and the end of interrupt.
keyboard_interrupt_handler == <<Lock("KEYBOARD"), Op("key")>>
AfterKey == end_of_interrupt \o <<Unlock("KEYBOARD"), Op("iret")>>

--------------------------------------------------------------------------------
(* The CPU: what one operation of the active context does *)

KernelInit ==
    /\ \E m \in Machines :
        /\ todo = [main |-> kmain(m.build), irq |-> << >>, nmi |-> << >>]
        /\ firmware = m.firmware /\ keys = m.keys
    /\ holder = [l \in Locks |-> {}]
    /\ IF_ = FALSE /\ irr = {} /\ isr = {} /\ ready = {} /\ mirror = FALSE
    /\ reset_info = << >> /\ machine = "running" /\ port = {}

Active == IF todo.nmi # << >> THEN "nmi" ELSE IF todo.irq # << >> THEN "irq" ELSE "main"

op == Head(todo[Active])
At(o) == machine = "running" /\ op.op = o
Continue(ops) == todo' = [todo EXCEPT ![Active] = ops \o Tail(@)]
Abandon(ops) == todo' = [todo EXCEPT ![Active] = ops]

\* spin::Mutex::lock waits until the lock is free; a guard is dropped by Release.
Acquire ==
    /\ At("lock") /\ holder[op.of] = {}
    /\ holder' = [holder EXCEPT ![op.of] = {Active}]
    /\ Continue(<< >>)
    /\ UNCHANGED <<IF_, irr, isr, ready, mirror, firmware, reset_info, machine, port, keys>>

Release ==
    /\ At("unlock")
    /\ holder' = [holder EXCEPT ![op.of] = {}]
    /\ Continue(<< >>)
    /\ UNCHANGED <<IF_, irr, isr, ready, mirror, firmware, reset_info, machine, port, keys>>

NoLockChange == UNCHANGED <<holder, irr, isr, firmware, keys>>

\* Faulty: the lock is taken with interrupts on.
Serial_unmasked ==
    /\ At("serial")
    /\ Continue(<<Lock("SERIAL"), Unlock("SERIAL")>>)
    /\ UNCHANGED <<IF_, ready, mirror, reset_info, machine, port>> /\ NoLockChange

\* Faulty: interrupts are on afterwards, whatever they were before.
Serial_enabling ==
    /\ At("serial")
    /\ Continue(<<Lock("SERIAL"), Unlock("SERIAL"), Op("sti")>>)
    /\ IF_' = FALSE
    /\ UNCHANGED <<ready, mirror, reset_info, machine, port>> /\ NoLockChange

\* serial::_print: without_interrupts restores the flag it has found.
Serial ==
    /\ At("serial")
    /\ Continue(<<Lock("SERIAL"), Unlock("SERIAL")>> \o IF IF_ THEN <<Op("sti")>> ELSE << >>)
    /\ IF_' = FALSE
    /\ UNCHANGED <<ready, mirror, reset_info, machine, port>> /\ NoLockChange

\* cli and sti.
SetIF ==
    /\ \/ At("cli") /\ IF_' = FALSE
       \/ At("sti") /\ IF_' = TRUE
    /\ Continue(<< >>)
    /\ UNCHANGED <<ready, mirror, reset_info, machine, port>> /\ NoLockChange

\* with_console panics without a console, and the panic handler prints again.
PrintOp ==
    /\ At("print")
    /\ \/ /\ "console" \in ready
          /\ Continue(IF mirror THEN serial ELSE << >>)
          /\ UNCHANGED machine
       \/ "console" \notin ready /\ machine' = "lost" /\ UNCHANGED todo
    /\ UNCHANGED <<IF_, ready, mirror, reset_info, port>> /\ NoLockChange

OnlyTodoChanges == UNCHANGED <<IF_, ready, mirror, reset_info, machine, port>> /\ NoLockChange

\* What a panic leaves is never done, so its locks stay held.
Panic == At("panic") /\ Abandon(panic) /\ OnlyTodoChanges

\* mkdir prints when it fails.
MaybePrint == At("maybe_print") /\ (Continue(<< >>) \/ Continue(print)) /\ OnlyTodoChanges

\* receive_key: Enter runs the command of the line.
ReceiveKey ==
    /\ At("key") /\ \E c \in Commands : Continue(execute(c) \o AfterKey)
    /\ OnlyTodoChanges

ToggleSerial ==
    /\ At("toggle_serial")
    /\ mirror' = ~mirror
    /\ Continue(<< >>)
    /\ UNCHANGED <<IF_, ready, reset_info, machine, port>> /\ NoLockChange

\* int3 enters the handler with interrupts off; its iret restores the flag.
Int3 ==
    /\ At("int3")
    /\ Continue(breakpoint_handler \o IF IF_ THEN <<Op("sti")>> ELSE << >>)
    /\ IF_' = FALSE
    /\ UNCHANGED <<ready, mirror, reset_info, machine, port>> /\ NoLockChange

\* The allocator returns null without a heap, or when the heap is full; the
\* lock is dropped before the caller looks at the pointer.
Alloc ==
    /\ At("alloc")
    /\ \/ "heap" \in ready /\ Continue(<<Unlock("HEAP")>>)
       \/ Continue(<<Unlock("HEAP"), Op(op.of)>>)
    /\ OnlyTodoChanges

SetUp(o, part) ==
    /\ At(o) /\ ready' = ready \cup {part}
    /\ Continue(<< >>)
    /\ UNCHANGED <<IF_, mirror, reset_info, machine, port>> /\ NoLockChange

ConsoleInit == SetUp("console_init", "console")
GdtInit == SetUp("gdt_init", "gdt")
IdtInit == SetUp("idt_init", "idt")
PicInit == SetUp("pic_init", "pic")
HeapInit == SetUp("heap_init", "heap")

\* fb::init; kmem::init and the mapping of the heap, which expect frames.
MayFail(o) == At(o) /\ (Continue(<< >>) \/ Abandon(<<Op("panic")>>)) /\ OnlyTodoChanges

FbInit == MayFail("fb_init")
KmemInit == MayFail("kmem_init")

\* acpi::init up to the store of RESET_INFO: a page fault, nothing, or a store.
AcpiInit ==
    /\ At("acpi_init")
    /\ \/ ReadsUnmapped(firmware) /\ Abandon(fatal_exception) /\ IF_' = FALSE
       \/ /\ ~ReadsUnmapped(firmware)
          /\ Continue(IF reset_info_of(firmware) = {} THEN serial ELSE <<Op("store")>> \o serial)
          /\ UNCHANGED IF_
    /\ UNCHANGED <<ready, mirror, reset_info, machine, port>> /\ NoLockChange

Fields == {"some", "space", "address", "value"}

\* RESET_INFO = Some(..) is one store for each field, in an order the compiler
\* chooses, with interrupts on.
StoreResetInfo ==
    /\ At("store")
    /\ \E f \in Fields \ DOMAIN reset_info, i \in reset_info_of(firmware) :
        /\ reset_info' = [g \in DOMAIN reset_info \cup {f} |->
                            IF g # f THEN reset_info[g] ELSE IF g = "some" THEN 1 ELSE i[g]]
        /\ Continue(IF DOMAIN reset_info' = Fields THEN << >> ELSE <<op>>)
    /\ UNCHANGED <<IF_, ready, mirror, machine, port>> /\ NoLockChange

Field(f) == IF f \in DOMAIN reset_info THEN reset_info[f] ELSE 0

\* The machine may restart on a write, or not notice it.
MayReset == machine' = "reset" \/ UNCHANGED machine

\* reboot after cli: the write to the reset register, when it is an I/O port.
ResetReg ==
    /\ At("reset_reg")
    /\ \/ /\ Field("some") = 1 /\ Field("space") = 1 /\ Field("address") <= PORT_MAX
          /\ port' = {[address |-> Field("address"), value |-> Field("value")]}
          /\ MayReset
       \/ /\ ~(Field("some") = 1 /\ Field("space") = 1 /\ Field("address") <= PORT_MAX)
          /\ UNCHANGED <<port, machine>>
    /\ Continue(serial \o fallback_reboot)
    /\ UNCHANGED <<IF_, ready, mirror, reset_info>> /\ NoLockChange

Halting(o) == At(o) /\ UNCHANGED <<IF_, ready, mirror, reset_info, port>> /\ NoLockChange

\* fallback_reboot's two attempts, and exit_qemu, which only QEMU notices.
Pulse8042 == Halting("pulse_8042") /\ Continue(<< >>) /\ MayReset
TripleFault == Halting("triple_fault") /\ Continue(<< >>) /\ machine' = "reset"
ExitQemu == Halting("exit_qemu") /\ Abandon(<<Op("loop")>>) /\ machine' \in {"running", "off"}

\* The non-specific end of interrupt ends the most urgent one in service.
Eoi ==
    /\ At("eoi")
    /\ isr' = {i \in isr : \E j \in isr : j < i}
    /\ Continue(<< >>)
    /\ UNCHANGED <<holder, IF_, irr, ready, mirror, firmware, reset_info, machine, port, keys>>

Iret ==
    /\ At("iret") /\ IF_' = TRUE
    /\ Continue(<< >>)
    /\ UNCHANGED <<ready, mirror, reset_info, machine, port>> /\ NoLockChange

Boot == ConsoleInit \/ GdtInit \/ IdtInit \/ PicInit \/ HeapInit \/ FbInit \/ KmemInit \/ AcpiInit
    \/ StoreResetInfo

Step ==
    \/ Acquire \/ Release \/ Serial \/ SetIF \/ PrintOp \/ Panic \/ MaybePrint \/ ReceiveKey
    \/ ToggleSerial \/ Int3 \/ Alloc \/ Boot \/ ResetReg \/ Pulse8042 \/ TripleFault \/ ExitQemu
    \/ Eoi \/ Iret

--------------------------------------------------------------------------------
(* The hardware around it *)

Urgent(i) == (\A j \in isr : i < j) /\ (\A j \in irr : i <= j)

Handler(i) == IF i = TIMER THEN timer_interrupt_handler ELSE keyboard_interrupt_handler

\* The CPU takes the most urgent request.  Before pic::init its vector is the
\* one of an exception, before int::init there is no handler at all.
Deliver(i) ==
    /\ machine = "running" /\ IF_ /\ todo.nmi = << >>
    /\ i \in irr /\ Urgent(i)
    /\ irr' = irr \ {i} /\ isr' = isr \cup {i}
    /\ IF_' = FALSE
    /\ machine' = IF {"idt", "pic"} \subseteq ready THEN "running" ELSE "lost"
    /\ todo' = [todo EXCEPT !.irq = Handler(i) \o @]
    /\ UNCHANGED <<holder, ready, mirror, firmware, reset_info, port, keys>>

\* The timer's period is longer than its handler.
Tick ==
    /\ machine = "running" /\ TIMER \notin irr
    /\ todo.irq = << >> \/ KEYBOARD_IRQ \in isr
    /\ irr' = irr \cup {TIMER}
    /\ UNCHANGED <<todo, holder, IF_, isr, ready, mirror, firmware, reset_info, machine, port, keys>>

KeyPress ==
    /\ machine = "running" /\ KEYBOARD_IRQ \notin irr /\ keys > 0
    /\ irr' = irr \cup {KEYBOARD_IRQ} /\ keys' = keys - 1
    /\ UNCHANGED <<todo, holder, IF_, isr, ready, mirror, firmware, reset_info, machine, port>>

Nmi ==
    /\ machine = "running" /\ todo.nmi = << >>
    /\ todo' = [todo EXCEPT !.nmi = fatal_exception]
    /\ IF_' = FALSE
    /\ machine' = IF "idt" \in ready THEN "running" ELSE "lost"
    /\ UNCHANGED <<holder, irr, isr, ready, mirror, firmware, reset_info, port, keys>>

KernelNext == Step \/ (\E i \in {TIMER, KEYBOARD_IRQ} : Deliver(i)) \/ Tick \/ KeyPress \/ Nmi

\* The CPU executes the active context; the boot code and a request get their
\* turn between two ticks however often the timer fires.
KernelFairness ==
    /\ WF_kernelVars(Step /\ Active # "main")
    /\ SF_kernelVars(Step /\ Active = "main")
    /\ SF_kernelVars(Deliver(TIMER)) /\ SF_kernelVars(Deliver(KEYBOARD_IRQ))

KernelSpec == KernelInit /\ [][KernelNext]_kernelVars /\ KernelFairness

--------------------------------------------------------------------------------
(* Properties *)

\* kinit sets up what an interrupt needs before one can come: the machine is lost
\* only to a failure before there is a console, or to an NMI before the IDT.
HandlersInPlace ==
    machine = "lost" =>
        \/ "console" \notin ready
        \/ todo.nmi # << >> /\ "idt" \notin ready

\* Handlers do not nest, whatever they call, and leave nothing in service.
HandlersSeparate ==
    /\ todo.irq # << >> => ~IF_
    /\ todo.irq = << >> => isr = {}

Spinning(c, l) ==
    /\ machine = "running" /\ c = Active
    /\ op.op = "lock" /\ op.of = l /\ holder[l] # {}

\* A context spins on a lock only in two cases: a command that needs the heap or,
\* when the tests run, the file system, both used by the boot code with
\* interrupts on; and an NMI while the serial port is written.
SpinsOnlyKnown ==
    \A c \in Contexts, l \in Locks :
        Spinning(c, l) =>
            \/ c = "irq" /\ l \in {"HEAP", "FS"} /\ holder[l] = {"main"}
            \/ c = "nmi" /\ l = "SERIAL"

\* LockedHeap is the `thread-safe wrapper around the heap allocator`
\* (heap.rs:153): a caller may wait for it, but not for ever.  An interrupt
\* handler that spins on a lock of the code it has interrupted does.
HeapLockSafe == \A c \in Contexts : ~Spinning(c, "HEAP")

\* A table with everything parse_fadt relies on, the first FADT that is listed in
\* an XSDT, reached through an RSDP, with everything find_fadt and init rely on.
Trusted(f, a) ==
    /\ \E r \in f.rsdp :
        /\ r.signature = "RSD PTR " /\ r.revision >= 2
        /\ \A n \in {RSDP_V1, r.length} : SumFunctionOnSet(r.bytes, 1 .. n) % 256 = 0
    /\ f.xsdt.signature = "XSDT" /\ SDT_HEADER < f.xsdt.length
    /\ \E i \in 1 .. f.xsdt.length - SDT_HEADER :
        /\ f.xsdt.entries[i] = a
        /\ \A j \in 1 .. i - 1 :
            f.xsdt.entries[j] # 0 => f.tables[f.xsdt.entries[j]].signature # "FACP"
    /\ f.tables[a].signature = "FACP"
    /\ RESET_END <= f.tables[a].length
    /\ SumFunctionOnSet(f.tables[a].bytes, 1 .. f.tables[a].length) % 256 = 0

\* What reboot writes to a port comes from such a table, and is exactly what the
\* table says unless reboot was typed while init stored RESET_INFO.
ResetValidated ==
    \A p \in port :
        \E a \in DOMAIN firmware.tables :
            LET t == firmware.tables[a] IN
            /\ Trusted(firmware, a)
            /\ \/ t.space = 1 /\ p.address = t.address /\ p.value = t.value
               \/ Head(todo.main).op = "store"

\* A reboot after boot falls back to the keyboard controller only when it has
\* tried the reset register, or such a table offers none that is an I/O port.
ResetRegisterUsed ==
    (todo.irq # << >> /\ Head(todo.irq).op = "pulse_8042" /\ "heap" \in ready) =>
        \/ port # {}
        \/ \A a \in DOMAIN firmware.tables :
            Trusted(firmware, a) =>
                firmware.tables[a].space # 1 \/ firmware.tables[a].address \notin 1 .. PORT_MAX

\* Nothing will take the keyboard's interrupt any more.
Stopped ==
    \/ machine # "running"
    \/ todo.nmi # << >>
    \/ op.op = "loop" /\ ~IF_
    \/ Active = "irq" /\ \E l \in Locks : Spinning("irq", l)

\* A pressed key is taken, unless the kernel has stopped: no handler, timer
\* tick or command that returns leaves the controller or the flag blocked.
KeyServed == [](KEYBOARD_IRQ \in irr => <>(KEYBOARD_IRQ \notin irr \/ Stopped))

\* reboot `should never return` (acpi.rs:432): whatever the firmware offers and
\* whichever writes go unnoticed, the machine restarts, unless an NMI comes.
RebootResets ==
    (todo.irq # << >> /\ Head(todo.irq).op = "reset_reg")
        ~> (machine = "reset" \/ todo.nmi # << >>)
================================================================================
