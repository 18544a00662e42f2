# NeurOS: a TLA+ model of the kernel

NeurOS is a small x86-64 kernel in Rust (`kernel/`), booted by Limine, with an
interrupt-driven shell on the serial port, a display on the framebuffer and a
round-robin process scheduler. One processor runs everything; what makes the
kernel hard to test is that every interrupt handler shares spin locks, lazily
initialised statics and one heap with the code it interrupts.

This directory holds TLA+ modules that model the kernel, the TLC
configurations that check them, and proofs that TLAPS checks. Run them here:

    tlc -config Scheduler.cfg SchedulerHistory
    tlc -config SerialQuiet.cfg Serial        # SerialEarly.cfg, SerialSelfTest.cfg
    tlc -config KernelNominal.cfg Kernel      # KernelFaults.cfg
    tlc -config Memory.cfg MCMemory           # and Initrd, Elf, Vga, Shell likewise
    tlapm KernelProofs.tla                    # and every other ...Proofs.tla;
    tlapm CommonLemmas.tla                    # KernelProofs takes the longest

## Inventory

All paths are under `kernel/src/`.

| Component | State | Operations | What makes it correct | Module |
|---|---|---|---|---|
| Scheduler (`scheduler.rs`, `process.rs`, `syscall.rs`) | `queue`, `quantum`, `remaining` | `add`, `tick`, `schedule`, `fork` | ids unique although `fork` names a child `len + 1`; first come first served; no starvation; exact slices | `Scheduler` |
| Timer (`timer.rs`) | `elapsed`, an `AtomicU32` | `increment`, `get_elapsed_*` | advances with the scheduler, tick for tick | `Scheduler`, `Kernel` |
| Interrupts (`interrupts.rs`) | IDT, PIC mask and in-service bits | `initialize`, three hardware handlers, 23 exception handlers | never waits for what it interrupted; always ends the interrupt | `Kernel` |
| Boot, panic (`main.rs`) | the interrupt flag | `kmain`, `tick`, `halt`, `panic` | segments, gates, heap, port and PIC are set up before interrupts are enabled, and what a handler initialises on first use it initialises with interrupts off; a panic is reported | `Kernel` |
| Logger (`logger.rs`, `ansi.rs`) | `logs`, never trimmed | the six macros, `Logger::log` | never re-entered | `Kernel` |
| Serial port (`serial.rs`) | the UART's registers and FIFO | `initialize`, `read`, `write` | configured in an order that the register banks allow; input is neither lost nor waited for | `Serial` |
| Keyboard (`keyboard.rs`) | one port | `interpret` | lock order | `Kernel` |
| Shell (`shell.rs`) | `buffer`, user, host name | `new`, `display`, `interpret` | lock order; the buffer is the edited line and agrees with the terminal; a return runs it | `Shell`, `Kernel` (locks) |
| Memory (`memory.rs`) | `PhysicalManager.next`, page tables, the heap | `allocate_frame`, `allocate_pages`, `initialize` | no frame handed out twice; heap mapped before it is used | `Memory`, `Kernel` (order, exhaustion) |
| Display (`vga.rs`, `font.rs`) | framebuffer, cursor, font, colours | `write_str`, `write_char`, `clear`, `set_cursor` | the screen shows the text that was written; the cursor stays on the screen | `Vga`, `Kernel` (locks) |
| Initial ramdisk (`initrd.rs`) | `files` | `new`, `parse_*`, `get_data` | the walk stays on headers; dates and permissions are right; look-ups find their file | `Initrd` with `Timestamp`, `Kernel` (initialisation) |
| ELF reader (`elf.rs`) | none | `new`, `Display` | fields lie where the format says; table offsets do not overflow | `Elf` |
| Images (`image.rs`) | pixel data | `new`, `draw`, `set_position` | a picture that is missing or cannot be read stops the boot with the screen locked | steps of `Kernel` |
| Intro screen (`intro.rs`) | none | `initialize` | owns the screen while it draws, and may fail there | steps of `Kernel` |
| GDT, user space (`gdt.rs`, `userspace.rs`) | segment and model-specific registers | `initialize` | gates name a segment of the table in use; STAR accepts the order of segments | steps of `Kernel` |
| SMP (`smp.rs`) | none | `initialize` | counts cores and starts none | one step of `Kernel` |
| ACPI (`acpi.rs`) | none | none that is called | | not modelled |

How they interact:

- *Calls.* `kmain` initialises the components in a fixed order with interrupts
  disabled, then `tick` enables interrupts and halts in a loop. After that only
  handlers run: `timer_handler` (timer, scheduler), `keyboard_handler`
  (keyboard, VGA console, screen) and `serial_handler` (serial console, serial
  port, and whatever the typed command touches: logger, scheduler, ramdisk).
- *Shared state.* `Lazy<Mutex<_>>` statics. A `Mutex` is a spin lock without an
  owner, a `Lazy` that is being initialised makes everybody who forces it spin,
  and the heap is behind a lock of its own. On one processor, waiting for
  something that interrupted code owns is waiting for ever.
- *Failure.* `panic = "abort"`: no guard is dropped, no `Lazy` is reset. The
  panic handler needs the screen, the logger and memory, and may find any of
  them taken.
- *Hardware.* Handlers run with interrupts disabled (interrupt gates), the PIC
  holds back requests of the same or a lower priority until the end of the
  interrupt, and COM1's line is edge-triggered.

What is hard here: an interrupt, a non-maskable exception or a panic between
any two accesses to shared state; initialisation order; liveness of handlers
that wait; a burst of input against an edge-triggered line; counters at their
limits; and, in the code that decodes files and lays out text, arithmetic at
its edges, whose failure is a panic in the middle of the boot. `PROJECT.json`
lists each such place with the properties that watch it.

## Modules

| Module | What it is |
|---|---|
| `RoundRobin` | abstract specification: what a round-robin scheduler promises |
| `Scheduler` | the scheduler, the tick counter, the timer interrupt and fork |
| `SchedulerHistory` | `Scheduler` with two history variables, for properties about the past |
| `Serial` | `Serial::initialize`, `Serial::read` and `serial_handler` with the UART and the PIC |
| `SerialProofs` | theorems about it |
| `Kernel` | boot, handlers and failures over locks, statics and the heap; composed with `Scheduler` |
| `KernelProofs` | theorems about the scheduler and about the kernel composed with it |
| `AddressSpace` | abstract specification: every frame has one owner |
| `Memory` | the frame allocator and the mapping of the heap; implements `AddressSpace` |
| `MemoryProofs` | theorems about it |
| `Calendar` | the Gregorian calendar in closed form, a reference |
| `Timestamp` | `File::parse_timestamp`, a turn of a loop at a time |
| `Initrd` | the walk over the USTAR archive, the lines it logs (it calls `Timestamp`), look-ups |
| `InitrdProofs` | theorems about the walk, the look-ups, the calendar and the dates |
| `Elf` | `Elf::new` |
| `ElfProofs` | theorems about it |
| `Vga` | text on the screen, with the console and the panic handler that write it |
| `VgaProofs` | theorems about it |
| `Shell` | `Shell::interpret` and the terminal at the other end |
| `ShellProofs` | theorems about it |
| `CommonLemmas` | induction, division and `FlattenSeq`: what the proofs share |
| `MC...` | the constants of the instances: memory maps, archives, files, strings |

In all modules definitions carry the source's names. A definition whose name
ends in `_Something` (`schedule_NoStop`, `read_Drain`, ...) is a deliberately
wrong variant of the one it precedes; no specification uses it. It documents a
bug that the properties would catch.

### Scheduler

`queue` is the `VecDeque` of processes, `queue[1]` its front; `remaining` and
`elapsed` are the fields of the same name. A process is its id and its state:
name and context are cloned by `fork` and read by nobody. `Countdown`, `Swap`
and `NoSwap` are the three paths of `Scheduler::tick`; `TimerInterrupt` is
`timer_handler`, the increment (modulo 2^32, here `TickModulus`) and the tick;
`fork` is the system call, with a bound on the queue that the code leaves to
the heap. Each is one step because each runs inside a handler with interrupts
disabled; that this is so is what `Kernel` checks (`ImplementsScheduler`).

There is no context switch in the code: the "current" process is the front of
the queue and its state, and that is what the properties speak of.

### Serial

The driver's steps are single port accesses, in the order of the source. The
hardware behind the ports is external: registers with the divisor-latch bank
switch, a receive FIFO of `Depth` bytes which raises the line when it holds
`Trigger` bytes or has been left alone (character timeout), loopback, which
takes the receiver off the line, and the PIC's latch, set by a rising edge.
After a falling edge a latched request may remain (as emulated PICs do) or
vanish (as the 8259 does): the choice is left open. OUT2, which gates
the line on PC boards, is left out: a gated line has fewer edges.

A byte has a value and an origin. The program sees only the value (`Value`):
0xAE for the byte that the self-test sends round the loop (`Pattern`) and for a
byte of the line that happens to have it (`Twin`), another one for all the
others (`Line`). `answer` remembers which byte the self-test has read;
`LineBytes` are the bytes that the other end may send.

`Undisturbed` says whether bytes and timeouts may occur before
`Serial::initialize` has returned. It is the assumption under which the
handler never waits; with it off, a pulse latched during the self-test would
call the handler with an empty FIFO, which `Serial::read` waits out with
interrupts disabled.

### Kernel

`todo` is what the processor has left to execute: a sequence of accesses to
shared state (`force`, `lock`, `unlock`, `alloc`, the scheduler's steps, `sti`,
`cli`, `eoi`, `iret`) and of places that may panic (`may`). `kmain`, the
handlers and the initialisers of the statics are such sequences, built from
one operator per source function (`Log`, `display`, `Shell_new`, `interpret`,
...). Repetitions with no effect on who owns what are written once: one
ramdisk file, one log line. An interrupt or exception puts its handler and an
`iret` in front of `todo`; a panic replaces it by `panic_handler`. An
instruction that traps is put back behind its handler's `iret` and traps again.
`cpu` holds whose GDT and code segment are loaded and which code selector the
gates of the IDT were built with. `held` and
`lazy` are the locks and the statics, `isr` the PIC's in-service bits, `heap`
whether memory can be had: all of it or none. A heap with room for a small
allocation but not for a larger one, in which a report of the panic might still
succeed, is left out. `fault` records the one fault of a behaviour and
what it interrupted.

The scheduler's variables and steps are `Scheduler`'s: `Kernel` extends that
module, and shows that its finer interleaving still implements `Scheduler!Spec`
(`ImplementsScheduler`; between the two halves of `timer_handler` the counted
tick is taken back).

### Memory

`allocate_pages` takes a frame for the page and then calls `map_to`, which
takes frames for the tables that are missing, from the same allocator and in
between. So the steps are `allocate_frame`, `create_next_table` (external, the
x86_64 crate: one level of the walk) and `map_page`. Frames are numbers,
entries are named by level and by the pages they cover, and the boot loader's
map is a sequence of pieces, usable or not; that usable pieces are whole pages
and do not overlap is Limine's promise and an assumption of the module.

### Timestamp, Calendar, Initrd

`Timestamp` has one step per turn of the two loops of `parse_timestamp`, on a
count of seconds kept as days and seconds, because 32 bits are more than TLC's
integers have. `checked` says whether the build has overflow checks (`make run`
uses the dev profile; `PROFILE=release` has none). `Calendar` numbers days in
closed form, and names the two sets of instants that the code gets wrong. Without
overflow checks, an instant that underflows is taken for the one 2^32 seconds
later (`Later`).

`Initrd` extends `Timestamp` and calls it for the line it logs of every file:
`trace` begins the line with the permissions, `convert` is a step of the
conversion, `push` ends it and keeps the file. It sees memory as blocks. `archive` is what tar was given, `Tar` what it
writes (external); members may hold zeros or another archive, so that nothing
but the arithmetic keeps the walk on headers. A line may be impossible to
format, because of the member's mode or of its date, and the boot then panics.
The mode is taken through the decimal number that the code makes of its octal
digits.

### Elf

A field that is decoded is the range of bytes it came from, so that the
properties can compare it with the format. `U16` and `U64` are the moduli of
the code's arithmetic.

### Vga

A string is a sequence of tokens: newlines, tabs, the escape sequences of
`ansi.rs`, characters. `put` is one turn of `write_str`'s loop, with its locals
in a record, and `Pens` the loop; a write is one step, for it holds the lock with
interrupts disabled (`MaskedWhileBusy` of `Kernel`). The console of the Enter
key, the logger and the panic handler are the writers; `Screens` is the handler's
loop over the logs.

`TextAssumption` is what the strings of the kernel have in common: each sets a
colour before its first character (`Display for Log`, `Shell::prompt`, the file
`motd`) and none holds a carriage return, the prompt ends in a blank, and only
log lines, which name files, may hold a character beyond U+0100. The fonts have
256 glyphs: `U+0100`, whose slice begins where the font ends and is empty, draws
nothing, and the characters behind it (`WIDE`) panic in `write_char`.

### Shell

One action per arm of `interpret`: return, backspace, and any other character,
of which the model has printable ones, the space and the tab. Line feeds,
deletes, escapes and bytes from 0x80 on (two of which, U+0085 and U+00A0, are
whitespace) would take the last arm too and are left out, for what a terminal
makes of them is not modelled. The terminal is external: a
row as wide as `Width`, with wrapping, tab stops, and backspaces that stay in
their row. `typed` is a history variable: the keys since the last prompt.

## Runs

| Run | Module, cfg | Bounds | Shows |
|---|---|---|---|
| `scheduler` | `SchedulerHistory`, `Scheduler.cfg` | 4 processes, quantum 2, tick counter modulo 4 | ids dense (`PidsDense`), front `Running`, preempted processes `Stopped`, nobody overtakes, slices of `Quantum + 1` ticks, refinement of fair `RoundRobin`, no starvation, one `Running` process in the end |
| `scheduler_quantum` | `SchedulerHistory`, `SchedulerQuantum.cfg` | 2 processes, quantum 3 | *violation*: the announced quantum is one tick short |
| `serial_quiet` | `Serial`, `SerialQuiet.cfg` | the real FIFO (16, trigger 14), 18 bytes | port configured, kernel comes up, handler never waits |
| `serial_early` | `Serial`, `SerialEarly.cfg` | FIFO of 6, trigger 4, 8 bytes of either value, at any time | the test byte is input only in exchange for a byte of its value; input wedges only behind a burst, otherwise every byte is read |
| `serial_self_test` | `Serial`, `SerialSelfTest.cfg` | FIFO of 4, 2 bytes | *violation*: the self-test fails on a working port |
| `kernel_nominal` | `Kernel`, `KernelNominal.cfg` | 2 processes, quantum 1, modulo 3, no fault | one lock order, interrupts masked whenever anything is owned, gates that fit the segments, refinement of `Scheduler`, ticks for ever, no deadlock |
| `kernel_faults` | `Kernel`, `KernelFaults.cfg` | 2 processes, one fault of any kind anywhere | exactly which faults are reported and which leave the kernel spinning; a trapping instruction always does |
| `memory` | `MCMemory`, `Memory.cfg` | heap of 8 pages, tables of 4 entries, 289 memory maps | no frame twice, up with the whole heap mapped exactly if there are enough frames, refinement of `AddressSpace` over usable memory |
| `initrd` | `MCInitrd`, `Initrd.cfg` | blocks of 2 bytes, up to 3 of 11 members; one file dated at the edges of every year from 1970 to 2106, or 2^32 seconds before the edges of 2107; both builds | all members found and whole; permissions, dates and look-ups right; loads exactly if every line can be logged |
| `elf` | `MCElf`, `Elf.cfg` | 16-bit arithmetic modulo 256, 9072 files | fields and entries where the format says, decoded exactly if tables are inside and small |
| `vga` | `MCVga`, `Vga.cfg` | 7 rows, the kernel's strings cut to a character a word | the screen shows the text, off the screen exactly when full, panics get through the logs |
| `shell` | `MCShell`, `Shell.cfg` | rows with room for 3 characters, 3 commands | buffer, terminal and command agree with what was typed |

Why the bounds are enough. Scheduler: four processes give a line of three, the
shortest in which overtaking and exchanging the ends differ from rotating; the
tick counter wraps out of phase with the quantum. The proofs remove the bounds.
Serial: in `serial_quiet` the FIFO has its real size, and 18 bytes fill it,
overrun it and leave some for later; in `serial_early`, where the value of every
byte counts, a short FIFO does the same with 8. The proofs cover every size. Kernel: the locks and statics are the real ones, so nothing is
scaled down but the scheduler, whose two processes reach all three paths of
`tick`, and the number of faults: a second fault in a panic handler meets the
same resources as the first. Memory: the heap begins inside a table and spans
three, so that pages with and without new tables alternate as they do for the
real 1024 pages in tables of 512; the maps hold from no frame to more than are
needed, cut at every place and in both orders. Initrd: the first and last days
of every year that 32 bits reach, at midnight and around it, and those of every
month of six years (within a month nothing changes but the quotient); sizes from
nothing to two blocks, whole and not, with data of every kind between two
members. Elf: four entries of 64 bytes reach the scaled 16-bit limit, as 1024
reach the real one. Vga: seven rows are fewer than the second console or a panic
after four log lines needs. Shell: seven keys fill the row, wrap, and still
leave room for a backspace and a return.

Deadlock is checked in the scheduler's runs and in `kernel_nominal`. It is not
in `kernel_faults`, where a halted or spinning processor is an outcome, nor in
`Serial`, where the bounded other end stops sending and the kernel sleeps (and
where a failed self-test stops it), nor in the modules of functions that
return (`Memory`, `Initrd`, `Elf`: that they do is part of `ComesUpIffEnough`,
`LoadsIfLoggable` and `DecodedIffFits`) or whose users stop (`Vga`, `Shell`).

### Fairness

- `WF(TimerInterrupt)` in `Scheduler`: the PIT is unmasked, `tick` sleeps with
  interrupts enabled, and every handler returns (`KeepsTicking` of `Kernel`).
  Nobody has to fork.
- `WF(Step)` in `Kernel`: the processor executes. `SF(timer_interrupt)`:
  interrupts are enabled only between handlers, so a tick competes with the
  other lines again and again; the PIC latches it and gives IRQ 0 precedence,
  so it cannot lose for ever. Keyboard, serial port and faults have no fairness.
- `WF(Kernel)`, `WF(CharacterTimeout)` in `Serial`: the processor executes, and
  the UART's timer runs out. Nobody has to type.
- `SF(trap_fills_heap)` in `Kernel`: every trap pushes a log line, and nothing
  ever frees one, so the heap does fill up while the instruction goes on
  trapping.
- `WF(Next)` in `Memory` and `Elf`, `WF(Load)` in `Initrd`: one thread of code
  that waits for nothing. Nobody has to look up a file. `Vga` and `Shell` state
  no liveness and assume none.

### What the runs found

- **Slices last one tick more than announced** (`scheduler_quantum`).
  `Scheduler::tick` tests `remaining == 0` before it decrements, so a slice has
  `quantum + 1` ticks (101); `Scheduler::new` logs "a quantum of {quantum}
  ticks". `SliceIsQuantumPlusOne` shows that every slice has exactly that
  length, so this is an off-by-one and not drift.
- **The self-test can fail on a working port** (`serial_self_test`). The FIFO
  is reset two writes before the receiver leaves the line; a byte that arrives
  in between is read back in place of the test byte, and the assertion panics. It
  compares values: if that byte is 0xAE itself, the test passes, and its own byte
  is left in the FIFO and becomes input in exchange (`TestByteOnlyExchanged`).
- **Input wedges behind a burst.** `serial_handler` reads one byte per edge. If
  14 or more bytes remain after a read, the line has not fallen, no further
  edge comes, and the serial console is dead. `WedgeNeedsBurst` and
  `DrainsOrWedges` say that this is the only way to lose the console. Nothing in
  the repository promises otherwise, so it is stated as a property and not as a
  disagreement. Draining the FIFO in the handler with `Serial::read` as it is
  would be worse: bytes that arrive during the drain re-arm the latch, and the
  next call waits for a byte with interrupts disabled (`read_Drain`, which
  violates `ReadNeverSpins`).
- **Where a fault is silent.** `Cornered` names the places: a panic while the
  screen, the logger or the ramdisk's initialiser is owned, or before there is
  a heap; any exhaustion of the heap, for the report allocates; an NMI or
  machine check while the logger or the allocator is locked.
  `SpinsOnlyIfCornered` and `HaltsOnlyIfClean` say that these are all of them,
  and that none of them is ever reported. An exception in the kernel's own code
  is among them wherever it happens (`TrapEndsSpinning`): its handler returns to
  the instruction that caused it, which logs until the heap is full.
- **Some ramdisks do not load** (`LoadsIfLoggable`). `parse_timestamp` compares
  what is left of the seconds with the year it has just taken away, not with
  the next. For some instants of every year (`Underflows`, with overflow
  checks; `Overruns`, always) it panics, while `Initrd::new` logs the file: with
  a file dated 1 January 2026, the kernel does not boot. All other dates are
  right (`ListingRight`). Without overflow checks an instant of `Underflows` is
  taken for one 2^32 seconds later, and the file is listed under a wrong date;
  but for one second of November 1970, which becomes the midnight that begins
  2107, and panics all the same. (An earlier form of `Loggable` left that second
  out, and the run had no file of that date: the proof of `Ends` found it.) The
  same goes for a file whose mode has no digit for
  its owner.
- **Large ELF tables are not decoded** (`DecodedIffFits`). The product of index
  and entry size has 16 bits, so that every entry must start less than 64 KiB
  into its table.
- Also stated as properties, because nothing in the repository says otherwise:
  special bits of a mode are shown as the owner's permissions (`ListingRight`);
  a path that does not fit into the name field is not found, or found under its
  last part (`LookupRight`); text below the last row is written outside the
  framebuffer (`OffScreenIffFull`); a character beyond
  U+0100 in a log line makes the panic handler hang, and no other does
  (`PanicShowsEveryLog`); a line as wide as the terminal,
  or with a tab, cannot be wiped (`ScreenShowsBuffer`).

## Proofs

For every quantum, number of processes and counter width (`SchedulerAssumption`:
naturals, the last two positive), the first part of `KernelProofs`:

| Theorem | Statement | Argument |
|---|---|---|
| `TypeCorrect` | `Spec => []TypeOK` | inductive as it stands |
| `PidsStayDense` | `Spec => []PidsDense` | inductive with `TypeOK`: a rotation permutes the ids (`ScheduleKeepsDense`), `len + 1` is the one missing (`ForkKeepsDense`) |
| `FrontStaysRunning` | `Spec => []FrontRunning` | `ScheduleRotates`, `ForkAppends` |
| `FirstComeFirstServed` | `Spec => NoOvertaking` | an action property from `TypeOK`: where each place of the queue goes |
| `SchedulerImplementsRoundRobin` | `Spec => RoundRobin!Spec` under the mapping | the initial state, then `Swap` is `Switch` and `fork` is `Spawn` of an id not in the queue (density), and all else stutters |
| `PreemptedStaysStopped` | `HSpec => []PreemptedStopped` | strengthened by `RanKnown`: who ran is in the queue and the front has run, so a new id has not |
| `SliceLength` | `HSpec => SliceIsQuantumPlusOne` | strengthened by `SliceBalanced`: `slice + remaining = Quantum` |

For every FIFO depth, trigger level (at least 2, at most the depth) and number
and values of bytes (`SerialAssumption`), `SerialProofs`:

| Theorem | Statement | Argument |
|---|---|---|
| `PortConfigured` | `Spec => []Configured` | `RegsInv`: the value of every register after each of the writes |
| `SerialTypeCorrect` | `Spec => []TypeOK` | `RegsInv`, `BoolInv` and `FifoInv`: what has been read and what is in the FIFO is at most what was sent, which bounds both |
| `WedgeOnlyAfterBurst` | `Spec => []WedgeNeedsBurst` | `EdgeInv`: until the handler runs, a high line has its request latched; after a read it may stay high without one only with `Trigger` bytes left |
| `TestByteIsExchanged` | `Spec => []TestByteOnlyExchanged` | `PatternInv`: until it is read back the test byte is the last in the FIFO, for the receiver is off the line; a test that reads it found it alone, one that reads a byte of its value leaves it, once, and bytes of the line only join behind (`PushLine`, `ExchangedStays`) |
| `HandlerNeverWaits` | if `Undisturbed`, `Spec => [](ReadNeverSpins /\ SelfTestPasses)` | `QuietInv`: a request is latched only while the line is high, and only the handler's read lowers it |

For every quantum, counter width and number of processes, and whatever is
typed (`SchedulerAssumption`; `FaultsAssumption`: any set of faults),
`KernelProofs`:

| Theorem | Statement | Argument |
|---|---|---|
| `Masks` | `KSpec => []MaskedWhileBusy` | `KInv`, below |
| `Gates` | `KSpec => []GatesFit` | `Segments`: the segment table and CS are replaced by the first two instructions of `kmain`, before anything that could read a gate |
| `OrderUntilFault` | `KSpec => [](fault.kind = "none" => LockOrder /\ ~Spinning)` | `Faultless`: code that is left asks only for what ranks above everything owned where it asks |
| `NominalOrder` | if `Faults = {}`, `KSpec => [](LockOrder /\ ~Spinning)` | the same: without faults none is recorded |
| `SchedulerUnlessPanic` | `KSpec => Sch!Init /\ [][Sch!Next \/ Aborts]_Sch!vars` | `Driven`: the code that is left counts, ticks, forks and adds at most once each, a count is followed by its tick, and the first process is added to an empty queue |
| `KernelImplementsScheduler` | if `Faults = {}`, `KSpec => ImplementsScheduler` | without faults nothing aborts |
| `CleanHalts` | `KSpec => []HaltsOnlyIfClean` | `Clean`: a fault that corners the kernel leaves it `Stuck`, and it stays so; and `Tidy`: nothing else puts a halt into the code |
| `SpinsCornered` | `KSpec => []SpinsOnlyIfCornered` | `Faultless` also after an NMI or machine check that met neither the logger nor the allocator; `Reports` after a panic: the handler's code, on its own, is sound |

`MaskedWhileBusy` is not inductive: nothing in the present state says that a
lock will be released before interrupts are enabled again. That is in the code
that is left. So `KInv` is about `todo`: it *owes* a resource if it gives it
back before it takes it. `Fine(todo, Has)` says that the code never enables
interrupts (`Quiet`), or that it gives back all that is owned, and every lock it
takes, before it does. `Sound` adds the ranks of what it asks for, and
`HeapFirst` that nothing allocates before there is a heap. Each of these is composed: there
is a lemma for two pieces of code put together, one for each piece of source
code (`CodeBoot`, `CodeSmall`, ...), and one for what each kind of instruction
leaves of it. A panic replaces the code by the handler, which never
enables interrupts; that is why `Masks` survives faults and `LockOrder`
does not.

After a fault the argument has two sides. `Stuck` is the negative one: there is
an instruction in `Bar` (a request for the screen, the logger, the ramdisk or
memory) that cannot proceed now, and all code that could make it proceed comes
after it (`Barred`). A panic or an exhaustion in the wrong place makes the state
`Stuck`, and no step undoes it, so the halt at the end of the handler is never
reached. `Reports` is the positive one: after a panic in a good place, what is
left is a part of the panic handler that asks only for what is free or ranks
above all it holds. The rank of the logger, the PICs and the heap is chosen so
that the same order of locks serves the boot, the handlers and the exceptions.

For every page size, size of page tables, heap and set of memory maps
(`MemoryAssumption`: usable pieces are whole pages and do not overlap),
`MemoryProofs`:

| Theorem | Statement | Argument |
|---|---|---|
| `FramesOnce` | `Spec => []NoFrameTwice` | `MInv`: entries hold frames of `usable_frames` below `next` (`FromAllocator`), which are distinct because the pieces are disjoint (`UsableFrames`) |
| `UpOrShort` | `Spec => [](UpIfEnough /\ PanicsIfShort)`, the safety half of `ComesUpIffEnough` | `Count`: the frames handed out are as many as the entries that exist and the frames that wait; `Shape`: the entries are those of the pages mapped so far and of the walk for the next |
| `UpIffEnoughIfItEnds` | `Spec /\ <>(pc \in {"up", "panic"}) => ComesUpIffEnough` | from it |
| `Owners` | `Spec => OwnedSpec` | handing out a frame moves it from the free ones to the tables or the pages, and it is usable memory (`HandedUsable`) |

For every alphabet, set of commands, prompt, width of the terminal and number of
keys (`ShellAssumption`: the prompt leaves room in the row), `ShellProofs`:

| Theorem | Statement | Argument |
|---|---|---|
| `Buffer` | `Spec => []BufferIsEditedLine` | the property says which keys survive by counting; `Line(p, buffer, typed)` gives the place of each character of the buffer among the keys, and a backspace takes the last place away |
| `ScreenShows` | `Spec => []ScreenShowsBuffer` | `Screen`: while the line fits, the row is the prompt, the buffer and blanks, and the cursor is behind the buffer |
| `ReturnRunsLine` | `Spec => RunsWhatWasTyped` | from `Buffer`, and what splitting at the first space gives (`SplitIs`, `CutIs`) |

For every set of files and both moduli of the arithmetic (`ElfAssumption`: fields
are in the range of their types), `ElfProofs`:

| Theorem | Statement | Argument |
|---|---|---|
| `Tables` | `Spec => []TablesRight` | `ElfInv`: what has been read is an initial segment of the table; the widths that the code reads one after the other add up to the offsets of the format (`HeaderLaid`, `ProgramLaid`, `SectionLaid`); the offset of an entry is exact, or with wrapping arithmetic exact modulo its width (`OffsetExact`) |
| `DecodedOnlyIfFits` | `Spec => []Outcome`, the safety half of `DecodedIffFits` | a table whose last entry was read without an overflow fits as a whole (`NoOverflow`, `TableInside`) |
| `DecodedIffFitsIfItEnds` | `Spec /\ <>(pc \in {"done", "panic"}) => DecodedIffFits` | from it |

For every block size and set of archives (`InitrdAssumption`: paths are distinct,
modes have four octal digits, dates 32 bits; sizes are meant to fit into 32 bits
too, and members with a field of more, at which `parse_octal` panics, are left
out), `InitrdProofs`:

| Theorem | Statement | Argument |
|---|---|---|
| `AllLoaded` | `Spec => []LoadsAll` | `Walked`: the address is the position of the next header, the sum of the sizes of the members before (`PositionNext`), so what the data looks like does not matter |
| `Lookups` | `Spec => []LookupRight` | `Looked`, with `Walked` |
| `Listing` | `Spec => []ListingRight` | `Dated`: the seconds taken away and those that are left add up to the argument; the closed form of the calendar grows by the length of each year and of each month (`YearNext`, `MonthNext`, from `MarchNext`), which makes the loops' year the year of the day (`YearOfIs`) |
| `Ends` | `Spec => []EndsRight`, the safety half of `LoadsIfLoggable` | `Decided`, with `Halts`: the loop over years took away every year it passed because its comparison said so (`Turn`), and stopped at the first where it did not. A year that stops it too early is one of `Overruns` (`StopsEarly`), one that it should not have taken is one of `Underflows` (`Underflow`), any other is neither (`StopsRight`); an instant that has wrapped does not underflow again (`LaterSane`) |
| `LoadsIfItEnds` | `Spec /\ <>(pc \in {"loaded", "panic"}) => LoadsIfLoggable` | from `Ends` |

For every size of the screen and all strings that `TextAssumption` allows, any
number of keys and of log lines, `VgaProofs`:

| Theorem | Statement | Argument |
|---|---|---|
| `ScreenShowsText` | `Spec => []ShowsText` | `VInv`: the glyphs drawn are those of the characters of the text written (`Drawn`), and none but a blank is where a later one is (`Apart`); along `write_str`'s loop the pen follows the text (`Follows`). What holds between writes is weaker than what holds within one: the cursor's colour and column are those of the last character, not of the next, and the strings' own colours make up for it |
| `PanicReports` | `Spec => []PanicShowsEveryLog` | `Shown`, along the handler's loop: a write fails if and only if it meets a character beyond U+0100, for the cursor is never above the first row |
| `OffScreenWhenFull` | `Spec => [](RowsFit => OffScreenIffFull)` | from `Drawn`: the row of a glyph is the number of newlines before it. `RowsFit`, no glyph beyond the right edge, is the width of the strings against that of the screen, which no constant bounds |

Where TLC can evaluate it, the inductive invariant was checked on the run's
instance first.
`HistoryTypeCorrect` (`KernelProofs`) states the type invariant of the
history variables. Inductions over data (the length of a sequence, a number of
years) go through `SetInduction` of `CommonLemmas`: a set of naturals that holds
zero, and with a number its successor, holds all. `FlattenSeq` is defined by
recursion; `FlattenSeqIs` and `FlattenAppend` give the equations the proofs use.

Model-checked only:

- liveness, which is beyond the prover, as is `ENABLED`: `NoStarvation`,
  `SettlesToOneRunning`, the fairness of `RoundRobin`, `KeepsTicking`,
  `PanicIsReported`, `TrapEndsSpinning`, `ComesUp`, `DrainsOrWedges`, and that
  memory, the ELF reader and the ramdisk come to an end at all: the theorems
  `...IfItEnds` say that nothing else is missing;
- that no row of the kernel's text is wider than the screen (`RowsFit`), which is
  a fact about the strings of an instance and part of `OffScreenIffFull` in the
  run.

But for that width, all invariants and action properties of the passing runs are
theorems.

## How the project grew

In the order in which the pieces matter: the scheduler with its abstract
specification; the serial input path; the kernel that runs them; memory; the
ramdisk and its dates; the ELF reader; the text on the screen; the line editor;
then proofs about each, the outcome of faults, the text on the screen and the
instants that stop the ramdisk last. What would come next is out of reach of the
tools rather than of the model: proofs of liveness need `ENABLED`, and a second
fault, or a second processor, would need code that the kernel does not have.

## Not modelled

ACPI (never called, its operations are `todo!()`), the userland program (empty,
never loaded) and the build: see `PROJECT.json`. In modelled parts: wording;
the decoding of pixels and the layout of the intro screen (that their arithmetic
may fail is a place that may panic in `Kernel`); the output of commands and of `readelf`, which keep no
state; serial output below the character (it waits for the transmitter);
escape sequences that no string of the kernel holds, or that are cut off; TSS
and EFER, which are written and never read, as nothing enters user mode;
the heap's free list, which is a crate's; spurious interrupts of the PIC; other
processors, which the kernel counts and never starts.
