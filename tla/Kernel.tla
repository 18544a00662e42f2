------------------------------- MODULE Kernel -------------------------------
(***************************************************************************)
(* The kernel as one processor runs it: the boot sequence of kmain, the    *)
(* interrupt handlers, the exception handlers and the panic handler, all   *)
(* sharing spin locks (spin::Mutex), lazily initialised statics            *)
(* (spin::Lazy) and the heap.                                              *)
(*                                                                         *)
(* What the processor has left to do is a sequence of instructions, todo;  *)
(* an interrupt or an exception puts its handler in front of it, a panic   *)
(* throws it away (panic = abort: no guard is dropped, no Lazy is reset).  *)
(* An instruction is a pair, what to do and with what. Of the code only    *)
(* the accesses to shared state are instructions, and "may", a place where *)
(* an unwrap, an expect, an assertion or an index may fail.                *)
(*                                                                         *)
(* The scheduler's own state and steps are those of module Scheduler.      *)
(***************************************************************************)
EXTENDS Scheduler

CONSTANT Faults    \* what may go wrong, once: a subset of Fault

Fault == {"panic", "oom", "nmi", "machine_check", "trap"}

ASSUME FaultsAssumption == Faults \subseteq Fault

VARIABLES todo,     \* the instructions still to be executed
          held,     \* the locks held; a lock has no owner
          lazy,     \* Lazy statics: "no", "running" (being initialised), "ready"
          enabled,  \* RFLAGS.IF
          isr,      \* interrupt requests in service in the PIC
          heap,     \* "absent" until memory::initialize, "ready", "exhausted"
          cpu,      \* whose GDT and CS are loaded, and whose CS the IDT names
          fault     \* the fault that happened and what it interrupted

kvars == <<vars, todo, held, lazy, enabled, isr, heap, cpu, fault>>

\* The Lazy statics; all but TIMER and INITRD hold a Mutex.
Lazies == {"VIRTUAL_MANAGER", "PHYSICAL_MANAGER", "KEYBOARD", "VGA_CONSOLE",
           "VGA", "SERIAL_CONSOLE", "SERIAL", "INITRD", "SCHEDULER", "TIMER",
           "LOGGER"}
Locks == (Lazies \ {"TIMER", "INITRD"}) \cup {"HEAP", "PICS"}
Irq == {"timer", "keyboard", "serial"}

-----------------------------------------------------------------------------
(***************************************************************************)
(* The code, as instructions.                                              *)
(***************************************************************************)

\* Dereferencing a Lazy
Deref(x) == << <<"force", x>> >>

\* X.lock() of a Lazy<Mutex<_>>, a body, and the guard's drop
Use(x, body) == Deref(x) \o << <<"lock", x>> >> \o body \o << <<"unlock", x>> >>

May == << <<"may", "panic">> >>

\* LockedHeap::alloc; a null result becomes a panic when the lock is free again.
Alloc == << <<"lock", "HEAP">>, <<"alloc", "HEAP">> >>

\* Pushes a log while another guard of the logger lives.
Log_Twice == Use("LOGGER", Alloc \o Use("LOGGER", Alloc))

\* debug!, error!, fatal!, info!, trace!, warn!: format!, then Logger::log
Log == Alloc \o Use("LOGGER", Alloc)

\* Font::new: the file may be missing or not a font.
Font_new == Deref("INITRD") \o May

\* write! to the serial port or the screen: args.to_string(). On the screen
\* BOLD and NORMAL load a font.
Write == Alloc
VgaWrite == Alloc \o Font_new

\* Initrd::new: every header field that is parsed may be malformed; every
\* file is copied and logged.
Initrd_new == May \o Alloc \o Log

\* Vga::new panics without a framebuffer.
Vga_new == May

\* Shell::new reads hostname, passwd and group.
Shell_new == Deref("INITRD") \o May \o Alloc

\* Shell::display: the message of the day and the prompt
display(write) == Deref("INITRD") \o May \o write \o write

\* Image::new and Elf::new: a file, its fields, a copy
Image_new == Deref("INITRD") \o May \o Alloc
Elf_new == Deref("INITRD") \o May \o Alloc

\* What each Lazy runs when it is first used.
InitCode(x) ==
  CASE x = "INITRD"         -> Initrd_new
    [] x = "VGA"            -> Font_new \o Vga_new
    [] x = "SCHEDULER"      -> Log
    [] x = "SERIAL"         -> May
    [] x = "SERIAL_CONSOLE" -> Shell_new
    [] x = "VGA_CONSOLE"    -> Use("VGA", Shell_new)
    [] x \in {"PHYSICAL_MANAGER", "VIRTUAL_MANAGER"} -> May
    [] OTHER                -> <<>>

\* VirtualManager::allocate_pages: no frame left, or a page already mapped
allocate_pages == May

\* memory::initialize
memory_initialize ==
  Use("VIRTUAL_MANAGER", Use("PHYSICAL_MANAGER", allocate_pages)) \o
  << <<"lock", "HEAP">>, <<"heap", "HEAP">> >>

\* interrupts::initialize
interrupts_initialize ==
  << <<"idt", "IDT">>, <<"lock", "PICS">>, <<"unlock", "PICS">> >>

\* gdt::initialize. (GDT and IDT are Lazy too, and forced by the boot alone.)
gdt_initialize == << <<"lgdt", "GDT">>, <<"set_reg", "CS">> >>

\* The segments, in the order in which they are appended
Selectors == <<"kernel_code", "kernel_data", "user_data", "user_code", "tss">>
Selector(segment) == CHOOSE i \in 1..Len(Selectors) : Selectors[i] = segment

\* Star::write refuses segments that syscall and sysret could not derive from
\* one selector each.
StarAccepts ==
  /\ Selector("kernel_data") = Selector("kernel_code") + 1
  /\ Selector("user_code") = Selector("user_data") + 1

\* smp::initialize, initrd::initialize, userspace::initialize
smp_initialize == May \o Log
initrd_initialize == Deref("INITRD") \o Log
userspace_initialize == << <<"star", "STAR">> >>

\* intro::initialize keeps the screen locked from its first line to its last.
\* Each image and text has a position, an unsigned difference that underflows
\* on a screen too small for it.
intro_initialize ==
  LET image == Image_new \o May
      text == May \o VgaWrite
  IN  Use("VGA", image \o image \o image \o text \o text \o text)

\* shell::initialize
shell_initialize == Use("SERIAL_CONSOLE", Use("SERIAL", display(Write)))

\* Adds the kernel process in Scheduler::new as well.
scheduler_initialize_Twice ==
  Use("SCHEDULER", Alloc \o << <<"add", "kernel">> >> \o Alloc \o << <<"add", "kernel">> >>)

\* scheduler::initialize
scheduler_initialize == Use("SCHEDULER", Alloc \o << <<"add", "kernel">> >>)

\* tick(): announce, enable interrupts, halt in a loop
tick_loop == Log \o << <<"sti", "IF">>, <<"hlt", "CPU">> >>

\* Enables interrupts before the consoles are initialised.
kmain_EarlyEnable ==
  gdt_initialize \o memory_initialize \o interrupts_initialize \o smp_initialize \o
  initrd_initialize \o scheduler_initialize \o
  << <<"sti", "IF">> >> \o
  intro_initialize \o shell_initialize \o userspace_initialize \o tick_loop

\* Sets the segments up with the rest of user mode.
kmain_LateGdt ==
  memory_initialize \o interrupts_initialize \o smp_initialize \o
  initrd_initialize \o scheduler_initialize \o intro_initialize \o
  shell_initialize \o gdt_initialize \o userspace_initialize \o tick_loop

\* The boot, in the order of its calls
kmain ==
  gdt_initialize \o memory_initialize \o interrupts_initialize \o smp_initialize \o
  initrd_initialize \o scheduler_initialize \o
  intro_initialize \o shell_initialize \o userspace_initialize \o tick_loop

\* notify_end_of_interrupt
Eoi(irq) == << <<"lock", "PICS">>, <<"eoi", irq>>, <<"unlock", "PICS">> >>

\* Returns without telling the PIC.
timer_handler_NoEoi ==
  Deref("TIMER") \o << <<"increment", "TIMER">> >> \o
  Use("SCHEDULER", << <<"tick", "SCHEDULER">> >>)

timer_handler ==
  Deref("TIMER") \o << <<"increment", "TIMER">> >> \o
  Use("SCHEDULER", << <<"tick", "SCHEDULER">> >>) \o
  Eoi("timer")

\* Keyboard::interpret of Enter, and of any other scan code
Scan == {"enter", "other"}
keyboard_handler(scan) ==
  Use("KEYBOARD",
      Log \o IF scan = "enter"
               THEN Use("VGA_CONSOLE", Use("VGA", display(VgaWrite)))
               ELSE <<>>) \o
  Eoi("keyboard")

\* The commands of Shell::interpret; "text" stands for the ones that only write.
Command == {"text", "time", "fork", "logs", "readelf"}
Run(command) ==
  CASE command = "text"    -> Write
    [] command = "time"    -> Deref("TIMER") \o Write
    [] command = "fork"    -> Use("SCHEDULER", Alloc \o << <<"fork", "SCHEDULER">> >>) \o Write
    [] command = "logs"    -> Use("LOGGER", Write)
    [] command = "readelf" -> Elf_new \o Write

\* Shell::interpret: a character, a backspace (ignored in an empty line), or
\* the end of a line. That Serial::read returns is the matter of module Serial.
Key == {"character", "backspace", "ignored"} \cup Command
interpret(key) ==
  CASE key = "character" -> Alloc \o Write
    [] key = "ignored"   -> <<>>
    [] key = "backspace" -> Write
    [] OTHER             -> Alloc \o Write \o Run(key) \o Write

serial_handler(key) ==
  Use("SERIAL_CONSOLE", Use("SERIAL", interpret(key))) \o Eoi("serial")

\* halt()
Halt == << <<"cli", "IF">>, <<"halt", "CPU">> >>

\* Halts instead of returning to the instruction that trapped.
exception_handler_Halt(kind) == IF kind = "nmi" THEN Log ELSE Log \o Halt

\* The exception handlers log and return; machine_check_handler and
\* double_fault_handler log and halt.
exception_handler(kind) == IF kind \in {"nmi", "trap"} THEN Log ELSE Log \o Halt

\* Holds the logger while it brings the screen up.
panic_handler_LogFirst ==
  Use("LOGGER", Alloc \o Deref("VGA") \o << <<"lock", "VGA">> >> \o VgaWrite) \o Halt

\* Logs the panic while it goes through the logs.
panic_handler_LogInLoop ==
  Deref("VGA") \o << <<"lock", "VGA">> >> \o VgaWrite \o
  Use("LOGGER", Log \o VgaWrite) \o Halt

\* panic(): the screen's guard is never dropped, for halt() does not return.
panic_handler ==
  Deref("VGA") \o << <<"lock", "VGA">> >> \o VgaWrite \o Log \o
  Use("LOGGER", VgaWrite) \o Halt

-----------------------------------------------------------------------------
(***************************************************************************)
(* Executing it.                                                           *)
(***************************************************************************)

Does(op) == todo # <<>> /\ Head(todo)[1] = op
Arg == Head(todo)[2]

\* What the code is in the middle of: locks held, statics being initialised
Owned == held \cup {x \in Lazies : lazy[x] = "running"}

\* Waiting for a lock or a static that only the interrupted or abandoned code
\* below could release: for ever, on one processor.
Spinning ==
  \/ Does("lock") /\ Arg \in held
  \/ Does("force") /\ lazy[Arg] = "running"

Idle == Does("hlt")
Halted == Does("halt")

\* Lazy::force
force ==
  /\ Does("force") /\ lazy[Arg] # "running"
  /\ IF lazy[Arg] = "ready"
       THEN todo' = Tail(todo) /\ UNCHANGED lazy
       ELSE /\ todo' = InitCode(Arg) \o << <<"ready", Arg>> >> \o Tail(todo)
            /\ lazy' = [lazy EXCEPT ![Arg] = "running"]
  /\ UNCHANGED <<vars, held, enabled, isr, heap, cpu, fault>>

ready ==
  /\ Does("ready")
  /\ lazy' = [lazy EXCEPT ![Arg] = "ready"]
  /\ todo' = Tail(todo)
  /\ UNCHANGED <<vars, held, enabled, isr, heap, cpu, fault>>

lock ==
  /\ Does("lock") /\ Arg \notin held
  /\ held' = held \cup {Arg}
  /\ todo' = Tail(todo)
  /\ UNCHANGED <<vars, lazy, enabled, isr, heap, cpu, fault>>

unlock ==
  /\ Does("unlock")
  /\ held' = held \ {Arg}
  /\ todo' = Tail(todo)
  /\ UNCHANGED <<vars, lazy, enabled, isr, heap, cpu, fault>>

\* What a fault interrupts
Context(kind) == [kind |-> kind, owned |-> Owned, heap |-> heap]

\* Does not look at what the allocator returned.
alloc_Unchecked ==
  /\ Does("alloc")
  /\ held' = held \ {"HEAP"}
  /\ todo' = Tail(todo)
  /\ UNCHANGED <<vars, lazy, enabled, isr, heap, cpu, fault>>

\* The allocator's critical section ends; without memory the caller panics.
alloc ==
  /\ Does("alloc")
  /\ held' = held \ {"HEAP"}
  /\ todo' = IF heap = "ready" THEN Tail(todo) ELSE panic_handler
  /\ UNCHANGED <<vars, lazy, enabled, isr, heap, cpu, fault>>

\* An unwrap, expect, assertion or index succeeds, or panics.
succeed ==
  /\ Does("may")
  /\ todo' = Tail(todo)
  /\ UNCHANGED <<vars, held, lazy, enabled, isr, heap, cpu, fault>>

panic ==
  /\ "panic" \in Faults /\ fault.kind = "none"
  /\ Does("may")
  /\ fault' = Context("panic")
  /\ todo' = panic_handler
  /\ UNCHANGED <<vars, held, lazy, enabled, isr, heap, cpu>>

\* Star::write, and the expect behind it
star ==
  /\ Does("star")
  /\ todo' = IF StarAccepts THEN Tail(todo) ELSE panic_handler
  /\ UNCHANGED <<vars, held, lazy, enabled, isr, heap, cpu, fault>>

\* ALLOCATOR.lock().init
heap_init ==
  /\ Does("heap")
  /\ heap' = "ready"
  /\ held' = held \ {"HEAP"}
  /\ todo' = Tail(todo)
  /\ UNCHANGED <<vars, lazy, enabled, isr, cpu, fault>>

\* GDT.0.load(); then the segment registers are set to selectors in it.
lgdt ==
  /\ Does("lgdt")
  /\ cpu' = [cpu EXCEPT !.gdt = "kernel"]
  /\ todo' = Tail(todo)
  /\ UNCHANGED <<vars, held, lazy, enabled, isr, heap, fault>>

set_reg ==
  /\ Does("set_reg")
  /\ cpu' = [cpu EXCEPT !.cs = "kernel"]
  /\ todo' = Tail(todo)
  /\ UNCHANGED <<vars, held, lazy, enabled, isr, heap, fault>>

\* IDT.load() builds the table first: set_handler_fn reads CS for every gate.
load ==
  /\ Does("idt")
  /\ cpu' = [cpu EXCEPT !.idt = cpu.cs]
  /\ todo' = Tail(todo)
  /\ UNCHANGED <<vars, held, lazy, enabled, isr, heap, fault>>

sti ==
  /\ Does("sti")
  /\ enabled' = TRUE
  /\ todo' = Tail(todo)
  /\ UNCHANGED <<vars, held, lazy, isr, heap, cpu, fault>>

cli ==
  /\ Does("cli")
  /\ enabled' = FALSE
  /\ todo' = Tail(todo)
  /\ UNCHANGED <<vars, held, lazy, isr, heap, cpu, fault>>

eoi ==
  /\ Does("eoi")
  /\ isr' = isr \ {Arg}
  /\ todo' = Tail(todo)
  /\ UNCHANGED <<vars, held, lazy, enabled, heap, cpu, fault>>

\* iretq: back to what was interrupted, with its interrupt flag
iret ==
  /\ Does("iret")
  /\ enabled' = Arg
  /\ todo' = Tail(todo)
  /\ UNCHANGED <<vars, held, lazy, isr, heap, cpu, fault>>

-----------------------------------------------------------------------------
(***************************************************************************)
(* The steps that change the scheduler, and what they log.                 *)
(***************************************************************************)

add_kernel ==
  /\ Does("add")
  /\ queue' = add(queue, [id |-> 1, state |-> Running])
  /\ todo' = Tail(todo)
  /\ UNCHANGED <<remaining, elapsed, held, lazy, enabled, isr, heap, cpu, fault>>

timer_increment ==
  /\ Does("increment")
  /\ increment
  /\ todo' = Tail(todo)
  /\ UNCHANGED <<queue, remaining, held, lazy, enabled, isr, heap, cpu, fault>>

scheduler_tick ==
  /\ Does("tick")
  /\ \/ Countdown /\ todo' = Tail(todo)
     \/ Swap      /\ todo' = Log \o Log \o Tail(todo)
     \/ NoSwap    /\ todo' = Log \o Tail(todo)
  /\ UNCHANGED <<elapsed, held, lazy, enabled, isr, heap, cpu, fault>>

scheduler_fork ==
  /\ Does("fork")
  /\ fork
  /\ todo' = Tail(todo)
  /\ UNCHANGED <<held, lazy, enabled, isr, heap, cpu, fault>>

-----------------------------------------------------------------------------
(***************************************************************************)
(* What interrupts it.                                                     *)
(***************************************************************************)

\* The processor enters a handler through an interrupt gate.
Enter(handler) ==
  /\ todo' = handler \o << <<"iret", enabled>> >> \o todo
  /\ enabled' = FALSE

\* The lines the PIC leaves unmasked, by priority
Priority == [timer |-> 0, keyboard |-> 1, serial |-> 4]

\* The PIC holds a request back while one of the same or a higher priority is
\* in service.
Interrupt(irq, handler) ==
  /\ enabled
  /\ \A other \in isr : Priority[irq] < Priority[other]
  /\ isr' = isr \cup {irq}
  /\ Enter(handler)
  /\ UNCHANGED <<vars, held, lazy, heap, cpu, fault>>

timer_interrupt == Interrupt("timer", timer_handler)
keyboard_interrupt == \E scan \in Scan : Interrupt("keyboard", keyboard_handler(scan))
serial_interrupt ==
  \E key \in Key : /\ key = "fork" => Len(queue) < MaxProcesses
                   /\ Interrupt("serial", serial_handler(key))

\* A non-maskable interrupt or a machine check, between any two instructions
exception ==
  /\ fault.kind = "none" /\ cpu.idt # "none"
  /\ \E kind \in Faults \cap {"nmi", "machine_check"} :
       fault' = Context(kind) /\ Enter(exception_handler(kind))
  /\ UNCHANGED <<vars, held, lazy, isr, heap, cpu>>

\* A page fault, a general protection fault or another exception that reports
\* an instruction which cannot complete. Its handler repairs nothing and
\* returns to that instruction. (hlt cannot trap, and nothing else runs with
\* interrupts enabled.)
Trap == << <<"trap", "CPU">> >>
trap ==
  /\ "trap" \in Faults /\ fault.kind = "none" /\ cpu.idt # "none"
  /\ ~Idle /\ ~Halted
  /\ fault' = Context("trap")
  /\ todo' = exception_handler("trap") \o << <<"iret", enabled>> >> \o Trap \o todo
  /\ enabled' = FALSE
  /\ UNCHANGED <<vars, held, lazy, isr, heap, cpu>>

\* The instruction is executed again, and traps again.
trap_again ==
  /\ Does("trap")
  /\ Enter(exception_handler("trap"))
  /\ UNCHANGED <<vars, held, lazy, isr, heap, cpu, fault>>

\* Every trap logs a line more, until the heap is full.
trap_fills_heap ==
  /\ fault.kind = "trap" /\ heap = "ready" /\ Does("trap")
  /\ heap' = "exhausted"
  /\ UNCHANGED <<vars, todo, held, lazy, enabled, isr, cpu, fault>>

\* The logs, which nobody ever trims, have filled the heap.
oom ==
  /\ "oom" \in Faults /\ fault.kind = "none" /\ heap = "ready"
  /\ heap' = "exhausted"
  /\ fault' = Context("oom")
  /\ UNCHANGED <<vars, todo, held, lazy, enabled, isr, cpu>>

-----------------------------------------------------------------------------

KInit ==
  /\ queue = <<>> /\ remaining = Quantum /\ elapsed = 0
  /\ todo = kmain
  /\ held = {}
  /\ lazy = [x \in Lazies |-> "no"]
  /\ enabled = FALSE
  /\ isr = {}
  /\ heap = "absent"
  /\ cpu = [gdt |-> "limine", cs |-> "limine", idt |-> "none"]
  /\ fault = [kind |-> "none", owned |-> {}, heap |-> "ready"]

Step == \/ force \/ ready \/ lock \/ unlock \/ alloc \/ succeed \/ heap_init
        \/ lgdt \/ set_reg \/ star \/ load \/ sti \/ cli \/ eoi \/ iret
        \/ add_kernel \/ timer_increment \/ scheduler_tick \/ scheduler_fork
        \/ trap_again

KNext == \/ Step \/ timer_interrupt \/ keyboard_interrupt \/ serial_interrupt
         \/ panic \/ exception \/ trap \/ trap_fills_heap \/ oom

\* The processor keeps executing. The PIT keeps interrupting, and its line
\* has the highest priority: a tick is delivered although interrupts are
\* enabled only between two other handlers. A heap that every trap takes
\* memory from fills up.
KSpec == /\ KInit /\ [][KNext]_kvars
         /\ WF_kvars(Step) /\ SF_kvars(timer_interrupt)
         /\ SF_kvars(trap_fills_heap)

-----------------------------------------------------------------------------
(***************************************************************************)
(* Properties.                                                             *)
(***************************************************************************)

\* One order of all locks and statics
Rank ==
  [VIRTUAL_MANAGER |-> 1, PHYSICAL_MANAGER |-> 2, KEYBOARD |-> 3,
   VGA_CONSOLE |-> 4, VGA |-> 5, SERIAL_CONSOLE |-> 6, SERIAL |-> 7,
   INITRD |-> 8, SCHEDULER |-> 9, TIMER |-> 10, PICS |-> 11, LOGGER |-> 12,
   HEAP |-> 13]

\* Boot code and handlers take locks, and initialise statics, in one global
\* order; in particular nobody waits for what it already owns, so without a
\* fault the kernel never spins.
LockOrder ==
  (Does("lock") \/ (Does("force") /\ lazy[Arg] # "ready")) =>
     \A x \in Owned : Rank[x] < Rank[Arg]

\* Interrupts are enabled only where the kernel owns nothing a handler could
\* want: this is what makes plain spin locks safe against the handlers.
MaskedWhileBusy == enabled => Owned = {} /\ isr = {}

\* The gates of the IDT keep the code selector they were built with: from the
\* moment it is loaded, it is a code segment of the table in use, or the first
\* interrupt or exception would be a fault of its own.
GatesFit == cpu.idt # "none" => cpu.idt = cpu.cs /\ cpu.cs = cpu.gdt

\* The two halves of timer_handler, and every fork, act on the scheduler as
\* the single steps of module Scheduler do. Between the halves the tick that
\* has been counted has not happened yet.
Pending(op) == \E i \in 1..Len(todo) : todo[i][1] = op
Sch == INSTANCE Scheduler WITH
         queue   <- IF queue = <<>> THEN <<[id |-> 1, state |-> Running]>>
                                    ELSE queue,
         elapsed <- IF Pending("tick") /\ ~Pending("increment")
                      THEN (elapsed + TickModulus - 1) % TickModulus
                      ELSE elapsed

ImplementsScheduler == Sch!Spec

\* The kernel comes up and the timer goes on counting: no handler leaves a
\* lock, an interrupt in service or the interrupt flag behind.
KeepsTicking == \A n \in 0..TickModulus - 1 : []<>(elapsed = n)

\* The places where a fault finds its own handler's resources taken: a panic
\* needs the screen, the logger and memory, and the ramdisk if it is being
\* read; an exception needs the logger and the allocator; a panic for want of
\* memory needs memory, and so does, in the end, an instruction that traps
\* again and again.
Cornered ==
  CASE fault.kind = "none"  -> FALSE
    [] fault.kind \in {"oom", "trap"} -> TRUE
    [] fault.kind = "panic" -> \/ fault.owned \cap {"VGA", "LOGGER", "INITRD"} # {}
                               \/ fault.heap # "ready"
    [] OTHER                -> fault.owned \cap {"LOGGER", "HEAP"} # {}

\* A single fault makes the kernel spin silently only in those places.
SpinsOnlyIfCornered == Spinning => Cornered

\* And in those places it always does: whoever reaches halt() has reported.
HaltsOnlyIfClean ==
  Halted => fault.kind \in {"panic", "machine_check"} /\ ~Cornered /\ ~enabled

\* A panic anywhere else is reported on the screen and halts the processor.
PanicIsReported == (fault.kind = "panic" /\ ~Cornered) ~> Halted

\* An exception in the kernel's own code is never reported: wherever it
\* happens, the handlers log and return until the heap is full, the panic for
\* want of memory needs memory, and the kernel ends up spinning with the
\* screen locked.
TrapEndsSpinning == (fault.kind = "trap") ~> []Spinning

=============================================================================
