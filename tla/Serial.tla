------------------------------- MODULE Serial -------------------------------
(***************************************************************************)
(* The serial console's input path: Serial::initialize and Serial::read of *)
(* kernel/src/serial.rs, serial_handler of interrupts.rs, and the hardware *)
(* they drive, a 16550 UART on an edge-triggered line of the 8259 PIC.     *)
(*                                                                         *)
(* The hardware is external: the registers behind the eight ports and the  *)
(* DLAB bank switch, a receive FIFO of Depth bytes that interrupts when it *)
(* holds Trigger of them or when it has been left alone for a while, and a *)
(* PIC input that latches rising edges. A falling edge may or may not take *)
(* a latched request back: a real 8259 drops it (and reports a spurious    *)
(* interrupt), an emulated one keeps it. The modem-control gate OUT2 is    *)
(* left out: a gated line has fewer edges than this one.                   *)
(***************************************************************************)
EXTENDS Integers, Sequences

CONSTANTS Depth,        \* 16: the receive FIFO
          Trigger,      \* 14: the FIFO level that FCR = 0xC7 selects
          MaxBytes,     \* bound on the bytes the other end sends
          LineBytes,    \* the bytes it may send
          Undisturbed   \* TRUE: nothing arrives and nothing times out before
                        \* Serial::initialize has returned

\* Bytes, told apart by their value and by where they come from
Line == "line"          \* from the other end, of any value but the next
Twin == "twin"          \* from the other end, of the value 0xAE
Pattern == "pattern"    \* 0xAE too, sent round the loop by the self-test
Byte == {Line, Twin, Pattern}
Nothing == "nothing"    \* no byte: the port is read as 0

\* All that a program sees of a byte.
Value(b) == IF b \in {Twin, Pattern} THEN 174 ELSE 0

ASSUME SerialAssumption ==
  /\ Depth \in Nat /\ Trigger \in Nat /\ MaxBytes \in Nat
  /\ 2 <= Trigger /\ Trigger <= Depth
  /\ LineBytes \subseteq {Line, Twin}
  /\ Undisturbed \in BOOLEAN

VARIABLES cpu,          \* what the kernel is doing with the port
          step,         \* the next port access of Serial::initialize
          answer,       \* the byte its self-test has read
          dll, dlm,     \* the divisor latch, behind DLAB
          ier, lcr, fcr, mcr,
          rx,           \* received bytes not yet read, oldest first
          timeout,      \* the character-timeout interrupt is pending
          irr,          \* the PIC has latched a request from COM1
          sent,         \* bytes sent by the other end
          interpreted   \* bytes handed to Shell::interpret

regs == <<dll, dlm, ier, lcr, fcr, mcr>>
vars == <<cpu, step, answer, regs, rx, timeout, irr, sent, interpreted>>

-----------------------------------------------------------------------------
(***************************************************************************)
(* The UART and the PIC.                                                   *)
(***************************************************************************)

Dlab == lcr >= 128
Loopback == (mcr \div 16) % 2 = 1
Fifo == fcr % 2 = 1

\* Does the UART hold its interrupt line high?
Level ==
  /\ ier = 1
  /\ \/ ~Fifo /\ rx # <<>>
     \/ Fifo /\ (Len(rx) >= Trigger \/ timeout)

\* The PIC's request latch after a step of the UART
Latch ==
  irr' \in CASE Level' /\ ~Level -> {TRUE}
             [] Level /\ ~Level' -> {irr, FALSE}
             [] OTHER            -> {irr}

\* A byte joins the FIFO; one that finds it full is lost. Without the FIFO
\* it overwrites the only one.
Push(b) == IF ~Fifo THEN <<b>>
           ELSE IF Len(rx) < Depth THEN Append(rx, b) ELSE rx

\* A byte arrives. In loopback mode the receiver is off the line.
Arrive ==
  /\ sent < MaxBytes
  /\ cpu = "boot" => ~Undisturbed
  /\ sent' = sent + 1
  /\ \E b \in LineBytes : rx' = IF Loopback THEN rx ELSE Push(b)
  /\ UNCHANGED <<cpu, step, answer, regs, timeout, interpreted>>
  /\ Latch

\* Nobody has touched a non-empty FIFO for four character times.
CharacterTimeout ==
  /\ Fifo /\ rx # <<>> /\ ~timeout
  /\ cpu = "boot" => ~Undisturbed
  /\ timeout' = TRUE
  /\ UNCHANGED <<cpu, step, answer, regs, rx, sent, interpreted>>
  /\ Latch

-----------------------------------------------------------------------------
(***************************************************************************)
(* Serial::initialize, one port access a step, interrupts disabled.        *)
(***************************************************************************)

\* What a write to a port does to the registers and the FIFO.
outb(offset, value) ==
  /\ dll' = IF offset = 0 /\ Dlab THEN value ELSE dll
  /\ dlm' = IF offset = 1 /\ Dlab THEN value ELSE dlm
  /\ ier' = IF offset = 1 /\ ~Dlab THEN value ELSE ier
  /\ fcr' = IF offset = 2 THEN value ELSE fcr
  /\ lcr' = IF offset = 3 THEN value ELSE lcr
  /\ mcr' = IF offset = 4 THEN value ELSE mcr
  /\ rx' = CASE offset = 2 -> <<>>
             [] offset = 0 /\ ~Dlab /\ Loopback -> Push(Pattern)
             [] OTHER -> rx
  /\ timeout' = IF offset = 2 THEN FALSE ELSE timeout

\* Writes the divisor after giving the latch bit back.
Setup_DlabFirst ==
  << <<1, 1>>, <<3, 128>>, <<3, 3>>, <<0, 3>>, <<1, 0>>,
     <<2, 199>>, <<4, 11>>, <<4, 30>>, <<0, 174>> >>

\* Runs the self-test before the FIFO is reset.
Setup_LateReset ==
  << <<1, 1>>, <<3, 128>>, <<0, 3>>, <<1, 0>>, <<3, 3>>,
     <<4, 11>>, <<4, 30>>, <<0, 174>>, <<2, 199>> >>

\* The writes that set the port up and send the test pattern round the loop
Setup ==
  << <<1, 1>>, <<3, 128>>, <<0, 3>>, <<1, 0>>, <<3, 3>>,
     <<2, 199>>, <<4, 11>>, <<4, 30>>, <<0, 174>> >>

initialize ==
  /\ cpu = "boot" /\ step \in 1..Len(Setup)
  /\ outb(Setup[step][1], Setup[step][2])
  /\ step' = step + 1
  /\ UNCHANGED <<cpu, answer, sent, interpreted>>
  /\ Latch

\* Takes the pattern's arrival for granted and leaves it in the FIFO.
self_test_Unread ==
  /\ cpu = "boot" /\ step = Len(Setup) + 1
  /\ step' = step + 1
  /\ UNCHANGED <<cpu, answer, rx, timeout, irr, regs, sent, interpreted>>

\* assert_eq!(self.inb(0), 0xAE): a failed assertion is a panic. It compares
\* values: a byte of the line that happens to be 0xAE passes as well.
self_test ==
  /\ cpu = "boot" /\ step = Len(Setup) + 1
  /\ answer' = IF rx = <<>> THEN Nothing ELSE Head(rx)
  /\ IF Value(answer') = 174
       THEN step' = step + 1 /\ UNCHANGED cpu
       ELSE cpu' = "panic" /\ UNCHANGED step
  /\ rx' = IF rx = <<>> THEN rx ELSE Tail(rx)
  /\ timeout' = FALSE
  /\ UNCHANGED <<regs, sent, interpreted>>
  /\ Latch

\* Normal operation again; the rest of the boot follows, interrupts disabled.
ready ==
  /\ cpu = "boot" /\ step = Len(Setup) + 2
  /\ outb(4, 15)
  /\ cpu' = "booted"
  /\ UNCHANGED <<step, answer, sent, interpreted>>
  /\ Latch

\* Initialises the PIC just before enabling interrupts, not before the port.
enable_ResetPics ==
  /\ cpu = "booted"
  /\ cpu' = "idle"
  /\ irr' = FALSE
  /\ UNCHANGED <<step, answer, regs, rx, timeout, sent, interpreted>>

\* tick() enables interrupts.
enable ==
  /\ cpu = "booted"
  /\ cpu' = "idle"
  /\ UNCHANGED <<step, answer, regs, rx, timeout, irr, sent, interpreted>>

-----------------------------------------------------------------------------
(***************************************************************************)
(* serial_handler. It runs with interrupts disabled: the next request is   *)
(* taken after its end.                                                    *)
(***************************************************************************)

interrupt ==
  /\ cpu = "idle" /\ irr
  /\ cpu' = "read"
  /\ irr' = FALSE
  /\ UNCHANGED <<step, answer, regs, rx, timeout, sent, interpreted>>

\* Reads until the FIFO is empty.
read_Drain ==
  /\ cpu = "read" /\ rx # <<>>
  /\ rx' = Tail(rx)
  /\ timeout' = FALSE
  /\ interpreted' = interpreted + 1
  /\ cpu' = IF Len(rx) = 1 THEN "eoi" ELSE "read"
  /\ UNCHANGED <<step, answer, regs, sent>>
  /\ Latch

\* Does not wait for a byte.
read_NoWait ==
  /\ cpu = "read"
  /\ rx' = IF rx = <<>> THEN rx ELSE Tail(rx)
  /\ timeout' = FALSE
  /\ interpreted' = interpreted + 1
  /\ cpu' = "eoi"
  /\ UNCHANGED <<step, answer, regs, sent>>
  /\ Latch

\* Serial::read spins while there is nothing to read, then takes one byte;
\* Shell::interpret processes it.
read ==
  /\ cpu = "read" /\ rx # <<>>
  /\ rx' = Tail(rx)
  /\ timeout' = FALSE
  /\ interpreted' = interpreted + 1
  /\ cpu' = "eoi"
  /\ UNCHANGED <<step, answer, regs, sent>>
  /\ Latch

\* notify_end_of_interrupt and the return from the handler
end_of_interrupt ==
  /\ cpu = "eoi"
  /\ cpu' = "idle"
  /\ UNCHANGED <<step, answer, regs, rx, timeout, irr, sent, interpreted>>

-----------------------------------------------------------------------------

Init ==
  /\ cpu = "boot" /\ step = 1 /\ answer = Nothing
  /\ dll = 1 /\ dlm = 0 /\ ier = 0 /\ lcr = 3 /\ fcr = 0 /\ mcr = 0
  /\ rx = <<>>
  /\ timeout = FALSE /\ irr = FALSE
  /\ sent = 0 /\ interpreted = 0

Kernel == \/ initialize \/ self_test \/ ready \/ enable
          \/ interrupt \/ read \/ end_of_interrupt

Next == Arrive \/ CharacterTimeout \/ Kernel

\* The processor keeps executing, and the UART's timer runs out in the end;
\* the other end need not send anything.
Spec == Init /\ [][Next]_vars /\ WF_vars(Kernel) /\ WF_vars(CharacterTimeout)

-----------------------------------------------------------------------------
(***************************************************************************)
(* Properties.                                                             *)
(***************************************************************************)

Up == cpu \in {"booted", "idle", "read", "eoi"}

TypeOK ==
  /\ cpu \in {"boot", "panic", "booted", "idle", "read", "eoi"}
  /\ step \in 1..Len(Setup) + 2 /\ answer \in Byte \cup {Nothing}
  /\ dll \in 0..255 /\ dlm \in 0..255 /\ ier \in 0..255
  /\ lcr \in 0..255 /\ fcr \in 0..255 /\ mcr \in 0..255
  /\ rx \in Seq(Byte) /\ Len(rx) \in 0..Depth
  /\ timeout \in BOOLEAN /\ irr \in BOOLEAN
  /\ sent \in 0..MaxBytes /\ interpreted \in 0..MaxBytes

\* The ten writes of Serial::initialize leave the port as they mean to although
\* two of them go to a register that depends on an earlier one (the divisor
\* latch): receive interrupts on, 38400 baud, the FIFO on, loopback off.
Configured ==
  Up => ier = 1 /\ dll = 3 /\ dlm = 0 /\ ~Dlab /\ Fifo /\ ~Loopback

\* The byte of the loopback test becomes input of the shell only in exchange
\* for one from the line: the self-test has read a byte of the line that has
\* the same value, its own is waiting behind, and there is just one.
TestByteOnlyExchanged ==
  Up => \A i \in 1..Len(rx) : rx[i] = Pattern =>
          answer = Twin /\ \A j \in 1..Len(rx) : rx[j] = Pattern => j = i

\* serial_handler never waits in Serial::read, where it would hold the whole
\* kernel with interrupts disabled until somebody types. It rests on the
\* handler reading exactly one byte, and on an undisturbed initialize.
ReadNeverSpins == cpu = "read" => rx # <<>>

\* The port holds its line high and no request is latched: no edge will ever
\* come, for only the handler lowers the line.
Wedged == cpu = "idle" /\ Level /\ ~irr

\* Input wedges only after a burst: the handler has read its one byte and
\* left Trigger or more behind. Bytes that came before interrupts were
\* enabled are not lost.
WedgeNeedsBurst == Wedged => Len(rx) >= Trigger /\ interpreted > 0

\* Received bytes are read in the end, one interrupt each, or the input is
\* wedged for good.
DrainsOrWedges == (cpu = "idle" /\ rx # <<>>) ~> (rx = <<>> \/ []Wedged)

\* An undisturbed port passes its self-test and the kernel comes up.
ComesUp == <>(cpu = "idle")

\* serial.rs:80 asserts that the byte read back is the byte sent, "Failed to
\* initialize serial port." otherwise.
SelfTestPasses == cpu # "panic"

=============================================================================
