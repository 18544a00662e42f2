---------------------------- MODULE SerialProofs ----------------------------
(***************************************************************************)
(* Proofs about module Serial, for every FIFO depth, trigger level and     *)
(* number of bytes.                                                        *)
(***************************************************************************)
EXTENDS Serial, TLAPS

\* The writes of Serial::initialize, one by one.
LEMMA SetupIs ==
  /\ Len(Setup) = 9
  /\ Setup[1][1] = 1 /\ Setup[1][2] = 1
  /\ Setup[2][1] = 3 /\ Setup[2][2] = 128
  /\ Setup[3][1] = 0 /\ Setup[3][2] = 3
  /\ Setup[4][1] = 1 /\ Setup[4][2] = 0
  /\ Setup[5][1] = 3 /\ Setup[5][2] = 3
  /\ Setup[6][1] = 2 /\ Setup[6][2] = 199
  /\ Setup[7][1] = 4 /\ Setup[7][2] = 11
  /\ Setup[8][1] = 4 /\ Setup[8][2] = 30
  /\ Setup[9][1] = 0 /\ Setup[9][2] = 174
  BY DEF Setup

\* The control bits of the values written.
LEMMA Bits ==
  /\ ~ ((0 \div 16) % 2 = 1)
  /\ ~ ((11 \div 16) % 2 = 1)
  /\ ~ ((15 \div 16) % 2 = 1)
  /\ (30 \div 16) % 2 = 1
  /\ ~ (0 % 2 = 1)
  /\ 199 % 2 = 1
  OBVIOUS

\* The registers after each write of Serial::initialize, and for good.
RegsInv ==
  /\ cpu \in {"boot", "panic", "booted", "idle", "read", "eoi"}
  /\ step \in 1..11
  /\ dlm = 0
  /\ dll = IF step >= 4 THEN 3 ELSE 1
  /\ ier = IF step >= 2 THEN 1 ELSE 0
  /\ lcr = IF step \in 3..5 THEN 128 ELSE 3
  /\ fcr = IF step >= 7 THEN 199 ELSE 0
  /\ cpu \in {"boot", "panic"} =>
       mcr = IF step <= 7 THEN 0 ELSE IF step = 8 THEN 11 ELSE 30
  /\ Up => mcr = 15 /\ step = 11

\* The registers at first.
LEMMA RegsInvInit == Init => RegsInv
  BY DEF Init, RegsInv, Up

\* No step writes a register but initialize, in its order.
LEMMA RegsInvStep == RegsInv /\ [Next]_vars => RegsInv'
<1> SUFFICES ASSUME RegsInv, [Next]_vars PROVE RegsInv'
  OBVIOUS
<1>1. CASE initialize
  <2>0. step \in 1..9 /\ cpu = "boot" /\ cpu' = cpu /\ step' = step + 1
    BY <1>1, SetupIs DEF initialize
  <2>1. CASE step \in 1..3
    BY <1>1, <2>0, <2>1, SetupIs DEF initialize, outb, RegsInv, Up, Dlab
  <2>2. CASE step \in 4..6
    BY <1>1, <2>0, <2>2, SetupIs DEF initialize, outb, RegsInv, Up, Dlab
  <2>3. CASE step \in 7..9
    BY <1>1, <2>0, <2>3, SetupIs DEF initialize, outb, RegsInv, Up, Dlab
  <2>4. QED
    BY <2>0, <2>1, <2>2, <2>3
<1>2. CASE self_test
  BY <1>2, SetupIs DEF self_test, RegsInv, Up, regs
<1>3. CASE ready
  BY <1>3, SetupIs DEF ready, outb, RegsInv, Up, Dlab
<1>4. CASE UNCHANGED <<regs, step>> /\ ((Up /\ Up') \/ UNCHANGED cpu)
  BY <1>4 DEF RegsInv, Up, regs
<1>5. QED
  BY <1>1, <1>2, <1>3, <1>4
  DEF Next, Kernel, Arrive, CharacterTimeout, enable, interrupt, read,
      end_of_interrupt, Up, vars, RegsInv

\* The port ends up configured as Serial::initialize means it, whatever
\* arrives on the line meanwhile.
THEOREM PortConfigured == Spec => []Configured
<1>1. RegsInv => Configured
  BY Bits DEF RegsInv, Configured, Up, Dlab, Fifo, Loopback
<1>2. QED
  BY <1>1, RegsInvInit, RegsInvStep, PTL DEF Spec

-----------------------------------------------------------------------------

\* What a byte does to the FIFO.
LEMMA PushGrows ==
  ASSUME rx \in Seq(Byte), Len(rx) <= Depth, NEW b \in Byte
  PROVE  /\ Push(b) \in Seq(Byte)
         /\ Len(Push(b)) <= Depth
         /\ Len(Push(b)) <= Len(rx) + 1
         /\ Push(b) # <<>>
         /\ Fifo => Len(Push(b)) >= Len(rx)
         /\ rx = <<>> => Push(b) = <<b>>
<1> USE SerialAssumption
<1>1. CASE ~Fifo
  BY <1>1 DEF Push
<1>2. CASE Fifo /\ Len(rx) < Depth
  <2>1. Push(b) = Append(rx, b)
    BY <1>2 DEF Push
  <2>2. rx = <<>> => Append(rx, b) = <<b>>
    OBVIOUS
  <2>3. QED
    BY <1>2, <2>1, <2>2
<1>3. CASE Fifo /\ ~(Len(rx) < Depth)
  BY <1>3 DEF Push
<1>4. QED
  BY <1>1, <1>2, <1>3

\* The two latches are Boolean.
BoolInv == timeout \in BOOLEAN /\ irr \in BOOLEAN

\* The flags stay Boolean.
LEMMA BoolInvStep == BoolInv /\ [Next]_vars => BoolInv'
<1> SUFFICES ASSUME BoolInv, [Next]_vars PROVE BoolInv'
  OBVIOUS
<1>1. Latch => irr' \in BOOLEAN
  BY Zenon DEF Latch, BoolInv
<1>2. CASE Arrive
  BY <1>1, <1>2, Zenon DEF Arrive, BoolInv
<1>3. CASE CharacterTimeout
  BY <1>1, <1>3, Zenon DEF CharacterTimeout, BoolInv
<1>4. CASE initialize
  BY <1>1, <1>4, Zenon DEF initialize, outb, BoolInv
<1>5. CASE self_test
  BY <1>1, <1>5, Zenon DEF self_test, BoolInv
<1>6. CASE ready
  BY <1>1, <1>6, Zenon DEF ready, outb, BoolInv
<1>7. CASE read
  BY <1>1, <1>7, Zenon DEF read, BoolInv
<1>8. CASE interrupt
  BY <1>8, Zenon DEF interrupt, BoolInv
<1>9. CASE UNCHANGED <<timeout, irr>>
  BY <1>9, Zenon DEF BoolInv
<1>10. QED
  BY <1>2, <1>3, <1>4, <1>5, <1>6, <1>7, <1>8, <1>9
  DEF Next, Kernel, enable, end_of_interrupt, vars

\* Every byte the shell is given was sent: the bytes read and the bytes in
\* the FIFO are never more than the bytes sent (and the test byte).
FifoInv ==
  /\ rx \in Seq(Byte) /\ Len(rx) <= Depth
  /\ timeout => rx # <<>>
  /\ sent \in 0..MaxBytes /\ interpreted \in Nat
  /\ cpu \in {"boot", "panic"} => interpreted = 0
  /\ cpu = "boot" => Len(rx) <= IF step = 10 THEN sent + 1 ELSE sent
  /\ Up => interpreted + Len(rx) <= sent

\* The FIFOs at first.
LEMMA FifoInvInit == Init => FifoInv
  BY SerialAssumption DEF Init, FifoInv, Up

\* No FIFO holds more than its size.
LEMMA FifoInvStep == RegsInv /\ FifoInv /\ [Next]_vars => FifoInv'
<1> SUFFICES ASSUME RegsInv, FifoInv, [Next]_vars PROVE FifoInv'
  OBVIOUS
<1> USE SerialAssumption
<1>0. LineBytes \subseteq Byte /\ Pattern \in Byte
  BY DEF Byte
<1>1. CASE Arrive
  <2>1. /\ rx' \in Seq(Byte) /\ Len(rx') <= Depth /\ Len(rx') <= Len(rx) + 1
        /\ rx # <<>> => rx' # <<>>
    <3>1. PICK b \in LineBytes : rx' = rx \/ rx' = Push(b)
      BY <1>1 DEF Arrive
    <3>2. rx \in Seq(Byte) /\ Len(rx) <= Depth /\ Len(rx) \in Nat
      BY DEF FifoInv
    <3>3. CASE rx' = rx
      BY <3>2, <3>3
    <3>4. CASE rx' = Push(b)
      BY <1>0, <3>2, <3>4, PushGrows
    <3>5. QED
      BY <3>1, <3>3, <3>4
  <2>2. QED
    BY <1>0, <1>1, <2>1 DEF Arrive, FifoInv, Up
<1>2. CASE CharacterTimeout
  BY <1>0, <1>2 DEF CharacterTimeout, FifoInv, Up
<1>3. CASE initialize
  <2>0. step \in 1..9 /\ cpu = "boot" /\ cpu' = cpu /\ step' = step + 1
    BY <1>3, SetupIs DEF initialize
  <2>1. /\ rx' \in Seq(Byte) /\ Len(rx') <= Depth
        /\ timeout' => rx' # <<>>
        /\ Len(rx') <= IF step = 9 THEN Len(rx) + 1 ELSE Len(rx)
    <3>1. CASE step = 9
      <4>1. (rx' = rx \/ rx' = Push(Pattern)) /\ timeout' = timeout
        BY <1>3, <3>1, SetupIs DEF initialize, outb
      <4>2. QED
        BY <1>0, <3>1, <4>1, PushGrows DEF FifoInv
    <3>2. CASE step = 3
      <4>1. rx' = rx /\ timeout' = timeout
        BY <1>3, <3>2, SetupIs DEF initialize, outb, RegsInv, Dlab
      <4>2. QED
        BY <3>2, <4>1 DEF FifoInv
    <3>3. CASE step = 6
      BY <1>3, <2>0, <3>3, SetupIs DEF initialize, outb, FifoInv
    <3>4. CASE step \in {1, 2, 4, 5, 7, 8}
      <4>1. Setup[step][1] # 0 /\ Setup[step][1] # 2
        BY <3>4, SetupIs
      <4>2. rx' = rx /\ timeout' = timeout
        BY <1>3, <4>1 DEF initialize, outb, FifoInv
      <4>3. QED
        BY <3>4, <4>2 DEF FifoInv
    <3>5. QED
      BY <2>0, <3>1, <3>2, <3>3, <3>4
  <2>2. QED
    BY <1>0, <1>3, <2>0, <2>1 DEF initialize, FifoInv, Up
<1>4. CASE self_test
  <2>1. /\ rx' \in Seq(Byte) /\ Len(rx') <= Len(rx)
        /\ rx # <<>> => Len(rx') = Len(rx) - 1
    BY <1>4 DEF self_test, FifoInv
  <2>2. cpu' = "boot" => rx # <<>>
    BY <1>4 DEF self_test, Value, Nothing, Twin, Pattern
  <2>3. cpu = "boot" /\ step = 10 /\ sent' = sent /\ interpreted' = interpreted
        /\ ~timeout'
        /\ (cpu' = "panic" \/ (cpu' = "boot" /\ step' = 11))
    BY <1>0, <1>4, SetupIs DEF self_test
  <2>4. QED
    BY <2>1, <2>2, <2>3 DEF FifoInv, Up
<1>5. CASE ready
  <2>1. cpu = "boot" /\ step = 11 /\ cpu' = "booted" /\ rx' = rx
        /\ timeout' = timeout /\ sent' = sent /\ interpreted' = interpreted
    BY <1>5, SetupIs DEF ready, outb, FifoInv
  <2>2. QED
    BY <1>0, <1>5, <2>1 DEF ready, FifoInv, Up
<1>6. CASE read
  <2>1. rx' \in Seq(Byte) /\ Len(rx') = Len(rx) - 1
    BY <1>6 DEF read, FifoInv
  <2>2. QED
    BY <1>0, <1>6, <2>1 DEF read, FifoInv, Up
<1>7. CASE enable \/ interrupt \/ end_of_interrupt
  BY <1>7 DEF enable, interrupt, end_of_interrupt, FifoInv, Up
<1>8. CASE UNCHANGED vars
  BY <1>8 DEF vars, FifoInv, Up
<1>9. QED
  BY <1>1, <1>2, <1>3, <1>4, <1>5, <1>6, <1>7, <1>8 DEF Next, Kernel

\* The self-test has read a byte or nothing.
AnswerInv == answer \in Byte \cup {Nothing}

\* Only the self-test reads an answer, from the FIFO.
LEMMA AnswerInvStep == FifoInv /\ AnswerInv /\ [Next]_vars => AnswerInv'
<1> SUFFICES ASSUME FifoInv, AnswerInv, [Next]_vars PROVE AnswerInv'
  OBVIOUS
<1>1. CASE self_test
  <2>1. rx # <<>> => Head(rx) \in Byte
    BY DEF FifoInv
  <2>2. QED
    BY <1>1, <2>1 DEF self_test, AnswerInv
<1>2. CASE answer' = answer
  BY <1>2 DEF AnswerInv
<1>3. QED
  BY <1>1, <1>2 DEF Next, Kernel, Arrive, CharacterTimeout, initialize, ready,
     enable, interrupt, read, end_of_interrupt, vars

\* The port, the FIFO and the counters stay well formed.
THEOREM SerialTypeCorrect == Spec => []TypeOK
<1>1. RegsInv /\ FifoInv /\ BoolInv /\ AnswerInv => TypeOK
  <2> SUFFICES ASSUME RegsInv, FifoInv, BoolInv, AnswerInv PROVE TypeOK
    OBVIOUS
  <2>1. /\ cpu \in {"boot", "panic", "booted", "idle", "read", "eoi"}
        /\ step \in 1..Len(Setup) + 2 /\ answer \in Byte \cup {Nothing}
    BY SetupIs DEF RegsInv, AnswerInv
  <2>2. /\ dll \in 0..255 /\ dlm \in 0..255 /\ ier \in 0..255
        /\ lcr \in 0..255 /\ fcr \in 0..255
    BY DEF RegsInv
  <2>3. mcr \in 0..255
    BY DEF RegsInv, Up
  <2>4. /\ rx \in Seq(Byte) /\ Len(rx) \in 0..Depth
        /\ sent \in 0..MaxBytes
    BY SerialAssumption DEF FifoInv
  <2>5. interpreted \in 0..MaxBytes
    BY SerialAssumption DEF FifoInv, RegsInv, Up
  <2>6. QED
    BY <2>1, <2>2, <2>3, <2>4, <2>5, Zenon DEF TypeOK, BoolInv
<1>2. Init => BoolInv
  BY Zenon DEF Init, BoolInv
<1>3. Init => AnswerInv
  BY DEF Init, AnswerInv
<1>4. QED
  BY <1>1, <1>2, <1>3, RegsInvInit, RegsInvStep, FifoInvInit, FifoInvStep,
     BoolInvStep, AnswerInvStep, PTL DEF Spec

-----------------------------------------------------------------------------

\* What the PIC's latch does, as four implications.
LEMMA LatchFacts ==
  ASSUME BoolInv, BoolInv', Latch
  PROVE  /\ Level' /\ ~Level => irr'
         /\ Level /\ Level' => (irr' <=> irr)
         /\ ~Level /\ ~Level' => (irr' <=> irr)
         /\ Level /\ ~Level' => (irr' => irr)
<1>1. CASE Level' /\ ~Level
  <2>1. irr' \in {TRUE}
    BY <1>1, Zenon DEF Latch
  <2>2. QED
    BY <1>1, <2>1, Zenon
<1>2. CASE Level /\ ~Level'
  <2>1. irr' \in {irr, FALSE}
    BY <1>2, Zenon DEF Latch
  <2>2. QED
    BY <1>2, <2>1, Zenon DEF BoolInv
<1>3. CASE Level /\ Level'
  <2>1. irr' \in {irr}
    BY <1>3, Zenon DEF Latch
  <2>2. irr' = irr
    BY <2>1
  <2>3. irr' <=> irr
    BY <2>2 DEF BoolInv
  <2>4. QED
    BY <1>3, <2>3, Zenon
<1>4. CASE ~Level /\ ~Level'
  <2>1. irr' \in {irr}
    BY <1>4, Zenon DEF Latch
  <2>2. irr' = irr
    BY <2>1
  <2>3. irr' <=> irr
    BY <2>2 DEF BoolInv
  <2>4. QED
    BY <1>4, <2>3, Zenon
<1>5. QED
  BY <1>1, <1>2, <1>3, <1>4, Zenon

\* When the port is up its line is high for one of two reasons.
LEMMA UpLevel ==
  ASSUME RegsInv, Up
  PROVE  Level <=> (Len(rx) >= Trigger \/ timeout)
<1>1. ier = 1 /\ Fifo
  BY Bits DEF RegsInv, Fifo
<1>2. QED
  BY <1>1 DEF Level

\* Every step but the handler's read leaves a high line high.
LEMMA OnlyReadLowers ==
  ASSUME RegsInv, FifoInv, Arrive \/ CharacterTimeout, Up
  PROVE  /\ Level => Level'
         /\ Len(rx') >= Len(rx)
         /\ Up' /\ cpu' = cpu /\ interpreted' = interpreted
<1>0. RegsInv' /\ Up' /\ cpu' = cpu /\ interpreted' = interpreted
  BY RegsInvStep DEF Arrive, CharacterTimeout, Up, Next
<1>1. LineBytes \subseteq Byte
  BY SerialAssumption DEF Byte
<1>2. Fifo
  BY Bits DEF RegsInv, Fifo, Up
<1>3. Len(rx') >= Len(rx) /\ (timeout => timeout')
  <2>1. CASE Arrive
    BY <1>1, <1>2, <2>1, PushGrows DEF Arrive, FifoInv
  <2>2. CASE CharacterTimeout
    BY <2>2 DEF CharacterTimeout, FifoInv
  <2>3. QED
    BY <2>1, <2>2
<1>4. Len(rx) \in Nat /\ Len(rx') \in Nat /\ Trigger \in Nat
  <2>1. FifoInv'
    BY FifoInvStep DEF Next
  <2>2. QED
    BY <2>1, SerialAssumption DEF FifoInv
<1>5. (Level <=> (Len(rx) >= Trigger \/ timeout))
  BY UpLevel
<1>6. (Level' <=> (Len(rx') >= Trigger \/ timeout'))
  <2>1. ier' = 1 /\ Fifo'
    BY <1>0, Bits DEF RegsInv, Fifo, Up
  <2>2. QED
    BY <2>1 DEF Level
<1>7. Len(rx) >= Trigger => Len(rx') >= Trigger
  BY <1>3, <1>4
<1>8. QED
  BY <1>0, <1>3, <1>5, <1>6, <1>7

\* A high line has its request latched until the handler has taken it; after
\* a read it may stay high without one, with Trigger bytes or more waiting.
EdgeInv ==
  /\ cpu \in {"boot", "booted"} => (Level => irr)
  /\ cpu \in {"idle", "eoi"} =>
       (Level => irr \/ (Len(rx) >= Trigger /\ interpreted > 0))

\* An edge is lost only to a burst.
LEMMA EdgeInvStep ==
  RegsInv /\ FifoInv /\ BoolInv /\ EdgeInv /\ [Next]_vars => EdgeInv'
<1> SUFFICES ASSUME RegsInv, FifoInv, BoolInv, EdgeInv, [Next]_vars
             PROVE  EdgeInv'
  OBVIOUS
<1>0. RegsInv' /\ FifoInv' /\ BoolInv'
  BY RegsInvStep, FifoInvStep, BoolInvStep
<1>1. CASE initialize \/ self_test \/ ready
  <2>1. cpu = "boot" /\ cpu' \in {"boot", "booted", "panic"} /\ Latch
    BY <1>1 DEF initialize, self_test, ready
  <2>2. Level' => irr'
    BY <1>0, <2>1, LatchFacts DEF EdgeInv
  <2>3. QED
    BY <2>1, <2>2 DEF EdgeInv
<1>2. CASE (Arrive \/ CharacterTimeout) /\ ~Up
  <2>1. cpu' = cpu /\ cpu \in {"boot", "panic"} /\ Latch
    BY <1>2 DEF Arrive, CharacterTimeout, Up, RegsInv
  <2>2. (Level => irr) => (Level' => irr')
    BY <1>0, <2>1, LatchFacts
  <2>3. QED
    BY <2>1, <2>2 DEF EdgeInv
<1>3. CASE (Arrive \/ CharacterTimeout) /\ Up
  <2>1. /\ Level => Level'
        /\ Len(rx') >= Len(rx)
        /\ cpu' = cpu /\ interpreted' = interpreted
    BY <1>3, OnlyReadLowers
  <2>2. Latch
    BY <1>3 DEF Arrive, CharacterTimeout
  <2>3. (~Level \/ irr) => (Level' => irr')
    BY <1>0, <2>2, LatchFacts
  <2>4. Len(rx) >= Trigger => Len(rx') >= Trigger
    BY <1>0, <2>1, SerialAssumption DEF FifoInv
  <2>5. QED
    BY <2>1, <2>3, <2>4 DEF EdgeInv
<1>4. CASE read
  <2>1. cpu' = "eoi" /\ ~timeout' /\ interpreted' > 0 /\ Up'
    BY <1>4 DEF read, FifoInv, Up
  <2>2. Level' => Len(rx') >= Trigger
    BY <1>0, <2>1, Bits DEF Level, Fifo, RegsInv
  <2>3. QED
    BY <2>1, <2>2 DEF EdgeInv
<1>5. CASE enable \/ end_of_interrupt
  <2>1. UNCHANGED <<regs, rx, timeout, irr, interpreted>>
    BY <1>5 DEF enable, end_of_interrupt
  <2>2. (Level' <=> Level) /\ irr' = irr
    BY <2>1 DEF Level, Fifo, regs
  <2>3. QED
    BY <1>5, <2>1, <2>2 DEF EdgeInv, enable, end_of_interrupt
<1>6. CASE interrupt
  BY <1>6 DEF interrupt, EdgeInv
<1>7. CASE UNCHANGED vars
  <2>1. (Level' <=> Level) /\ irr' = irr
    BY <1>7 DEF vars, Level, Fifo, regs
  <2>2. QED
    BY <1>7, <2>1 DEF EdgeInv, vars
<1>8. QED
  BY <1>1, <1>2, <1>3, <1>4, <1>5, <1>6, <1>7 DEF Next, Kernel

\* The serial input can wedge only behind a burst: requests raised before
\* interrupts were enabled, or while the handler was running, are not lost.
THEOREM WedgeOnlyAfterBurst == Spec => []WedgeNeedsBurst
<1>1. Init => EdgeInv /\ BoolInv
  <2>1. Init => BoolInv
    BY Zenon DEF Init, BoolInv
  <2>2. Init => EdgeInv
    BY DEF Init, EdgeInv, Level
  <2>3. QED
    BY <2>1, <2>2
<1>2. EdgeInv => WedgeNeedsBurst
  BY DEF EdgeInv, WedgeNeedsBurst, Wedged
<1>3. QED
  BY <1>1, <1>2, RegsInvInit, RegsInvStep, FifoInvInit, FifoInvStep,
     BoolInvStep, EdgeInvStep, PTL DEF Spec

-----------------------------------------------------------------------------

\* A FIFO with at most one test byte in it, and with one only if the self-test
\* has read a byte of the line in its place.
Exchanged(s, a) ==
  \A i \in 1..Len(s) : s[i] = Pattern =>
    a = Twin /\ \A j \in 1..Len(s) : s[j] = Pattern => j = i

\* Up to the test byte the FIFO holds bytes of the line only; then the test
\* byte can only be the last one, for the receiver is off the line; it is
\* still there after the self-test if that has read another one.
PatternInv ==
  /\ cpu = "boot" /\ step <= 9 => \A i \in 1..Len(rx) : rx[i] # Pattern
  /\ cpu = "boot" /\ step = 10 => \A i \in 1..Len(rx) - 1 : rx[i] # Pattern
  /\ (cpu = "boot" /\ step = 11) \/ Up => Exchanged(rx, answer)

\* What a byte of the line, or the test byte, does to a FIFO without a test
\* byte.
LEMMA PushLine ==
  ASSUME rx \in Seq(Byte), \A i \in 1..Len(rx) : rx[i] # Pattern
  PROVE  /\ \A b \in LineBytes : \A i \in 1..Len(Push(b)) : Push(b)[i] # Pattern
         /\ \A i \in 1..Len(Push(Pattern)) - 1 : Push(Pattern)[i] # Pattern
<1>1. Pattern \in Byte /\ \A b \in LineBytes : b \in Byte /\ b # Pattern
  BY SerialAssumption DEF Byte, Line, Twin, Pattern
<1>2. ASSUME NEW b \in Byte
      PROVE  /\ \A i \in 1..Len(Append(rx, b)) - 1 : Append(rx, b)[i] # Pattern
             /\ Len(Append(rx, b)) = Len(rx) + 1
             /\ Append(rx, b)[Len(rx) + 1] = b
  OBVIOUS
<1>3. ASSUME NEW b \in LineBytes
      PROVE  \A i \in 1..Len(Push(b)) : Push(b)[i] # Pattern
  <2>1. \A i \in 1..Len(Append(rx, b)) : Append(rx, b)[i] # Pattern
    BY <1>1, <1>2
  <2>2. \A i \in 1..Len(<<b>>) : <<b>>[i] # Pattern
    BY <1>1
  <2>3. QED
    BY <2>1, <2>2 DEF Push
<1>4. \A i \in 1..Len(Push(Pattern)) - 1 : Push(Pattern)[i] # Pattern
  <2>1. \A i \in 1..Len(<<Pattern>>) - 1 : <<Pattern>>[i] # Pattern
    OBVIOUS
  <2>2. \A i \in 1..Len(rx) - 1 : rx[i] # Pattern
    OBVIOUS
  <2>3. QED
    BY <1>1, <1>2, <2>1, <2>2 DEF Push
<1>5. QED
  BY <1>3, <1>4

\* Neither a byte of the line nor the removal of the first byte disturbs a
\* FIFO with the exchanged test byte.
LEMMA ExchangedStays ==
  ASSUME rx \in Seq(Byte), Exchanged(rx, answer)
  PROVE  /\ \A b \in LineBytes : Exchanged(Push(b), answer)
         /\ rx # <<>> => Exchanged(Tail(rx), answer)
<1>1. \A b \in LineBytes : b \in Byte /\ b # Pattern
  BY SerialAssumption DEF Byte, Line, Twin, Pattern
<1>2. ASSUME NEW b \in LineBytes PROVE Exchanged(Push(b), answer)
  <2>1. Exchanged(Append(rx, b), answer)
    <3>1. /\ Len(Append(rx, b)) = Len(rx) + 1
          /\ Append(rx, b)[Len(rx) + 1] = b
          /\ \A i \in 1..Len(rx) : Append(rx, b)[i] = rx[i]
      BY <1>1
    <3>2. \A i \in 1..Len(Append(rx, b)) :
            Append(rx, b)[i] = Pattern => i \in 1..Len(rx) /\ rx[i] = Pattern
      BY <1>1, <3>1
    <3>3. QED
      BY <3>2 DEF Exchanged
  <2>2. Exchanged(<<b>>, answer)
    BY <1>1 DEF Exchanged
  <2>3. QED
    BY <2>1, <2>2 DEF Push
<1>3. ASSUME rx # <<>> PROVE Exchanged(Tail(rx), answer)
  <2>1. \A i \in 1..Len(Tail(rx)) :
          i + 1 \in 1..Len(rx) /\ Tail(rx)[i] = rx[i + 1]
    BY <1>3
  <2>2. QED
    BY <2>1 DEF Exchanged
<1>4. QED
  BY <1>2, <1>3

\* The test byte is read back by the self-test, or exchanged.
LEMMA PatternInvStep ==
  RegsInv /\ FifoInv /\ PatternInv /\ [Next]_vars => PatternInv'
<1> SUFFICES ASSUME RegsInv, FifoInv, PatternInv, [Next]_vars
             PROVE  PatternInv'
  OBVIOUS
<1>0. rx \in Seq(Byte) /\ step \in 1..11
  BY DEF FifoInv, RegsInv
<1>1. CASE Arrive
  <2>0. cpu' = cpu /\ step' = step /\ answer' = answer /\ (Up' <=> Up)
    BY <1>1 DEF Arrive, Up
  <2>1. CASE cpu = "boot" /\ step >= 10
    <3>1. Loopback
      BY <2>1, Bits DEF RegsInv, Loopback
    <3>2. rx' = rx
      BY <1>1, <3>1 DEF Arrive
    <3>3. QED
      BY <2>0, <2>1, <3>2 DEF PatternInv, Up
  <2>2. CASE cpu = "boot" /\ step <= 9
    <3>1. \A i \in 1..Len(rx') : rx'[i] # Pattern
      BY <1>0, <1>1, <2>2, PushLine DEF Arrive, PatternInv
    <3>2. QED
      BY <2>0, <2>2, <3>1 DEF PatternInv, Up
  <2>3. CASE Up
    <3>1. Exchanged(rx', answer)
      BY <1>0, <1>1, <2>3, ExchangedStays DEF Arrive, PatternInv
    <3>2. QED
      BY <2>0, <2>3, <3>1 DEF PatternInv, Up
  <2>4. CASE cpu = "panic"
    BY <2>0, <2>4 DEF PatternInv, Up
  <2>5. QED
    BY <1>0, <2>1, <2>2, <2>3, <2>4 DEF RegsInv, Up
<1>2. CASE initialize
  <2>0. step \in 1..9 /\ cpu = "boot" /\ cpu' = cpu /\ step' = step + 1
    BY <1>2, SetupIs DEF initialize
  <2>1. \A i \in 1..Len(rx) : rx[i] # Pattern
    BY <2>0 DEF PatternInv
  <2>2. CASE step = 9
    <3>1. ~Dlab /\ Loopback
      BY <2>0, <2>2, Bits DEF RegsInv, Dlab, Loopback
    <3>2. rx' = Push(Pattern)
      BY <1>2, <2>2, <3>1, SetupIs DEF initialize, outb
    <3>3. QED
      BY <1>0, <2>0, <2>1, <2>2, <3>2, PushLine DEF PatternInv, Up
  <2>3. CASE step # 9
    <3>1. step = 3 => Dlab
      BY <2>0 DEF RegsInv, Dlab
    <3>2. rx' = <<>> \/ rx' = rx
      <4>1. Setup[step][1] = 0 => step = 3
        BY <2>0, <2>3, SetupIs
      <4>2. QED
        BY <1>2, <3>1, <4>1 DEF initialize, outb
    <3>3. QED
      BY <2>0, <2>1, <2>3, <3>2 DEF PatternInv, Up
  <2>4. QED
    BY <2>2, <2>3
<1>3. CASE self_test
  <2>0. cpu = "boot" /\ step = 10
    BY <1>3, SetupIs DEF self_test
  <2>1. \A i \in 1..Len(rx) - 1 : rx[i] # Pattern
    BY <2>0 DEF PatternInv
  <2>2. CASE rx # <<>> /\ Head(rx) = Pattern
    <3>1. Len(rx) = 1
      <4>1. PICK n \in Nat : n = Len(rx) /\ n # 0
        BY <1>0, <2>2
      <4>2. rx[1] = Pattern
        BY <2>2
      <4>3. ~ (1 \in 1..n - 1)
        BY <2>1, <4>1, <4>2
      <4>4. n = 1
        BY <4>1, <4>3
      <4>5. QED
        BY <4>1, <4>4
    <3>2. rx' = Tail(rx) /\ Tail(rx) = <<>>
      BY <1>0, <1>3, <2>2, <3>1 DEF self_test
    <3>3. cpu' = "boot" /\ step' = 11
      BY <1>3, <2>0, <2>2 DEF self_test, Value
    <3>4. QED
      BY <3>2, <3>3 DEF PatternInv, Exchanged, Up
  <2>3. CASE rx # <<>> /\ Head(rx) = Twin
    <3>1. rx' = Tail(rx) /\ answer' = Twin
      BY <1>3, <2>3 DEF self_test
    <3>2. \A i \in 1..Len(Tail(rx)) : Tail(rx)[i] = rx[i + 1]
          /\ i \in Nat /\ (i + 1 \in 1..Len(rx) - 1 \/ i + 1 = Len(rx))
      BY <1>0, <2>3
    <3>3. \A i \in 1..Len(Tail(rx)) :
            Tail(rx)[i] = Pattern => i \in Nat /\ i + 1 = Len(rx)
      BY <2>1, <3>2
    <3>4. Exchanged(Tail(rx), Twin)
      <4>1. Len(rx) \in Nat
        BY <1>0
      <4>2. ASSUME NEW i \in 1..Len(Tail(rx)), Tail(rx)[i] = Pattern,
                   NEW j \in 1..Len(Tail(rx)), Tail(rx)[j] = Pattern
            PROVE  j = i
        <5>1. i \in Nat /\ i + 1 = Len(rx) /\ j \in Nat /\ j + 1 = Len(rx)
          BY <3>3, <4>2
        <5>2. QED
          BY <4>1, <5>1
      <4>3. QED
        BY <4>2 DEF Exchanged
    <3>5. cpu' = "boot" /\ step' = 11
      BY <1>3, <2>0, <2>3 DEF self_test, Value
    <3>6. QED
      BY <3>1, <3>4, <3>5 DEF PatternInv, Up
  <2>4. CASE ~(rx # <<>> /\ Head(rx) \in {Twin, Pattern})
    <3>1. cpu' = "panic"
      BY <1>3, <2>4 DEF self_test, Value, Nothing, Twin, Pattern
    <3>2. QED
      BY <3>1 DEF PatternInv, Up
  <2>5. QED
    BY <2>2, <2>3, <2>4
<1>4. CASE ready
  <2>1. cpu = "boot" /\ step = 11 /\ rx' = rx /\ answer' = answer
        /\ cpu' = "booted"
    BY <1>4, SetupIs DEF ready, outb
  <2>2. QED
    BY <2>1 DEF PatternInv, Up
<1>5. CASE read
  BY <1>0, <1>5, ExchangedStays DEF read, PatternInv, Up
<1>6. CASE enable \/ interrupt \/ end_of_interrupt
  BY <1>6 DEF enable, interrupt, end_of_interrupt, PatternInv, Up
<1>7. CASE CharacterTimeout \/ UNCHANGED vars
  BY <1>7 DEF CharacterTimeout, vars, PatternInv, Up
<1>8. QED
  BY <1>1, <1>2, <1>3, <1>4, <1>5, <1>6, <1>7 DEF Next, Kernel

\* Whatever the line does while the port is set up, and whatever it sends, the
\* shell is given the test byte of Serial::initialize at most once, and only
\* if the self-test has passed on a byte of the line.
THEOREM TestByteIsExchanged == Spec => []TestByteOnlyExchanged
<1>1. Init => PatternInv
  BY DEF Init, PatternInv, Up
<1>2. PatternInv => TestByteOnlyExchanged
  BY DEF PatternInv, TestByteOnlyExchanged, Exchanged
<1>3. QED
  BY <1>1, <1>2, RegsInvInit, RegsInvStep, FifoInvInit, FifoInvStep,
     PatternInvStep, PTL DEF Spec

-----------------------------------------------------------------------------

\* Left alone, the port sees no request before it is up; then a request is
\* latched only while the line is high, and the line stays high until the
\* handler has read its byte.
QuietInv ==
  /\ cpu # "panic"
  /\ cpu = "boot" => /\ rx = IF step = 10 THEN <<Pattern>> ELSE <<>>
                     /\ ~timeout /\ ~irr
  /\ irr => Level
  /\ cpu = "read" => Level /\ ~irr

\* A high line means that there is something to read.
LEMMA HighMeansData ==
  ASSUME RegsInv, FifoInv, Up, Level
  PROVE  rx # <<>>
<1>1. Len(rx) >= Trigger \/ timeout
  BY UpLevel
<1>2. QED
  BY <1>1, SerialAssumption DEF FifoInv

\* An empty FIFO, or one with the test byte alone, does not raise the line.
LEMMA QuietIsLow ==
  RegsInv /\ ~timeout /\ cpu = "boot"
    /\ rx = (IF step = 10 THEN <<Pattern>> ELSE <<>>) => ~Level
<1> SUFFICES ASSUME RegsInv, ~timeout, cpu = "boot",
                    rx = IF step = 10 THEN <<Pattern>> ELSE <<>>
             PROVE  ~Level
  OBVIOUS
<1>1. Len(rx) <= 1
  OBVIOUS
<1>2. ~ (Len(rx) >= Trigger)
  BY <1>1, SerialAssumption
<1>3. CASE step = 10
  <2>1. Fifo
    BY <1>3, Bits DEF RegsInv, Fifo
  <2>2. QED
    BY <1>2, <2>1 DEF Level
<1>4. CASE step # 10
  <2>1. rx = <<>>
    BY <1>4
  <2>2. QED
    BY <1>2, <2>1 DEF Level
<1>5. QED
  BY <1>3, <1>4

\* While no byte comes in during the boot, an edge is latched only while the
\* line is high, and the handler starts with a byte to read.
LEMMA QuietInvStep ==
  Undisturbed /\ RegsInv /\ FifoInv /\ BoolInv /\ QuietInv /\ [Next]_vars
    => QuietInv'
<1> SUFFICES ASSUME Undisturbed, RegsInv, FifoInv, BoolInv, QuietInv,
                    [Next]_vars
             PROVE  QuietInv'
  OBVIOUS
<1>0. RegsInv' /\ FifoInv' /\ BoolInv'
  BY RegsInvStep, FifoInvStep, BoolInvStep
<1>1. CASE initialize
  <2>0. step \in 1..9 /\ cpu = "boot" /\ cpu' = cpu /\ step' = step + 1
        /\ Latch
    BY <1>1, SetupIs DEF initialize
  <2>1. rx = <<>> /\ ~timeout /\ ~irr
    BY <2>0 DEF QuietInv
  <2>2. ~timeout'
    BY <1>1, <2>1 DEF initialize, outb
  <2>3. rx' = IF step' = 10 THEN <<Pattern>> ELSE <<>>
    <3>1. CASE step = 9
      <4>1. ~Dlab /\ Loopback
        BY <2>0, <3>1, Bits DEF RegsInv, Dlab, Loopback
      <4>2. rx' = Push(Pattern)
        BY <1>1, <3>1, <4>1, SetupIs DEF initialize, outb
      <4>3. Pattern \in Byte
        BY DEF Byte
      <4>4. Push(Pattern) = <<Pattern>>
        BY <2>1, <4>3, PushGrows DEF FifoInv
      <4>5. QED
        BY <2>0, <3>1, <4>2, <4>4
    <3>2. CASE step # 9
      <4>1. step = 3 => Dlab
        BY <2>0 DEF RegsInv, Dlab
      <4>2. Setup[step][1] = 0 => step = 3
        BY <2>0, <3>2, SetupIs
      <4>3. rx' = <<>> \/ rx' = rx
        BY <1>1, <4>1, <4>2 DEF initialize, outb
      <4>4. QED
        BY <2>0, <2>1, <3>2, <4>3
    <3>3. QED
      BY <3>1, <3>2
  <2>4. ~Level
    BY <2>0, <2>1, QuietIsLow DEF QuietInv
  <2>5. ~Level'
    <3>1. (RegsInv /\ ~timeout /\ cpu = "boot"
            /\ rx = (IF step = 10 THEN <<Pattern>> ELSE <<>>) => ~Level)'
      BY QuietIsLow, PTL
    <3>2. QED
      BY <1>0, <2>0, <2>2, <2>3, <3>1
  <2>6. ~irr'
    BY <1>0, <2>0, <2>1, <2>4, <2>5, LatchFacts
  <2>7. QED
    BY <2>0, <2>2, <2>3, <2>6 DEF QuietInv
<1>2. CASE self_test
  <2>0. cpu = "boot" /\ step = 10 /\ Latch
    BY <1>2, SetupIs DEF self_test
  <2>1. rx = <<Pattern>> /\ ~timeout /\ ~irr
    BY <2>0 DEF QuietInv
  <2>2. rx' = <<>> /\ cpu' = "boot" /\ step' = 11 /\ ~timeout'
    BY <1>2, <2>0, <2>1 DEF self_test, Value
  <2>3. ~Level
    BY <2>0, <2>1, QuietIsLow DEF QuietInv
  <2>4. ~Level'
    <3>1. (RegsInv /\ ~timeout /\ cpu = "boot"
            /\ rx = (IF step = 10 THEN <<Pattern>> ELSE <<>>) => ~Level)'
      BY QuietIsLow, PTL
    <3>2. QED
      BY <1>0, <2>2, <3>1
  <2>5. ~irr'
    BY <1>0, <2>0, <2>1, <2>3, <2>4, LatchFacts
  <2>6. QED
    BY <2>2, <2>5 DEF QuietInv
<1>3. CASE ready
  <2>0. cpu = "boot" /\ step = 11 /\ cpu' = "booted" /\ Latch
        /\ rx' = rx /\ timeout' = timeout
    BY <1>3, SetupIs DEF ready, outb
  <2>1. rx = <<>> /\ ~timeout /\ ~irr
    BY <2>0 DEF QuietInv
  <2>2. ~Level
    BY <2>0, <2>1, QuietIsLow DEF QuietInv
  <2>3. ~Level'
    BY <2>0, <2>1, SerialAssumption DEF Level
  <2>4. ~irr'
    BY <1>0, <2>0, <2>1, <2>2, <2>3, LatchFacts
  <2>5. QED
    BY <2>0, <2>4 DEF QuietInv
<1>4. CASE Arrive \/ CharacterTimeout
  <2>1. cpu # "boot" /\ cpu' = cpu /\ Latch
    BY <1>4 DEF Arrive, CharacterTimeout
  <2>2. Up
    BY <2>1 DEF QuietInv, RegsInv, Up
  <2>3. Level => Level'
    BY <1>4, <2>2, OnlyReadLowers
  <2>4. /\ irr' => Level'
        /\ Level /\ ~irr => Level' /\ ~irr'
    BY <1>0, <2>1, <2>3, LatchFacts DEF QuietInv
  <2>5. QED
    BY <2>1, <2>4 DEF QuietInv
<1>5. CASE read
  <2>1. cpu = "read" /\ cpu' = "eoi" /\ Latch
    BY <1>5 DEF read
  <2>2. ~irr'
    BY <1>0, <2>1, LatchFacts DEF QuietInv
  <2>3. QED
    BY <2>1, <2>2 DEF QuietInv
<1>6. CASE interrupt
  <2>1. cpu' = "read" /\ irr /\ ~irr' /\ (Level' <=> Level)
    BY <1>6 DEF interrupt, Level, Fifo, regs
  <2>2. QED
    BY <2>1 DEF QuietInv
<1>7. CASE enable \/ end_of_interrupt
  <2>1. cpu' = "idle" /\ irr' = irr /\ (Level' <=> Level)
    BY <1>7 DEF enable, end_of_interrupt, Level, Fifo, regs
  <2>2. QED
    BY <2>1 DEF QuietInv
<1>8. CASE UNCHANGED vars
  <2>1. /\ cpu' = cpu /\ rx' = rx /\ step' = step /\ timeout' = timeout
        /\ irr' = irr /\ (Level' <=> Level)
    BY <1>8 DEF vars, Level, Fifo, regs
  <2>2. QED
    BY <2>1 DEF QuietInv
<1>9. QED
  BY <1>1, <1>2, <1>3, <1>4, <1>5, <1>6, <1>7, <1>8 DEF Next, Kernel

\* A port that is left alone while it is set up passes its self-test, and the
\* handler always finds the byte it was called for: it never holds the kernel
\* in Serial::read.
THEOREM HandlerNeverWaits ==
  ASSUME Undisturbed
  PROVE  Spec => [](ReadNeverSpins /\ SelfTestPasses)
<1>1. Init => BoolInv
  BY Zenon DEF Init, BoolInv
<1>2. Init => QuietInv
  BY DEF Init, QuietInv, Level
<1>3. RegsInv /\ FifoInv /\ QuietInv => ReadNeverSpins /\ SelfTestPasses
  BY HighMeansData DEF QuietInv, ReadNeverSpins, SelfTestPasses, Up
<1>4. RegsInv /\ FifoInv /\ BoolInv /\ QuietInv /\ [Next]_vars => QuietInv'
  BY QuietInvStep
<1>5. QED
  BY <1>1, <1>2, <1>3, <1>4, RegsInvInit, RegsInvStep, FifoInvInit,
     FifoInvStep, BoolInvStep, PTL DEF Spec

=============================================================================
