------------------------------- MODULE Shell --------------------------------
(***************************************************************************)
(* The line editor of kernel/src/shell.rs: Shell::interpret takes one byte *)
(* from the serial line, keeps the line in its buffer and echoes; a return *)
(* runs the command. At the other end is a terminal (external), of which   *)
(* the row with the prompt is kept, as wide as the terminal is.            *)
(*                                                                         *)
(* A key is a printable character, a white-space character, a backspace or *)
(* a return. Commands are short words here, and their output is rows above *)
(* the next prompt.                                                        *)
(***************************************************************************)
EXTENDS Integers, Sequences, FiniteSets, SequencesExt

CONSTANTS Letters,      \* printable characters
          Commands,     \* the words interpret knows
          readelf,      \* the one of them that reads a file
          Files,        \* the arguments that name an ELF file it can decode
          Width,        \* columns of the terminal
          PromptLen,    \* columns of the prompt
          MaxKeys       \* bound on the keys pressed

Space == " "
Tab == "TAB"
Backspace == "BS"
Return == "CR"
Whitespace == {Space, Tab}
Keys == Letters \union Whitespace \union {Backspace, Return}

ASSUME ShellAssumption ==
  /\ Letters \intersect {Space, Tab, Backspace, Return} = {}
  /\ Commands \subseteq Seq(Letters) \ {<<>>} /\ readelf \in Commands
  /\ Width \in Nat /\ PromptLen \in Nat \ {0} /\ PromptLen < Width /\ MaxKeys \in Nat

VARIABLES buffer,       \* Shell::buffer
          row, col,     \* the terminal's current row, from column 0, and cursor
          typed,        \* the keys since the last prompt
          count,        \* keys pressed
          ran,          \* the last command: record of command and argument
          state         \* "ready" or "panic"

vars == <<buffer, row, col, typed, count, ran, state>>

-----------------------------------------------------------------------------
(***************************************************************************)
(* The terminal. A character behind the last column begins a new row, and  *)
(* a backspace does not leave a row.                                       *)
(***************************************************************************)

BlankRow == [c \in 0..Width - 1 |-> Space]
TabStop(c) == IF (c \div 8 + 1) * 8 < Width THEN (c \div 8 + 1) * 8 ELSE Width - 1

Emit(t, c) ==
  CASE c = Backspace -> [t EXCEPT !.col = IF @ = 0 THEN 0 ELSE IF @ = Width THEN @ - 2 ELSE @ - 1]
    [] c = Tab -> [t EXCEPT !.col = IF @ = Width THEN @ ELSE TabStop(@)]
    [] OTHER -> IF t.col = Width
                  THEN [row |-> [BlankRow EXCEPT ![0] = c], col |-> 1]
                  ELSE [row |-> [t.row EXCEPT ![t.col] = c], col |-> t.col + 1]

Terminal == [row |-> row, col |-> col]
write(t) == row' = t.row /\ col' = t.col

\* The prompt, on a row of its own
PromptRow == [c \in 0..Width - 1 |-> IF c < PromptLen THEN "prompt" ELSE Space]

-----------------------------------------------------------------------------
(***************************************************************************)
(* Shell::interpret.                                                       *)
(***************************************************************************)

IsWhitespace(c) == c \in Whitespace

\* Cuts at the last white space.
split_once_Last(line) ==
  LET i == SelectLastInSeq(line, IsWhitespace)
  IN  IF i = 0 THEN [command |-> line, argument |-> <<>>]
      ELSE [command |-> SubSeq(line, 1, i - 1), argument |-> SubSeq(line, i + 1, Len(line))]

\* The command ends at the first white space, and the rest is its argument.
split_once(line) ==
  LET i == SelectInSeq(line, IsWhitespace)
  IN  IF i = 0 THEN [command |-> line, argument |-> <<>>]
      ELSE [command |-> SubSeq(line, 1, i - 1), argument |-> SubSeq(line, i + 1, Len(line))]

\* An unknown command is an error message.
Known(line) == IF split_once(line).command \in Commands THEN split_once(line)
               ELSE [command |-> <<>>, argument |-> <<>>]

\* Leaves the line in the buffer.
return_Uncleared ==
  /\ ran' = Known(buffer)
  /\ row' = PromptRow /\ col' = PromptLen
  /\ UNCHANGED <<buffer, state>>

\* A return runs the command; Elf::new panics if there is nothing to read.
return ==
  /\ ran' = Known(buffer)
  /\ IF ran'.command = readelf /\ ran'.argument \notin Files
       THEN state' = "panic" /\ UNCHANGED <<buffer, row, col>>
       ELSE /\ row' = PromptRow /\ col' = PromptLen
            /\ buffer' = <<>>
            /\ UNCHANGED state

\* Echoes a backspace and does not wipe the character.
backspace_NoWipe ==
  /\ IF buffer = <<>> THEN UNCHANGED <<buffer, row, col>>
     ELSE buffer' = Front(buffer) /\ write(Emit(Terminal, Backspace))
  /\ UNCHANGED <<ran, state>>

\* Nothing to take back, nothing to wipe
backspace ==
  /\ IF buffer = <<>> THEN UNCHANGED <<buffer, row, col>>
     ELSE /\ buffer' = Front(buffer)
          /\ write(Emit(Emit(Emit(Terminal, Backspace), Space), Backspace))
  /\ UNCHANGED <<ran, state>>

\* Any other character joins the line and is echoed.
character(c) ==
  /\ buffer' = Append(buffer, c)
  /\ write(Emit(Terminal, c))
  /\ UNCHANGED <<ran, state>>

interpret(key) ==
  /\ state = "ready" /\ count < MaxKeys
  /\ count' = count + 1
  /\ typed' = IF key = Return THEN <<>> ELSE Append(typed, key)
  /\ \/ key = Return /\ return
     \/ key = Backspace /\ backspace
     \/ key \notin {Return, Backspace} /\ character(key)

\* Shell::display has written the prompt.
Init ==
  /\ buffer = <<>>
  /\ row = PromptRow /\ col = PromptLen
  /\ typed = <<>> /\ count = 0
  /\ ran = [command |-> <<>>, argument |-> <<>>]
  /\ state = "ready"

Next == \E key \in Keys : interpret(key)

Spec == Init /\ [][Next]_vars

-----------------------------------------------------------------------------
(***************************************************************************)
(* Properties.                                                             *)
(***************************************************************************)

\* The characters of keys that were not taken back: between each and any
\* later point, no more backspaces than characters were typed.
Count(keys, i, j, S) == Cardinality({k \in i..j : keys[k] \in S})
Survives(keys, i) ==
  /\ keys[i] # Backspace
  /\ \A j \in i + 1..Len(keys) :
       Count(keys, i + 1, j, {Backspace}) <= Count(keys, i + 1, j, Keys \ {Backspace})
Left(keys) == {i \in 1..Len(keys) : Survives(keys, i)}
Place(keys, i) == Cardinality({k \in Left(keys) : k <= i})

\* Those characters, in their order
Edited(keys) ==
  [n \in 1..Cardinality(Left(keys)) |-> keys[CHOOSE i \in Left(keys) : Place(keys, i) = n]]

\* Through any mixture of keys and commands the buffer holds the line as it
\* was edited since the last prompt, and nothing of an earlier line.
BufferIsEditedLine == state = "ready" => buffer = Edited(typed)

\* Did the line always stay within the row, without tabs?
Fits ==
  \A n \in 0..Len(typed) :
    /\ PromptLen + Len(Edited(SubSeq(typed, 1, n))) < Width
    /\ n > 0 => typed[n] # Tab

\* The user sees the line that a return will run, and no more, as long as it
\* has always fitted into the row behind the prompt.
ScreenShowsBuffer ==
  Fits /\ state = "ready" =>
    /\ col = PromptLen + Len(buffer)
    /\ \A c \in 0..Width - 1 :
         row[c] = CASE c < PromptLen -> "prompt"
                    [] c \in PromptLen..PromptLen + Len(buffer) - 1 ->
                         buffer[c - PromptLen + 1]
                    [] OTHER -> Space

\* The word the line begins with ends before its first white space.
Word(line, n) == n \in 0..Len(line) /\ \A i \in 1..n : line[i] \notin Whitespace
Cut(line) == CHOOSE n \in 0..Len(line) : Word(line, n) /\ ~Word(line, n + 1)

RunsLine(line) ==
  LET command == SubSeq(line, 1, Cut(line))
      argument == SubSeq(line, Cut(line) + 2, Len(line))
  IN  /\ IF command \in Commands
           THEN ran' = [command |-> command, argument |-> argument]
           ELSE ran'.command = <<>>
      /\ state' = "panic" <=> (command = readelf /\ argument \notin Files)

\* A return runs the command that was typed, with the argument that was typed,
\* and only an unreadable file makes it panic.
RunsWhatWasTyped ==
  [][count' # count /\ typed' = <<>> /\ typed # <<>> => RunsLine(Edited(typed))]_vars

=============================================================================
