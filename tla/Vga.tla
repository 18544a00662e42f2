-------------------------------- MODULE Vga ---------------------------------
(***************************************************************************)
(* The text on the screen: Write for Vga and Vga::clear of                 *)
(* kernel/src/vga.rs, and those who write: the console that the Enter key  *)
(* shows (keyboard.rs, shell.rs) and the panic handler (main.rs).          *)
(*                                                                         *)
(* A string is a sequence of tokens: control characters, the escape        *)
(* sequences of ansi.rs, and characters. A font has glyphs for U+0000 to   *)
(* U+00FF: U+0100 is the first character without one, and WIDE stands for  *)
(* those behind it. The strings of the kernel hold no other escape         *)
(* sequence, and no one that is cut off. A write holds the VGA lock with   *)
(* interrupts disabled, and is one step. Coordinates are in pixels.        *)
(***************************************************************************)
EXTENDS Integers, Sequences, SequencesExt

CONSTANTS Width, Height,
          Motd,         \* initrd/etc/motd
          Prompt,       \* Shell::prompt
          KeyLog,       \* the log line of a key press
          FatalLog,     \* the log line of a panic
          Logs,         \* other log lines
          MaxKeys, MaxLogs \* bounds on Enter keys pressed and on lines logged

GlyphSize == 16         \* asserted by Font::new
FontWidth == GlyphSize \div 2
FontHeight == GlyphSize

Colours == {"BLUE", "DEFAULT", "GREEN", "ORANGE", "PURPLE", "RED", "YELLOW"}
Controls == Colours \union {"BOLD", "NORMAL", "NL", "CR", "TAB"}

\* Tokens that move the cursor or change the pen and draw nothing
Undrawn == Controls \union {"U+0100"}

\* s sets a colour before each of its characters, and NORMAL does not come
\* between them.
SetsColour(s) ==
  \A n \in 1..Len(s) : s[n] \notin Undrawn =>
    \E j \in 1..n - 1 : s[j] \in Colours /\ \A m \in j + 1..n - 1 : s[m] # "NORMAL"

ASSUME VgaAssumption ==
  /\ Width \in Nat /\ Height \in Nat /\ MaxKeys \in Nat /\ MaxLogs \in Nat
  /\ \A s \in {Motd, Prompt, KeyLog, FatalLog} \union Logs : s \in Seq(Range(s))

\* The format of Log, the prompt and the file motd. The prompt ends in a blank,
\* and only the lines that are logged, which name files, have characters far
\* out of the font.
ASSUME TextAssumption ==
  /\ \A s \in {Motd, Prompt, KeyLog, FatalLog} \union Logs :
       SetsColour(s) /\ ~Contains(s, "CR")
  /\ ~Contains(Motd, "WIDE") /\ ~Contains(Prompt, "WIDE")
  /\ Prompt # <<>> /\ Prompt[Len(Prompt)] = " "

VARIABLES cursor,       \* record of x, y and fg
          bold,         \* the font in use
          glyphs,       \* the glyphs drawn since the last clear, oldest first
          written,      \* the strings written since then
          console,      \* VGA_CONSOLE is initialised
          logs,         \* Logger::logs
          keys,         \* Enter keys pressed
          state         \* "running", "panicked", or "stuck": a panic while
                        \* VGA is locked

vars == <<cursor, bold, glyphs, written, console, logs, keys, state>>

screen == [cursor |-> cursor, bold |-> bold, glyphs |-> glyphs,
           written |-> written, ok |-> TRUE]

-----------------------------------------------------------------------------
(***************************************************************************)
(* Write for Vga. A pen is the screen and the locals of write_str.         *)
(***************************************************************************)

set_cursor(pen, x, y) == [pen EXCEPT !.cursor = [x |-> x, y |-> y, fg |-> pen.fg]]

\* Leaves a blank for any character that is not in the font.
write_char_Skip(pen, c) ==
  IF c \in {"U+0100", "WIDE"} THEN pen
  ELSE [pen EXCEPT !.glyphs =
          Append(@, [c |-> c, x |-> pen.cursor.x, y |-> pen.cursor.y,
                     fg |-> pen.cursor.fg, bold |-> pen.bold])]

\* The glyph is a slice of the font's bytes. It cannot begin behind their end,
\* but it can begin there: it is empty then, and nothing is drawn. A pixel
\* above the screen panics as well.
write_char(pen, c) ==
  IF c = "U+0100" THEN pen
  ELSE IF c = "WIDE" \/ pen.cursor.y < 12 THEN [pen EXCEPT !.ok = FALSE]
  ELSE [pen EXCEPT !.glyphs =
          Append(@, [c |-> c, x |-> pen.cursor.x, y |-> pen.cursor.y,
                     fg |-> pen.cursor.fg, bold |-> pen.bold])]

newline(pen) ==
  set_cursor([pen EXCEPT !.x = FontWidth, !.y = @ + FontHeight, !.position = 0],
             FontWidth, pen.y + FontHeight)

carriage_return(pen) ==
  set_cursor([pen EXCEPT !.x = FontWidth, !.position = 0], FontWidth, pen.y)

tabulator(pen) ==
  set_cursor([pen EXCEPT !.x = @ + FontWidth * 8], pen.x + FontWidth * 8, pen.y)

character(pen, c) ==
  [write_char(set_cursor(pen, pen.x + FontWidth * pen.position, pen.y), c)
     EXCEPT !.position = @ + 1]

\* Takes a colour only at the next newline.
put_LateColour(pen, t) ==
  IF ~pen.ok THEN pen ELSE
  CASE t = "NL" -> newline(pen)
    [] t \in Colours -> [pen EXCEPT !.fg = t]
    [] t \in Controls \ (Colours \union {"NL"}) -> pen
    [] OTHER -> [write_char([pen EXCEPT !.cursor.x = pen.x + FontWidth * pen.position], t)
                   EXCEPT !.position = @ + 1]

\* One turn of write_str's loop: t is the next token.
put(pen, t) ==
  IF ~pen.ok THEN pen ELSE
  CASE t = "NL" -> newline(pen)
    [] t = "CR" -> carriage_return(pen)
    [] t = "TAB" -> tabulator(pen)
    [] t = "BOLD" -> [pen EXCEPT !.bold = TRUE]
    [] t = "NORMAL" -> [pen EXCEPT !.bold = FALSE]
    [] t \in Colours -> [pen EXCEPT !.fg = t]
    [] OTHER -> character(pen, t)

\* The pen after every turn.
Pens(start, string) ==
  LET pen[n \in 0..Len(string)] ==
        IF n = 0 THEN start ELSE put(pen[n - 1], string[n])
  IN  pen

\* The cursor stays on the last character: set_cursor comes before write_char.
write_str(s, string) ==
  LET start == [x |-> s.cursor.x, y |-> s.cursor.y, fg |-> s.cursor.fg, position |-> 0,
                cursor |-> s.cursor, bold |-> s.bold, glyphs |-> s.glyphs, ok |-> s.ok]
      end == Pens(start, string)[Len(string)]
  IN  [cursor |-> end.cursor, bold |-> end.bold, glyphs |-> end.glyphs,
       written |-> IF s.ok THEN Append(s.written, string) ELSE s.written,
       ok |-> end.ok]

writeln(s, string) == write_str(s, string \o <<"NL">>)

\* Starts a row too high.
clear_High(s) ==
  [s EXCEPT !.cursor = [x |-> 8, y |-> 16, fg |-> "DEFAULT"],
            !.glyphs = <<>>, !.written = <<>>]

\* Blackens the screen; the font stays.
clear(s) ==
  [s EXCEPT !.cursor = [x |-> 8, y |-> 24, fg |-> "DEFAULT"],
            !.glyphs = <<>>, !.written = <<>>]

Show(s) ==
  /\ cursor' = s.cursor
  /\ bold' = s.bold
  /\ glyphs' = s.glyphs
  /\ written' = s.written

-----------------------------------------------------------------------------
(***************************************************************************)
(* The writers.                                                            *)
(***************************************************************************)

\* VGA_CONSOLE's initialisation: clear, and the cursor set where it is.
new_console(s) == clear(s)

\* Shell::display
display(s) == write_str(writeln(s, Motd), Prompt)

\* Keyboard::interpret, for the Enter key
interpret ==
  /\ state = "running" /\ keys < MaxKeys /\ Len(logs) < MaxLogs
  /\ LET s == display(IF console THEN screen ELSE new_console(screen)) IN
     /\ Show(s)
     /\ state' = IF s.ok THEN "running" ELSE "stuck"
  /\ keys' = keys + 1
  /\ console' = TRUE
  /\ logs' = Append(logs, KeyLog)

\* Anybody else logs a line; nothing is written.
log(line) ==
  /\ state = "running" /\ Len(logs) < MaxLogs
  /\ logs' = Append(logs, line)
  /\ UNCHANGED <<cursor, bold, glyphs, written, console, keys, state>>

\* The panic handler's loop: the screen after every line.
Screens(start, lines) ==
  LET shown[n \in 0..Len(lines)] ==
        IF n = 0 THEN start ELSE writeln(shown[n - 1], lines[n])
  IN  shown

PanicHeader == <<"BOLD", "RED", "[", "P", "]", "NORMAL", "NL">>

\* The panic handler: the header, and then every log line with the fatal one.
\* A panic in here finds VGA locked.
panic ==
  /\ state = "running"
  /\ logs' = Append(logs, FatalLog)
  /\ LET s == Screens(writeln(clear(screen), PanicHeader), logs')[Len(logs')]
     IN  Show(s) /\ state' = IF s.ok THEN "panicked" ELSE "stuck"
  /\ UNCHANGED <<console, keys>>

\* The intro screen has been drawn; its text is layout and left out.
Init ==
  /\ cursor = [x |-> Width \div 2, y |-> Height - Height \div 4, fg |-> "DEFAULT"]
  /\ bold = FALSE
  /\ glyphs = <<>> /\ written = <<>>
  /\ console = FALSE
  /\ logs = <<>> /\ keys = 0
  /\ state = "running"

Next == interpret \/ (\E line \in Logs : log(line)) \/ panic

Spec == Init /\ [][Next]_vars

-----------------------------------------------------------------------------
(***************************************************************************)
(* Properties. The reference reads the strings written since the screen    *)
(* was cleared as one text, the way a terminal does.                       *)
(***************************************************************************)

Text == FlattenSeq(written)
Chars(text, n) == Cardinality({k \in 1..n : text[k] \notin Undrawn})
Lines(text, n) == Cardinality({k \in 1..n : text[k] = "NL"})
Latest(text, n, tokens, default) ==
  LET K == {k \in 1..n : text[k] \in tokens}
  IN  IF K = {} THEN default ELSE text[Max(K)]

\* The glyph of the k-th token of a text, but for its column
IsGlyph(g, text, k) ==
  LET colour == Latest(text, k, Colours \union {"NORMAL"}, "DEFAULT")
  IN  /\ g.c = text[k]
      /\ g.y = 24 + FontHeight * Lines(text, k)
      /\ g.fg = IF colour = "NORMAL" THEN "DEFAULT" ELSE colour
      /\ g.bold = (Latest(text, k, {"BOLD", "NORMAL"}, "NORMAL") = "BOLD")

\* Although every write starts from what the last one left in the cursor, the
\* screen shows the text as a terminal would: every character of the font in
\* its row, in its colour and in its weight, where NORMAL also ends a colour.
\* A write that does not end its line leaves the cursor on its last character,
\* where the next one starts: nothing but blanks is overwritten so.
ShowsText ==
  state # "stuck" =>
    /\ Len(glyphs) = Chars(Text, Len(Text))
    /\ \A k \in 1..Len(Text) :
         Text[k] \notin Undrawn => IsGlyph(glyphs[Chars(Text, k)], Text, k)
    /\ \A i, j \in 1..Len(glyphs) :
         i < j /\ glyphs[i].x = glyphs[j].x /\ glyphs[i].y = glyphs[j].y
           => glyphs[i].c = " "

\* The rows that fit below the top margin
Capacity == (Height - 4 - 24) \div FontHeight + 1
OffScreen(g) == g.y - 12 < 0 \/ g.y + 3 >= Height \/ g.x + FontWidth > Width

\* Nothing scrolls: text is drawn outside the screen, and so outside the
\* framebuffer, as soon as there are more rows than fit, and never before.
OffScreenIffFull ==
  (\E i \in 1..Len(glyphs) : OffScreen(glyphs[i]))
    <=> (\E k \in 1..Len(Text) :
           /\ Text[k] \notin Undrawn /\ Chars(Text, k) <= Len(glyphs)
           /\ Lines(Text, k) >= Capacity)

\* After a panic, either the screen shows every line that was ever logged, the
\* fatal one included, or the handler hangs; and it hangs if and only if one
\* of them, however old, holds a character from U+0101 on, which write_char
\* has no slice for.
PanicShowsEveryLog ==
  /\ state = "panicked" =>
       \A i \in 1..Len(logs) : \E j \in 1..Len(written) : written[j] = logs[i] \o <<"NL">>
  /\ state # "running" =>
       (state = "stuck" <=> \E i \in 1..Len(logs) : Contains(logs[i], "WIDE"))

=============================================================================
