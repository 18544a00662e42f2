------------------------------ MODULE VgaProofs ------------------------------
(***************************************************************************)
(* Proofs about Vga, for every screen, whatever the lines that are logged  *)
(* and the number of times the console is shown.                           *)
(*                                                                         *)
(* The text is read one token at a time, as write_str does: after every    *)
(* turn of its loop the glyphs are those of the characters so far (Drawn), *)
(* the pen is in the row where a terminal would write next, and everything *)
(* in that row lies behind it (Follows). Between two writes only the       *)
(* cursor is left of the pen (Shown).                                      *)
(***************************************************************************)
EXTENDS Vga, CommonLemmas, FiniteSetTheorems

-----------------------------------------------------------------------------
(***************************************************************************)
(* The pen.                                                                *)
(***************************************************************************)

\* The strings that are written, and what they consist of
Strings == {Motd, Prompt, KeyLog, FatalLog, PanicHeader} \cup Logs
Token == Controls \cup UNION {Range(s) : s \in Strings}

Glyph == [c : Token, x : Nat, y : Nat, fg : Colours, bold : BOOLEAN]
Cursor == [x : Nat, y : Nat, fg : Colours]
Pen == [x : Nat, y : Nat, fg : Colours, position : Nat, cursor : Cursor,
        bold : BOOLEAN, glyphs : Seq(Glyph), ok : BOOLEAN]

SetTo(p, pen, x, y) ==
  /\ p \in Pen /\ p.cursor = [x |-> x, y |-> y, fg |-> pen.fg]
  /\ p.x = pen.x /\ p.y = pen.y /\ p.fg = pen.fg /\ p.position = pen.position
  /\ p.bold = pen.bold /\ p.glyphs = pen.glyphs /\ p.ok = pen.ok

\* The cursor is set to a place in the row of the pen.
LEMMA CursorSet ==
  ASSUME NEW pen \in Pen, NEW x \in Nat, NEW y \in Nat
  PROVE  SetTo(set_cursor(pen, x, y), pen, x, y)
BY DEF set_cursor, Pen, Cursor, SetTo

\* What one turn of the loop does to a pen that still writes
Turned(pen, next, t) ==
  /\ next \in Pen
  /\ t = "NL" =>
       /\ next.x = 8 /\ next.y = pen.y + 16 /\ next.position = 0 /\ next.ok
       /\ next.cursor = [x |-> 8, y |-> pen.y + 16, fg |-> pen.fg]
       /\ next.fg = pen.fg /\ next.bold = pen.bold /\ next.glyphs = pen.glyphs
  /\ t = "TAB" =>
       /\ next.x = pen.x + 64 /\ next.y = pen.y /\ next.position = pen.position /\ next.ok
       /\ next.cursor = [x |-> pen.x + 64, y |-> pen.y, fg |-> pen.fg]
       /\ next.fg = pen.fg /\ next.bold = pen.bold /\ next.glyphs = pen.glyphs
  /\ t \in Colours \cup {"BOLD", "NORMAL"} =>
       /\ next.x = pen.x /\ next.y = pen.y /\ next.position = pen.position /\ next.ok
       /\ next.cursor = pen.cursor /\ next.glyphs = pen.glyphs
       /\ next.fg = IF t \in Colours THEN t ELSE pen.fg
       /\ next.bold = IF t \in Colours THEN pen.bold ELSE t = "BOLD"
  /\ t = "U+0100" =>
       /\ next.x = pen.x /\ next.y = pen.y /\ next.position = pen.position + 1 /\ next.ok
       /\ next.cursor = [x |-> pen.x + 8 * pen.position, y |-> pen.y, fg |-> pen.fg]
       /\ next.fg = pen.fg /\ next.bold = pen.bold /\ next.glyphs = pen.glyphs
  /\ t \notin Undrawn =>
       /\ next.x = pen.x /\ next.y = pen.y /\ next.position = pen.position + 1
       /\ next.cursor = [x |-> pen.x + 8 * pen.position, y |-> pen.y, fg |-> pen.fg]
       /\ next.fg = pen.fg /\ next.bold = pen.bold
       /\ IF t = "WIDE" \/ pen.y < 12
            THEN ~next.ok /\ next.glyphs = pen.glyphs
            ELSE /\ next.ok
                 /\ next.glyphs = Append(pen.glyphs,
                      [c |-> t, x |-> pen.x + 8 * pen.position, y |-> pen.y,
                       fg |-> pen.fg, bold |-> pen.bold])

\* The controls are what they are called.
LEMMA ControlNames ==
  /\ {"NL", "CR", "TAB", "BOLD", "NORMAL"} \cap Colours = {}
  /\ Controls = Colours \cup {"NL", "CR", "TAB", "BOLD", "NORMAL"}
  /\ Undrawn = Controls \cup {"U+0100"}
  /\ {"U+0100", "WIDE"} \cap Controls = {}
BY DEF Colours, Controls, Undrawn

\* What put does, by token.
LEMMA PutIs ==
  ASSUME NEW pen, NEW t, pen.ok
  PROVE  /\ t = "NL" => put(pen, t) = newline(pen)
         /\ t = "TAB" => put(pen, t) = tabulator(pen)
         /\ t = "BOLD" => put(pen, t) = [pen EXCEPT !.bold = TRUE]
         /\ t = "NORMAL" => put(pen, t) = [pen EXCEPT !.bold = FALSE]
         /\ t \in Colours => put(pen, t) = [pen EXCEPT !.fg = t]
         /\ t \notin Controls => put(pen, t) = character(pen, t)
BY ControlNames DEF put

\* A turn of the loop, field by field.
LEMMA PutTurns ==
  ASSUME NEW pen \in Pen, NEW t \in Token, pen.ok, t # "CR"
  PROVE  Turned(pen, put(pen, t), t)
<1>0. FontWidth = 8 /\ FontHeight = 16
  BY DEF FontWidth, FontHeight, GlyphSize
<1> USE <1>0
<1>1. CASE t = "NL"
  <2>1. PICK y, p : y = pen.y + 16 /\ p = [pen EXCEPT !.x = 8, !.y = y, !.position = 0]
    OBVIOUS
  <2>2. y \in Nat /\ 8 \in Nat
    BY <2>1 DEF Pen
  <2>3. /\ p \in Pen /\ p.x = 8 /\ p.y = y /\ p.position = 0 /\ p.fg = pen.fg
        /\ p.bold = pen.bold /\ p.glyphs = pen.glyphs /\ p.ok = pen.ok
    BY <2>1, <2>2 DEF Pen
  <2>4. put(pen, t) = set_cursor(p, 8, y)
    BY <1>1, <2>1, PutIs DEF newline
  <2>5. SetTo(put(pen, t), p, 8, y)
    BY <2>2, <2>3, <2>4, CursorSet
  <2> QED
    BY <1>1, <2>1, <2>3, <2>5, ControlNames DEF Turned, SetTo
<1>2. CASE t = "TAB"
  <2>1. PICK x, p : x = pen.x + 64 /\ p = [pen EXCEPT !.x = x]
    OBVIOUS
  <2>2. x \in Nat /\ pen.y \in Nat
    BY <2>1 DEF Pen
  <2>3. /\ p \in Pen /\ p.x = x /\ p.y = pen.y /\ p.position = pen.position /\ p.fg = pen.fg
        /\ p.bold = pen.bold /\ p.glyphs = pen.glyphs /\ p.ok = pen.ok
    BY <2>1, <2>2 DEF Pen
  <2>4. put(pen, t) = set_cursor(p, x, pen.y)
    BY <1>2, <2>1, PutIs DEF tabulator
  <2>5. SetTo(put(pen, t), p, x, pen.y)
    BY <2>2, <2>3, <2>4, CursorSet
  <2> QED
    BY <1>2, <2>1, <2>3, <2>5, ControlNames DEF Turned, SetTo
<1>3. CASE t \in Colours \cup {"BOLD", "NORMAL"}
  <2>1. CASE t = "BOLD"
    <3>1. put(pen, t) = [pen EXCEPT !.bold = TRUE]
      BY <2>1, PutIs
    <3> QED
      BY <2>1, <3>1, ControlNames DEF Turned, Pen
  <2>2. CASE t = "NORMAL"
    <3>1. put(pen, t) = [pen EXCEPT !.bold = FALSE]
      BY <2>2, PutIs
    <3> QED
      BY <2>2, <3>1, ControlNames DEF Turned, Pen
  <2>3. CASE t \in Colours
    <3>1. put(pen, t) = [pen EXCEPT !.fg = t]
      BY <2>3, PutIs
    <3> QED
      BY <2>3, <3>1, ControlNames DEF Turned, Pen
  <2> QED
    BY <1>3, <2>1, <2>2, <2>3
<1>4. CASE t \notin Controls
  <2>1. PICK x : x = pen.x + 8 * pen.position
    OBVIOUS
  <2>2. x \in Nat /\ pen.y \in Nat /\ pen.fg \in Colours /\ pen.bold \in BOOLEAN
        /\ pen.position \in Nat /\ pen.glyphs \in Seq(Glyph)
    BY <2>1 DEF Pen
  <2>3. PICK p : p = set_cursor(pen, x, pen.y)
    OBVIOUS
  <2>4. SetTo(p, pen, x, pen.y)
    BY <2>2, <2>3, CursorSet
  <2>5. put(pen, t) = [write_char(p, t) EXCEPT !.position = @ + 1]
    BY <1>4, <2>1, <2>3, PutIs DEF character
  <2>6. p.cursor.x = x /\ p.cursor.y = pen.y /\ p.cursor.fg = pen.fg /\ p.position + 1 \in Nat
    BY <2>2, <2>4 DEF SetTo
  <2>7. PICK g, n : /\ g = [c |-> t, x |-> x, y |-> pen.y, fg |-> pen.fg, bold |-> pen.bold]
                    /\ n = p.position + 1
    OBVIOUS
  <2>8. g \in Glyph /\ n \in Nat
    BY <2>2, <2>6, <2>7 DEF Glyph
  <2>9. CASE t # "U+0100" /\ (t = "WIDE" \/ pen.y < 12)
    <3>1. write_char(p, t) = [p EXCEPT !.ok = FALSE]
      BY <2>6, <2>9 DEF write_char
    <3>2. PICK q : q = [p EXCEPT !.ok = FALSE]
      OBVIOUS
    <3>3. q \in Pen /\ ~q.ok /\ q.position = p.position /\ q.x = p.x /\ q.y = p.y /\ q.fg = p.fg
          /\ q.bold = p.bold /\ q.cursor = p.cursor /\ q.glyphs = p.glyphs
      BY <2>4, <3>2 DEF Pen, SetTo
    <3>4. put(pen, t) = [q EXCEPT !.position = n]
      BY <2>5, <2>7, <3>1, <3>2, <3>3
    <3>5. /\ put(pen, t) \in Pen /\ ~put(pen, t).ok /\ put(pen, t).position = n
          /\ put(pen, t).x = q.x /\ put(pen, t).y = q.y /\ put(pen, t).fg = q.fg
          /\ put(pen, t).bold = q.bold /\ put(pen, t).cursor = q.cursor
          /\ put(pen, t).glyphs = q.glyphs
      BY <2>8, <3>3, <3>4 DEF Pen
    <3> QED
      BY <1>4, <2>1, <2>4, <2>7, <2>9, <3>3, <3>5, ControlNames DEF Turned, SetTo
  <2>10. CASE t # "U+0100" /\ ~(t = "WIDE" \/ pen.y < 12)
    <3>1. write_char(p, t) = [p EXCEPT !.glyphs = Append(@, g)]
      BY <2>4, <2>6, <2>7, <2>10 DEF write_char, SetTo
    <3>2. PICK q, gs : gs = Append(p.glyphs, g) /\ q = [p EXCEPT !.glyphs = gs]
      OBVIOUS
    <3>3. gs \in Seq(Glyph)
      BY <2>2, <2>4, <2>8, <3>2 DEF SetTo
    <3>4. q \in Pen /\ q.ok = p.ok /\ q.position = p.position /\ q.x = p.x /\ q.y = p.y /\ q.fg = p.fg
          /\ q.bold = p.bold /\ q.cursor = p.cursor /\ q.glyphs = gs
      BY <2>4, <3>2, <3>3 DEF Pen, SetTo
    <3>5. put(pen, t) = [q EXCEPT !.position = n]
      BY <2>5, <2>7, <3>1, <3>2, <3>4
    <3>6. /\ put(pen, t) \in Pen /\ put(pen, t).ok = q.ok /\ put(pen, t).position = n
          /\ put(pen, t).x = q.x /\ put(pen, t).y = q.y /\ put(pen, t).fg = q.fg
          /\ put(pen, t).bold = q.bold /\ put(pen, t).cursor = q.cursor
          /\ put(pen, t).glyphs = q.glyphs
      BY <2>8, <3>4, <3>5 DEF Pen
    <3> QED
      BY <1>4, <2>1, <2>4, <2>7, <2>10, <3>2, <3>4, <3>6, ControlNames DEF Turned, SetTo
  <2>11. CASE t = "U+0100"
    <3>1. write_char(p, t) = p
      BY <2>11 DEF write_char
    <3>2. put(pen, t) = [p EXCEPT !.position = n]
      BY <2>4, <2>5, <2>7, <3>1 DEF SetTo, Pen
    <3>3. /\ put(pen, t) \in Pen /\ put(pen, t).ok = p.ok /\ put(pen, t).position = n
          /\ put(pen, t).x = p.x /\ put(pen, t).y = p.y /\ put(pen, t).fg = p.fg
          /\ put(pen, t).bold = p.bold /\ put(pen, t).cursor = p.cursor
          /\ put(pen, t).glyphs = p.glyphs
      BY <2>4, <2>8, <3>2 DEF Pen, SetTo
    <3> QED
      BY <1>4, <2>1, <2>4, <2>7, <2>11, <3>3, ControlNames DEF Turned, SetTo
  <2> QED
    BY <2>9, <2>10, <2>11
<1> QED
  BY <1>1, <1>2, <1>3, <1>4, ControlNames

-----------------------------------------------------------------------------
(***************************************************************************)
(* Reading a text token by token.                                          *)
(***************************************************************************)

UpTo(P, n) == {k \in 1..n : k \in P}

\* Counting the members of a set up to n
LEMMA CountNext ==
  ASSUME NEW P, NEW n \in Nat
  PROVE  /\ IsFiniteSet(UpTo(P, n)) /\ Cardinality(UpTo(P, n)) \in Nat
         /\ n + 1 \in P => Cardinality(UpTo(P, n + 1)) = Cardinality(UpTo(P, n)) + 1
         /\ n + 1 \notin P => Cardinality(UpTo(P, n + 1)) = Cardinality(UpTo(P, n))
         /\ Cardinality(UpTo(P, 0)) = 0
<1>1. IsFiniteSet(UpTo(P, n))
  <2>1. IsFiniteSet(1..n) /\ UpTo(P, n) \in SUBSET (1..n)
    BY FS_Interval DEF UpTo
  <2> QED
    BY <2>1, FS_Subset
<1>2. n + 1 \in P => UpTo(P, n + 1) = UpTo(P, n) \cup {n + 1}
  BY DEF UpTo
<1>3. n + 1 \notin P => UpTo(P, n + 1) = UpTo(P, n)
  BY DEF UpTo
<1>4. n + 1 \notin UpTo(P, n) /\ UpTo(P, 0) = {}
  BY DEF UpTo
<1>5. Cardinality(UpTo(P, n)) \in Nat /\ Cardinality(UpTo(P, 0)) = 0
  BY <1>1, <1>4, FS_CardinalityType, FS_EmptySet
<1>6. PICK A : A = UpTo(P, n)
  OBVIOUS
<1>7. Cardinality(A \cup {n + 1}) = Cardinality(A) + 1
  BY <1>1, <1>4, <1>6, FS_AddElement
<1> QED
  BY <1>1, <1>2, <1>3, <1>5, <1>6, <1>7

\* Counts only grow.
LEMMA CountGrows ==
  ASSUME NEW P, NEW m \in Nat, NEW n \in Nat, m <= n
  PROVE  Cardinality(UpTo(P, m)) <= Cardinality(UpTo(P, n))
<1>1. UpTo(P, m) \in SUBSET UpTo(P, n)
  BY DEF UpTo
<1> QED
  BY <1>1, CountNext, FS_Subset

\* The characters and the lines of a text
LEMMA Counts ==
  ASSUME NEW T, NEW n \in Nat
  PROVE  /\ Chars(T, n) \in Nat /\ Lines(T, n) \in Nat
         /\ Chars(T, n + 1) = Chars(T, n) + (IF T[n + 1] \in Undrawn THEN 0 ELSE 1)
         /\ Lines(T, n + 1) = Lines(T, n) + (IF T[n + 1] = "NL" THEN 1 ELSE 0)
         /\ Chars(T, 0) = 0 /\ Lines(T, 0) = 0
         /\ \A m \in 0..n : Chars(T, m) <= Chars(T, n)
<1>1. PICK P, Q : P = {k \in Nat : T[k] \notin Undrawn} /\ Q = {k \in Nat : T[k] = "NL"}
  OBVIOUS
<1>2. ASSUME NEW m \in Nat
      PROVE  Chars(T, m) = Cardinality(UpTo(P, m)) /\ Lines(T, m) = Cardinality(UpTo(Q, m))
  <2>1. /\ {k \in 1..m : T[k] \notin Undrawn} = UpTo(P, m)
        /\ {k \in 1..m : T[k] = "NL"} = UpTo(Q, m)
    BY <1>1 DEF UpTo
  <2> QED
    BY <2>1 DEF Chars, Lines
<1>3. /\ n + 1 \in Nat /\ 0 \in Nat
      /\ n + 1 \in P <=> T[n + 1] \notin Undrawn
      /\ n + 1 \in Q <=> T[n + 1] = "NL"
  BY <1>1
<1>4. ASSUME NEW m \in 0..n PROVE Chars(T, m) <= Chars(T, n)
  <2>1. m \in Nat /\ m <= n
    OBVIOUS
  <2> QED
    BY <1>2, <2>1, CountGrows
<1>5. Chars(T, n) \in Nat /\ Lines(T, n) \in Nat /\ Chars(T, 0) = 0 /\ Lines(T, 0) = 0
  BY <1>2, <1>3, CountNext
<1>6. Chars(T, n + 1) = Chars(T, n) + (IF T[n + 1] \in Undrawn THEN 0 ELSE 1)
  <2>1. PICK b : b = Cardinality(UpTo(P, n)) /\ b \in Nat
    BY CountNext
  <2>2. Cardinality(UpTo(P, n + 1)) = IF T[n + 1] \in Undrawn THEN b ELSE b + 1
    BY <1>3, <2>1, CountNext
  <2> QED
    BY <1>2, <1>3, <2>1, <2>2
<1>7. Lines(T, n + 1) = Lines(T, n) + (IF T[n + 1] = "NL" THEN 1 ELSE 0)
  <2>1. PICK b : b = Cardinality(UpTo(Q, n)) /\ b \in Nat
    BY CountNext
  <2>2. Cardinality(UpTo(Q, n + 1)) = IF T[n + 1] = "NL" THEN b + 1 ELSE b
    BY <1>3, <2>1, CountNext
  <2> QED
    BY <1>2, <1>3, <2>1, <2>2
<1> QED
  BY <1>4, <1>5, <1>6, <1>7

\* The last token of some kind
LEMMA LatestNext ==
  ASSUME NEW T, NEW n \in Nat, NEW tokens, NEW default
  PROVE  /\ Latest(T, 0, tokens, default) = default
         /\ T[n + 1] \in tokens => Latest(T, n + 1, tokens, default) = T[n + 1]
         /\ T[n + 1] \notin tokens =>
              Latest(T, n + 1, tokens, default) = Latest(T, n, tokens, default)
<1>1. PICK K, J : K = {k \in 1..n : T[k] \in tokens} /\ J = {k \in 1..n + 1 : T[k] \in tokens}
  OBVIOUS
<1>2. CASE T[n + 1] \in tokens
  <2>1. n + 1 \in J /\ \A y \in J : y \in Nat /\ y <= n + 1
    BY <1>1, <1>2
  <2>2. \E x \in J : \A y \in J : x >= y
    BY <2>1
  <2>3. Max(J) \in J /\ \A y \in J : Max(J) >= y
    BY <2>2 DEF Max
  <2>4. Max(J) = n + 1
    BY <2>1, <2>3
  <2> QED
    BY <1>1, <1>2, <2>1, <2>4 DEF Latest
<1>3. CASE T[n + 1] \notin tokens
  <2>1. J = K
    BY <1>1, <1>3
  <2> QED
    BY <1>1, <1>3, <2>1 DEF Latest
<1>4. {k \in 1..0 : T[k] \in tokens} = {}
  OBVIOUS
<1>5. Latest(T, 0, tokens, default) = default
  BY <1>4 DEF Latest
<1> QED
  BY <1>2, <1>3, <1>5

\* What is read of a text up to n depends on nothing behind.
LEMMA SameReading ==
  ASSUME NEW T, NEW U, NEW n \in Nat, \A k \in 1..n : T[k] = U[k]
  PROVE  /\ \A m \in 0..n : Chars(T, m) = Chars(U, m) /\ Lines(T, m) = Lines(U, m)
         /\ \A m \in 0..n : \A tokens, default :
              Latest(T, m, tokens, default) = Latest(U, m, tokens, default)
<1>1. ASSUME NEW m \in 0..n PROVE Chars(T, m) = Chars(U, m) /\ Lines(T, m) = Lines(U, m)
  <2>1. /\ {k \in 1..m : T[k] \notin Undrawn} = {k \in 1..m : U[k] \notin Undrawn}
        /\ {k \in 1..m : T[k] = "NL"} = {k \in 1..m : U[k] = "NL"}
    OBVIOUS
  <2> QED
    BY <2>1 DEF Chars, Lines
<1>2. ASSUME NEW m \in 0..n, NEW tokens, NEW default
      PROVE  Latest(T, m, tokens, default) = Latest(U, m, tokens, default)
  <2>1. PICK K : K = {k \in 1..m : T[k] \in tokens}
    OBVIOUS
  <2>2. K = {k \in 1..m : U[k] \in tokens} /\ K \subseteq 1..n
    BY <2>1
  <2>3. ASSUME K # {} PROVE Max(K) \in K
    <3>1. \E x \in K : \A y \in K : x >= y
      <4>1. PICK N : N = {m - k : k \in K}
        OBVIOUS
      <4>2. N \subseteq Nat /\ N # {}
        BY <2>1, <2>3, <4>1
      <4>3. PICK a \in N : \A b \in N : a <= b
        BY <4>2, NatLeast
      <4>4. PICK x \in K : a = m - x
        BY <4>1
      <4>5. ASSUME NEW y \in K PROVE x >= y
        <5>1. a <= m - y /\ x \in Nat /\ y \in Nat
          BY <2>1, <4>1, <4>3
        <5> QED
          BY <4>4, <5>1
      <4> QED
        BY <4>5
    <3> QED
      BY <3>1 DEF Max
  <2>4. K # {} => T[Max(K)] = U[Max(K)]
    BY <2>2, <2>3
  <2> QED
    BY <2>1, <2>2, <2>4 DEF Latest
<1> QED
  BY <1>1, <1>2

\* The colour and the weight of what comes next, as a terminal has them
Hue(T) == Latest(T, Len(T), Colours \cup {"NORMAL"}, "DEFAULT")
Weight(T) == (Latest(T, Len(T), {"BOLD", "NORMAL"}, "NORMAL") = "BOLD")

\* The glyphs are those of the first characters of the text.
Drawn(g, T) ==
  /\ Len(g) <= Chars(T, Len(T))
  /\ \A k \in 1..Len(T) :
       T[k] \notin Undrawn /\ Chars(T, k) <= Len(g) => IsGlyph(g[Chars(T, k)], T, k)
  /\ \A i \in 1..Len(g) : \E k \in 1..Len(T) : T[k] \notin Undrawn /\ Chars(T, k) = i

Gap == " "

\* Only blanks are overwritten.
Apart(g) ==
  \A i, j \in 1..Len(g) : i < j /\ g[i].x = g[j].x /\ g[i].y = g[j].y => g[i].c = Gap

\* The pen is where the text ends, and everything drawn lies behind it; but
\* what it draws first may cover a blank.
Passed(g, pen) ==
  g.x < pen.x + 8 * pen.position \/ (pen.position = 0 /\ g.x = pen.x /\ g.c = Gap)
Follows(pen, T) ==
  /\ pen.ok
  /\ Len(pen.glyphs) = Chars(T, Len(T))
  /\ pen.y = 24 + 16 * Lines(T, Len(T)) /\ pen.cursor.y = pen.y
  /\ \A i \in 1..Len(pen.glyphs) :
       pen.glyphs[i].y <= pen.y /\ (pen.glyphs[i].y = pen.y => Passed(pen.glyphs[i], pen))

\* A token more.
Extends(U, T, t) ==
  /\ T \in Seq(Token) /\ U \in Seq(Token) /\ Len(T) \in Nat /\ Len(U) = Len(T) + 1
  /\ U[Len(T) + 1] = t /\ \A k \in 1..Len(T) : U[k] = T[k]

\* What is read of the longer text
LEMMA ReadsOn ==
  ASSUME NEW T, NEW U, NEW t, Extends(U, T, t)
  PROVE  /\ Chars(T, Len(T)) \in Nat /\ Lines(T, Len(T)) \in Nat
         /\ Chars(U, Len(U)) = Chars(T, Len(T)) + (IF t \in Undrawn THEN 0 ELSE 1)
         /\ Lines(U, Len(U)) = Lines(T, Len(T)) + (IF t = "NL" THEN 1 ELSE 0)
         /\ Hue(U) = IF t \in Colours \cup {"NORMAL"} THEN t ELSE Hue(T)
         /\ Weight(U) = IF t \in {"BOLD", "NORMAL"} THEN t = "BOLD" ELSE Weight(T)
         /\ \A k \in 1..Len(T) :
              /\ Chars(U, k) = Chars(T, k) /\ Chars(T, k) \in Nat /\ Chars(T, k) <= Chars(T, Len(T))
              /\ \A g : IsGlyph(g, U, k) <=> IsGlyph(g, T, k)
<1>1. PICK n : n = Len(T)
  OBVIOUS
<1>2. n \in Nat /\ n + 1 = Len(U) /\ U[n + 1] = t /\ \A k \in 1..n : U[k] = T[k]
  BY <1>1 DEF Extends
<1>3. /\ \A m \in 0..n : Chars(U, m) = Chars(T, m) /\ Lines(U, m) = Lines(T, m)
      /\ \A m \in 0..n : \A tokens, default :
           Latest(U, m, tokens, default) = Latest(T, m, tokens, default)
  BY <1>2, SameReading
<1>4. /\ Chars(U, n) = Chars(T, n) /\ Lines(U, n) = Lines(T, n)
      /\ \A tokens, default : Latest(U, n, tokens, default) = Latest(T, n, tokens, default)
  <2>1. n \in 0..n
    BY <1>2
  <2> QED
    BY <1>3, <2>1
<1>5. ASSUME NEW k \in 1..n
      PROVE  /\ Chars(U, k) = Chars(T, k) /\ Chars(T, k) \in Nat /\ Chars(T, k) <= Chars(T, n)
             /\ \A g : IsGlyph(g, U, k) <=> IsGlyph(g, T, k)
  <2>1. k \in 0..n /\ k \in Nat /\ U[k] = T[k]
    BY <1>2
  <2>2. Chars(T, k) \in Nat /\ Chars(T, k) <= Chars(T, n)
    BY <1>2, <2>1, Counts
  <2> QED
    BY <1>3, <2>1, <2>2 DEF IsGlyph
<1>6. /\ Chars(U, n + 1) = Chars(T, n) + (IF t \in Undrawn THEN 0 ELSE 1)
      /\ Lines(U, n + 1) = Lines(T, n) + (IF t = "NL" THEN 1 ELSE 0)
      /\ Chars(T, n) \in Nat /\ Lines(T, n) \in Nat
  <2>1. /\ Chars(U, n + 1) = Chars(U, n) + (IF U[n + 1] \in Undrawn THEN 0 ELSE 1)
        /\ Lines(U, n + 1) = Lines(U, n) + (IF U[n + 1] = "NL" THEN 1 ELSE 0)
        /\ Chars(T, n) \in Nat /\ Lines(T, n) \in Nat
    BY <1>2, Counts, Zenon
  <2> QED
    BY <1>2, <1>4, <2>1, Zenon
<1>7. \A tokens, default : Latest(U, n + 1, tokens, default) =
        IF t \in tokens THEN t ELSE Latest(T, n, tokens, default)
  <2> TAKE tokens, default
  <2>1. n \in Nat
    BY <1>2
  <2>2. /\ U[n + 1] \in tokens => Latest(U, n + 1, tokens, default) = U[n + 1]
        /\ U[n + 1] \notin tokens =>
             Latest(U, n + 1, tokens, default) = Latest(U, n, tokens, default)
    BY <2>1, LatestNext
  <2> QED
    BY <1>2, <1>4, <2>2, Zenon
<1>8. Hue(U) = IF t \in Colours \cup {"NORMAL"} THEN t ELSE Hue(T)
  BY <1>1, <1>2, <1>7 DEF Hue
<1>9. Weight(U) = IF t \in {"BOLD", "NORMAL"} THEN t = "BOLD" ELSE Weight(T)
  BY <1>1, <1>2, <1>7 DEF Weight
<1> QED
  BY <1>1, <1>2, <1>5, <1>6, <1>8, <1>9

\* Nothing is drawn for the token, or the drawing has stopped.
LEMMA DrawnStill ==
  ASSUME NEW T, NEW U, NEW t, Extends(U, T, t), NEW g \in Seq(Glyph), Drawn(g, T)
  PROVE  Drawn(g, U)
<1>1. Len(g) \in Nat /\ Len(g) <= Chars(T, Len(T))
  BY DEF Drawn
<1>2. Len(g) <= Chars(U, Len(U))
  BY <1>1, ReadsOn
<1>3. ASSUME NEW k \in 1..Len(U), U[k] \notin Undrawn, Chars(U, k) <= Len(g)
      PROVE  IsGlyph(g[Chars(U, k)], U, k)
  <2>1. CASE k \in 1..Len(T)
    <3>1. IsGlyph(g[Chars(T, k)], T, k)
      BY <1>3, <2>1, ReadsOn DEF Drawn, Extends
    <3> QED
      BY <2>1, <3>1, ReadsOn
  <2>2. CASE k = Len(U)
    <3>1. t \notin Undrawn
      BY <1>3, <2>2 DEF Extends
    <3>2. Chars(U, k) = Chars(T, Len(T)) + 1 /\ Chars(T, Len(T)) \in Nat
      BY <2>2, <3>1, ReadsOn
    <3> QED
      BY <1>1, <1>3, <3>2
  <2> QED
    BY <2>1, <2>2 DEF Extends
<1>4. ASSUME NEW i \in 1..Len(g) PROVE \E k \in 1..Len(U) : U[k] \notin Undrawn /\ Chars(U, k) = i
  <2>1. PICK k \in 1..Len(T) : T[k] \notin Undrawn /\ Chars(T, k) = i
    BY DEF Drawn
  <2>2. k \in 1..Len(U) /\ U[k] = T[k] /\ Chars(U, k) = i
    BY <2>1, ReadsOn DEF Extends
  <2> QED
    BY <2>1, <2>2
<1> QED
  BY <1>2, <1>3, <1>4 DEF Drawn

\* A character is drawn.
LEMMA DrawnNext ==
  ASSUME NEW T, NEW U, NEW t, Extends(U, T, t), NEW g \in Seq(Glyph), Drawn(g, T),
         Len(g) = Chars(T, Len(T)), t \notin Undrawn,
         NEW new \in Glyph, IsGlyph(new, U, Len(U)), NEW h, h = Append(g, new)
  PROVE  Drawn(h, U)
<1>1. /\ Len(g) \in Nat /\ h \in Seq(Glyph) /\ Len(h) = Len(g) + 1 /\ h[Len(g) + 1] = new
      /\ \A i \in 1..Len(g) : h[i] = g[i]
  OBVIOUS
<1>2. Chars(U, Len(U)) = Len(h) /\ Len(U) \in 1..Len(U) /\ U[Len(U)] = t
  BY <1>1, ReadsOn DEF Extends
<1>3. ASSUME NEW k \in 1..Len(U), U[k] \notin Undrawn, Chars(U, k) <= Len(h)
      PROVE  IsGlyph(h[Chars(U, k)], U, k)
  <2>1. CASE k \in 1..Len(T)
    <3>1. T[k] \notin Undrawn /\ Chars(T, k) = Chars(U, k) /\ Chars(T, k) <= Len(g) /\ Chars(T, k) \in Nat
      BY <1>3, <2>1, ReadsOn DEF Extends
    <3>2. IsGlyph(g[Chars(T, k)], U, k)
      BY <2>1, <3>1, ReadsOn DEF Drawn
    <3>3. Chars(T, k) \in 1..Len(g)
      <4>1. PICK m \in Nat : k = m + 1
        BY <2>1
      <4>2. Chars(T, m + 1) = Chars(T, m) + (IF T[m + 1] \in Undrawn THEN 0 ELSE 1) /\ Chars(T, m) \in Nat
        BY <4>1, Counts
      <4>3. Chars(T, k) = Chars(T, m) + 1
        BY <3>1, <4>1, <4>2
      <4> QED
        BY <1>1, <3>1, <4>2, <4>3
    <3> QED
      BY <1>1, <3>1, <3>2, <3>3
  <2>2. CASE k = Len(U)
    <3>1. h[Chars(U, k)] = new
      BY <1>1, <1>2, <2>2
    <3> QED
      BY <2>2, <3>1
  <2>3. k \in 1..Len(T) \/ k = Len(U)
    BY DEF Extends
  <2> QED
    BY <2>1, <2>2, <2>3
<1>4. ASSUME NEW i \in 1..Len(h) PROVE \E k \in 1..Len(U) : U[k] \notin Undrawn /\ Chars(U, k) = i
  <2>1. CASE i \in 1..Len(g)
    <3>1. PICK k \in 1..Len(T) : T[k] \notin Undrawn /\ Chars(T, k) = i
      BY <2>1 DEF Drawn
    <3>2. k \in 1..Len(U) /\ U[k] = T[k]
      BY DEF Extends
    <3>3. Chars(U, k) = i
      BY <3>1, ReadsOn
    <3> QED
      BY <3>1, <3>2, <3>3
  <2>2. CASE i = Len(h)
    BY <1>2, <2>2
  <2> QED
    BY <1>1, <2>1, <2>2
<1>5. Len(h) <= Chars(U, Len(U))
  BY <1>1, <1>2
<1> QED
  BY <1>2, <1>3, <1>4, <1>5 DEF Drawn

\* The next column is further to the right.
LEMMA NextColumn ==
  ASSUME NEW g \in Nat, NEW x \in Nat, NEW n \in Nat, g < x + 8 * n \/ g = x
  PROVE  g < x + 8 * (n + 1)
OBVIOUS

\* A turn of the loop follows the text; it fails at a character that is far out
\* of the font, and only there.
LEMMA PutFollows ==
  ASSUME NEW pen \in Pen, NEW T, NEW U, NEW t \in Token, Extends(U, T, t), t # "CR",
         Follows(pen, T), Drawn(pen.glyphs, T), Apart(pen.glyphs),
         t \notin Undrawn => pen.fg = Hue(T) /\ Hue(T) # "NORMAL" /\ pen.bold = Weight(T),
         NEW next, next = put(pen, t)
  PROVE  /\ next \in Pen /\ Drawn(next.glyphs, U) /\ Apart(next.glyphs)
         /\ t # "WIDE" => Follows(next, U)
         /\ t = "WIDE" => ~next.ok
<1>1. Turned(pen, next, t)
  BY PutTurns DEF Follows
<1>2. /\ pen.x \in Nat /\ pen.y \in Nat /\ pen.position \in Nat /\ pen.fg \in Colours
      /\ pen.bold \in BOOLEAN /\ pen.glyphs \in Seq(Glyph) /\ Len(pen.glyphs) \in Nat
      /\ \A i \in 1..Len(pen.glyphs) : pen.glyphs[i].x \in Nat /\ pen.glyphs[i].y \in Nat
  <2>1. /\ pen.x \in Nat /\ pen.y \in Nat /\ pen.position \in Nat /\ pen.fg \in Colours
        /\ pen.bold \in BOOLEAN /\ pen.glyphs \in Seq(Glyph)
    BY DEF Pen
  <2>2. \A i \in 1..Len(pen.glyphs) : pen.glyphs[i] \in Glyph
    BY <2>1
  <2> QED
    BY <2>1, <2>2 DEF Glyph
<1>3. /\ Chars(T, Len(T)) \in Nat /\ Lines(T, Len(T)) \in Nat
      /\ Chars(U, Len(U)) = Chars(T, Len(T)) + (IF t \in Undrawn THEN 0 ELSE 1)
      /\ Lines(U, Len(U)) = Lines(T, Len(T)) + (IF t = "NL" THEN 1 ELSE 0)
  BY ReadsOn
<1>4. CASE t \in Undrawn
  <2>1. /\ next \in Pen /\ next.glyphs = pen.glyphs /\ next.ok /\ t # "WIDE"
    BY <1>1, <1>4, ControlNames DEF Turned
  <2>2. Drawn(next.glyphs, U) /\ Apart(next.glyphs)
    BY <1>2, <2>1, DrawnStill
  <2>3. Len(next.glyphs) = Chars(U, Len(U))
    BY <1>3, <1>4, <2>1 DEF Follows
  <2>4. CASE t = "NL"
    <3>1. next.y = pen.y + 16 /\ next.cursor.y = pen.y + 16
      BY <1>1, <2>4 DEF Turned
    <3>2. next.y = 24 + 16 * Lines(U, Len(U))
      BY <1>3, <2>4, <3>1 DEF Follows
    <3>3. \A i \in 1..Len(pen.glyphs) : pen.glyphs[i].y <= pen.y
      BY DEF Follows
    <3>4. \A i \in 1..Len(pen.glyphs) : pen.glyphs[i].y <= next.y /\ pen.glyphs[i].y # next.y
      BY <1>2, <3>1, <3>3
    <3> QED
      BY <2>1, <2>2, <2>3, <3>1, <3>2, <3>4 DEF Follows
  <2>6. CASE t = "U+0100"
    <3>1. /\ next.y = pen.y /\ next.position = pen.position + 1 /\ next.cursor.y = pen.y
          /\ next.x = pen.x
      BY <1>1, <2>6 DEF Turned
    <3>2. next.y = 24 + 16 * Lines(U, Len(U))
      BY <1>3, <2>6, <3>1 DEF Follows
    <3>3. ASSUME NEW i \in 1..Len(pen.glyphs), pen.glyphs[i].y = next.y
          PROVE  Passed(pen.glyphs[i], next)
      <4>1. Passed(pen.glyphs[i], pen)
        BY <3>1, <3>3 DEF Follows
      <4>2. PICK gx \in Nat, px \in Nat, n \in Nat :
              gx = pen.glyphs[i].x /\ px = pen.x /\ n = pen.position
        BY <1>2
      <4>3. gx < px + 8 * n \/ gx = px
        BY <4>1, <4>2 DEF Passed
      <4>4. gx < px + 8 * (n + 1)
        BY <4>3, NextColumn
      <4> QED
        BY <3>1, <4>2, <4>4 DEF Passed
    <3> QED
      BY <2>1, <2>2, <2>3, <3>1, <3>2, <3>3 DEF Follows
  <2>5. CASE t # "NL" /\ t # "U+0100"
    <3>1. /\ next.y = pen.y /\ next.position = pen.position /\ next.cursor.y = pen.y
          /\ next.x = pen.x \/ next.x = pen.x + 64
      BY <1>1, <1>4, <2>5, ControlNames DEF Turned, Follows
    <3>2. next.y = 24 + 16 * Lines(U, Len(U))
      BY <1>3, <2>5, <3>1 DEF Follows
    <3>3. ASSUME NEW i \in 1..Len(pen.glyphs), pen.glyphs[i].y = next.y
          PROVE  Passed(pen.glyphs[i], next) \/ next.x = pen.x + 64
      BY <3>1, <3>3 DEF Follows, Passed
    <3>4. ASSUME NEW i \in 1..Len(pen.glyphs), pen.glyphs[i].y = next.y, next.x = pen.x + 64
          PROVE  Passed(pen.glyphs[i], next)
      <4>1. Passed(pen.glyphs[i], pen)
        BY <3>1, <3>4 DEF Follows
      <4>2. PICK gx, w : gx = pen.glyphs[i].x /\ w = 8 * pen.position /\ gx \in Nat /\ w \in Nat
        BY <1>2
      <4>3. gx < pen.x + w \/ gx = pen.x
        BY <4>1, <4>2 DEF Passed
      <4>4. gx < next.x + w
        <5>1. PICK a, b : a = pen.x /\ b = next.x /\ a \in Nat /\ b = a + 64
          BY <1>2, <3>4
        <5>2. gx < a + w \/ gx = a
          BY <4>3, <5>1
        <5>3. gx < b + w
          <6>1. gx \in Nat /\ w \in Nat /\ a \in Nat /\ b = a + 64
            BY <4>2, <5>1
          <6> HIDE <3>4
          <6> QED
            BY <5>2, <6>1
        <5> QED
          BY <5>1, <5>3
      <4> QED
        BY <3>1, <4>2, <4>4 DEF Passed
    <3> QED
      BY <2>1, <2>2, <2>3, <3>1, <3>2, <3>3, <3>4 DEF Follows
  <2> QED
    BY <2>1, <2>2, <2>4, <2>5, <2>6
<1>5. CASE t \notin Undrawn /\ t = "WIDE"
  <2>1. next \in Pen /\ next.glyphs = pen.glyphs /\ ~next.ok
    BY <1>1, <1>5 DEF Turned
  <2> QED
    BY <1>2, <1>5, <2>1, DrawnStill
<1>6. CASE t \notin Undrawn /\ t # "WIDE"
  <2>1. pen.y >= 24
    BY <1>3 DEF Follows
  <2>2. PICK x, new : /\ x = pen.x + 8 * pen.position
                      /\ new = [c |-> t, x |-> x, y |-> pen.y, fg |-> pen.fg, bold |-> pen.bold]
    OBVIOUS
  <2>3. x \in Nat /\ new \in Glyph
    BY <1>2, <2>2 DEF Glyph
  <2>4. /\ next \in Pen /\ next.ok /\ next.glyphs = Append(pen.glyphs, new) /\ next.x = pen.x
        /\ next.y = pen.y /\ next.position = pen.position + 1 /\ next.cursor.y = pen.y
    BY <1>1, <1>2, <1>6, <2>1, <2>2 DEF Turned
  <2>5. IsGlyph(new, U, Len(U))
    <3>1. U[Len(U)] = t /\ Hue(U) = Hue(T) /\ Weight(U) = Weight(T) /\ t # "NL"
      BY <1>6, ReadsOn, ControlNames DEF Extends
    <3>2. new.c = t /\ new.y = pen.y /\ new.fg = pen.fg /\ new.bold = pen.bold
      BY <2>2
    <3>3. new.y = 24 + FontHeight * Lines(U, Len(U))
      BY <1>3, <3>1, <3>2 DEF Follows, FontHeight, GlyphSize
    <3> QED
      BY <1>6, <3>1, <3>2, <3>3 DEF IsGlyph, Hue, Weight
  <2>6. PICK g, h : g = pen.glyphs /\ h = next.glyphs
    OBVIOUS
  <2>7. /\ g \in Seq(Glyph) /\ Len(g) \in Nat /\ h = Append(g, new) /\ Len(h) = Len(g) + 1
        /\ h[Len(g) + 1] = new /\ \A i \in 1..Len(g) : h[i] = g[i]
    BY <1>2, <2>3, <2>4, <2>6
  <2>8. Drawn(h, U) /\ Len(h) = Chars(U, Len(U))
    <3>1. g \in Seq(Glyph) /\ Drawn(g, T) /\ Len(g) = Chars(T, Len(T)) /\ h = Append(g, new)
      BY <2>6, <2>7 DEF Follows
    <3>2. Drawn(h, U)
      BY <1>6, <2>3, <2>5, <3>1, DrawnNext
    <3> QED
      BY <1>3, <1>6, <2>7, <3>1, <3>2
  <2>9. new.x = x /\ new.y = pen.y
    BY <2>2
  <2>10. ASSUME NEW i \in 1..Len(g)
         PROVE  /\ g[i].y <= pen.y /\ g[i].x \in Nat /\ g[i].y \in Nat
                /\ g[i].y = pen.y => g[i].x < x \/ (pen.position = 0 /\ g[i].x = x /\ g[i].c = Gap)
    <3>1. g[i].y <= pen.y /\ (g[i].y = pen.y => Passed(g[i], pen))
      BY <2>6 DEF Follows
    <3>2. pen.position = 0 => x = pen.x
      BY <1>2, <2>2
    <3> QED
      BY <1>2, <2>2, <2>6, <3>1, <3>2 DEF Passed
  <2>11. Apart(h)
    <3> SUFFICES ASSUME NEW i \in 1..Len(h), NEW j \in 1..Len(h), i < j, h[i].x = h[j].x, h[i].y = h[j].y
                 PROVE  h[i].c = Gap
      BY DEF Apart
    <3>1. i \in 1..Len(g) /\ h[i] = g[i]
      BY <2>7
    <3>2. CASE j \in 1..Len(g)
      BY <2>6, <2>7, <3>1, <3>2 DEF Apart
    <3>3. CASE j = Len(g) + 1
      <4>1. g[i].x = x /\ g[i].y = pen.y
        BY <2>7, <2>9, <3>1, <3>3
      <4>2. g[i].x < x \/ g[i].c = Gap
        BY <2>10, <3>1, <4>1
      <4>3. ~(x < x)
        BY <2>3
      <4> QED
        BY <3>1, <4>1, <4>2, <4>3, Zenon
    <3>4. j \in 1..Len(g) \/ j = Len(g) + 1
      BY <2>7
    <3> QED
      BY <3>2, <3>3, <3>4
  <2>12. ASSUME NEW i \in 1..Len(h) PROVE h[i].y <= pen.y /\ (h[i].y = pen.y => h[i].x < x + 8)
    <3>1. CASE i \in 1..Len(g)
      <4>1. h[i] = g[i] /\ g[i].y <= pen.y /\ g[i].x \in Nat
            /\ (g[i].y = pen.y => g[i].x < x \/ g[i].x = x)
        BY <2>7, <2>10, <3>1
      <4> QED
        BY <2>3, <4>1
    <3>2. CASE i = Len(g) + 1
      BY <1>2, <2>3, <2>7, <2>9, <3>2
    <3> QED
      BY <2>7, <3>1, <3>2
  <2>13. next.x + 8 * next.position = x + 8
    BY <1>2, <2>2, <2>4
  <2>14. \A i \in 1..Len(h) : h[i].y <= next.y /\ (h[i].y = next.y => Passed(h[i], next))
    BY <2>4, <2>12, <2>13 DEF Passed
  <2>15. next.y = 24 + 16 * Lines(U, Len(U)) /\ next.cursor.y = next.y
    BY <1>3, <1>6, <2>4, ControlNames DEF Follows
  <2>16. Follows(next, U)
    BY <2>4, <2>6, <2>8, <2>14, <2>15 DEF Follows
  <2> QED
    BY <1>6, <2>4, <2>6, <2>8, <2>11, <2>16
<1> QED
  BY <1>4, <1>5, <1>6

-----------------------------------------------------------------------------
(***************************************************************************)
(* The loops.                                                              *)
(***************************************************************************)

Runs(f, step, s, n) == f[0] = s /\ \A i \in 1..n : f[i] = step[<<f[i - 1], i>>]

\* A loop of n turns has a run.
LEMMA LoopRuns ==
  ASSUME NEW S, NEW s \in S, NEW L \in Nat, NEW step \in [S \X (1..L) -> S]
  PROVE  \E f \in [0..L -> S] : Runs(f, step, s, L)
<1> DEFINE N == {n \in Nat : n <= L => \E f \in [0..n -> S] : Runs(f, step, s, n)}
<1>1. 0 \in N
  <2>1. PICK f : f = [i \in 0..0 |-> s]
    OBVIOUS
  <2>2. f \in [0..0 -> S] /\ f[0] = s
    BY <2>1
  <2> QED
    BY <2>2 DEF Runs
<1>2. ASSUME NEW n \in Nat, n \in N PROVE n + 1 \in N
  <2> SUFFICES ASSUME n + 1 <= L PROVE \E f \in [0..n + 1 -> S] : Runs(f, step, s, n + 1)
    OBVIOUS
  <2>1. PICK f \in [0..n -> S] : Runs(f, step, s, n)
    BY <1>2
  <2>2. PICK v : v = step[<<f[n], n + 1>>]
    OBVIOUS
  <2>3. v \in S
    <3>1. f[n] \in S /\ n + 1 \in 1..L
      BY <2>1
    <3>2. <<f[n], n + 1>> \in S \X (1..L)
      BY <3>1
    <3> QED
      BY <2>2, <3>2
  <2>4. PICK g : g = [i \in 0..n + 1 |-> IF i = n + 1 THEN v ELSE f[i]]
    OBVIOUS
  <2>5. g \in [0..n + 1 -> S]
    <3>1. \A i \in 0..n + 1 : i = n + 1 \/ f[i] \in S
      BY <2>1
    <3> QED
      BY <2>3, <2>4, <3>1
  <2>6. (\A i \in 0..n : g[i] = f[i]) /\ g[n + 1] = v
    BY <2>4
  <2>7. ASSUME NEW i \in 1..n + 1 PROVE g[i] = step[<<g[i - 1], i>>]
    <3>1. i - 1 \in 0..n
      OBVIOUS
    <3>2. CASE i \in 1..n
      BY <2>1, <2>6, <3>1, <3>2 DEF Runs
    <3>3. CASE i = n + 1
      <4>1. i - 1 = n /\ g[i - 1] = f[n]
        BY <2>6, <3>1, <3>3
      <4> QED
        BY <2>2, <2>6, <3>3, <4>1
    <3> QED
      BY <3>2, <3>3
  <2>8. g[0] = s
    BY <2>1, <2>6 DEF Runs
  <2> QED
    BY <2>5, <2>7, <2>8 DEF Runs
<1> HIDE DEF N
<1>3. \A n \in Nat : n \in N
  BY <1>1, <1>2, SetInduction
<1> QED
  BY <1>3 DEF N

\* A pen stays a pen.
LEMMA PutType ==
  ASSUME NEW pen \in Pen, NEW t \in Token, t # "CR"
  PROVE  put(pen, t) \in Pen /\ (~pen.ok => put(pen, t) = pen)
<1>1. ~pen.ok => put(pen, t) = pen
  BY DEF put
<1>2. pen.ok => put(pen, t) \in Pen
  BY PutTurns DEF Turned
<1> QED
  BY <1>1, <1>2

\* The loop of write_str.
LEMMA PensRun ==
  ASSUME NEW start \in Pen, NEW string \in Seq(Token), ~Contains(string, "CR")
  PROVE  /\ Pens(start, string)[0] = start
         /\ \A n \in 0..Len(string) : Pens(start, string)[n] \in Pen
         /\ \A n \in 1..Len(string) :
              Pens(start, string)[n] = put(Pens(start, string)[n - 1], string[n])
<1>1. PICK L : L = Len(string)
  OBVIOUS
<1>2. L \in Nat /\ \A n \in 1..L : string[n] \in Token /\ string[n] # "CR"
  BY <1>1 DEF Contains
<1> DEFINE step == [q \in Pen \X (1..L) |-> put(q[1], string[q[2]])]
<1>3. step \in [Pen \X (1..L) -> Pen]
  <2>1. \A q \in Pen \X (1..L) : put(q[1], string[q[2]]) \in Pen
    BY <1>2, PutType
  <2> QED
    BY <2>1
<1>4. ASSUME NEW p \in Pen, NEW n \in 1..L PROVE step[<<p, n>>] = put(p, string[n])
  OBVIOUS
<1> HIDE DEF step
<1>5. PICK f \in [0..L -> Pen] : Runs(f, step, start, L)
  BY <1>2, <1>3, LoopRuns
<1>6. ASSUME NEW n \in 0..L PROVE f[n] = IF n = 0 THEN start ELSE put(f[n - 1], string[n])
  <2>1. CASE n = 0
    BY <1>5, <2>1 DEF Runs
  <2>2. CASE n # 0
    <3>1. n \in 1..L /\ n - 1 \in 0..L
      BY <1>2, <2>2
    <3>2. f[n] = step[<<f[n - 1], n>>] /\ f[n - 1] \in Pen
      BY <1>5, <3>1 DEF Runs
    <3> QED
      BY <1>4, <2>2, <3>1, <3>2
  <2> QED
    BY <2>1, <2>2
<1>7. f = [n \in 0..L |-> IF n = 0 THEN start ELSE put(f[n - 1], string[n])]
  BY <1>5, <1>6
<1>8. PICK g : g = Pens(start, string)
  OBVIOUS
<1>9. g = [n \in 0..L |-> IF n = 0 THEN start ELSE put(g[n - 1], string[n])]
  BY <1>1, <1>7, <1>8 DEF Pens
<1>10. g[0] = start /\ \A n \in 1..L : g[n] = put(g[n - 1], string[n])
  <2>1. 0 \in 0..L /\ \A n \in 1..L : n \in 0..L /\ n # 0
    BY <1>2
  <2> QED
    BY <1>9, <2>1
<1> DEFINE N == {n \in Nat : n <= L => g[n] \in Pen}
<1>11. 0 \in N
  BY <1>10
<1>12. ASSUME NEW n \in Nat, n \in N PROVE n + 1 \in N
  <2> SUFFICES ASSUME n + 1 <= L PROVE g[n + 1] \in Pen
    OBVIOUS
  <2>1. n + 1 \in 1..L /\ (n + 1) - 1 = n /\ g[n] \in Pen
    BY <1>2, <1>12
  <2> QED
    BY <1>2, <1>10, <2>1, PutType
<1> HIDE DEF N
<1>13. \A n \in Nat : n \in N
  BY <1>11, <1>12, SetInduction
<1>14. \A n \in 0..L : g[n] \in Pen
  BY <1>2, <1>13 DEF N
<1> QED
  BY <1>1, <1>8, <1>10, <1>14

\* The text with the first n tokens of a string
Sofar(T, string, n) == T \o SubSeq(string, 1, n)

\* Token by token, the text grows by the string.
LEMMA SofarExtends ==
  ASSUME NEW T \in Seq(Token), NEW string \in Seq(Token)
  PROVE  /\ Sofar(T, string, 0) = T
         /\ Sofar(T, string, Len(string)) = T \o string
         /\ \A n \in Nat : n + 1 <= Len(string) =>
              Extends(Sofar(T, string, n + 1), Sofar(T, string, n), string[n + 1])
<1>1. Len(string) \in Nat /\ Len(T) \in Nat
  OBVIOUS
<1>2. SubSeq(string, 1, 0) = <<>>
  OBVIOUS
<1>3. SubSeq(string, 1, Len(string)) = string
  OBVIOUS
<1>4. Sofar(T, string, 0) = T
  BY <1>2 DEF Sofar
<1>5. ASSUME NEW n \in Nat, n + 1 <= Len(string)
      PROVE  Extends(Sofar(T, string, n + 1), Sofar(T, string, n), string[n + 1])
  <2>1. PICK a, b : a = SubSeq(string, 1, n) /\ b = SubSeq(string, 1, n + 1)
    OBVIOUS
  <2>2. /\ a \in Seq(Token) /\ Len(a) = n /\ \A k \in 1..n : a[k] = string[k]
        /\ b \in Seq(Token) /\ Len(b) = n + 1 /\ \A k \in 1..n + 1 : b[k] = string[k]
    BY <1>1, <1>5, <2>1
  <2>3. PICK A, B : A = T \o a /\ B = T \o b
    OBVIOUS
  <2>4. A \in Seq(Token) /\ B \in Seq(Token)
    BY <2>2, <2>3
  <2>5. Len(A) = Len(T) + n /\ Len(B) = Len(T) + n + 1
    <3>1. Len(T \o a) = Len(T) + Len(a)
      BY <2>2, ConcatProperties
    <3>2. Len(T \o b) = Len(T) + Len(b)
      BY <2>2, ConcatProperties
    <3> QED
      BY <1>1, <2>2, <2>3, <3>1, <3>2
  <2>6. \A k \in 1..Len(T) : A[k] = T[k] /\ B[k] = T[k]
    BY <2>2, <2>3
  <2>7. /\ \A k \in 1..Len(T) + n : k > Len(T) => A[k] = a[k - Len(T)]
        /\ \A k \in 1..Len(T) + n + 1 : k > Len(T) => B[k] = b[k - Len(T)]
    BY <2>2, <2>3
  <2>8. B[Len(A) + 1] = string[n + 1]
    <3>1. Len(A) + 1 \in 1..Len(T) + n + 1 /\ Len(A) + 1 > Len(T) /\ (Len(A) + 1) - Len(T) = n + 1
      BY <1>1, <2>5
    <3> QED
      BY <2>2, <2>7, <3>1
  <2>9. ASSUME NEW k \in 1..Len(A) PROVE B[k] = A[k]
    <3>1. CASE k \in 1..Len(T)
      BY <2>6, <3>1
    <3>2. CASE k > Len(T)
      <4>1. k - Len(T) \in 1..n /\ k \in 1..Len(T) + n /\ k \in 1..Len(T) + n + 1
        BY <1>1, <2>5, <3>2
      <4>2. k - Len(T) \in 1..n + 1
        BY <4>1
      <4> QED
        BY <2>2, <2>7, <3>2, <4>1, <4>2
    <3> QED
      BY <1>1, <2>5, <3>1, <3>2
  <2>10. A = Sofar(T, string, n) /\ B = Sofar(T, string, n + 1)
    BY <2>1, <2>3 DEF Sofar
  <2>11. Len(A) \in Nat /\ Len(B) = Len(A) + 1
    BY <1>1, <2>5
  <2>12. Extends(B, A, string[n + 1])
    BY <2>4, <2>8, <2>9, <2>11 DEF Extends
  <2> QED
    BY <2>10, <2>12
<1> QED
  BY <1>3, <1>4, <1>5 DEF Sofar

\* A colour has been set, and no NORMAL came since.
Sets(s, j, n) == s[j] \in Colours /\ \A m \in j + 1..n : s[m] # "NORMAL"
Coloured(s, n) == \E j \in 1..n : Sets(s, j, n)

\* A string sets a colour before it writes.
LEMMA ColourSet ==
  ASSUME NEW s, Len(s) \in Nat, SetsColour(s), NEW n \in Nat, n + 1 <= Len(s),
         s[n + 1] \notin Undrawn
  PROVE  Coloured(s, n)
<1>1. n + 1 \in 1..Len(s) /\ (n + 1) - 1 = n
  OBVIOUS
<1>2. \E j \in 1..(n + 1) - 1 : s[j] \in Colours /\ \A m \in j + 1..(n + 1) - 1 : s[m] # "NORMAL"
  BY <1>1, Zenon DEF SetsColour
<1> QED
  BY <1>1, <1>2 DEF Coloured, Sets

\* Once set, the colour stays until a NORMAL.
LEMMA ColourStays ==
  ASSUME NEW s, NEW n \in Nat, Coloured(s, n + 1)
  PROVE  s[n + 1] \in Colours \/ (s[n + 1] # "NORMAL" /\ Coloured(s, n))
<1>1. PICK j \in 1..n + 1 : Sets(s, j, n + 1)
  BY DEF Coloured
<1>2. CASE j = n + 1
  BY <1>1, <1>2 DEF Sets
<1>3. CASE j \in 1..n
  <2>1. n + 1 \in j + 1..n + 1 /\ \A m \in j + 1..n : m \in j + 1..n + 1
    BY <1>3
  <2> QED
    BY <1>1, <1>3, <2>1 DEF Sets, Coloured
<1> QED
  BY <1>2, <1>3

\* Where write_str's loop is after n tokens
Keeps(pen, T, s, n) ==
  /\ Drawn(pen.glyphs, T) /\ Apart(pen.glyphs)
  /\ pen.ok => Follows(pen, T)
  /\ ~pen.ok => Contains(s, "WIDE")
  /\ pen.ok => \A m \in 1..n : s[m] # "WIDE"
  /\ pen.ok /\ Coloured(s, n) => pen.fg = Hue(T) /\ Hue(T) \in Colours
  /\ pen.ok /\ n >= 1 => pen.bold = Weight(T)

\* A turn of write_str's loop.
LEMMA TurnKeeps ==
  ASSUME NEW s \in Seq(Token), ~Contains(s, "CR"), SetsColour(s), NEW n \in Nat, n + 1 <= Len(s),
         NEW pen \in Pen, NEW T, NEW U, Extends(U, T, s[n + 1]), Keeps(pen, T, s, n),
         pen.bold = Weight(T) \/ n >= 1 \/ s[1] = "BOLD",
         NEW next, next = put(pen, s[n + 1])
  PROVE  Keeps(next, U, s, n + 1)
<1>1. PICK t : t = s[n + 1]
  OBVIOUS
<1>2. t \in Token /\ t # "CR" /\ Len(s) \in Nat /\ n + 1 \in 1..Len(s)
  <2>1. n + 1 \in 1..Len(s)
    OBVIOUS
  <2> QED
    BY <1>1, <2>1 DEF Contains
<1>3. CASE ~pen.ok
  <2>1. next = pen
    BY <1>1, <1>2, <1>3, PutType
  <2>2. pen.glyphs \in Seq(Glyph)
    BY DEF Pen
  <2>3. Drawn(pen.glyphs, U)
    BY <2>2, DrawnStill DEF Keeps
  <2> QED
    BY <1>3, <2>1, <2>3 DEF Keeps
<1>4. CASE pen.ok
  <2>1. "NORMAL" \notin Colours /\ "BOLD" \in Undrawn
    BY ControlNames
  <2>2. t \notin Undrawn => pen.fg = Hue(T) /\ Hue(T) # "NORMAL"
    BY <1>1, <1>2, <1>4, <2>1, ColourSet DEF Keeps
  <2>3. t \notin Undrawn => pen.bold = Weight(T)
    <3>1. CASE n >= 1
      BY <1>4, <3>1 DEF Keeps
    <3>2. CASE n = 0
      BY <1>1, <2>1, <3>2
    <3> QED
      BY <3>1, <3>2
  <2>4. Follows(pen, T) /\ Drawn(pen.glyphs, T) /\ Apart(pen.glyphs)
    BY <1>4 DEF Keeps
  <2>5. /\ next \in Pen /\ Drawn(next.glyphs, U) /\ Apart(next.glyphs)
        /\ t # "WIDE" => Follows(next, U)
        /\ t = "WIDE" => ~next.ok
    BY <1>1, <1>2, <2>2, <2>3, <2>4, PutFollows
  <2>6. ~next.ok => Contains(s, "WIDE")
    BY <1>1, <1>2, <2>5 DEF Follows, Contains
  <2>7. Turned(pen, next, t)
    BY <1>1, <1>2, <1>4, PutTurns
  <2>8. /\ next.fg = IF t \in Colours THEN t ELSE pen.fg
        /\ next.bold = IF t \in {"BOLD", "NORMAL"} THEN t = "BOLD" ELSE pen.bold
    BY <1>2, <2>7, ControlNames DEF Turned
  <2>9. /\ Hue(U) = IF t \in Colours \cup {"NORMAL"} THEN t ELSE Hue(T)
        /\ Weight(U) = IF t \in {"BOLD", "NORMAL"} THEN t = "BOLD" ELSE Weight(T)
    BY <1>1, ReadsOn
  <2>10. Coloured(s, n + 1) => next.fg = Hue(U) /\ Hue(U) \in Colours
    <3> SUFFICES ASSUME Coloured(s, n + 1) PROVE next.fg = Hue(U) /\ Hue(U) \in Colours
      OBVIOUS
    <3>1. t \in Colours \/ (t # "NORMAL" /\ Coloured(s, n))
      BY <1>1, ColourStays
    <3>2. t \notin Colours => pen.fg = Hue(T) /\ Hue(T) \in Colours
      BY <1>4, <3>1 DEF Keeps
    <3> QED
      BY <2>8, <2>9, <3>1, <3>2
  <2>11. next.bold = Weight(U)
    <3>1. t \in {"BOLD", "NORMAL"} \/ pen.bold = Weight(T)
      <4>1. CASE n >= 1
        BY <1>4, <4>1 DEF Keeps
      <4>2. CASE n = 0
        BY <1>1, <4>2
      <4> QED
        BY <4>1, <4>2
    <3> QED
      BY <2>8, <2>9, <3>1
  <2>12. next.ok => \A m \in 1..n + 1 : s[m] # "WIDE"
    <3>1. \A m \in 1..n : s[m] # "WIDE"
      BY <1>4 DEF Keeps
    <3>2. \A m \in 1..n + 1 : m \in 1..n \/ m = n + 1
      OBVIOUS
    <3> QED
      BY <1>1, <2>5, <3>1, <3>2
  <2> QED
    BY <2>5, <2>6, <2>10, <2>11, <2>12 DEF Keeps
<1> QED
  BY <1>3, <1>4

\* The whole loop of write_str.
LEMMA StringKept ==
  ASSUME NEW start \in Pen, NEW T \in Seq(Token), NEW s \in Seq(Token),
         ~Contains(s, "CR"), SetsColour(s),
         Follows(start, T), Drawn(start.glyphs, T), Apart(start.glyphs),
         start.bold = Weight(T) \/ s[1] = "BOLD"
  PROVE  \A n \in 0..Len(s) : Keeps(Pens(start, s)[n], Sofar(T, s, n), s, n)
<1>1. Len(s) \in Nat
  OBVIOUS
<1>2. PICK f : f = Pens(start, s)
  OBVIOUS
<1>3. /\ f[0] = start
      /\ \A n \in 0..Len(s) : f[n] \in Pen
      /\ \A n \in 1..Len(s) : f[n] = put(f[n - 1], s[n])
  BY <1>2, PensRun
<1>4. /\ Sofar(T, s, 0) = T
      /\ \A n \in Nat : n + 1 <= Len(s) => Extends(Sofar(T, s, n + 1), Sofar(T, s, n), s[n + 1])
  BY SofarExtends
<1> DEFINE N == {n \in Nat : n <= Len(s) => Keeps(f[n], Sofar(T, s, n), s, n)}
<1>5. 0 \in N
  <2>1. ~Coloured(s, 0)
    BY DEF Coloured
  <2>2. Keeps(f[0], Sofar(T, s, 0), s, 0)
    BY <1>3, <1>4, <2>1 DEF Keeps, Follows
  <2> QED
    BY <2>2
<1>6. ASSUME NEW n \in Nat, n \in N PROVE n + 1 \in N
  <2> SUFFICES ASSUME n + 1 <= Len(s) PROVE Keeps(f[n + 1], Sofar(T, s, n + 1), s, n + 1)
    OBVIOUS
  <2>1. n \in 0..Len(s) /\ n + 1 \in 1..Len(s) /\ (n + 1) - 1 = n
    BY <1>1
  <2>2. f[n] \in Pen /\ f[n + 1] = put(f[n], s[n + 1])
    BY <1>3, <2>1
  <2>3. f[n].bold = Weight(Sofar(T, s, n)) \/ n >= 1 \/ s[1] = "BOLD"
    BY <1>3, <1>4
  <2>4. Keeps(f[n], Sofar(T, s, n), s, n)
    BY <1>6, <2>1
  <2> HIDE DEF N
  <2> QED
    BY <1>4, <2>2, <2>3, <2>4, TurnKeeps
<1> HIDE DEF N
<1>7. \A n \in Nat : n \in N
  BY <1>5, <1>6, SetInduction
<1>8. \A n \in 0..Len(s) : Keeps(f[n], Sofar(T, s, n), s, n)
  BY <1>1, <1>7 DEF N
<1> QED
  BY <1>2, <1>8

-----------------------------------------------------------------------------
(***************************************************************************)
(* The screen.                                                             *)
(***************************************************************************)

Screen == [cursor : Cursor, bold : BOOLEAN, glyphs : Seq(Glyph),
           written : Seq(Seq(Token)), ok : BOOLEAN]

\* Everything drawn lies before the cursor, but for blanks at it.
Behind(c, g) ==
  \A i \in 1..Len(g) :
    g[i].y <= c.y /\ (g[i].y = c.y => g[i].x < c.x \/ (g[i].x = c.x /\ g[i].c = Gap))

\* The screen shows the text written to it; all of it, unless it failed.
Shown(s) ==
  LET T == FlattenSeq(s.written) IN
  /\ Drawn(s.glyphs, T) /\ Apart(s.glyphs)
  /\ s.ok => /\ Len(s.glyphs) = Chars(T, Len(T))
             /\ s.cursor.y = 24 + 16 * Lines(T, Len(T))
             /\ Behind(s.cursor, s.glyphs)

\* A string that sets its colours and ends its line or in a blank
Fit(s) ==
  /\ s \in Seq(Token) /\ ~Contains(s, "CR") /\ SetsColour(s)
  /\ s # <<>> /\ s[Len(s)] \in {"NL", Gap}

\* A blank is no control.
LEMMA Blank == Gap \notin Undrawn /\ Gap # "WIDE" /\ "NL" \in Undrawn
BY DEF Undrawn, Controls, Colours, Gap

\* After the last token, everything lies before the cursor.
LEMMA LastTurn ==
  ASSUME NEW pen \in Pen, NEW T, Follows(pen, T), NEW t \in Token, t \in {"NL", Gap},
         NEW next, next = put(pen, t), next.ok
  PROVE  Behind(next.cursor, next.glyphs)
<1>1. Turned(pen, next, t)
  <2>1. t # "CR" /\ pen.ok
    BY Blank, ControlNames DEF Follows
  <2> QED
    BY <2>1, PutTurns
<1>2. PICK px \in Nat, py \in Nat, n \in Nat, gs \in Seq(Glyph) :
        /\ px = pen.x /\ py = pen.y /\ n = pen.position /\ gs = pen.glyphs
        /\ pen.fg \in Colours /\ pen.bold \in BOOLEAN
  BY DEF Pen
<1>3. \A i \in 1..Len(gs) : gs[i] \in Glyph /\ gs[i].y \in Nat /\ gs[i].x \in Nat
  <2>1. \A i \in 1..Len(gs) : gs[i] \in Glyph
    BY <1>2
  <2> QED
    BY <2>1 DEF Glyph
<1>4. \A i \in 1..Len(gs) : gs[i].y <= py /\ (gs[i].y = py => Passed(gs[i], pen))
  BY <1>2 DEF Follows
<1>5. CASE t = "NL"
  <2>1. next.cursor.y = py + 16 /\ next.glyphs = gs
    BY <1>1, <1>2, <1>5 DEF Turned
  <2>2. ASSUME NEW i \in 1..Len(gs)
        PROVE  gs[i].y <= py + 16 /\ gs[i].y # py + 16
    <3>1. PICK y \in Nat : y = gs[i].y /\ y <= py
      BY <1>3, <1>4
    <3> QED
      BY <3>1
  <2> QED
    BY <2>1, <2>2 DEF Behind
<1>6. CASE t = Gap
  <2>1. PICK x \in Nat : x = px + 8 * n
    BY <1>2
  <2>2. PICK g : g = [c |-> t, x |-> x, y |-> py, fg |-> pen.fg, bold |-> pen.bold]
    OBVIOUS
  <2>3. g \in Glyph /\ g.y = py /\ g.x = x /\ g.c = Gap
    BY <1>2, <1>6, <2>2 DEF Glyph
  <2>4. next.cursor.x = x /\ next.cursor.y = py /\ next.glyphs = Append(gs, g)
    <3>1. t \notin Undrawn /\ t # "WIDE"
      BY <1>6, Blank
    <3>2. ~(t = "WIDE" \/ pen.y < 12)
      BY <1>1, <3>1 DEF Turned
    <3>3. pen.x + 8 * pen.position = x
      BY <1>2, <2>1
    <3>4. next.cursor = [x |-> x, y |-> py, fg |-> pen.fg]
      BY <1>1, <1>2, <3>1, <3>3 DEF Turned
    <3>5. next.glyphs = Append(pen.glyphs,
                      [c |-> t, x |-> pen.x + 8 * pen.position, y |-> pen.y,
                       fg |-> pen.fg, bold |-> pen.bold])
      BY <1>1, <3>1, <3>2 DEF Turned
    <3> QED
      BY <1>2, <2>2, <3>3, <3>4, <3>5
  <2>5. PICK hs : hs = Append(gs, g)
    OBVIOUS
  <2>6. /\ Len(hs) = Len(gs) + 1 /\ Len(gs) \in Nat
        /\ hs[Len(gs) + 1] = g
        /\ \A i \in 1..Len(gs) : hs[i] = gs[i]
    BY <1>2, <2>3, <2>5
  <2>7. ASSUME NEW i \in 1..Len(hs)
        PROVE  hs[i].y <= py /\ (hs[i].y = py => hs[i].x < x \/ (hs[i].x = x /\ hs[i].c = Gap))
    <3>1. CASE i = Len(gs) + 1
      <4>1. hs[i].y = py /\ hs[i].x = x /\ hs[i].c = Gap
        BY <2>3, <2>6, <3>1
      <4>2. hs[i].y <= py
        BY <1>2, <4>1
      <4> QED
        BY <4>1, <4>2
    <3>2. CASE i \in 1..Len(gs)
      <4>1. gs[i].y <= py /\ (gs[i].y = py => Passed(gs[i], pen)) /\ hs[i] = gs[i]
        BY <1>4, <2>6, <3>2
      <4>2. ASSUME Passed(gs[i], pen) PROVE gs[i].x < x \/ (gs[i].x = x /\ gs[i].c = Gap)
        <5>1. gs[i].x < px + 8 * n \/ (n = 0 /\ gs[i].x = px /\ gs[i].c = Gap)
          BY <1>2, <4>2 DEF Passed
        <5>2. n = 0 => x = px
          BY <1>2, <2>1
        <5> QED
          BY <2>1, <5>1, <5>2
      <4> QED
        BY <4>1, <4>2
    <3> QED
      BY <2>6, <3>1, <3>2
  <2> QED
    BY <2>4, <2>5, <2>7 DEF Behind
<1> QED
  BY <1>5, <1>6

\* The pen that write_str starts with
StartOf(s) ==
  [x |-> s.cursor.x, y |-> s.cursor.y, fg |-> s.cursor.fg, position |-> 0,
   cursor |-> s.cursor, bold |-> s.bold, glyphs |-> s.glyphs, ok |-> s.ok]

\* What write_str leaves.
LEMMA WriteIs ==
  ASSUME NEW s \in Screen, NEW string \in Seq(Token), ~Contains(string, "CR"),
         NEW r, r = write_str(s, string)
  PROVE  \E end \in Pen :
           /\ end = Pens(StartOf(s), string)[Len(string)]
           /\ r \in Screen
           /\ r.cursor = end.cursor /\ r.bold = end.bold /\ r.glyphs = end.glyphs /\ r.ok = end.ok
           /\ s.ok => r.written = Append(s.written, string)
           /\ ~s.ok => r.written = s.written
<1>1. PICK start : start = StartOf(s)
  OBVIOUS
<1>2. start \in Pen
  BY <1>1 DEF StartOf, Screen, Cursor, Pen
<1>3. PICK end : end = Pens(start, string)[Len(string)]
  OBVIOUS
<1>4. Len(string) \in 0..Len(string)
  OBVIOUS
<1>5. end \in Pen
  BY <1>2, <1>3, <1>4, PensRun
<1>6. PICK w : w = IF s.ok THEN Append(s.written, string) ELSE s.written
  OBVIOUS
<1>7. w \in Seq(Seq(Token))
  <2>1. s.written \in Seq(Seq(Token))
    BY DEF Screen
  <2> QED
    BY <1>6, <2>1
<1>8. r = [cursor |-> end.cursor, bold |-> end.bold, glyphs |-> end.glyphs,
           written |-> w, ok |-> end.ok]
  BY <1>1, <1>3, <1>6 DEF write_str, StartOf
<1>9. r \in Screen
  BY <1>5, <1>7, <1>8 DEF Screen, Pen
<1> QED
  BY <1>1, <1>3, <1>5, <1>6, <1>8, <1>9

\* A screen whose font fits the string follows it.
LEMMA WriteShows ==
  ASSUME NEW s \in Screen, Shown(s), s.ok, NEW string, Fit(string),
         s.bold = Weight(FlattenSeq(s.written)) \/ string[1] = "BOLD",
         NEW r, r = write_str(s, string)
  PROVE  /\ r \in Screen /\ Shown(r) /\ r.written = Append(s.written, string)
         /\ r.ok => r.bold = Weight(FlattenSeq(r.written))
         /\ r.ok <=> ~Contains(string, "WIDE")
<1>1. PICK T, start, L : T = FlattenSeq(s.written) /\ start = StartOf(s) /\ L = Len(string)
  OBVIOUS
<1>2. /\ s.written \in Seq(Seq(Token)) /\ string \in Seq(Token) /\ s.cursor \in Cursor
      /\ s.bold \in BOOLEAN /\ s.glyphs \in Seq(Glyph) /\ s.ok \in BOOLEAN
  BY DEF Screen, Fit
<1>3. T \in Seq(Token) /\ FlattenSeq(Append(s.written, string)) = T \o string
  BY <1>1, <1>2, FlattenType, FlattenAppend
<1>4. L \in Nat /\ L >= 1 /\ L \in 0..L /\ L - 1 \in 0..L /\ L - 1 \in Nat /\ (L - 1) + 1 = L /\ L \in 1..L
  <2>1. L \in Nat /\ L # 0
    BY <1>1, <1>2, EmptySeq DEF Fit
  <2> QED
    BY <2>1
<1>5. start \in Pen
  BY <1>1, <1>2 DEF StartOf, Cursor, Pen
<1>6. /\ start.x = s.cursor.x /\ start.y = s.cursor.y /\ start.position = 0
      /\ start.cursor = s.cursor /\ start.bold = s.bold /\ start.glyphs = s.glyphs /\ start.ok
  BY <1>1 DEF StartOf
<1>7. /\ Drawn(s.glyphs, T) /\ Apart(s.glyphs) /\ Len(s.glyphs) = Chars(T, Len(T))
      /\ s.cursor.y = 24 + 16 * Lines(T, Len(T)) /\ Behind(s.cursor, s.glyphs)
  BY <1>1 DEF Shown
<1>8. Follows(start, T)
  <2>1. ASSUME NEW i \in 1..Len(start.glyphs)
        PROVE  /\ start.glyphs[i].y <= start.y
               /\ start.glyphs[i].y = start.y => Passed(start.glyphs[i], start)
    <3>1. s.cursor.x \in Nat /\ 8 * 0 = 0 /\ s.cursor.x + 0 = s.cursor.x
      BY <1>2 DEF Cursor
    <3> QED
      BY <1>6, <1>7, <3>1 DEF Behind, Passed
  <2> QED
    BY <1>6, <1>7, <2>1 DEF Follows
<1>9. \A n \in 0..L : Keeps(Pens(start, string)[n], Sofar(T, string, n), string, n)
  <2>1. start.bold = Weight(T) \/ string[1] = "BOLD"
    BY <1>1, <1>6
  <2>2. ~Contains(string, "CR") /\ SetsColour(string)
    BY DEF Fit
  <2> QED
    BY <1>1, <1>2, <1>3, <1>5, <1>6, <1>7, <1>8, <2>1, <2>2, StringKept
<1>10. PICK end \in Pen :
           /\ end = Pens(start, string)[L]
           /\ r \in Screen
           /\ r.cursor = end.cursor /\ r.bold = end.bold /\ r.glyphs = end.glyphs /\ r.ok = end.ok
           /\ r.written = Append(s.written, string)
  <2>1. ~Contains(string, "CR")
    BY DEF Fit
  <2>2. PICK end \in Pen :
           /\ end = Pens(StartOf(s), string)[Len(string)]
           /\ r \in Screen
           /\ r.cursor = end.cursor /\ r.bold = end.bold /\ r.glyphs = end.glyphs /\ r.ok = end.ok
           /\ s.ok => r.written = Append(s.written, string)
    BY <1>2, <2>1, WriteIs
  <2> QED
    BY <1>1, <2>2
<1>11. Sofar(T, string, L) = T \o string
  BY <1>1, <1>2, <1>3, SofarExtends
<1>12. PICK U : U = T \o string
  OBVIOUS
<1>13. Keeps(end, U, string, L)
  BY <1>4, <1>9, <1>10, <1>11, <1>12
<1>14. FlattenSeq(r.written) = U
  BY <1>3, <1>10, <1>12
<1>15. r.ok => r.bold = Weight(FlattenSeq(r.written))
  BY <1>4, <1>10, <1>13, <1>14 DEF Keeps
<1>16. r.ok <=> ~Contains(string, "WIDE")
  <2>1. r.ok => \A m \in 1..L : string[m] # "WIDE"
    BY <1>10, <1>13 DEF Keeps
  <2>2. r.ok => ~Contains(string, "WIDE")
    BY <1>1, <2>1 DEF Contains
  <2>3. ~r.ok => Contains(string, "WIDE")
    BY <1>10, <1>13 DEF Keeps
  <2> QED
    BY <2>2, <2>3
<1>17. ASSUME end.ok PROVE Behind(end.cursor, end.glyphs)
  <2>1. PICK pen : pen = Pens(start, string)[L - 1]
    OBVIOUS
  <2>2. pen \in Pen /\ end = put(pen, string[L])
    BY <1>1, <1>2, <1>4, <1>5, <1>10, <2>1, PensRun DEF Fit
  <2>3. string[L] \in Token
    BY <1>1, <1>2, <1>4
  <2>7. string[L] \in {"NL", Gap}
    BY <1>1 DEF Fit
  <2>4. pen.ok
    BY <1>17, <2>2 DEF put
  <2>5. Keeps(pen, Sofar(T, string, L - 1), string, L - 1)
    BY <1>4, <1>9, <2>1
  <2>6. Follows(pen, Sofar(T, string, L - 1))
    BY <2>4, <2>5 DEF Keeps
  <2> QED
    BY <1>17, <2>2, <2>3, <2>6, <2>7, LastTurn
<1>18. end.ok => Len(end.glyphs) = Chars(U, Len(U)) /\ end.cursor.y = 24 + 16 * Lines(U, Len(U))
  BY <1>13 DEF Keeps, Follows
<1>19. Shown(r)
  BY <1>10, <1>13, <1>14, <1>17, <1>18 DEF Shown, Keeps
<1> QED
  BY <1>10, <1>15, <1>16, <1>19

\* Nothing is written to a screen that failed.
LEMMA WriteStuck ==
  ASSUME NEW s \in Screen, ~s.ok, NEW string \in Seq(Token), ~Contains(string, "CR")
  PROVE  write_str(s, string) = s
<1>1. PICK start, L, f, r : start = StartOf(s) /\ L = Len(string) /\ f = Pens(start, string)
                          /\ r = write_str(s, string)
  OBVIOUS
<1>2. start \in Pen /\ ~start.ok /\ L \in Nat
  BY <1>1 DEF StartOf, Screen, Cursor, Pen
<1>3. f[0] = start /\ \A n \in 1..L : f[n] = put(f[n - 1], string[n])
  BY <1>1, <1>2, PensRun
<1> DEFINE N == {n \in Nat : n <= L => f[n] = start}
<1>4. 0 \in N
  BY <1>3
<1>5. ASSUME NEW n \in Nat, n \in N PROVE n + 1 \in N
  <2> SUFFICES ASSUME n + 1 <= L PROVE f[n + 1] = start
    OBVIOUS
  <2>1. n + 1 \in 1..L /\ (n + 1) - 1 = n /\ f[n] = start
    BY <1>2, <1>5
  <2> QED
    BY <1>2, <1>3, <2>1 DEF put
<1> HIDE DEF N
<1>6. \A n \in Nat : n \in N
  BY <1>4, <1>5, SetInduction
<1>7. f[L] = start
  BY <1>2, <1>6 DEF N
<1>8. /\ r.cursor = start.cursor /\ r.bold = start.bold /\ r.glyphs = start.glyphs
      /\ r.ok = start.ok /\ r.written = s.written /\ r \in Screen
  BY <1>1, <1>7, WriteIs
<1>9. /\ start.cursor = s.cursor /\ start.bold = s.bold /\ start.glyphs = s.glyphs /\ start.ok = s.ok
  BY <1>1 DEF StartOf
<1>10. r = s
  BY <1>8, <1>9 DEF Screen
<1> QED
  BY <1>1, <1>10

-----------------------------------------------------------------------------
(***************************************************************************)
(* The strings of the kernel.                                              *)
(***************************************************************************)

Writable(s) == s \in Seq(Token) /\ ~Contains(s, "CR") /\ SetsColour(s)
LogLine == {KeyLog, FatalLog} \cup Logs
Line(s) == s \o <<"NL">>

\* A string with its newline
LEMMA LineFits ==
  ASSUME NEW s, Writable(s)
  PROVE  /\ Fit(Line(s)) /\ Line(s) \in Seq(Token)
         /\ Contains(Line(s), "WIDE") <=> Contains(s, "WIDE")
         /\ s # <<>> => Line(s)[1] = s[1]
<1>1. s \in Seq(Token) /\ ~Contains(s, "CR") /\ SetsColour(s)
  BY DEF Writable
<1>2. "NL" \in Token
  BY ControlNames DEF Token
<1>3. PICK L, nl, r : L = Len(s) /\ nl = <<"NL">> /\ r = s \o nl
  OBVIOUS
<1>4. L \in Nat /\ nl \in Seq(Token) /\ Len(nl) = 1 /\ nl[1] = "NL"
  BY <1>1, <1>2, <1>3
<1>5. r \in Seq(Token) /\ Len(r) = L + 1
  BY <1>1, <1>3, <1>4, ConcatProperties
<1>6. (\A k \in 1..L : r[k] = s[k]) /\ r[L + 1] = "NL"
  <2>1. \A k \in 1..L : r[k] = s[k]
    BY <1>1, <1>3, <1>4
  <2>2. r[L + 1] = nl[1]
    BY <1>1, <1>3, <1>4
  <2> QED
    BY <1>4, <2>1, <2>2
<1>7. ~Contains(r, "CR") /\ (Contains(r, "WIDE") <=> Contains(s, "WIDE"))
  <2>1. \A e : e # "NL" /\ Contains(r, e) => Contains(s, e)
    <3> SUFFICES ASSUME NEW e, e # "NL", NEW i \in 1..L + 1, r[i] = e PROVE \E j \in 1..L : s[j] = e
      BY <1>3, <1>5 DEF Contains
    <3>1. i \in 1..L
      BY <1>4, <1>6
    <3> QED
      BY <1>6, <3>1
  <2>2. \A e : Contains(s, e) => Contains(r, e)
    <3> SUFFICES ASSUME NEW e, NEW i \in 1..L, s[i] = e PROVE \E j \in 1..L + 1 : r[j] = e
      BY <1>3, <1>5 DEF Contains
    <3>1. i \in 1..L + 1 /\ r[i] = e
      BY <1>4, <1>6
    <3> QED
      BY <3>1
  <2> QED
    BY <1>1, <2>1, <2>2
<1>8. SetsColour(r)
  <2> SUFFICES ASSUME NEW n \in 1..L + 1, r[n] \notin Undrawn
               PROVE  \E j \in 1..n - 1 : r[j] \in Colours /\ \A m \in j + 1..n - 1 : r[m] # "NORMAL"
    BY <1>5 DEF SetsColour
  <2>1. n \in 1..L /\ s[n] \notin Undrawn
    BY <1>4, <1>6, ControlNames
  <2>2. PICK j \in 1..n - 1 : s[j] \in Colours /\ \A m \in j + 1..n - 1 : s[m] # "NORMAL"
    BY <1>1, <1>3, <2>1 DEF SetsColour
  <2>3. j \in 1..L /\ \A m \in j + 1..n - 1 : m \in 1..L
    BY <1>4, <2>1, <2>2
  <2> QED
    BY <1>6, <2>2, <2>3
<1>9. r # <<>> /\ r[Len(r)] = "NL"
  BY <1>4, <1>5, <1>6
<1>10. s # <<>> => r[1] = s[1]
  <2>1. s # <<>> => 1 \in 1..L
    BY <1>1, <1>3, <1>4, EmptySeq
  <2> QED
    BY <1>6, <2>1
<1>11. Fit(r)
  BY <1>5, <1>7, <1>8, <1>9 DEF Fit
<1> QED
  BY <1>3, <1>5, <1>7, <1>10, <1>11 DEF Line

\* The header of the panic screen.
LEMMA HeaderWritable ==
  Writable(PanicHeader) /\ PanicHeader[1] = "BOLD" /\ PanicHeader # <<>> /\ ~Contains(PanicHeader, "WIDE")
<1>1. /\ Len(PanicHeader) = 7 /\ PanicHeader \in Seq(Range(PanicHeader))
      /\ PanicHeader[1] = "BOLD" /\ PanicHeader[2] = "RED" /\ PanicHeader[6] = "NORMAL" /\ PanicHeader[7] = "NL"
  BY DEF PanicHeader, Range
<1>2. \A n \in 3..5 : PanicHeader[n] \notin {"NORMAL", "CR", "WIDE"}
  BY DEF PanicHeader
<1>3. Range(PanicHeader) \subseteq Token
  BY DEF Token, Strings
<1>4. PanicHeader \in Seq(Token)
  <2>1. \A k \in 1..Len(PanicHeader) : PanicHeader[k] \in Range(PanicHeader)
    BY <1>1, ElementOfSeq
  <2> QED
    BY <1>1, <1>3, <2>1, SeqOver
<1>5. \A n \in 1..7 : PanicHeader[n] # "CR" /\ PanicHeader[n] # "WIDE"
  <2>1. \A n \in 1..7 : n \in {1, 2, 6, 7} \/ n \in 3..5
    OBVIOUS
  <2> QED
    BY <1>1, <1>2, <2>1
<1>6. ~Contains(PanicHeader, "CR") /\ ~Contains(PanicHeader, "WIDE")
  BY <1>1, <1>5 DEF Contains
<1>7. SetsColour(PanicHeader)
  <2> SUFFICES ASSUME NEW n \in 1..7, PanicHeader[n] \notin Undrawn
               PROVE  \E j \in 1..n - 1 : /\ PanicHeader[j] \in Colours
                                          /\ \A m \in j + 1..n - 1 : PanicHeader[m] # "NORMAL"
    BY <1>1 DEF SetsColour
  <2>1. "BOLD" \in Undrawn /\ "RED" \in Undrawn /\ "RED" \in Colours /\ "NORMAL" \in Undrawn /\ "NL" \in Undrawn
    BY DEF Undrawn, Controls, Colours
  <2>2. n \in 3..5
    <3>1. n # 1 /\ n # 2 /\ n # 6 /\ n # 7
      BY <1>1, <2>1
    <3> QED
      BY <3>1
  <2>3. 2 \in 1..n - 1 /\ \A m \in 2 + 1..n - 1 : m \in 3..5
    BY <2>2
  <2>4. \A m \in 2 + 1..n - 1 : PanicHeader[m] # "NORMAL"
    BY <1>2, <2>3
  <2> QED
    BY <1>1, <2>1, <2>3, <2>4
<1>8. PanicHeader # <<>>
  BY <1>1
<1> QED
  BY <1>1, <1>4, <1>6, <1>7, <1>8 DEF Writable

\* What else is written.
LEMMA StringsWritable ==
  /\ \A s \in {Motd, Prompt, KeyLog, FatalLog} \cup Logs : Writable(s)
  /\ Fit(Prompt) /\ ~Contains(Prompt, "WIDE") /\ ~Contains(Motd, "WIDE")
<1>1. ASSUME NEW s \in {Motd, Prompt, KeyLog, FatalLog} \cup Logs PROVE Writable(s)
  <2>1. s \in Seq(Range(s)) /\ SetsColour(s) /\ ~Contains(s, "CR")
    BY VgaAssumption, TextAssumption, Zenon
  <2>2. Range(s) \subseteq Token
    BY DEF Token, Strings
  <2>3. \A k \in 1..Len(s) : s[k] \in Range(s)
    BY <2>1
  <2>4. s \in Seq(Token)
    BY <2>1, <2>2, <2>3, SeqOver
  <2> QED
    BY <2>1, <2>4 DEF Writable
<1>2. ~Contains(Prompt, "WIDE") /\ ~Contains(Motd, "WIDE") /\ Prompt # <<>> /\ Prompt[Len(Prompt)] = Gap
  BY TextAssumption, Zenon DEF Gap
<1> QED
  BY <1>1, <1>2 DEF Fit, Writable

-----------------------------------------------------------------------------
(***************************************************************************)
(* The writers.                                                            *)
(***************************************************************************)

\* Shown, in the weight the text has come to
Ready(s) == s \in Screen /\ Shown(s) /\ (s.ok => s.bold = Weight(FlattenSeq(s.written)))

\* A line that is written to a screen.
LEMMA LineShows ==
  ASSUME NEW s \in Screen, Shown(s), s.ok, NEW line, Writable(line),
         Ready(s) \/ (line # <<>> /\ line[1] = "BOLD"),
         NEW r, r = writeln(s, line)
  PROVE  /\ Ready(r) /\ r.written = Append(s.written, Line(line))
         /\ r.ok <=> ~Contains(line, "WIDE")
<1>1. /\ Fit(Line(line)) /\ (Contains(Line(line), "WIDE") <=> Contains(line, "WIDE"))
      /\ line # <<>> => Line(line)[1] = line[1]
  BY LineFits
<1>2. r = write_str(s, Line(line))
  BY DEF writeln, Line
<1>3. s.bold = Weight(FlattenSeq(s.written)) \/ Line(line)[1] = "BOLD"
  BY <1>1 DEF Ready
<1>4. /\ r \in Screen /\ Shown(r) /\ r.written = Append(s.written, Line(line))
      /\ r.ok => r.bold = Weight(FlattenSeq(r.written))
      /\ r.ok <=> ~Contains(Line(line), "WIDE")
  BY <1>1, <1>2, <1>3, WriteShows
<1> QED
  BY <1>1, <1>4 DEF Ready

\* Shell::display shows the file motd and the prompt.
LEMMA DisplayShows ==
  ASSUME NEW s, Ready(s), s.ok
  PROVE  Ready(display(s)) /\ display(s).ok
<1>1. PICK m : m = writeln(s, Motd)
  OBVIOUS
<1>2. Ready(m) /\ m.ok
  <2>1. s \in Screen /\ Shown(s)
    BY DEF Ready
  <2>2. Ready(m) /\ (~m.ok => Contains(Motd, "WIDE"))
    BY <1>1, <2>1, LineShows, StringsWritable
  <2>3. m.ok \in BOOLEAN
    BY <2>2 DEF Ready, Screen
  <2> QED
    BY <2>2, <2>3, StringsWritable
<1>3. PICK r : r = write_str(m, Prompt)
  OBVIOUS
<1>4. /\ r \in Screen /\ Shown(r)
      /\ r.ok => r.bold = Weight(FlattenSeq(r.written))
      /\ ~r.ok => Contains(Prompt, "WIDE")
  <2>1. m \in Screen /\ Shown(m) /\ m.bold = Weight(FlattenSeq(m.written))
    BY <1>2 DEF Ready
  <2> QED
    BY <1>2, <1>3, <2>1, StringsWritable, WriteShows
<1>5. display(s) = r
  BY <1>1, <1>3 DEF display
<1> QED
  BY <1>4, <1>5, StringsWritable DEF Ready

\* A screen that has just been cleared shows the empty text.
LEMMA ClearShows ==
  ASSUME NEW s \in Screen, NEW r, r = clear(s)
  PROVE  /\ r \in Screen /\ Shown(r) /\ r.ok = s.ok /\ r.written = <<>>
         /\ ~s.bold => Ready(r)
<1>1. "DEFAULT" \in Colours
  BY DEF Colours
<1>2. PICK c : c = [x |-> 8, y |-> 24, fg |-> "DEFAULT"]
  OBVIOUS
<1>3. c \in Cursor /\ c.y = 24
  BY <1>1, <1>2 DEF Cursor
<1>4. r = [s EXCEPT !.cursor = c, !.glyphs = <<>>, !.written = <<>>]
  BY <1>2 DEF clear
<1>5. <<>> \in Seq(Glyph) /\ <<>> \in Seq(Seq(Token))
  OBVIOUS
<1>6. /\ r \in Screen /\ r.cursor = c /\ r.glyphs = <<>> /\ r.written = <<>>
      /\ r.ok = s.ok /\ r.bold = s.bold
  BY <1>3, <1>4, <1>5 DEF Screen
<1>7. FlattenSeq(r.written) = <<>>
  BY <1>6, FlattenEmpty
<1>8. Chars(<<>>, 0) = 0 /\ Lines(<<>>, 0) = 0
  BY Counts
<1>9. Len(<<>>) = 0 /\ 24 + 16 * 0 = 24 /\ 1..0 = {}
  OBVIOUS
<1>10. Drawn(<<>>, <<>>)
  BY <1>8, <1>9 DEF Drawn
<1>11. Apart(<<>>) /\ Behind(c, <<>>)
  BY <1>9 DEF Apart, Behind
<1>12. Shown(r)
  BY <1>3, <1>6, <1>7, <1>8, <1>9, <1>10, <1>11 DEF Shown
<1>13. Weight(<<>>) = FALSE
  <2>1. Latest(<<>>, 0, {"BOLD", "NORMAL"}, "NORMAL") = "NORMAL"
    BY LatestNext
  <2> QED
    BY <1>9, <2>1 DEF Weight
<1>14. ~s.bold => r.bold = FALSE
  BY <1>6 DEF Screen
<1> QED
  BY <1>6, <1>7, <1>12, <1>13, <1>14 DEF Ready

\* A screen stays a screen.
LEMMA LineType ==
  ASSUME NEW s \in Screen, NEW line, Writable(line)
  PROVE  /\ writeln(s, line) \in Screen
         /\ ~s.ok => writeln(s, line) = s
<1>1. Line(line) \in Seq(Token) /\ ~Contains(Line(line), "CR")
  BY LineFits DEF Fit
<1>2. writeln(s, line) = write_str(s, Line(line))
  BY DEF writeln, Line
<1>3. write_str(s, Line(line)) \in Screen
  BY <1>1, WriteIs
<1> QED
  BY <1>1, <1>2, <1>3, WriteStuck

\* The loop of the panic handler.
LEMMA ScreensRun ==
  ASSUME NEW start \in Screen, NEW lines \in Seq(LogLine)
  PROVE  /\ Screens(start, lines)[0] = start
         /\ \A n \in 0..Len(lines) : Screens(start, lines)[n] \in Screen
         /\ \A n \in 1..Len(lines) :
              Screens(start, lines)[n] = writeln(Screens(start, lines)[n - 1], lines[n])
<1>1. PICK L : L = Len(lines)
  OBVIOUS
<1>2. L \in Nat /\ \A n \in 1..L : Writable(lines[n])
  BY <1>1, StringsWritable DEF LogLine
<1> DEFINE step == [q \in Screen \X (1..L) |-> writeln(q[1], lines[q[2]])]
<1>3. step \in [Screen \X (1..L) -> Screen]
  <2>1. \A q \in Screen \X (1..L) : writeln(q[1], lines[q[2]]) \in Screen
    BY <1>2, LineType
  <2> QED
    BY <2>1
<1>4. ASSUME NEW p \in Screen, NEW n \in 1..L PROVE step[<<p, n>>] = writeln(p, lines[n])
  OBVIOUS
<1> HIDE DEF step
<1>5. PICK f \in [0..L -> Screen] : Runs(f, step, start, L)
  BY <1>2, <1>3, LoopRuns
<1>6. ASSUME NEW n \in 0..L PROVE f[n] = IF n = 0 THEN start ELSE writeln(f[n - 1], lines[n])
  <2>1. CASE n = 0
    BY <1>5, <2>1 DEF Runs
  <2>2. CASE n # 0
    <3>1. n \in 1..L /\ n - 1 \in 0..L
      BY <1>2, <2>2
    <3>2. f[n] = step[<<f[n - 1], n>>] /\ f[n - 1] \in Screen
      BY <1>5, <3>1 DEF Runs
    <3> QED
      BY <1>4, <2>2, <3>1, <3>2
  <2> QED
    BY <2>1, <2>2
<1>7. f = [n \in 0..L |-> IF n = 0 THEN start ELSE writeln(f[n - 1], lines[n])]
  BY <1>5, <1>6
<1>8. PICK g : g = Screens(start, lines)
  OBVIOUS
<1>9. g = [n \in 0..L |-> IF n = 0 THEN start ELSE writeln(g[n - 1], lines[n])]
  BY <1>1, <1>7, <1>8 DEF Screens
<1>10. g[0] = start /\ \A n \in 1..L : g[n] = writeln(g[n - 1], lines[n])
  <2>1. 0 \in 0..L /\ \A n \in 1..L : n \in 0..L /\ n # 0
    BY <1>2
  <2> QED
    BY <1>9, <2>1
<1> DEFINE N == {n \in Nat : n <= L => g[n] \in Screen}
<1>11. 0 \in N
  BY <1>10
<1>12. ASSUME NEW n \in Nat, n \in N PROVE n + 1 \in N
  <2> SUFFICES ASSUME n + 1 <= L PROVE g[n + 1] \in Screen
    OBVIOUS
  <2>1. n + 1 \in 1..L /\ (n + 1) - 1 = n /\ g[n] \in Screen
    BY <1>2, <1>12
  <2> QED
    BY <1>2, <1>10, <2>1, LineType
<1> HIDE DEF N
<1>13. \A n \in Nat : n \in N
  BY <1>11, <1>12, SetInduction
<1>14. \A n \in 0..L : g[n] \in Screen
  BY <1>2, <1>13 DEF N
<1> QED
  BY <1>1, <1>8, <1>10, <1>14

\* The screen after n lines of the panic handler's loop
Reports(s, lines, n) ==
  /\ Ready(s)
  /\ s.ok => Len(s.written) = n + 1 /\ \A i \in 1..n : s.written[i + 1] = Line(lines[i])
  /\ s.ok <=> ~\E i \in 1..n : Contains(lines[i], "WIDE")

\* Every line is written, up to one that cannot be shown.
LEMMA LoopReports ==
  ASSUME NEW start, Ready(start), start.ok, Len(start.written) = 1, NEW lines \in Seq(LogLine)
  PROVE  Reports(Screens(start, lines)[Len(lines)], lines, Len(lines))
<1>1. PICK f, L : f = Screens(start, lines) /\ L = Len(lines)
  OBVIOUS
<1>2. L \in Nat /\ \A n \in 1..L : Writable(lines[n])
  BY <1>1, StringsWritable DEF LogLine
<1>3. f[0] = start /\ \A n \in 1..L : f[n - 1] \in Screen /\ f[n] = writeln(f[n - 1], lines[n])
  <2>1. start \in Screen
    BY DEF Ready
  <2>2. /\ f[0] = start
        /\ \A n \in 0..L : f[n] \in Screen
        /\ \A n \in 1..L : f[n] = writeln(f[n - 1], lines[n])
    BY <1>1, <2>1, ScreensRun
  <2>3. \A n \in 1..L : n - 1 \in 0..L
    BY <1>2
  <2> QED
    BY <2>2, <2>3
<1> DEFINE N == {n \in Nat : n <= L => Reports(f[n], lines, n)}
<1>4. 0 \in N
  <2>1. 1..0 = {} /\ 0 + 1 = 1
    OBVIOUS
  <2>2. Reports(start, lines, 0)
    BY <2>1 DEF Reports
  <2> QED
    BY <1>3, <2>2
<1>5. ASSUME NEW n \in Nat, n \in N PROVE n + 1 \in N
  <2> SUFFICES ASSUME n + 1 <= L PROVE Reports(f[n + 1], lines, n + 1)
    OBVIOUS
  <2>1. n + 1 \in 1..L /\ (n + 1) - 1 = n /\ Reports(f[n], lines, n)
    BY <1>2, <1>5
  <2>2. PICK s, r, line : s = f[n] /\ r = f[n + 1] /\ line = lines[n + 1]
    OBVIOUS
  <2>3. s \in Screen /\ r = writeln(s, line) /\ Writable(line) /\ Ready(s)
    BY <1>2, <1>3, <2>1, <2>2 DEF Reports
  <2>4. \A i \in 1..n : i \in 1..n + 1
    OBVIOUS
  <2>5. CASE ~s.ok
    <3>1. r = s
      BY <2>3, <2>5, LineType
    <3>2. \E i \in 1..n : Contains(lines[i], "WIDE")
      BY <2>1, <2>2, <2>5 DEF Reports
    <3>3. \E i \in 1..n + 1 : Contains(lines[i], "WIDE")
      BY <2>4, <3>2
    <3> QED
      BY <2>2, <2>3, <2>5, <3>1, <3>3 DEF Reports
  <2>6. CASE s.ok
    <3>1. /\ Ready(r) /\ r.written = Append(s.written, Line(line))
          /\ r.ok <=> ~Contains(line, "WIDE")
      BY <2>3, <2>6, LineShows DEF Ready
    <3>2. Len(s.written) = n + 1 /\ \A i \in 1..n : s.written[i + 1] = Line(lines[i])
      BY <2>1, <2>2, <2>6 DEF Reports
    <3>3. PICK w, v : w \in Seq(Seq(Token)) /\ w = s.written /\ v = Append(w, Line(line))
      BY <2>3 DEF Screen
    <3>4. Line(line) \in Seq(Token)
      BY <2>3, LineFits
    <3>5. Len(v) = n + 2 /\ v[n + 2] = Line(line) /\ \A i \in 1..n + 1 : v[i] = w[i]
      BY <3>2, <3>3, <3>4
    <3>6. ASSUME NEW i \in 1..n + 1 PROVE v[i + 1] = Line(lines[i])
      <4>1. CASE i = n + 1
        BY <2>2, <3>5, <4>1
      <4>2. CASE i \in 1..n
        <5>1. i + 1 \in 1..n + 1
          BY <4>2
        <5> QED
          BY <3>2, <3>3, <3>5, <4>2, <5>1
      <4> QED
        BY <4>1, <4>2
    <3>7. Len(v) = (n + 1) + 1 /\ r.written = v
      BY <3>1, <3>3, <3>5
    <3>8. r.ok <=> ~\E i \in 1..n + 1 : Contains(lines[i], "WIDE")
      <4>1. \A i \in 1..n + 1 : i \in 1..n \/ i = n + 1
        OBVIOUS
      <4>2. n + 1 \in 1..n + 1
        OBVIOUS
      <4>3. ~\E i \in 1..n : Contains(lines[i], "WIDE")
        BY <2>1, <2>2, <2>6 DEF Reports
      <4> QED
        BY <2>2, <3>1, <4>1, <4>2, <4>3
    <3> QED
      BY <2>2, <3>1, <3>6, <3>7, <3>8 DEF Reports
  <2> QED
    BY <2>5, <2>6
<1> HIDE DEF N
<1>6. \A n \in Nat : n \in N
  BY <1>4, <1>5, SetInduction
<1>7. Reports(f[L], lines, L)
  BY <1>2, <1>6 DEF N
<1> QED
  BY <1>1, <1>7

-----------------------------------------------------------------------------
(***************************************************************************)
(* The invariant.                                                          *)
(***************************************************************************)

\* The screen is Ready only once the console is there: until then the cursor is
\* where the intro screen left it, in the regular font.
VInv ==
  /\ screen \in Screen /\ logs \in Seq(LogLine) /\ console \in BOOLEAN
  /\ state \in {"running", "panicked", "stuck"}
  /\ Drawn(glyphs, Text) /\ Apart(glyphs)
  /\ state # "stuck" => Len(glyphs) = Chars(Text, Len(Text))
  /\ state = "running" => IF console THEN Ready(screen) ELSE ~bold
  /\ PanicShowsEveryLog

\* The screen's fields
LEMMA ScreenIs ==
  /\ screen.cursor = cursor /\ screen.bold = bold /\ screen.glyphs = glyphs
  /\ screen.written = written /\ screen.ok
BY DEF screen

\* The screen that is left is shown.
LEMMA ShowIs ==
  ASSUME NEW s \in Screen, Show(s)
  PROVE  /\ screen' \in Screen
         /\ s.ok => screen' = s
         /\ glyphs' = s.glyphs /\ written' = s.written /\ Text' = FlattenSeq(s.written)
<1>1. cursor' = s.cursor /\ bold' = s.bold /\ glyphs' = s.glyphs /\ written' = s.written
  BY DEF Show
<1>2. screen' = [cursor |-> cursor', bold |-> bold', glyphs |-> glyphs', written |-> written', ok |-> TRUE]
  BY DEF screen
<1>3. screen' \in Screen
  BY <1>1, <1>2 DEF Screen
<1>4. s.ok => screen' = s
  BY <1>1, <1>2 DEF Screen
<1> QED
  BY <1>1, <1>3, <1>4 DEF Text

\* The screen before the first Enter key
LEMMA InitVInv == Init => VInv
<1> SUFFICES ASSUME Init PROVE VInv
  OBVIOUS
<1>1. cursor \in Cursor
  <2>1. "DEFAULT" \in Colours
    BY DEF Colours
  <2>2. PICK x, y : x = Width \div 2 /\ y = Height - Height \div 4
    OBVIOUS
  <2>3. x \in Nat /\ y \in Nat
    <3>1. Width \in Nat /\ Height \in Nat
      BY VgaAssumption
    <3>2. Width \div 2 \in Nat /\ Height \div 4 \in Nat /\ Height = 4 * (Height \div 4) + (Height % 4)
          /\ Height % 4 \in Nat
      <4>1. 2 \in Nat \ {0} /\ 4 \in Nat \ {0}
        OBVIOUS
      <4> QED
        BY <3>1, <4>1, DivMod
    <3> QED
      BY <2>2, <3>1, <3>2
  <2> QED
    BY <2>1, <2>2, <2>3 DEF Init, Cursor
<1>2. screen \in Screen
  <2>1. <<>> \in Seq(Glyph) /\ <<>> \in Seq(Seq(Token))
    OBVIOUS
  <2>2. glyphs \in Seq(Glyph) /\ written \in Seq(Seq(Token)) /\ bold \in BOOLEAN
    BY <2>1 DEF Init
  <2> QED
    BY <1>1, <2>2 DEF screen, Screen
<1>3. Text = <<>> /\ Len(<<>>) = 0 /\ 1..0 = {}
  BY FlattenEmpty DEF Init, Text
<1>4. Chars(<<>>, 0) = 0
  BY Counts
<1>5. Drawn(glyphs, Text) /\ Apart(glyphs) /\ Len(glyphs) = Chars(Text, Len(Text))
  BY <1>3, <1>4 DEF Init, Drawn, Apart
<1>6. PanicShowsEveryLog
  BY DEF Init, PanicShowsEveryLog
<1>7. <<>> \in Seq(LogLine)
  OBVIOUS
<1>8. /\ logs \in Seq(LogLine) /\ console = FALSE /\ bold = FALSE /\ state = "running"
  BY <1>7 DEF Init
<1> QED
  BY <1>2, <1>5, <1>6, <1>8 DEF VInv

\* The Enter key.
LEMMA InterpretVInv == VInv /\ interpret => VInv'
<1> SUFFICES ASSUME VInv, interpret PROVE VInv'
  OBVIOUS
<1>1. PICK c : c = IF console THEN screen ELSE new_console(screen)
  OBVIOUS
<1>2. Ready(c) /\ c.ok
  <2>1. CASE console
    BY <1>1, <2>1, ScreenIs DEF VInv, interpret
  <2>2. CASE ~console
    <3>1. screen \in Screen /\ ~screen.bold /\ screen.ok /\ c = clear(screen)
      BY <1>1, <2>2, ScreenIs DEF VInv, interpret, new_console
    <3> QED
      BY <3>1, ClearShows
  <2> QED
    BY <2>1, <2>2
<1>3. PICK s : s = display(c)
  OBVIOUS
<1>4. Ready(s) /\ s.ok
  BY <1>2, <1>3, DisplayShows
<1>5. Show(s) /\ state' = "running" /\ console' = TRUE /\ logs' = Append(logs, KeyLog)
  BY <1>1, <1>3, <1>4 DEF interpret
<1>6. s \in Screen /\ Shown(s)
  BY <1>4 DEF Ready
<1>7. screen' = s /\ screen' \in Screen /\ glyphs' = s.glyphs /\ Text' = FlattenSeq(s.written)
  BY <1>4, <1>5, <1>6, ShowIs
<1>8. Drawn(glyphs', Text') /\ Apart(glyphs') /\ Len(glyphs') = Chars(Text', Len(Text'))
  BY <1>4, <1>6, <1>7 DEF Shown
<1>9. logs' \in Seq(LogLine)
  <2>1. KeyLog \in LogLine /\ logs \in Seq(LogLine)
    BY DEF LogLine, VInv
  <2> QED
    BY <1>5, <2>1
<1>10. PanicShowsEveryLog'
  BY <1>5 DEF PanicShowsEveryLog
<1> QED
  BY <1>4, <1>5, <1>7, <1>8, <1>9, <1>10 DEF VInv

\* A line is logged.
LEMMA LogVInv ==
  ASSUME VInv, NEW line \in Logs, log(line)
  PROVE  VInv'
<1>1. screen' = screen /\ Text' = Text /\ glyphs' = glyphs /\ console' = console /\ state' = "running"
      /\ state = "running" /\ bold' = bold
  BY DEF log, screen, Text
<1>2. logs' \in Seq(LogLine)
  <2>1. line \in LogLine /\ logs \in Seq(LogLine) /\ logs' = Append(logs, line)
    BY DEF LogLine, VInv, log
  <2> QED
    BY <2>1
<1>3. PanicShowsEveryLog'
  BY <1>1 DEF PanicShowsEveryLog
<1> QED
  BY <1>1, <1>2, <1>3 DEF VInv

\* The panic handler.
LEMMA PanicVInv == VInv /\ panic => VInv'
<1> SUFFICES ASSUME VInv, panic PROVE VInv'
  OBVIOUS
<1>1. PICK lines : lines = Append(logs, FatalLog)
  OBVIOUS
<1>2. lines \in Seq(LogLine) /\ logs' = lines
  <2>1. FatalLog \in LogLine /\ logs \in Seq(LogLine)
    BY DEF LogLine, VInv
  <2> QED
    BY <1>1, <2>1 DEF panic
<1>3. PICK c, h : c = clear(screen) /\ h = writeln(c, PanicHeader)
  OBVIOUS
<1>4. c \in Screen /\ Shown(c) /\ c.ok /\ c.written = <<>>
  BY <1>3, ClearShows, ScreenIs DEF VInv
<1>5. Ready(h) /\ h.written = Append(c.written, Line(PanicHeader)) /\ (~h.ok => Contains(PanicHeader, "WIDE"))
  BY <1>3, <1>4, LineShows, HeaderWritable
<1>6. h.ok /\ Len(h.written) = 1
  <2>1. Line(PanicHeader) \in Seq(Token) /\ c.written \in Seq(Seq(Token)) /\ Len(c.written) = 0
    BY <1>4, LineFits, HeaderWritable
  <2>2. Len(h.written) = 1
    BY <1>5, <2>1
  <2> QED
    BY <1>5, <2>2, HeaderWritable
<1>7. PICK s, L : s = Screens(h, lines)[L] /\ L = Len(lines)
  OBVIOUS
<1>8. Reports(s, lines, L)
  BY <1>2, <1>5, <1>6, <1>7, LoopReports
<1>9. /\ Show(s) /\ console' = console
      /\ s.ok => state' = "panicked"
      /\ ~s.ok => state' = "stuck"
  BY <1>2, <1>3, <1>7 DEF panic
<1>10. s \in Screen /\ Shown(s) /\ s.ok \in BOOLEAN
  BY <1>8 DEF Reports, Ready, Screen
<1>11. screen' \in Screen /\ glyphs' = s.glyphs /\ written' = s.written /\ Text' = FlattenSeq(s.written)
  BY <1>9, <1>10, ShowIs
<1>12. Drawn(glyphs', Text') /\ Apart(glyphs') /\ (s.ok => Len(glyphs') = Chars(Text', Len(Text')))
  BY <1>10, <1>11 DEF Shown
<1>13. PanicShowsEveryLog'
  <2>1. CASE s.ok
    <3>1. ASSUME NEW i \in 1..Len(logs')
          PROVE  \E j \in 1..Len(written') : written'[j] = logs'[i] \o <<"NL">>
      <4>1. /\ Len(written') = L + 1 /\ L \in Nat /\ i \in 1..L
            /\ written'[i + 1] = Line(logs'[i])
        BY <1>2, <1>7, <1>8, <1>11, <2>1 DEF Reports
      <4>2. i + 1 \in 1..Len(written')
        BY <4>1
      <4> QED
        BY <4>1, <4>2 DEF Line
    <3>2. ~\E i \in 1..Len(logs') : Contains(logs'[i], "WIDE")
      BY <1>2, <1>7, <1>8, <2>1 DEF Reports
    <3> QED
      BY <1>9, <2>1, <3>1, <3>2 DEF PanicShowsEveryLog
  <2>2. CASE ~s.ok
    <3>1. \E i \in 1..Len(logs') : Contains(logs'[i], "WIDE")
      BY <1>2, <1>7, <1>8, <2>2 DEF Reports
    <3> QED
      BY <1>9, <2>2, <3>1 DEF PanicShowsEveryLog
  <2> QED
    BY <2>1, <2>2
<1>14. state' \in {"panicked", "stuck"} /\ (state' # "stuck" => s.ok)
  BY <1>9, <1>10
<1>15. console' \in BOOLEAN
  BY <1>9 DEF VInv
<1> QED
  BY <1>2, <1>11, <1>12, <1>13, <1>14, <1>15 DEF VInv

\* The invariant holds in every state.
LEMMA VInvHolds == Spec => []VInv
<1>1. VInv /\ UNCHANGED vars => VInv'
  <2> SUFFICES ASSUME VInv, UNCHANGED vars PROVE VInv'
    OBVIOUS
  <2> QED
    BY DEF VInv, vars, screen, Text, PanicShowsEveryLog
<1>2. VInv /\ Next => VInv'
  BY InterpretVInv, LogVInv, PanicVInv DEF Next
<1> QED
  BY <1>1, <1>2, InitVInv, PTL DEF Spec

-----------------------------------------------------------------------------
(***************************************************************************)
(* The properties.                                                         *)
(***************************************************************************)

\* The k-th token, if it is a character, has a glyph of its own.
LEMMA CharsCount ==
  ASSUME NEW T, NEW k \in Nat, k >= 1, T[k] \notin Undrawn
  PROVE  Chars(T, k) \in Nat /\ Chars(T, k) >= 1
<1>1. PICK m \in Nat : k = m + 1
  <2>1. k - 1 \in Nat /\ k = (k - 1) + 1
    OBVIOUS
  <2> QED
    BY <2>1
<1>2. Chars(T, m + 1) = Chars(T, m) + (IF T[m + 1] \in Undrawn THEN 0 ELSE 1) /\ Chars(T, m) \in Nat
  BY <1>1, Counts
<1>3. Chars(T, k) = Chars(T, m) + 1
  BY <1>1, <1>2
<1> QED
  BY <1>2, <1>3

\* The text is a sequence of tokens.
LEMMA TextType ==
  ASSUME VInv
  PROVE  Text \in Seq(Token) /\ Len(Text) \in Nat /\ glyphs \in Seq(Glyph) /\ Len(glyphs) \in Nat
<1>1. written \in Seq(Seq(Token)) /\ glyphs \in Seq(Glyph)
  <2>1. screen.written \in Seq(Seq(Token)) /\ screen.glyphs \in Seq(Glyph)
    BY DEF VInv, Screen
  <2> QED
    BY <2>1, ScreenIs
<1>2. Text \in Seq(Token)
  BY <1>1, FlattenType DEF Text
<1> QED
  BY <1>1, <1>2

\* Although every write starts from the place and the colour that the last one
\* left in the cursor, and the font that it left, the screen shows the text as
\* a terminal would, and nothing but blanks is overwritten: whatever is logged
\* and however often the console is shown, as long as every string sets its
\* colours and the prompt ends in a blank.
THEOREM ScreenShowsText == Spec => []ShowsText
<1>1. VInv => ShowsText
  <2> SUFFICES ASSUME VInv, state # "stuck" PROVE
        /\ Len(glyphs) = Chars(Text, Len(Text))
        /\ \A k \in 1..Len(Text) :
             Text[k] \notin Undrawn => IsGlyph(glyphs[Chars(Text, k)], Text, k)
        /\ \A i, j \in 1..Len(glyphs) :
             i < j /\ glyphs[i].x = glyphs[j].x /\ glyphs[i].y = glyphs[j].y
               => glyphs[i].c = " "
    BY Zenon DEF ShowsText
  <2>1. Len(glyphs) = Chars(Text, Len(Text)) /\ Drawn(glyphs, Text) /\ Apart(glyphs)
    BY DEF VInv
  <2>2. ASSUME NEW k \in 1..Len(Text), Text[k] \notin Undrawn
        PROVE  IsGlyph(glyphs[Chars(Text, k)], Text, k)
    <3>1. k \in 0..Len(Text) /\ Len(Text) \in Nat
      BY TextType
    <3>2. Chars(Text, k) <= Len(glyphs)
      BY <2>1, <3>1, Counts
    <3> QED
      BY <2>1, <2>2, <3>2 DEF Drawn
  <2>3. \A i, j \in 1..Len(glyphs) :
          i < j /\ glyphs[i].x = glyphs[j].x /\ glyphs[i].y = glyphs[j].y
            => glyphs[i].c = " "
    BY <2>1, Zenon DEF Apart, Gap
  <2> QED
    BY <2>1, <2>2, <2>3, Zenon
<1> QED
  BY <1>1, VInvHolds, PTL

\* The panic handler shows every line that was ever logged, with the fatal one,
\* or hangs, and it hangs if and only if one of them holds a character from
\* U+0101 on, which Vga::write_char has no slice of the font for.
THEOREM PanicReports == Spec => []PanicShowsEveryLog
<1>1. VInv => PanicShowsEveryLog
  BY DEF VInv
<1> QED
  BY <1>1, VInvHolds, PTL

\* No glyph is drawn past the right edge.
RowsFit == \A i \in 1..Len(glyphs) : glyphs[i].x + FontWidth <= Width

\* The rows below the last that fits are those outside the screen.
LEMMA RowFits ==
  ASSUME NEW n \in Nat
  PROVE  24 + 16 * n + 3 >= Height <=> n >= Capacity
<1>1. Height \in Nat
  BY VgaAssumption
<1>2. PICK h \in Int : h = Height - 28
  BY <1>1
<1>3. Capacity = h \div 16 + 1
  <2>1. Height - 4 - 24 = h
    BY <1>1, <1>2
  <2> QED
    BY <2>1 DEF Capacity, FontHeight, GlyphSize
<1>4. PICK q \in Int : q = h \div 16 /\ 16 * q <= h /\ h < 16 * q + 16
  BY <1>2
<1> QED
  BY <1>1, <1>2, <1>3, <1>4

\* While no row is wider than the screen, text is drawn outside the framebuffer
\* as soon as there are more rows than fit, and never before: nothing scrolls.
THEOREM OffScreenWhenFull == Spec => [](RowsFit => OffScreenIffFull)
<1>1. VInv /\ RowsFit => OffScreenIffFull
  <2> SUFFICES ASSUME VInv, RowsFit PROVE OffScreenIffFull
    OBVIOUS
  <2>1. Drawn(glyphs, Text) /\ Text \in Seq(Token) /\ Len(Text) \in Nat /\ Len(glyphs) \in Nat
        /\ glyphs \in Seq(Glyph)
    BY TextType DEF VInv
  <2>2. ASSUME NEW i \in 1..Len(glyphs), NEW k \in 1..Len(Text), Text[k] \notin Undrawn,
               Chars(Text, k) = i
        PROVE  OffScreen(glyphs[i]) <=> Lines(Text, k) >= Capacity
    <3>1. IsGlyph(glyphs[i], Text, k)
      <4>1. Chars(Text, k) <= Len(glyphs)
        BY <2>1, <2>2
      <4> QED
        BY <2>1, <2>2, <4>1 DEF Drawn
    <3>2. Lines(Text, k) \in Nat
      BY <2>1, Counts
    <3>3. PICK n \in Nat, x \in Nat, y \in Nat :
            /\ n = Lines(Text, k) /\ x = glyphs[i].x /\ y = glyphs[i].y
            /\ y = 24 + 16 * n
      <4>1. glyphs[i] \in Glyph
        BY <2>1
      <4> QED
        BY <3>1, <3>2, <4>1 DEF IsGlyph, Glyph, FontHeight, GlyphSize
    <3>4. x + FontWidth <= Width /\ FontWidth = 8 /\ Width \in Nat /\ Height \in Nat
      BY <3>3, VgaAssumption DEF RowsFit, FontWidth, GlyphSize
    <3>5. OffScreen(glyphs[i]) <=> (y - 12 < 0 \/ y + 3 >= Height \/ x + FontWidth > Width)
      BY <3>3 DEF OffScreen
    <3>6. ~(y - 12 < 0)
      BY <3>3
    <3>7. ~(x + FontWidth > Width)
      <4>1. PICK w, f : w = Width /\ f = FontWidth
        OBVIOUS
      <4>2. x + f <= w /\ f = 8 /\ w \in Nat /\ x \in Nat
        BY <3>4, <4>1
      <4>3. ~(x + f > w)
        BY <4>2
      <4> QED
        BY <4>1, <4>3
    <3>8. y + 3 = 24 + 16 * n + 3
      BY <3>3
    <3> QED
      BY <3>3, <3>5, <3>6, <3>7, <3>8, RowFits
  <2>3. ASSUME NEW i \in 1..Len(glyphs), OffScreen(glyphs[i])
        PROVE  \E k \in 1..Len(Text) : /\ Text[k] \notin Undrawn /\ Chars(Text, k) <= Len(glyphs)
                                       /\ Lines(Text, k) >= Capacity
    <3>1. PICK k \in 1..Len(Text) : Text[k] \notin Undrawn /\ Chars(Text, k) = i
      BY <2>1 DEF Drawn
    <3>2. Lines(Text, k) >= Capacity
      BY <2>2, <2>3, <3>1
    <3> QED
      BY <2>1, <3>1, <3>2
  <2>4. ASSUME NEW k \in 1..Len(Text), Text[k] \notin Undrawn, Chars(Text, k) <= Len(glyphs),
               Lines(Text, k) >= Capacity
        PROVE  \E i \in 1..Len(glyphs) : OffScreen(glyphs[i])
    <3>1. Chars(Text, k) \in 1..Len(glyphs)
      BY <2>1, <2>4, CharsCount
    <3> QED
      BY <2>2, <2>4, <3>1
  <2> QED
    BY <2>3, <2>4 DEF OffScreenIffFull
<1> QED
  BY <1>1, VInvHolds, PTL

=============================================================================
