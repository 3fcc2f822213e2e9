------------------------------ MODULE Terminal ------------------------------
(***************************************************************************)
(* The character terminal: the escape sequences of lib/libdraw/terminal.c  *)
(* over the screen of lib/libdraw/console_bgr.c, compared with a text of   *)
(* rows that has a cursor.  The screen draws the cursor by inverting a     *)
(* cell and must undo that around every change.                            *)
(*                                                                         *)
(* A cell of the screen is a character and whether it is drawn inverted:   *)
(* pixels, colours and fonts are left out.  Bytes are their codes.         *)
(***************************************************************************)
EXTENDS Integers, SequencesExt, FiniteSetsExt

CONSTANTS
  Columns, Lines,     \* chr_width and chr_height, at least 2 lines
  TabColumns,         \* CONSOLE_TAB_COLUMNS
  Letter              \* codes of printable characters that are typed

VARIABLES kind, impl, ideal, got, want

terminalVars == <<kind, impl, ideal, got, want>>

Space == 32
Esc == 27
Bracket == 91
Delim == 59
Question == 63
Cell == 0 .. Columns * Lines - 1
Blank == <<Space, FALSE>>
MaxParams == 2       \* ESC_MAX_PARAMS
MaxColumns == 5      \* ESC_MAX_COLUMNS
EscBufSize == 16     \* ESC_BUF_SIZE

-----------------------------------------------------------------------------
(* The screen *)

At(t) == t.y * Columns + t.x

\* _cursor
Cursor(t) == [t EXCEPT !.cells[At(t)] = <<@[1], ~@[2]>>]

\* _fill of the cells in region
Fill(t, region) == [t EXCEPT !.cells = [i \in Cell |-> IF i \in region THEN Blank ELSE @[i]]]

Erase(t, type) ==
  LET row == t.y * Columns .. t.y * Columns + Columns - 1
      from == At(t) .. Columns * Lines - 1
      to == 0 .. At(t)
      region == CASE type = "screen from" -> from
                  [] type = "screen to" -> to
                  [] type = "screen" -> Cell
                  [] type = "line from" -> row \cap from
                  [] type = "line to" -> row \cap to
                  [] type = "line" -> row
  IN Cursor(Fill(Cursor(t), region))

Locate(t, x, y) ==
  IF x \in 0 .. Columns - 1 /\ y \in 0 .. Lines - 1
  THEN Cursor([Cursor(t) EXCEPT !.x = x, !.y = y]) ELSE t

\* _copy_up moves the rows as they are drawn.
CopyUp(t) == [t EXCEPT !.cells = [i \in Cell |-> IF i + Columns \in Cell THEN @[i + Columns] ELSE @[i]]]

\* _rollup by one line
Rollup(t) ==
  LET filled == Fill(CopyUp(Cursor(t)), (Lines - 1) * Columns .. Lines * Columns - 1)
  IN Cursor([filled EXCEPT !.y = @ - 1])

Newline(t) ==
  LET u == IF t.y >= Lines - 1 THEN Rollup(t) ELSE t
  IN [u EXCEPT !.x = 0, !.y = @ + 1]

\* __putc
Draw(t, ch) == [t EXCEPT !.cells[At(t)] = <<ch, FALSE>>]

\* _copy_left, then the last cell is filled
Backspace(t) ==
  LET last == t.y * Columns + Columns - 1
      moved == [i \in Cell |-> IF i \in At(t) - 1 .. last - 1 THEN t.cells[i + 1] ELSE t.cells[i]]
  IN IF t.x = 0 THEN t ELSE [Fill([t EXCEPT !.cells = moved], {last}) EXCEPT !.x = @ - 1]

Wraps(t) == IF t.wrap THEN Newline(t) ELSE t

\* The blanks of a tab are all drawn where the cursor stands.
Tab(t) ==
  LET len == TabColumns - (t.x % TabColumns)
      drawn == Draw(t, Space)
  IN IF t.x + len >= Columns THEN Wraps([drawn EXCEPT !.x = Columns - 1])
     ELSE [drawn EXCEPT !.x = @ + len]

Putc(t, ch) ==
  LET u == Cursor(t)
      drawn == Draw(u, IF ch > Space THEN ch ELSE Space)
  IN Cursor(CASE ch = 8 -> Backspace(u)
              [] ch = 9 -> Tab(u)
              [] ch = 10 -> Newline(u)
              [] ch \in {13, 127} -> u
              [] OTHER -> IF u.x >= Columns - 1 THEN Wraps(drawn) ELSE [drawn EXCEPT !.x = @ + 1])

-----------------------------------------------------------------------------
(* The escape sequences; t.esc is [func, len, count, columns, params] *)

To(t, func) == [t EXCEPT !.esc.func = func]
Push(t) == [t EXCEPT !.esc.len = @ + 1]
IsDecimal(ch) == ch \in 48 .. 57

StateNull(t, ch) == IF ch = Esc THEN [To(t, "esc") EXCEPT !.esc.len = 1] ELSE Putc(t, ch)

StateEsc(t, ch) ==
  IF ch = Bracket
  THEN [Push(t) EXCEPT !.esc = [func |-> "csi", len |-> @.len, count |-> 0, columns |-> 0,
                                params |-> [i \in 0 .. MaxParams - 1 |-> 0]]]
  ELSE To(Push(t), "null")

Digit(t, ch) ==
  [t EXCEPT !.esc.columns = @ + 1, !.esc.params[t.esc.count] = 10 * @ + ch - 48]

ExecCsi(t, ch) ==
  LET p == [i \in 0 .. MaxParams - 1 |-> IF t.esc.params[i] = 0 THEN 1 ELSE t.esc.params[i]]
      types == IF ch = 74 THEN <<"screen from", "screen to", "screen">>
               ELSE <<"line from", "line to", "line">>
      n == t.esc.params[0] + 1
  IN CASE ch = 72 -> Locate(t, p[1] - 1, p[0] - 1)
       [] ch \in {74, 75} /\ t.esc.count = 0 /\ n \in DOMAIN types -> Erase(t, types[n])
       [] OTHER -> t

StateCsi(t, ch) ==
  LET u == Push(t)
  IN CASE ch = Delim /\ u.esc.count < MaxParams - 1 -> [u EXCEPT !.esc.count = @ + 1, !.esc.columns = 0]
       [] ch = Question /\ u.esc.count = 0 /\ u.esc.columns = 0 -> To(u, "private")
       [] IsDecimal(ch) /\ u.esc.columns < MaxColumns -> Digit(u, ch)
       [] ch \notin {Delim, Question} /\ ~IsDecimal(ch) -> To(ExecCsi(u, ch), "null")
       [] OTHER -> To(u, "null")

\* h turns the wrapping off and l turns it on.
StateCsiPrivate(t, ch) ==
  LET u == Push(t)
  IN CASE IsDecimal(ch) /\ u.esc.columns < MaxColumns -> Digit(u, ch)
       [] ch \in {104, 108} /\ u.esc.params[0] = 7 -> To([u EXCEPT !.wrap = (ch = 108)], "null")
       [] OTHER -> To(u, "null")

Eputc(t, ch) ==
  CASE t.esc.func = "null" -> StateNull(t, ch)
    [] t.esc.func = "esc" -> StateEsc(t, ch)
    [] t.esc.func = "csi" -> StateCsi(t, ch)
    [] t.esc.func = "private" -> StateCsiPrivate(t, ch)

TerminalWrite(t, bytes) == FoldLeft(Eputc, t, bytes)

NoEsc == [func |-> "null", len |-> 0, count |-> 0, columns |-> 0, params |-> [i \in 0 .. MaxParams - 1 |-> 0]]

\* terminal_initialize, and STR_CONS_INIT that nterm writes
ConsInit == <<Esc, Bracket, 50, 74, Esc, Bracket, 49, Delim, 49, 72>>
TerminalStart ==
  TerminalWrite([cells |-> [i \in Cell |-> Blank], x |-> 0, y |-> 0, wrap |-> TRUE, esc |-> NoEsc], ConsInit)

-----------------------------------------------------------------------------
(* The reference: rows of characters and a cursor *)

Empty == [i \in 1 .. Columns |-> Space]
TextStart == [rows |-> [j \in 1 .. Lines |-> Empty], x |-> 0, y |-> 0, wrap |-> TRUE]

TextLine(s) ==
  IF s.y = Lines - 1 THEN [s EXCEPT !.x = 0, !.rows = Append(Tail(@), Empty)]
  ELSE [s EXCEPT !.x = 0, !.y = @ + 1]
TextTo(s, x) == 
  IF x < Columns THEN [s EXCEPT !.x = x]
  ELSE IF s.wrap THEN TextLine(s) ELSE [s EXCEPT !.x = Columns - 1]
TextPut(s, ch) == TextTo([s EXCEPT !.rows[s.y + 1][s.x + 1] = ch], s.x + 1)

TextKey(s, ch) ==
  CASE ch = 8 -> IF s.x = 0 THEN s
                 ELSE [s EXCEPT !.rows[s.y + 1] = Append(RemoveAt(@, s.x), Space), !.x = @ - 1]
    [] ch = 9 -> TextTo([s EXCEPT !.rows[s.y + 1][s.x + 1] = Space], (s.x \div TabColumns + 1) * TabColumns)
    [] ch = 10 -> TextLine(s)
    [] ch \in {13, 127} -> s
    [] OTHER -> TextPut(s, ch)

\* n is 0 for what follows the cursor, 1 for what precedes it, 2 for all
TextErase(s, n, lines) ==
  LET gone(x, y) ==
        /\ lines \/ y = s.y
        /\ n = 0 => y > s.y \/ (y = s.y /\ x >= s.x)
        /\ n = 1 => y < s.y \/ (y = s.y /\ x <= s.x)
  IN [s EXCEPT !.rows = [j \in 1 .. Lines |-> [i \in 1 .. Columns |->
        IF gone(i - 1, j - 1) THEN Space ELSE @[j][i]]]]

TextLocate(s, line, column) ==
  LET y == Max({line, 1})
      x == Max({column, 1})
  IN IF y <= Lines /\ x <= Columns THEN [s EXCEPT !.x = x - 1, !.y = y - 1] ELSE s

-----------------------------------------------------------------------------
(* The checks *)

ScreenText(t) == [j \in 1 .. Lines |-> [i \in 1 .. Columns |-> t.cells[(j - 1) * Columns + i - 1][1]]]
Inverted(t) == {i \in Cell : t.cells[i][2]}
ScreenShows(t) == [rows |-> ScreenText(t), cursor |-> <<t.x, t.y, t.wrap>>, inverted |-> Inverted(t),
                   fits |-> t.esc.len <= EscBufSize]
TextShows(s) == [rows |-> s.rows, cursor |-> <<s.x, s.y, s.wrap>>, inverted |-> {s.y * Columns + s.x},
                 fits |-> TRUE]

\* Bytes go to the terminal, where they should make the text s.  Between two
\* sequences nothing of the state of the last one is used again.
Writes(bytes, s) ==
  \E t \in {TerminalWrite(impl, bytes)} :
     /\ impl' = IF t.esc.func = "null" THEN [t EXCEPT !.esc = NoEsc] ELSE t
     /\ ideal' = s
     /\ got' = ScreenShows(t) /\ want' = TextShows(s)
     /\ UNCHANGED kind

Csi(bytes) == <<Esc, Bracket>> \o bytes

TypeKey == \E ch \in Letter \cup {8, 9, 10, 13, 127} : Writes(<<ch>>, TextKey(ideal, ch))
WriteErase ==
  \E n \in 0 .. 3, lines \in BOOLEAN :
    Writes(Csi(<<48 + n, IF lines THEN 74 ELSE 75>>), IF n = 3 THEN ideal ELSE TextErase(ideal, n, lines))
WriteLocate ==
  \E line \in 0 .. Lines + 1, column \in 0 .. Columns + 1 :
    \/ Writes(Csi(<<48 + line, Delim, 48 + column, 72>>), TextLocate(ideal, line, column))
    \/ Writes(Csi(<<48 + line, 72>>), TextLocate(ideal, line, 1))
WriteWrap == \E on \in BOOLEAN : Writes(Csi(<<Question, 55, IF on THEN 108 ELSE 104>>), [ideal EXCEPT !.wrap = on])

\* Sequences that do nothing, or are given up because they are too long
WriteOther ==
  \E bytes \in {<<Esc, 99>>, Csi(<<48, 109>>), Csi(<<Delim, 74>>), Csi(<<Delim, Delim>>),
                Csi([i \in 1 .. 6 |-> 49]), Csi(<<49, Question>>), Csi(<<Question, 56, 104>>),
                Csi([i \in 1 .. 5 |-> 49] \o <<Delim>> \o [i \in 1 .. 6 |-> 50])} : Writes(bytes, ideal)

TerminalInit ==
  /\ kind = "terminal" /\ impl = [TerminalStart EXCEPT !.esc = NoEsc] /\ ideal = TextStart
  /\ got = ScreenShows(impl) /\ want = TextShows(ideal)

TerminalNext == kind = "terminal" /\ (TypeKey \/ WriteErase \/ WriteLocate \/ WriteWrap \/ WriteOther)
=============================================================================
