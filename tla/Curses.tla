------------------------------- MODULE Curses -------------------------------
(***************************************************************************)
(* lib/libcurses over the terminal: a program draws into buf_back, and     *)
(* refresh sends what differs from buf_front, with cursor addressing, to a *)
(* terminal that should then show the text drawn.  impl is                 *)
(* [back, front, x, y, dirty, term].                                       *)
(*                                                                         *)
(* The program draws as app/ne/ant.c does: a frame goes from the top to    *)
(* the bottom, every row from its first column, and never fills the last   *)
(* column of the last row, where the terminal would scroll.                *)
(***************************************************************************)
EXTENDS Terminal

Nul == 0
Corner == Columns * Lines - 1

Point(w) == w.y * Columns + w.x
Drawn(w, region, ch) ==
  [w EXCEPT !.back = [i \in Cell |-> IF i \in region THEN ch ELSE @[i]], !.dirty = TRUE]
NextRow(w) == IF w.y = Lines - 1 THEN w ELSE [w EXCEPT !.x = 0, !.y = @ + 1]

Addch(w, ch) ==
  LET len == Min({TabColumns - (w.x % TabColumns), Columns - w.x})
      tabbed == [Drawn(w, Point(w) .. Point(w) + len - 1, Space) EXCEPT !.x = @ + len]
      put == Drawn(w, {Point(w)}, ch)
  IN CASE ch = 10 -> NextRow(Drawn(w, Point(w) .. (w.y + 1) * Columns - 1, Nul))
       [] ch = 9 -> IF tabbed.x = Columns THEN NextRow(tabbed) ELSE tabbed
       [] OTHER -> IF w.x = Columns - 1 THEN NextRow(put) ELSE [put EXCEPT !.x = @ + 1]

CMove(w, y, x) == [w EXCEPT !.x = x, !.y = y]
Clear(w) == Drawn(w, Cell, Nul)
Clrtobot(w) == Drawn(w, Point(w) .. Corner, Nul)

-----------------------------------------------------------------------------
(* refresh: r is [i, last, front, out] *)

RECURSIVE Decimal(_)
Decimal(n) == IF n < 10 THEN <<48 + n>> ELSE Append(Decimal(n \div 10), 48 + (n % 10))
Goto(y, x) == Csi(Decimal(y + 1) \o <<Delim>> \o Decimal(x + 1) \o <<72>>)

\* Up to a cell that differs, or the row after one that is empty in both
RECURSIVE Skip(_, _)
Skip(back, r) ==
  IF r.i > Corner \/ back[r.i] # r.front[r.i] THEN r
  ELSE IF back[r.i] = Nul THEN [r EXCEPT !.i = (@ \div Columns + 1) * Columns]
  ELSE Skip(back, [r EXCEPT !.i = @ + 1])

\* Cells are sent while they differ; the terminal wraps at the end of a row.
RECURSIVE Send(_, _)
Send(back, r) ==
  IF r.i > Corner \/ back[r.i] = r.front[r.i] THEN r
  ELSE Send(back, [r EXCEPT !.out = Append(@, back[r.i]), !.front[r.i] = back[r.i], !.i = @ + 1])

RECURSIVE Rounds(_, _)
Rounds(back, r) ==
  LET a == Skip(back, r)
      b == IF a.i = a.last THEN a ELSE [a EXCEPT !.out = @ \o Goto(a.i \div Columns, a.i % Columns)]
      c == Send(back, b)
  IN IF a.i > Corner THEN a ELSE Rounds(back, [c EXCEPT !.last = c.i])

Refresh(w) ==
  LET from == [i |-> 0, last |-> -1, front |-> w.front, out |-> << >>]
      r == IF w.dirty THEN Rounds(w.back, from) ELSE from
  IN [w EXCEPT !.front = r.front, !.dirty = FALSE, !.term = TerminalWrite(@, r.out \o Goto(w.y, w.x))]

\* ESC[?7l ESC[0m ESC[2J ESC[1;1H
Initscr(t) ==
  [back |-> [i \in Cell |-> Nul], front |-> [i \in Cell |-> Nul], x |-> 0, y |-> 0, dirty |-> FALSE,
   term |-> TerminalWrite(t, Csi(<<Question, 55, 108>>) \o Csi(<<48, 109>>) \o ConsInit)]

-----------------------------------------------------------------------------
(* The checks; TextShows of the terminal is what a refresh should give *)

TextAddch(s, ch) ==
  LET stop == Min({(s.x \div TabColumns + 1) * TabColumns, Columns})
      below(u) == IF u.y = Lines - 1 THEN u ELSE [u EXCEPT !.x = 0, !.y = @ + 1]
      to(u, x) == IF x = Columns THEN below(u) ELSE [u EXCEPT !.x = x]
  IN CASE ch = 10 -> below(TextErase(s, 0, FALSE))
       [] ch = 9 -> to([s EXCEPT !.rows[s.y + 1] = [i \in 1 .. Columns |->
                                   IF i \in s.x + 1 .. stop THEN Space ELSE @[i]]], stop)
       [] OTHER -> to([s EXCEPT !.rows[s.y + 1][s.x + 1] = ch], s.x + 1)

BackText(w) == [j \in 1 .. Lines |-> [i \in 1 .. Columns |->
  LET ch == w.back[(j - 1) * Columns + i - 1] IN IF ch = Nul THEN Space ELSE ch]]

Draws(w, s) ==
  impl' = w /\ ideal' = s /\ got' = <<BackText(w), w.x, w.y>> /\ want' = <<s.rows, s.x, s.y>> /\ UNCHANGED kind

DrawCharacter ==
  \E ch \in Letter \cup {9, 10} :
    /\ Point(impl) # Corner /\ (impl.y = Lines - 1 => ch \in Letter)
    /\ Draws(Addch(impl, ch), TextAddch(ideal, ch))

DrawRow == \E y \in impl.y .. Lines - 1 : Draws(CMove(impl, y, 0), [ideal EXCEPT !.x = 0, !.y = y])
DrawClear == Point(impl) = 0 /\ Draws(Clear(impl), [ideal EXCEPT !.rows = TextStart.rows])
DrawBottom == Draws(Clrtobot(impl), TextErase(ideal, 0, TRUE))

\* The cursor is put where the frame wants it; the next frame starts at the top.
DrawRefresh ==
  \E y \in 0 .. Lines - 1, x \in 0 .. Columns - 1 :
    \E w \in {Refresh(CMove(impl, y, x))} :
       /\ impl' = [CMove(w, 0, 0) EXCEPT !.term.esc = NoEsc] /\ ideal' = [ideal EXCEPT !.x = 0, !.y = 0]
       /\ got' = ScreenShows(w.term) /\ want' = TextShows([ideal EXCEPT !.x = x, !.y = y])
       /\ UNCHANGED kind

CursesInit ==
  /\ kind = "curses" /\ impl = [Initscr(TerminalStart) EXCEPT !.term.esc = NoEsc] /\ ideal = TextStart
  /\ got = ScreenShows(impl.term) /\ want = TextShows(ideal)

CursesNext == kind = "curses" /\ (DrawCharacter \/ DrawRow \/ DrawClear \/ DrawBottom \/ DrawRefresh)
=============================================================================
