------------------------------- MODULE Editor -------------------------------
(***************************************************************************)
(* The editor app/ne/ant.c: a gap buffer, compared with the text it        *)
(* stands for.  impl is [buf, gap, egap, index, page, epage, row, col,     *)
(* copy, key]; addresses count from the start of buf.  Every key is        *)
(* handled and then display runs, as in main; what display draws goes to   *)
(* curses, here only the page, row and column it chooses are kept.         *)
(***************************************************************************)
EXTENDS Integers, SequencesExt, FiniteSetsExt

CONSTANTS
  BufSize,            \* BUF
  EditColumns, EditLines,
  EditTab,            \* columns between tab stops
  Typed,              \* codes of the characters that are typed
  AnyWleft            \* wleft is used with the gap at the start of the buffer, too

VARIABLES kind, impl, ideal, got, want

LF == 10
CR == 13
HT == 9
BS == 8
IsSpace(ch) == ch \in {HT, LF, CR, 32}

-----------------------------------------------------------------------------
(* Offsets in the file and addresses in the buffer; ebuf is BufSize *)

Ptr(e, offset) == IF offset < 0 THEN 0 ELSE IF offset < e.gap THEN offset ELSE offset + e.egap - e.gap
Pos(e, p) == IF p < e.egap THEN p ELSE p - (e.egap - e.gap)
End(e) == Pos(e, BufSize)

\* movegap: characters change sides of the hole until it is at index.
RECURSIVE GapDown(_, _)
GapDown(e, p) ==
  IF p < e.gap
  THEN GapDown([e EXCEPT !.buf[e.egap - 1] = e.buf[e.gap - 1], !.gap = @ - 1, !.egap = @ - 1], p)
  ELSE e
RECURSIVE GapUp(_, _)
GapUp(e, p) ==
  IF e.egap < p
  THEN GapUp([e EXCEPT !.buf[e.gap] = e.buf[e.egap], !.gap = @ + 1, !.egap = @ + 1], p)
  ELSE e
Indexed(e) == [e EXCEPT !.index = Pos(e, e.egap)]
Movegap(e) == LET p == Ptr(e, e.index) IN Indexed(GapUp(GapDown(e, p), p))

RECURSIVE Prevline(_, _)
Prevline(e, offset) ==
  LET p == Ptr(e, offset - 1)
  IN IF 0 < p /\ e.buf[p] # LF THEN Prevline(e, offset - 1) ELSE IF 0 < p THEN offset ELSE 0

RECURSIVE Nextline(_, _)
Nextline(e, offset) ==
  LET p == Ptr(e, offset)
  IN IF p >= BufSize THEN End(e) ELSE IF e.buf[p] = LF THEN offset + 1 ELSE Nextline(e, offset + 1)

Width(ch, at) == IF ch = HT THEN EditTab - (at % EditTab) ELSE 1

RECURSIVE Adjust(_, _, _, _)
Adjust(e, offset, column, i) ==
  LET p == Ptr(e, offset)
  IN IF p < BufSize /\ i < column
     THEN IF e.buf[p] = LF THEN offset ELSE Adjust(e, offset + 1, column, i + Width(e.buf[p], i))
     ELSE offset

-----------------------------------------------------------------------------
(* The keys *)

To(e, index) == [e EXCEPT !.index = index]
Normal(e) == [e EXCEPT !.key = "normal"]
Left(e) == IF 0 < e.index THEN To(e, e.index - 1) ELSE e
Right(e) == IF e.index < End(e) THEN To(e, e.index + 1) ELSE e
Up(e) == To(e, Adjust(e, Prevline(e, Prevline(e, e.index) - 1), e.col, 0))
Down(e) == To(e, Adjust(e, Nextline(e, e.index), e.col, 0))
Lnbegin(e) == To(e, Prevline(e, e.index))
Lnend(e) == Left(To(e, Nextline(e, e.index)))
Top(e) == Normal(To(e, 0))
Bottom(e) == Normal([e EXCEPT !.index = End(e), !.epage = End(e)])

\* wleft and wright look at the character behind the buffer when the index is at
\* the end: past is what happens to be there.
CharAt(e, past) == LET p == Ptr(e, e.index) IN IF p < BufSize THEN e.buf[p] ELSE past
RECURSIVE Back(_, _, _)
Back(e, space, past) ==
  IF IsSpace(CharAt(e, past)) = space /\ 0 < Ptr(e, e.index) THEN Back(To(e, e.index - 1), space, past) ELSE e
RECURSIVE Forth(_, _, _)
Forth(e, space, past) ==
  IF IsSpace(CharAt(e, past)) = space /\ Ptr(e, e.index) < BufSize
  THEN Forth(To(e, e.index + 1), space, past) ELSE e
Wleft(e, past) == Normal(Back(Back(e, FALSE, past), TRUE, past))
Wright(e, past) == Normal(Forth(Forth(e, FALSE, past), TRUE, past))

RECURSIVE Downs(_, _)
Downs(e, n) == IF n > 0 THEN Downs(Down(e), n - 1) ELSE e
Pgdown(e) ==
  LET start == Prevline(e, e.epage - 1)
      d == Downs([e EXCEPT !.page = start, !.index = start], e.row)
  IN [d EXCEPT !.row = Min({e.row, 0}) - 1, !.epage = End(d)]
RECURSIVE Ups(_, _)
Ups(e, n) == IF n > 0 THEN Ups(Up([e EXCEPT !.page = Prevline(e, e.page - 1)]), n - 1) ELSE e
Pgup(e) == Ups(e, EditLines - 3)

\* What insert and paste do with one character
Put(e, ch) ==
  LET m == Movegap(e)
  IN Indexed(IF ch = BS THEN IF 0 < m.gap THEN [m EXCEPT !.gap = @ - 1] ELSE m
             ELSE IF m.gap < m.egap
             THEN [m EXCEPT !.buf[m.gap] = IF ch = CR THEN LF ELSE ch, !.gap = @ + 1]
             ELSE m)

Newline(e) == Left(Put(e, LF))
Paste(e) == FoldLeft(Put, e, e.copy)
Delete(e) ==
  LET m == Movegap(e) IN IF m.egap < BufSize THEN Indexed([m EXCEPT !.egap = @ + 1]) ELSE m

RECURSIVE Cut(_)
Cut(e) ==
  IF e.egap >= BufSize THEN e
  ELSE IF e.buf[e.egap] = LF THEN e
  ELSE Cut([e EXCEPT !.copy = Append(@, e.buf[e.egap]), !.egap = @ + 1])
CutToEol(e) == Indexed(Cut([Movegap(e) EXCEPT !.copy = << >>]))

\* file: the gap goes to the start, so that one write stores the whole text.
File(e) == Normal(To(Movegap(To(e, 0)), e.index))
Written(e) == LET m == Movegap(To(e, 0)) IN [i \in 1 .. BufSize - m.egap |-> m.buf[m.egap + i - 1]]

-----------------------------------------------------------------------------
(* display *)

RECURSIVE Pages(_, _, _)
Pages(e, page, n) == IF n > 0 THEN Pages(e, Prevline(e, page - 1), n - 1) ELSE page

\* s is [i, j]: the row and column of the character at epage
RECURSIVE Show(_, _)
Show(e, s) ==
  LET f == IF e.index = e.epage THEN [e EXCEPT !.row = s.i, !.col = s.j] ELSE e
      p == Ptr(e, e.epage)
      ch == e.buf[p]
      j == IF ch = CR THEN s.j ELSE s.j + Width(ch, s.j)
  IN IF EditLines - 2 <= s.i \/ BufSize <= p THEN f
     ELSE Show([f EXCEPT !.epage = @ + 1],
               IF ch = LF \/ EditColumns <= j THEN [i |-> s.i + 1, j |-> 0] ELSE [i |-> s.i, j |-> j])

Display(e) ==
  LET a == IF e.index < e.page THEN Prevline(e, e.index) ELSE e.page
      next == Nextline(e, e.index)
      b == IF e.epage <= e.index
           THEN Pages(e, next, IF next = End(e) THEN EditLines - 4 ELSE EditLines - 2) ELSE a
  IN Show([e EXCEPT !.page = b, !.epage = b], [i |-> 0, j |-> 0])

-----------------------------------------------------------------------------
(* The checks: ideal is [text, copy] *)

FileText(e) == [i \in 1 .. End(e) |-> e.buf[Ptr(e, i - 1)]]
Sound(e) == /\ 0 <= e.gap /\ e.gap <= e.egap /\ e.egap <= BufSize
            /\ 0 <= e.index /\ e.index <= End(e) /\ End(e) <= BufSize
            /\ 0 <= e.page /\ e.page <= e.epage /\ e.epage <= End(e)
Splice(text, from, to, ins) == SubSeq(text, 1, from) \o ins \o SubSeq(text, to + 1, Len(text))

\* The key leads to e; its text should be text, and its index in where.
Keys(e, text, copy, where) ==
  \E moved \in {e} : \E d \in {Display(moved)} :
     /\ impl' = d
     /\ ideal' = [text |-> text, copy |-> copy]
     /\ got' = [text |-> FileText(d), copy |-> d.copy, file |-> Written(d), index |-> d.index \in where,
                sound |-> Sound(d)]
     /\ want' = [text |-> text, copy |-> copy, file |-> text, index |-> TRUE, sound |-> TRUE]
     /\ UNCHANGED kind

Text == ideal.text
\* Where a line begins, and the index behind its last character.  prevline takes a
\* newline at the start of the buffer for the first character of a line.
LineOf(i) == {k \in 1 .. i : Text[k] = LF}
LineStart(i) == IF LineOf(i) = {} THEN 0 ELSE Max(LineOf(i))
LineEnd(i) == Min({k - 1 : k \in {k \in i + 1 .. Len(Text) : Text[k] = LF}} \cup {Len(Text)})
Regular == Text = << >> \/ Head(Text) # LF
AtColumn(start) == Min({start + impl.col, LineEnd(start)})
Anywhere == 0 .. BufSize
Moves(e, where) ==
  Keys(e, Text, ideal.copy, IF Regular /\ HT \notin Typed THEN where ELSE Anywhere)

KeyMove ==
  /\ impl.key = "normal"
  /\ LET i == impl.index
         start == LineStart(i)
         below == IF LineEnd(i) = Len(Text) THEN Len(Text) ELSE LineEnd(i) + 1
     IN \/ Moves(Left(impl), {Max({i - 1, 0})})
        \/ Moves(Right(impl), {Min({i + 1, Len(Text)})})
        \/ Moves(Up(impl), {AtColumn(IF start = 0 THEN 0 ELSE LineStart(start - 1))})
        \/ Moves(Down(impl), {AtColumn(below)})
        \/ Moves(Lnbegin(impl), {start})
        \/ Moves(Lnend(impl), {Max({below - 1, 0})})
        \/ Moves(Pgdown(impl), Anywhere)
        \/ Moves(Pgup(impl), Anywhere)

KeyPrefix == \E k \in {"esc", "x"} : impl.key = "normal" /\ Moves([impl EXCEPT !.key = k], {impl.index})

KeyEsc ==
  /\ impl.key = "esc"
  /\ \/ Moves(Normal(impl), {impl.index})
     \/ Moves(Top(impl), {0})
     \/ Moves(Bottom(impl), {Len(Text)})
     \/ \E past \in {97, 32} :
          \/ (AnyWleft \/ impl.gap > 0) /\ Moves(Wleft(impl, past), 0 .. impl.index)
          \/ Moves(Wright(impl, past), impl.index .. Len(Text))

KeyFile == impl.key = "x" /\ (Moves(File(impl), {impl.index}) \/ Moves(Normal(impl), {impl.index}))

\* A key that is not in the table of the moment is inserted.
KeyInsert ==
  \E ch \in Typed \cup {BS, CR} :
    LET i == impl.index
        room == Len(Text) < BufSize
        c == IF ch = CR THEN LF ELSE ch
    IN IF ch = BS
       THEN Keys(Put(impl, ch), IF i = 0 THEN Text ELSE RemoveAt(Text, i), ideal.copy, {Max({i - 1, 0})})
       ELSE Keys(Put(impl, ch), IF room THEN Splice(Text, i, i, <<c>>) ELSE Text, ideal.copy,
                 {IF room THEN i + 1 ELSE i})

KeyEdit ==
  /\ impl.key = "normal"
  /\ LET i == impl.index
         room == BufSize - Len(Text)
         some == SubSeq(ideal.copy, 1, Min({room, Len(ideal.copy)}))
     IN \/ Keys(Newline(impl), IF room > 0 THEN Splice(Text, i, i, <<LF>>) ELSE Text, ideal.copy,
                {IF room > 0 THEN i ELSE Max({i - 1, 0})})
        \/ Keys(Delete(impl), Splice(Text, i, Min({i + 1, Len(Text)}), << >>), ideal.copy, {i})
        \/ Keys(CutToEol(impl), Splice(Text, i, LineEnd(i), << >>), SubSeq(Text, i + 1, LineEnd(i)), {i})
        \/ Keys(Paste(impl), Splice(Text, i, i, some), ideal.copy, {i + Len(some)})

\* main: the file is read to the start of the buffer.
Opened(text) ==
  Display([buf |-> [i \in 0 .. BufSize - 1 |-> IF i < Len(text) THEN text[i + 1] ELSE 0],
           gap |-> Len(text), egap |-> BufSize, index |-> 0, page |-> 0, epage |-> 0, row |-> 0, col |-> 0,
           copy |-> << >>, key |-> "normal"])

EditorInit ==
  /\ kind = "editor"
  /\ \E text \in UNION {[1 .. n -> Typed] : n \in {0, BufSize}} :
       /\ impl = Opened(text) /\ ideal = [text |-> text, copy |-> << >>]
       /\ got = FileText(impl) /\ want = text

EditorNext == kind = "editor" /\ (KeyMove \/ KeyPrefix \/ KeyEsc \/ KeyFile \/ KeyInsert \/ KeyEdit)

EditorSpec == EditorInit /\ [][EditorNext]_<<kind, impl, ideal, got, want>>

\* ant.c says of its variables "The following assertions must be maintained", one
\* of them "0 <= index <= pos(ebuf) <= BUF".
IndexInFile == 0 <= impl.index /\ impl.index <= End(impl)
=============================================================================
