----------------------------------- MODULE Stdio -----------------------------------
(***************************************************************************)
(* A buffered stream (lib/libc/stdio) over a file.  impl holds the file,   *)
(* the descriptor's offset and the FILE; buf is its first len bytes.       *)
(* ideal is the file and position the program means.  astray says how the  *)
(* code leaves it: the place, when a buffer is swept while the descriptor  *)
(* is not where the buffer begins (it was read, or a write of it failed    *)
(* half way); the position, when it is swept before its end is reached,    *)
(* and when SEEK_CUR out of the buffer counts its length twice; error,     *)
(* when rewind clears an error and what was refused is still in the buffer.*)
(* Behaviours end there.                                                   *)
(***************************************************************************)
EXTENDS Integers, SequencesExt

CONSTANTS
  Byte, LF,      \* LF is one of Byte
  BufSize,       \* BUFSIZ
  DiskMax,       \* the largest file; positions are at most one past it
  ReadSize       \* bytes asked for by fread, fwrite and fgets

VARIABLES kind, impl, ideal, got, want

EOF == 0 - 1

Closed == [r |-> FALSE, w |-> FALSE, pos |-> 0, buf |-> << >>, seek |-> 0, dirty |-> FALSE,
           eof |-> FALSE, err |-> FALSE, lbf |-> FALSE, disk |-> << >>, off |-> 0, astray |-> {}]
StdioIdeal == [data |-> << >>, at |-> 0]

\* __parse_file_mode: [r, w, trunc], or no modes
ParseMode(mode) ==
  LET b == IF Len(mode) > 1 /\ mode[2] = "b" THEN 1 ELSE 0
      rest == SubSeq(mode, 2 + b, Len(mode))
      plus == rest \in {<<"+">>, <<"+", "b">>}
      first == mode[1]
  IN IF mode = << >> \/ first \notin {"r", "w"} \/ ~(plus \/ rest = << >>)
     THEN [r |-> FALSE, w |-> FALSE, trunc |-> FALSE]
     ELSE [r |-> first = "r" \/ plus, w |-> first = "w" \/ plus, trunc |-> first = "w"]

-----------------------------------------------------------------------------
(* The descriptor: read, write and lseek *)

WriteAt(d, off, bytes) ==
  [i \in 1 .. Max({Len(d), off + Len(bytes)}) |->
     IF i \in off + 1 .. off + Len(bytes) THEN bytes[i - off] ELSE IF i <= Len(d) THEN d[i] ELSE 0]

\* write: as many bytes as there is room for
WriteCall(m, bytes) ==
  LET n == Min({Len(bytes), Max({0, DiskMax - m.off})})
  IN [m |-> IF n = 0 THEN m
            ELSE [m EXCEPT !.disk = WriteAt(@, m.off, SubSeq(bytes, 1, n)), !.off = @ + n],
      n |-> n]

ReadCall(m, n) ==
  LET got1 == SubSeq(m.disk, m.off + 1, Min({m.off + n, Len(m.disk)}))
  IN [m |-> [m EXCEPT !.off = @ + Len(got1)], bytes |-> got1]

-----------------------------------------------------------------------------
(* The buffer; ok is FALSE when it fails *)

Strays(m) == (IF m.dirty /\ m.off # m.seek THEN {"place"} ELSE {})
               \cup (IF m.pos < Len(m.buf) THEN {"position"} ELSE {})

\* __sweep_buffer
Sweep(m) ==
  LET r == WriteCall(m, m.buf)
      s == IF m.dirty THEN [r.m EXCEPT !.dirty = FALSE] ELSE m
      astray == m.astray \cup Strays(m)
  IN IF m.dirty /\ r.n # Len(m.buf)
     THEN [m |-> [r.m EXCEPT !.err = TRUE, !.astray = astray], ok |-> FALSE]
     ELSE [m |-> [s EXCEPT !.seek = @ + Len(m.buf), !.buf = << >>, !.pos = 0, !.astray = astray],
           ok |-> TRUE]

\* __fill_buffer; what is read is the buffer
Fill(m, n) ==
  LET s == Sweep(m)
      r == ReadCall(s.m, n)
  IN IF ~s.ok THEN s
     ELSE IF r.bytes = << >> THEN [m |-> [r.m EXCEPT !.eof = TRUE], ok |-> FALSE]
     ELSE [m |-> [r.m EXCEPT !.buf = r.bytes], ok |-> TRUE]

\* fgetc
Getc(m) ==
  LET f == IF m.pos >= Len(m.buf) THEN Fill(m, BufSize) ELSE [m |-> m, ok |-> TRUE]
  IN IF m.err \/ m.eof \/ ~m.r THEN [m |-> m, c |-> EOF]
     ELSE IF ~f.ok THEN [m |-> f.m, c |-> EOF]
     ELSE [m |-> [f.m EXCEPT !.pos = @ + 1], c |-> f.m.buf[f.m.pos + 1]]

\* fgets: size - 1 bytes, or up to a line feed
RECURSIVE Gets(_, _)
Gets(m, n) ==
  LET g == Getc(m)
      rest == Gets(g.m, n - 1)
  IN IF n = 0 THEN [m |-> m, bytes |-> << >>]
     ELSE IF g.c = EOF THEN [m |-> g.m, bytes |-> << >>]
     ELSE IF g.c = LF THEN [m |-> g.m, bytes |-> <<LF>>]
     ELSE [m |-> rest.m, bytes |-> <<g.c>> \o rest.bytes]

\* fputc
Putc(m, c) ==
  LET s == IF m.pos >= BufSize THEN Sweep(m) ELSE [m |-> m, ok |-> TRUE]
      t == [s.m EXCEPT !.dirty = TRUE, !.buf = WriteAt(@, s.m.pos, <<c>>), !.pos = @ + 1]
      u == IF c = LF /\ m.lbf THEN Sweep(t) ELSE [m |-> t, ok |-> TRUE]
  IN IF m.err \/ ~m.w THEN [m |-> m, c |-> EOF]
     ELSE IF ~s.ok THEN [m |-> s.m, c |-> EOF]
     ELSE [m |-> u.m, c |-> IF u.ok THEN c ELSE EOF]

\* fread of n bytes
Fread(m, n) ==
  LET len == Min({Len(m.buf) - m.pos, n})
      head == SubSeq(m.buf, m.pos + 1, m.pos + len)
      a == [m EXCEPT !.pos = @ + len]
      rest == n - len
      f == IF rest < BufSize THEN Fill(a, BufSize) ELSE Fill(a, rest)
      k == Min({Len(f.m.buf), rest})
      b == IF rest < BufSize THEN [f.m EXCEPT !.pos = @ + k]
           ELSE [f.m EXCEPT !.buf = << >>, !.seek = @ + Len(f.m.buf)]
  IN IF m.err \/ m.eof \/ ~m.r THEN [m |-> m, bytes |-> << >>]
     ELSE IF rest = 0 THEN [m |-> a, bytes |-> head]
     ELSE IF ~f.ok THEN [m |-> f.m, bytes |-> head]
     ELSE [m |-> b, bytes |-> head \o SubSeq(f.m.buf, 1, k)]

\* fwrite: after the sweep no more is copied than fitted before it
Fwrite(m, bytes) ==
  LET len == Min({BufSize - m.pos, Len(bytes)})
      a == IF BufSize = m.pos THEN m
           ELSE [m EXCEPT !.dirty = TRUE, !.buf = WriteAt(@, m.pos, SubSeq(bytes, 1, len)), !.pos = @ + len]
      rest == SubSeq(bytes, len + 1, Len(bytes))
      s == Sweep(a)
      k == Min({len, Len(rest)})
      b == [s.m EXCEPT !.dirty = TRUE, !.buf = SubSeq(rest, 1, k), !.pos = @ + k]
      w == WriteCall(s.m, rest)
  IN IF m.err \/ ~m.w THEN [m |-> m, n |-> 0]
     ELSE IF rest = << >> /\ len > 0 THEN [m |-> a, n |-> len]
     ELSE IF ~s.ok THEN [m |-> s.m, n |-> len]
     ELSE IF Len(rest) < BufSize THEN [m |-> b, n |-> len + k]
     ELSE [m |-> [w.m EXCEPT !.seek = @ + w.n], n |-> len + w.n]

\* fseek; fsetpos is SEEK_SET.  The offset of SEEK_CUR is from the position, the
\* descriptor's from the end of the buffer.
Fseek(m, offset, whence) ==
  LET next == CASE whence = "SET" -> offset
                [] whence = "CUR" -> m.seek + m.pos + offset
                [] OTHER -> EOF
      inside == m.seek <= next /\ next < m.seek + Len(m.buf)
      s == Sweep(m)
      to == CASE whence = "SET" -> offset
              [] whence = "CUR" -> s.m.off + m.pos + offset
              [] OTHER -> Len(s.m.disk) + offset
  IN IF m.err \/ ~(m.r \/ m.w) THEN [m |-> m, ok |-> FALSE]
     ELSE IF inside THEN [m |-> [m EXCEPT !.pos = next - m.seek, !.eof = FALSE], ok |-> TRUE]
     ELSE IF ~s.ok \/ to < 0 THEN [m |-> s.m, ok |-> FALSE]
     ELSE [m |-> [s.m EXCEPT !.off = to, !.seek = to, !.buf = << >>, !.pos = 0, !.eof = FALSE,
                             !.astray = (@ \ {"position"})
                                          \cup (IF to # next /\ whence = "CUR" THEN {"position"} ELSE {})],
           ok |-> TRUE]

-----------------------------------------------------------------------------
(* The calls, beside the file the program means *)

Open == impl.r \/ impl.w
Says(m, j, g, w) ==
  impl' = m /\ ideal' = j /\ got' = (g = w) /\ want' = TRUE /\ UNCHANGED kind

\* what reading n bytes gives, until is a byte to stop after
Ahead(n) == SubSeq(ideal.data, ideal.at + 1, Min({ideal.at + n, Len(ideal.data)}))
Line(n) ==
  LET a == Ahead(n)
      at == {i \in DOMAIN a : a[i] = LF}
  IN IF at = {} THEN a ELSE SubSeq(a, 1, Min(at))
CanRead == impl.r /\ ~impl.err /\ ~impl.eof
On(j, n) == [j EXCEPT !.at = @ + n]
Written(bytes) ==
  IF bytes = << >> THEN ideal
  ELSE [ideal EXCEPT !.data = WriteAt(@, ideal.at, bytes), !.at = @ + Len(bytes)]

Fopen(mode, lbf) ==
  LET f == ParseMode(mode)
  IN /\ ~Open
     /\ IF ~(f.r \/ f.w) THEN Says(impl, ideal, EOF, EOF)
        ELSE LET disk == IF f.trunc THEN << >> ELSE impl.disk
             IN Says([Closed EXCEPT !.r = f.r, !.w = f.w, !.lbf = lbf, !.disk = disk],
                     [data |-> disk, at |-> 0], 0, 0)

Fgetc ==
  \E g \in {Getc(impl)}, a \in {Ahead(1)} :
     /\ Open
     /\ Says(g.m, IF CanRead THEN On(ideal, Len(a)) ELSE ideal,
             g.c, IF CanRead /\ a # << >> THEN a[1] ELSE EOF)

Fgets(n) ==
  \E g \in {Gets(impl, n)}, a \in {IF CanRead THEN Line(n) ELSE << >>} :
     Open /\ Says(g.m, On(ideal, Len(a)), g.bytes, a)

FreadCall(n) ==
  \E g \in {Fread(impl, n)}, a \in {IF CanRead THEN Ahead(n) ELSE << >>} :
     Open /\ Says(g.m, On(ideal, Len(a)), g.bytes, a)

Fputc(c) ==
  \E p \in {Putc(impl, c)} : Open /\ Says(p.m, IF p.c = EOF THEN ideal ELSE Written(<<c>>), 0, 0)

FwriteCall(bytes) ==
  \E w \in {Fwrite(impl, bytes)} : Open /\ Says(w.m, Written(SubSeq(bytes, 1, w.n)), 0, 0)

FseekCall(offset, whence) ==
  LET to == CASE whence = "SET" -> offset
              [] whence = "CUR" -> ideal.at + offset
              [] OTHER -> Len(ideal.data) + offset
  IN \E s \in {Fseek(impl, offset, whence)} :
     /\ Open /\ s.m.off <= DiskMax + 1
     /\ Says(s.m, IF s.ok THEN [ideal EXCEPT !.at = to] ELSE ideal, 0, 0)

\* rewind: the position is kept when the stream had an error
Rewind ==
  \E s \in {Fseek(impl, 0, "SET")} :
     /\ Open
     /\ Says([s.m EXCEPT !.err = FALSE, !.eof = FALSE,
                          !.astray = IF s.m.err THEN @ \cup {"error"} ELSE @],
             IF s.ok THEN [ideal EXCEPT !.at = 0] ELSE ideal, 0, 0)

\* fflush
Flush(m) == IF m.err THEN [m |-> m, ok |-> FALSE] ELSE Sweep(m)

Fflush == Open /\ Says(Flush(impl).m, ideal, 0, 0)

Fclose ==
  \E f \in {Flush(impl)} :
     /\ Open
     /\ Says([Closed EXCEPT !.disk = f.m.disk], ideal,
             IF f.ok /\ "place" \notin f.m.astray THEN f.m.disk ELSE ideal.data, ideal.data)

StdioNext ==
  /\ kind = "stdio" /\ impl.astray = {}
  /\ \/ \E mode \in {<<"r">>, <<"w", "b">>, <<"r", "+">>, <<"w", "+", "b">>, <<"a">>, <<"r", "b", "b">>},
           lbf \in BOOLEAN : Fopen(mode, lbf)
     \/ Fgetc \/ Fflush \/ Fclose \/ Rewind
     \/ \E n \in ReadSize : Fgets(n) \/ FreadCall(n)
     \/ \E c \in Byte : Fputc(c)
     \/ \E n \in ReadSize : FwriteCall([i \in 1 .. n |-> LF])
     \/ \E offset \in -1 .. 2, whence \in {"SET", "CUR", "END"} : FseekCall(offset, whence)

(* Properties *)

\* While it is not astray and has no error, a stream reads what the program means
\* to read, tells its position, and its file with the unwritten buffer over it is
\* what the program wrote; fclose that succeeds leaves that file.
StreamExact ==
  kind = "stdio" /\ impl.astray = {} =>
    /\ got = want
    /\ Open /\ ~impl.err =>
         /\ ideal.at = impl.seek + impl.pos
         /\ ideal.data = IF impl.dirty THEN WriteAt(impl.disk, impl.seek, impl.buf) ELSE impl.disk
=============================================================================
