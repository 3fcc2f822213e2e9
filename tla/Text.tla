----------------------------------- MODULE Text -----------------------------------
(***************************************************************************)
(* Characters and strings: the character classes, the string functions     *)
(* (lib/libnc/ctype, lib/libnc/string), numbers read from text and UTF-8   *)
(* (lib/libc/stdlib).  A string is the sequence of its bytes without the   *)
(* ending NUL; a pointer into it is an offset, None the null pointer.      *)
(***************************************************************************)
EXTENDS Integers, SequencesExt, FiniteSetsExt

CONSTANTS
  Numeral,    \* strings read as numbers
  Base,       \* and the bases they are read in
  LongBits,   \* the width of a long
  Byte, Wide, \* bytes and wide characters converted
  Letter,     \* the letters of the strings searched and copied
  LengthMax   \* the longest string searched and copied

VARIABLES kind, impl, ideal, got, want

None == -1
\* The byte at an offset; the string ends with NUL.
At(s, i) == IF i < Len(s) THEN s[i + 1] ELSE 0

-----------------------------------------------------------------------------
(* ctype.c: the classes of tbl, and what is built of them.                    *)

Tbl(c) ==
  CASE c \in 9..13 -> {"C", "S"}
    [] c \in 0..8 \cup 14..31 \cup {127} -> {"C"}
    [] c = 32 -> {"W"}
    [] c \in 48..57 -> {"D"}
    [] c \in 65..70 -> {"U", "X"}
    [] c \in 71..90 -> {"U"}
    [] c \in 97..102 -> {"L", "X"}
    [] c \in 103..122 -> {"L"}
    [] c \in 33..126 -> {"P"}
    [] OTHER -> {}

Is(c, classes) == Tbl(c) \cap classes # {}
IsSpace(c) == Is(c, {"S", "W"})
IsDigit(c) == Is(c, {"D"})
ToLower(c) == IF Is(c, {"U"}) THEN c + 32 ELSE c
ToUpper(c) == IF Is(c, {"L"}) THEN c - 32 ELSE c

\* Every byte is a letter, a digit, punctuation, a control, a blank or none of
\* the code; case is changed and changed back.
Classify ==
  \E c \in 0..255 :
    /\ impl' = <<"ctype", c>>
    /\ got' = <<Cardinality(Tbl(c) \cap {"U", "L", "D", "P", "C", "W"}),
                ToUpper(ToLower(c)), Is(c, {"D", "X"}), IsSpace(c)>>
    /\ want' = <<IF c < 128 THEN 1 ELSE 0, ToUpper(c),
                 ToUpper(c) \in 48..57 \cup 65..70, c \in {9, 10, 11, 12, 13, 32}>>

-----------------------------------------------------------------------------
(* strtol, strtoul, atoi.                                                     *)

LongMax == 2 ^ (LongBits - 1) - 1
ULongMax == 2 ^ LongBits - 1
AsLong(u) == IF u > LongMax THEN u - 2 ^ LongBits ELSE u
Negated(u) == (2 ^ LongBits - u) % 2 ^ LongBits

GetNum(chr, base) ==
  LET c == ToUpper(chr)
      n == IF chr \in 48..57 THEN chr - 48 ELSE IF c \in 65..90 THEN c - 55 ELSE -1
  IN IF base <= n THEN -1 ELSE n

SkipSpace(s) == Min({i \in 0..Len(s) : ~IsSpace(At(s, i))})
Minus(s, i) == At(s, i) = 45
Signed(s, i) == At(s, i) \in {43, 45}

\* The digits from r on: v saturates at max and errno is set.
RECURSIVE Digits(_, _, _, _, _)
Digits(s, r, base, max, v) ==
  LET n == GetNum(At(s, r), base)
      over == v.v * base > max \/ n > max - v.v * base
  IN IF n < 0 THEN [v |-> v.v, end |-> r, errno |-> v.errno]
     ELSE Digits(s, r + 1, base, max,
                 [v |-> IF over THEN max ELSE v.v * base + n,
                  errno |-> IF over THEN "ERANGE" ELSE v.errno])

\* strtol (signed) and strtoul.
Strtol(s, base, signed) ==
  LET i == SkipSpace(s)
      minus == Minus(s, i)
      r == IF Signed(s, i) THEN i + 1 ELSE i
      hex == At(s, r) = 48 /\ ToUpper(At(s, r + 1)) = 88 /\ GetNum(At(s, r + 2), 16) >= 0
      b == IF base # 0 THEN base ELSE IF hex THEN 16 ELSE IF At(s, r) = 48 THEN 8 ELSE 10
      first == IF b = 16 /\ hex THEN r + 2 ELSE r
      max == IF ~signed THEN ULongMax ELSE IF minus THEN LongMax + 1 ELSE LongMax
      d == Digits(s, first, b, max, [v |-> 0, errno |-> "none"])
      u == IF minus THEN Negated(d.v) ELSE d.v
  IN IF base # 0 /\ base \notin 2..36 THEN [v |-> 0, end |-> 0, errno |-> "EINVAL"]
     ELSE IF GetNum(At(s, first), b) < 0 THEN [v |-> 0, end |-> 0, errno |-> "none"]
     ELSE [d EXCEPT !.v = IF signed THEN AsLong(u) ELSE u]

Strtoul(s, base) == Strtol(s, base, FALSE)

Atoi(s) ==
  LET i == SkipSpace(s)
      r == IF Signed(s, i) THEN i + 1 ELSE i
      last == Min({k \in r..Len(s) : ~IsDigit(At(s, k))})
      v == FoldSeq(LAMBDA c, a : (a * 10 + c - 48) % 2 ^ LongBits, 0, Reverse(SubSeq(s, r + 1, last)))
  IN AsLong(IF Minus(s, i) THEN Negated(v) ELSE v)

\* The number a string begins with: the longest prefix that is one, its value
\* brought into the range of the type (a negative number too low for strtoul
\* is answered as 1, the negation of the greatest).
Number(s, base, signed) ==
  LET i == Min({k \in 0..Len(s) : At(s, k) \notin {9, 10, 11, 12, 13, 32}})
      r == IF At(s, i) \in {43, 45} THEN i + 1 ELSE i
      digit(c) == IF c \in 48..57 THEN c - 48 ELSE IF c \in 65..90 THEN c - 55
                  ELSE IF c \in 97..122 THEN c - 87 ELSE 36
      x == At(s, r) = 48 /\ At(s, r + 1) \in {88, 120} /\ digit(At(s, r + 2)) < 16
      b == IF base # 0 THEN base ELSE IF x THEN 16 ELSE IF At(s, r) = 48 THEN 8 ELSE 10
      from == IF b = 16 /\ x THEN r + 2 ELSE r
      to == Min({k \in from..Len(s) : digit(At(s, k)) >= b})
      value == FoldFunctionOnSet(LAMBDA a, c : a + c, 0,
                 [k \in from..(to - 1) |-> digit(At(s, k)) * b ^ (to - 1 - k)], from..(to - 1))
      n == IF At(s, i) = 45 THEN -value ELSE value
      low == IF signed THEN -LongMax - 1 ELSE -ULongMax
      high == IF signed THEN LongMax ELSE ULongMax
  IN IF base \in {1, 37} THEN [v |-> 0, end |-> 0, errno |-> "EINVAL"]
     ELSE IF to = from THEN [v |-> 0, end |-> 0, errno |-> "none"]
     ELSE [v |-> IF signed THEN Max({low, Min({high, n})})
                 ELSE IF n < low THEN 1 ELSE IF n < 0 THEN n + 2 ^ LongBits ELSE Min({high, n}),
           end |-> to, errno |-> IF n \in low..high THEN "none" ELSE "ERANGE"]

ReadNumber ==
  \E s \in Numeral, base \in Base, signed \in BOOLEAN :
    /\ impl' = <<"strtol", s, base, signed>>
    /\ got' = IF signed THEN Strtol(s, base, TRUE) ELSE Strtoul(s, base)
    /\ want' = Number(s, base, signed)

ReadInt ==
  \E s \in Numeral :
    LET n == Number(s, 10, TRUE)
    IN /\ n.errno = "none"
       /\ impl' = <<"atoi", s>>
       /\ got' = <<Atoi(s)>>
       /\ want' = <<n.v>>

-----------------------------------------------------------------------------
(* UTF-8: mbtowc (and mblen), wctomb, mbstowcs, wcstombs.                     *)

MbCurMax == 4

\* The bits of ch followed by those of n body bytes; 0 when one is no body.
RECURSIVE AppendBody(_, _, _)
AppendBody(ch, s, n) ==
  IF n = 0 THEN ch
  ELSE IF At(s, 1) \div 64 # 2 THEN 0
  ELSE AppendBody(ch * 64 + (At(s, 1) % 64), Tail(s), n - 1)

Mbtowc(s, n) ==
  LET b == At(s, 0)
      len == IF b \div 128 = 0 THEN 1 ELSE IF b \div 32 = 6 THEN 2
             ELSE IF b \div 16 = 14 THEN 3 ELSE IF b \div 8 = 30 THEN 4 ELSE 0
      low == <<0, 127, 2047, 65535>>
      ch == AppendBody(b % 2 ^ (7 - len), s, len - 1)
  IN CASE len = 1 -> [len |-> IF b = 0 THEN 0 ELSE 1, w |-> b]
       [] len \in 2..4 /\ n >= len /\ ch > low[len] /\ ch <= 1114111 -> [len |-> len, w |-> ch]
       [] OTHER -> [len |-> -1, w |-> None]

Wctomb(ch) ==
  CASE ch <= 127 -> <<ch>>
    [] ch \in 128..2047 -> <<192 + (ch \div 64), 128 + (ch % 64)>>
    [] ch \in 2048..65535 -> <<224 + (ch \div 4096), 128 + ((ch \div 64) % 64), 128 + (ch % 64)>>
    [] ch \in 65536..1114111 -> <<240 + (ch \div 262144), 128 + ((ch \div 4096) % 64),
                                  128 + ((ch \div 64) % 64), 128 + (ch % 64)>>
    [] OTHER -> <<>>
Count(ch) == CASE ch <= 127 -> 1 [] ch \in 128..2047 -> 2 [] ch \in 2048..65535 -> 3
               [] ch \in 65536..1114111 -> 4 [] OTHER -> -1

RECURSIVE Mbstowcs(_, _)
Mbstowcs(s, n) ==
  LET m == Mbtowc(s, MbCurMax)
      rest == Mbstowcs(SubSeq(s, m.len + 1, Len(s)), n - 1)
  IN IF n = 0 \/ m.len = 0 THEN <<>>
     ELSE IF m.len < 0 \/ rest = <<None>> THEN <<None>>
     ELSE <<m.w>> \o rest

\* The bytes stored and the length answered.  When the text just fills the
\* buffer the ending NUL is stored one past it.
RECURSIVE Wcstombs(_, _)
Wcstombs(ws, n) ==
  LET c == Wctomb(Head(ws))
      rest == Wcstombs(Tail(ws), n - Len(c))
  IN IF ws = <<>> THEN [s |-> <<0>>, len |-> 0]
     ELSE IF c = <<>> THEN [s |-> <<>>, len |-> -1]
     ELSE IF n < Len(c) THEN [s |-> SubSeq(c, 1, n), len |-> n]
     ELSE IF rest.len < 0 THEN rest
     ELSE [s |-> c \o rest.s, len |-> Len(c) + rest.len]
WcstombsCount(ws) ==
  IF \E i \in DOMAIN ws : Count(ws[i]) < 0 THEN -1
  ELSE FoldSeq(LAMBDA w, a : a + Count(w), 0, ws)

\* Bytes are a character exactly when they are what that character is written as.
Decode ==
  \E a, b, c, d \in Byte, n \in 1..4 :
    LET s == SubSeq(<<a, b, c, d>>, 1, n)
        m == Mbtowc(s, n)
        first == {w \in Wide : Wctomb(w) # <<>> /\ IsPrefix(Wctomb(w), s)}
    IN /\ impl' = <<"mbtowc", s>>
       /\ got' = [ok |-> m.len >= 0, same |-> m.len < 0 \/ a = 0 \/ Wctomb(m.w) = SubSeq(s, 1, m.len)]
       /\ want' = [ok |-> first # {} \/ m.w \notin {None} \cup Wide, same |-> TRUE]

Encode ==
  \E w \in Wide :
    LET s == Wctomb(w)
        m == Mbtowc(s, Len(s))
    IN /\ impl' = <<"wctomb", w>>
       /\ got' = <<IF s = <<>> THEN -1 ELSE m.w, IF s = <<>> THEN -1 ELSE Len(s)>>
       /\ want' = <<IF w <= 1114111 THEN w ELSE -1, Count(w)>>

\* A wide string written out and read back is the same, in as many bytes as
\* were asked for; a buffer too short is filled and no more.
Translate ==
  \E v, w \in Wide \ {0}, n \in 0..9 :
    LET r == Wcstombs(<<v, w>>, n)
        size == WcstombsCount(<<v, w>>)
        fits == size \in 0..(n - 1)
    IN /\ size # n
       /\ impl' = <<"wcstombs", v, w, n>>
       /\ got' = <<Len(r.s) <= n, r.len, IF fits THEN Mbstowcs(r.s, 5) ELSE <<>>>>
       /\ want' = <<TRUE, IF fits THEN size ELSE IF Count(v) \in 0..n /\ Count(w) < 0 THEN -1
                          ELSE IF Count(v) < 0 THEN -1 ELSE n,
                    IF fits THEN <<v, w>> ELSE <<>>>>

-----------------------------------------------------------------------------
(* The string functions.                                                      *)

Strlen(s) == Min({i \in 0..Len(s) : At(s, i) = 0})
\* strchr finds the ending NUL too.
Strchr(s, c) == LET hit == {i \in 0..Strlen(s) : At(s, i) = c} IN IF hit = {} THEN None ELSE Min(hit)
Strrchr(s, c) == LET hit == {i \in 0..Strlen(s) : At(s, i) = c} IN IF hit = {} THEN None ELSE Max(hit)
Memchr(s, c, n) == LET hit == {i \in 0..(n - 1) : At(s, i) = c} IN IF hit = {} THEN None ELSE Min(hit)
Strcspn(s, reject) == Min({i \in 0..Len(s) : i = Len(s) \/ Strchr(reject, At(s, i)) # None})
Strspn(s, accept) == Min({i \in 0..Len(s) : i = Len(s) \/ Strchr(accept, At(s, i)) = None})
Strpbrk(s, accept) == LET i == Strcspn(s, accept) IN IF i = Len(s) THEN None ELSE i

\* The first difference within n bytes, or at the end of both.
Strncmp(a, b, n) ==
  LET stop == {i \in 0..(n - 1) : At(a, i) # At(b, i) \/ At(a, i) = 0}
  IN IF stop = {} THEN 0 ELSE At(a, Min(stop)) - At(b, Min(stop))
Strcmp(a, b) == Strncmp(a, b, Len(a) + 1)
Memcmp(a, b, n) ==
  LET stop == {i \in 0..(n - 1) : At(a, i) # At(b, i)}
  IN IF stop = {} THEN 0 ELSE At(a, Min(stop)) - At(b, Min(stop))

\* Copies into a buffer, byte by byte: memcpy goes up, memmove down when dest is above.
RECURSIVE CopyUp(_, _, _, _)
CopyUp(m, w, r, n) == IF n = 0 THEN m ELSE CopyUp([m EXCEPT ![w] = m[r]], w + 1, r + 1, n - 1)
RECURSIVE CopyDown(_, _, _, _)
CopyDown(m, w, r, n) ==
  IF n = 0 THEN m ELSE CopyDown([m EXCEPT ![w + n - 1] = m[r + n - 1]], w, r, n - 1)
Memmove(m, dest, src, n) ==
  IF dest <= src THEN CopyUp(m, dest, src, n) ELSE CopyDown(m, dest, src, n)

Strncpy(s, n) == [i \in 1..n |-> At(s, i - 1)]
Strncat(a, s, n) == a \o SubSeq(s, 1, Min({n, Len(s)}))
Memccpy(s, c, n) ==
  LET i == Memchr(s, c, n) IN IF i = None THEN [s |-> SubSeq(s, 1, n), end |-> None]
                              ELSE [s |-> SubSeq(s, 1, i + 1), end |-> i + 1]

\* Sunday's search: shift by the character after the window.
RECURSIVE StrstrFrom(_, _, _)
StrstrFrom(s, key, i) ==
  LET after == At(s, i + Len(key))
      hit == {k \in DOMAIN key : key[k] = after}
      skip == IF hit = {} THEN Len(key) + 1 ELSE Len(key) - (Max(hit) - 1)
  IN IF i > Len(s) - Len(key) THEN None
     ELSE IF SubSeq(s, i + 1, i + Len(key)) = key THEN i
     ELSE StrstrFrom(s, key, i + skip)
Strstr(s, key) == IF key = <<>> THEN 0 ELSE StrstrFrom(s, key, 0)

\* One call of strtok_r on the rest of a string: the token and the new rest.
StrtokR(p, sep) ==
  LET start == Strspn(p, sep)
      q == SubSeq(p, start + 1, Len(p))
      len == Strcspn(q, sep)
  IN [token |-> SubSeq(q, 1, len), found |-> q # <<>>, state |-> SubSeq(q, len + 2, Len(q))]
RECURSIVE Tokens(_, _)
Tokens(p, sep) ==
  LET t == StrtokR(p, sep) IN IF t.found THEN <<t.token>> \o Tokens(t.state, sep) ELSE <<>>

Strings == UNION {[1..n -> Letter] : n \in 0..LengthMax}
Short == UNION {[1..n -> Letter] : n \in 0..2}

\* The tokens are the longest runs free of separators, in order; a search finds
\* the first place the key stands at.
Search ==
  \E s \in Strings, key \in Short :
    LET places == {i \in 0..(Len(s) - Len(key)) : SubSeq(s, i + 1, i + Len(key)) = key}
        sep == ToSet(key)
        starts == {i \in DOMAIN s : s[i] \notin sep /\ (i = 1 \/ s[i - 1] \in sep)}
        run(i) == SubSeq(s, i, Max({j \in i..Len(s) : \A k \in i..j : s[k] \notin sep}))
    IN /\ impl' = <<"search", s, key>>
       /\ got' = <<Strstr(s, key), Tokens(s, key), Strpbrk(s, key), [c \in sep |-> Strrchr(s, c)]>>
       /\ want' = <<IF places = {} THEN None ELSE Min(places),
                    [k \in 1..Cardinality(starts) |->
                       run(CHOOSE i \in starts : Cardinality({j \in starts : j <= i}) = k)],
                    LET hit == {i \in DOMAIN s : s[i] \in sep} IN IF hit = {} THEN None ELSE Min(hit) - 1,
                    [c \in sep |-> LET at == {i \in DOMAIN s : s[i] = c} IN IF at = {} THEN None ELSE Max(at) - 1]>>

\* Moved bytes are the ones that stood at the source, wherever the two overlap;
\* comparing is comparing what strncpy would have copied.
Copy ==
  \E s, t \in Strings, n \in 0..LengthMax :
    LET dests == 0..(Len(s) - n)
        sign(x) == IF x < 0 THEN -1 ELSE IF x > 0 THEN 1 ELSE 0
    IN /\ impl' = <<"copy", s, t, n>>
       /\ got' = <<[dest, src \in dests |-> Memmove(s, dest + 1, src + 1, n)],
                   sign(Strncmp(s, t, n)), Strcmp(s, Strncat(s, t, n)) = 0,
                   [c \in Letter |-> Memccpy(s, c, Min({n, Len(s)})).s]>>
       /\ want' = <<[dest, src \in dests |->
                       [i \in 1..Len(s) |-> IF i \in (dest + 1)..(dest + n) THEN s[i - dest + src] ELSE s[i]]],
                    sign(Memcmp(Strncpy(s, n), Strncpy(t, n), n)), n = 0 \/ t = <<>>,
                    [c \in Letter |-> LET ends == {i \in 1..Min({n, Len(s)}) : s[i] = c}
                                      IN SubSeq(s, 1, Min(ends \cup {n, Len(s)}))]>>

TextNext ==
  /\ kind = "text"
  /\ impl = <<>>
  /\ Classify \/ ReadNumber \/ ReadInt \/ Decode \/ Encode \/ Translate \/ Search \/ Copy
  /\ UNCHANGED <<kind, ideal>>

=============================================================================
