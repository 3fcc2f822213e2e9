---------------------------------- MODULE Printf ----------------------------------
(***************************************************************************)
(* The printf engine (lib/libnc/stdio/vnprintf2.c, and vnprintf.c the      *)
(* kernel's) under snprintf, with the arithmetic of long numbers by which  *)
(* it prints a double exactly.  Words, exponents and significands are      *)
(* scaled down.  A text is a sequence of characters.                       *)
(***************************************************************************)
EXTENDS Integers, SequencesExt, FiniteSetsExt

CONSTANTS
  WordBits,           \* INT_BIT
  SigBits, ExpBits,   \* of a double
  MinUnits,           \* NUMBER_MIN_UNITS
  Columns,            \* MAX_INT_COLUMN
  PrintFormat,        \* formats, as sequences of characters
  StrSize,            \* the sizes of the buffers given to snprintf
  NumberMax           \* long numbers are kept below this

VARIABLES kind, impl, ideal, got, want

Word == 2 ^ WordBits
Half == 2 ^ (WordBits \div 2)
Bias == 2 ^ (ExpBits - 1) - 1
Special == 2 ^ ExpBits - 1

-----------------------------------------------------------------------------
(* number_t: the words of the number, lowest first; len of them in use, of    *)
(* Len(buf) there are.                                                        *)

RoundUp(n) == ((n + MinUnits - 1) \div MinUnits) * MinUnits
\* The highest of the words 1..n that is not 0, at least 1.
Used(f, n) == Max({1} \cup {i \in 1..n : f[i] # 0})

NumberCreate(x) ==
  LET buf == [i \in 1..MinUnits |-> IF i <= 2 THEN (x \div Word ^ (i - 1)) % Word ELSE 0]
  IN [buf |-> buf, len |-> Used(buf, 2)]

RECURSIVE Carried(_, _, _, _)
Carried(p, n, i, carry) ==
  LET v == (IF i <= p.len THEN p.buf[i] * n ELSE 0) + carry
  IN IF i > p.len + 1 THEN <<>> ELSE <<v>> \o Carried(p, n, i + 1, v \div Word)
NumberMultiply(p, n) ==
  LET len == p.len + 1
      grown == Max({Len(p.buf), IF Len(p.buf) < len THEN RoundUp(len) ELSE 0})
      v == Carried(p, n, 1, 0)
  IN [len |-> Used(v, len),
      buf |-> [i \in 1..grown |-> IF i <= len THEN v[i] % Word
                                  ELSE IF i <= Len(p.buf) THEN p.buf[i] ELSE 0]]

\* Words below first are 0 and are not moved.
NumberShift(p, n) ==
  LET first == Min({i \in 1..p.len : p.buf[i] # 0} \cup {p.len + 1})
      len == p.len + ((n + WordBits - 1) \div WordBits)
      size == IF Len(p.buf) < len THEN RoundUp(len) ELSE Len(p.buf)
      had(i) == IF i <= Len(p.buf) THEN p.buf[i] ELSE 0
      old(i) == IF i \in first..p.len THEN p.buf[i] ELSE 0
      q == n \div WordBits
      r == n % WordBits
      moved(i) == ((old(i - q) * 2 ^ r) % Word) + (old(i - q - 1) \div 2 ^ (WordBits - r))
      to == IF r = 0 THEN p.len + q ELSE p.len + q + 1
      cleared == first..Min({first + q - 1, p.len})
      buf == [i \in 1..size |-> IF i \in (first + q)..to THEN moved(i)
                                ELSE IF i \in cleared THEN 0 ELSE had(i)]
  IN IF n = 0 \/ first > p.len THEN p
     ELSE [buf |-> buf, len |-> IF r # 0 /\ buf[p.len + q + 1] # 0 THEN p.len + q + 1 ELSE p.len + q]

\* Division by ten, a half word at a time from the top.
RECURSIVE Divided(_, _, _)
Divided(p, i, rem) ==
  LET x == rem * Half + (p.buf[i] \div Half)
      y == (x % 10) * Half + (p.buf[i] % Half)
      q == (x \div 10) * Half + (y \div 10)
      below == Divided(p, i - 1, y % 10)
  IN IF i = 0 THEN [q |-> <<>>, rem |-> rem] ELSE [q |-> Append(below.q, q), rem |-> below.rem]
NumberDivide10(p) ==
  LET d == Divided(p, p.len, 0)
  IN [number |-> [buf |-> [i \in DOMAIN p.buf |-> IF i <= p.len THEN d.q[i] ELSE p.buf[i]],
                  len |-> Used(d.q, p.len)],
      digit |-> d.rem]

Value(p) == FoldFunctionOnSet(LAMBDA a, b : a + b, 0, [i \in 1..p.len |-> p.buf[i] * Word ^ (i - 1)], 1..p.len)
NumberZero == NumberCreate(0)

NumberStep(p, v, g, w) == impl' = p /\ ideal' = v /\ got' = <<Value(p), g>> /\ want' = <<v, w>>
Create == \E x \in {0, 1, Word - 1, Word, Word * Word - 1} : NumberStep(NumberCreate(x), x, 0, 0)
Multiply ==
  \E n \in {5, 25, 125} :
    /\ ideal < NumberMax \div n
    /\ NumberStep(NumberMultiply(impl, n), ideal * n, 0, 0)
\* Shifting is the first thing done to a number just created.
Shift ==
  \E n \in 0..(2 * WordBits + 1) :
    /\ impl = NumberCreate(ideal)
    /\ ideal < NumberMax \div 2 ^ n
    /\ NumberStep(NumberShift(impl, n), ideal * 2 ^ n, 0, 0)
\* The digits are taken off last.
Divide10 ==
  LET d == NumberDivide10(impl) IN NumberStep(d.number, ideal \div 10, d.digit, ideal % 10)

-----------------------------------------------------------------------------
(* Conversions.                                                               *)

Digit(n) == <<"0", "1", "2", "3", "4", "5", "6", "7", "8", "9",
              "a", "b", "c", "d", "e", "f">>[n + 1]
RECURSIVE Radix(_, _)
Radix(u, radix) == (IF u >= radix THEN Radix(u \div radix, radix) ELSE <<>>) \o <<Digit(u % radix)>>

\* _putd: the digits are stored in Columns places.
Putd(v, radix) ==
  IF radix = 10 /\ v < 0 THEN <<"-">> \o Radix((-v) % Word, radix) ELSE Radix(v % Word, radix)

\* _putx: from the half byte of the highest bit (count_nlz is its number).
HighBit(u) == Max({i \in 0..(WordBits - 1) : u \div 2 ^ i > 0})
Putx(v) ==
  LET u == v % Word
      shift == HighBit(u) \div 4
  IN IF u = 0 THEN <<"0">> ELSE [i \in 1..(shift + 1) |-> Digit((u \div 16 ^ (shift + 1 - i)) % 16)]

RECURSIVE NumberToDecimal(_)
NumberToDecimal(p) ==
  LET d == NumberDivide10(p)
  IN IF p.len = 1 /\ p.buf[1] = 0 THEN <<>> ELSE Append(NumberToDecimal(d.number), Digit(d.digit))

\* power5: as many powers of five as a word holds, the greatest used first.
Power5 == Max({k \in 1..WordBits : 5 ^ k < Word})
RECURSIVE Times5(_, _)
Times5(p, n) ==
  IF n >= Power5 THEN Times5(NumberMultiply(p, 5 ^ Power5), n - Power5)
  ELSE IF n > 0 THEN NumberMultiply(p, 5 ^ n) ELSE p

\* The significant bits down to the last that is set, and their number.
RECURSIVE Shed(_, _, _)
Shed(x, sig, i) ==
  IF sig = 0 THEN <<x, i>>
  ELSE Shed(2 * x + (sig \div 2 ^ (SigBits - 1)), (2 * sig) % 2 ^ SigBits, i + 1)

Putdouble(sig, exp) ==
  LET normal == Shed(1, sig, 0)
      x == IF exp = -Bias THEN sig ELSE normal[1]
      shift == IF exp = -Bias THEN SigBits + Bias - 1 ELSE normal[2] - exp
      point == Max({shift, 0})
      num == NumberCreate(x)
      digits == NumberToDecimal(IF shift > 0 THEN Times5(num, shift) ELSE NumberShift(num, -shift))
      whole == Len(digits) - point
  IN IF whole <= 0 THEN <<"0", ".">> \o [i \in 1..(-whole) |-> "0"] \o digits
     ELSE SubSeq(digits, 1, whole) \o <<".">> \o (IF point = 0 THEN <<"0">> ELSE <<>>)
          \o SubSeq(digits, whole + 1, Len(digits))

\* A double is its sign, exponent field and significand.
Putf(x) ==
  LET sign == IF x.minus THEN <<"-">> ELSE <<>>
  IN IF x.exp = Special /\ x.sig # 0 THEN <<"n", "a", "n">>
     ELSE IF x.exp = Special THEN sign \o <<"i", "n", "f">>
     ELSE IF x.exp = 0 /\ x.sig = 0 THEN sign \o <<"0", ".", "0">>
     ELSE sign \o Putdouble(x.sig, x.exp - Bias)

\* The double in decimal: its fraction has as many places as its last bit needs.
Exact(x) ==
  LET last == IF x.sig = 0 THEN SigBits ELSE Min({i \in 0..(SigBits - 1) : (x.sig \div 2 ^ i) % 2 = 1})
      full == (IF x.exp = 0 THEN 0 ELSE 2 ^ SigBits) + x.sig
      \* value = m / 2^k
      m == IF x.exp = 0 THEN x.sig ELSE full \div 2 ^ last
      k == IF x.exp = 0 THEN SigBits + Bias - 1 ELSE SigBits - last - (x.exp - Bias)
      n == IF k > 0 THEN m * 5 ^ k ELSE m * 2 ^ (-k)
      places == Max({k, 0})
  IN Radix(n \div 10 ^ places, 10) \o <<".">>
     \o (IF places = 0 THEN <<"0">> ELSE [i \in 1..places |-> Digit((n \div 10 ^ (places - i)) % 10)])

PrintDouble ==
  \E minus \in BOOLEAN, exp \in 0..(Special - 1), sig \in 0..(2 ^ SigBits - 1) :
    LET x == [minus |-> minus, exp |-> exp, sig |-> sig]
    IN /\ exp # 0 \/ sig # 0
       /\ impl' = x
       /\ got' = Putf(x)
       /\ want' = (IF minus THEN <<"-">> ELSE <<>>) \o Exact(x)
       /\ UNCHANGED ideal

-----------------------------------------------------------------------------
(* The handlers _immediate, _format and _escape, and snprintf over them.      *)

Handled(c, arg) ==
  CASE c = "c" -> <<arg.c>>
    [] c = "d" -> Putd(arg.d, 10)
    [] c = "o" -> Putd(arg.d, 8)
    [] c = "x" -> Putx(arg.d)
    [] c = "p" -> <<"0", "x">> \o Putx(arg.d)
    [] c = "s" -> arg.s
    [] c = "f" -> Putf(arg.f)
Escaped(c) == CASE c = "n" -> "LF" [] c = "r" -> "CR" [] c = "t" -> "TAB" [] OTHER -> c

\* The length modifier l takes the character after it; a format that ends in
\* l is read past its end, and is not given.
RECURSIVE FormatWith(_, _, _)
FormatWith(format, arg, known) ==
  LET c == format[1]
      d == format[2]
      e == format[3]
      from(k) == FormatWith(SubSeq(format, k, Len(format)), arg, known)
  IN IF format = <<>> THEN <<>>
     ELSE IF c \notin {"%", "\\"} THEN <<c>> \o from(2)
     ELSE IF Len(format) = 1 THEN <<c>>
     ELSE IF c = "\\" THEN <<Escaped(d)>> \o from(3)
     ELSE IF d # "l" THEN (IF d \in known THEN Handled(d, arg) ELSE <<"%", d>>) \o from(3)
     ELSE IF e \in known \cap {"d", "o", "x"} THEN Handled(e, arg) \o from(4)
     ELSE <<"%", "l", e>> \o from(4)

Format(format, arg) == FormatWith(format, arg, {"c", "d", "o", "x", "p", "s", "f"})

\* vnprintf, the kernel's, has no octal and no double; it gives every character out.
Vnprintf(format, arg) == FormatWith(format, arg, {"c", "d", "x", "p", "s"})

\* __putc stores what fits in size - 1; what does not fit is counted all the same.
Stored(size, text) ==
  LET max == IF size > 0 THEN size - 1 ELSE 0
  IN [str |-> SubSeq(text, 1, Min({max, Len(text)})) \o (IF size > 0 THEN <<"NUL">> ELSE <<>>),
      len |-> Len(text)]
Snprintf(size, format, arg) == Stored(size, Format(format, arg))

\* Printing into a short buffer stores the beginning of what a long one takes,
\* ended by NUL within size, and answers the same length; the kernel prints the
\* same text, where it knows the conversions.
PrintText ==
  \E size \in StrSize, format \in PrintFormat, v \in {-Word \div 2, -1, 0, 7, 10, Word \div 2 - 1} :
    LET arg == [c |-> "*", d |-> v, s |-> <<"a", "b">>, f |-> [minus |-> TRUE, exp |-> Bias, sig |-> 0]]
    IN \E long \in {Snprintf(100, format, arg)}, r \in {Snprintf(size, format, arg)} :
         /\ impl' = [size |-> size, format |-> format, v |-> v]
         /\ got' = [len |-> r.len, fits |-> Len(r.str) <= size,
                    text |-> IF r.len < size THEN r.str ELSE SubSeq(r.str, 1, Len(r.str) - 1),
                    kernel |-> Vnprintf(format, arg)]
         /\ want' = [len |-> Len(long.str) - 1, fits |-> TRUE,
                     text |-> IF r.len < size THEN long.str ELSE SubSeq(long.str, 1, Max({size - 1, 0})),
                     kernel |-> IF {"o", "f"} \cap ToSet(format) # {} THEN format ELSE Front(long.str)]
         /\ UNCHANGED ideal

\* A number of any radix is read back as itself.
PrintInteger ==
  \E v \in -(Word \div 2)..(Word \div 2 - 1), radix \in {8, 10, 16} :
    LET text == IF radix = 16 THEN Putx(v) ELSE Putd(v, radix)
        digits == SelectSeq(text, LAMBDA c : c # "-")
        number == FoldLeft(LAMBDA a, c : a * radix + (CHOOSE n \in 0..15 : Digit(n) = c), 0, digits)
    IN /\ impl' = [v |-> v, radix |-> radix]
       /\ got' = <<IF "-" \in ToSet(text) THEN -number ELSE number, digits[1] # "0" \/ v = 0,
                   radix = 8 \/ Len(digits) <= Columns>>
       /\ want' = <<IF radix = 10 THEN v ELSE v % Word, TRUE, TRUE>>
       /\ UNCHANGED ideal

PrintfNext ==
  \/ kind = "number" /\ UNCHANGED kind /\ (Create \/ Multiply \/ Shift)
  \/ kind \in {"number", "decimal"} /\ kind' = "decimal" /\ Divide10
  \/ kind = "printf" /\ got = <<>> /\ UNCHANGED kind /\ (PrintDouble \/ PrintText \/ PrintInteger)

=============================================================================
