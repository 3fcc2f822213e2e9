---------------------------- MODULE LibraryInputs ----------------------------
(***************************************************************************)
(* What the libraries and programs are given in the model MCLibrary: texts *)
(* as sequences of characters or of codes, and programs for the            *)
(* interpreter as data.                                                    *)
(***************************************************************************)
EXTENDS Integers, Sequences

Texts(chars, lengths) == UNION {[1 .. n -> chars] : n \in lengths}

\* gmtime and the others: the days around the leap day and the turn of 2000 and 2001,
\* and the first and the last days of years near the ends of the range.
DaySet == {0, 1, 364, 365, 788, 789, 790, 1094, 1095, 1096, 24836} \cup 10956 .. 11330
SampleDaySet == {0, 58, 364, 789, 10956, 11015, 11323, 24836}
YearSet == {1, 4, 100, 1700, 1751, 1752, 1753, 1800, 1900, 1970, 2000, 2024, 2026, 9999}
DateFormats ==
  {<<"%", c>> : c \in {"c", "F", "x", "X", "A", "B", "j", "I", "p", "Y", "U", "W", "Z", "%", "y", "q"}}
  \cup {<<"%">>, <<"-", "%">>, << >>}

\* strtol: blanks, a sign, digits of several bases and the limits of six bits.
Numerals ==
  Texts({32, 45, 48, 55, 57, 97, 120}, 0 .. 4)
  \cup {<<43, 49>>, <<45, 51, 50>>, <<45, 51, 51>>, <<51, 49>>, <<51, 50>>, <<54, 51>>, <<54, 52>>,
        <<45, 54, 52>>, <<48, 88, 49, 70>>}

PrintFormats ==
  {<<"%", c>> : c \in {"d", "x", "o", "p", "s", "f", "c", "q", "%"}}
  \cup {<< >>, <<"%">>, <<"\\">>, <<"a", "\\", "n", "%", "d">>, <<"%", "l", "d", "!">>,
        <<"%", "l", "x">>, <<"%", "l", "q">>, <<"%", "s", "%", "s">>}

\* The shell's lines, their words, its search path and what is exported.
LineChars == {"a", "'", "|", " ", "\\", "#", "BS", "LF"}
Words == {<<"a">>, <<"b">>, <<"<">>, <<">">>, <<"&">>, <<"|">>, <<"c", "d">>, <<"e", "x", "i", "t">>}
PathEntries == {<< >>, <<"/">>, <<"x">>, <<"x", "/">>, <<"x", "y", "z">>}
Exports == {<<"A">>, <<"A", "=">>, <<"A", "=", "1">>, <<"A", "B", "=", "1">>, <<"A", "B", "=", "=">>,
            <<"=", "1">>, <<"A", "=", "2">>, << >>}

\* Paths, and the directories they are relative to.
PathTexts == Texts({"a", ".", "/"}, 0 .. 7)
WorkDirs == {<<"/">>, <<"/", "a">>, <<"/", "a", "/", "b">>, <<"/", "a", "b">>}

-----------------------------------------------------------------------------
(* The interpreter's tokens and programs.                                     *)

Word(s) == <<"value", <<"sym", s>>>>
Lexemes ==
  {<< <<t>>, <<t>> >> : t \in {"(", ")", "'", "."}}
  \cup {<<Word(<<"a">>), <<"a">>>>, <<Word(<<"#", "a">>), <<"#", "a">>>>, <<Word(<<"-">>), <<"-">>>>,
        <<Word(<<"a", "sp", ";">>), <<"|", "a", "sp", ";", "|">>>>,
        <<<<"value", <<"int", 12>>>>, <<"1", "2">>>>, <<<<"value", <<"int", -1>>>>, <<"-", "1">>>>,
        <<<<"value", <<"str", <<"nl", "\"", "a">>>>>>, <<"\"", "\\", "n", "\\", "\"", "a", "\"">>>>}
Gaps == {<< >>, <<"sp">>, <<";", "a", "(", "nl">>, <<"nl", "#", "|", "a", "|", "#">>,
         <<"sp", "#", "|", "#", "|", "a", "|", "#", "|", "#">>}

S(s) == <<"sym", s>>
N(n) == <<"int", n>>
T(s) == <<"str", s>>
L(s) == IF s = << >> THEN <<"null">> ELSE <<"list", s>>
C1(f, a) == L(<<S(f), a>>)
C2(f, a, b) == L(<<S(f), a, b>>)
C3(f, a, b, c) == L(<<S(f), a, b, c>>)
Lambda(vs, body) == L(<<S("lambda"), L(vs)>> \o body)
Quote(v) == C1("quote", v)
x == S("x")
y == S("y")
f == S("f")

Expressions ==
  {x, N(3), C2("+", x, N(1)), C2("cons", x, y), C2("set!", x, C2("*", y, N(-2))),
   C3("if", C2("<", x, y), x, L(<<f, C2("-", x, N(1))>>)),
   L(<<S("and"), x, y, C2("=", x, y)>>), L(<<S("or"), C2("=", x, y), C2("=", y, x), x>>)}

\* A procedure whose body has two expressions over its parameter and a local
\* variable, and a closure that keeps and changes the parameter it was made with.
Procedures ==
  {<<C2("define", L(<<f, x>>), L(<<S("let"), L(<<L(<<y, N(2)>>)>>), a, b>>)), L(<<f, N(1)>>)>> :
     a \in Expressions, b \in Expressions}
  \cup
  {<<C2("define", L(<<S("g"), x>>), Lambda(<<y>>, <<a, C2("set!", x, C2("+", x, y)), x>>)),
     C2("define", S("h"), C1("g", N(1))),
     C2("define", L(<<f, x>>), x), C1("h", N(2)), C1("h", N(3))>> : a \in Expressions}

\* A loop, a recursion, parameters in a list, vectors, ports, closures in closures,
\* and what is answered with an error.
Samples ==
  {<<C2("define", L(<<S("loop"), x>>),
        C3("if", C2("=", x, N(0)), Quote(S("ok")), C1("loop", C2("-", x, N(1))))), C1("loop", N(9))>>,
   <<C2("define", L(<<f, x>>), C3("if", C2("<", x, N(2)), N(1), C2("*", x, C1("f", C2("-", x, N(1)))))),
     C1("f", N(4))>>,
   <<C2("define", S("k"), L(<<S("lambda"), x, x>>)),
     C1("k", N(1)), C3("k", N(1), N(2), N(3)), L(<<S("k")>>)>>,
   <<C2("define", S("v1"), C1("make-vector", N(2))),
     C3("vector-set!", S("v1"), N(1), C2("cons", N(1), Quote(L(<< >>)))),
     C2("define", L(<<f>>), N(0)), L(<<f>>), C2("vector-ref", S("v1"), N(1)), C2("vector-ref", S("v1"), N(2))>>,
   <<C2("define", S("b1"), C1("make-bytevector", N(2))), C3("bytevector-u8-set!", S("b1"), N(0), N(5)),
     C2("define", L(<<f>>), N(0)), L(<<f>>), C2("bytevector-u8-ref", S("b1"), N(0)),
     C2("bytevector-u8-ref", S("b1"), N(2))>>,
   <<C2("define", L(<<S("o")>>), C3("open-file", T(<<"a">>), N(1), N(0))), L(<<S("o")>>),
     C2("define", S("p"), L(<<S("o")>>)), L(<<S("o")>>), C1("close-port", S("p")), C1("close-port", S("p")), N(1)>>,
   <<L(<<Lambda(<<x>>, <<Lambda(<<y>>, <<Lambda(<< >>, <<C2("+", x, y)>>)>>)>>), N(1)>>)>>,
   <<L(<<L(<<L(<<Lambda(<<x>>, <<Lambda(<<y>>, <<Lambda(<< >>, <<C2("+", x, y)>>)>>)>>), N(1)>>), N(2)>>)>>)>>,
   <<C2("car", N(1), N(2))>>, <<L(<< >>)>>, <<C1("undefined", N(1))>>, <<L(<<N(1), N(2)>>)>>,
   <<Quote(L(<<N(1), L(<<S("a")>>)>>)), Quote(<<"dotted", <<N(1)>>, N(2)>>)>>,
   <<L(<<S("begin"), C2("define", x, C2("cons", N(1), N(2))), C1("pair?", x)>>),
     C1("car", x), C1("cdr", x), C1("not", C2("eq?", C1("car", x), N(1))), C1("cdr", N(1))>>,
   <<C2("/", N(-7), N(2)), C2("truncate-quotient", N(7), N(-2)), C2("truncate-remainder", N(-7), N(2)),
     C3(">", N(3), N(2), N(2)), C3(">=", N(3), N(2), N(2)), C3("<=", N(1), N(1), N(0)), C1("abs", N(-128)),
     C2("/", N(1), N(0))>>,
   <<C1("string-length", T(<<"a", "b">>)), C3("string=?", T(<<"a">>), T(<<"a">>), T(<<"b">>)),
     C3("string-copy", T(<<"a", "b", "c">>), N(1), N(3)), C3("string-copy", T(<<"a">>), N(1), N(1))>>}
=============================================================================
