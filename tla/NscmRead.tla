--------------------------------- MODULE NscmRead ---------------------------------
(***************************************************************************)
(* The reader of the Scheme interpreter nscm (app/nscm/parse.c): text to   *)
(* tokens, tokens to data, and the rewriting of the derived forms (define  *)
(* of a procedure, begin, and, or, let) that the reader does to every list *)
(* it has read.                                                            *)
(***************************************************************************)
EXTENDS Integers, Sequences, SequencesExt

CONSTANTS
  Lexeme,     \* pairs <<token, the characters it is written with>>
  Gap,        \* what may stand between tokens, sequences of characters
  LexemeMax,  \* how many tokens a text has
  PeekSize    \* PEEK_SIZE

VARIABLES kind, impl, ideal, got, want

Sym(s) == <<"sym", s>>
Num(n) == <<"int", n>>
Bool(b) == <<"bool", b>>
Null == <<"null">>
\* A proper list that is not empty, and one that ends in a dot and a value.
List(s) == IF s = <<>> THEN Null ELSE <<"list", s>>
Pair(a, d) ==
  IF d = Null THEN <<"list", <<a>>>>
  ELSE IF d[1] = "list" THEN <<"list", <<a>> \o d[2]>>
  ELSE IF d[1] = "dotted" THEN <<"dotted", <<a>> \o d[2], d[3]>>
  ELSE <<"dotted", <<a>>, d>>

(***************************************************************************)
(* Characters.  A token_t is its input, the ring of characters put back    *)
(* and the depth of the comment being skipped.  "eof" is EOF.              *)
(***************************************************************************)
IsSpace(c) == c \in {"sp", "nl"}

\* peek_put: the ring holds one less than its size.
PeekPut(t, c) ==
  IF Len(t.peek) = PeekSize - 1 THEN [t EXCEPT !.bad = TRUE] ELSE [t EXCEPT !.peek = Append(@, c)]
\* token_getc: what was put back comes first.
Getc(t) == IF t.peek # <<>> THEN Head(t.peek) ELSE IF t.in # <<>> THEN Head(t.in) ELSE "eof"
Got(t) == IF t.peek # <<>> THEN [t EXCEPT !.peek = Tail(@)]
          ELSE IF t.in # <<>> THEN [t EXCEPT !.in = Tail(@)] ELSE t

\* skip_comment_block: comments nest.
RECURSIVE SkipCommentBlock(_, _)
SkipCommentBlock(t, depth) ==
  LET c == Getc(t)
      t1 == Got(t)
      c2 == Getc(t1)
      t2 == Got(t1)
  IN IF c = "eof" \/ (c \in {"#", "|"} /\ c2 = "eof") THEN [t2 EXCEPT !.exit = TRUE]
     ELSE IF c = "#" THEN SkipCommentBlock(t2, IF c2 = "|" THEN depth + 1 ELSE depth)
     ELSE IF c = "|" /\ c2 = "#" /\ depth = 1 THEN t2
     ELSE IF c = "|" THEN SkipCommentBlock(t2, IF c2 = "#" THEN depth - 1 ELSE depth)
     ELSE SkipCommentBlock(t1, depth)

RECURSIVE SkipLine(_)
SkipLine(t) == IF Getc(t) = "eof" THEN [t EXCEPT !.exit = TRUE]
               ELSE IF Getc(t) = "nl" THEN Got(t) ELSE SkipLine(Got(t))

\* token_get_until, token_get_string: the text up to its last character.
RECURSIVE GetUntil(_, _, _)
GetUntil(t, last, buf) ==
  IF Getc(t) = "eof" THEN [t |-> [t EXCEPT !.exit = TRUE], buf |-> buf]
  ELSE IF Getc(t) = last THEN [t |-> Got(t), buf |-> buf]
  ELSE GetUntil(Got(t), last, Append(buf, Getc(t)))
Escape(c) == CASE c = "a" -> "bell" [] c = "b" -> "back" [] c = "t" -> "tab" [] c = "n" -> "nl"
               [] c = "r" -> "cr" [] OTHER -> c
RECURSIVE GetString(_, _, _, _)
GetString(t, last, buf, escaping) ==
  LET c == Getc(t)
  IN IF c = "eof" THEN [t |-> [t EXCEPT !.exit = TRUE], buf |-> buf]
     ELSE IF escaping THEN GetString(Got(t), last, Append(buf, Escape(c)), FALSE)
     ELSE IF c = "\\" THEN GetString(Got(t), last, buf, TRUE)
     ELSE IF c = last THEN [t |-> Got(t), buf |-> buf]
     ELSE GetString(Got(t), last, Append(buf, c), FALSE)

\* A word: up to a blank, a semicolon or a parenthesis, which is put back.
RECURSIVE GetWord(_, _)
GetWord(t, buf) ==
  LET c == Getc(t)
  IN IF c \in {"eof", ";", "(", ")"} \/ IsSpace(c) THEN [t |-> PeekPut(Got(t), c), buf |-> buf]
     ELSE GetWord(Got(t), Append(buf, c))
Digit == [c \in {"0", "1", "2"} |-> CASE c = "0" -> 0 [] c = "1" -> 1 [] OTHER -> 2]
IsNumber(buf) == LET s == IF buf[1] \in {"-", "+"} THEN Tail(buf) ELSE buf
                 IN s # <<>> /\ \A i \in DOMAIN s : s[i] \in DOMAIN Digit
\* What strtol makes of a word that it reads to the end.
NumberOf(buf) == LET s == IF buf[1] \in {"-", "+"} THEN Tail(buf) ELSE buf
                     n == FoldLeft(LAMBDA sum, c : 10 * sum + Digit[c], 0, s)
                 IN IF buf[1] = "-" THEN -n ELSE n
WordToken(buf) == IF buf = <<".">> THEN <<".">>
                  ELSE <<"value", IF IsNumber(buf) THEN Num(NumberOf(buf)) ELSE Sym(buf)>>

\* token_get_token: t with the token it found, or with exit or bad set.
RECURSIVE GetToken(_)
GetToken(t) ==
  LET c == Getc(t)
      t1 == Got(t)
      sym == GetUntil(t1, "|", <<>>)
      str == GetString(t1, "\"", <<>>, FALSE)
      back == PeekPut(Got(t1), Getc(t1))
      word(u) == LET w == GetWord(u, <<c>>) IN [w.t EXCEPT !.token = WordToken(w.buf)]
  IN IF t.exit \/ t.bad THEN t
     ELSE CASE c = "eof" -> [t1 EXCEPT !.exit = TRUE]
            [] c = ";" -> GetToken(SkipLine(t1))
            [] c = "|" -> [sym.t EXCEPT !.token = <<"value", Sym(sym.buf)>>]
            [] c = "\"" -> [str.t EXCEPT !.token = <<"value", <<"str", str.buf>>>>]
            [] c = "#" /\ Getc(t1) = "|" -> GetToken(SkipCommentBlock(Got(t1), 1))
            [] c = "#" /\ Getc(t1) # "|" -> word(back)
            [] IsSpace(c) -> GetToken(t1)
            [] c \in {"(", ")", "'"} -> [t1 EXCEPT !.token = <<c>>]
            [] OTHER -> word(t1)
RECURSIVE Tokens(_, _)
Tokens(t, read) == LET u == GetToken(t)
                   IN IF u.exit \/ u.bad THEN read ELSE Tokens(u, Append(read, u.token))
ReadTokens(text) ==
  Tokens([in |-> text, peek |-> <<>>, exit |-> FALSE, bad |-> FALSE, token |-> <<>>], <<>>)

(***************************************************************************)
(* preprocess: the derived forms.  Fail is a throw.                        *)
(***************************************************************************)
Fail == <<"fail">>
Length(x) == IF x = Null THEN 0 ELSE IF x[1] = "list" THEN Len(x[2]) ELSE -1
Lambda(vars, body) == List(<<Sym("lambda"), vars>> \o body)
If(a, b, c) == List(<<Sym("if"), a, b, c>>)

RECURSIVE AndForm(_), OrForm(_)
AndForm(s) == IF Len(s) = 2 THEN If(s[1], s[2], Bool(FALSE))
              ELSE If(s[1], AndForm(Tail(s)), Bool(FALSE))
\* The value of the test is bound to a variable called v.
OrForm(s) ==
  List(<<Lambda(List(<<Sym("v")>>),
                <<If(Sym("v"), Sym("v"), IF Len(s) = 2 THEN s[2] ELSE OrForm(Tail(s)))>>), s[1]>>)

LetForm(vars, body) ==
  IF Length(vars) <= 0 THEN Fail
  ELSE IF \E i \in DOMAIN vars[2] : Length(vars[2][i]) # 2 THEN Fail
  ELSE List(<<Lambda(List([i \in DOMAIN vars[2] |-> vars[2][i][2][1]]), body)>>
            \o [i \in DOMAIN vars[2] |-> vars[2][i][2][2]])
DefineForm(s) ==
  IF Len(s) >= 3 /\ Length(s[2]) > 0
  THEN List(<<s[1], s[2][2][1], Lambda(List(Tail(s[2][2])), SubSeq(s, 3, Len(s)))>>)
  ELSE List(s)

Preprocess(x) ==
  IF Length(x) <= 0 THEN x
  ELSE LET s == x[2]
           head == s[1]
       IN CASE head = Sym("define") -> DefineForm(s)
            [] head = Sym("begin") -> IF Len(s) < 2 THEN Fail ELSE List(<<Lambda(Null, Tail(s))>>)
            [] head \in {Sym("and"), Sym("or")} /\ Len(s) = 1 -> Bool(head = Sym("and"))
            [] head \in {Sym("and"), Sym("or")} /\ Len(s) = 2 -> s[2]
            [] head = Sym("and") /\ Len(s) > 2 -> AndForm(Tail(s))
            [] head = Sym("or") /\ Len(s) > 2 -> OrForm(Tail(s))
            [] head = Sym("let") -> IF Len(s) < 3 THEN Fail ELSE LetForm(s[2], SubSeq(s, 3, Len(s)))
            [] OTHER -> x

(***************************************************************************)
(* token_parse_value, token_parse_list.  ts starts with the current token; *)
(* the result is the value and the tokens that follow it.  The text ends   *)
(* in the middle of a value: the interpreter exits, here Fail too.         *)
(***************************************************************************)
Parsed(v, ts) == [v |-> v, rest |-> ts]
RECURSIVE ParseValue(_), ParseList(_)
ParseValue(ts) ==
  LET quoted == ParseValue(Tail(ts))
      list == ParseList(Tail(ts))
  IN CASE ts = <<>> -> Parsed(Fail, <<>>)
       [] ts # <<>> /\ Head(ts) = <<"(">> ->
            Parsed(IF list.v = Fail THEN Fail ELSE Preprocess(list.v), list.rest)
       [] ts # <<>> /\ Head(ts) = <<"'">> ->
            Parsed(IF quoted.v = Fail THEN Fail ELSE List(<<Sym("quote"), quoted.v>>), quoted.rest)
       [] ts # <<>> /\ Head(ts)[1] = "value" -> Parsed(Head(ts)[2], Tail(ts))
       [] OTHER -> Parsed(Fail, <<>>)
ParseList(ts) ==
  CASE ts = <<>> -> Parsed(Fail, <<>>)
    [] ts # <<>> /\ Head(ts) = <<")">> -> Parsed(Null, Tail(ts))
    [] ts # <<>> /\ Head(ts) = <<".">> ->
         LET next == ParseValue(Tail(ts))
         IN IF next.v = Fail \/ next.rest = <<>> \/ Head(next.rest) # <<")">> THEN Parsed(Fail, <<>>)
            ELSE Parsed(next.v, Tail(next.rest))
    [] OTHER ->
         LET first == ParseValue(ts)
             rest == ParseList(first.rest)
         IN IF first.v = Fail \/ rest.v = Fail THEN Parsed(Fail, <<>>)
            ELSE Parsed(Pair(first.v, rest.v), rest.rest)

(***************************************************************************)
(* The text of some tokens, written with gaps between them, is read back   *)
(* as these tokens.                                                        *)
(***************************************************************************)
RECURSIVE Written(_)
Written(ls) == IF ls = <<>> THEN <<>> ELSE Head(ls)[1][2] \o Head(ls)[2] \o Written(Tail(ls))
Parenthesis == {<<"(">>, <<")">>}
Delimited(ls) ==
  \A i \in 1..(Len(ls) - 1) :
    ls[i][2] # <<>> \/ ls[i][1][1] \in Parenthesis \/ ls[i + 1][1][1] \in Parenthesis
ReadText ==
  /\ kind = "tokens" /\ impl = <<>>
  /\ \E n \in 0..LexemeMax : \E ls \in [1..n -> Lexeme \X Gap], gap \in Gap :
       /\ Delimited(ls)
       /\ got' = ReadTokens(gap \o Written(ls))
       /\ want' = [i \in 1..n |-> ls[i][1][1]]
  /\ impl' = <<"done">>
  /\ UNCHANGED <<kind, ideal>>
=============================================================================
