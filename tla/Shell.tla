------------------------------- MODULE Shell -------------------------------
(***************************************************************************)
(* The shell app/bin/shell.c: how it takes a line, splits it into words    *)
(* and commands, wires their files and pipes, finds programs in PATH and   *)
(* keeps variables; each against a reference.  A text is a sequence of     *)
(* characters, blanks and controls written by name.  Growing buffers are   *)
(* left out, but for whether a character is put inside.                    *)
(***************************************************************************)
EXTENDS Integers, SequencesExt, FiniteSetsExt

CONSTANTS
  LineChar,      \* characters that are typed
  LineMax,       \* at most as many before the newline
  ShellWord,     \* words of the lines that are executed
  WordMax,       \* at most as many in a line
  PathEntry,     \* entries of PATH
  MaxPathLen,    \* MAXPATHLEN
  Variable       \* texts given to export

VARIABLES kind, impl, ideal, got, want

Blank == {" ", "LF"}
None == -1

-----------------------------------------------------------------------------
(* Taking a line: l is [buf, head, quoting, done], pos is Len(buf)            *)

LineClear == [buf |-> << >>, head |-> 0, quoting |-> FALSE, done |-> FALSE]

\* line_preprocess from index i: a comment or the newline ends the text, and an
\* escaped newline asks for another line.
RECURSIVE Preprocess(_, _)
Preprocess(l, i) ==
  LET c == l.buf[i]
      more(buf) == [l EXCEPT !.buf = buf, !.head = Len(buf)]
  IN CASE c = "'" -> Preprocess([l EXCEPT !.quoting = ~@], i + 1)
       [] c = "\\" /\ l.buf[i + 1] = "LF" ->
            IF l.quoting THEN more(SubSeq(l.buf, 1, i + 1)) ELSE more(SubSeq(l.buf, 1, i - 1) \o <<" ">>)
       [] c \in {"LF", "EOF"} \/ (c = "#" /\ ~l.quoting) ->
            [l EXCEPT !.buf = SubSeq(l.buf, 1, i - 1) \o <<"NUL">>, !.done = TRUE]
       [] OTHER -> Preprocess(l, i + 1)

LinePutc(l, c) ==
  CASE c \in {"LF", "EOF"} -> Preprocess([l EXCEPT !.buf = Append(@, c) \o <<"NUL">>], l.head + 1)
    [] c = "BS" -> IF Len(l.buf) > l.head THEN [l EXCEPT !.buf = Front(@)] ELSE l
    [] OTHER -> [l EXCEPT !.buf = Append(@, c)]

\* interpret: characters are taken until a line is complete, the last is EOF.
Interpret(text) == FoldLeft(LAMBDA l, c : IF l.done THEN l ELSE LinePutc(l, c), LineClear, text \o <<"LF", "EOF">>)

-----------------------------------------------------------------------------
(* line_parse *)

\* A word: within quotes two quotes stand for one.
RECURSIVE Word(_, _, _, _)
Word(buf, i, quoting, w) ==
  LET c == buf[i]
  IN IF c = "NUL" \/ (~quoting /\ c \in Blank) THEN [w |-> w, i |-> i, quoting |-> quoting]
     ELSE IF c # "'" THEN Word(buf, i + 1, quoting, Append(w, c))
     ELSE IF quoting /\ buf[i + 1] = "'" THEN Word(buf, i + 2, TRUE, Append(w, c))
     ELSE Word(buf, i + 1, ~quoting, w)

\* The words from index i to the end or the next '|', where position goes on.
RECURSIVE LineParse(_, _, _)
LineParse(buf, i, words) ==
  LET c == buf[i]
      r == Word(buf, i, FALSE, << >>)
      result(ok, ws, position) == [ok |-> ok, words |-> ws, position |-> position]
  IN CASE c \in Blank -> LineParse(buf, i + 1, words)
       [] c = "NUL" -> result(words # << >>, words, 0)
       [] c = "|" -> result(words # << >>, words, IF words = << >> THEN 0 ELSE i + 1)
       [] OTHER -> IF r.quoting THEN result(FALSE, << >>, 0)
                   ELSE IF buf[r.i] = "NUL" THEN result(TRUE, Append(words, r.w), 0)
                   ELSE LineParse(buf, r.i + 1, Append(words, r.w))

\* What the loop of line_evaluate is given, when every command is started
RECURSIVE Commands(_, _)
Commands(buf, i) ==
  LET p == LineParse(buf, i, << >>)
  IN IF ~p.ok THEN << >>
     ELSE <<p.words>> \o (IF p.position = 0 THEN << >> ELSE Commands(buf, p.position))

-----------------------------------------------------------------------------
(* line_evaluate: s is [fds, kids, opts, pipes, end]; fds are the descriptors *)
(* of the shell, end is how the evaluation ended.  env tells which files can  *)
(* not be opened, and whether pipe and fork work.                             *)

OptionsClear(pipe) == [in |-> pipe, out |-> None, pipe |-> None, background |-> FALSE]
Terminals == [fd \in 0 .. 2 |-> <<"terminal">>]
Evaluation == [fds |-> Terminals, kids |-> << >>, opts |-> OptionsClear(None), pipes |-> 0, end |-> "no"]

Without(fds, gone) == [fd \in DOMAIN fds \ gone |-> fds[fd]]
FreeFd(fds) == Min((0 .. Cardinality(DOMAIN fds)) \ DOMAIN fds)
WithFd(fds, fd, file) == [f \in DOMAIN fds \cup {fd} |-> IF f = fd THEN file ELSE fds[f]]
Stop(s, end) == [s EXCEPT !.end = end]

\* A redirection of side "in" or "out" to the file named w
Redirect(s, side, w, env) ==
  LET fds == Without(s.fds, {s.opts[side]})
      fd == FreeFd(fds)
  IN IF w \in env.missing THEN Stop([s EXCEPT !.fds = fds, !.opts[side] = None], "error")
     ELSE [s EXCEPT !.fds = WithFd(fds, fd, <<"file", w, side>>), !.opts[side] = fd]

\* The words from i on: redirections and '&' are taken out of them.
RECURSIVE Options(_, _, _, _, _)
Options(s, words, i, argv, env) ==
  LET w == words[i]
      side == IF w = <<"<">> THEN "in" ELSE "out"
      t == Redirect(s, side, words[i + 1], env)
  IN IF i > Len(words) THEN [s |-> s, argv |-> argv]
     ELSE IF w = <<"&">> THEN [s |-> [s EXCEPT !.opts.background = TRUE], argv |-> argv]
     ELSE IF w \notin {<<"<">>, <<">">>} THEN Options(s, words, i + 1, Append(argv, w), env)
     ELSE IF i = Len(words) THEN [s |-> Stop(s, "error"), argv |-> argv]
     ELSE IF t.end # "no" THEN [s |-> t, argv |-> argv]
     ELSE Options(t, words, i + 2, argv, env)

\* _pipe_create
PipeCreate(s, env) ==
  LET in == FreeFd(s.fds)
      one == WithFd(s.fds, in, <<"pipe", s.pipes, "in">>)
      out == FreeFd(one)
  IN IF s.opts.out # None \/ ~env.pipe THEN Stop(s, "error")
     ELSE [s EXCEPT !.fds = WithFd(one, out, <<"pipe", s.pipes, "out">>), !.pipes = @ + 1,
                    !.opts = [@ EXCEPT !.pipe = in, !.out = out, !.background = TRUE]]

\* What the child of execute does with its copy of the descriptors
ChildFds(s) ==
  LET take(fds, fd, i) == IF fd = None THEN fds ELSE Without(WithFd(fds, i, fds[fd]), {fd})
      both == take(take(s.fds, s.opts.in, 0), s.opts.out, 1)
  IN IF s.opts.background /\ s.opts.in = None THEN Without(both, {0}) ELSE both

\* execute: the parent closes what it gave, and waits for a child that is not in
\* the background.
Execute(s, argv, env) ==
  LET kid == [argv |-> argv, fds |-> ChildFds(s), waited |-> ~s.opts.background]
  IN [s EXCEPT !.fds = Without(@, {s.opts.in, s.opts.out}), !.kids = IF env.fork THEN Append(@, kid) ELSE @]

Inner == {<<"c", "d">>, <<"e", "n", "v">>, <<"e", "x", "p", "o", "r", "t">>}

\* A line that has no command is taken for a string that is not there.
RECURSIVE Evaluate(_, _, _, _)
Evaluate(s, buf, i, env) ==
  LET p == LineParse(buf, i, << >>)
      o == Options(s, p.words, 1, << >>, env)
      t == IF p.position = 0 THEN o.s ELSE PipeCreate(o.s, env)
      run == Execute(t, o.argv, env)
  IN IF ~p.ok THEN Stop(s, "end")
     ELSE IF o.s.end # "no" THEN o.s
     ELSE IF o.argv = << >> THEN Stop(o.s, "crash")
     ELSE IF o.argv[1] \in Inner THEN Stop(o.s, "end")
     ELSE IF o.argv[1] = <<"e", "x", "i", "t">> THEN Stop(o.s, "exit")
     ELSE IF t.end # "no" THEN t
     ELSE IF p.position = 0 THEN Stop(run, "end")
     ELSE Evaluate([run EXCEPT !.opts = OptionsClear(t.opts.pipe)], buf, p.position, env)

-----------------------------------------------------------------------------
(* Finding a program: get_path, and the loop over it in execute               *)

\* The entry at head with a '/' behind it; failed when it is empty or too long.
GetPath(path, head, max) ==
  LET ends == {i \in head .. Len(path) : path[i] = ":"}
      end == IF ends = {} THEN Len(path) + 1 ELSE Min(ends)
      entry == SubSeq(path, head, end - 1)
      dir == IF entry = << >> \/ Last(entry) = "/" THEN entry ELSE Append(entry, "/")
  IN [failed |-> entry = << >> \/ Len(dir) > max, dir |-> dir, last |-> ends = {}, head |-> end + 1]

RECURSIVE Tries(_, _, _)
Tries(path, head, name) ==
  LET t == GetPath(path, head, MaxPathLen - (Len(name) + 1))
  IN IF t.failed THEN << >>
     ELSE <<t.dir \o name>> \o (IF t.last THEN << >> ELSE Tries(path, t.head, name))

\* A name with a path is not looked for.
ToTry(path, name) == IF "/" \in Range(name) THEN <<name>> ELSE Tries(path, 1, name)

-----------------------------------------------------------------------------
(* Variables: vars is the set of the texts name=value in the hash table       *)

Equals(var) == {i \in DOMAIN var : var[i] = "="}
NameOf(var) == IF Equals(var) = {} THEN var ELSE SubSeq(var, 1, Min(Equals(var)) - 1)
VarCompare(a, b) == NameOf(a) = NameOf(b)

VarPut(vars, var) ==
  LET rest == {v \in vars : ~VarCompare(var, v)}
      at == Min(Equals(var))
  IN IF Equals(var) = {} \/ at = 1 \/ at = Len(var) THEN rest ELSE rest \cup {var}

\* var_create: the environment is taken over up to a text var_put refuses.
RECURSIVE VarCreate(_, _)
VarCreate(environ, vars) ==
  IF environ = << >> THEN vars
  ELSE IF Head(environ) # << >> /\ Head(environ)[1] = "=" THEN vars
  ELSE VarCreate(Tail(environ), VarPut(vars, Head(environ)))

VarGet(vars, key) ==
  LET found == {v \in vars : VarCompare(key, v)}
      var == CHOOSE v \in found : TRUE
  IN IF key = << >> \/ Equals(key) # {} \/ found = {} THEN << >>
     ELSE SubSeq(var, Min(Equals(var)) + 1, Len(var))

-----------------------------------------------------------------------------
(* References *)

\* The lines as they are meant, erased characters removed
RECURSIVE Typed(_)
Typed(text) ==
  LET back == {i \in DOMAIN text : text[i] = "BS"}
      i == Min(back)
  IN IF back = {} THEN text
     ELSE IF i = 1 \/ text[i - 1] = "LF" THEN Typed(RemoveAt(text, i))
     ELSE Typed(RemoveAt(RemoveAt(text, i), i - 1))

Quotes(t, i) == Cardinality({k \in 1 .. i - 1 : t[k] = "'"})
InQuotes(t, i) == Quotes(t, i) % 2 = 1
Escaping(t, i) == t[i] = "\\" /\ i < Len(t) /\ t[i + 1] = "LF"

\* Up to the comment or the newline that is not escaped; outside quotes an escaped
\* newline is one blank.
LogicalLine(text) ==
  LET t == Append(Typed(text), "LF")
      stops == {i \in DOMAIN t : \/ t[i] = "#" /\ ~InQuotes(t, i)
                                 \/ t[i] = "LF" /\ (i = 1 \/ ~Escaping(t, i - 1))}
      line == SubSeq(t, 1, Min(stops \cup {Len(t)}) - 1)
      shown(i) == IF Escaping(t, i) /\ ~InQuotes(t, i) THEN << >>
                  ELSE IF i > 1 /\ Escaping(t, i - 1) /\ ~InQuotes(t, i) THEN <<" ">> ELSE <<line[i]>>
  IN FlattenSeq([i \in DOMAIN line |-> shown(i)])

Ascending(S) == [k \in 1 .. Cardinality(S) |-> CHOOSE x \in S : Cardinality({y \in S : y < x}) = k - 1]
Splits(t, i) == t[i] \in Blank /\ ~InQuotes(t, i)
RECURSIVE IsBar(_, _)
IsBar(t, i) ==
  t[i] = "|" /\ ~InQuotes(t, i) /\ (i = 1 \/ Splits(t, i - 1) \/ IsBar(t, i - 1))
Spoken(t, i) ==
  IF t[i] # "'" \/ (i > 1 /\ t[i - 1] = "'" /\ ~InQuotes(t, i) /\ InQuotes(t, i - 1)) THEN <<t[i]>> ELSE << >>

\* The words between two bars are the runs of characters that are not split.
WordsOf(t, from, to) ==
  LET starts == {i \in from .. to : ~Splits(t, i) /\ (i = from \/ Splits(t, i - 1))}
      stop(i) == Min({k \in i .. to : Splits(t, k)} \cup {to + 1}) - 1
      word(i) == FlattenSeq([k \in 1 .. stop(i) - i + 1 |-> Spoken(t, i + k - 1)])
      order == Ascending(starts)
  IN [k \in DOMAIN order |-> word(order[k])]

\* The commands of a line before the first that is empty or not closed
CommandsOf(t) ==
  LET bars == Ascending({i \in DOMAIN t : IsBar(t, i)})
      edge(k) == IF k = 0 THEN 0 ELSE IF k > Len(bars) THEN Len(t) + 1 ELSE bars[k]
      all == [k \in 1 .. Len(bars) + 1 |-> WordsOf(t, edge(k - 1) + 1, edge(k) - 1)]
      bad == {k \in DOMAIN all : all[k] = << >> \/ (k = Len(all) /\ InQuotes(t, Len(t) + 1))}
  IN SubSeq(all, 1, Min(bad \cup {Len(all) + 1}) - 1)

\* A command without its redirections, the last file of each side, and '&'
Before(words) == SubSeq(words, 1, Min({i \in DOMAIN words : words[i] = <<"&">>} \cup {Len(words) + 1}) - 1)
Files(words, op) == {i \in 2 .. Len(Before(words)) : words[i - 1] = <<op>>}
Argv(words) ==
  LET b == Before(words)
  IN FlattenSeq(
       [i \in DOMAIN b |-> IF b[i] \in {<<"<">>, <<">">>} \/ (i > 1 /\ b[i - 1] \in {<<"<">>, <<">">>})
                           THEN << >> ELSE <<b[i]>>])

\* The lines that succeed: every redirection has a file that can be opened, every
\* command a program, and a command with a pipe no other output.
Plain(cmds, env) ==
  /\ env.pipe /\ env.fork /\ cmds # << >>
  /\ \A k \in DOMAIN cmds :
       LET b == Before(cmds[k])
       IN /\ Argv(cmds[k]) # << >> /\ Argv(cmds[k])[1] \notin Inner \cup {<<"e", "x", "i", "t">>}
          /\ \A i \in DOMAIN b : b[i] \in {<<"<">>, <<">">>} =>
               /\ i < Len(b) /\ b[i + 1] \notin env.missing \cup {<<"<">>, <<">">>}
               /\ i > 1 => b[i - 1] \notin {<<"<">>, <<">">>}
          /\ k < Len(cmds) => Files(cmds[k], ">") = {}

KidOf(cmds, k) ==
  LET words == cmds[k]
      in == Files(words, "<")
      out == Files(words, ">")
      back == k < Len(cmds) \/ Before(words) # words
  IN [argv |-> Argv(words), waited |-> ~back,
      in |-> IF in # {} THEN <<"file", words[Max(in)], "in">>
             ELSE IF k > 1 THEN <<"pipe", k - 2, "in">> ELSE IF back THEN <<"closed">> ELSE <<"terminal">>,
      out |-> IF out # {} THEN <<"file", words[Max(out)], "out">>
              ELSE IF k < Len(cmds) THEN <<"pipe", k - 1, "out">> ELSE <<"terminal">>]

Shown(kid) ==
  [argv |-> kid.argv, waited |-> kid.waited, in |-> IF 0 \in DOMAIN kid.fds THEN kid.fds[0] ELSE <<"closed">>,
   out |-> kid.fds[1]]

-----------------------------------------------------------------------------
(* The checks *)

ShellStep(i, g, w) ==
  kind' = "command" /\ impl' = i /\ got' = g /\ want' = w /\ UNCHANGED ideal

\* Every line that can be typed is split as it is meant.
TypeLine ==
  \E n \in 0 .. LineMax : \E text \in [1 .. n -> LineChar] :
    ShellStep(text, Commands(Interpret(text).buf, 1), CommandsOf(LogicalLine(text)))

\* Every command of a line that succeeds gets its files, and the shell keeps none;
\* after an error it may keep some, but it still has its terminal.
ExecuteLine ==
  \E n \in 0 .. WordMax : \E words \in [1 .. n -> ShellWord] :
    \E env \in {[missing |-> {}, pipe |-> TRUE, fork |-> TRUE], [missing |-> {<<"b">>}, pipe |-> TRUE, fork |-> TRUE],
                [missing |-> {}, pipe |-> FALSE, fork |-> TRUE], [missing |-> {}, pipe |-> TRUE, fork |-> FALSE]} :
      LET text == FlattenSeq([i \in 1 .. n |-> words[i] \o <<" ">>])
          cmds == CommandsOf(text)
          s == Evaluate(Evaluation, Interpret(text).buf, 1, env)
          plain == Plain(cmds, env) /\ (\A i \in 1 .. n : words[i] = <<"|">> => i < n)
                   /\ Len(cmds) = 1 + Cardinality({i \in 1 .. n : words[i] = <<"|">>})
      IN ShellStep(text,
           IF plain THEN <<s.end, [k \in DOMAIN s.kids |-> Shown(s.kids[k])], s.fds>>
           ELSE <<[fd \in 0 .. 2 |-> s.fds[fd]]>>,
           IF plain THEN <<"end", [k \in DOMAIN cmds |-> KidOf(cmds, k)], Terminals>> ELSE <<Terminals>>)

\* The names tried are those of the entries in order, up to one that can not be
\* used, and they fit in the buffer.
FindProgram ==
  \E n \in 0 .. 3 : \E entries \in [1 .. n -> PathEntry], name \in {<<"a">>, <<"a", "a">>, <<"/", "a">>, <<"a", "/", "a">>} :
    LET path == FlattenSeq([i \in 1 .. n |-> entries[i] \o (IF i < n THEN <<":">> ELSE << >>)])
        tried == ToTry(path, name)
        dir(e) == IF e # << >> /\ Last(e) # "/" THEN Append(e, "/") ELSE e
        bad == {i \in 1 .. n : entries[i] = << >> \/ Len(dir(entries[i])) + Len(name) >= MaxPathLen}
    IN ShellStep(path, <<tried, \A t \in Range(tried) : Len(t) < MaxPathLen>>,
                 <<IF "/" \in Range(name) THEN <<name>>
                   ELSE [i \in 1 .. Min(bad \cup {n + 1}) - 1 |-> dir(entries[i]) \o name], TRUE>>)

\* The environment is taken over, and export sets, replaces and removes; ideal is the
\* value of every name.
Names == {NameOf(v) : v \in Variable} \ {<< >>}
Set(values, var) ==
  [n \in Names |-> IF n = NameOf(var) THEN SubSeq(var, Len(n) + 2, Len(var)) ELSE values[n]]
Known(vars) == <<[n \in Names |-> VarGet(vars, n)], Cardinality(vars)>>
Meant(values) == <<values, Cardinality({n \in Names : values[n] # << >>})>>

TakeEnvironment ==
  \E n \in 0 .. 3 : \E environ \in [1 .. n -> Variable] :
    LET bad == {i \in 1 .. n : environ[i] # << >> /\ Head(environ[i]) = "="}
        taken == SubSeq(environ, 1, Min(bad \cup {n + 1}) - 1)
    IN /\ impl' = VarCreate(environ, {}) /\ ideal' = FoldLeft(Set, ideal, taken)
       /\ got' = Known(impl') /\ want' = Meant(ideal') /\ kind' = "variables"

Export ==
  \E var \in Variable :
    /\ impl' = VarPut(impl, var) /\ ideal' = Set(ideal, var)
    /\ got' = Known(impl') /\ want' = Meant(ideal') /\ UNCHANGED kind

ShellInit ==
  kind = "shell" /\ impl = << >> /\ ideal = [n \in Names |-> << >>] /\ got = << >> /\ want = << >>

ShellNext ==
  \/ kind = "shell" /\ (TypeLine \/ ExecuteLine \/ FindProgram \/ TakeEnvironment)
  \/ kind = "variables" /\ Export
=============================================================================
