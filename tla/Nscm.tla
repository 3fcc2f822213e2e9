----------------------------------- MODULE Nscm -----------------------------------
(***************************************************************************)
(* The Scheme interpreter nscm (app/nscm): the compiler (pcompile.c), the  *)
(* virtual machine (interpret.c), the procedures (nscm.c, base.c) and the  *)
(* garbage collector (nscm.c).  A program is run form by form; what each   *)
(* form gives is compared with what a plain evaluator of Scheme gives.     *)
(*                                                                         *)
(* Pairs, closures, vectors, code and boxed variables are cells of the     *)
(* heap, <<"cell", address>>; integers, symbols, strings, procedures and   *)
(* what quote gives need no address.  A threshold decides when the         *)
(* collector runs; here it may run wherever the machine asks it to.        *)
(***************************************************************************)
EXTENDS NscmRead, FiniteSetsExt

CONSTANTS
  Program,     \* programs: sequences of data, before the derived forms are rewritten
  IntBits,     \* bits of an integer
  StackSize,   \* PARAMETER_STACK_SIZE
  CallMax,     \* CALL_STACK_SIZE, in frames
  FrameMax,    \* PCOMPILE_STACK_SIZE
  HeapMax,     \* addresses
  FileMax      \* file descriptors

Unspecified == <<"unspecified">>
None == <<"none">>
Proc(p) == <<"proc", p>>
Cell(a) == <<"cell", a>>
Global(s) == <<"global", s>>
Relative(offset, reg) == <<"relative", offset, reg>>

Syntax == {"quote", "lambda", "if", "define", "set!", "import"}
Procedure == {"car", "cdr", "cons", "eq?", "pair?", "not", "+", "-", "*", "/", "truncate-quotient",
  "truncate-remainder", "=", "<", ">", "<=", ">=", "string-length", "string=?", "string-copy",
  "make-vector", "vector-ref", "vector-set!", "make-bytevector", "bytevector-u8-ref",
  "bytevector-u8-set!", "close-port", "open-file", "abs"}
\* What import_core and import_base bind: module names hide global ones.
Module ==
  [s \in Syntax \cup Procedure \cup {"#t", "#f", "null"} |->
     CASE s = "#t" -> Bool(TRUE) [] s = "#f" -> Bool(FALSE) [] s = "null" -> Null [] OTHER -> Proc(s)]

\* create_integer keeps the low bits.
Wrap(n) == LET m == n % 2^IntBits IN IF m < 2^(IntBits - 1) THEN m ELSE m - 2^IntBits
MakeInt(n) == Num(Wrap(n))

Fresh(heap) == Min((1..HeapMax) \ DOMAIN heap)
Store(heap, cell) == [a \in DOMAIN heap \cup {Fresh(heap)} |-> IF a \in DOMAIN heap THEN heap[a] ELSE cell]
TagOf(heap, v) ==
  IF v[1] = "cell" THEN heap[v[2]].tag ELSE IF v[1] \in {"list", "dotted"} THEN "pair" ELSE v[1]
Car(heap, v) == IF v[1] = "cell" THEN heap[v[2]].car ELSE v[2][1]
Cdr(heap, v) == IF v[1] = "cell" THEN heap[v[2]].cdr
                ELSE IF Len(v[2]) > 1 THEN [v EXCEPT ![2] = Tail(@)]
                ELSE IF v[1] = "list" THEN Null ELSE v[3]

(***************************************************************************)
(* The compiler.  c is the code being made: its words, the code of the     *)
(* lambdas in it (data), the variables to box when it is entered (boxed),  *)
(* the outer variables it needs (env), the heap and the globals; ret is    *)
(* what walk returns.  frames is frame_stack, its top first: the variables *)
(* of a lambda, or none for a call being prepared.                         *)
(***************************************************************************)
NewCode(c) == [c EXCEPT !.words = <<>>, !.data = {}, !.boxed = <<>>, !.env = <<>>]
Throw(c) == [c EXCEPT !.bad = TRUE]
Emit(c, words) == [c EXCEPT !.words = @ \o words]
\* code_append: code is remembered in the data of the code that holds it.
EmitLoad(c, op, v) ==
  [Emit(c, <<op, v>>) EXCEPT !.data = IF v[1] = "cell" THEN @ \cup {v[2]} ELSE @, !.ret = v]
\* context->code.len -= 2
Unemit(c) == [c EXCEPT !.words = SubSeq(@, 1, Len(@) - 2)]

PushFrame(frames, has, vars, argc) ==
  <<[has |-> has, vars |-> vars, offset |-> frames[1].offset + argc + 2]>> \o frames

\* find_local: 0 .. when it is a variable of the innermost lambda.
NotFound == -1
FoundInParent == -2
FindLocal(frames, s) ==
  LET lambdas == {i \in DOMAIN frames : frames[i].has}
      hits == {i \in lambdas : s \in ToSet(frames[i].vars)}
      f == frames[Min(hits)]
      index == Min({k \in DOMAIN f.vars : f.vars[k] = s}) - 1
  IN IF hits = {} THEN NotFound
     ELSE IF Min(hits) = Min(lambdas) THEN frames[1].offset - f.offset + index + 2 ELSE FoundInParent

\* item: what a word of the program refers to, in c.ret.
Item(c, frames, x) ==
  LET s == x[2]
      offset == FindLocal(frames, s)
      known == {k \in DOMAIN c.env : c.env[k] = s}
  IN IF x[1] # "sym" THEN [c EXCEPT !.ret = x]
     ELSE IF offset >= 0 THEN [c EXCEPT !.ret = Relative(offset, "sp")]
     ELSE IF offset = FoundInParent
     THEN IF known # {} THEN [c EXCEPT !.ret = Relative(Min(known) - 1, "ep")]
          ELSE [c EXCEPT !.ret = Relative(Len(c.env), "ep"), !.env = Append(@, s)]
     ELSE IF s \in DOMAIN Module THEN [c EXCEPT !.ret = Module[s]]
     ELSE [c EXCEPT !.ret = Global(s),
                    !.glob = [g \in DOMAIN @ \cup {s} |-> IF g \in DOMAIN @ THEN @[g] ELSE Unspecified]]

Executable(v) == v[1] \in {"none", "cell", "relative", "global", "proc"}

\* code_finish, and the cell of the code.
Finish(c, argc, closure) ==
  LET d == Emit(c, <<"RET">>)
  IN [tag |-> "code", argc |-> argc, closure |-> closure, boxed |-> d.boxed, data |-> d.data, words |-> d.words]

\* to_closure: where the variables the inner code needs are found in this one;
\* those of this lambda are boxed when it is entered.
RECURSIVE ToClosure(_, _, _, _)
ToClosure(c, frames, requests, closure) ==
  LET i == Item(c, frames, Sym(Head(requests)))
      self == Min({k \in DOMAIN frames : frames[k].has})
      slot == i.ret[2] - (frames[1].offset - frames[self].offset)
      d == IF i.ret[3] = "sp" /\ slot \notin ToSet(c.boxed) THEN [i EXCEPT !.boxed = Append(@, slot)] ELSE i
  IN IF requests = <<>> THEN [c |-> c, closure |-> closure]
     ELSE ToClosure(d, frames, Tail(requests), Append(closure, i.ret))

RECURSIVE Walk(_, _, _, _), WalkAll(_, _, _), WalkArgs(_, _, _, _), MakeLambda(_, _, _)
\* The body of a lambda: its last form is a tail.
WalkAll(c, body, frames) ==
  IF body = <<>> THEN c ELSE WalkAll(Walk(c, Head(body), Len(body) = 1, frames), Tail(body), frames)
WalkArgs(c, args, offset, frames) ==
  IF args = <<>> THEN c
  ELSE WalkArgs(Emit(Walk(c, Head(args), FALSE, frames), <<"STORE", 2 + offset>>), Tail(args), offset + 1, frames)

\* lambda, and the loading of what it makes.
MakeLambda(c, args, frames) ==
  LET vars == args[1]
      rest == vars[1] = "sym"
      names == IF rest THEN <<vars[2]>> ELSE IF vars = Null THEN <<>>
               ELSE [i \in DOMAIN vars[2] |-> vars[2][i][2]]
      start == IF rest THEN Emit(NewCode(c), <<"TO_LIST">>) ELSE NewCode(c)
      d == WalkAll(start, Tail(args), PushFrame(frames, TRUE, names, Len(names)))
      back == [c EXCEPT !.heap = d.heap, !.glob = d.glob, !.bad = d.bad]
      argc == IF rest THEN -1 ELSE Len(names)
      closed == ToClosure(back, frames, d.env, <<>>)
      made(e, closure, op) ==
        EmitLoad([e EXCEPT !.heap = Store(@, Finish(d, argc, closure))], op, Cell(Fresh(e.heap)))
  IN IF \/ ~rest /\ vars # Null /\ vars[1] # "list"
        \/ vars[1] = "list" /\ \E i \in DOMAIN vars[2] : vars[2][i][1] # "sym"
        \/ Len(frames) = FrameMax
     THEN Throw(c)
     ELSE IF d.bad THEN Throw(c)
     ELSE IF d.env = <<>> THEN made(Unemit(back), <<>>, "LOAD")
     ELSE made(Unemit(closed.c), closed.closure, "CREATE_LAMBDA")

WalkIf(c, args, tail, frames) ==
  LET test == Emit(Walk(c, args[1], FALSE, frames), <<"BF", 0>>)
      bf == Len(test.words)
      yes == Emit(Walk(test, args[2], tail, frames), <<"BRA", 0>>)
      bra == Len(yes.words)
      no == Walk(yes, args[3], tail, frames)
  IN [no EXCEPT !.words = [@ EXCEPT ![bf] = bra - bf + 2, ![bra] = Len(no.words) - bra + 2], !.ret = None]

Immediate == [p \in {"+", "-", "*", "/"} |->
                CASE p = "+" -> "ADDI" [] p = "-" -> "SUBI" [] p = "*" -> "MULI" [] OTHER -> "DIVI"]

\* define and set! load what they assign to, before the value.
WalkCall(c, args, tail, frames) ==
  LET inner == PushFrame(frames, FALSE, <<>>, Len(args))
      d == Emit(c, <<"CREATE_FRAME", Len(args)>>)
      assign == c.ret \in {Proc("define"), Proc("set!")}
      i == Item(d, inner, args[1])
      place == IF c.ret = Proc("set!") /\ i.ret[1] = "relative" THEN <<"slot", i.ret[2], i.ret[3]>> ELSE i.ret
      e == IF assign THEN WalkArgs(Emit(EmitLoad(i, "LOAD", place), <<"STORE", 2>>), Tail(args), 1, inner)
           ELSE WalkArgs(d, args, 0, inner)
  IN IF Len(frames) = FrameMax \/ (assign /\ Len(args) # 2) THEN Throw(c)
     ELSE IF assign /\ args[1][1] # "sym" THEN Throw(c)
     ELSE [Emit(e, <<IF tail THEN "TAIL" ELSE "CALL">>) EXCEPT !.ret = None]

WalkForm(c, args, tail, frames) ==
  LET p == c.ret[2]
      is(name) == c.ret = Proc(name)
  IN IF c.bad \/ ~Executable(c.ret) THEN Throw(c)
     ELSE CASE is("quote") -> IF Len(args) = 1 THEN EmitLoad(Unemit(c), "LOAD", args[1]) ELSE Throw(c)
            [] is("import") -> [Unemit(c) EXCEPT !.ret = None]
            [] is("if") -> IF Len(args) = 3 THEN WalkIf(Unemit(c), args, tail, frames) ELSE Throw(c)
            [] is("lambda") -> IF Len(args) >= 2 THEN MakeLambda(c, args, frames) ELSE Throw(c)
            [] c.ret[1] = "proc" /\ p \in DOMAIN Immediate /\ Len(args) = 2 /\ args[2][1] = "int" ->
                 [Emit(Walk(c, args[1], FALSE, frames), <<Immediate[p], args[2][2]>>) EXCEPT !.ret = None]
            [] OTHER -> WalkCall(c, args, tail, frames)

Walk(c, x, tail, frames) ==
  LET i == Item(c, frames, x)
      op == IF i.ret[1] = "relative" THEN "LOAD_RELATIVE" ELSE IF i.ret[1] = "global" THEN "CDR" ELSE "LOAD"
  IN IF c.bad \/ x = Null \/ x[1] = "dotted" THEN Throw(c)
     ELSE IF x[1] = "list" THEN WalkForm(Walk(c, x[2][1], FALSE, frames), Tail(x[2]), tail, frames)
     ELSE EmitLoad(i, op, i.ret)

\* pcompile: the code of a form, with a cell of its own.
Pcompile(heap, glob, x) ==
  LET empty == [words |-> <<>>, data |-> {}, boxed |-> <<>>, env |-> <<>>, heap |-> heap, glob |-> glob,
                ret |-> None, bad |-> FALSE]
      c == Walk(empty, x, FALSE, <<[has |-> FALSE, vars |-> <<>>, offset |-> 0]>>)
  IN IF c.bad \/ x = Fail THEN [empty EXCEPT !.bad = TRUE]
     ELSE [c EXCEPT !.ret = Cell(Fresh(c.heap)), !.heap = Store(@, Finish(c, -1, <<>>))]

(***************************************************************************)
(* The procedures.  Each gives a result, and may change the heap, the      *)
(* stack, the boxes and the open files; Bad is a throw.                    *)
(***************************************************************************)
Bad == <<"bad">>
\* What is in memory that nothing was stored in.
Undefined == <<"undefined">>
Result(m, v) == [m EXCEPT !.d1 = v]
Made(m, cell) == [m EXCEPT !.d1 = Cell(Fresh(m.heap)), !.heap = Store(@, cell)]
Is(m, v, tag) == TagOf(m.heap, v) = tag
AllNumbers(m, argv) == \A i \in DOMAIN argv : Is(m, argv[i], "int")
Value(argv) == [i \in DOMAIN argv |-> argv[i][2]]

\* lib_add, lib_subtract, lib_multiply, lib_divide: subtract, multiply and divide
\* do not look at the tag of their first operand when there are several.
LibAdd(ns) == Num(Wrap(FoldLeft(LAMBDA a, b : a + b, 0, ns)))
LibSubtract(ns) == IF Len(ns) = 1 THEN MakeInt(-ns[1])
                   ELSE MakeInt(FoldLeft(LAMBDA a, b : a - b, ns[1], Tail(ns)))
LibMultiply(ns) == MakeInt(FoldLeft(LAMBDA a, b : a * b, ns[1], Tail(ns)))
\* C division truncates.
Quotient(a, b) == LET abs(n) == IF n < 0 THEN -n ELSE n
                      q == abs(a) \div abs(b)
                  IN IF (a < 0) # (b < 0) THEN -q ELSE q
Remainder(a, b) == a - b * Quotient(a, b)
LibDivide(ns) ==
  IF Len(ns) = 1 THEN (IF ns[1] = 0 THEN Bad ELSE MakeInt(Quotient(1, ns[1])))
  ELSE IF \E i \in 2..Len(ns) : ns[i] = 0 THEN Bad
  ELSE MakeInt(FoldLeft(Quotient, ns[1], Tail(ns)))
LibTruncateQuotient(ns) == IF Len(ns) # 2 THEN Bad ELSE IF ns[2] = 0 THEN Bad ELSE MakeInt(Quotient(ns[1], ns[2]))
LibTruncateRemainder(ns) == IF Len(ns) # 2 THEN Bad ELSE IF ns[2] = 0 THEN Bad ELSE MakeInt(Remainder(ns[1], ns[2]))
\* The comparisons look at neighbours only, and stop at the first pair that fails.
Neighbours(m, argv, ok(_, _)) ==
  LET n == Len(argv)
      fails == {i \in 2..n : ~Is(m, argv[i], "int") \/ ~ok(argv[i - 1][2], argv[i][2])}
  IN IF ~Is(m, argv[1], "int") THEN Bad
     ELSE IF fails = {} THEN Bool(TRUE)
     ELSE IF ~Is(m, argv[Min(fails)], "int") THEN Bad ELSE Bool(FALSE)
LibEqual(m, argv) == Neighbours(m, argv, LAMBDA a, b : a = b)
LibLess(m, argv) == Neighbours(m, argv, LAMBDA a, b : a < b)
LibGreater(m, argv) == Neighbours(m, argv, LAMBDA a, b : a > b)
LibLessOrEqual(m, argv) == Neighbours(m, argv, LAMBDA a, b : a <= b)
LibGreaterOrEqual(m, argv) == Neighbours(m, argv, LAMBDA a, b : a >= b)
LibAbs(ns) == IF Len(ns) # 1 THEN Bad ELSE MakeInt(IF ns[1] < 0 THEN -ns[1] ELSE ns[1])

LibStringLength(m, argv) == IF Len(argv) # 1 THEN Bad ELSE IF ~Is(m, argv[1], "str") THEN Bad
                            ELSE MakeInt(Len(argv[1][2]))
LibStringEqual(m, argv) ==
  IF \E i \in DOMAIN argv : ~Is(m, argv[i], "str") THEN Bad
  ELSE Bool(\A i \in 2..Len(argv) : argv[i][2] = argv[1][2])
LibStringCopy(m, argv) ==
  IF Len(argv) # 3 THEN Bad
  ELSE IF ~Is(m, argv[1], "str") \/ ~AllNumbers(m, Tail(argv)) THEN Bad
  ELSE LET from == argv[2][2]
           to == argv[3][2]
           s == argv[1][2]
       IN IF from < 0 \/ from >= Len(s) \/ to < from \/ to > Len(s) THEN Bad
          ELSE <<"str", SubSeq(s, from + 1, to)>>

LibCons(m, argv) == IF Len(argv) # 2 THEN Result(m, Bad)
                    ELSE Made(m, [tag |-> "pair", car |-> argv[1], cdr |-> argv[2]])
LibCar(m, argv) == IF Len(argv) # 1 THEN Bad ELSE IF ~Is(m, argv[1], "pair") THEN Bad ELSE Car(m.heap, argv[1])
LibCdr(m, argv) == IF Len(argv) # 1 THEN Bad ELSE IF ~Is(m, argv[1], "pair") THEN Bad ELSE Cdr(m.heap, argv[1])
LibIsPair(m, argv) == IF Len(argv) # 1 THEN Bad ELSE Bool(Is(m, argv[1], "pair"))
LibIsEq(argv) == IF Len(argv) # 2 THEN Bad ELSE Bool(argv[1] = argv[2])
LibNot(argv) == IF Len(argv) # 1 THEN Bad ELSE Bool(argv[1] = Bool(FALSE))

\* Vectors, and vectors of bytes, which keep the low eight bits.
MakeVector(m, argv, tag, fill) ==
  IF Len(argv) # 1 THEN Result(m, Bad)
  ELSE IF ~Is(m, argv[1], "int") THEN Result(m, Bad)
  ELSE Made(m, [tag |-> tag, items |-> [i \in 1..argv[1][2] |-> fill]])
LibMakeVector(m, argv) == MakeVector(m, argv, "vector", Null)
LibMakeBytevector(m, argv) == MakeVector(m, argv, "bytes", Undefined)
Indexed(m, argv, tag, n) ==
  Len(argv) = n /\ Is(m, argv[1], tag) /\ Is(m, argv[2], "int")
  /\ argv[2][2] + 1 \in DOMAIN m.heap[argv[1][2]].items
LibVectorRef(m, argv, tag) ==
  IF Indexed(m, argv, tag, 2) THEN m.heap[argv[1][2]].items[argv[2][2] + 1] ELSE Bad
LibVectorSet(m, argv) ==
  IF ~Indexed(m, argv, "vector", 3) THEN Result(m, Bad)
  ELSE [m EXCEPT !.d1 = Unspecified, !.heap[argv[1][2]].items[argv[2][2] + 1] = argv[3]]
LibBytevectorSet(m, argv) ==
  IF ~Indexed(m, argv, "bytes", 3) THEN Result(m, Bad)
  ELSE IF ~Is(m, argv[3], "int") THEN Result(m, Bad)
  ELSE [m EXCEPT !.d1 = Unspecified, !.heap[argv[1][2]].items[argv[2][2] + 1] = Num(argv[3][2] % 256)]

\* Ports: a file cell owns a descriptor until it is closed or collected.
LibOpenFile(m, argv) ==
  IF Len(argv) # 3 THEN Result(m, Bad)
  ELSE IF ~Is(m, argv[1], "str") \/ ~AllNumbers(m, Tail(argv)) THEN Result(m, Bad)
  ELSE IF argv[2][2] \notin 1..7 \/ argv[2][2] = 4 \/ m.files = 1..FileMax THEN Result(m, Bad)
  ELSE LET fd == Min((1..FileMax) \ m.files)
       IN [Made(m, [tag |-> "file", mode |-> argv[2][2], fd |-> fd]) EXCEPT !.files = @ \cup {fd}]
LibClosePort(m, argv) ==
  IF Len(argv) # 1 THEN Result(m, Bad)
  ELSE IF ~Is(m, argv[1], "file") THEN Result(m, Bad)
  ELSE LET cell == m.heap[argv[1][2]]
       IN IF cell.mode % 4 = 0 THEN Result(m, Unspecified)
          ELSE [m EXCEPT !.d1 = Unspecified, !.files = @ \ {cell.fd},
                         !.heap[argv[1][2]] = [cell EXCEPT !.mode = 0, !.fd = -1]]

\* lib_define and lib_set.  A variable that is boxed is set in its box.
LibDefine(m, argv) ==
  IF argv[1][1] # "global" THEN Result(m, Bad)
  ELSE [m EXCEPT !.d1 = Unspecified, !.glob[argv[1][2]] = argv[2]]
LibSet(m, argv) ==
  LET place == argv[1]
      old == IF place[3] = "ep" THEN m.heap[m.ep].items[place[2] + 1] ELSE m.stack[m.sp + place[2]]
  IN IF place[1] = "slot"
     THEN IF TagOf(m.heap, old) = "box" THEN [m EXCEPT !.d1 = Unspecified, !.heap[old[2]].value = argv[2]]
          ELSE IF place[3] = "ep" THEN [m EXCEPT !.d1 = Unspecified, !.heap[m.ep].items[place[2] + 1] = argv[2]]
          ELSE [m EXCEPT !.d1 = Unspecified, !.stack[m.sp + place[2]] = argv[2]]
     ELSE IF place[1] = "global"
     THEN IF m.glob[place[2]] = Unspecified THEN Result(m, Bad)
          ELSE [m EXCEPT !.d1 = Unspecified, !.glob[place[2]] = argv[2]]
     ELSE Result(m, Bad)

Arithmetic == {"+", "-", "*", "/", "truncate-quotient", "truncate-remainder", "abs"}
LibArithmetic(p, ns) ==
  CASE p = "+" -> LibAdd(ns) [] p = "-" -> LibSubtract(ns) [] p = "*" -> LibMultiply(ns)
    [] p = "/" -> LibDivide(ns) [] p = "abs" -> LibAbs(ns)
    [] p = "truncate-quotient" -> LibTruncateQuotient(ns) [] OTHER -> LibTruncateRemainder(ns)
Unchecked(m, p, argv) == p \in {"-", "*", "/"} /\ Len(argv) > 1 /\ ~Is(m, argv[1], "int")
\* The procedure a cell holds, called with argv.
Apply(m, p, argv) ==
  CASE p \in Arithmetic ->
         Result(m, IF AllNumbers(m, argv) THEN LibArithmetic(p, Value(argv))
                   ELSE IF Unchecked(m, p, argv) /\ AllNumbers(m, Tail(argv)) THEN Undefined ELSE Bad)
    [] p = "=" -> Result(m, LibEqual(m, argv)) [] p = "<" -> Result(m, LibLess(m, argv))
    [] p = ">" -> Result(m, LibGreater(m, argv)) [] p = "<=" -> Result(m, LibLessOrEqual(m, argv))
    [] p = ">=" -> Result(m, LibGreaterOrEqual(m, argv))
    [] p = "string-length" -> Result(m, LibStringLength(m, argv))
    [] p = "string=?" -> Result(m, LibStringEqual(m, argv))
    [] p = "string-copy" -> Result(m, LibStringCopy(m, argv))
    [] p = "cons" -> LibCons(m, argv)
    [] p = "car" -> Result(m, LibCar(m, argv)) [] p = "cdr" -> Result(m, LibCdr(m, argv))
    [] p = "pair?" -> Result(m, LibIsPair(m, argv)) [] p = "eq?" -> Result(m, LibIsEq(argv))
    [] p = "not" -> Result(m, LibNot(argv))
    [] p = "make-vector" -> LibMakeVector(m, argv) [] p = "make-bytevector" -> LibMakeBytevector(m, argv)
    [] p = "vector-ref" -> Result(m, LibVectorRef(m, argv, "vector"))
    [] p = "bytevector-u8-ref" -> Result(m, LibVectorRef(m, argv, "bytes"))
    [] p = "vector-set!" -> LibVectorSet(m, argv) [] p = "bytevector-u8-set!" -> LibBytevectorSet(m, argv)
    [] p = "open-file" -> LibOpenFile(m, argv) [] p = "close-port" -> LibClosePort(m, argv)
    [] p = "define" -> LibDefine(m, argv) [] p = "set!" -> LibSet(m, argv)
    [] OTHER -> Result(m, Bad)

(***************************************************************************)
(* The machine.  A frame of the parameter stack is the callee, argc and    *)
(* the arguments, from sp up; the return stack keeps code, pc and ep.      *)
(***************************************************************************)
MachineInit(forms) ==
  [forms |-> forms, state |-> "read", d1 |-> Unspecified, code |-> 0, pc |-> 0, ep |-> 0,
   sp |-> StackSize - 1, stack |-> [i \in 1..StackSize |-> IF i = StackSize THEN Num(0) ELSE Null],
   rp |-> <<>>, heap |-> <<>>, glob |-> <<>>, files |-> {}, top |-> 0]

Crash(m) == [m EXCEPT !.state = "end", !.d1 = Bad]
Callee(m) == m.stack[m.sp]
Argc(m) == m.stack[m.sp + 1][2]
Argv(m) == SubSeq(m.stack, m.sp + 2, m.sp + 1 + Argc(m))
PopParameter(m) == [m EXCEPT !.sp = @ + Argc(m) + 2]
Overflows(m, n) == n > m.sp - 1

\* to_indirect: the variables that closures share move into boxes.
RECURSIVE ToIndirect(_, _)
ToIndirect(m, slots) ==
  LET at == m.sp + Head(slots)
  IN IF slots = <<>> THEN m
     ELSE ToIndirect([m EXCEPT !.heap = Store(@, [tag |-> "box", value |-> m.stack[at]]),
                               !.stack[at] = Cell(Fresh(m.heap))], Tail(slots))

\* The code that the frame at sp is for is entered.
Enter(m, code, ep) ==
  LET cell == m.heap[code]
  IN IF cell.argc # -1 /\ cell.argc # Argc(m) THEN Crash(m)
     ELSE [ToIndirect(m, cell.boxed) EXCEPT !.code = code, !.pc = 1, !.ep = ep]
PushCall(m) == [m EXCEPT !.rp = <<[code |-> m.code, pc |-> m.pc, ep |-> m.ep]>> \o @]
\* The frame at sp replaces the frame of the code that is running.
Slide(m) ==
  LET len == Argc(m) + 2
      old == m.stack[m.sp + len + 1][2] + 2
  IN [m EXCEPT !.sp = @ + old,
               !.stack = [i \in 1..StackSize |->
                            IF i \in (m.sp + old)..(m.sp + old + len - 1) THEN @[i - old] ELSE @[i]]]
CallProcedure(m) ==
  LET r == Apply(m, Callee(m)[2], Argv(m))
  IN IF r.d1 = Bad THEN Crash(m) ELSE [PopParameter(r) EXCEPT !.pc = @ + 1]
\* P_CALL and P_TAIL: into has the frame where it belongs; code without a
\* closure leaves ep as P_TAIL finds it.
Call(m, into, ep) ==
  LET lambda == m.heap[Callee(m)[2]]
  IN CASE TagOf(m.heap, Callee(m)) = "code" -> Enter(into, Callee(m)[2], ep)
       [] TagOf(m.heap, Callee(m)) = "lambda" -> Enter(into, lambda.code, lambda.env)
       [] TagOf(m.heap, Callee(m)) = "proc" -> CallProcedure(m)
       [] OTHER -> Crash(m)

CreateFrame(m, argc) ==
  IF Overflows(m, argc + 2) THEN Crash(m)
  ELSE LET sp == m.sp - argc - 2
       IN [m EXCEPT !.sp = sp, !.pc = @ + 2,
                    !.stack = [i \in 1..StackSize |->
                                 IF i = sp THEN m.d1 ELSE IF i = sp + 1 THEN Num(argc)
                                 ELSE IF i \in (sp + 2)..(m.sp - 1) THEN Num(0) ELSE @[i]]]

\* create_closure: the boxes, taken from the frame or from the closure that runs.
Fetch(m, r) == IF r[3] = "ep" THEN m.heap[m.ep].items[r[2] + 1] ELSE m.stack[m.sp + r[2]]
CreateLambda(m, code) ==
  LET requests == m.heap[code].closure
      env == Made(m, [tag |-> "vector", items |-> [i \in DOMAIN requests |-> Fetch(m, requests[i])]])
  IN [Made(env, [tag |-> "lambda", code |-> code, env |-> env.d1[2]]) EXCEPT !.pc = @ + 2]

\* parameter_to_list: the arguments become one list; the callee stays behind.
RECURSIVE Consed(_, _, _)
Consed(m, argv, d) ==
  IF argv = <<>> THEN [m |-> m, v |-> d]
  ELSE LET n == Made(m, [tag |-> "pair", car |-> Last(argv), cdr |-> d])
       IN Consed(n, Front(argv), n.d1)
ParameterToList(m) ==
  LET r == Consed(m, Argv(m), Null)
      sp == m.sp + Argc(m) - 1
  IN IF Argc(m) = 0 /\ Overflows(m, 1) THEN Crash(m)
     ELSE [r.m EXCEPT !.d1 = m.d1, !.sp = sp, !.stack[sp + 2] = r.v, !.stack[sp + 1] = Num(1), !.pc = @ + 1]

\* lib_add_1integer and the others.
AddImmediate(m, op, n) ==
  IF ~Is(m, m.d1, "int") \/ (op = "DIVI" /\ n = 0) THEN Crash(m)
  ELSE [m EXCEPT !.pc = @ + 2,
          !.d1 = MakeInt(CASE op = "ADDI" -> @[2] + n [] op = "SUBI" -> @[2] - n
                           [] op = "MULI" -> @[2] * n [] OTHER -> Quotient(@[2], n))]

\* RET: the caller goes on, or the form is done and its code destroyed.
Return(m) ==
  IF m.rp = <<>> THEN [m EXCEPT !.state = "done", !.heap = [a \in DOMAIN @ \ {m.top} |-> @[a]], !.top = 0]
  ELSE [PopParameter(m) EXCEPT !.code = m.rp[1].code, !.pc = m.rp[1].pc + 1, !.ep = m.rp[1].ep, !.rp = Tail(@)]

Words(m) == m.heap[m.code].words
Op(m) == Words(m)[m.pc]
Operand(m) == Words(m)[m.pc + 1]
Execute(m) ==
  LET op == Op(m)
      x == Operand(m)
      v == Fetch(m, x)
  IN CASE op = "LOAD" -> [m EXCEPT !.d1 = x, !.pc = @ + 2]
       [] op = "LOAD_RELATIVE" ->
            [m EXCEPT !.d1 = IF TagOf(m.heap, v) = "box" THEN m.heap[v[2]].value ELSE v, !.pc = @ + 2]
       [] op = "STORE" -> [m EXCEPT !.stack[m.sp + x] = m.d1, !.pc = @ + 2]
       [] op = "CDR" -> IF m.glob[x[2]] = Unspecified THEN Crash(m)
                        ELSE [m EXCEPT !.d1 = m.glob[x[2]], !.pc = @ + 2]
       [] op = "BF" -> [m EXCEPT !.pc = @ + (IF m.d1 = Bool(FALSE) THEN x ELSE 2)]
       [] op = "BRA" -> [m EXCEPT !.pc = @ + x]
       [] op = "CREATE_FRAME" -> CreateFrame(m, x)
       [] op = "CALL" -> IF TagOf(m.heap, Callee(m)) # "proc" /\ Len(m.rp) = CallMax THEN Crash(m)
                         ELSE Call(m, PushCall(m), 0)
       [] op = "TAIL" -> Call(m, Slide(m), m.ep)
       [] op = "RET" -> Return(m)
       [] op = "CREATE_LAMBDA" -> CreateLambda(m, x[2])
       [] op = "TO_LIST" -> ParameterToList(m)
       [] OTHER -> AddImmediate(m, op, x)

(***************************************************************************)
(* The collector.                                                          *)
(***************************************************************************)
Address(vs) == {v[2] : v \in {w \in vs : w[1] = "cell"}}
\* gc_mark_cell: what a cell keeps.
Children(heap, a) ==
  LET cell == heap[a]
  IN CASE cell.tag = "pair" -> Address({cell.car, cell.cdr})
       [] cell.tag = "box" -> Address({cell.value})
       [] cell.tag = "lambda" -> {cell.code, cell.env}
       [] cell.tag \in {"vector", "bytes"} -> Address(ToSet(cell.items))
       [] cell.tag = "code" -> cell.data
       [] OTHER -> {}
RECURSIVE Reach(_, _)
Reach(heap, as) ==
  LET more == as \cup UNION {Children(heap, a) : a \in as \cap DOMAIN heap}
  IN IF more = as THEN as ELSE Reach(heap, more)

\* gc_mark: the frames are followed to the first whose callee is ().
RECURSIVE FrameRoots(_, _)
FrameRoots(m, p) ==
  IF m.stack[p] = Null THEN {}
  ELSE LET last == p + 1 + m.stack[p + 1][2]
       IN Address({m.stack[i] : i \in {p} \cup ((p + 2)..last)}) \cup FrameRoots(m, last + 1)
GcMark(m) ==
  Reach(m.heap, Address({m.glob[s] : s \in DOMAIN m.glob}) \cup Address({m.d1}) \cup {m.top} \cup FrameRoots(m, m.sp))
\* gc_sweep; destroy_cell closes a file that is still open.
GcSweep(m, marked) ==
  LET dead == DOMAIN m.heap \ marked
  IN [m EXCEPT !.heap = [a \in DOMAIN @ \cap marked |-> @[a]],
               !.files = @ \ {m.heap[a].fd : a \in {b \in dead : m.heap[b].tag = "file" /\ m.heap[b].mode # 0}}]
Gc(m) == GcSweep(m, GcMark(m))

(***************************************************************************)
(* The reference: an evaluator of Scheme on the data of the program, with  *)
(* the derived forms as they are.  r has the values of the variables and   *)
(* of the vectors (store), the globals and whether an error stopped it; an *)
(* environment maps a variable to its place in the store.                  *)
(***************************************************************************)
Answer(v, r) == [v |-> v, r |-> r]
Error(r) == Answer(Bad, [r EXCEPT !.bad = TRUE])
Bind(env, names, at) ==
  [s \in DOMAIN env \cup ToSet(names) |->
     IF s \in ToSet(names) THEN at + Min({i \in DOMAIN names : names[i] = s}) ELSE env[s]]
Compares == [p \in {"=", "<", ">", "<=", ">="} |->
               CASE p = "=" -> {0} [] p = "<" -> {-1} [] p = ">" -> {1} [] p = "<=" -> {-1, 0} [] OTHER -> {0, 1}]
Sign(n) == IF n < 0 THEN -1 ELSE IF n > 0 THEN 1 ELSE 0
RefPrimitive(p, args, r) ==
  LET n == Len(args)
      a == args[1]
      b == args[2]
      numbers == \A i \in 1..n : args[i][1] = "int"
      ns == [i \in 1..n |-> args[i][2]]
      ok(arity, good, v) == IF n # arity THEN Error(r) ELSE IF ~good THEN Error(r) ELSE Answer(v, r)
      inside(tag) == a[1] = tag /\ b[1] = "int" /\ b[2] + 1 \in DOMAIN r.store[a[2]]
      new(tag, x) == Answer(<<tag, Len(r.store) + 1>>, [r EXCEPT !.store = Append(@, x)])
  IN CASE p = "+" -> ok(n, numbers, MakeInt(FoldLeft(LAMBDA x, y : x + y, 0, ns)))
       [] p = "*" -> ok(n, numbers, MakeInt(FoldLeft(LAMBDA x, y : x * y, 1, ns)))
       [] p = "-" -> ok(n, numbers, MakeInt(IF n = 1 THEN -ns[1] ELSE 2 * ns[1] - FoldLeft(LAMBDA x, y : x + y, 0, ns)))
       [] p \in {"/", "truncate-quotient", "truncate-remainder"} ->
            IF ~numbers \/ n # 2 THEN Error(r)
            ELSE LET q == CHOOSE k \in -(2^IntBits)..2^IntBits :
                            LET rest == ns[1] - k * ns[2]
                            IN rest * rest < ns[2] * ns[2] /\ Sign(rest) \in {0, Sign(ns[1])}
                 IN IF ns[2] = 0 THEN Error(r)
                    ELSE Answer(MakeInt(IF p = "truncate-remainder" THEN ns[1] - q * ns[2] ELSE q), r)
       [] p \in DOMAIN Compares ->
            ok(n, numbers, Bool(\A i \in 2..n : Sign(ns[i - 1] - ns[i]) \in Compares[p]))
       [] p = "abs" -> ok(1, numbers, MakeInt(ns[1] * Sign(ns[1])))
       [] p = "cons" -> ok(2, TRUE, Pair(a, b))
       [] p = "car" -> ok(1, a[1] \in {"list", "dotted"}, a[2][1])
       [] p = "cdr" -> ok(1, a[1] \in {"list", "dotted"}, Cdr(<<>>, a))
       [] p = "pair?" -> ok(1, TRUE, Bool(a[1] \in {"list", "dotted"}))
       [] p = "eq?" -> ok(2, TRUE, Bool(a = b))
       [] p = "not" -> ok(1, TRUE, Bool(a = Bool(FALSE)))
       [] p = "string-length" -> ok(1, a[1] = "str", MakeInt(Len(a[2])))
       [] p = "string=?" -> ok(n, \A i \in 1..n : args[i][1] = "str", Bool(Cardinality({args[i][2] : i \in 1..n}) = 1))
       [] p = "string-copy" ->
            ok(3, a[1] = "str" /\ 0 <= b[2] /\ b[2] < Len(a[2]) /\ b[2] <= args[3][2] /\ args[3][2] <= Len(a[2]),
               <<"str", SubSeq(a[2], b[2] + 1, args[3][2])>>)
       [] p = "make-vector" -> new("vector", [i \in 1..ns[1] |-> Null])
       [] p = "make-bytevector" -> new("bytes", [i \in 1..ns[1] |-> Undefined])
       [] p = "vector-ref" -> ok(2, inside("vector"), r.store[a[2]][b[2] + 1])
       [] p = "bytevector-u8-ref" -> ok(2, inside("bytes"), r.store[a[2]][b[2] + 1])
       [] p = "vector-set!" -> IF ~inside("vector") THEN Error(r)
                               ELSE Answer(Unspecified, [r EXCEPT !.store[a[2]][b[2] + 1] = args[3]])
       [] p = "bytevector-u8-set!" -> IF ~inside("bytes") THEN Error(r)
                               ELSE Answer(Unspecified, [r EXCEPT !.store[a[2]][b[2] + 1] = Num(args[3][2] % 256)])
       [] p = "open-file" -> new("file", args[2])
       [] p = "close-port" -> ok(1, a[1] = "file", Unspecified)
       [] OTHER -> Error(r)

RECURSIVE Eval(_, _, _), EvalArgs(_, _, _, _), EvalBody(_, _, _), RefApply(_, _, _), EvalAndOr(_, _, _, _)
EvalArgs(xs, env, r, vs) ==
  IF xs = <<>> THEN Answer(vs, r)
  ELSE LET e == Eval(Head(xs), env, r)
       IN IF e.r.bad THEN Answer(<<>>, e.r) ELSE EvalArgs(Tail(xs), env, e.r, Append(vs, e.v))
EvalBody(xs, env, r) ==
  LET e == Eval(Head(xs), env, r)
  IN IF e.r.bad \/ Len(xs) = 1 THEN e ELSE EvalBody(Tail(xs), env, e.r)
\* and goes on while the value is not false, or while it is.
EvalAndOr(going, xs, env, r) ==
  IF xs = <<>> THEN Answer(Bool(going), r)
  ELSE LET e == Eval(Head(xs), env, r)
       IN IF e.r.bad \/ Len(xs) = 1 \/ (e.v # Bool(FALSE)) # going THEN e ELSE EvalAndOr(going, Tail(xs), env, e.r)
RefApply(f, vs, r) ==
  IF f[1] = "proc" THEN RefPrimitive(f[2], vs, r)
  ELSE IF f[1] # "closure" THEN Error(r)
  ELSE LET rest == f[2][1] = "sym"
           names == IF rest THEN <<f[2][2]>> ELSE IF f[2] = Null THEN <<>> ELSE [i \in DOMAIN f[2][2] |-> f[2][2][i][2]]
           values == IF rest THEN <<List(vs)>> ELSE vs
       IN IF Len(names) # Len(values) THEN Error(r)
          ELSE EvalBody(f[3], Bind(f[4], names, Len(r.store)), [r EXCEPT !.store = @ \o values])
Variable(x, env, r) ==
  IF x[2] \in DOMAIN env THEN Answer(r.store[env[x[2]]], r)
  ELSE IF x[2] \in DOMAIN Module THEN Answer(Module[x[2]], r)
  ELSE IF x[2] \notin DOMAIN r.glob THEN Error(r)
  ELSE IF r.glob[x[2]] = Unspecified THEN Error(r) ELSE Answer(r.glob[x[2]], r)
Assign(x, e, env, define) ==
  LET s == x[2]
      known == s \in DOMAIN e.r.glob
  IN IF e.r.bad THEN e
     ELSE IF s \in DOMAIN env
     THEN IF define THEN Error(e.r) ELSE Answer(Unspecified, [e.r EXCEPT !.store[env[s]] = e.v])
     ELSE IF s \in DOMAIN Module \/ (~define /\ ~known) THEN Error(e.r)
     ELSE Answer(Unspecified, [e.r EXCEPT !.glob = [g \in DOMAIN @ \cup {s} |-> IF g = s THEN e.v ELSE @[g]]])
Eval(x, env, r) ==
  LET s == x[2]
      head == s[1]
      form(name) == head = Sym(name) /\ name \notin DOMAIN env
      f == Eval(head, env, r)
      args == EvalArgs(Tail(s), env, f.r, <<>>)
      sugar == s[2][1] = "list"
      test == Eval(s[2], env, r)
      operands == EvalArgs([i \in DOMAIN s[2][2] |-> s[2][2][i][2][2]], env, r, <<>>)
  IN IF x[1] = "sym" THEN Variable(x, env, r)
     ELSE IF x[1] \in {"null", "dotted"} THEN Error(r)
     ELSE IF x[1] # "list" THEN Answer(x, r)
     ELSE CASE form("quote") -> Answer(s[2], r)
            [] form("lambda") -> Answer(<<"closure", s[2], SubSeq(s, 3, Len(s)), env>>, r)
            [] form("if") -> IF test.r.bad THEN test
                             ELSE Eval(IF test.v = Bool(FALSE) THEN s[4] ELSE s[3], env, test.r)
            [] form("define") ->
                 Assign(IF sugar THEN s[2][2][1] ELSE s[2],
                        IF sugar THEN Answer(<<"closure", List(Tail(s[2][2])), SubSeq(s, 3, Len(s)), env>>, r)
                        ELSE Eval(s[3], env, r), env, TRUE)
            [] form("set!") -> Assign(s[2], Eval(s[3], env, r), env, FALSE)
            [] form("begin") -> EvalBody(Tail(s), env, r)
            [] form("and") -> EvalAndOr(TRUE, Tail(s), env, r)
            [] form("or") -> EvalAndOr(FALSE, Tail(s), env, r)
            [] form("let") -> IF operands.r.bad THEN operands
                 ELSE RefApply(<<"closure", List([i \in DOMAIN s[2][2] |-> s[2][2][i][2][1]]),
                                 SubSeq(s, 3, Len(s)), env>>, operands.v, operands.r)
            [] OTHER -> IF f.r.bad THEN f ELSE IF args.r.bad THEN args ELSE RefApply(f.v, args.v, args.r)

(***************************************************************************)
(* A program, form by form.                                                *)
(***************************************************************************)
\* A value as it can be told apart from outside.
RECURSIVE Show(_, _)
Show(heap, v) ==
  CASE TagOf(heap, v) \in {"code", "lambda", "proc", "closure"} -> <<"procedure">>
    [] TagOf(heap, v) \in {"vector", "bytes", "file"} -> <<TagOf(heap, v)>>
    [] TagOf(heap, v) = "pair" -> Pair(Show(heap, Car(heap, v)), Show(heap, Cdr(heap, v)))
    [] OTHER -> v

\* The tokens of a datum.
RECURSIVE Unparse(_), UnparseAll(_)
UnparseAll(s) == IF s = <<>> THEN <<>> ELSE Unparse(Head(s)) \o UnparseAll(Tail(s))
Unparse(x) ==
  CASE x[1] = "null" -> <<<<"(">>, <<")">>>>
    [] x[1] = "list" /\ x[2][1] = Sym("quote") -> <<<<"'">>>> \o Unparse(x[2][2])
    [] x[1] = "list" /\ x[2][1] # Sym("quote") -> <<<<"(">>>> \o UnparseAll(x[2]) \o <<<<")">>>>
    [] x[1] = "dotted" -> <<<<"(">>>> \o UnparseAll(x[2]) \o <<<<".">>>> \o Unparse(x[3]) \o <<<<")">>>>
    [] OTHER -> <<<<"value", x>>>>

\* load and pcompile: the next form is read and compiled.
LoadForm ==
  /\ kind = "nscm" /\ impl.state = "read" /\ impl.forms # <<>>
  /\ \E c \in {Pcompile(impl.heap, impl.glob, ParseValue(Unparse(Head(impl.forms))).v)},
        e \in {Eval(Head(impl.forms), <<>>, ideal.r)} :
        /\ impl' = IF c.bad THEN [Crash(impl) EXCEPT !.forms = Tail(@)]
                   ELSE [impl EXCEPT !.forms = Tail(@), !.state = "run", !.d1 = Unspecified, !.heap = c.heap,
                                     !.glob = c.glob, !.code = c.ret[2], !.pc = 1, !.top = c.ret[2]]
        /\ ideal' = e
        /\ got' = IF c.bad THEN Append(got, Bad) ELSE got
        /\ want' = IF c.bad THEN Append(want, IF e.r.bad THEN Bad ELSE Show(<<>>, e.v)) ELSE want
  /\ UNCHANGED kind

\* One instruction; the collector may run when a call returns.
Instruction ==
  /\ kind = "nscm" /\ impl.state = "run"
  /\ \E m \in LET next == Execute(impl)
              IN {next} \cup (IF Op(impl) = "RET" /\ next.state = "run" THEN {Gc(next)} ELSE {}) :
       IF m.state = "run" THEN impl' = m /\ UNCHANGED <<got, want>>
       ELSE /\ impl' = IF m.state = "done" THEN [m EXCEPT !.state = "read"] ELSE m
            /\ got' = Append(got, IF m.state = "done" THEN Show(m.heap, m.d1) ELSE Bad)
            /\ want' = Append(want, IF ideal.r.bad THEN Bad ELSE Show(<<>>, ideal.v))
  /\ UNCHANGED <<kind, ideal>>

NscmIdeal == Answer(Unspecified, [store |-> <<>>, glob |-> <<>>, bad |-> FALSE])
NscmNext == ReadText \/ LoadForm \/ Instruction

\* The cells the machine may still use: those of the frames, the code that runs and
\* the closures it runs in, and those that wait for it.
Live(m) ==
  LET running == {[code |-> m.code, pc |-> m.pc, ep |-> m.ep]} \cup ToSet(m.rp)
  IN Reach(m.heap, Address({m.glob[s] : s \in DOMAIN m.glob}) \cup Address({m.d1})
                   \cup Address({m.stack[i] : i \in m.sp..StackSize})
                   \cup {f.code : f \in running}
                   \cup {f.ep : f \in {g \in running : g.code \in DOMAIN m.heap /\ m.heap[g.code].closure # <<>>}})
\* The collector (gc_mark, gc_sweep, called when a procedure returns) never frees a
\* cell that the machine still uses: everything reachable from d1, the parameter
\* stack, the globals, the code of the procedures that have not returned and their
\* closures is there; and the descriptors that are open are those of the ports that
\* are left, each of one port.
CellsKept ==
  (kind = "nscm") =>
    /\ (impl.state = "run") => Live(impl) \subseteq DOMAIN impl.heap
    /\ LET ports == {a \in DOMAIN impl.heap : impl.heap[a].tag = "file" /\ impl.heap[a].mode # 0}
       IN /\ impl.files = {impl.heap[a].fd : a \in ports}
          /\ Cardinality(impl.files) = Cardinality(ports)
=============================================================================
