---------------------------- MODULE PlainPython ----------------------------
(***************************************************************************)
(* What CPython makes of the plain part of Python, the part on which the   *)
(* compiler is held to agree with it: a name keeps one type, operands have *)
(* the same one, annotations are true, numbers are small.  A step outside  *)
(* it ends in "other"; "exception" is an assert or a raise of the running  *)
(* function, "deep" one of a function it calls.  A value has a type and a  *)
(* number, a fraction; that of a text, a list or a tuple is its length:    *)
(* every text is written with one letter.                                  *)
(***************************************************************************)
EXTENDS PythonSource, TLC
LOCAL INSTANCE Bitwise
LOCAL INSTANCE SequencesExt

Value(ty, num) == [ty |-> ty, num |-> num]
Other == Value("other", Zero)
Deep  == Value("deep", Zero)
Stops == {"other", "deep", "exception"}

-----------------------------------------------------------------------------
(* Numbers.                                                                *)

Magnitude(n) == IF n < 0 THEN -n ELSE n
Divisor(n, d) ==
  CHOOSE g \in 1..d : d % g = 0 /\ n % g = 0 /\ \A k \in (g + 1)..d : d % k # 0 \/ n % k # 0
\* The fraction n / d in lowest terms, d positive.
Reduced(n, d) == <<n \div Divisor(n, d), d \div Divisor(n, d)>>
\* d is not zero.
Ratio(n, d)   == IF d > 0 THEN Reduced(n, d) ELSE Reduced(-n, -d)
Whole(n)      == <<n, 1>>

Less(a, b) == a[1] * b[2] < b[1] * a[2]
Compared(op, a, b) ==
  CASE op = "eq" -> a = b [] op = "noteq" -> a # b
    [] op = "lt" -> Less(a, b) [] op = "lteq" -> ~ Less(b, a)
    [] op = "gt" -> Less(b, a) [] op = "gteq" -> ~ Less(a, b)

PowerOf(n, k) == IF k = 0 THEN 1 ELSE n ^ k

\* Of two numbers a and b, b not zero where it divides.
Arithmetic(op, a, b) ==
  CASE op = "add" -> Ratio(a[1] * b[2] + b[1] * a[2], a[2] * b[2])
    [] op = "sub" -> Ratio(a[1] * b[2] - b[1] * a[2], a[2] * b[2])
    [] op = "mul" -> Ratio(a[1] * b[1], a[2] * b[2])
    [] op = "div" -> Ratio(a[1] * b[2], a[2] * b[1])
    [] op = "pow" -> Ratio(PowerOf(a[1], b[1]), PowerOf(a[2], b[1]))

\* The bits of two's complement.
Width     == CHOOSE w \in 1..32 : 2 ^ (w - 1) = MaxInt + 1
Signed(n) == IF n > MaxInt THEN n - 2 ^ Width ELSE n
Bits(op, a, b) ==
  LET l == a % 2 ^ Width
      r == b % 2 ^ Width
  IN  Signed(CASE op = "bitand" -> l & r [] op = "bitor" -> l | r [] op = "bitxor" -> l ^^ r)

ToBool(b) == Value("bool", Whole(IF b THEN 1 ELSE 0))
ToInt(n)  == IF n \in (-MaxInt - 1)..MaxInt THEN Value("int", Whole(n)) ELSE Other

-----------------------------------------------------------------------------
(* Expressions.                                                            *)

PyInts(op, a, b) ==
  CASE op \in {"add", "sub", "mul"} -> ToInt(Arithmetic(op, Whole(a), Whole(b))[1])
    [] op = "pow" -> IF b >= 0 THEN ToInt(PowerOf(a, b)) ELSE Other
    [] op = "div" -> IF b # 0 THEN Value("float", Ratio(a, b)) ELSE Other
    [] op \in {"floordiv", "mod"} ->
         IF a < 0 \/ b <= 0 THEN Other ELSE ToInt(IF op = "mod" THEN a % b ELSE a \div b)
    [] op \in {"bitand", "bitor", "bitxor"} -> ToInt(Bits(op, a, b))
    [] op \in {"lshift", "rshift"} ->
         IF b \notin 0..(Width - 1) THEN Other
         ELSE ToInt(IF op = "lshift" THEN a * 2 ^ b ELSE a \div 2 ^ b)
    [] OTHER -> Other

PyFloats(op, a, b) ==
  CASE op \in {"add", "sub", "mul"} -> Value("float", Arithmetic(op, a, b))
    [] op = "div" /\ b[1] # 0       -> Value("float", Arithmetic(op, a, b))
    [] op = "pow" /\ b[2] = 1 /\ b[1] >= 0 -> Value("float", Arithmetic(op, a, b))
    [] OTHER -> Other

PyBinary(op, l, r) ==
  CASE l.ty = "int" /\ r.ty = "int"     -> PyInts(op, l.num[1], r.num[1])
    [] l.ty = "float" /\ r.ty = "float" -> PyFloats(op, l.num, r.num)
    [] l.ty = "text" /\ r.ty = "text" /\ op = "add" ->
         Value("text", Arithmetic(op, l.num, r.num))
    [] OTHER -> Other

PyCompare(op, l, r) ==
  IF l.ty = r.ty
     /\ \/ l.ty \in {"int", "float"} /\ op \in {"eq", "noteq", "lt", "lteq", "gt", "gteq"}
        \/ l.ty \in {"text", "bool"} /\ op \in {"eq", "noteq"}
  THEN ToBool(Compared(op, l.num, r.num)) ELSE Other

PyUnary(op, v) ==
  CASE op = "not" /\ v.ty = "bool"  -> ToBool(v.num = Zero)
    [] op = "invert" /\ v.ty = "int" -> ToInt(-v.num[1] - 1)
    [] op = "neg" /\ v.ty = "int"   -> ToInt(-v.num[1])
    [] op = "neg" /\ v.ty = "float" -> Value("float", <<-v.num[1], v.num[2]>>)
    [] op = "pos" /\ v.ty \in {"int", "float"} -> v
    [] OTHER -> Other

Truncated(num) == IF num[1] < 0 THEN -((-num[1]) \div num[2]) ELSE num[1] \div num[2]

PyBuiltin(f, v) ==
  CASE f = "len" /\ v.ty \in {"text", "list", "tuple"}  -> ToInt(v.num[1])
    [] f = "str" /\ v.ty = "text"                       -> v
    [] f = "int" /\ v.ty \in {"int", "float"}           -> ToInt(Truncated(v.num))
    [] f = "float" /\ v.ty \in {"int", "float"}         -> Value("float", v.num)
    [] f = "bool" /\ v.ty \in {"int", "float", "bool", "text"} -> ToBool(v.num # Zero)
    [] OTHER -> Other

\* What an annotation says a value is.
Annotated(ann) ==
  CASE ann.kind = "name" /\ ann.id \in {"int", "float", "bool", "list", "tuple", "dict"} -> ann.id
    [] ann.kind = "name" /\ ann.id = "str" -> "text"
    [] ann.kind = "subscript" -> ann.parts[1].id
    [] ann.kind = "none"      -> "null"
    [] OTHER                  -> "other"

Definitions(source, x) == {i \in DOMAIN source : source[i].kind = "def" /\ source[i].targets = <<x>>}
Defines(source, x)     == Definitions(source, x) # {}
Definition(source, x)  == CHOOSE i \in Definitions(source, x) : \A j \in Definitions(source, x) : j <= i

\* A builtin's value has no type for the engine, and so no place among operands,
\* nor in a name that is not annotated.
Untyped(source, e) == e.kind = "call" /\ ~ (e.parts[1].kind = "name" /\ Defines(source, e.parts[1].id))

RECURSIVE PyEval(_, _, _), PyCall(_, _, _), PyBody(_, _, _), PyFor(_, _, _, _)

\* The value of an expression.  Both operands of and and or are evaluated: that
\* the second one may not be is beyond the plain part.
PyEval(source, env, e) ==
  LET first  == IF e.kind = "call" THEN 2 ELSE 1
      vs     == [i \in DOMAIN e.parts |-> IF i < first THEN Other ELSE PyEval(source, env, e.parts[i])]
      args   == SubSeq(vs, first, Len(vs))
      types  == {args[i].ty : i \in DOMAIN args}
      Uniform == Cardinality(types) <= 1
  IN  CASE e.kind = "int"   -> ToInt(e.num[1])
        [] e.kind \in {"float", "bool"} -> Value(e.kind, e.num)
        [] e.kind = "str"   -> Value("text", e.num)
        [] e.kind = "name"  -> IF e.id \in DOMAIN env THEN env[e.id] ELSE Other
        [] e.kind \notin {"int", "float", "bool", "str", "name"} ->
             CASE "deep" \in types -> Deep
               [] "other" \in types -> Other
               [] e.kind \in {"binop", "unary", "list", "tuple"}
                  /\ \E i \in DOMAIN e.parts : Untyped(source, e.parts[i]) -> Other
               [] OTHER ->
             CASE e.kind = "binop"   -> PyBinary(e.id, args[1], args[2])
               [] e.kind = "compare" /\ Len(args) = 2 -> PyCompare(e.parts[2].id, args[1], args[2])
               [] e.kind = "link"    -> args[1]
               [] e.kind = "boolop" /\ types = {"bool"} ->
                    ToBool(IF e.id = "and" THEN \A i \in DOMAIN args : args[i].num # Zero
                           ELSE \E i \in DOMAIN args : args[i].num # Zero)
               [] e.kind = "unary"   -> PyUnary(e.id, args[1])
               [] e.kind = "list" /\ Uniform /\ args # <<>> -> Value("list", Whole(Len(args)))
               [] e.kind = "tuple"   -> Value("tuple", Whole(Len(args)))
               [] e.kind = "call" /\ e.parts[1].kind = "name" ->
                    IF Defines(source, e.parts[1].id)
                    THEN LET call == PyCall(source, e.parts[1].id, args)
                         IN  CASE call.out \in {"exception", "deep"} -> Deep
                               [] call.out \in {"null", "dict", "other"} \/ call.elses -> Other
                               [] OTHER -> call.result[1]
                    ELSE IF Len(args) = 1 THEN PyBuiltin(e.parts[1].id, args[1]) ELSE Other
               [] OTHER -> Other

-----------------------------------------------------------------------------
(* Statements.  out is "on" until the body is left; seen are the           *)
(* statements that ran, and elses says whether a loop's else block did.    *)

PyStart(env) == [env |-> env, out |-> "on", result |-> <<>>, seen |-> {}, elses |-> FALSE]
Leave(st, v) == [st EXCEPT !.out = v.ty, !.result = <<v>>]
Truthy(v)    == v.ty \in {"bool", "int", "float"}

Bind(st, x, v, ann) ==
  IF \/ v.ty \in Stops
     \/ x \in DOMAIN st.env /\ st.env[x].ty # v.ty
     \/ ann # Absent /\ Annotated(ann) # v.ty
  THEN Leave(st, IF v.ty = "deep" THEN v ELSE Other)
  ELSE [st EXCEPT !.env = (x :> v) @@ st.env]

\* range(args): the values of the counter, the one that ends the loop last.
Counters(args) ==
  LET start == IF Len(args) = 1 THEN 0 ELSE args[1].num[1]
      stop  == IF Len(args) = 1 THEN args[1].num[1] ELSE args[2].num[1]
      step  == IF Len(args) = 3 THEN args[3].num[1] ELSE 1
      count == IF stop <= start THEN 0 ELSE (stop - start + step - 1) \div step
  IN  IF step <= 0 THEN <<MaxInt + 1>> ELSE [k \in 1..(count + 1) |-> start + (k - 1) * step]

\* A loop that has come to its end.
PyElse(source, st, s) ==
  PyBody(source, [st EXCEPT !.elses = @ \/ s.blocks[2] # <<>>], s.blocks[2])

\* The rounds of a for whose counters are given; its target is gone after them.
PyFor(source, st, s, counters) ==
  LET x == s.targets[1]
  IN  IF st.out # "on" THEN st
      ELSE IF Len(counters) = 1
      THEN PyElse(source, [st EXCEPT !.env = [y \in DOMAIN st.env \ {x} |-> st.env[y]]], s)
      ELSE PyFor(source, PyBody(source, Bind(st, x, ToInt(Head(counters)), Absent), s.blocks[1]), s,
                 Tail(counters))

\* A dict literal of names and literals under text keys, and its values.
PlainDict(e) == \A k \in 1..(Len(e.parts) \div 2) :
                  e.parts[2 * k - 1].kind = "str" /\ e.parts[2 * k].kind \in {"name", "int", "float", "str"}
DictValues(source, env, e) ==
  [k \in 1..(Len(e.parts) \div 2) |-> PyEval(source, env, e.parts[2 * k])]

\* A returned dict literal, of these values.
PyDict(st, e, values) ==
  IF ~ PlainDict(e) \/ \E i \in DOMAIN values : values[i].ty \notin {"int", "float", "text"}
  THEN Leave(st, Other)
  ELSE [st EXCEPT !.out = "dict", !.result = values]

\* A for over the range of these arguments.
PyRange(source, st, s, args) ==
  IF \/ s.exprs[1].kind # "call" \/ s.exprs[1].parts[1] # Name("range") \/ Len(args) \notin 1..3
     \/ \E i \in DOMAIN args : args[i].ty # "int" \/ s.targets[1] \in DOMAIN st.env
     \/ \E i \in DOMAIN Counters(args) : Counters(args)[i] > MaxInt
  THEN Leave(st, Other)
  ELSE PyFor(source, st, s, Counters(args))

\* Any other statement, whose expression has the value v.
PyWith(source, st, s, v) ==
  CASE s.kind = "pass"   -> st
    [] s.kind = "raise"  -> Leave(st, Value("exception", Zero))
    [] s.kind \in {"assign", "annassign"} ->
         IF Len(s.targets) = 1 /\ ~ (s.kind = "assign" /\ Untyped(source, s.exprs[1]))
         THEN Bind(st, s.targets[1], v, s.ann) ELSE Leave(st, Other)
    [] s.kind = "return" -> Leave(st, v)
    [] s.kind = "assert" -> IF v.ty = "bool" /\ v.num = Zero THEN Leave(st, Value("exception", Zero))
                            ELSE IF v.ty \in Stops THEN Leave(st, v) ELSE st
    [] s.kind = "expr"   -> IF v.ty \in Stops THEN Leave(st, v) ELSE st
    [] s.kind \in {"if", "while"} /\ ~ Truthy(v) -> Leave(st, IF v.ty = "deep" THEN v ELSE Other)
    [] s.kind = "if" /\ Truthy(v) -> PyBody(source, st, s.blocks[IF v.num # Zero THEN 1 ELSE 2])
    [] s.kind = "while" /\ Truthy(v) ->
         IF v.num = Zero THEN PyElse(source, st, s)
         ELSE PyBody(source, st, s.blocks[1] \o <<s>>)
    [] OTHER -> Leave(st, Other)

PyStmt(source, before, s) ==
  LET st == [before EXCEPT !.seen = @ \cup {s}]
      e  == IF s.exprs = <<>> THEN None ELSE s.exprs[1]
  IN  CASE s.kind = "return" /\ e.kind = "dict" -> PyDict(st, e, DictValues(source, st.env, e))
        [] s.kind = "for" ->
             PyRange(source, st, s, [i \in 1..(Len(e.parts) - 1) |-> PyEval(source, st.env, e.parts[i + 1])])
        [] OTHER ->
             PyWith(source, st, s, IF s.exprs = <<>> THEN Value("null", Zero) ELSE PyEval(source, st.env, e))

PyBody(source, st, body) ==
  FoldLeft(LAMBDA acc, s : IF acc.out = "on" THEN PyStmt(source, acc, s) ELSE acc, st, body)

\* A body that is not left returns None.
Ended(st) == IF st.out = "on" THEN Leave(st, Value("null", Zero)) ELSE st
\* What is returned must be what the function says.
Returned(f, st) ==
  IF st.out \in Stops \/ st.out = Annotated(f.ann) THEN st ELSE Leave(PyStart(<<>>), Other)

\* A call: what it returns, and what ran.  A function that says what it takes
\* must be right; it is defined once, and calls itself and functions before it
\* alone.
PyCall(source, x, args) ==
  LET i     == Definition(source, x)
      f     == source[i]
      names == [j \in DOMAIN f.params |-> f.params[j].name]
      Right == Len(args) = Len(f.params) /\ Definitions(source, x) = {i}
                 /\ \A j \in DOMAIN args : Annotated(f.params[j].ann) = args[j].ty
      env   == [y \in {names[j] : j \in DOMAIN names} |-> args[CHOOSE j \in DOMAIN args : names[j] = y]]
  IN  IF Right THEN Returned(f, Ended(PyBody(SubSeq(source, 1, i), PyStart(env), f.blocks[1])))
      ELSE Leave(PyStart(<<>>), Other)
=============================================================================
