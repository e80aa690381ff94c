---------------------------- MODULE PythonSource ----------------------------
(***************************************************************************)
(* The Python the compiler reads: the syntax tree rustpython's parser      *)
(* hands to celer-parser.  A node has a kind, the name or operator it      *)
(* bears, the number it stands for and its parts; a number is a fraction   *)
(* <<n, d>>, a text is the number of its letters.                          *)
(***************************************************************************)
EXTENDS Integers, Sequences, FiniteSets

CONSTANT MaxInt  \* the largest native integer; the least is -MaxInt - 1

Zero == <<0, 1>>
Node(kind, id, num, parts) == [kind |-> kind, id |-> id, num |-> num, parts |-> parts]
Absent     == Node("absent", "", Zero, <<>>)

IntLit(k)      == Node("int", "", <<k, 1>>, <<>>)
FloatLit(n, d) == Node("float", "", <<n, d>>, <<>>)
BoolLit(b)     == Node("bool", "", <<IF b THEN 1 ELSE 0, 1>>, <<>>)
StrLit(k)      == Node("str", "", <<k, 1>>, <<>>)
None        == Node("none", "", Zero, <<>>)
Name(x)     == Node("name", x, Zero, <<>>)
BinOp(op, l, r)   == Node("binop", op, Zero, <<l, r>>)
BoolOp(op, parts) == Node("boolop", op, Zero, parts)
UnaryOp(op, e)    == Node("unary", op, Zero, <<e>>)
\* left op1 e1 op2 e2 ...: every operand after the first is a link.
Link(op, e)       == Node("link", op, Zero, <<e>>)
Compare(l, links) == Node("compare", "", Zero, <<l>> \o links)
\* The function, its keyword arguments, its positional ones.
Keyword(x, e)     == Node("keyword", x, Zero, <<e>>)
Call(f, args)     == Node("call", "", Zero, <<f>> \o args)
Attribute(e, x)   == Node("attribute", x, Zero, <<e>>)
Subscript(e, i)   == Node("subscript", "", Zero, <<e, i>>)
List(parts)       == Node("list", "", Zero, parts)
Tuple(parts)      == Node("tuple", "", Zero, parts)
\* A dict's parts are its keys and values in turn; the key of ** is Absent.
Dict(parts)       == Node("dict", "", Zero, parts)
Await(e)          == Node("await", "", Zero, <<e>>)
FString(parts)    == Node("fstring", "", Zero, parts)
\* The element, then target, iterable and conditions of its generators.
ListComp(parts)   == Node("listcomp", "", Zero, parts)
IfExp(t, b, o)    == Node("ifexp", "", Zero, <<t, b, o>>)

\* ann is an annotation, or the one of what a function returns.
Stmt(kind, targets, ann, exprs, blocks) ==
  [kind |-> kind, targets |-> targets, ann |-> ann, exprs |-> exprs, blocks |-> blocks,
   params |-> <<>>, decorators |-> <<>>]

\* A target that is not a plain name is "*".
Assign(targets, e)  == Stmt("assign", targets, Absent, <<e>>, <<>>)
AnnAssign(x, ann, e) == Stmt("annassign", <<x>>, ann, <<e>>, <<>>)
AugAssign(x, e)     == Stmt("augassign", <<x>>, Absent, <<e>>, <<>>)
Return(exprs)       == Stmt("return", <<>>, Absent, exprs, <<>>)
Do(e)               == Stmt("expr", <<>>, Absent, <<e>>, <<>>)
If(e, b, o)         == Stmt("if", <<>>, Absent, <<e>>, <<b, o>>)
\* The body, then the else block, of what ends in no break.
While(e, b, o)      == Stmt("while", <<>>, Absent, <<e>>, <<b, o>>)
For(x, e, b, o)     == Stmt("for", <<x>>, Absent, <<e>>, <<b, o>>)
\* The handlers' blocks come first.
Try(handlers, rest) == Stmt("try", <<>>, Absent, <<>>, handlers \o rest)
AssertThat(e)       == Stmt("assert", <<>>, Absent, <<e>>, <<>>)
Raise(e)            == Stmt("raise", <<>>, Absent, <<e>>, <<>>)
Import(x)           == Stmt("import", <<x>>, Absent, <<>>, <<>>)
Pass                == Stmt("pass", <<>>, Absent, <<>>, <<>>)
Class(x, body)      == Stmt("class", <<x>>, Absent, <<>>, <<body>>)

Param(x, ann) == [name |-> x, ann |-> ann, default |-> Absent]
Def(kind, x, params, returns, body) ==
  [kind |-> kind, targets |-> <<x>>, ann |-> returns, exprs |-> <<>>, blocks |-> <<body>>,
   params |-> params, decorators |-> <<>>]
Decorated(f, decorators) == [f EXCEPT !.decorators = decorators]
=============================================================================
