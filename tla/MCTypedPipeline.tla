-------------------------- MODULE MCTypedPipeline --------------------------
\* Modules that bring every operator, type, statement and call of the typed
\* pipeline into play, plain ones and others.
EXTENDS TypedPipeline

A     == Name("a")
B     == Name("b")
X     == Name("x")
N(k)  == IntLit(k)
Int32 == Name("int")
Flt   == Name("float")
Str   == Name("str")
Bool  == Name("bool")
Calls(f, args) == Call(Name(f), args)
Cmp(l, op, r)  == Compare(l, <<Link(op, r)>>)
Zeros == Return(<<N(0)>>)
Ones  == Return(<<N(1)>>)

F(returns, body)  == Def("def", "f", <<Param("a", Int32), Param("b", Int32)>>, returns, body)
FD(body)          == Def("def", "f", <<Param("a", Int32)>>, Name("dict"), body)
F1(body)          == Def("def", "f", <<Param("a", Int32)>>, Int32, body)
G(ty, returns, body) == Def("def", "g", <<Param("a", ty)>>, returns, body)
OfInt(e)   == <<F(Int32, <<Return(<<e>>)>>)>>
FloatA == Calls("float", <<A>>)
FloatB == Calls("float", <<B>>)
Y == Name("y")
\* What is no integer is told by what is made of it.
OfFloat(e) == <<F(Int32, <<AnnAssign("y", Flt, FloatA), AnnAssign("z", Flt, FloatB), Assign(<<"x">>, e), Return(<<Calls("int", <<X>>)>>)>>)>>
OfBool(e)  == <<F(Int32, <<Assign(<<"x">>, e), If(X, <<Ones>>, <<>>), Zeros>>)>>
OfLen(e)   == <<F(Int32, <<Assign(<<"x">>, e), Return(<<Calls("len", <<X>>)>>)>>)>>

\* The modules of one expression.
Half == FloatLit(1, 2)
Expressions ==
  {OfInt(BinOp(op, A, B)) : op \in Operators \cup {"matmult"}}
  \cup {OfInt(UnaryOp(op, A)) : op \in {"neg", "pos", "invert"}}
  \cup {OfFloat(BinOp(op, Y, Half)) : op \in {"add", "sub", "mul", "div", "floordiv", "mod", "pow"}}
  \cup {OfFloat(BinOp(op, Y, Name("z"))) : op \in {"add", "mul", "div", "pow"}}
  \cup {OfFloat(BinOp("div", A, B)), OfFloat(UnaryOp("neg", Y)), OfFloat(UnaryOp("neg", FloatA)),
        OfFloat(BinOp("add", A, Half)), OfFloat(FloatA)}
  \cup {OfBool(Cmp(A, op, B)) : op \in Comparisons \cup {"in"}}
  \cup {OfBool(Cmp(FloatA, op, FloatB)) : op \in Comparisons}
  \cup {OfBool(Cmp(Calls("bool", <<A>>), op, Calls("bool", <<B>>))) : op \in {"eq", "noteq", "lt"}}
  \cup {OfBool(BoolOp(op, <<Cmp(A, "lt", B), Cmp(N(0), "lt", A), Cmp(N(1), "lt", B)>>)) : op \in {"and", "or"}}
  \cup {OfBool(BoolOp("and", <<Cmp(B, "noteq", N(0)), Cmp(BinOp("floordiv", N(3), B), "gt", N(0))>>)),
        OfBool(BoolOp("and", <<A, B>>)), OfBool(UnaryOp("not", Cmp(A, "lt", B))), OfBool(UnaryOp("not", A)),
        OfBool(Compare(N(0), <<Link("lt", A), Link("lt", B)>>)),
        OfBool(Cmp(StrLit(2), "eq", BinOp("add", StrLit(1), StrLit(1)))),
        OfBool(Cmp(StrLit(2), "lt", StrLit(1))), OfBool(Cmp(None, "eq", None)),
        OfBool(Calls("bool", <<StrLit(0)>>)), OfBool(StrLit(1))}
  \cup {OfLen(BinOp("add", StrLit(2), StrLit(1))), OfLen(Calls("str", <<StrLit(2)>>)),
        OfLen(Calls("str", <<A>>)), OfLen(List(<<A, N(2)>>)), OfLen(List(<<>>)), OfLen(List(<<A, Half>>)),
        OfLen(Tuple(<<A, Half, StrLit(1)>>)), OfLen(Dict(<<StrLit(1), A>>)), OfLen(A),
        OfLen(FString(<<A>>)), OfLen(ListComp(<<A, Name("i"), A>>)), OfLen(Subscript(List(<<StrLit(1)>>), N(0)))}
  \cup {OfInt(e) : e \in {N(8), N(-8), IfExp(A, B, N(1)), Attribute(A, "x"), Subscript(List(<<A, B>>), N(0)),
                          Calls("int", <<StrLit(1)>>), Calls("int", <<Cmp(A, "lt", B)>>),
                          Calls("len", <<A, B>>), Calls("range", <<A>>), Calls("h", <<A>>),
                          Calls("len", <<Tuple(<<A, B>>)>>), Await(A), Name("y"),
                          Call(Name("int"), <<Keyword("base", N(2)), A>>), Call(Attribute(A, "m"), <<>>)}}

\* The modules of one function's statements.
Total == Assign(<<"x">>, BinOp("add", X, Name("i")))
Sum(args) == <<F(Int32, <<Assign(<<"x">>, N(0)), For("i", Calls("range", args), <<Total>>, <<>>), Return(<<X>>)>>)>>
Statements ==
  {Sum(<<A>>), Sum(<<A, B>>), Sum(<<N(0), A, B>>), Sum(<<>>)}
  \cup {<<F(Int32, <<Assign(<<"x">>, v)>> \o rest \o <<Return(<<X>>)>>)>> :
          v \in {N(1), Half, StrLit(1), Cmp(A, "lt", B)},
          rest \in {<<>>, <<If(Cmp(A, "gt", N(0)), <<Assign(<<"x">>, N(2))>>, <<>>)>>,
                    <<If(A, <<Assign(<<"x">>, StrLit(2))>>, <<Pass>>)>>,
                    <<Assign(<<"x">>, StrLit(2))>>}}
  \cup {<<F(Int32, body)>> :
          body \in {<<AnnAssign("x", Int32, BinOp("mul", A, B)), Return(<<X>>)>>,
                    <<AnnAssign("x", Flt, A), Return(<<X>>)>>,
                    <<AnnAssign("x", Int32, Absent), Return(<<A>>)>>,
                    <<Assign(<<"x", "y">>, A), Return(<<X>>)>>,
                    <<Assign(<<"*">>, A), Return(<<A>>)>>, <<AugAssign("a", B), Return(<<A>>)>>,
                    <<If(A, <<Assign(<<"x">>, N(1))>>, <<Assign(<<"x">>, N(2))>>), Return(<<X>>)>>,
                    <<If(A, <<Assign(<<"x">>, N(1)), Return(<<X>>)>>, <<Assign(<<"x">>, N(2)), Return(<<X>>)>>)>>,
                    <<If(A, <<If(B, <<Ones>>, <<Zeros>>)>>, <<Return(<<B>>)>>), Assign(<<"x">>, N(3)), Return(<<X>>)>>,
                    <<If(A, <<For("i", Calls("range", <<N(2)>>), <<Pass>>, <<>>)>>, <<>>),
                      For("i", Calls("range", <<N(2)>>), <<Assign(<<"b">>, BinOp("add", B, N(1)))>>, <<>>), Return(<<B>>)>>,
                    <<Assign(<<"x">>, N(0)), While(Cmp(X, "lt", A), <<Assign(<<"x">>, BinOp("add", X, N(1)))>>, <<>>), Return(<<X>>)>>,
                    <<For("i", List(<<A, B>>), <<Pass>>, <<>>), Zeros>>,
                    <<Return(<<>>)>>, <<Pass>>, <<Ones, Zeros>>, <<Return(<<None>>)>>, <<Return(<<Half>>)>>,
                    <<AssertThat(Cmp(A, "lt", B)), Ones>>,
                    <<If(Cmp(A, "lt", B), <<Raise(N(0))>>, <<>>), Ones>>,
                    <<Try(<<<<Zeros>>>>, <<<<Ones>>, <<>>, <<>>>>), Zeros>>,
                    <<Import("m"), Do(BinOp("add", A, B)), Ones>>,
                    <<Class("C", <<>>), Ones>>, <<Do(Calls("h", <<A>>)), Ones>>}}
  \cup {<<Decorated(F(returns, <<Ones>>), <<Name("staticmethod")>>)>> :
          returns \in {Absent, Name("Any"), Name("C"), None, Bool, Subscript(Name("list"), Int32),
                       Subscript(Name("tuple"), Tuple(<<Int32, Name("set")>>)), Subscript(Name("Optional"), Int32)}}
  \cup {<<FD(<<Assign(<<"b">>, N(2)), Return(<<Dict(parts)>>)>>)>> :
          parts \in {<<>>, <<StrLit(1), N(1)>>, <<StrLit(1), A, StrLit(2), Half, StrLit(3), StrLit(1)>>,
                     <<StrLit(1), BinOp("add", A, B)>>, <<A, B>>, <<StrLit(1), Name("f")>>, <<Absent, A>>}}
  \cup {<<F(Name("dict"), <<Return(<<Dict(<<StrLit(1), A>>)>>)>>)>>}
  \cup {<<FD(<<Assign(<<"b">>, N(2)), Assign(<<"x">>, e), If(A, <<Assign(<<"b">>, N(1))>>, <<>>),
                            Return(<<Dict(<<StrLit(1), X, StrLit(2), B>>)>>)>>)>> :
          e \in {Cmp(A, "lt", B), BinOp("add", A, B), BinOp("div", A, N(2)), StrLit(2), None, List(<<A>>)}}

CallsG == F1(<<Return(<<BinOp("add", Calls("g", <<A>>), N(1))>>)>>)

\* What the else block of a loop may hold, and never has an effect.
OrElse == {<<Assign(<<"x">>, N(3))>>, <<Raise(N(0))>>, <<AssertThat(Cmp(A, "lt", B))>>, <<Class("C", <<>>)>>,
           <<Return(<<IfExp(A, N(1), N(2))>>)>>}

\* The modules of a loop with an else block, which one with a jump out of the
\* loop's body does not always come to.
Elses ==
  {<<F(Int32, <<Assign(<<"x">>, N(0)), loop, Return(<<X>>)>>)>> :
     loop \in {For("i", Calls("range", <<A>>), body, orelse) : body \in {<<Pass>>, <<Ones>>}, orelse \in OrElse}
             \cup {While(Cmp(X, "lt", A), body, orelse) :
                     body \in {<<Assign(<<"x">>, BinOp("add", X, N(1)))>>, <<Ones>>}, orelse \in OrElse}}
  \cup {<<G(Int32, Int32, <<For("i", Calls("range", <<A>>), <<Ones>>, orelse), Zeros>>), CallsG>> : orelse \in OrElse}

\* The modules of several definitions.
Fact == F1(<<If(Cmp(A, "lt", N(2)), <<Ones>>, <<>>),
             Return(<<BinOp("mul", A, Calls("f", <<BinOp("sub", A, N(1))>>))>>)>>)
Definitions2 ==
  {<<Fact>>}
  \cup {<<G(ty, returns, body), CallsG>> :
          ty \in {Int32, Flt}, returns \in {Int32, Flt, None, Absent},
          body \in {<<Return(<<A>>)>>, <<AssertThat(Cmp(A, "lt", N(1))), Zeros>>, <<Pass>>}}
  \cup {<<CallsG, G(Int32, Int32, <<Return(<<A>>)>>)>>,
        <<G(Int32, Int32, <<Return(<<IfExp(A, N(1), N(2))>>)>>), CallsG>>,
        <<G(Int32, Int32, <<Ones>>), G(Int32, Int32, <<Zeros>>), CallsG>>,
        <<G(Int32, Name("dict"), <<Return(<<Dict(<<StrLit(1), A>>)>>)>>), CallsG>>,
        <<Def("asyncdef", "g", <<>>, Int32, <<Ones>>), F1(<<Ones>>)>>,
        <<Assign(<<"y">>, N(1)), F1(<<Return(<<Name("y")>>)>>)>>,
        <<Assign(<<"y">>, N(8)), F1(<<Ones>>)>>,
        <<F1(<<Return(<<N(9)>>)>>)>>,
        <<G(Str, Bool, <<Return(<<Cmp(Calls("len", <<A>>), "gt", N(1))>>)>>),
          F1(<<If(Calls("g", <<StrLit(2)>>), <<Return(<<A>>)>>, <<>>), Zeros>>)>>,
        <<G(Bool, Str, <<If(A, <<Return(<<StrLit(2)>>)>>, <<>>), Return(<<StrLit(1)>>)>>),
          F1(<<Return(<<Calls("len", <<Calls("g", <<Cmp(A, "lt", N(1))>>)>>)>>)>>)>>,
        <<Assign(<<"h">>, Name("f")), F1(<<Ones>>)>>,
        <<G(Int32, Int32, <<Ones>>), Assign(<<"h">>, Name("g")), F1(<<Return(<<Calls("h", <<A>>)>>)>>)>>,
        <<Class("C", <<AnnAssign("v", Int32, Absent),
                       Def("def", "m", <<Param("self", Absent), Param("y", Int32)>>, Int32,
                           <<If(Name("y"), <<Return(<<Attribute(Name("self"), "v")>>), Do(Name("z"))>>, <<>>)>>)>>),
          F1(<<Return(<<Name("y")>>)>>)>>,
        <<Class("C", <<AnnAssign("v", Int32, Absent)>>),
          F1(<<Assign(<<"x">>, Calls("C", <<>>)), Return(<<Attribute(X, "v")>>)>>)>>}

MCSources == Expressions \cup Statements \cup Elses \cup Definitions2
MCInputs  == {-2, 0, 1, 3}
=============================================================================
