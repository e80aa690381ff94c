-------------------------- MODULE MCFunctionCodegen --------------------------
(***************************************************************************)
(* Functions small enough for TLC and rich enough to nest loops, branches  *)
(* and jumps.  j is only ever a loop variable; i is also assigned.         *)
(***************************************************************************)
EXTENDS FunctionCodegen, PythonReference

X == Name("x")
Y == Name("y")
N == Name("n")
I == Name("i")
J == Name("j")
One == Lit(1)
Sum(a, b) == Expr("add", a, b)

Start == <<Assign("x", Atom(Lit(0)))>>
Fun(b) == [json |-> FALSE, body |-> b]
Json(b) == [json |-> TRUE, body |-> b]

Leaves == {Assign("x", Sum(X, One)), Assign("y", Atom(N)), Assign("i", Atom(X)),
           AugAssign("x", "add", J), Break, Continue, Return(Atom(X))}

\* One or two leaves.
Branches == {<<s>> : s \in Leaves}
  \cup {<<AugAssign("x", "add", N), Break>>, <<Break, Assign("x", Atom(N))>>,
        <<Assign("y", Atom(N)), Assign("x", Sum(X, Y))>>}

Ifs == {If(t, b, o) : t \in {Expr("gt", X, One), Expr("eq", J, One)}, b \in Branches,
                      o \in {<<>>, <<Break>>, <<Continue>>, <<Assign("y", Atom(X))>>}}

Inner == Ifs
  \cup {For(t, Lit(0), Lit(2), One, b) : t \in {"i", "j"}, b \in Branches}
  \cup {While(Expr("lt", X, Lit(2)), b) : b \in Branches}

\* After the inner statement: nothing, one more assignment, or a way out.
Bodies == {<<s>> \o end : s \in Inner,
  end \in {<<>>, <<Assign("x", Sum(X, One))>>,
           <<If(Expr("gt", X, One), <<Break>>, <<>>), Assign("x", Sum(X, One))>>}}

Outer == {For("j", Lit(0), N, One, b) : b \in Bodies}
  \cup {While(Expr("lt", X, Lit(3)), b) : b \in Bodies}

\* A loop with one more statement in it, after which x is returned.
Nested == {Fun(Start \o <<s, Return(Atom(X))>>) : s \in Outer}

\* The same name counts two loops, or a loop and something else.
Rebound == {Fun(<<Assign("i", Atom(Lit(0)))>> \o <<s, Return(Atom(I))>>) :
  s \in {For("i", Lit(0), N, One, <<c>>) :
           c \in {For("i", Lit(0), Lit(2), One, <<Assign("k", Atom(I))>>),
                  If(Expr("eq", I, One), <<Break>>, <<>>), AugAssign("i", "add", One)}}
     \cup {While(Expr("lt", I, Lit(3)), <<c>>) :
             c \in {For("i", Lit(0), N, One, <<Break>>), AugAssign("i", "add", One)}}}

\* Every range near the ends of the native integers, and its step.
Ranges == {Fun(Start \o <<For("j", a, N, k, <<Assign("x", Sum(X, One))>>), Return(Atom(X))>>) :
  a \in {Lit(0), Lit(MaxInt - 1), N}, k \in {Lit(1), Lit(2), Lit(-1), Lit(0), N}}

\* Every operator on small and on extreme operands, and a function that ends
\* without a return.
Arithmetic == {Fun(<<Assign("x", Expr(op, N, Lit(v)))>> \o end) :
  op \in {"add", "sub", "floordiv", "mod"}, v \in {-1, 0, 2, MaxInt},
  end \in {<<>>, <<Return(Expr("add", X, X))>>, <<Return(Atom(X)), Assign("x", Atom(N))>>,
           <<If(Expr("lt", X, N), <<Return(Atom(X))>>, <<Return(Atom(N))>>)>>}}

\* Outside a loop there is nothing to break out of.
Jumpless == {s \in Ifs : \A t \in InThisLoop(<<s>>) : t.kind \notin {"break", "continue"}}

\* A dict is returned at the end, earlier, within a statement, or never.
Dicts == {Json(Start \o b) :
  b \in {<<c, Return(Atom(X))>> : c \in {For("j", Lit(0), N, One, d) : d \in Branches} \cup Jumpless}
     \cup {<<Return(Atom(X)), Assign("x", Atom(N))>>, <<Assign("x", Atom(N))>>, <<Return(Atom(Y))>>}}

MCPrograms == Nested \cup Rebound \cup Ranges \cup Arithmetic \cup Dicts
MCInputs == {-MaxInt - 1, -1, 0, 2, 3, MaxInt}

\* A loop that skips one of its rounds.
SkippingPrograms ==
  {Fun(Start \o <<For("j", Lit(0), N, One,
                      <<If(Expr("eq", J, One), <<Continue>>, <<>>), Assign("x", Sum(X, J))>>),
                  Return(Atom(X))>>)}
=============================================================================
