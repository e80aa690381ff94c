--------------------------- MODULE MCNativeStrings ---------------------------
(***************************************************************************)
(* Two workers, one answer or two each, and every library of the shapes    *)
(* below.                                                                  *)
(***************************************************************************)
EXTENDS NativeStrings, TLC

X == Lit(<<20, 21>>)
A == Name("a")
B == Name("b")
Nothing == Lit(<<>>)

Str(x, k)       == Stmt("str", x, Nothing, Nothing, k, 1)
Concat(x, l, r) == Stmt("concat", x, l, r, 0, 1)
CallOf(x, k)    == Stmt("call", x, Nothing, Nothing, k, 1)
Bind(x, a)      == Stmt("bind", x, a, Nothing, 0, 1)
Repeated(s)     == [s EXCEPT !.times = 2]

Helper(body, ret) == [label |-> body, ret |-> ret]
Helpers == {Helper(<<Str("a", Param)>>, A),
            Helper(<<Str("a", Param), Concat("b", X, A)>>, B),
            Helper(<<Str("a", Param), Repeated(Concat("a", A, X))>>, A)}

\* The first statement sets a, the second b or a again.
Firsts  == {CallOf("a", Param), Str("a", Param), Bind("a", Lit(<<Quote>>))}
Seconds == {CallOf("b", 2), Concat("b", A, A), Concat("a", X, A), Repeated(Concat("a", A, X))}

Dynamic(s) == IF s.x = "b" THEN <<Entry("str", A), Entry("str", B)>> ELSE <<Entry("str", A)>>
Literal == {<<Entry("int", Nothing), Entry("lit", Lit(<<Quote>>))>>, <<Entry("lit", Lit(<<20, Quote>>))>>}

Library(h, main, dict) == [label |-> h.label, ret |-> h.ret, main |-> main, dict |-> dict]

MCPrograms ==
  {Library(h, <<f, s>>, Dynamic(s)) : h \in Helpers, f \in Firsts, s \in Seconds}
  \cup {Library(Helper(<<>>, X), <<>>, d) : d \in Literal}

MCNames == {"a", "b"}

\* Workers are interchangeable.
WorkerSymmetry == Permutations(Workers)
=============================================================================
