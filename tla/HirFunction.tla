----------------------------- MODULE HirFunction -----------------------------
(***************************************************************************)
(* The functions the compiler is given (celer-hir): blocks of statements,  *)
(* expressions of at most one operator, one int parameter n.               *)
(***************************************************************************)
EXTENDS IntOperators, Sequences

CONSTANT MaxNesting  \* how deep blocks lie in each other

ASSUME NestingAssumption == MaxNesting \in Nat

\* An operand is a literal or, with an id, a name.
Lit(v)  == [id |-> "", val |-> v]
Name(x) == [id |-> x, val |-> 0]
Atom(a) == Expr("atom", a, a)

Stmt(kind, target, args, body, orelse) ==
  [kind |-> kind, target |-> target, args |-> args, body |-> body, orelse |-> orelse]

Assign(x, e)     == Stmt("assign", x, <<e>>, <<>>, <<>>)
AugAssign(x, op, a) == Stmt("aug", x, <<Expr(op, Name(x), a)>>, <<>>, <<>>)
If(e, b, o)      == Stmt("if", "", <<e>>, b, o)
While(e, b)      == Stmt("while", "", <<e>>, b, <<>>)
For(x, start, stop, step, b) ==
  Stmt("for", x, <<Atom(start), Atom(stop), Atom(step)>>, b, <<>>)
Break            == Stmt("break", "", <<>>, <<>>, <<>>)
Continue         == Stmt("continue", "", <<>>, <<>>, <<>>)
Return(e)        == Stmt("return", "", <<e>>, <<>>, <<>>)

Names(e)       == {e.l.id, e.r.id} \ {""}
ArgNames(s)    == UNION {Names(s.args[i]) : i \in DOMAIN s.args}

\* The statements of b and of the blocks within them.
Within(b) ==
  LET level[k \in 0..MaxNesting] ==
        IF k = 0 THEN {b[i] : i \in DOMAIN b}
        ELSE LET outer == level[k - 1]
             IN  outer \cup UNION {{s.body[i] : i \in DOMAIN s.body}
                                   \cup {s.orelse[i] : i \in DOMAIN s.orelse} : s \in outer}
  IN  level[MaxNesting]

\* W has the statements of b and of every block of a statement of W.
Encloses(W, b) ==
  /\ b \in Seq(W)
  /\ \A s \in W : s.body \in Seq(W) /\ s.orelse \in Seq(W)
=============================================================================
