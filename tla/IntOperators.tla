----------------------------- MODULE IntOperators -----------------------------
(***************************************************************************)
(* The ints of native code, and expressions of at most one operator over   *)
(* them.                                                                   *)
(***************************************************************************)
EXTENDS Integers

CONSTANT MaxInt  \* the largest native int: it stands for 2^63 - 1

ASSUME WidthAssumption == MaxInt \in Nat \ {0}

Fits(v) == v \in (-MaxInt - 1)..MaxInt

Expr(op, l, r) == [op |-> op, l |-> l, r |-> r]

\* Comparisons yield 1 or 0.
Compare(op, l, r) ==
  LET holds == CASE op = "lt" -> l < r
                 [] op = "gt" -> l > r
                 [] op = "eq" -> l = r
  IN  IF holds THEN 1 ELSE 0
=============================================================================
