--------------------------- MODULE PythonReference ---------------------------
(***************************************************************************)
(* What CPython does with a function: big steps over its statements.       *)
(* A state is [env, how, val, fuel, exact]; exact stays TRUE while every   *)
(* value fits a native int and no operand of // and % is negative.         *)
(***************************************************************************)
EXTENDS HirFunction

CONSTANT PyFuel  \* how many rounds of loops a call of Python may make

ASSUME FuelAssumption == PyFuel \in Nat

FloorDiv(l, r) == IF r > 0 THEN l \div r ELSE (-l) \div (-r)

PythonOp(op, l, r) ==
  CASE op = "atom"     -> l
    [] op = "add"      -> l + r
    [] op = "sub"      -> l - r
    [] op = "floordiv" -> FloorDiv(l, r)
    [] op = "mod"      -> l - r * FloorDiv(l, r)
    [] OTHER           -> Compare(op, l, r)

Raises(op, l, r) == op \in {"floordiv", "mod"} /\ r = 0

PyOperand(st, a) == IF a.id = "" THEN a.val ELSE st.env[a.id]
PyEval(st, e)    == PythonOp(e.op, PyOperand(st, e.l), PyOperand(st, e.r))
PyRaises(st, e)  == Raises(e.op, PyOperand(st, e.l), PyOperand(st, e.r))
PyExact(st, e)   ==
  /\ st.exact
  /\ Fits(PyEval(st, e))
  /\ e.op \in {"floordiv", "mod"} => PyOperand(st, e.l) >= 0 /\ PyOperand(st, e.r) >= 0

PyBind(st, x, v) ==
  [st EXCEPT !.env = [y \in DOMAIN st.env \cup {x} |-> IF y = x THEN v ELSE st.env[y]],
             !.exact = @ /\ Fits(v)]

\* A value, computed once, in the place of the parameter of Op.
With(v, Op(_)) == CHOOSE r \in {Op(w) : w \in {v}} : TRUE

RECURSIVE PyBlock(_, _), PyWhile(_, _), PyFor(_, _, _, _)

\* What follows the body of a loop: the rest of the loop, or what ended it.
AfterBody(st, Loop(_)) ==
  With(st, LAMBDA t :
    CASE t.how = "break"                               -> [t EXCEPT !.how = "next"]
      [] t.how \in {"next", "continue"} /\ t.fuel = 0  -> [t EXCEPT !.how = "fuel"]
      [] t.how \in {"next", "continue"} /\ t.fuel # 0  ->
           Loop([t EXCEPT !.how = "next", !.fuel = @ - 1])
      [] OTHER                                         -> t)

\* The expressions of s are evaluated, unless one raises.
PyArgs(st, s) ==
  IF \E i \in DOMAIN s.args : PyRaises(st, s.args[i]) THEN [st EXCEPT !.how = "raise"]
  ELSE [st EXCEPT !.exact = \A i \in DOMAIN s.args : PyExact(st, s.args[i])]

Holds(st, s) == PyEval(st, s.args[1]) # 0

PyThen(st, Op(_)) == With(st, LAMBDA t : IF t.how = "next" THEN Op(t) ELSE t)

PyWhile(st, s) ==
  PyThen(PyArgs(st, s), LAMBDA t :
    IF Holds(t, s) THEN AfterBody(PyBlock(t, s.body), LAMBDA u : PyWhile(u, s)) ELSE t)

\* cur is the value range yields next.
PyFor(st, s, cur, range) ==
  IF (range.step > 0 /\ cur >= range.stop) \/ (range.step < 0 /\ cur <= range.stop) THEN st
  ELSE AfterBody(PyBlock(PyBind(st, s.target, cur), s.body), LAMBDA u :
         PyFor([u EXCEPT !.exact = @ /\ Fits(cur + range.step)], s, cur + range.step, range))

PyRange(st, s) ==
  LET range == [stop |-> PyEval(st, s.args[2]), step |-> PyEval(st, s.args[3])]
  IN  IF range.step = 0 THEN [st EXCEPT !.how = "raise"]
      ELSE PyFor(st, s, PyEval(st, s.args[1]), range)

PyKind(st, s) ==
  CASE s.kind \in {"assign", "aug"} -> PyBind(st, s.target, PyEval(st, s.args[1]))
    [] s.kind = "if"     -> PyBlock(st, IF Holds(st, s) THEN s.body ELSE s.orelse)
    [] s.kind = "while"  -> PyWhile(st, s)
    [] s.kind = "for"    -> PyRange(st, s)
    [] s.kind = "return" -> [st EXCEPT !.how = "return", !.val = PyEval(st, s.args[1])]
    [] OTHER             -> [st EXCEPT !.how = s.kind]

PyBlock(st, b) ==
  IF b = <<>> THEN st
  ELSE PyBlock(PyThen(st, LAMBDA t : PyThen(PyArgs(t, Head(b)), LAMBDA u : PyKind(u, Head(b)))),
               Tail(b))

PyCall(p, n) ==
  PyBlock([env |-> [x \in {"n"} |-> n], how |-> "next", val |-> 0, fuel |-> PyFuel,
           exact |-> TRUE], p.body)
=============================================================================
