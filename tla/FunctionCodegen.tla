--------------------------- MODULE FunctionCodegen ---------------------------
(***************************************************************************)
(* How one Python function becomes native code, and what that code does:   *)
(*   infer   - names are looked up in lexical scopes                       *)
(*             (celer-typeinfer/src/engine.rs),                            *)
(*   codegen - statements become basic blocks (Emitters),                  *)
(*   verify  - the LLVM verifier looks at the blocks,                      *)
(*   run     - a call executes them (BlockMachine), beside what CPython    *)
(*             does with the same function.                                *)
(***************************************************************************)
EXTENDS Emitters

\* What CPython does when it calls a function with an argument: how the call
\* ends, with what value, and whether its arithmetic was exact.
CONSTANT Python(_, _)

-----------------------------------------------------------------------------
(* Type inference.  Branches and loop bodies are inferred in a scope of    *)
(* their own, which is popped after them.                                  *)

\* The names in scope at statement i of a block entered with scope.
ScopeAt(b, scope, i) ==
  scope \cup {b[j].target : j \in {k \in 1..(i - 1) : b[k].kind = "assign"}}

Scoped(b, scope) == {<<b[i], ScopeAt(b, scope, i)>> : i \in DOMAIN b}

\* The scope of the body of statement s.
BodyScope(s, scope) == scope \cup (IF s.kind = "for" THEN {s.target} ELSE {})

\* The statements of b and of the blocks within them, each with its scope.
ScopedWithin(b, scope) ==
  LET level[k \in 0..MaxNesting] ==
        IF k = 0 THEN Scoped(b, scope)
        ELSE LET outer == level[k - 1]
             IN  outer \cup UNION {Scoped(t[1].body, BodyScope(t[1], t[2]))
                                   \cup Scoped(t[1].orelse, t[2]) : t \in outer}
  IN  level[MaxNesting]

\* infer_statement over a block: every name used is in scope.
Infers(b, scope) == \A t \in ScopedWithin(b, scope) : ArgNames(t[1]) \subseteq t[2]

-----------------------------------------------------------------------------
(* The part of Python whose loops are translated faithfully.               *)

Targets(b) == {s.target : s \in Loops(b)}

\* The statements of b and of the branches within them, without loops' bodies.
InThisLoop(b) ==
  LET level[k \in 0..MaxNesting] ==
        IF k = 0 THEN {b[i] : i \in DOMAIN b}
        ELSE LET outer == level[k - 1]
             IN  outer \cup UNION {{s.body[i] : i \in DOMAIN s.body}
                                   \cup {s.orelse[i] : i \in DOMAIN s.orelse} :
                                     s \in {u \in outer : u.kind = "if"}}
  IN  level[MaxNesting]

\* A loop variable belongs to its loop alone.
OwnTargets(b) ==
  /\ Targets(b) \cap (Assigned(b) \cup {"n"}) = {}
  /\ \A s \in Loops(b) : s.target \notin Targets(s.body)

\* Besides, the step is a positive literal, and continue is not used in a for.
PlainLoops(b) ==
  /\ OwnTargets(b)
  /\ \A s \in Loops(b) :
       /\ s.args[3].l.id = "" /\ s.args[3].l.val > 0
       /\ \A t \in InThisLoop(s.body) : t.kind # "continue"

\* break and continue are in loops.
JumpsInLoops(b) == \A s \in InThisLoop(b) : s.kind \notin {"break", "continue"}

\* No statement follows a jump in its block.
NoDeadCode(b) ==
  LET Live(c) == \A i \in 1..(Len(c) - 1) : c[i].kind \notin {"break", "continue", "return"}
  IN  Live(b) /\ \A s \in Within(b) : Live(s.body) /\ Live(s.orelse)

\* A JSON function returns at its end and nowhere else.
ReturnsLast(p) ==
  p.json => /\ {i \in DOMAIN p.body : p.body[i].kind = "return"} = {Len(p.body)}
            /\ \A i \in DOMAIN p.body :
                 \A s \in Within(p.body[i].body) \cup Within(p.body[i].orelse) : s.kind # "return"

PlainFunction(p) ==
  /\ NoDeadCode(p.body) /\ Hoisted(p.body) /\ OwnTargets(p.body)
  /\ JumpsInLoops(p.body) /\ ReturnsLast(p)

\* No statement lies deeper than MaxNesting.
ASSUME NestingSuffices ==
  \A p \in Programs :
    LET inThis == InThisLoop(p.body)
        scoped == ScopedWithin(p.body, {"n"})
    IN  /\ p.body \in Seq(inThis)
        /\ \A s \in inThis : s.kind = "if" => s.body \in Seq(inThis) /\ s.orelse \in Seq(inThis)
        /\ Scoped(p.body, {"n"}) \subseteq scoped
        /\ \A t \in scoped : /\ Scoped(t[1].body, BodyScope(t[1], t[2])) \subseteq scoped
                             /\ Scoped(t[1].orelse, t[2]) \subseteq scoped

-----------------------------------------------------------------------------
(* The function's way through the pipeline, and one call of it.            *)

VARIABLE expected  \* what CPython does for this call

vars == <<emitter, machine, expected>>

NoExpectation == [how |-> "none", val |-> 0, exact |-> FALSE]

Init == CompilerInit /\ expected = NoExpectation

InferNames ==
  /\ Infer
  /\ phase' = IF Infers(prog.body, {"n"}) THEN "codegen" ELSE "infer_failed"

Call(n) ==
  LET py == Python(prog, n)
  IN  /\ Enter(n)
      /\ expected' = [how |-> py.how, val |-> py.val, exact |-> py.exact /\ PlainLoops(prog.body)]

\* Every step is a step of CompilerNext.
Next ==
  \/ (InferNames \/ EmitStep) /\ UNCHANGED expected
  \/ (Verify \/ Exec) /\ UNCHANGED <<emitter, expected>>
  \/ (\E n \in Inputs : Call(n)) /\ UNCHANGED emitter

Spec == Init /\ [][Next]_vars

\* The compiler and the processor do not stop by themselves.
Fairness == WF_vars(Next)
FairSpec == Spec /\ Fairness

-----------------------------------------------------------------------------
(* Properties.                                                             *)

\* A function without dead code whose nested assignments are hoisted, whose loop
\* variables belong to their loops, and whose jumps and returns are where they may
\* be, is compiled: no block is left open and no slot is used where its alloca does
\* not dominate it.
PlainFunctionsCompile == phase \in {"codegen_failed", "verify_failed"} => ~PlainFunction(prog)

\* Where Python's arithmetic is exact and its loops are plain, the native
\* function returns what the Python function returns.
AgreesWithPython ==
  (phase = "returned" /\ expected.exact /\ expected.how = "return") => result = expected.val

\* And it does return, where the Python function does.
Terminates ==
  (phase = "running" /\ expected.exact /\ expected.how = "return") ~> phase = "returned"

\* "The user's app behavior is 100% identical -- just faster on compilable
\* routes" (PHASE5.md): a call that returns in Python returns the same natively.
IdenticalBehavior ==
  (phase = "running" /\ expected.how = "return")
    ~> (phase = "returned" /\ result = expected.val)
=============================================================================
