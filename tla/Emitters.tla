------------------------------- MODULE Emitters -------------------------------
(***************************************************************************)
(* How the code generator makes the blocks of one function (emit_stmt.rs   *)
(* and emit_function.rs of celer-codegen): statements become basic blocks, *)
(* locals become stack slots.  The verifier and the machine then take the  *)
(* blocks over.                                                            *)
(*                                                                         *)
(* The emitters call each other for the blocks within a statement; here    *)
(* their calls are a stack of frames, and a step emits one statement or    *)
(* ends one block.                                                         *)
(*                                                                         *)
(* Every value is an int: a comparison, which is a bit in the code, is     *)
(* only ever tested, never kept in a slot or returned (TypedCodegen has    *)
(* slots and values of every type).  A function with json |-> TRUE returns *)
(* a dict; the returned expression stands for its one entry.               *)
(***************************************************************************)
EXTENDS HirFunction, BlockMachine

CONSTANT Programs  \* the functions compiled: records [json, body]

Arity(kind) ==
  CASE kind = "for" -> 3 [] kind \in {"break", "continue"} -> 0 [] OTHER -> 1

\* What the parser and the HIR make sure of for a statement; and comparisons are
\* the tests of if and while alone.
TypedStmt(s) ==
  /\ s.kind \in {"assign", "aug", "if", "while", "for", "break", "continue", "return"}
  /\ DOMAIN s.args = 1..Arity(s.kind)
  /\ \A i \in DOMAIN s.args :
       s.args[i].op \in Operators /\ Fits(s.args[i].l.val) /\ Fits(s.args[i].r.val)
  /\ s.target # "" <=> s.kind \in {"assign", "aug", "for"}
  /\ s.kind = "aug" => s.args[1].l.id = s.target
  /\ s.kind \notin {"if", "while"} => \A i \in DOMAIN s.args : s.args[i].op \notin {"lt", "gt", "eq"}

ASSUME ProgramsAssumption ==
  \A p \in Programs :
    /\ p.json \in BOOLEAN
    /\ Encloses(Within(p.body), p.body)
    /\ \A s \in Within(p.body) :
         TypedStmt(s) /\ Encloses(Within(s.body), s.body) /\ Encloses(Within(s.orelse), s.orelse)

-----------------------------------------------------------------------------
(* The builder: [blocks, at, cells, locals].                               *)

Build(g, instrs) == [g EXCEPT !.blocks[g.at] = @ \o instrs]
PositionAt(g, b) == [g EXCEPT !.at = b]
AppendBlocks(g)  == [g EXCEPT !.blocks = @ \o << <<>>, <<>>, <<>> >>]

\* get_terminator of the insert block: its last instruction, if it is one.
Terminated(g) ==
  LET b == g.blocks[g.at] IN b # <<>> /\ b[Len(b)].op \in Terminators

NewCells(g, k)   == [g EXCEPT !.cells = @ + k]
GetLocal(g, x)   == g.locals[x]
HasLocal(g, x)   == x \in DOMAIN g.locals
SetLocal(g, x, c) ==
  [g EXCEPT !.locals = [y \in DOMAIN g.locals \cup {x} |->
                          IF y = x THEN c ELSE g.locals[y]]]

\* emit_expression: every name is loaded from its slot.
Resolve(g, a)    == IF a.id = "" THEN Operand(0, a.val) ELSE Slot(GetLocal(g, a.id))
Emitted(g, e)    == Expr(e.op, Resolve(g, e.l), Resolve(g, e.r))

\* The expressions of s only name what has a slot.
Evaluated(g, s)  == \A x \in ArgNames(s) : HasLocal(g, x)

\* A new slot for x, with the value of e in it.
BindSlot(g, x, e) ==
  LET h == NewCells(g, 1)
  IN  SetLocal(Build(h, <<Alloca(h.cells), Store(h.cells, e)>>), x, h.cells)

\* As BranchUnlessTerminated, but a block that ends in a jump is closed again.
BranchAlways(g, b) == Build(g, <<Br(b)>>)

BranchUnlessTerminated(g, b) == IF Terminated(g) THEN g ELSE Build(g, <<Br(b)>>)

-----------------------------------------------------------------------------
(* The statements.                                                         *)

EmitAssign(g, s) ==
  LET e == Emitted(g, s.args[1])
  IN  IF HasLocal(g, s.target) THEN Build(g, <<Store(GetLocal(g, s.target), e)>>)
      ELSE BindSlot(g, s.target, e)

\* As EmitAugAssign, with the value spilled to a slot of its own.
EmitAugAssignSpilled(g, s) ==
  LET h == NewCells(g, 1)
  IN  Build(h, <<Alloca(h.cells), Store(h.cells, Emitted(g, s.args[1])),
                 Store(GetLocal(g, s.target), Value(Slot(h.cells)))>>)

\* The target has a slot already: it is the left operand of the expression.
EmitAugAssign(g, s) == Build(g, <<Store(GetLocal(g, s.target), Emitted(g, s.args[1]))>>)

\* Blocks then, else and merge.
EmitIf(g, s) ==
  LET n == Len(g.blocks)
  IN  PositionAt(Build(AppendBlocks(g), <<CondBr(Emitted(g, s.args[1]), n + 1, n + 2)>>), n + 1)

\* Blocks cond, body and exit; e is tested in cond.
OpenLoop(g, e) ==
  LET cond == Len(g.blocks) + 1
      head == PositionAt(Build(AppendBlocks(g), <<Br(cond)>>), cond)
  IN  PositionAt(Build(head, <<CondBr(e, cond + 1, cond + 2)>>), cond + 1)

EmitWhile(g, s) == OpenLoop(g, Emitted(g, s.args[1]))

\* range(start, stop, step) is evaluated into registers, once; the counter
\* has a slot of its own even if the target already had one.
EmitRange(g, s) ==
  LET c == g.cells
  IN  SetLocal(Build(NewCells(g, 4),
                     <<Let(c + 1, Emitted(g, s.args[1])), Let(c + 2, Emitted(g, s.args[2])),
                       Let(c + 3, Emitted(g, s.args[3])),
                       Alloca(c + 4), Store(c + 4, Value(Slot(c + 1)))>>),
               s.target, c + 4)

EmitFor(g, s) ==
  LET h == EmitRange(g, s) IN OpenLoop(h, Expr("lt", Slot(h.cells), Slot(h.cells - 2)))

\* The end of a for: the counter, in cell c, moves on to the next round.
EmitNext(g, c, cond) ==
  IF Terminated(g) THEN g
  ELSE Build(g, <<Store(c, Expr("add", Slot(c), Slot(c - 1))), Br(cond)>>)

\* A scalar function that may fall off its end returns zero there.
EmitFallOff(g) == IF Terminated(g) THEN g ELSE Build(g, <<Ret(NoValue)>>)

-----------------------------------------------------------------------------
(* The calls of the emitters.  A frame emits body from statement i on; the *)
(* end of body jumps to block to, and goes on in block exit: with orelse   *)
(* after the first branch of an if, else with the statement after it.      *)

Frame(kind, body, orelse, to, exit, cell) ==
  [kind |-> kind, body |-> body, i |-> 1, orelse |-> orelse, to |-> to, exit |-> exit, cell |-> cell]

BodyFrame(p) == Frame("body", p.body, <<>>, 1, 1, 0)

\* In the blocks EmitIf and OpenLoop append to those of g.
ThenFrame(g, s) ==
  LET n == Len(g.blocks) IN Frame("then", s.body, s.orelse, n + 3, n + 2, 0)
LoopFrame(g, s, cell) ==
  LET n == Len(g.blocks) IN Frame(s.kind, s.body, <<>>, n + 1, n + 3, cell)

ElseFrame(f) == [f EXCEPT !.kind = "else", !.body = f.orelse, !.i = 1, !.exit = f.to]

-----------------------------------------------------------------------------
VARIABLES
  prog,   \* the function
  build,  \* its blocks so far
  frames  \* the emitters at work, the innermost last

emitter == <<prog, build, frames>>

\* The entry block binds the parameter.
EntryBuild ==
  BindSlot([blocks |-> << <<>> >>, at |-> 1, cells |-> 1, locals |-> [x \in {} |-> 0]],
           "n", Value(Slot(1)))

CompilerInit ==
  /\ MachineInit
  /\ prog \in Programs
  /\ build = EntryBuild
  /\ frames = <<BodyFrame(prog)>>

\* Type inference lets the function through or not.
Infer ==
  /\ phase = "infer"
  /\ phase' \in {"codegen", "infer_failed"}
  /\ UNCHANGED <<emitter, code, input, pc, slots, mem, result>>

Top    == frames[Len(frames)]
Below  == SubSeq(frames, 1, Len(frames) - 1)
Here   == Top.body[Top.i]
Passed == [frames EXCEPT ![Len(frames)].i = @ + 1]

Builds(g, fs) ==
  /\ build' = g /\ frames' = fs
  /\ UNCHANGED <<prog, machine>>

AtStmt(kind) ==
  /\ phase = "codegen" /\ Top.i \in DOMAIN Top.body
  /\ Here.kind = kind /\ Evaluated(build, Here)

AtEnd(kind) ==
  /\ phase = "codegen" /\ Top.i \notin DOMAIN Top.body
  /\ Top.kind = kind

AssignStmt    == AtStmt("assign") /\ Builds(EmitAssign(build, Here), Passed)
AugAssignStmt == AtStmt("aug") /\ Builds(EmitAugAssign(build, Here), Passed)

IfStmt ==
  AtStmt("if") /\ Builds(EmitIf(build, Here), Append(Passed, ThenFrame(build, Here)))

WhileStmt ==
  AtStmt("while") /\ Builds(EmitWhile(build, Here), Append(Passed, LoopFrame(build, Here, 0)))

ForStmt ==
  AtStmt("for") /\ Builds(EmitFor(build, Here),
                          Append(Passed, LoopFrame(build, Here, build.cells + 4)))

\* The loop stack of the context: the loops among the frames.
LoopsOpen == {i \in DOMAIN frames : frames[i].kind \in {"while", "for"}}

\* As CurrentLoop, for the outermost loop.
OutermostLoop == frames[CHOOSE i \in LoopsOpen : \A j \in LoopsOpen : i <= j]
CurrentLoop   == frames[CHOOSE i \in LoopsOpen : \A j \in LoopsOpen : j <= i]

\* As JumpTarget, with the two blocks in the wrong order.
JumpTargetSwapped(kind) == IF kind = "break" THEN CurrentLoop.to ELSE CurrentLoop.exit
JumpTarget(kind)        == IF kind = "break" THEN CurrentLoop.exit ELSE CurrentLoop.to

\* break and continue leave for a block of the innermost loop.
JumpStmt ==
  \E kind \in {"break", "continue"} :
    /\ AtStmt(kind) /\ LoopsOpen # {}
    /\ Builds(Build(build, <<Br(JumpTarget(kind))>>), Passed)

\* A dict has no emit_expression: see DictReturned.
ReturnStmt ==
  /\ AtStmt("return") /\ ~prog.json
  /\ Builds(Build(build, <<Ret(Emitted(build, Here.args[1]))>>), Passed)

ThenEnd ==
  AtEnd("then") /\ Builds(PositionAt(BranchUnlessTerminated(build, Top.to), Top.exit),
                          Append(Below, ElseFrame(Top)))

ElseOrWhileEnd ==
  /\ AtEnd("else") \/ AtEnd("while")
  /\ Builds(PositionAt(BranchUnlessTerminated(build, Top.to), Top.exit), Below)

ForEnd ==
  AtEnd("for") /\ Builds(PositionAt(EmitNext(build, Top.cell, Top.to), Top.exit), Below)

HandsOver(g) ==
  /\ build' = g
  /\ code' = [blocks |-> g.blocks, cells |-> g.cells]
  /\ phase' = "verify"
  /\ UNCHANGED <<prog, frames, input, pc, slots, mem, result>>

FunctionEnd == AtEnd("body") /\ ~prog.json /\ HandsOver(EmitFallOff(build))

\* A JSON function is emitted up to the first return of its own block.
DictReturned ==
  /\ AtStmt("return") /\ prog.json /\ Top.kind = "body"
  /\ HandsOver(Build(build, <<Ret(Emitted(build, Here.args[1]))>>))

\* An error anywhere ends the emission: an unknown name, a jump outside a loop,
\* a dict returned from within a statement, or from nowhere.
Fail ==
  /\ \/ phase = "codegen" /\ Top.i \in DOMAIN Top.body /\ ~Evaluated(build, Here)
     \/ (AtStmt("break") \/ AtStmt("continue")) /\ LoopsOpen = {}
     \/ AtStmt("return") /\ prog.json /\ Top.kind # "body"
     \/ AtEnd("body") /\ prog.json
  /\ phase' = "codegen_failed"
  /\ UNCHANGED <<emitter, code, input, pc, slots, mem, result>>

EmitStep ==
  \/ AssignStmt \/ AugAssignStmt \/ IfStmt \/ WhileStmt \/ ForStmt \/ JumpStmt \/ ReturnStmt
  \/ ThenEnd \/ ElseOrWhileEnd \/ ForEnd
  \/ FunctionEnd \/ DictReturned \/ Fail

CompilerNext ==
  \/ Infer
  \/ EmitStep
  \/ (Verify \/ (\E n \in Inputs : Enter(n)) \/ Exec) /\ UNCHANGED emitter

CompilerSpec == CompilerInit /\ [][CompilerNext]_<<emitter, machine>>

-----------------------------------------------------------------------------
(* Properties.                                                             *)

\* Whatever function is compiled, the blocks handed to the verifier are well
\* formed: typed instructions that jump within the function, each with a result
\* of its own, and every slot is filled as soon as it is made.
BuildsForTheMachine == MachineSpec

Loops(b)    == {s \in Within(b) : s.kind = "for"}
Assigned(b) == {s.target : s \in {t \in Within(b) : t.kind \in {"assign", "aug"}}}

\* Names assigned in branches and loops are assigned before all of them.
Hoisted(b) ==
  LET compound == {i \in DOMAIN b : b[i].kind \in {"if", "while", "for"}}
      before   == {i \in DOMAIN b : \A j \in compound : i < j}
      nested   == UNION {Assigned(b[i].body) \cup Assigned(b[i].orelse) : i \in compound}
  IN  nested \subseteq {"n"} \cup {b[i].target : i \in before}

\* A for in a loop makes a slot for its counter in every round.
LoopsFlat(b) ==
  \A s \in {t \in Within(b) : t.kind \in {"while", "for"}} : Loops(s.body) = {}

\* The native stack stays bounded however many rounds a loop takes: no slot is
\* allocated twice in a call of a function whose nested assignments are hoisted
\* and which has no for in a loop.  (Other slots are allocated where the name
\* was first assigned, as often as a call passes there.)
StackBounded ==
  (phase = "running" /\ Current.op = "alloca" /\ Current.cell \in slots) =>
    ~ (Hoisted(prog.body) /\ LoopsFlat(prog.body))
=============================================================================
