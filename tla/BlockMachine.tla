----------------------------- MODULE BlockMachine -----------------------------
(***************************************************************************)
(* Basic blocks as the code generator hands them to LLVM: the verifier     *)
(* looks at them (celer-codegen/src/compiler.rs), and a call executes      *)
(* them.  Emitters is this machine with the blocks of a Python function;   *)
(* alone it runs any blocks a builder can make.                            *)
(*                                                                         *)
(* A cell is a stack slot (alloca) or a register (let).  An operand is a   *)
(* cell or, with cell 0, a literal; cell 1 is the argument itself, defined *)
(* outside the blocks.                                                     *)
(***************************************************************************)
EXTENDS IntOperators, Sequences

CONSTANT Inputs  \* the values of the argument

ASSUME InputsAssumption == \A n \in Inputs : Fits(n)

Operand(cell, val)       == [cell |-> cell, val |-> val]
Slot(cell)               == Operand(cell, 0)
Value(operand)           == Expr("atom", operand, operand)
Instr(op, cell, e, to)   == [op |-> op, cell |-> cell, e |-> e, to |-> to]
NoValue                  == Value(Operand(0, 0))

Alloca(c)        == Instr("alloca", c, NoValue, <<>>)
Let(c, e)        == Instr("let", c, e, <<>>)
Store(c, e)      == Instr("store", c, e, <<>>)
Br(b)            == Instr("br", 0, NoValue, <<b>>)
CondBr(e, b, c)  == Instr("cbr", 0, e, <<b, c>>)
Ret(e)           == Instr("ret", 0, e, <<>>)

Terminators == {"br", "cbr", "ret"}

-----------------------------------------------------------------------------
(* The LLVM verifier, as far as these blocks can displease it.             *)

Successors(blocks, b) ==
  LET to == blocks[b][Len(blocks[b])].to IN {to[i] : i \in DOMAIN to}

\* The blocks reached from those of seen without entering avoid: no path needs
\* more steps than there are blocks.
Reachable(blocks, seen, avoid) ==
  LET after[k \in 0..Len(blocks)] ==
        IF k = 0 THEN seen
        ELSE LET reached == after[k - 1]
             IN  reached \cup ((UNION {Successors(blocks, b) : b \in reached}) \ avoid)
  IN  after[Len(blocks)]

CellsUsed(i) ==
  ({i.e.l.cell, i.e.r.cell} \cup (IF i.op = "store" THEN {i.cell} ELSE {})) \ {0, 1}

Definitions(blocks, c) ==
  {d \in UNION {{b} \X DOMAIN blocks[b] : b \in DOMAIN blocks} :
     blocks[d[1]][d[2]].op \in {"alloca", "let"} /\ blocks[d[1]][d[2]].cell = c}

WellClosed(block) ==
  /\ block # <<>>
  /\ \A k \in DOMAIN block : block[k].op \in Terminators <=> k = Len(block)

\* The blocks that paths from the entry reach without passing block a.
Around(blocks, a) == Reachable(blocks, {1} \ {a}, {a})

\* Every path from the entry to a use goes through the definition.
UsesDominated(blocks) ==
  \A b \in Reachable(blocks, {1}, {}) : \A k \in DOMAIN blocks[b] :
    \A c \in CellsUsed(blocks[b][k]) :
      \E d \in Definitions(blocks, c) :
        \/ d[1] = b /\ d[2] < k
        \/ d[1] # b /\ b \notin Around(blocks, d[1])

\* As Verifies, but without the check of dominance.
VerifiesShape(blocks) == \A b \in DOMAIN blocks : WellClosed(blocks[b])

Verifies(blocks) ==
  /\ \A b \in DOMAIN blocks : WellClosed(blocks[b])
  /\ UsesDominated(blocks)

-----------------------------------------------------------------------------
(* What a builder can make at all: typed instructions, each with a result  *)
(* of its own, that jump within the function and store to stack slots; and *)
(* what this one does besides: it fills a slot as soon as it has one.      *)

Operators == {"atom", "add", "sub", "floordiv", "mod", "lt", "gt", "eq"}

Instrs(code) ==
  LET Operands == [cell : 0..code.cells, val : (-MaxInt - 1)..MaxInt]
  IN  [op : {"alloca", "let", "store"} \cup Terminators, cell : 0..code.cells,
       e : [op : Operators, l : Operands, r : Operands], to : Seq(DOMAIN code.blocks)]

Targeted(i) ==
  /\ i.op = "br" => Len(i.to) = 1
  /\ i.op = "cbr" => Len(i.to) = 2
  /\ i.op \in {"alloca", "let", "store"} => i.cell \notin {0, 1}

DefinedOnce(blocks, c) == \A d, e \in Definitions(blocks, c) : d = e

StoresToSlots(blocks, i) ==
  i.op = "store" => \A d \in Definitions(blocks, i.cell) : blocks[d[1]][d[2]].op = "alloca"

FilledAtOnce(block, k) ==
  block[k].op = "alloca" =>
    /\ k + 1 \in DOMAIN block
    /\ block[k + 1].op = "store" /\ block[k + 1].cell = block[k].cell
    /\ block[k].cell \notin {block[k + 1].e.l.cell, block[k + 1].e.r.cell}

WellFormed(code) ==
  /\ code.cells \in Nat \ {0}
  /\ code.blocks # <<>> /\ code.blocks \in Seq(Seq(Instrs(code)))
  /\ \A c \in 0..code.cells : DefinedOnce(code.blocks, c)
  /\ \A b \in DOMAIN code.blocks : \A k \in DOMAIN code.blocks[b] :
       /\ Targeted(code.blocks[b][k])
       /\ StoresToSlots(code.blocks, code.blocks[b][k])
       /\ FilledAtOnce(code.blocks[b], k)

-----------------------------------------------------------------------------
(* Arithmetic: what the instructions of emit_expr.rs compute.              *)

Wrap(v) == ((v + MaxInt + 1) % (2 * MaxInt + 2)) - MaxInt - 1

Magnitude(v) == IF v < 0 THEN -v ELSE v

\* sdiv, where it is defined.
Quotient(l, r) ==
  LET q == Magnitude(l) \div Magnitude(r) IN IF (l < 0) = (r < 0) THEN q ELSE -q

NativeOp(op, l, r) ==
  CASE op = "atom"     -> l
    [] op = "add"      -> Wrap(l + r)
    [] op = "sub"      -> Wrap(l - r)
    [] op = "floordiv" -> IF r = 0 THEN 0 ELSE Wrap(Quotient(l, r))
    [] op = "mod"      -> IF r = 0 THEN l ELSE l - r * Quotient(l, r)
    [] OTHER           -> Compare(op, l, r)

\* sdiv and srem are undefined by zero and where the quotient does not fit.
Undefined(op, l, r) ==
  op \in {"floordiv", "mod"} /\ (r = 0 \/ (l = -MaxInt - 1 /\ r = -1))

-----------------------------------------------------------------------------
VARIABLES
  phase,  \* how far the function is
  code,   \* what the builder made: its blocks, and the number of its cells
  input,  \* the argument of the call
  pc,     \* [block, index] of the next instruction
  slots,  \* the stack slots allocated by the call
  mem,    \* the cells written since they were allocated
  result  \* what the call returned

machine == <<phase, code, input, pc, slots, mem, result>>

NotCalled ==
  /\ input = 0
  /\ pc = [block |-> 1, index |-> 1]
  /\ slots = {}
  /\ mem = [c \in {} |-> 0]
  /\ result = 0

\* Until the builder hands over its blocks it may go on or give up.
Prepare ==
  /\ \/ phase = "infer" /\ phase' \in {"codegen", "infer_failed"}
     \/ phase = "codegen" /\ phase' = "codegen_failed"
  /\ UNCHANGED <<code, input, pc, slots, mem, result>>

\* The builder hands over its blocks.
Emit ==
  /\ phase = "codegen"
  /\ WellFormed(code')
  /\ phase' = "verify"
  /\ UNCHANGED <<input, pc, slots, mem, result>>

Verify ==
  /\ phase = "verify"
  /\ phase' = IF Verifies(code.blocks) THEN "ready" ELSE "verify_failed"
  /\ UNCHANGED <<code, input, pc, slots, mem, result>>

\* The caller's argument is cell 1.
Enter(n) ==
  /\ phase = "ready"
  /\ phase' = "running"
  /\ input' = n
  /\ mem' = [c \in {1} |-> n]
  /\ UNCHANGED <<code, pc, slots, result>>

Current == code.blocks[pc.block][pc.index]
Load(o) == IF o.cell = 0 THEN o.val ELSE mem[o.cell]
Computed(e) == NativeOp(e.op, Load(e.l), Load(e.r))
Written(c, v) == [d \in DOMAIN mem \cup {c} |-> IF d = c THEN v ELSE mem[d]]
Advance == pc' = [pc EXCEPT !.index = @ + 1]
Goto(b) == pc' = [block |-> b, index |-> 1]

\* Each execution of an alloca is a new slot with nothing in it.
ExecAlloca ==
  /\ phase = "running" /\ Current.op = "alloca"
  /\ slots' = slots \cup {Current.cell}
  /\ mem' = [c \in DOMAIN mem \ {Current.cell} |-> mem[c]]
  /\ Advance
  /\ UNCHANGED <<phase, code, input, result>>

ExecWrite ==
  /\ phase = "running" /\ Current.op \in {"let", "store"}
  /\ mem' = Written(Current.cell, Computed(Current.e))
  /\ Advance
  /\ UNCHANGED <<phase, code, input, slots, result>>

ExecBranch ==
  /\ phase = "running" /\ Current.op \in {"br", "cbr"}
  /\ IF Current.op = "br" \/ Computed(Current.e) # 0
     THEN Goto(Current.to[1])
     ELSE Goto(Current.to[2])
  /\ UNCHANGED <<phase, code, input, slots, mem, result>>

ExecReturn ==
  /\ phase = "running" /\ Current.op = "ret"
  /\ result' = Computed(Current.e)
  /\ phase' = "returned"
  /\ UNCHANGED <<code, input, pc, slots, mem>>

\* A division sdiv leaves undefined kills the process on x86-64; on AArch64
\* it goes on with the value NativeOp gives it.
ExecTrap ==
  /\ phase = "running"
  /\ Undefined(Current.e.op, Load(Current.e.l), Load(Current.e.r))
  /\ phase' = "trapped"
  /\ UNCHANGED <<code, input, pc, slots, mem, result>>

Exec == ExecAlloca \/ ExecWrite \/ ExecBranch \/ ExecReturn \/ ExecTrap

\* The machine by itself.
MachineInit ==
  /\ phase = "infer"
  /\ code = [blocks |-> << <<>> >>, cells |-> 1]
  /\ NotCalled

MachineNext == Prepare \/ Emit \/ Verify \/ (\E n \in Inputs : Enter(n)) \/ Exec

MachineSpec == MachineInit /\ [][MachineNext]_machine

-----------------------------------------------------------------------------
(* Properties.                                                             *)

\* The state of the machine is well formed: what the builder made is, and every
\* value fits its width.
MachineTypeOK ==
  /\ phase = "verify" => WellFormed(code)
  /\ input \in Inputs \cup {0}
  /\ pc \in [block : DOMAIN code.blocks, index : Nat]
  /\ pc.index \in DOMAIN code.blocks[pc.block] \cup {1}
  /\ slots \subseteq 1..code.cells
  /\ DOMAIN mem \subseteq 1..code.cells
  /\ \A c \in DOMAIN mem : Fits(mem[c])
  /\ Fits(result)

\* In verified code an instruction only reads cells that were written and only
\* stores to slots that were allocated, on every path.
MemorySafe ==
  phase = "running" =>
    /\ {Current.e.l.cell, Current.e.r.cell} \ {0} \subseteq DOMAIN mem
    /\ Current.op = "store" => Current.cell \in slots
=============================================================================
