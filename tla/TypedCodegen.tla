---------------------------- MODULE TypedCodegen ----------------------------
(***************************************************************************)
(* celer-codegen on functions of every type: which values, slots and calls *)
(* it emits, and what they compute.  The walk over an expression is        *)
(* written once.  As the compiler goes over it (run = FALSE) a value has a *)
(* kind and no number, and "fails" is an Err, a panic on a value of        *)
(* another class, or code the verifier refuses.  As the machine does (run) *)
(* it has both, and "junk" is what LLVM leaves undefined.  Texts, lists,   *)
(* tuples and null are pointers alike.                                     *)
(***************************************************************************)
EXTENDS Compilability, PlainPython

Fails == Value("fails", Zero)
Junk  == Value("junk", Zero)

Ints     == {"int", "bool"}
Pointers == {"text", "list", "tuple", "null"}
\* The LLVM type of a kind.
Llvm(kind) == IF kind \in Pointers THEN "ptr" ELSE kind
Bytes(kind) == IF kind = "bool" THEN 1 ELSE 8

\* resolve_type: "void" for None, "fails" for Err.
KindOf(ty) ==
  CASE Head(ty) = "Int"   -> "int"
    [] Head(ty) = "Float" -> "float"
    [] Head(ty) = "Bool"  -> "bool"
    [] Head(ty) = "Str"   -> "text"
    [] Head(ty) = "List"  -> "list"
    [] Head(ty) = "Tuple" -> "tuple"
    [] Head(ty) \in {"None", "Dict"} -> "void"
    [] OTHER              -> "fails"
IsJsonReturn(ty) == Head(ty) = "Dict"

\* A number a kind cannot hold is cut to its width.
Wrap(n)   == Signed(n % 2 ^ Width)
Fit(kind, n) == Value(kind, Whole(IF kind = "bool" THEN n % 2 ELSE Wrap(n)))
OrJunk(n) == IF n \in (-MaxInt - 1)..MaxInt THEN Value("int", Whole(n)) ELSE Junk
Quotient(a, b) == IF (a < 0) = (b < 0) THEN Magnitude(a) \div Magnitude(b)
                  ELSE -(Magnitude(a) \div Magnitude(b))
\* str of a number: the length of its digits.
Digits(num) == Whole(IF num[1] < 0 THEN 2 ELSE 1)

-----------------------------------------------------------------------------
(* Operators.  The kind follows from those of the operands alone.          *)

BinaryKind(op, l, r, ty) ==
  CASE op = "add" /\ l \in Pointers -> "text"
    [] op \in {"add", "sub", "mul", "floordiv", "mod"} /\ ~ (op = "add" /\ l \in Pointers) ->
         IF l = r /\ l \in Ints \cup {"float"} THEN l ELSE "fails"
    [] op = "div" -> IF {l, r} \subseteq Ints \/ {l, r} = {"float"} THEN "float" ELSE "fails"
    [] op = "pow" -> IF {l, r} \subseteq Ints THEN (IF ty = <<"Int">> THEN "int" ELSE "float")
                     ELSE IF {l, r} = {"float"} THEN "float" ELSE "fails"
    [] op \in Comparisons ->
         IF \/ l \in Pointers /\ r \in Pointers /\ op \in {"eq", "noteq"}
            \/ l = r /\ l \notin Pointers THEN "bool" ELSE "fails"
    [] OTHER -> IF l = r /\ l \in Ints THEN l ELSE "fails"

\* Of two integers of one kind.
BinaryInt(op, kind, a, b) ==
  CASE op \in {"add", "sub", "mul"} -> Fit(kind, Arithmetic(op, Whole(a), Whole(b))[1])
    [] op = "floordiv" -> IF b = 0 THEN Junk ELSE OrJunk(Quotient(a, b))
    [] op = "mod"      -> IF b = 0 THEN Junk ELSE OrJunk(a - b * Quotient(a, b))
    [] op \in {"lshift", "rshift"} ->
         IF b \notin 0..(Width - 1) THEN Junk
         ELSE Fit(kind, IF op = "lshift" THEN a * 2 ^ b ELSE a \div 2 ^ b)
    [] op \in {"and", "bitand"} -> Fit(kind, Bits("bitand", a, b))
    [] op \in {"or", "bitor"}   -> Fit(kind, Bits("bitor", a, b))
    [] op = "bitxor"            -> Fit(kind, Bits("bitxor", a, b))

\* pow goes through floats; an infinity is no number.
Power(l, r, kind) ==
  IF r[2] # 1 \/ (r[1] < 0 /\ l[1] = 0) THEN Junk
  ELSE LET p == Arithmetic("pow", IF r[1] < 0 THEN Ratio(l[2], l[1]) ELSE l, Whole(Magnitude(r[1])))
       IN  IF kind = "int" THEN OrJunk(Truncated(p)) ELSE Value("float", p)

\* // does not round, % is fmod.
FloatValue(op, a, b) ==
  CASE op \in {"div", "floordiv", "mod"} /\ b = Zero -> Junk
    [] op = "floordiv" /\ b # Zero -> Value("float", Arithmetic("div", a, b))
    [] op = "mod" /\ b # Zero      ->
         LET rounds == Truncated(Arithmetic("div", a, b))
         IN  Value("float", Arithmetic("sub", a, Arithmetic("mul", b, Whole(rounds))))
    [] OTHER -> Value("float", Arithmetic(op, a, b))

\* strcmp wants two texts, and snprintf's %s%s.
BinaryPointer(op, l, r) ==
  CASE l.ty # "text" \/ r.ty # "text" -> Junk
    [] OTHER -> IF op = "add" THEN Value("text", Arithmetic("add", l.num, r.num))
                ELSE ToBool(Compared(op, l.num, r.num))

BinaryValue(op, l, r, kind) ==
  CASE l.ty \in Pointers -> BinaryPointer(op, l, r)
    [] l.ty \notin Pointers /\ op \in Comparisons ->
         LET Of(v) == IF v.ty = "bool" THEN Whole(-v.num[1]) ELSE v.num
         IN  ToBool(Compared(op, Of(l), Of(r)))
    [] op = "pow" /\ l.ty \notin Pointers -> Power(l.num, r.num, kind)
    [] l.ty \notin Pointers /\ (op = "div" \/ l.ty = "float") /\ op \notin Comparisons \cup {"pow"} ->
         FloatValue(op, l.num, r.num)
    [] OTHER -> BinaryInt(op, l.ty, l.num[1], r.num[1])

UnaryKind(op, kind) ==
  CASE op = "pos" -> kind
    [] op = "neg" -> IF kind \in Pointers THEN "fails" ELSE kind
    [] OTHER      -> IF kind \in Ints THEN kind ELSE "fails"
UnaryValue(op, v) ==
  CASE op = "pos" -> v
    [] op = "neg" -> IF v.ty = "float" THEN Value("float", <<-v.num[1], v.num[2]>>)
                     ELSE Fit(v.ty, -v.num[1])
    [] OTHER      -> Fit(v.ty, -v.num[1] - 1)

\* emit_builtin_call: len looks at the type the argument was given.
BuiltinKind(f, e, kind) ==
  CASE f = "len"   -> IF kind \in Pointers \/ Head(e.ty) = "Tuple" THEN "int" ELSE "fails"
    [] f = "str"   -> "text"
    [] f = "int"   -> IF kind = "bool" THEN kind ELSE "int"
    [] f = "float" -> "float"
    [] f = "bool"  -> "bool"
BuiltinValue(f, e, v) ==
  CASE f = "len" /\ Head(e.ty) = "Tuple" -> Value("int", Whole(Len(e.ty) - 1))
    [] f = "len" /\ Head(e.ty) # "Tuple" ->
         IF v.ty = (IF Head(e.ty) = "List" THEN "list" ELSE "text") THEN Value("int", v.num) ELSE Junk
    [] f = "str"  -> IF v.ty \in Pointers THEN v ELSE Value("text", Digits(v.num))
    [] f = "bool" -> IF v.ty \in Pointers \ {"text"} THEN Junk ELSE ToBool(v.num # Zero)
    \* No text of the one letter is a number.
    [] f \in {"int", "float"} /\ v.ty \in Pointers ->
         IF v.ty = "text" THEN Value(f, Zero) ELSE Junk
    [] f = "int" /\ v.ty \notin Pointers -> IF v.ty = "float" THEN OrJunk(Truncated(v.num)) ELSE v
    [] f = "float" /\ v.ty \notin Pointers ->
         Value("float", IF v.ty = "bool" THEN <<-v.num[1], 1>> ELSE v.num)

-----------------------------------------------------------------------------
(* Expressions.  A module is the sequence of its functions' HIR; the code  *)
(* of one may call those before it and itself.                             *)

\* Slots: what a name's alloca was made for, what it holds (of no interest to
\* the compiler), and whether the alloca dominates the code being emitted.
Slot(kind, value, live) == [kind |-> kind, value |-> value, live |-> live]

Load(run, slots, e) ==
  LET kind == KindOf(e.ty)
  IN  IF e.id \notin DOMAIN slots \/ kind \in {"void", "fails"} THEN Fails
      ELSE IF ~ slots[e.id].live THEN Fails
      ELSE IF ~ run THEN Value(kind, Zero)
      ELSE IF Llvm(slots[e.id].value.ty) = Llvm(kind) THEN slots[e.id].value ELSE Junk

\* The first definition of a name among the functions given: LLVM gives the
\* later ones other names.
Function(fs, x) ==
  fs[CHOOSE i \in DOMAIN fs : fs[i].target = x /\ \A j \in DOMAIN fs : fs[j].target = x => i <= j]

\* A function that returns nothing, or JSON, has no value to give.
CallKind(f, kinds) ==
  IF /\ KindOf(f.ty) \notin {"void", "fails"}
     /\ Len(kinds) = Len(f.params)
     /\ \A i \in DOMAIN kinds : Llvm(kinds[i]) = Llvm(KindOf(f.params[i].ty))
  THEN KindOf(f.ty) ELSE "fails"

\* A list or tuple literal whose elements are those of its type.
ElementsStore(e, vs) ==
  \A i \in DOMAIN vs : LET ty == e.ty[IF e.kind = "list" THEN 2 ELSE i + 1]
                       IN  Llvm(vs[i].ty) = Llvm(KindOf(ty))
Elements(e) == \A i \in 2..Len(e.ty) : KindOf(e.ty[i]) \notin {"void", "fails"}

IsCallOf(e, names) == e.kind = "call" /\ e.parts[1].kind = "name" /\ e.parts[1].id \in names
Positional(e)      == SelectSeq(Tail(e.parts), LAMBDA p : p.kind # "keyword")

RECURSIVE Emit(_, _, _, _), Invoke(_, _, _), Run(_, _, _)

\* emit_expression, and the code it emits.
Emit(run, fs, slots, e) ==
  LET parts == IF e.kind = "call" THEN Positional(e) ELSE e.parts
      skip  == IsCallOf(e, {"len"}) /\ parts # <<>> /\ Head(parts[1].ty) = "Tuple"
      vs    == [i \in DOMAIN parts |-> IF skip THEN Value("tuple", Zero)
                                       ELSE Emit(run, fs, slots, parts[i])]
      stops == {i \in DOMAIN vs : vs[i].ty \in {"fails", "junk"}}
      kinds == [i \in DOMAIN vs |-> vs[i].ty]
      Make(kind, value) == IF kind = "fails" THEN Fails ELSE IF run THEN value ELSE Value(kind, Zero)
  IN  CASE e.kind \in {"int", "float", "bool"} -> Value(e.kind, IF run THEN e.num ELSE Zero)
        [] e.kind = "str"  -> Value("text", IF run THEN e.num ELSE Zero)
        [] e.kind = "none" -> Value("null", Zero)
        [] e.kind = "name" -> Load(run, slots, e)
        [] e.kind \notin {"int", "float", "bool", "str", "none", "name"} ->
             CASE stops # {} -> vs[CHOOSE i \in stops : \A j \in stops : i <= j]
               [] OTHER ->
             CASE e.kind = "binop" ->
                    LET kind == BinaryKind(e.id, kinds[1], kinds[2], e.ty)
                    IN  Make(kind, BinaryValue(e.id, vs[1], vs[2], kind))
               [] e.kind = "unary" -> Make(UnaryKind(e.id, kinds[1]), UnaryValue(e.id, vs[1]))
               [] e.kind \in {"list", "tuple"} ->
                    Make(IF Elements(e) THEN e.kind ELSE "fails",
                         IF ElementsStore(e, vs) THEN Value(e.kind, Whole(Len(vs))) ELSE Junk)
               [] IsCallOf(e, Builtins \ {"range"}) ->
                    IF Len(vs) # 1 THEN Fails
                    ELSE Make(BuiltinKind(e.parts[1].id, parts[1], kinds[1]),
                              BuiltinValue(e.parts[1].id, parts[1], vs[1]))
               [] IsCallOf(e, {fs[i].target : i \in DOMAIN fs} \ (Builtins \ {"range"})) ->
                    Make(CallKind(Function(fs, e.parts[1].id), kinds),
                         Invoke(fs, e.parts[1].id, vs)[1])
               [] OTHER -> Fails

-----------------------------------------------------------------------------
(* The compiler over statements.  ended: the block has its terminator;     *)
(* dead: no path reaches it, so that nothing has to dominate it.           *)

\* What emits nothing is left alone, even after a terminator.
Silent == {"expr", "pass", "assert", "raise", "import", "class", "def", "asyncdef"}

GenStart(slots) == [slots |-> slots, ended |-> FALSE, dead |-> FALSE, ok |-> TRUE]
Refuse(st) == [st EXCEPT !.ok = FALSE]

\* The slots of an inner block do not dominate what follows it.
Outside(slots, before, dead) ==
  [x \in DOMAIN slots |-> [slots[x] EXCEPT !.live = @ /\ (dead \/ (x \in DOMAIN before /\ before[x].live))]]
\* Where nothing has to dominate, every slot will do.
Visible(st) == IF st.dead THEN [x \in DOMAIN st.slots |-> [st.slots[x] EXCEPT !.live = TRUE]] ELSE st.slots

\* The kinds range takes: an integer, save where the counter starts.
StartOr(i, args) == IF i = 1 /\ Len(args) > 1 THEN Ints \cup Pointers \cup {"float"} ELSE {"int"}

RECURSIVE GenBody(_, _, _, _)

\* A block entered from st and left: its end, in the slots of what comes next.
GenBlock(fs, f, st, body) ==
  LET end == GenBody(fs, f, [st EXCEPT !.ended = FALSE], body)
  IN  [end EXCEPT !.slots = Outside(end.slots, st.slots, st.dead)]

GenStmt(fs, f, st, s) ==
  LET Of(e) == Emit(FALSE, fs, Visible(st), e)
      v     == Of(s.exprs[1])
      next  == [st EXCEPT !.slots = (s.target :> Slot(v.ty, Junk, TRUE)) @@ st.slots]
      args  == Positional(s.exprs[1])
      then  == GenBlock(fs, f, st, s.blocks[1])
      else  == GenBlock(fs, f, [st EXCEPT !.slots = then.slots], s.blocks[2])
      round == GenBlock(fs, f, next, s.blocks[1])
  IN  CASE s.kind \in Silent -> st
        [] s.kind \notin Silent /\ (st.ended \/ ~ st.ok) -> Refuse(st)
        [] s.kind = "return" /\ st.ok /\ ~ st.ended ->
             IF IF s.exprs = <<>> THEN KindOf(f.ty) # "void" ELSE Llvm(v.ty) # Llvm(KindOf(f.ty))
             THEN Refuse(st) ELSE [st EXCEPT !.ended = TRUE]
        [] s.kind \in {"assign", "annassign"} /\ st.ok /\ ~ st.ended ->
             IF v = Fails \/ (s.target \in DOMAIN st.slots /\ ~ Visible(st)[s.target].live)
             THEN Refuse(st)
             ELSE IF s.target \in DOMAIN st.slots THEN st ELSE next
        [] s.kind = "if" /\ st.ok /\ ~ st.ended ->
             IF v.ty \in Pointers \cup {"fails"} \/ ~ then.ok \/ ~ else.ok THEN Refuse(st)
             ELSE [st EXCEPT !.slots = else.slots,
                             !.dead = (then.ended \/ then.dead) /\ (else.ended \/ else.dead)]
        [] s.kind = "while" /\ st.ok /\ ~ st.ended ->
             LET body == GenBlock(fs, f, st, s.blocks[1])
             IN  IF v.ty \in Pointers \cup {"fails"} \/ ~ body.ok THEN Refuse(st)
                 ELSE [st EXCEPT !.slots = body.slots]
        [] s.kind = "for" /\ st.ok /\ ~ st.ended ->
             IF \/ ~ IsCallOf(s.exprs[1], {"range"}) \/ Len(args) \notin 1..3
                \/ \E i \in DOMAIN args : Of(args[i]).ty \notin StartOr(i, args)
             THEN Refuse(st)
             ELSE LET counter == [st EXCEPT !.slots = (s.target :> Slot("int", Junk, TRUE)) @@ st.slots]
                      body    == GenBlock(fs, f, counter, s.blocks[1])
                  IN  IF body.ok THEN [st EXCEPT !.slots = body.slots] ELSE Refuse(st)
        [] OTHER -> Refuse(st)

GenBody(fs, f, st, body) ==
  IF body = <<>> THEN st ELSE GenBody(fs, f, GenStmt(fs, f, st, Head(body)), Tail(body))

\* plan_dict: literals, and names of scalars, under literal keys.
Plannable(e, slots) ==
  \A k \in 1..(Len(e.parts) \div 2) :
    /\ e.parts[2 * k - 1].kind = "str"
    /\ LET v == e.parts[2 * k]
       IN  \/ v.kind \in DOMAIN LiteralTypes
           \/ /\ v.kind = "name" /\ Head(v.ty) \in {"Int", "Float", "Str", "Bool"}
              /\ v.id \in DOMAIN slots /\ slots[v.id].live

\* The statements of a JSON function before its first return at the top.
Returns(body)      == {i \in DOMAIN body : body[i].kind = "return" /\ body[i].exprs # <<>>}
FirstReturn(body)  == CHOOSE i \in Returns(body) : \A j \in Returns(body) : i <= j

\* emit_function succeeds, and the verifier accepts it.
Generates(fs, f) ==
  LET body  == f.blocks[1]
      slots == [x \in {f.params[i].name : i \in DOMAIN f.params} |->
                  Slot(KindOf((CHOOSE p \in {f.params[i] : i \in DOMAIN f.params} : p.name = x).ty),
                       Junk, TRUE)]
      Good  == \A i \in DOMAIN f.params : KindOf(f.params[i].ty) \notin {"void", "fails"}
  IN  IF ~ Good THEN FALSE
      ELSE IF ~ IsJsonReturn(f.ty)
      THEN KindOf(f.ty) # "fails" /\ GenBody(fs, f, GenStart(slots), body).ok
      ELSE /\ Returns(body) # {}
           /\ LET i   == FirstReturn(body)
                  end == GenBody(fs, f, GenStart(slots), SubSeq(body, 1, i - 1))
              IN  /\ end.ok /\ ~ end.ended
                  /\ body[i].exprs[1].kind = "dict"
                  /\ Plannable(body[i].exprs[1], Visible(end))

\* compile_module and verify: every function, whatever the analyzer said of it.
CompileModule(body) ==
  LET fs == FunctionsOf(body)
  IN  \A i \in DOMAIN fs : Generates(SubSeq(fs, 1, i), fs[i])

-----------------------------------------------------------------------------
(* The machine over statements.  break, continue and augmented assignment  *)
(* do not occur: the parser drops the last, FunctionCodegen has the others.*)

Quit(st, out, values) == [st EXCEPT !.out = out, !.result = values]

\* A slot made for another kind is overrun or left with a part of the old.
Store(st, x, v) ==
  CASE v.ty \in {"junk", "fails"} -> Quit(st, "junk", <<Junk>>)
    [] x \notin DOMAIN st.slots /\ v.ty \notin {"junk", "fails"} ->
         [st EXCEPT !.slots = (x :> Slot(Llvm(v.ty), v, TRUE)) @@ st.slots]
    [] OTHER -> IF Bytes(v.ty) > Bytes(st.slots[x].kind) THEN Quit(st, "junk", <<Junk>>)
                ELSE [st EXCEPT !.slots[x] = Slot(st.slots[x].kind, v, TRUE)]

RECURSIVE RunFor(_, _, _, _, _)

\* As RunFor, the stop one of the rounds.
RunForThrough(fs, st, s, stop, step) ==
  LET i   == st.slots[s.target].value
      end == Run(fs, st, s.blocks[1])
  IN  IF st.out # "on" \/ i.num[1] > stop THEN st
      ELSE RunFor(fs, Store(end, s.target, Fit("int", i.num[1] + step)), s, stop, step)

\* The rounds of a for, its counter in the slot of its target.
RunFor(fs, st, s, stop, step) ==
  LET i   == st.slots[s.target].value
      end == Run(fs, st, s.blocks[1])
  IN  CASE st.out # "on" -> st
        [] st.out = "on" /\ i.ty # "int" -> Quit(st, "junk", <<Junk>>)
        [] OTHER -> IF i.num[1] >= stop THEN st
                    ELSE IF end.out # "on" THEN end
                    ELSE RunFor(fs, Store(end, s.target,
                                          Fit("int", end.slots[s.target].value.num[1] + step)),
                                s, stop, step)

\* snprintf takes a bool variable for a text.
Printed(e, v) == IF e.kind = "name" /\ v.ty = "bool" THEN Junk ELSE v

RunStmt(fs, st, s) ==
  LET Of(e) == Emit(TRUE, fs, st.slots, e)
      v     == Of(s.exprs[1])
      args  == [i \in DOMAIN Positional(s.exprs[1]) |-> Of(Positional(s.exprs[1])[i])]
      start == IF Len(args) = 1 THEN Value("int", Zero) ELSE args[1]
      stop  == args[IF Len(args) = 1 THEN 1 ELSE 2]
      step  == IF Len(args) = 3 THEN args[3] ELSE Value("int", Whole(1))
  IN  CASE s.kind = "return" ->
             IF s.exprs = <<>> THEN Quit(st, "returned", <<Value("null", Zero)>>)
             ELSE IF s.exprs[1].kind # "dict" THEN Quit(st, "returned", <<v>>)
             ELSE Quit(st, "returned", [k \in 1..(Len(s.exprs[1].parts) \div 2) |->
                                          Printed(s.exprs[1].parts[2 * k], Of(s.exprs[1].parts[2 * k]))])
        [] s.kind \in {"assign", "annassign"} -> Store(st, s.target, v)
        [] s.kind = "if"    -> IF v.ty = "junk" THEN Quit(st, "junk", <<Junk>>)
                               ELSE Run(fs, st, s.blocks[IF v.num # Zero THEN 1 ELSE 2])
        [] s.kind = "while" -> IF v.ty = "junk" THEN Quit(st, "junk", <<Junk>>)
                               ELSE IF v.num = Zero THEN st ELSE Run(fs, st, s.blocks[1] \o <<s>>)
        [] s.kind = "for"   ->
             IF "junk" \in {start.ty, stop.ty, step.ty} THEN Quit(st, "junk", <<Junk>>)
             ELSE RunFor(fs, [st EXCEPT !.slots = (s.target :> Slot("int", start, TRUE)) @@ st.slots],
                         s, stop.num[1], step.num[1])
        [] OTHER -> st

\* The statements in turn, until the function is left.
Run(fs, st, body) ==
  IF body = <<>> \/ st.out # "on" THEN st ELSE Run(fs, RunStmt(fs, st, Head(body)), Tail(body))

\* A call of a function: what it returns, zero at its end.
Invoke(fs, x, args) ==
  LET f     == Function(fs, x)
      slots == [y \in {f.params[i].name : i \in DOMAIN f.params} |->
                  LET i == CHOOSE i \in DOMAIN args : f.params[i].name = y
                  IN  Slot(Llvm(args[i].ty), args[i], TRUE)]
      end   == Run(fs, [slots |-> slots, out |-> "on", result |-> <<>>], f.blocks[1])
  IN  IF end.out # "on" THEN end.result
      ELSE <<IF KindOf(f.ty) \in Ints \cup {"float"} THEN Value(KindOf(f.ty), Zero) ELSE Value("null", Zero)>>
=============================================================================
