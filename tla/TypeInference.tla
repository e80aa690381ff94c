--------------------------- MODULE TypeInference ---------------------------
(***************************************************************************)
(* celer-typeinfer's engine: every expression of a HIR module gets the     *)
(* type its place in the text gives it.  A context is the stack of scopes  *)
(* with the registries of functions (their return types) and of classes    *)
(* (the types of their fields).                                            *)
(***************************************************************************)
EXTENDS Parser, TLC

Nothing    == [x \in {} |-> Unknown]
NewContext == [scopes |-> <<Nothing>>, functions |-> Nothing, classes |-> [x \in {} |-> Nothing]]

PushScope(ctx) == [ctx EXCEPT !.scopes = Append(ctx.scopes, Nothing)]
PopScope(ctx)  == [ctx EXCEPT !.scopes = SubSeq(ctx.scopes, 1, Len(ctx.scopes) - 1)]
Define(ctx, x, ty) == [ctx EXCEPT !.scopes[Len(ctx.scopes)] = (x :> ty) @@ ctx.scopes[Len(ctx.scopes)]]

Holding(ctx, x) == {i \in DOMAIN ctx.scopes : x \in DOMAIN ctx.scopes[i]}
\* The innermost scope that has the name; called for a name some scope has.
Lookup(ctx, x) ==
  ctx.scopes[CHOOSE i \in Holding(ctx, x) : \A j \in Holding(ctx, x) : j <= i][x]

DefineFunction(ctx, x, returns) == [ctx EXCEPT !.functions = (x :> returns) @@ ctx.functions]
DefineClass(ctx, x, fields)     == [ctx EXCEPT !.classes = (x :> fields) @@ ctx.classes]

-----------------------------------------------------------------------------
(* Expressions.                                                            *)

TypeError == Error("type")

\* resolve_binary_op_type, BadType for a mismatch.
BinaryType(op, l, r) ==
  CASE op = "div" -> <<"Float">>
    [] op \in Comparisons \cup {"and", "or"} -> <<"Bool">>
    [] op \in {"bitand", "bitor", "bitxor", "lshift", "rshift"} ->
         IF {l, r} = {<<"Int">>} THEN <<"Int">> ELSE BadType
    [] OTHER ->
         IF {l, r} = {<<"Int">>} THEN <<"Int">>
         ELSE IF {l, r} \subseteq {<<"Int">>, <<"Float">>} THEN <<"Float">>
         ELSE IF {l, r} = {<<"Str">>} /\ op = "add" THEN <<"Str">>
         ELSE BadType

\* resolve_unary_op_type.
UnaryType(op, ty) ==
  CASE op = "not" -> <<"Bool">>
    [] op = "invert" -> IF ty = <<"Int">> THEN ty ELSE BadType
    [] OTHER         -> IF ty \in {<<"Int">>, <<"Float">>} THEN ty ELSE BadType

\* infer_homogeneous_type: the parts i, i + step, ... that are looked at, up to
\* the first whose type is not that of the first one, and the type of all.
Visited(parts, first, step) ==
  LET group == {i \in DOMAIN parts : i >= first /\ (i - first) % step = 0}
  IN  {i \in group : \A j \in group : j < i => parts[j].ty = parts[first].ty}
ElementType(parts, first, step) ==
  LET types == {parts[i].ty : i \in {j \in DOMAIN parts : j >= first /\ (j - first) % step = 0}}
  IN  IF types = {} THEN Unknown ELSE IF Cardinality(types) = 1 THEN parts[first].ty ELSE AnyType

\* The parts the engine goes into: neither a called expression, nor keywords,
\* nor what an f-string holds, nor the generators of a comprehension.
Inferred(e, parts) ==
  CASE e.kind = "call"     -> {i \in DOMAIN parts : i > 1 /\ e.parts[i].kind # "keyword"}
    [] e.kind = "list"     -> Visited(parts, 1, 1)
    [] e.kind = "dict"     -> Visited(parts, 1, 2) \cup Visited(parts, 2, 2)
    [] e.kind = "fstring"  -> {}
    [] e.kind = "listcomp" -> {1}
    [] e.kind = "dictcomp" -> {1, 2}
    [] OTHER               -> DOMAIN parts

CallType(ctx, f) ==
  CASE f.kind # "name"                -> Unknown
    [] f.kind = "name" /\ f.id \in DOMAIN ctx.classes -> <<"Class", f.id>>
    [] f.kind = "name" /\ f.id \in DOMAIN ctx.functions \ DOMAIN ctx.classes ->
         ctx.functions[f.id]
    \* Another name a function was given.
    [] OTHER -> IF Holding(ctx, f.id) # {} /\ Head(Lookup(ctx, f.id)) = "Callable"
                THEN Lookup(ctx, f.id)[2] ELSE Unknown

FieldType(ctx, ty, x) ==
  IF Head(ty) = "Class" /\ ty[2] \in DOMAIN ctx.classes /\ x \in DOMAIN ctx.classes[ty[2]]
  THEN ctx.classes[ty[2]][x] ELSE Unknown

\* The type of a node whose parts have theirs.
NodeType(ctx, e, parts) ==
  CASE e.kind = "binop"     -> BinaryType(e.id, parts[1].ty, parts[2].ty)
    [] e.kind = "unary"     -> UnaryType(e.id, parts[1].ty)
    [] e.kind = "call"      -> CallType(ctx, e.parts[1])
    [] e.kind = "attribute" -> FieldType(ctx, parts[1].ty, e.id)
    [] e.kind = "subscript" ->
         IF Head(parts[1].ty) \in {"List", "Dict"} THEN parts[1].ty[Len(parts[1].ty)] ELSE Unknown
    [] e.kind = "list"      -> <<"List", ElementType(parts, 1, 1)>>
    [] e.kind = "dict"      -> <<"Dict", ElementType(parts, 1, 2), ElementType(parts, 2, 2)>>
    [] e.kind = "tuple"     -> <<"Tuple">> \o [i \in DOMAIN parts |-> parts[i].ty]
    [] e.kind = "listcomp"  -> <<"List", parts[1].ty>>
    [] e.kind = "dictcomp"  -> <<"Dict", parts[1].ty, parts[2].ty>>
    [] e.kind = "await"     -> parts[1].ty
    [] OTHER                -> e.ty

RECURSIVE InferExpr(_, _)
\* infer_expression; an "error" is Err.
InferExpr(ctx, e) ==
  LET parts == [i \in DOMAIN e.parts |-> InferExpr(ctx, e.parts[i])]
      into  == Inferred(e, parts)
      ty    == NodeType(ctx, e, parts)
  IN  CASE e.kind = "name" ->
             IF e.ty # Unknown THEN e
             ELSE IF Holding(ctx, e.id) = {} THEN TypeError ELSE [e EXCEPT !.ty = Lookup(ctx, e.id)]
        [] e.kind # "name" /\ e.ty # Unknown -> e
        [] OTHER ->
             IF Failed(parts) \cap into # {} \/ ty = BadType THEN TypeError
             ELSE [e EXCEPT !.ty = ty,
                            !.parts = [i \in DOMAIN parts |-> IF i \in into THEN parts[i] ELSE e.parts[i]]]

-----------------------------------------------------------------------------
(* Statements.  What an operator returns is the context as the code leaves *)
(* it, an error included, and the statement or the statements.             *)

\* An annotation wins over what the value is.
BoundType(s) == IF s.ty # Unknown THEN s.ty ELSE s.exprs[1].ty

IsRangeCall(e) ==
  e.kind = "call" /\ e.parts[1].kind = "name" /\ e.parts[1].id = "range" /\ Len(e.parts) \in 2..4
    /\ \A i \in DOMAIN e.parts : e.parts[i].kind # "keyword"

\* As IterType, the type of range's numbers forgotten.
IterTypeOfCollection(e) == IF Head(e.ty) \in {"List", "Set"} THEN e.ty[2] ELSE Unknown

\* What for binds its target to.
IterType(e) ==
  CASE Head(e.ty) \in {"List", "Set"} -> e.ty[2]
    [] e.ty = Unknown -> IF IsRangeCall(e) THEN <<"Int">> ELSE Unknown
    [] OTHER          -> Unknown

RECURSIVE DefineAll(_, _)
DefineAll(ctx, params) ==
  IF params = <<>> THEN ctx
  ELSE DefineAll(Define(ctx, Head(params).name, Head(params).ty), Tail(params))

CallableType(s) == <<"Callable", s.ty>> \o Each(LAMBDA p : p.ty, s.params)

\* The context in which the i-th block of a statement is inferred, without the
\* branch's own scope.
EnterBlock(ctx, s) ==
  CASE s.kind = "for" -> Define(PushScope(ctx), s.target, IterType(s.exprs[1]))
    [] s.kind \in {"def", "asyncdef"} ->
         DefineAll(PushScope(Define(DefineFunction(ctx, s.target, s.ty), s.target,
                                    CallableType(s))), s.params)
    [] OTHER -> PushScope(ctx)

\* The blocks of a try in the order they run in, and those that have a scope.
InOrder(s) == IF s.kind = "try" THEN <<Len(s.blocks) - 2>> \o [i \in 1..(Len(s.blocks) - 3) |-> i]
                                       \o <<Len(s.blocks) - 1, Len(s.blocks)>>
              ELSE [i \in DOMAIN s.blocks |-> i]
Scoped(s, i) == s.kind # "try" \/ i <= Len(s.blocks) - 3

Self(method, x) ==
  Each(LAMBDA p : IF p.name = "self" THEN [p EXCEPT !.ty = <<"Class", x>>] ELSE p, method.params)
Fields(s) == [x \in {s.params[i].name : i \in DOMAIN s.params} |->
               (CHOOSE p \in {s.params[i] : i \in DOMAIN s.params} : p.name = x).ty]

RECURSIVE InferStmt(_, _), InferBody(_, _), InferBlocks(_, _, _), InferMethods(_, _, _),
          InferCopies(_, _)

\* The statements in turn, up to one that fails.
InferBody(ctx, body) ==
  IF body = <<>> THEN [ctx |-> ctx, body |-> <<>>, ok |-> TRUE]
  ELSE LET first == InferStmt(ctx, Head(body))
           rest  == InferBody(first.ctx, Tail(body))
       IN  IF ~ first.ok THEN [ctx |-> first.ctx, body |-> body, ok |-> FALSE]
           ELSE [ctx |-> rest.ctx, body |-> <<first.stmt>> \o rest.body, ok |-> rest.ok]

\* The blocks of s whose numbers are given; one that fails leaves its scope.
InferBlocks(ctx, s, order) ==
  IF order = <<>> THEN [ctx |-> ctx, stmt |-> s, ok |-> TRUE]
  ELSE LET i     == Head(order)
           block == InferBody(IF Scoped(s, i) THEN EnterBlock(ctx, s) ELSE ctx, s.blocks[i])
           left  == IF Scoped(s, i) THEN PopScope(block.ctx) ELSE block.ctx
       IN  IF block.ok THEN InferBlocks(left, [s EXCEPT !.blocks[i] = block.body], Tail(order))
           ELSE [ctx |-> block.ctx, stmt |-> s, ok |-> FALSE]

\* The statements of a method are inferred on copies, their errors ignored.
InferCopies(ctx, body) ==
  IF body = <<>> THEN ctx ELSE InferCopies(InferStmt(ctx, Head(body)).ctx, Tail(body))
InferMethods(ctx, x, methods) ==
  IF methods = <<>> THEN ctx
  ELSE LET method == Head(methods)
       IN  InferMethods(PopScope(InferCopies(DefineAll(PushScope(ctx), Self(method, x)),
                                             method.blocks[1])), x, Tail(methods))

\* infer_statement.
InferStmt(ctx, s) ==
  LET exprs  == Each(LAMBDA e : InferExpr(ctx, e), s.exprs)
      typed  == [s EXCEPT !.exprs = exprs]
      Done(c) == [ctx |-> c, stmt |-> typed, ok |-> TRUE]
  IN  CASE Failed(exprs) # {} -> [ctx |-> ctx, stmt |-> s, ok |-> FALSE]
        [] Failed(exprs) = {} /\ s.kind = "class" ->
             Done(InferMethods(Define(DefineClass(ctx, s.target, Fields(s)), s.target,
                                      <<"Class", s.target>>), s.target, s.blocks[1]))
        [] Failed(exprs) = {} /\ s.kind \in {"assign", "annassign"} ->
             Done(Define(ctx, s.target, BoundType(typed)))
        [] OTHER -> InferBlocks(ctx, typed, InOrder(typed))

\* infer_module.
InferModule(body) == InferBody(NewContext, body)
=============================================================================
