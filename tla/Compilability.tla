--------------------------- MODULE Compilability ---------------------------
(***************************************************************************)
(* celer-typeinfer's analysis of what is compiled: a function is "full",   *)
(* "partial" or "not", read off its inferred HIR.  The context the         *)
(* analyzer is given is an empty one, so that it knows a function by the   *)
(* module's own definitions alone.                                         *)
(***************************************************************************)
EXTENDS TypeInference

Builtins == {"range", "len", "str", "int", "float", "bool"}

FunctionsOf(body) == SelectSeq(body, LAMBDA s : s.kind \in {"def", "asyncdef"})
NamesOf(body)     == {FunctionsOf(body)[i].target : i \in DOMAIN FunctionsOf(body)}

RECURSIVE IsCompilableType(_), CheckExpr(_, _), CheckStmt(_, _)

\* is_compilable_type.
IsCompilableType(ty) ==
  CASE Head(ty) \in {"List", "Tuple"} -> \A i \in 2..Len(ty) : IsCompilableType(ty[i])
    [] OTHER -> Head(ty) \in {"Int", "Float", "Bool", "Str", "None", "Dict", "Unknown"}

Parts(e, first) == {e.parts[i] : i \in first..Len(e.parts)}

\* check_expression: it adds no issue.
CheckExpr(e, known) ==
  LET All(first) == \A p \in Parts(e, first) : CheckExpr(p, known)
  IN  CASE e.kind \in DOMAIN LiteralTypes -> TRUE
        [] e.kind = "name"  -> Head(e.ty) # "Class"
        [] e.kind \in {"binop", "unary", "dict"} -> All(1)
        [] e.kind = "call"  ->
             /\ e.parts[1].kind = "name" /\ e.parts[1].id \in Builtins \cup known
             /\ All(2)
        [] e.kind = "subscript" ->
             /\ \/ Head(e.parts[1].ty) \in {"List", "Tuple"} /\ IsCompilableType(e.parts[1].ty)
                \/ IsCompilableType(e.ty)
             /\ All(1)
        [] e.kind = "list"  -> Head(e.ty) = "List" /\ IsCompilableType(e.ty) /\ All(1)
        [] e.kind = "tuple" -> Head(e.ty) = "Tuple" /\ IsCompilableType(e.ty) /\ All(1)
        \* Attributes, keywords, await, f-strings and comprehensions.
        [] OTHER -> FALSE

\* As CheckStmt, assert and raise no issue.
CheckStmtOnly(s, known) ==
  \/ s.kind \in {"assert", "raise"}
  \/ /\ s.kind \in {"return", "assign", "annassign", "if", "while", "expr", "pass"}
     /\ \A i \in DOMAIN s.exprs : CheckExpr(s.exprs[i], known)
     /\ \A i \in DOMAIN s.blocks : \A j \in DOMAIN s.blocks[i] : CheckStmt(s.blocks[i][j], known)

\* check_statement: it adds no issue.  The iterable of a for is not gone into.
CheckStmt(s, known) ==
  /\ s.kind \in {"return", "assign", "annassign", "if", "while", "for", "expr", "pass", "break",
                 "continue"}
  /\ IF s.kind = "for" THEN IsRangeCall(s.exprs[1])
     ELSE \A i \in DOMAIN s.exprs : CheckExpr(s.exprs[i], known)
  /\ \A i \in DOMAIN s.blocks : \A j \in DOMAIN s.blocks[i] : CheckStmt(s.blocks[i][j], known)

\* analyze_function.
Status(f, known) ==
  LET types == {f.ty} \cup {f.params[i].ty : i \in DOMAIN f.params}
  IN  CASE f.kind = "asyncdef" \/ \E ty \in types : ~ IsCompilableType(ty) -> "not"
        [] OTHER -> IF \A i \in DOMAIN f.blocks[1] : CheckStmt(f.blocks[1][i], known)
                    THEN "full" ELSE "partial"

\* analyze_module with compilable_functions: of two functions of one name the
\* set holds the name when either is full.
CompiledFunctions(body) ==
  {f.target : f \in {g \in {FunctionsOf(body)[i] : i \in DOMAIN FunctionsOf(body)} :
                       Status(g, NamesOf(body)) = "full"}}
=============================================================================
