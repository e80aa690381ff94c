------------------------------- MODULE Parser -------------------------------
(***************************************************************************)
(* celer-parser: Python's syntax tree becomes HIR.  A HIR expression is a  *)
(* node with a type; a type is a sequence that starts with its             *)
(* constructor.  A node or a statement of kind "error" stands for Err,     *)
(* its id for the error: UnsupportedFeature or ConversionError.            *)
(***************************************************************************)
EXTENDS PythonSource

-----------------------------------------------------------------------------
(* Types.                                                                  *)

Unknown == <<"Unknown">>
AnyType == <<"Any">>
\* Err of convert_annotation: only UnsupportedFeature occurs.
BadType == <<"Bad">>

SimpleNames ==
  [int |-> <<"Int">>, float |-> <<"Float">>, str |-> <<"Str">>, bool |-> <<"Bool">>,
   bytes |-> <<"Bytes">>, dict |-> <<"Dict", AnyType, AnyType>>, list |-> <<"List", AnyType>>,
   tuple |-> <<"Tuple", AnyType>>, set |-> <<"Set", AnyType>>, Any |-> AnyType]

\* None is a constant to rustpython, not a name.
SimpleName(x) == IF x \in DOMAIN SimpleNames THEN SimpleNames[x] ELSE <<"Class", x>>

\* Of the typing module's names only two are known with their prefix.
BaseName(e) ==
  CASE e.kind = "name" -> e.id
    [] e.kind = "attribute" ->
         IF e.parts[1] = Name("typing") /\ e.id \in {"Optional", "Union"} THEN e.id ELSE "."
    [] OTHER -> "*"

Containers ==
  [list |-> "List", List |-> "List", set |-> "Set", Set |-> "Set", Optional |-> "Optional",
   tuple |-> "Tuple", Tuple |-> "Tuple", Union |-> "Union"]

WithoutBad(type, parts) == IF BadType \in {parts[i] : i \in DOMAIN parts} THEN BadType ELSE type

RECURSIVE Annotation(_)
\* convert_annotation; no annotation is Unknown.
Annotation(e) ==
  LET Each(s) == [i \in DOMAIN s |-> Annotation(s[i])]
      Sub(base, slice) ==
        CASE base = "*" -> BadType
          [] base \in {"dict", "Dict"} ->
               IF slice.kind = "tuple" /\ Len(slice.parts) = 2
               THEN WithoutBad(<<"Dict">> \o Each(slice.parts), Each(slice.parts))
               ELSE SimpleNames.dict
          [] base \in DOMAIN Containers ->
               LET several == slice.kind = "tuple" /\ Containers[base] \in {"Tuple", "Union"}
                   inner   == IF several THEN Each(slice.parts) ELSE <<Annotation(slice)>>
               IN  WithoutBad(<<Containers[base]>> \o inner, inner)
          [] OTHER -> <<"Class", base>>
  IN  CASE e.kind = "absent"    -> Unknown
        [] e.kind = "name"      -> SimpleName(e.id)
        [] e.kind = "none"      -> <<"None">>
        [] e.kind = "attribute" -> <<"Class", e.id>>
        [] e.kind = "subscript" -> Sub(BaseName(e.parts[1]), e.parts[2])
        [] OTHER                -> BadType

-----------------------------------------------------------------------------
(* Expressions.                                                            *)

Typed(e, ty) == [kind |-> e.kind, id |-> e.id, num |-> e.num, parts |-> e.parts, ty |-> ty]
Error(why)   == Typed(Node("error", why, Zero, <<>>), Unknown)
Unsupported  == Error("unsupported")

Failed(parts) == {i \in DOMAIN parts : parts[i].kind = "error"}
\* collect::<Result<Vec<_>, _>>: the first error, if there is one.
FirstError(parts) == parts[CHOOSE i \in Failed(parts) : \A j \in Failed(parts) : i <= j]

LiteralTypes ==
  [int |-> <<"Int">>, float |-> <<"Float">>, str |-> <<"Str">>, bool |-> <<"Bool">>,
   none |-> <<"None">>]

Operators   == {"add", "sub", "mul", "div", "floordiv", "mod", "pow", "bitand", "bitor",
                "bitxor", "lshift", "rshift"}
Comparisons == {"eq", "noteq", "lt", "lteq", "gt", "gteq"}
Translated  == {"name", "binop", "boolop", "unary", "compare", "link", "call", "keyword",
                "attribute", "subscript", "list", "tuple", "dict", "await", "fstring",
                "listcomp", "dictcomp"}

\* An integer that is not an i64 fails; every other literal is taken over.
ConvertConstant(e) ==
  IF e.kind = "int" /\ e.num[1] \notin (-MaxInt - 1)..MaxInt
  THEN Error("conversion") ELSE Typed(e, LiteralTypes[e.kind])

Binary(op, l, r) == Typed(Node("binop", op, Zero, <<l, r>>), Unknown)

RECURSIVE ChainBools(_, _, _), ChainLinks(_, _)

\* a and b and c becomes (a and b) and c.
ChainBools(op, left, rest) ==
  IF rest = <<>> THEN left ELSE ChainBools(op, Binary(op, left, Head(rest)), Tail(rest))

\* a < b < c becomes (a < b) < c.
ChainLinks(left, links) ==
  IF links = <<>> THEN left
  ELSE ChainLinks(Binary(Head(links).id, left, Head(links).parts[1]), Tail(links))

\* A node whose parts are converted.
ConvertNode(e, parts) ==
  CASE e.kind = "boolop"  -> ChainBools(e.id, parts[1], Tail(parts))
    [] e.kind = "compare" -> ChainLinks(parts[1], Tail(parts))
    [] e.kind = "binop"   ->
         IF e.id \in Operators THEN Binary(e.id, parts[1], parts[2]) ELSE Unsupported
    [] e.kind = "link" /\ e.id \notin Comparisons -> Unsupported
    [] e.kind = "fstring" -> Typed([e EXCEPT !.parts = parts], <<"Str">>)
    [] OTHER              -> Typed([e EXCEPT !.parts = parts], Unknown)

RECURSIVE Convert(_)
\* convert_expr: lambdas, conditional expressions, sets and ** are unsupported.
Convert(e) ==
  LET parts == [i \in DOMAIN e.parts |-> Convert(e.parts[i])]
  IN  CASE e.kind \in DOMAIN LiteralTypes -> ConvertConstant(e)
        [] e.kind \in Translated ->
             IF Failed(parts) = {} THEN ConvertNode(e, parts) ELSE FirstError(parts)
        [] OTHER -> Unsupported

-----------------------------------------------------------------------------
(* Statements.  Their errors are told apart by the order the code meets    *)
(* them in.                                                                *)

TypeResult(ty)  == IF ty = BadType THEN Unsupported ELSE Typed(None, ty)
NameResult(x)   == IF x = "*" THEN Unsupported ELSE Typed(None, Unknown)

\* convert_arg_with_default; a default is a sequence of one expression or none.
ConvertParam(p) ==
  [name |-> p.name, ty |-> Annotation(p.ann), default |-> Convert(p.default)]
ParamResults(p) ==
  <<TypeResult(Annotation(p.ann))>>
    \o (IF p.default = Absent THEN <<>> ELSE <<Convert(p.default)>>)

RECURSIVE Flat(_)
Flat(seqs) == IF seqs = <<>> THEN <<>> ELSE Head(seqs) \o Flat(Tail(seqs))

Each(Op(_), s) == [i \in DOMAIN s |-> Op(s[i])]

RECURSIVE DecoratorString(_)
\* decorator_to_string: the keyword arguments do not get into the text.
DecoratorString(e) ==
  LET written == SelectSeq(e.parts, LAMBDA p : p.kind # "keyword")
  IN  IF e.kind \in {"call", "attribute"} THEN [e EXCEPT !.parts = Each(DecoratorString, written)] ELSE e

Supported == {"def", "asyncdef", "return", "assign", "annassign", "import", "expr", "pass",
              "break", "continue", "if", "while", "for", "class", "raise", "assert", "try"}

\* Of several targets the first alone is bound.
HirStmt(s, exprs, blocks) ==
  [kind |-> s.kind, target |-> IF s.targets = <<>> THEN "" ELSE s.targets[1],
   ty |-> Annotation(s.ann), exprs |-> exprs, blocks |-> blocks,
   params |-> Each(ConvertParam, s.params), decorators |-> Each(DecoratorString, s.decorators)]

\* x: int without a value is None; so is an absent value of anything else.
ValueOf(e) == IF e = Absent THEN None ELSE e

StmtError(why) ==
  [kind |-> "error", target |-> "", ty |-> Unknown, exprs |-> <<Error(why)>>, blocks |-> <<>>,
   params |-> <<>>, decorators |-> <<>>]

\* The methods of a class, without those that fail, and its fields.
ClassBody(blocks) ==
  SelectSeq(blocks[1], LAMBDA t : t.kind \in {"def", "asyncdef"})
ClassFields(s) ==
  SelectSeq(s.blocks[1], LAMBDA t : t.kind = "annassign" /\ t.targets[1] # "*")

\* The else block of a loop is not looked at.
BlocksOf(s) == IF s.kind \in {"while", "for"} THEN <<s.blocks[1]>> ELSE s.blocks

RECURSIVE ConvertStmt(_)

\* convert_stmt.
ConvertStmt(s) ==
  LET exprs   == Each(LAMBDA e : Convert(ValueOf(e)), s.exprs)
      blocks  == Each(LAMBDA b : Each(ConvertStmt, b), BlocksOf(s))
      bodies  == Each(LAMBDA t : IF t.kind = "error" THEN t.exprs[1] ELSE Typed(None, Unknown),
                      Flat(blocks))
      names   == IF s.kind \in {"assign", "annassign", "for"} THEN <<NameResult(s.targets[1])>>
                 ELSE <<>>
      fields  == Each(LAMBDA t : TypeResult(Annotation(t.ann)), ClassFields(s))
      results == IF s.kind = "class" THEN fields
                 ELSE Flat(Each(ParamResults, s.params)) \o names
                        \o <<TypeResult(Annotation(s.ann))>> \o exprs \o bodies
  IN  IF s.kind \notin Supported THEN StmtError("unsupported")
      ELSE IF Failed(results) # {} THEN StmtError(FirstError(results).id)
      ELSE IF s.kind # "class" THEN HirStmt(s, exprs, blocks)
      ELSE [HirStmt(s, <<>>, <<ClassBody(blocks)>>) EXCEPT
              !.params = Each(LAMBDA t : ConvertParam(Param(t.targets[1], t.ann)), ClassFields(s))]

-----------------------------------------------------------------------------
(* Modules.                                                                *)

\* As Kept, but what the parser does not know aborts it.
KeptAll(body) == body

\* A top-level statement with an unsupported feature anywhere in it is left out.
Kept(body) ==
  SelectSeq(body, LAMBDA s : ~ (s.kind = "error" /\ s.exprs[1].id = "unsupported"))

\* convert_module: Err, if any other error is met.
ConvertModule(source) == Kept(Each(ConvertStmt, source))
Parses(body) == \A i \in DOMAIN body : body[i].kind # "error"
=============================================================================
