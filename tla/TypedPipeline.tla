--------------------------- MODULE TypedPipeline ---------------------------
(***************************************************************************)
(* A module on its way through celer: parsed, inferred, analyzed,          *)
(* generated, then called.  The dispatcher hands a call of f to the native *)
(* code when the analyzer found f compilable, else to CPython.  A step     *)
(* that fails, whichever function it fails in, is the end.                 *)
(***************************************************************************)
EXTENDS TypedCodegen

CONSTANTS Sources,  \* the modules: sequences of statements; what is called is f
          Inputs    \* the integers f is given

VARIABLES source, phase, module, compiled, answer
vars == <<source, phase, module, compiled, answer>>

NoAnswer == [args |-> <<>>, native |-> FALSE, result |-> <<>>]

Init ==
  /\ source \in Sources
  /\ phase = "source"
  /\ module = <<>>
  /\ compiled = {}
  /\ answer = NoAnswer

\* parse_module.
Parse ==
  /\ phase = "source"
  /\ LET body == ConvertModule(source)
     IN  IF Parses(body) THEN phase' = "parsed" /\ module' = body
         ELSE phase' = "failed" /\ UNCHANGED module
  /\ UNCHANGED <<source, compiled, answer>>

\* InferenceEngine::infer_module.
Infer ==
  /\ phase = "parsed"
  /\ LET inferred == InferModule(module)
     IN  IF inferred.ok THEN phase' = "inferred" /\ module' = inferred.body
         ELSE phase' = "failed" /\ UNCHANGED module
  /\ UNCHANGED <<source, compiled, answer>>

\* CompilabilityAnalyzer::analyze_module.
Analyze ==
  /\ phase = "inferred"
  /\ phase' = "analyzed"
  /\ compiled' = CompiledFunctions(module)
  /\ UNCHANGED <<source, module, answer>>

\* Compiler::compile_module and verify.
Generate ==
  /\ phase = "analyzed"
  /\ phase' = IF CompileModule(module) THEN "loaded" ELSE "failed"
  /\ UNCHANGED <<source, module, compiled, answer>>

Called == source[Definition(source, "f")]
Arguments(args) == [i \in DOMAIN args |-> Value("int", Whole(args[i]))]
\* What CPython answers.
Expected(args) == PyCall(source, "f", Arguments(args))

Refused == <<Value("refused", Zero)>>
Misread == <<Value("misread", Zero)>>

\* The names of functions that return a dict.
JsonFunctions ==
  LET fs == FunctionsOf(module) IN {fs[i].target : i \in {j \in DOMAIN fs : IsJsonReturn(fs[j].ty)}}

\* call_typed: a dict by a pointer and a length, anything else as an integer.
CallTyped(args) ==
  LET f    == Function(FunctionsOf(module), "f")
      json == "f" \in JsonFunctions
  IN  IF Len(args) > IF json THEN 1 ELSE 2 THEN Refused
      ELSE IF json # IsJsonReturn(f.ty) \/ (~ json /\ KindOf(f.ty) # "int") THEN Misread
      ELSE Invoke(FunctionsOf(module), "f", Arguments(args))

RECURSIVE NamesIn(_), NamesOfBody(_)
NamesIn(e) == (IF e.kind = "name" THEN {e.id} ELSE {})
                \cup UNION {NamesIn(e.parts[i]) : i \in DOMAIN e.parts}
NamesOfBody(body) ==
  UNION {UNION {NamesIn(body[i].exprs[j]) : j \in DOMAIN body[i].exprs}
           \cup UNION {NamesOfBody(body[i].blocks[j]) : j \in DOMAIN body[i].blocks} : i \in DOMAIN body}

\* run_python_function: f is given the first argument alone, and sees no name
\* of its module, which is run in a scope of its own.
RunPythonFunction(args) ==
  IF /\ Len(Called.params) = Len(args) /\ Len(args) <= 1
     /\ \A i \in DOMAIN source : source[i].targets = <<>> \/ source[i].targets[1] \notin NamesOfBody(Called.blocks[1])
  THEN Expected(args).result ELSE Refused

\* FallbackDispatcher::call.  A call that leaves the plain part is not followed.
CallFunction(args) ==
  /\ phase \in {"loaded", "answered"}
  /\ phase' = "answered"
  /\ answer' = [args |-> args, native |-> "f" \in compiled,
                result |-> IF "f" \notin compiled THEN RunPythonFunction(args)
                           ELSE IF Expected(args).out \in {"other", "deep"} THEN Misread
                           ELSE CallTyped(args)]
  /\ UNCHANGED <<source, module, compiled>>

Next ==
  \/ Parse
  \/ Infer
  \/ Analyze
  \/ Generate
  \/ \E args \in [DOMAIN Called.params -> Inputs] : CallFunction(args)

Spec == Init /\ [][Next]_vars

-----------------------------------------------------------------------------
(* Properties.                                                             *)

RECURSIVE Within(_)
\* The statements of a body, those of inner blocks with them.
Within(body) ==
  UNION {{body[i]} \cup UNION {Within(body[i].blocks[j]) : j \in DOMAIN body[i].blocks} : i \in DOMAIN body}
BoundIn(body) == UNION {{s.targets[i] : i \in DOMAIN s.targets} :
                          s \in {t \in Within(body) : t.kind \in {"assign", "annassign"}}}
Targets(body) == {s.targets[1] : s \in {t \in Within(body) : t.kind = "for"}}

\* A name is bound at the top of the body before it is bound in an inner block,
\* and the target of a for is bound by for alone.
Disciplined(f) ==
  LET body   == f.blocks[1]
      params == {f.params[i].name : i \in DOMAIN f.params}
      Inner(s) == UNION {BoundIn(s.blocks[j]) : j \in DOMAIN s.blocks}
      Before(i) == params \cup UNION {{body[j].targets[k] : k \in DOMAIN body[j].targets} :
                                        j \in {k \in 1..(i - 1) : body[k].kind \in {"assign", "annassign"}}}
  IN  /\ \A i \in DOMAIN body : Inner(body[i]) \subseteq Before(i)
      /\ Targets(body) \cap (params \cup BoundIn(body)) = {}

\* Values of every type an argument of a plain function has.
Samples(ann) ==
  CASE Annotated(ann) = "int"   -> {Value("int", Whole(n)) : n \in Inputs}
    [] Annotated(ann) = "float" -> {Value("float", <<1, 2>>), Value("float", Zero)}
    [] Annotated(ann) = "bool"  -> {ToBool(TRUE), ToBool(FALSE)}
    [] Annotated(ann) = "text"  -> {Value("text", Whole(n)) : n \in {0, 2}}
    [] OTHER                    -> {}

\* A function is plain on every argument, and runs all of its statements.
PlainFunction(i) ==
  LET f    == source[i]
      args == {a \in [DOMAIN f.params -> UNION {Samples(f.params[j].ann) : j \in DOMAIN f.params}] :
                 \A j \in DOMAIN a : a[j] \in Samples(f.params[j].ann)}
      runs == {PyCall(source, f.targets[1], a) : a \in args}
  IN  /\ f.kind = "def"
      /\ Disciplined(f)
      /\ \A r \in runs : r.out \notin {"other", "deep"}
      /\ UNION {r.seen : r \in runs} = Within(f.blocks[1])

\* A module of plain functions compiles: neither the parser nor the inference
\* engine rejects it, every function is generated, and LLVM's verifier accepts
\* the whole, so that one function never costs the others their native code.
PlainModulesCompile ==
  phase = "failed" => \E i \in DOMAIN source : ~ PlainFunction(i)

\* What the native code of f answers is what CPython would have, on every call
\* whose run stays plain and comes to no loop's else block, which the parser
\* drops, if it answers an integer or a dict: no operator, conversion, slot, scope
\* of a name, call or dict differs, and nothing undefined is executed.
NativeAgrees ==
  phase = "answered" /\ answer.native =>
    LET expected == Expected(answer.args)
    IN  expected.out \in {"int", "dict"} /\ ~ expected.elses /\ answer.result # Refused
          => answer.result = expected.result

\* A call in which f's own assert fails or f raises is not answered natively,
\* where the statement would be left out, unless the parser had already dropped
\* it with the else block of a loop.
RaisesKept ==
  phase = "answered" /\ answer.native =>
    LET expected == Expected(answer.args) IN expected.out = "exception" => expected.elses
=============================================================================
