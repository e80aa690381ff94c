--------------------------- MODULE RouteExtraction ---------------------------
(***************************************************************************)
(* How `celerate serve` finds the routes of an app: the module is parsed   *)
(* and inferred, then the first adapter that detects its framework reads   *)
(* the routes off the text of the decorators, or off urlpatterns.          *)
(*                                                                         *)
(* A path is what is between its slashes: "/items/" is <<"", "items", "">>.*)
(* A segment is of kind "lit", "brace" for {x} or "angle" for <x> and      *)
(* <int:x>.                                                                *)
(***************************************************************************)
EXTENDS TypeInference

CONSTANTS
  Sources,    \* the modules
  Texts,      \* by text: its segments, and the verbs it has after a dot
  Beginnings  \* by attribute: the verbs its name begins with

VARIABLES source, phase, module, framework, routes
vars == <<source, phase, module, framework, routes>>

Text(x) == Node("str", x, Zero, <<>>)
Lit(x)  == [kind |-> "lit", name |-> x]
Root    == <<Lit(""), Lit("")>>

\* The methods in the order the adapters look for them.
Verbs == <<"get", "post", "put", "delete", "patch">>

-----------------------------------------------------------------------------
(* What the adapters see of a decorator, which is a text to them.          *)

RECURSIVE Contained(_), Quoted(_)

\* contains(".get") and so on, "route" among them.
Contained(d) ==
  (CASE d.kind = "attribute" -> Beginnings[d.id]
     [] d.kind = "str"       -> Texts[d.id].has
     [] OTHER                -> {})
  \cup UNION {Contained(d.parts[i]) : i \in DOMAIN d.parts}

\* The texts within quotes, in order.
Quoted(d) == (IF d.kind = "str" THEN <<d.id>> ELSE <<>>) \o Flat(Each(Quoted, d.parts))

VerbsIn(d) == SelectSeq(Verbs, LAMBDA v : v \in Contained(d))

\* extract_path, "/" by default.
ExtractPath(d) == IF Quoted(d) = <<>> THEN Root ELSE Texts[Quoted(d)[1]].segments

\* RouteInfo::new; its parameters are in NativeRoutes.
RouteInfo(method, path, f) == [method |-> method, path |-> path, handler |-> f.target]

Functions == SelectSeq(module, LAMBDA s : s.kind \in {"def", "asyncdef"})
Decorators == UNION {{Functions[i].decorators[j] : j \in DOMAIN Functions[i].decorators} :
                       i \in DOMAIN Functions}

-----------------------------------------------------------------------------
(* FastAPI: the first decorator of a function that names a method.         *)

TryExtractRoute(f) ==
  LET hits == SelectSeq(f.decorators, LAMBDA d : VerbsIn(d) # <<>>)
  IN  IF hits = <<>> THEN <<>>
      ELSE <<RouteInfo(VerbsIn(hits[1])[1], ExtractPath(hits[1]), f)>>

DetectFastApi == \E d \in Decorators : VerbsIn(d) # <<>>
FastApiRoutes == Flat(Each(TryExtractRoute, Functions))

-----------------------------------------------------------------------------
(* Flask: every decorator.                                                 *)

\* Variant: the path stays as it is written.
PathAsWritten(path) == path
\* normalize_flask_path: <int:x> becomes {x}.
NormalizeFlaskPath(path) ==
  [i \in DOMAIN path |-> IF path[i].kind = "angle" THEN [path[i] EXCEPT !.kind = "brace"] ELSE path[i]]

Keywords(d, x) == SelectSeq(d.parts, LAMBDA p : p.kind = "keyword" /\ p.id = x)
\* extract_methods, of a decorator whose keywords are in its text.
ExtractMethods(d) == SelectSeq(Flat(Each(Quoted, Keywords(d, "methods"))),
                               LAMBDA v : \E i \in DOMAIN Verbs : Verbs[i] = v)

\* parse_decorator: .route comes before a shorthand.
ParseDecorator(d, f) ==
  LET path    == NormalizeFlaskPath(ExtractPath(d))
      methods == ExtractMethods(d)
  IN  CASE "route" \in Contained(d) ->
             IF methods = <<>> THEN <<RouteInfo("get", path, f)>>
             ELSE Each(LAMBDA v : RouteInfo(v, path, f), methods)
        [] "route" \notin Contained(d) /\ VerbsIn(d) # <<>> ->
             <<RouteInfo(VerbsIn(d)[1], path, f)>>
        [] OTHER -> <<>>

DetectFlask == \E d \in Decorators : "route" \in Contained(d) \/ VerbsIn(d) # <<>>
FlaskRoutes == Flat(Each(LAMBDA f : Flat(Each(LAMBDA d : ParseDecorator(d, f), f.decorators)), Functions))

-----------------------------------------------------------------------------
(* Django: the list urlpatterns is bound to first.                         *)

UrlPatterns  == SelectSeq(module, LAMBDA s : s.kind \in {"assign", "annassign"} /\ s.target = "urlpatterns")
DetectDjango == UrlPatterns # <<>>

\* normalize_django_path: as Flask's, with a slash in front and none behind.
NormalizeDjangoPath(path) ==
  LET braces == NormalizeFlaskPath(path)
      rooted == IF Len(path) > 1 /\ path[1] = Lit("") THEN braces ELSE <<Lit("")>> \o braces
  IN  IF rooted # Root /\ rooted[Len(rooted)] = Lit("") THEN SubSeq(rooted, 1, Len(rooted) - 1)
      ELSE rooted

IsPathCall(e) == e.kind = "call" /\ e.parts[1].kind = "name" /\ e.parts[1].id = "path"
Positional(e) == SelectSeq(Tail(e.parts), LAMBDA p : p.kind # "keyword")

Views(x) == SelectSeq(Functions, LAMBDA f : f.target = x)
\* parse_path_call is Err.
BadPathCall(e) ==
  LET args == Positional(e)
  IN  \/ Len(args) < 2
      \/ args[1].kind # "str" \/ args[2].kind # "name"
      \/ Views(args[2].id) = <<>>

Elements == UrlPatterns[1].exprs[1]
DjangoFails ==
  \/ Elements.kind # "list"
  \/ \E i \in DOMAIN Elements.parts : IsPathCall(Elements.parts[i]) /\ BadPathCall(Elements.parts[i])
DjangoRoutes ==
  Each(LAMBDA e : RouteInfo("get", NormalizeDjangoPath(Texts[Positional(e)[1].id].segments),
                            Views(Positional(e)[2].id)[1]),
       SelectSeq(Elements.parts, IsPathCall))

-----------------------------------------------------------------------------
Init ==
  /\ source \in Sources
  /\ phase = "source"
  /\ module = <<>>
  /\ framework = "none"
  /\ routes = <<>>

\* parse_module.
Parse ==
  /\ phase = "source"
  /\ LET body == ConvertModule(source)
     IN  IF Parses(body) THEN phase' = "parsed" /\ module' = body
         ELSE phase' = "failed" /\ UNCHANGED module
  /\ UNCHANGED <<source, framework, routes>>

\* infer_module.
Infer ==
  /\ phase = "parsed"
  /\ LET inferred == InferModule(module)
     IN  IF inferred.ok THEN phase' = "inferred" /\ module' = inferred.body
         ELSE phase' = "failed" /\ UNCHANGED module
  /\ UNCHANGED <<source, framework, routes>>

\* The adapters are asked in the order serve lists them.
Detected ==
  IF DetectFastApi THEN "FastAPI" ELSE IF DetectFlask THEN "Flask"
  ELSE IF DetectDjango THEN "Django" ELSE "none"

\* detect_and_extract: what no adapter claims, and a bad urlpatterns, ends serve.
Extract ==
  /\ phase = "inferred"
  /\ framework' = Detected
  /\ IF Detected = "none" \/ (Detected = "Django" /\ DjangoFails)
     THEN phase' = "failed" /\ UNCHANGED routes
     ELSE /\ phase' = "extracted"
          /\ routes' = CASE Detected = "FastAPI" -> FastApiRoutes
                         [] Detected = "Flask"   -> FlaskRoutes
                         [] OTHER                -> DjangoRoutes
  /\ UNCHANGED <<source, module>>

Next == Parse \/ Infer \/ Extract

Spec == Init /\ [][Next]_vars

-----------------------------------------------------------------------------
(***************************************************************************)
(* What the frameworks make of the source: external.                       *)
(***************************************************************************)
Defs == SelectSeq(source, LAMBDA s : s.kind \in {"def", "asyncdef"})

\* app = FastAPI() or app = Flask(...).
IsApp(class) ==
  \E i \in DOMAIN source :
    /\ source[i].kind = "assign" /\ source[i].targets[1] = "app"
    /\ source[i].exprs[1].kind = "call" /\ source[i].exprs[1].parts[1] = Name(class)
IsDjango == \A class \in {"FastAPI", "Flask"} : ~ IsApp(class)

\* @app.verb("path", ...).
Registers(d) ==
  /\ d.kind = "call" /\ d.parts[1].kind = "attribute" /\ d.parts[1].parts[1] = Name("app")
  /\ d.parts[1].id \in {"route"} \cup {Verbs[i] : i \in DOMAIN Verbs}
  /\ Len(d.parts) > 1 /\ d.parts[2].kind = "str"
MethodsOf(d) ==
  IF d.parts[1].id # "route" THEN <<d.parts[1].id>>
  ELSE IF Keywords(d, "methods") = <<>> THEN <<"get">> ELSE ExtractMethods(d)

\* A path with the segments that stand for a parameter told from the others.
Meant(path, param) ==
  [i \in DOMAIN SelectSeq(path, LAMBDA s : s # Lit("")) |->
     LET s == SelectSeq(path, LAMBDA t : t # Lit(""))[i]
     IN  IF s.kind = param THEN [s EXCEPT !.kind = "param"] ELSE s]
ParamKind == IF IsApp("FastAPI") THEN "brace" ELSE "angle"

Registered(d, f) ==
  Each(LAMBDA v : [method |-> v, path |-> Meant(Texts[d.parts[2].id].segments, ParamKind), handler |-> f.targets[1]],
       MethodsOf(d))
\* Decorators are applied from the last to the first.
Upward(s) == [i \in DOMAIN s |-> s[Len(s) + 1 - i]]
\* A view answers every method; the adapter knows of get.
ViewOf(e) == [method |-> "get", path |-> Meant(Texts[e.parts[2].id].segments, ParamKind), handler |-> e.parts[3].id]

UrlLists == SelectSeq(source, LAMBDA s : s.kind = "assign" /\ s.targets[1] = "urlpatterns")

\* The routes of the app, those of the given functions.
AppRoutes(defs) ==
  IF IsDjango THEN Flat(Each(LAMBDA s : Each(ViewOf, s.exprs[1].parts), UrlLists))
  ELSE Flat(Each(LAMBDA f : Flat(Each(LAMBDA d : Registered(d, f),
                                      Upward(SelectSeq(f.decorators, Registers)))), defs))
\* The routes the adapter found, as the router takes them.
Found == Each(LAMBDA r : [r EXCEPT !.path = Meant(r.path, "brace")], routes)

-----------------------------------------------------------------------------
(***************************************************************************)
(* Properties                                                              *)
(***************************************************************************)
\* The path is spelled as the framework wants it and names no method.
PlainText(x) ==
  /\ Texts[x].has = {}
  /\ \A i \in DOMAIN Texts[x].segments : Texts[x].segments[i].kind \in {"lit", ParamKind}

\* A decorator is one of the app's, or bears no method's name.
PlainDecorator(d) ==
  \/ Contained(d) = {}
  \/ /\ Registers(d) /\ PlainText(d.parts[2].id) /\ Keywords(d, "methods") = <<>>
     \* A shorthand makes a Flask app a FastAPI app to serve.
     /\ IsApp("Flask") /\ d.parts[1].id # "route" =>
          \A i \in DOMAIN Texts[d.parts[2].id].segments : Texts[d.parts[2].id].segments[i].kind = "lit"
     /\ IsApp("FastAPI") => d.parts[1].id # "route"

PlainUrlList ==
  /\ Len(UrlLists) = 1 /\ UrlLists[1].exprs[1].kind = "list"
  /\ \A i \in DOMAIN UrlLists[1].exprs[1].parts :
       LET e == UrlLists[1].exprs[1].parts[i]
       IN  /\ IsPathCall(e) /\ Len(e.parts) > 2 /\ e.parts[2].kind = "str" /\ e.parts[3].kind = "name"
           /\ PlainText(e.parts[2].id)
           /\ \E k, l \in DOMAIN source : k < l /\ source[l] = UrlLists[1] /\ source[k].targets = <<e.parts[3].id>>

\* The app is written for one framework, in the way its documentation does.
PlainApp ==
  /\ \A i, j \in DOMAIN Defs : Defs[i].targets = Defs[j].targets => i = j
  /\ \A i \in DOMAIN Defs : \A j \in DOMAIN Defs[i].decorators : PlainDecorator(Defs[i].decorators[j])
  /\ IsDjango => /\ PlainUrlList
                 /\ \A i \in DOMAIN Defs : \A j \in DOMAIN Defs[i].decorators : Contained(Defs[i].decorators[j]) = {}

\* Of a plain app native code is only offered what the app has: every route
\* found has method, path and handler of one of the app's own, whichever adapter
\* claimed the app, and of two handlers' routes the app's first is found first.
RoutesFoundAreTheApps ==
  phase = "extracted" /\ PlainApp =>
    /\ \A i \in DOMAIN Found : \E k \in DOMAIN AppRoutes(Defs) : Found[i] = AppRoutes(Defs)[k]
    /\ \A i, j \in DOMAIN Found :
         i < j /\ Found[i].handler # Found[j].handler =>
           \E k, l \in DOMAIN AppRoutes(Defs) :
             k < l /\ Found[i] = AppRoutes(Defs)[k] /\ Found[j] = AppRoutes(Defs)[l]

\* The decorators of an app are of one style: FastAPI's one to a function, or
\* Flask's .route.
OneStyle ==
  \A i \in DOMAIN Defs :
    /\ IsApp("FastAPI") => Len(SelectSeq(Defs[i].decorators, Registers)) <= 1
    /\ IsApp("Flask") => \A j \in DOMAIN Defs[i].decorators :
                          Registers(Defs[i].decorators[j]) => Defs[i].decorators[j].parts[1].id = "route"

\* What the parser keeps of the functions, and what of them can be inferred on
\* its own.
KeptDefs == SelectSeq(Defs, LAMBDA f : ConvertStmt(f).kind # "error")
Inferable(f) == InferModule(<<ConvertStmt(f)>>).ok

\* No handler of a plain app costs another its route: one the parser does not
\* know is left out, and the routes of all others are found, in a Django app if
\* there is none such.
EveryRouteIsFound ==
  /\ phase \in {"failed", "extracted"} /\ PlainApp /\ OneStyle
  /\ AppRoutes(KeptDefs) # <<>>
  /\ IsDjango => KeptDefs = Defs
  /\ \A i \in DOMAIN KeptDefs : Inferable(KeptDefs[i])
  => phase = "extracted" /\ {Found[i] : i \in DOMAIN Found} = {AppRoutes(KeptDefs)[k] : k \in DOMAIN AppRoutes(KeptDefs)}
=============================================================================
