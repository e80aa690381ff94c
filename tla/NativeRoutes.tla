----------------------------- MODULE NativeRoutes -----------------------------
(***************************************************************************)
(* How `celerate serve` decides which requests go to native code, and what *)
(* it calls for them: route extraction, compilability, code generation of  *)
(* the whole module, the router of celer-server and the calling convention *)
(* of celer-runtime's NativeModule.                                        *)
(*                                                                         *)
(* A path is a sequence of segments, "" standing for the empty segment two *)
(* adjacent slashes or a trailing one make.                                *)
(***************************************************************************)
EXTENDS Naturals, Sequences, FiniteSets

CONSTANTS
  Methods,    (* HTTP methods, in upper case                                 *)
  Handlers,   (* the handler functions a module may define                   *)
  Patterns,   (* the path patterns its routes may have                       *)
  Paths,      (* the paths clients ask for                                   *)
  Numeric,    (* the path segments that parse as an i64                      *)
  MaxRoutes   (* bound: routes of a module                                   *)

VARIABLES
  declared,   (* the routes the framework adapter extracted, in order        *)
  noNative,   (* --no-native                                                 *)
  phase,      (* where execute() stands                                      *)
  routes,     (* the router's entries, in order of registration              *)
  answer      (* what was made of the last request                           *)

vars == <<declared, noNative, phase, routes, answer>>

\* filter: the elements of s at the positions of I, in order.
Kept(s, I) ==
  [k \in 1 .. Cardinality(I) |->
     s[CHOOSE i \in I : Cardinality({j \in I : j < i}) = k - 1]]

-----------------------------------------------------------------------------
(***************************************************************************)
(* Functions of the module                                                 *)
(***************************************************************************)
Type == {"int", "float", "str", "dict", "class", "unknown"}

\* body: "plain" passes the analyzer's checks and the code generator, "partial"
\* raises issues but is generated, "rejected" is refused by the generator.
Handler == [name : STRING, params : Seq([name : STRING, type : Type]),
            returns : Type, async : BOOLEAN, body : {"plain", "partial", "rejected"}]

\* A segment of a route's path, {x} being a "param".
Segment == [kind : {"lit", "param"}, name : STRING]

ASSUME RoutesAssumption ==
  /\ Handlers \subseteq Handler
  /\ Patterns \subseteq Seq(Segment)
  /\ Paths \subseteq Seq(STRING)
  /\ MaxRoutes \in Nat

IsCompilableType(t) == t # "class"

\* analyze_function says Full.
Compilable(f) ==
  /\ ~f.async
  /\ IsCompilableType(f.returns)
  /\ \A i \in DOMAIN f.params : IsCompilableType(f.params[i].type)
  /\ f.body = "plain"

\* resolve_type fails for unknown and unsupported types, and for the void type
\* of a dict used as a parameter.
Emits(f) ==
  /\ f.returns \notin {"class", "unknown"}
  /\ \A i \in DOMAIN f.params : f.params[i].type \notin {"class", "unknown", "dict"}
  /\ f.body # "rejected"

\* The report is a set of names.
CompiledFunctions == {declared[i].handler.name : i \in {k \in DOMAIN declared : Compilable(declared[k].handler)}}
JsonFunctions == {declared[i].handler.name : i \in {k \in DOMAIN declared : declared[k].handler.returns = "dict"}}

-----------------------------------------------------------------------------
(***************************************************************************)
(* RouteInfo and the router                                                *)
(***************************************************************************)
ParamNames(pattern) == {pattern[i].name : i \in {k \in DOMAIN pattern : pattern[k].kind = "param"}}

ParamSource(p, pattern) ==
  IF p.name \in ParamNames(pattern) THEN "path" ELSE IF p.type = "class" THEN "body" ELSE "query"

\* Variant: the parameters in the order of the path.
PathParamsOfPattern(info) ==
  LET Named(s) == CHOOSE i \in DOMAIN info.handler.params : info.handler.params[i].name = s.name
      segs == Kept(info.pattern,
                   {k \in DOMAIN info.pattern :
                      /\ info.pattern[k].kind = "param"
                      /\ \E i \in DOMAIN info.handler.params :
                           info.handler.params[i].name = info.pattern[k].name})
  IN  [k \in DOMAIN segs |-> info.handler.params[Named(segs[k])]]
\* The path parameters, in the order in which the handler takes them.
PathParams(info) ==
  Kept(info.handler.params,
       {i \in DOMAIN info.handler.params : ParamSource(info.handler.params[i], info.pattern) = "path"})

IsEmpty(seg) == seg = ""
NonEmpty(path) == Kept(path, {i \in DOMAIN path : ~IsEmpty(path[i])})
ParseSegments(pattern) ==
  Kept(pattern, {i \in DOMAIN pattern : ~(pattern[i].kind = "lit" /\ IsEmpty(pattern[i].name))})

CompiledRoute(info) ==
  [method |-> info.method, segments |-> ParseSegments(info.pattern), name |-> info.handler.name,
   json |-> info.handler.name \in JsonFunctions, params |-> PathParams(info), info |-> info]

\* Variant: a literal matches the beginning of a path.
MatchPrefix(pattern, incoming) ==
  /\ Len(pattern) <= Len(incoming)
  /\ \A i \in DOMAIN pattern : pattern[i].kind = "lit" => pattern[i].name = incoming[i]
MatchSegments(pattern, incoming) ==
  /\ Len(pattern) = Len(incoming)
  /\ \A i \in DOMAIN pattern : pattern[i].kind = "lit" => pattern[i].name = incoming[i]

\* The map of parameters: of two segments with one name the later one counts.
ParamValue(pattern, incoming, name) ==
  incoming[CHOOSE i \in DOMAIN pattern :
             /\ pattern[i].kind = "param" /\ pattern[i].name = name
             /\ \A k \in DOMAIN pattern :
                  pattern[k].kind = "param" /\ pattern[k].name = name => k <= i]

Matching(m, path) ==
  {i \in DOMAIN routes : routes[i].method = m /\ MatchSegments(routes[i].segments, NonEmpty(path))}

\* Variant: the last registered route wins.
LastMatch(hits) == CHOOSE i \in hits : \A k \in hits : k <= i
FirstMatch(hits) == CHOOSE i \in hits : \A k \in hits : i <= k

-----------------------------------------------------------------------------
(***************************************************************************)
(* Requests                                                                *)
(***************************************************************************)
\* The call call_typed makes for a compiled route: what it passes and what it
\* takes for the result; or that it refuses.
NoCall == [symbol |-> "none", args |-> <<>>, reads |-> "nothing"]

Converts(route, path) ==
  \A k \in DOMAIN route.params :
    route.params[k].type = "int"
      => ParamValue(route.segments, NonEmpty(path), route.params[k].name) \in Numeric

Refused(route) ==
  \/ \E k \in DOMAIN route.params : route.params[k].type # "int"
  \/ Len(route.params) > IF route.json THEN 1 ELSE 2

NativeCall(route, path) ==
  [symbol |-> route.name,
   args   |-> [k \in DOMAIN route.params |->
                 ParamValue(route.segments, NonEmpty(path), route.params[k].name)],
   reads  |-> IF route.json THEN "dict" ELSE "int"]

Answer(m, path, by, route, call) ==
  [method |-> m, path |-> path, by |-> by, route |-> route, call |-> call]

\* match_hybrid, then convert_params and call_typed for a compiled route.
HandleRequest(m, path) ==
  LET hits == Matching(m, path)
      hit  == routes[FirstMatch(hits)]
  IN  /\ phase = "serving"
      /\ \/ /\ hits = {}
            /\ answer' = Answer(m, path, "asgi", <<>>, NoCall)
         \/ /\ hits # {}
            /\ ~Converts(hit, path) \/ Refused(hit)
            /\ answer' = Answer(m, path, "error", <<hit>>, NoCall)
         \/ /\ hits # {}
            /\ Converts(hit, path) /\ ~Refused(hit)
            /\ answer' = Answer(m, path, "native", <<hit>>, NativeCall(hit, path))
      /\ UNCHANGED <<declared, noNative, phase, routes>>

-----------------------------------------------------------------------------
(***************************************************************************)
(* serve's execute()                                                       *)
(***************************************************************************)
\* The whole module is generated, the functions reported as not compilable too;
\* any failure, the verifier's, the linker's or the loader's, ends the command.
Compile ==
  /\ phase = "starting"
  /\ ~noNative
  /\ \/ /\ \A i \in DOMAIN declared : Emits(declared[i].handler)
        /\ phase' = "compiled"
     \/ phase' = "compile_failed"
  /\ UNCHANGED <<declared, noNative, routes, answer>>

\* An empty module, which has to be compiled, linked and loaded too, takes the
\* place of the compiled one.
SkipCompile ==
  /\ phase = "starting"
  /\ noNative
  /\ phase' \in {"routed", "start_failed"}
  /\ UNCHANGED <<declared, noNative, routes, answer>>

CompiledRoutes == Kept(declared, {i \in DOMAIN declared : declared[i].handler.name \in CompiledFunctions})

\* Variant: each route is registered twice, with and without a trailing slash.
RegisterTwice ==
  LET compiled == CompiledRoutes IN
  /\ phase = "compiled"
  /\ routes' = [k \in DOMAIN (compiled \o compiled) |-> CompiledRoute((compiled \o compiled)[k])]
  /\ phase' = "routed"
  /\ UNCHANGED <<declared, noNative, answer>>
\* Variant: every route is registered.
RegisterAll ==
  /\ phase = "compiled"
  /\ routes' = [k \in DOMAIN declared |-> CompiledRoute(declared[k])]
  /\ phase' = "routed"
  /\ UNCHANGED <<declared, noNative, answer>>
\* The routes of the functions reported as compilable, in their order.
RegisterRoutes ==
  /\ phase = "compiled"
  /\ routes' = [k \in DOMAIN CompiledRoutes |-> CompiledRoute(CompiledRoutes[k])]
  /\ phase' = "routed"
  /\ UNCHANGED <<declared, noNative, answer>>

\* The Python app is imported and the port bound, or the command ends.
StartServing ==
  /\ phase = "routed"
  /\ phase' \in {"serving", "start_failed"}
  /\ UNCHANGED <<declared, noNative, routes, answer>>

-----------------------------------------------------------------------------
RouteInfo == [method : Methods, pattern : Patterns, handler : Handlers]

Init ==
  /\ \E n \in 1 .. MaxRoutes : declared \in [1 .. n -> RouteInfo]
  /\ noNative \in BOOLEAN
  /\ phase = "starting"
  /\ routes = <<>>
  /\ answer = Answer("none", <<>>, "nobody", <<>>, NoCall)

Next ==
  \/ Compile \/ SkipCompile \/ RegisterRoutes \/ StartServing
  \/ \E m \in Methods, path \in Paths : HandleRequest(m, path)

Spec == Init /\ [][Next]_vars

-----------------------------------------------------------------------------
(***************************************************************************)
(* Properties                                                              *)
(***************************************************************************)
\* Every variable has its type; the router never has more routes than the app.
TypeOK ==
  /\ DOMAIN declared \in {1 .. n : n \in 1 .. MaxRoutes}
  /\ \A i \in DOMAIN declared : declared[i] \in RouteInfo
  /\ noNative \in BOOLEAN
  /\ phase \in {"starting", "compiled", "compile_failed", "routed", "serving", "start_failed"}
  /\ DOMAIN routes \in {1 .. n : n \in 0 .. Len(declared)}
  /\ \A i \in DOMAIN routes : routes[i].info \in RouteInfo
  /\ answer.by \in {"nobody", "asgi", "native", "error"}
  /\ answer.call.reads \in {"nothing", "dict", "int"}

\* What a path means, independent of the router: its non-empty segments.
Meant(pattern) ==
  Kept(pattern, {i \in DOMAIN pattern : pattern[i].name # "" \/ pattern[i].kind = "param"})
Asked(path) == Kept(path, {i \in DOMAIN path : path[i] # ""})

Fits(info, path) ==
  LET want == Meant(info.pattern)
      have == Asked(path)
  IN  /\ Len(want) = Len(have)
      /\ \A i \in 1 .. Len(want) : want[i].kind = "param" \/ want[i].name = have[i]

Eligible(i, m, path) ==
  /\ declared[i].method = m
  /\ Fits(declared[i], path)
  /\ \E k \in DOMAIN declared :
       declared[k].handler.name = declared[i].handler.name /\ Compilable(declared[k].handler)

\* A request leaves Python alone exactly when a route of the app with a
\* compilable handler fits it, whatever the routes before and after.
NativeIffEligible ==
  phase = "serving" /\ answer.by # "nobody" =>
    (answer.by # "asgi" <=>
       ~noNative /\ \E i \in DOMAIN declared : Eligible(i, answer.method, answer.path))

\* Each argument of a native call is the path segment its parameter is named
\* after, whatever the order of the parameters in path and handler.
ArgumentsInPlace ==
  answer.by = "native" =>
    LET route == answer.route[1]
        given == route.info.handler.params
        taken == Kept(given, {i \in DOMAIN given : given[i].name \in ParamNames(route.info.pattern)})
        have  == Asked(answer.path)
        want  == Meant(route.info.pattern)
    IN  /\ Len(answer.call.args) = Len(taken)
        /\ \A k \in 1 .. Len(taken) :
             \E i \in 1 .. Len(want) :
               want[i].kind = "param" /\ want[i].name = taken[k].name
                 /\ answer.call.args[k] = have[i]

\* Starlette's choice: the first declared route that fits, segment by segment;
\* a parameter takes no empty segment.
AppPick(m, path) ==
  LET fits(i) ==
        /\ declared[i].method = m
        /\ Len(declared[i].pattern) = Len(path)
        /\ \A k \in DOMAIN path :
             IF declared[i].pattern[k].kind = "lit"
             THEN declared[i].pattern[k].name = path[k] ELSE path[k] # ""
  IN  {declared[i] : i \in {k \in DOMAIN declared : fits(k) /\ \A l \in 1 .. k - 1 : ~fits(l)}}

PlainPatterns ==
  \A i \in DOMAIN declared :
    \A k \in DOMAIN declared[i].pattern : declared[i].pattern[k].name # ""

\* In an app whose routes have no empty segments, native code takes the route
\* the app itself would have picked, unless that one is not compiled.
PicksAsAppUnlessSkipped ==
  answer.by \in {"native", "error"} /\ PlainPatterns =>
    \A pick \in AppPick(answer.method, answer.path) :
      pick = answer.route[1].info \/ pick.handler.name \notin CompiledFunctions

\* The function a symbol stands for: the first of that name.
FunctionNamed(name) ==
  declared[CHOOSE i \in DOMAIN declared :
             /\ declared[i].handler.name = name
             /\ \A k \in 1 .. i - 1 : declared[k].handler.name # name].handler

\* native.rs: "Type-safe call that dispatches based on known calling
\* convention."  Each native call would then pass what the compiled function
\* takes and read what it returns.
CallsAreTypeSafe ==
  answer.by = "native" =>
    LET f == FunctionNamed(answer.call.symbol) IN
      /\ Len(answer.call.args) = Len(f.params)
      /\ answer.call.reads = f.returns
=============================================================================
