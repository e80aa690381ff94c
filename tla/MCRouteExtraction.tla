-------------------------- MODULE MCRouteExtraction --------------------------
\* Apps of the three frameworks, written as their documentation does and otherwise.
EXTENDS RouteExtraction

Brace(x) == [kind |-> "brace", name |-> x]
Angle(x) == [kind |-> "angle", name |-> x]
Spelled(segments, has) == [segments |-> segments, has |-> has]

MCTexts ==
  [root  |-> Spelled(Root, {}),
   items |-> Spelled(<<Lit(""), Lit("items"), Lit("")>>, {}),
   brace |-> Spelled(<<Lit(""), Lit("items"), Brace("a")>>, {}),
   angle |-> Spelled(<<Lit("items"), Angle("a"), Lit("")>>, {}),
   empty |-> Spelled(<<Lit("")>>, {}),
   dotget |-> Spelled(<<Lit(""), Lit("x.get")>>, {"get"}),
   get   |-> Spelled(<<Lit("get")>>, {}),
   post  |-> Spelled(<<Lit("post")>>, {})]

MCBeginnings ==
  [get |-> {"get"}, post |-> {"post"}, put |-> {"put"}, delete |-> {"delete"}, patch |-> {"patch"},
   route |-> {"route"}, getter |-> {"get"}, cached |-> {}]

App(v)        == Attribute(Name("app"), v)
Verb(v, x)    == Call(App(v), <<Text(x)>>)
Route(x, ms)  == Call(App("route"), <<Text(x), Keyword("methods", List(ms))>>)
Auth          == Name("auth")
Cached        == Call(Attribute(Name("cache"), "cached"), <<Keyword("ttl", IntLit(1))>>)
Getter        == Attribute(Name("cache"), "getter")

Body(v) == <<Return(<<v>>)>>
Handler(f, decorators, value) ==
  Decorated(Def("def", f, <<Param("a", Name("int"))>>, Name("int"), Body(value)), decorators)
AsyncHandler(f, decorators) ==
  Decorated(Def("asyncdef", f, <<>>, Absent, Body(IntLit(1))), decorators)

\* Bodies: inferred, not known to the parser, of an unknown name, an integer out of range.
Values == {Name("a"), IfExp(Name("a"), IntLit(1), IntLit(2)), Name("helper"), IntLit(9)}

Decorations ==
  {<<>>, <<Auth>>, <<Verb("get", "root")>>, <<Verb("post", "items")>>, <<Verb("delete", "brace")>>,
   <<Verb("put", "root")>>, <<Verb("patch", "angle")>>,
   <<Verb("get", "dotget")>>, <<Verb("post", "dotget")>>, <<Verb("get", "brace"), Verb("post", "root")>>,
   <<Auth, Verb("get", "items")>>, <<Cached, Verb("get", "angle")>>, <<Getter>>, <<Getter, Verb("post", "root")>>,
   <<Call(App("get"), <<Name("PATH")>>)>>, <<App("get")>>,
   <<Verb("route", "root")>>, <<Verb("route", "angle")>>, <<Verb("route", "brace")>>,
   <<Verb("route", "items"), Verb("route", "angle")>>, <<Auth, Verb("route", "items")>>,
   <<Route("items", <<Text("get"), Text("post")>>)>>, <<Route("root", <<Text("post")>>)>>}

WebApp(class) == <<Import("m"), Assign(<<"app">>, Call(Name(class), <<>>))>>
Decorating ==
  {WebApp(class) \o <<Handler("f", d, v)>> : class \in {"FastAPI", "Flask"}, d \in Decorations, v \in Values}
  \cup {WebApp(class) \o <<Handler("f", d, v), Handler("g", e, Name("a"))>> :
          class \in {"FastAPI", "Flask"}, d, e \in Decorations, v \in {Name("a"), IfExp(Name("a"), IntLit(1), IntLit(2))}}
  \cup {WebApp("FastAPI") \o <<AsyncHandler("f", <<Verb("get", "root")>>), Handler("f", <<Verb("post", "root")>>, Name("a"))>>,
        <<Handler("f", <<Verb("get", "root")>>, Name("a"))>>}

View(x, f)  == Call(Name("path"), <<Text(x), Name(f)>>)
Urls(parts) == Assign(<<"urlpatterns">>, List(parts))
Elements2 == {View("items", "f"), View("angle", "g"), View("empty", "f"), View("brace", "g"), View("root", "h"),
              Call(Name("path"), <<Text("items")>>), Call(Name("path"), <<Name("PATH"), Name("f")>>),
              Call(Name("path"), <<Text("root"), Attribute(Name("f"), "get")>>),
              Call(Name("re_path"), <<Text("root"), Name("f")>>), Text("items")}
Views2(v)  == <<Handler("f", <<>>, v), Handler("g", <<Auth>>, Name("a"))>>
Listing ==
  {Views2(v) \o <<Urls(<<e1, e2>>)>> : v \in Values, e1, e2 \in Elements2}
  \cup {<<Urls(<<View("items", "f")>>)>> \o Views2(Name("a")), Views2(Name("a")),
        Views2(Name("a")) \o <<Assign(<<"urlpatterns">>, Tuple(<<View("items", "f")>>))>>,
        Views2(Name("a")) \o <<Urls(<<View("items", "f")>>), Urls(<<View("angle", "g")>>)>>,
        <<Handler("f", <<Getter>>, Name("a")), Urls(<<View("items", "f")>>)>>}

MCSources == Decorating \cup Listing
=============================================================================
