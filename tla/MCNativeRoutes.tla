--------------------------- MODULE MCNativeRoutes ---------------------------
EXTENDS NativeRoutes

Lit(s)   == [kind |-> "lit", name |-> s]
Param(s) == [kind |-> "param", name |-> s]
P(n, t)  == [name |-> n, type |-> t]

\* An item by id or by name, two parameters in either order, and a route that
\* could be mistaken for any of them.
MCPatterns ==
  {<<Lit("items"), Param("x")>>, <<Param("y"), Param("x")>>,
   <<Lit("items"), Lit("7")>>, <<Lit("items")>>, <<Lit("items"), Lit("")>>}

MCPaths ==
  {<<"items", "7">>, <<"items", "a">>, <<"7", "8">>, <<"items">>, <<"items", "">>,
   <<"items", "", "7">>, <<"other", "7", "8">>}

MCHandlers ==
  {[name |-> "f", params |-> <<P("x", "int")>>, returns |-> "dict", async |-> FALSE, body |-> "plain"],
   [name |-> "g", params |-> <<P("x", "int"), P("y", "int")>>, returns |-> "int", async |-> FALSE, body |-> "plain"],
   [name |-> "h", params |-> <<P("x", "str")>>, returns |-> "dict", async |-> FALSE, body |-> "plain"],
   [name |-> "k", params |-> <<>>, returns |-> "dict", async |-> TRUE, body |-> "plain"],
   [name |-> "f", params |-> <<>>, returns |-> "dict", async |-> FALSE, body |-> "partial"],
   [name |-> "u", params |-> <<P("x", "unknown")>>, returns |-> "int", async |-> FALSE, body |-> "plain"]}
=============================================================================
