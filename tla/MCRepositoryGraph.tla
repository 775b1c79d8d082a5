------------------------- MODULE MCRepositoryGraph --------------------------
(***************************************************************************)
(* Small repositories for TLC: two or three files of a few definitions.     *)
(***************************************************************************)
EXTENDS RepositoryGraph

Def(kind, name, outer) ==
  [kind |-> kind, name |-> name, outer |-> outer, first |-> 1, last |-> 2, orm |-> FALSE,
   fields |-> <<>>, params |-> <<"self", "x">>, returns |-> "", routes |-> {}]
Fn(name) == Def("function", name, 0)
Class(name) == Def("class", name, 0)
Orm(name, ref) ==
  [Class(name) EXCEPT !.orm = TRUE, !.fields = <<[name |-> "id", ref |-> ref]>>]
Handler(name) == [Fn(name) EXCEPT !.returns = "C", !.routes = {<<"/r", "GET">>}]
Site(in, callee) == [in |-> in, callee |-> callee]
Body(defs, sites) == [defs |-> defs, sites |-> sites]

MCCallees == {"f", "g", "C"}

\* A caller, a chain, a redefinition, a class with a method, a closure, a class and a
\* function of one name, a cycle.
Callers == UNION {{
  Body(<<Fn("f")>>, <<Site(1, n)>>),
  Body(<<Fn("f"), Fn("h")>>, <<Site(1, n), Site(2, "f"), Site(2, n)>>),
  Body(<<Fn("f"), Fn("f")>>, <<Site(2, n)>>),
  Body(<<Class("K"), Def("function", "f", 1), Fn("K")>>, <<Site(2, n), Site(0, "f")>>),
  Body(<<Fn("h"), Def("function", "f", 1), Def("class", "D", 1)>>, <<Site(2, n), Site(1, "f")>>),
  Body(<<Handler("f"), Fn("h")>>, <<Site(1, n), Site(1, "h"), Site(2, "f")>>)} : n \in MCCallees}
Callees == {
  Body(<<Fn("g")>>, <<Site(1, "g")>>),
  Body(<<Fn("g")>>, <<>>),
  Body(<<Orm("C", "D"), Def("function", "g", 1)>>, <<Site(2, "h")>>),
  Body(<<Orm("C", ""), Fn("g"), Fn("f")>>, <<Site(2, "C"), Site(3, "g")>>),
  Body(<<Fn("C"), Class("C"), Def("function", "g", 2)>>, <<>>)}
\* A method node of a grammar, in a class and in a function.
Grammar == {
  Body(<<Def("class", "C", 0), Def("method", "g", 1), Fn("k")>>, <<Site(2, "k"), Site(3, "g")>>),
  Body(<<Fn("g"), Def("method", "h", 1), Def("method", "k", 0)>>, <<Site(2, "k")>>)}

Source(path, folder, mod, lang, test, imports, body) ==
  [path |-> path, folder |-> folder, mod |-> mod, lang |-> lang, test |-> test,
   imports |-> imports, defs |-> body.defs, sites |-> body.sites]

X(body, imports) == Source("a/x.py", "a", <<"a", "x">>, "python", FALSE, imports, body)
Y(body) == Source("b/y.py", "b", <<"b", "y">>, "python", FALSE, {}, body)
YJs(body) == Source("b/y.js", "b", <<"b", "y">>, "javascript", FALSE, {}, body)
T(body) == Source("b/test_y.py", "b", <<"b", "test_y">>, "python", TRUE, {<<"b", "y">>}, body)

Sources ==
  {<<X(b, i), Y(c)>> : b \in Callers, c \in Callees, i \in {{}, {<<"b">>}, {<<"b", "y", "g">>}}}
  \cup {<<X(b, {}), YJs(c)>> : b \in Callers, c \in Grammar}
  \cup {<<Y(b), YJs(c), X(d, i)>> :
          b \in Callees, c \in Grammar, i \in {{}, {<<"b", "y">>}}, d \in {Body(<<Fn("f")>>, <<Site(1, "g")>>)}}
  \cup {<<Y(Body(<<Handler("f")>>, <<>>)), YJs(Body(<<Class("f")>>, <<>>))>>}
  \cup {<<Y(b), T(c)>> : b \in Callees, c \in {Body(<<Fn("t")>>, <<Site(1, "g"), Site(1, "C")>>)}}

AllAgents == {"hld_builder", "lld_parser", "frd_extraction", "business_rule_extraction",
              "domain_glossary_builder", "gap_detector", "security_control_scanner",
              "capability_clustering"}

MCRepository(sources, agents) ==
  [repo |-> "r", files |-> {m.path : m \in ToSet(sources)} \cup {"schema.sql"}, sources |-> sources,
   agents |-> agents,
   tables |-> {[name |-> t, file |-> "schema.sql", fields |-> <<[name |-> "id", ref |-> ""]>>] :
                 t \in {"C", "E"}},
   contracts |-> {[route |-> "/s", method |-> "GET", file |-> "b/openapi.yml"]},
   rules |-> {[id |-> <<"a/x.py", "RATE">>, file |-> "a/x.py", line |-> 2],
              [id |-> <<"b/y.py", "RATE">>, file |-> "b/y.py", line |-> 3]},
   terms |-> {"order"}, gaps |-> {"corner"}, controls |-> {"auth"},
   conflicts |-> {[rule |-> <<"a/x.py", "RATE">>, table |-> "E"]}]

MCRepositories ==
  {MCRepository(s, AllAgents) : s \in Sources}
  \cup {MCRepository(s, AllAgents \ {a}) : s \in {<<X(b, {}), Y(c)>> : b, c \in Callees}, a \in AllAgents}

MCPaths == {"a/x.py", "b/y.py", "b/y.js", "b/test_y.py"}
MCPartitions == {{MCPaths \cap p} : p \in SUBSET MCPaths}
                \cup {{p, MCPaths \ p} : p \in SUBSET MCPaths}
                \cup UNION {{{p, q} : p \in SUBSET (MCPaths \ q)} : q \in SUBSET MCPaths}
MCNames == {"orders", "billing"}
=============================================================================
