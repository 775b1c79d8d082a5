------------------------------ MODULE Analysis ------------------------------
(***************************************************************************)
(* From source files to the findings that are computed without a model:    *)
(* symbols, calls at both granularities, components, data entities, routes, *)
(* requirements and workflow traces.                                        *)
(*                                                                          *)
(* A source file is a record                                                *)
(*   path, folder (before the first slash), mod (dotted module name, as a   *)
(*   sequence), lang, test (is_test_file), imports (dotted names), defs     *)
(*   (definitions in source order; `outer` is the place of the enclosing    *)
(*   definition, 0 at module level) and sites (call sites: `in` is the       *)
(*   place of the innermost enclosing function, 0 outside every function).  *)
(* A qualified name is the sequence of its parts; NoName and NoType are the *)
(* code's None.                                                             *)
(***************************************************************************)
EXTENDS Comprehensions

CONSTANT MaxDepth      \* DEFAULT_MAX_DEPTH, at least 1

ASSUME DepthAssumption == MaxDepth \in Nat \ {0}

NoName == <<>>
NoType == ""

(***************************************************************************)
(* Parsing                                                                 *)
(***************************************************************************)
QualifiedNames(src) ==
  LET q[i \in DOMAIN src.defs] ==
        LET d == src.defs[i]
        IN Append(IF d.outer = 0 THEN src.mod ELSE q[d.outer], d.name)
  IN q

\* The class a Python function is a method of: functions reset the class stack.
PythonParent(src, i) ==
  LET o == src.defs[i].outer
  IN IF o # 0 /\ src.defs[o].kind = "class" THEN QualifiedNames(src)[o] ELSE NoName

\* A grammar's method node takes whatever scope it is in for its class.
GrammarParent(src, i) ==
  LET d == src.defs[i]
  IN IF d.kind = "method" /\ d.outer # 0 THEN QualifiedNames(src)[d.outer] ELSE NoName

Kind(src, i, parent) ==
  CASE src.defs[i].kind = "class" -> "class"
    [] src.defs[i].kind # "class" /\ src.lang = "python" ->
         IF parent # NoName THEN "method" ELSE "function"
    [] OTHER -> src.defs[i].kind

\* Grammars yield neither fields, decorators nor return types.
Symbol(src, i) ==
  LET d == src.defs[i]
      parent == IF src.lang = "python" THEN PythonParent(src, i) ELSE GrammarParent(src, i)
      rich == src.lang = "python"
  IN [qn |-> QualifiedNames(src)[i], name |-> d.name, kind |-> Kind(src, i, parent),
      parent |-> parent, file |-> src.path, first |-> d.first, last |-> d.last,
      orm |-> rich /\ d.orm, fields |-> IF rich THEN d.fields ELSE <<>>,
      params |-> d.params, returns |-> IF rich THEN d.returns ELSE NoType,
      routes |-> IF rich THEN d.routes ELSE {}]

Encloses(src, i, j) ==
  LET enclosing[k \in 0 .. Len(src.defs)] ==
        IF k = 0 THEN {} ELSE {k} \cup enclosing[src.defs[k].outer]
  IN i \in enclosing[j]

\* Calls of a function: every site in it, those of the functions in it included.
CallsOf(src, i) ==
  LET inside == Having(src.sites, LAMBDA c : c.in # 0 /\ Encloses(src, i, c.in))
  IN [k \in DOMAIN inside |-> [caller |-> QualifiedNames(src)[i], callee |-> inside[k].callee]]

ParseFile(src) ==
  LET is(i) == src.defs[i].kind = "class"
      places == [i \in DOMAIN src.defs |-> i]
      classes == Having(places, is)
      functions == Having(places, LAMBDA i : ~is(i))
  IN [path |-> src.path, folder |-> src.folder, mod |-> src.mod, test |-> src.test,
      imports |-> src.imports,
      classes |-> [k \in DOMAIN classes |-> Symbol(src, classes[k])],
      functions |-> [k \in DOMAIN functions |-> Symbol(src, functions[k])],
      calls |-> FlattenSeq([k \in DOMAIN functions |-> CallsOf(src, functions[k])])]

(***************************************************************************)
(* Symbol table and method-level call graph                                *)
(***************************************************************************)
\* In the order in which build_symbol_table adds them.
Definitions(parsed) ==
  FlattenSeq([k \in DOMAIN parsed |-> parsed[k].classes \o parsed[k].functions])

\* symbols: a later definition of a qualified name takes the place of an earlier one.
BuildSymbolTable(parsed) ==
  LET defs == Definitions(parsed)
      firsts == Having([i \in DOMAIN defs |-> i],
                       LAMBDA i : \A j \in 1 .. (i - 1) : defs[j].qn # defs[i].qn)
  IN [k \in DOMAIN firsts |-> defs[SelectLastInSeq(defs, LAMBDA e : e.qn = defs[firsts[k]].qn)]]

\* Mutant: the first definition is guessed.
ResolveCalleeFirst(parsed, callee) ==
  LET named == Having(Definitions(parsed), LAMBDA e : e.name = callee)
  IN IF named # <<>> THEN named[1].qn ELSE NoName

\* by_simple_name lists a redefined name twice, so that it is never resolved.
ResolveCallee(parsed, callee) ==
  LET named == Having(Definitions(parsed), LAMBDA e : e.name = callee)
  IN IF Len(named) = 1 THEN named[1].qn ELSE NoName

\* The statically resolved edges; the others have no reader below.
BuildCallGraph(parsed) ==
  LET calls == FlattenSeq([k \in DOMAIN parsed |-> parsed[k].calls])
      resolved == [k \in DOMAIN calls |-> [caller |-> calls[k].caller,
                                           callee |-> ResolveCallee(parsed, calls[k].callee)]]
  IN Having(resolved, LAMBDA e : e.callee # NoName)

(***************************************************************************)
(* Module-level call graph, components, clusters                           *)
(***************************************************************************)
Related(a, b) == IsPrefix(a, b) \/ IsPrefix(b, a)

\* The exact module, or the first of those with the longest common prefix.
ResolveImport(parsed, imported) ==
  LET named(q) == SelectLastInSeq(parsed, LAMBDA m : m.mod = q)
      common(k) == IF Len(parsed[k].mod) < Len(imported) THEN Len(parsed[k].mod)
                                                          ELSE Len(imported)
      candidates == {k \in DOMAIN parsed : Related(parsed[k].mod, imported)}
      best == {k \in candidates : \A j \in candidates :
                 common(j) < common(k) \/ (common(j) = common(k) /\ k <= j)}
  IN IF named(imported) # 0 THEN {parsed[named(imported)].path}
     ELSE {parsed[named(parsed[k].mod)].path : k \in best}

DefinedIn(parsed, name) ==
  {parsed[k].path : k \in {j \in DOMAIN parsed :
     \E e \in ToSet(parsed[j].classes \o parsed[j].functions) : e.name = name}}

\* The file a call at module granularity leads to: the only other one defining the name.
CalledFile(parsed, m, callee) ==
  LET others == DefinedIn(parsed, callee) \ {m.path}
  IN {p \in others : others = {p}}

BuildModuleCallGraph(parsed) ==
  UNION {LET m == parsed[k]
             imports == (UNION {ResolveImport(parsed, i) : i \in m.imports}) \ {m.path}
             called == UNION {CalledFile(parsed, m, c.callee) : c \in ToSet(m.calls)}
         IN {<<m.path, p>> : p \in imports \cup called} : k \in DOMAIN parsed}

\* Members of each component: _components_from_folder_topology, _component_edges.
Components(parsed) ==
  [f \in {m.folder : m \in ToSet(parsed)} |-> {m.path : m \in {x \in ToSet(parsed) : x.folder = f}}]

ComponentOf(components, path) == {c \in DOMAIN components : path \in components[c]}

ComponentEdges(parsed, components) ==
  {d \in (DOMAIN components) \X (DOMAIN components) :
     d[1] # d[2] /\ \E e \in BuildModuleCallGraph(parsed) :
                      e[1] \in components[d[1]] /\ e[2] \in components[d[2]]}

HLDBuilder(parsed) ==
  LET components == Components(parsed)
  IN [components |-> components, edges |-> ComponentEdges(parsed, components)]

\* Communities come from label propagation and names from a model: any partition,
\* any names. Without an edge it is one cluster per folder.
CapabilityClusters(parsed, partitions, names) ==
  LET paths == {m.path : m \in ToSet(parsed)}
      raw == IF BuildModuleCallGraph(parsed) = {}
             THEN {{Components(parsed)[f] : f \in DOMAIN Components(parsed)}}
             ELSE {p \in partitions : UNION p = paths}
  IN UNION {{{[name |-> label[c], members |-> c] : c \in r} : label \in [r -> names]} : r \in raw}

(***************************************************************************)
(* Data entities, routes, requirements                                     *)
(***************************************************************************)
\* An ORM class by its simple name, the last one winning; then SQL tables whose name is free.
DataEntities(parsed, tables) ==
  LET orm == Having(FlattenSeq([k \in DOMAIN parsed |-> parsed[k].classes]), LAMBDA c : c.orm)
      last(n) == orm[SelectLastInSeq(orm, LAMBDA c : c.name = n)]
      classes == {c.name : c \in ToSet(orm)}
  IN {[name |-> n, file |-> last(n).file, fields |-> last(n).fields] : n \in classes}
     \cup {[name |-> t.name, file |-> t.file, fields |-> t.fields] :
             t \in {u \in tables : u.name \notin classes}}

\* Routes of decorated functions; specification files are further `contracts`.
ApiContracts(parsed, contracts) ==
  contracts \cup UNION {UNION {{[route |-> r[1], method |-> r[2], file |-> e.file] : r \in e.routes} :
                                 e \in ToSet(m.functions \o m.classes)} : m \in ToSet(parsed)}

SupportingTests(parsed, name) ==
  {c.caller : c \in UNION {{x \in ToSet(m.calls) : x.callee = name} :
                             m \in {y \in ToSet(parsed) : y.test}}}

FRDExtractor(parsed) ==
  UNION {{[ref |-> f.qn, file |-> f.file, tests |-> SupportingTests(parsed, f.name)] :
            f \in ToSet(m.functions)} : m \in {x \in ToSet(parsed) : ~x.test}}

LLDParser(parsed) ==
  FlattenSeq([k \in DOMAIN parsed |-> parsed[k].functions \o parsed[k].classes])

(***************************************************************************)
(* Workflow traces                                                         *)
(***************************************************************************)
StaticCallees(calls, q) ==
  LET from == Having(calls, LAMBDA e : e.caller = q)
  IN [k \in DOMAIN from |-> from[k].callee]

EntryPoints(parsed) ==
  LET calls == BuildCallGraph(parsed)
  IN {e \in ToSet(BuildSymbolTable(parsed)) :
        /\ e.kind \in {"function", "method"}
        /\ \A c \in ToSet(calls) : c.callee # e.qn
        /\ \E c \in ToSet(calls) : c.caller = e.qn}

\* Mutant: visited methods are not remembered.
WalkAgain(calls, start) ==
  LET hop(steps) ==
        LET callees == StaticCallees(calls, Last(steps))
        IN IF callees = <<>> THEN steps ELSE Append(steps, callees[1])
      walk[n \in 0 .. MaxDepth] == IF n = 0 THEN <<start>> ELSE hop(walk[n - 1])
  IN walk[MaxDepth]

\* The first callee not yet visited, MaxDepth times.
Walk(calls, start) ==
  LET hop(steps) ==
        LET callees == StaticCallees(calls, Last(steps))
            k == SelectInSeq(callees, LAMBDA c : c \notin ToSet(steps))
        IN IF k = 0 THEN steps ELSE Append(steps, callees[k])
      walk[n \in 0 .. MaxDepth] == IF n = 0 THEN <<start>> ELSE hop(walk[n - 1])
  IN walk[MaxDepth]

\* `clusters` may hold a file twice under one name only; fewer entry points than
\* max_traces are assumed.
BuildWorkflowTraces(parsed, clusters) ==
  LET calls == BuildCallGraph(parsed)
      capability(file) == {c.name : c \in {x \in clusters : file \in x.members}}
      trace(e) == [name |-> e.name, entry |-> e.qn, steps |-> Walk(calls, e.qn),
                   capability |-> capability(e.file)]
  IN {t \in {trace(e) : e \in EntryPoints(parsed)} : Len(t.steps) >= 2}
=============================================================================
