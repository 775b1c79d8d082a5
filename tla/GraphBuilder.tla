---------------------------- MODULE GraphBuilder ----------------------------
(***************************************************************************)
(* The batch of nodes and edges that one run commits: graph_builder.py and *)
(* build_graph_batch. A node is its label and natural key; an edge is its  *)
(* type and its two ends. Properties of nodes are left out, except that a  *)
(* node of one key is one node whatever the lists say of it.               *)
(*                                                                          *)
(* The state `s` has the fields build_graph_batch reads: repo, files,       *)
(* symbols, calls, entities, contracts, components, dependencies, lld,      *)
(* clusters, traces, rules, terms, gaps, requirements, controls, conflicts. *)
(***************************************************************************)
EXTENDS Naturals, Sequences, SequencesExt

Node(label, key) == <<label, key>>
Edge(type, source, target) == <<type, source, target>>
Part(nodes, edges) == [nodes |-> nodes, edges |-> edges]

NodesOf(label, keys) == {Node(label, k) : k \in keys}

\* _component_for_file: folders are disjoint, so there is at most one.
ComponentForFile(s, file) == {c \in DOMAIN s.components : file \in s.components[c]}

Feature(c) == Node("Feature", c.name)

Method(qn) == Node("Method", qn)
Methods(s) == {e \in ToSet(s.symbols) : e.kind # "class"}
Classes(s) == {e \in ToSet(s.symbols) : e.kind = "class"}

(***************************************************************************)
(* Technical graph                                                         *)
(***************************************************************************)
BuildRepositoryNode(s) == Part({Node("Repository", s.repo)}, {})

BuildFileNodes(s) == Part(NodesOf("File", s.files), {})

BuildServiceNodesAndEdges(s) ==
  Part(NodesOf("Service", DOMAIN s.components),
       {Edge("CONTAINS", Node("Repository", s.repo), Node("Service", c)) : c \in DOMAIN s.components}
       \cup (UNION {{Edge("CONTAINS", Node("Service", c), Node("File", f)) : f \in s.components[c]} :
                      c \in DOMAIN s.components})
       \cup {Edge("DEPENDS_ON", Node("Service", d[1]), Node("Service", d[2])) : d \in s.dependencies})

BuildClassAndMethodNodes(s) ==
  Part(NodesOf("Class", {e.qn : e \in Classes(s)}) \cup NodesOf("Method", {e.qn : e \in Methods(s)}), {})

\* Only for methods with a node; every signature of a redefined method counts.
BuildParameterNodesAndEdges(s) ==
  LET entries == {e \in ToSet(s.lld) : Method(e.qn) \in BuildClassAndMethodNodes(s).nodes}
      places(e) == {i \in DOMAIN e.params : e.params[i] \notin {"self", "cls"}}
      parameter(e, i) == Node("Parameter", <<e.qn, i, e.params[i]>>)
  IN Part(UNION {{parameter(e, i) : i \in places(e)} : e \in entries},
          UNION {{Edge("HAS_PARAMETER", Method(e.qn), parameter(e, i)) : i \in places(e)} : e \in entries})

\* Methods that nothing calls statically, entry points included.
ApplyReachability(s) ==
  [q \in {e.qn : e \in Methods(s)} |->
     IF \E c \in ToSet(s.calls) : c.callee = q THEN "reachable" ELSE "unreachable"]

DefinedBy(e) ==
  IF e.kind = "method" /\ e.parent # <<>> THEN Node("Class", e.parent) ELSE Node("File", e.file)

\* Mutant: calls are not restricted to known methods.
BuildDefinesAndCallsEdgesAll(s) ==
  Part({},
       {Edge("DEFINES", Node("File", e.file), Node("Class", e.qn)) : e \in Classes(s)}
       \cup {Edge("DEFINES", DefinedBy(e), Method(e.qn)) : e \in Methods(s)}
       \cup {Edge("CALLS", Method(c.caller), Method(c.callee)) : c \in ToSet(s.calls)})

BuildDefinesAndCallsEdges(s) ==
  LET known == {e.qn : e \in Methods(s)}
  IN Part({},
       {Edge("DEFINES", Node("File", e.file), Node("Class", e.qn)) : e \in Classes(s)}
       \cup {Edge("DEFINES", DefinedBy(e), Method(e.qn)) : e \in Methods(s)}
       \cup {Edge("CALLS", Method(c.caller), Method(c.callee)) :
               c \in {x \in ToSet(s.calls) : x.caller \in known /\ x.callee \in known}})

\* A field is its name and the entity its foreign key names.
NoRef == ""

BuildTableAndDatabaseNodesAndEdges(s) ==
  LET table(t) == Node("Table", t.name)
      database == Node("Database", s.repo)
  IN Part({database} \cup {table(t) : t \in s.entities},
       {Edge("BELONGS_TO", table(t), database) : t \in s.entities}
       \cup (UNION {{Edge("OWNS", Node("Service", c), table(t)) : c \in ComponentForFile(s, t.file)} :
                      t \in s.entities})
       \cup UNION {{Edge("DEPENDS_ON", table(t), Node("Table", f.ref)) :
                      f \in {x \in ToSet(t.fields) : x.ref # NoRef}} : t \in s.entities})

BuildFieldNodesAndEdges(s) ==
  LET field(t, f) == Node("Field", <<t.name, f.name>>)
  IN Part(UNION {{field(t, f) : f \in ToSet(t.fields)} : t \in s.entities},
          UNION {{Edge("HAS_FIELD", Node("Table", t.name), field(t, f)) : f \in ToSet(t.fields)} :
                   t \in s.entities})

BuildApiNodesAndEdges(s) ==
  LET api(c) == Node("API", <<c.route, c.method>>)
  IN Part({api(c) : c \in s.contracts},
          UNION {{Edge("EXPOSES", Node("Service", x), api(c)) : x \in ComponentForFile(s, c.file)} :
                   c \in s.contracts})

\* `returns` is the declared type after _unwrap_return_type.
BuildMethodReturnsEdges(s) ==
  Part({}, {Edge("RETURNS", Method(e.qn), Node("Table", e.returns)) :
              e \in {x \in ToSet(s.lld) : x.returns \in {t.name : t \in s.entities}}})

(***************************************************************************)
(* Business graph                                                          *)
(***************************************************************************)
Capability(c) == Node("BusinessCapability", c.name)

BuildBusinessCapabilityNodes(s) == Part({Capability(c) : c \in s.clusters}, {})

BuildFeatureNodesAndEdges(s) ==
  Part({Feature(c) : c \in s.clusters},
       {Edge("HAS_FEATURE", Capability(c), Feature(c)) : c \in s.clusters})

\* A workflow is keyed by the entry point's simple name, a step by its place.
BuildWorkflowNodesAndEdges(s) ==
  LET workflow(t) == Node("Workflow", t.name)
      step(t, i) == Node("Step", <<t.name, i>>)
      each(E(_, _)) == UNION {{E(t, i) : i \in DOMAIN t.steps} : t \in s.traces}
      hasStep(t, i) == Edge("HAS_STEP", workflow(t), step(t, i))
      realizedBy(t, i) == Edge("REALIZED_BY", workflow(t), Method(t.steps[i]))
      executes(t, i) == Edge("EXECUTES", step(t, i), Method(t.steps[i]))
  IN Part({workflow(t) : t \in s.traces} \cup each(step),
       (UNION {{Edge("HAS_WORKFLOW", Node("Feature", c), workflow(t)) : c \in t.capability} : t \in s.traces})
       \cup each(hasStep) \cup each(realizedBy) \cup each(executes))

BuildBusinessRuleNodes(s) == Part(NodesOf("BusinessRule", {r.id : r \in s.rules}), {})

\* The first method of the rule's file whose lines enclose the rule's.
EnclosingMethod(s, file, line) ==
  LET k == SelectInSeq(s.symbols, LAMBDA e : /\ e.kind # "class" /\ e.file = file
                                             /\ e.first <= line /\ line <= e.last)
  IN IF k = 0 THEN {} ELSE {s.symbols[k].qn}

BuildBusinessRuleImplementedByEdges(s) ==
  Part({}, UNION {{Edge("IMPLEMENTED_BY", Node("BusinessRule", r.id), Method(q)) :
                     q \in EnclosingMethod(s, r.file, r.line)} : r \in s.rules})

BuildDomainConceptNodes(s) == Part(NodesOf("DomainConcept", s.terms), {})

BuildGapNodeAndEdges(s) ==
  Part(NodesOf("Gap", s.gaps),
       {Edge("HAS_GAP", Capability(c), Node("Gap", g)) : c \in s.clusters, g \in s.gaps})

BuildFeatureImplementedByEdges(s) ==
  Part({}, UNION {{Edge("IMPLEMENTED_BY", Feature(c), Node("Service", x)) :
                     x \in {y \in DOMAIN s.components : c.members \cap s.components[y] # {}}} :
                   c \in s.clusters})

(***************************************************************************)
(* Requirements, controls, conflicts                                       *)
(***************************************************************************)
BuildRequirementNodes(s) == Part(NodesOf("Requirement", {r.ref : r \in s.requirements}), {})

BuildTestCaseNodesAndEdges(s) ==
  Part(NodesOf("TestCase", UNION {r.tests : r \in s.requirements}),
       UNION {{Edge("VALIDATES", Node("TestCase", t), Node("Requirement", r.ref)) : t \in r.tests} :
                r \in s.requirements})

BuildRequirementImplementedByEdges(s) ==
  Part({}, {Edge("IMPLEMENTS", Node("File", r.file), Node("Requirement", r.ref)) : r \in s.requirements})

BuildSecurityControlNodes(s) == Part(NodesOf("SecurityControl", s.controls), {})

\* Value conflicts only: the rule of the one claim, the table of the other.
BuildConflictEdges(s) ==
  Part({}, {Edge("CONFLICTS_WITH", Node("BusinessRule", c.rule), Node("Table", c.table)) : c \in s.conflicts})

BuildGraphBatch(s) ==
  LET parts == {BuildRepositoryNode(s), BuildFileNodes(s), BuildServiceNodesAndEdges(s),
                BuildClassAndMethodNodes(s), BuildParameterNodesAndEdges(s),
                BuildDefinesAndCallsEdges(s), BuildTableAndDatabaseNodesAndEdges(s),
                BuildFieldNodesAndEdges(s), BuildApiNodesAndEdges(s), BuildMethodReturnsEdges(s),
                BuildBusinessCapabilityNodes(s), BuildFeatureNodesAndEdges(s),
                BuildFeatureImplementedByEdges(s), BuildWorkflowNodesAndEdges(s),
                BuildBusinessRuleNodes(s), BuildBusinessRuleImplementedByEdges(s),
                BuildDomainConceptNodes(s), BuildGapNodeAndEdges(s), BuildRequirementNodes(s),
                BuildTestCaseNodesAndEdges(s), BuildRequirementImplementedByEdges(s),
                BuildSecurityControlNodes(s), BuildConflictEdges(s)}
  IN Part(UNION {p.nodes : p \in parts}, UNION {p.edges : p \in parts})
=============================================================================
