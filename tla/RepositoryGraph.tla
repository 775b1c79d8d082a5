-------------------------- MODULE RepositoryGraph ---------------------------
(***************************************************************************)
(* One run of one repository, as data: its sources are analysed, findings  *)
(* are rejected in review, and the rest becomes the batch of nodes and      *)
(* edges of the knowledge graph. The order of the nodes in between, their   *)
(* failures and repetitions are the subject of PipelineGraph.               *)
(***************************************************************************)
EXTENDS Findings, FiniteSets

CONSTANTS Repositories,  \* repositories to analyse
          Partitions,    \* partitions of paths that clustering may return
          Names          \* names the model may give a capability

\* A file is parsed once and is one of the repository's. A definition comes after the one
\* it is in and has a name; classes return nothing.
IsSource(src) ==
  /\ src.mod \in Seq(STRING)
  /\ src.sites \in Seq(ToSet(src.sites))
  /\ src.defs \in Seq(ToSet(src.defs))
  /\ \A i \in DOMAIN src.defs :
       /\ src.defs[i].kind \in {"class", "function", "method"}
       /\ src.defs[i].outer \in 0 .. (i - 1)
       /\ src.defs[i].name \in STRING \ {NoType}
       /\ src.defs[i].kind = "class" => src.defs[i].returns = NoType

\* A value conflict is between a rule and a table that were found (conflicts.py).
ASSUME RepositoryAssumption ==
  \A r \in Repositories :
    /\ r.sources \in Seq(ToSet(r.sources))
    /\ \A k \in DOMAIN r.sources : IsSource(r.sources[k]) /\ r.sources[k].path \in r.files
    /\ \A j, k \in DOMAIN r.sources : r.sources[j].path = r.sources[k].path => j = k
    /\ \A t \in r.tables : t.name # NoType
    /\ \A c \in r.conflicts :
         /\ c.rule \in {x.id : x \in r.rules}
         /\ c.table \in {t.name : t \in DataEntities(ParsedModules(r), r.tables)}

VARIABLES repository, stage, found, batch

runVars == <<repository, stage, found, batch>>

Parsed == ParsedModules(repository)

NoBatch == Part({}, {})
NoFindings == [repo |-> repository.repo]

RunInit ==
  /\ repository \in Repositories
  /\ stage = "ingested"
  /\ found = NoFindings
  /\ batch = NoBatch

Analyse ==
  /\ stage = "ingested"
  /\ \E clusters \in IF "capability_clustering" \in repository.agents
                     THEN CapabilityClusters(Parsed, Partitions, Names) ELSE {{}} :
       found' = AllFindings(repository, clusters)
  /\ stage' = "analysed"
  /\ UNCHANGED <<repository, batch>>

\* Any finding that can be flagged may be rejected. Traces are not revised.
ApplyHitlResolutions ==
  /\ stage = "analysed"
  /\ \E clusters \in SUBSET found.clusters, terms \in {found.terms, {}},
        controls \in {found.controls, {}}, requirements \in {found.requirements, {}} :
       found' = [found EXCEPT !.clusters = clusters, !.terms = terms, !.controls = controls,
                              !.requirements = requirements]
  /\ stage' = "reviewed"
  /\ UNCHANGED <<repository, batch>>

WriteKnowledgeGraph ==
  /\ stage = "reviewed"
  /\ batch' = BuildGraphBatch(found)
  /\ stage' = "written"
  /\ UNCHANGED <<repository, found>>

RunNext == Analyse \/ ApplyHitlResolutions \/ WriteKnowledgeGraph

RunSpec == RunInit /\ [][RunNext]_runVars

(***************************************************************************)
(* Properties                                                              *)
(***************************************************************************)
DefinedTwice(qn) == Cardinality({e \in UNION {ToSet(m.classes \o m.functions) : m \in ToSet(Parsed)} :
                                   e.qn = qn}) > 1

EdgesOf(type) == {e \in batch.edges : e[1] = type}
KeyOf(end) == end[2]

\* The method-level and the module-level call graph are built by two agents that
\* resolve names separately (analysis/call_graph.py, agents/shared/call_graph.py). Where
\* the graph says that a method calls one of another component, it also says that the
\* component depends on the other, except for names defined more than once.
GranularitiesAgree ==
  stage = "written" =>
    \A call \in EdgesOf("CALLS") :
      LET from == KeyOf(call[2])   to == KeyOf(call[3])
          service(qn) == ComponentForFile(found, found.symbols[SelectInSeq(found.symbols, LAMBDA e : e.qn = qn)].file)
      IN ~DefinedTwice(from) =>
           \A c \in service(from), d \in service(to) :
             c # d => Edge("DEPENDS_ON", Node("Service", c), Node("Service", d)) \in batch.edges

\* Neo4j drops an edge whose ends it does not find, without a word (neo4j_writer.py). A
\* batch asks for such an edge in these cases only: a workflow step that is a class, a
\* workflow of a rejected capability, a method whose "class" is a function or was
\* redefined as one, a signature or return type of a name redefined as a class, and a
\* foreign key to an entity nobody extracted. Everything else that is related in the
\* batch will be related in the graph.
EdgesEndInBatch ==
  \A e \in batch.edges :
    \/ {e[2], e[3]} \subseteq batch.nodes
    \/ /\ e[1] \in {"REALIZED_BY", "EXECUTES"}
       /\ \E c \in Classes(found) : c.qn = KeyOf(e[3])
    \/ /\ e[1] = "HAS_WORKFLOW"
       /\ \A c \in found.clusters : c.name # KeyOf(e[2])
    \/ /\ e[1] = "DEFINES" /\ e[2][1] = "Class"
       /\ \A c \in Classes(found) : c.qn # KeyOf(e[2])
    \/ /\ e[1] = "RETURNS"
       /\ DefinedTwice(KeyOf(e[2]))
    \/ /\ e[1] = "DEPENDS_ON" /\ e[2][1] = "Table"
       /\ \A t \in found.entities : t.name # KeyOf(e[3])

\* A workflow in the graph is a path of calls: the methods of its consecutive steps call
\* one another, and none comes twice. It takes a name for granted that one entry point has:
\* workflows of entry points with one simple name are merged, step by step
\* (workflow_trace.py, graph_builder.py).
WorkflowsFollowCalls ==
  stage = "written" =>
    \A w \in {n \in batch.nodes : n[1] = "Workflow"} :
      LET of(i) == {KeyOf(e[3]) : e \in {x \in EdgesOf("EXECUTES") : KeyOf(x[2]) = <<KeyOf(w), i>>}}
          entries == {e \in EntryPoints(Parsed) : e.name = KeyOf(w)}
          steps == {KeyOf(e[3])[2] : e \in {x \in EdgesOf("HAS_STEP") : x[2] = w}}
      IN Cardinality(entries) = 1 =>
           /\ steps = 1 .. Cardinality(steps)
           /\ \A i \in steps : Cardinality(of(i)) = 1
           /\ \A i, j \in steps : i # j => of(i) # of(j)
           /\ \A i \in steps \ {1} : \A a \in of(i - 1), b \in of(i) :
                \/ Edge("CALLS", Method(a), Method(b)) \in batch.edges
                \/ Method(a) \notin batch.nodes \/ Method(b) \notin batch.nodes
=============================================================================
