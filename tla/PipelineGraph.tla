---------------------------- MODULE PipelineGraph ----------------------------
(***************************************************************************)
(* The inside of one invocation of the pipeline graph: supersteps of       *)
(* parallel tasks, fan-out per file and per domain, joins, routers, and    *)
(* the channels that survive from one launch of a thread_id to the next.   *)
(* A task that has finished leaves its writes pending; they are merged     *)
(* into the channels when all tasks of the superstep have finished, and    *)
(* are not computed again when a later process resumes the superstep.      *)
(*                                                                         *)
(* A value is reduced to its provenance, the set of launches it was        *)
(* computed in or from.  Processes run one at a time here; PipelineRun     *)
(* lets them overlap.                                                      *)
(***************************************************************************)
EXTENDS Naturals

CONSTANTS
  Files,      \* source files the repository may have (with a language)
  Registries, \* contents the registry file may have: the enabled domains
  MaxLaunches

Domains == {"domain_a", "domain_b", "domain_c", "domain_d"}

ASSUME GraphAssumption ==
  /\ Registries \subseteq SUBSET (Domains \cup {"domain_e"})
  /\ MaxLaunches \in Nat

VARIABLES
  launch,   \* which launch of the thread this is (0: none yet)
  phase,    \* "idle", "running", "stopped" (raised or died) or "done"
  present,  \* files in the working tree
  changed,  \* changed_files; all files in run_mode "full"
  registry, \* the registry the launch loaded
  tasks,    \* tasks of the current superstep
  finished, \* those whose writes are pending
  ran,      \* tasks of earlier supersteps of this launch (history)
  ast,      \* ast_index: launch that parsed a file, 0 if none did
  domains,  \* domains: provenance of each domain's findings
  ch        \* the channels without a reducer

inputs == <<launch, present, changed, registry>>
channels == <<ast, domains, ch>>
vars == <<inputs, phase, tasks, finished, ran, channels>>

-----------------------------------------------------------------------------
Launches == 1..MaxLaunches

\* PipelineState's keys that some node reads; "graph_batch" stands for
\* graph_write_nodes and graph_write_edges.
Channels == {"inventory", "symbol_table", "call_graph", "data_flow",
  "config_schema_api", "dependency_graph", "workflow_traces",
  "flagged_for_review", "hitl_resolutions", "cross_domain_conflicts",
  "consolidated_business_rules", "confidence_scores", "resolved_claims",
  "graph_batch"}

Nodes == {"ingest_repo", "parse_ast", "build_symbol_table", "build_call_graph",
  "analyze_data_flow", "analyze_config_schema_api", "merge_dependency_graph",
  "check_capability_registry", "workflow_trace", "collect_domain_outputs",
  "collect_flagged_items", "hitl_gate", "apply_hitl_resolutions",
  "detect_cross_domain_conflicts", "consolidate_business_rules",
  "score_confidence", "auto_resolve_dispute", "accept_resolved",
  "write_knowledge_graph", "write_vector_index", "write_evidence_store",
  "ready_for_query"} \cup Domains

\* A task is a node and, for a Send to parse_ast, its file.
Task(n) == <<n, "state">>
Tasks == {Task(n) : n \in Nodes} \cup {<<"parse_ast", f>> : f \in Files}
Ran(n) == Task(n) \in ran
Runs(n) == Task(n) \in tasks

\* The files this launch sends to parse_ast.
FannedOut == present \cap changed

-----------------------------------------------------------------------------
(* what the nodes write *)

Parsed == {ast[f] : f \in Files} \ {0}
Found(D) == UNION {domains[d] : d \in D}
Read(cs) == UNION {ch[c] : c \in cs}

\* Mutant: the channel keeps the last superstep's update only.
MergeAstReplaces ==
  [f \in {g \in Files : <<"parse_ast", g>> \in tasks} |-> launch]

\* merge_ast_index over the writes of the superstep's parse_ast tasks.
MergeAst ==
  [f \in Files |-> IF <<"parse_ast", f>> \in tasks THEN launch ELSE ast[f]]

\* What each domain's agents look at; Domain A asks for Domain B's glossary.
DomainReads(d) ==
  Parsed \cup
    CASE d = "domain_a" -> Read({"inventory"}) \cup Found({"domain_b"})
      [] d = "domain_b" -> Read({"inventory", "config_schema_api"})
      [] d = "domain_c" -> {}
      [] d = "domain_d" -> Read({"config_schema_api"})

\* merge_domains over the domain tasks' writes, and apply_hitl_resolutions,
\* which rewrites three of them if anything was flagged.
MergeDomains ==
  [d \in Domains |->
     IF Runs(d) THEN {launch} \cup DomainReads(d)
     ELSE IF Runs("apply_hitl_resolutions") /\ d # "domain_a"
               /\ ch["flagged_for_review"] # {}
       THEN {launch} \cup Found({d})
              \cup Read({"flagged_for_review", "hitl_resolutions"})
     ELSE domains[d]]

\* The new value of a channel without a reducer, by the node that writes it.
NodeOutput ==
  [inventory |-> {},
   symbol_table |-> Parsed,
   call_graph |-> Parsed \cup Read({"symbol_table"}),
   data_flow |-> Parsed \cup Read({"symbol_table"}),
   config_schema_api |-> Parsed \cup Read({"inventory"}),
   dependency_graph |->
     Read({"symbol_table", "call_graph", "data_flow", "config_schema_api"}),
   workflow_traces |->
     Found({"domain_b", "domain_d"}) \cup Read({"call_graph", "symbol_table"}),
   flagged_for_review |-> Found(Domains),
   hitl_resolutions |-> Read({"flagged_for_review"}),
   cross_domain_conflicts |-> Found({"domain_b", "domain_c"}) \cup
     Read({"symbol_table", "call_graph", "config_schema_api"}),
   consolidated_business_rules |-> Found({"domain_b"}),
   confidence_scores |-> Found(Domains) \cup Read({"workflow_traces"}),
   resolved_claims |-> Read({"confidence_scores"}) \cup
     IF Runs("accept_resolved") THEN Read({"resolved_claims"})
     ELSE Read({"cross_domain_conflicts"}),
   graph_batch |-> Found(Domains) \cup
     Read({"inventory", "symbol_table", "call_graph", "config_schema_api",
           "consolidated_business_rules", "workflow_traces", "resolved_claims"})
     \cup IF ch["flagged_for_review"] = {} THEN {}
          ELSE Read({"flagged_for_review", "hitl_resolutions"})]

Writers ==
  [inventory |-> {"ingest_repo"}, symbol_table |-> {"build_symbol_table"},
   call_graph |-> {"build_call_graph"}, data_flow |-> {"analyze_data_flow"},
   config_schema_api |-> {"analyze_config_schema_api"},
   dependency_graph |-> {"merge_dependency_graph"},
   workflow_traces |-> {"workflow_trace"},
   flagged_for_review |-> {"collect_flagged_items"},
   hitl_resolutions |-> {"hitl_gate"},
   cross_domain_conflicts |-> {"detect_cross_domain_conflicts"},
   consolidated_business_rules |-> {"consolidate_business_rules"},
   confidence_scores |-> {"score_confidence"},
   resolved_claims |-> {"auto_resolve_dispute", "accept_resolved"},
   graph_batch |-> {"write_knowledge_graph"}]

\* Lists that may come out empty, and are routed on.
MayBeEmpty == {"flagged_for_review", "cross_domain_conflicts"}

Written(c) == \E n \in Writers[c] : Runs(n)

\* The channels after the superstep: what no task wrote is kept, from an
\* earlier launch if need be.
MergeChannels(empty) ==
  [c \in Channels |-> IF c \in empty THEN {}
                      ELSE IF Written(c) THEN {launch} \cup NodeOutput[c]
                      ELSE ch[c]]

-----------------------------------------------------------------------------
(* the topology: which tasks a finished task leads to *)

\* route_and_fan_out_files, on the inventory of the ingest_repo before it.
FanOutFiles ==
  IF FannedOut = {} THEN {Task("build_symbol_table")}
  ELSE {<<"parse_ast", f>> : f \in FannedOut}

\* make_domain_orchestrator.
FanOutDomains ==
  IF registry \cap Domains = {} THEN {Task("workflow_trace")}
  ELSE {Task(d) : d \in registry \cap Domains}

\* The edges outside the two stages of parallel tasks.
SerialEdges ==
  [merge_dependency_graph |-> {"check_capability_registry"},
   workflow_trace |-> {"collect_domain_outputs"},
   collect_domain_outputs |-> {"collect_flagged_items"},
   hitl_gate |-> {"apply_hitl_resolutions"},
   apply_hitl_resolutions |-> {"detect_cross_domain_conflicts"},
   detect_cross_domain_conflicts |-> {"consolidate_business_rules"},
   consolidate_business_rules |-> {"score_confidence"},
   auto_resolve_dispute |-> {"accept_resolved"},
   accept_resolved |-> {"write_knowledge_graph"},
   write_knowledge_graph |-> {"write_vector_index"},
   write_vector_index |-> {"write_evidence_store"},
   write_evidence_store |-> {"ready_for_query"},
   ready_for_query |-> {}]

DerivedFromSymbols ==
  {"build_call_graph", "analyze_data_flow", "analyze_config_schema_api"}

\* Mutant: the call graph is started as soon as files are parsed.
EdgesCallGraphEarly(n) ==
  CASE n = "parse_ast" -> {"build_symbol_table", "build_call_graph"}
    [] n = "build_symbol_table" -> DerivedFromSymbols \ {"build_call_graph"}
    [] n \in DerivedFromSymbols -> {"merge_dependency_graph"}
    [] n \in Domains -> {"workflow_trace"}
    [] OTHER -> SerialEdges[n]

\* Mutant: Domain A, which traces do not need, is not joined with the others.
EdgesDomainASkipsJoin(n) ==
  CASE n = "parse_ast" -> {"build_symbol_table"}
    [] n = "build_symbol_table" -> DerivedFromSymbols
    [] n \in DerivedFromSymbols -> {"merge_dependency_graph"}
    [] n = "domain_a" -> {"collect_domain_outputs"}
    [] n \in Domains -> {"workflow_trace"}
    [] OTHER -> SerialEdges[n]

\* All edges that lead to fixed nodes.
Edges(n) ==
  CASE n = "parse_ast" -> {"build_symbol_table"}
    [] n = "build_symbol_table" -> DerivedFromSymbols
    [] n \in DerivedFromSymbols -> {"merge_dependency_graph"}
    [] n \in Domains -> {"workflow_trace"}
    [] OTHER -> SerialEdges[n]

\* Mutant: a thread that has resolutions is not stopped at the gate again.
RouteAfterCollectOnce(new) ==
  IF new["flagged_for_review"] # {} /\ new["hitl_resolutions"] = {}
    THEN "hitl_gate" ELSE "apply_hitl_resolutions"

RouteAfterCollect(new) ==
  IF new["flagged_for_review"] # {} THEN "hitl_gate" ELSE "apply_hitl_resolutions"

RouteDispute(new) ==
  IF new["cross_domain_conflicts"] # {} THEN "auto_resolve_dispute"
  ELSE "accept_resolved"

\* What a finished task leads to; routers see the channels with the update of
\* their own node in them.
After(t, new) ==
  CASE t[1] = "ingest_repo" -> FanOutFiles
    [] t[1] = "check_capability_registry" -> FanOutDomains
    [] t[1] = "collect_flagged_items" -> {Task(RouteAfterCollect(new))}
    [] t[1] = "score_confidence" -> {Task(RouteDispute(new))}
    [] OTHER -> {Task(n) : n \in Edges(t[1])}

-----------------------------------------------------------------------------
Init ==
  /\ launch = 0 /\ phase = "idle"
  /\ present = {} /\ changed = {} /\ registry = {}
  /\ tasks = {} /\ finished = {} /\ ran = {}
  /\ ast = [f \in Files |-> 0]
  /\ domains = [d \in Domains |-> {}]
  /\ ch = [c \in Channels |-> {}]

\* run_pipeline: tasks of an earlier launch are dropped with their pending
\* writes, its channels are kept.
Launch ==
  /\ phase # "running" /\ launch < MaxLaunches
  /\ launch' = launch + 1
  /\ present' \in SUBSET Files
  /\ changed' \in SUBSET Files
  /\ registry' \in Registries
  /\ phase' = "running"
  /\ tasks' = {Task("ingest_repo")}
  /\ finished' = {} /\ ran' = {}
  /\ UNCHANGED channels

\* A task of the superstep returns.  The registry check raises instead if the
\* registry enables an agent that is not built, as every one of Domain E.
Finish(t) ==
  /\ phase = "running"
  /\ t \in tasks \ finished
  /\ t[1] = "check_capability_registry" => registry \subseteq Domains
  /\ finished' = finished \cup {t}
  /\ UNCHANGED <<inputs, phase, tasks, ran, channels>>

\* All tasks have returned: their writes are merged, the next tasks prepared.
EndStep ==
  /\ phase = "running" /\ tasks # {} /\ finished = tasks
  /\ ast' = MergeAst
  /\ domains' = MergeDomains
  /\ \E empty \in SUBSET {c \in MayBeEmpty : Written(c)} :
       ch' = MergeChannels(empty)
  /\ tasks' = UNION {After(t, ch') : t \in tasks}
  /\ finished' = {}
  /\ ran' = ran \cup tasks
  /\ phase' = IF tasks' = {} THEN "done" ELSE "running"
  /\ UNCHANGED inputs

\* A task raises, or the process dies and some writes have not been saved.
Stop ==
  /\ phase = "running"
  /\ phase' = "stopped"
  /\ finished' \in SUBSET finished
  /\ UNCHANGED <<inputs, tasks, ran, channels>>

\* resume_pipeline, by somebody who found a review queue in the checkpoint:
\* another process, with the registry file as it is now.
Resume ==
  /\ phase = "stopped" /\ ch["flagged_for_review"] # {}
  /\ phase' = "running"
  /\ registry' \in Registries
  /\ UNCHANGED <<launch, present, changed, tasks, finished, ran, channels>>

Next == Launch \/ (\E t \in tasks : Finish(t)) \/ EndStep \/ Stop \/ Resume

Spec == Init /\ [][Next]_vars

-----------------------------------------------------------------------------
(* properties *)

\* Positions, pending writes and channels are those of the graph's tasks and
\* keys; provenances are launches that have happened.
TypeOK ==
  /\ launch \in 0..MaxLaunches
  /\ phase \in {"idle", "running", "stopped", "done"}
  /\ tasks \subseteq Tasks /\ finished \subseteq tasks /\ ran \subseteq Tasks
  /\ ast \in [Files -> 0..launch]
  /\ domains \in [Domains -> SUBSET (1..launch)]
  /\ ch \in [Channels -> SUBSET (1..launch)]

\* What a node takes from the state with state["..."], or that is meant to be
\* there before it runs because another node of the graph writes it.
Needs(n) ==
  CASE n \in {"build_call_graph", "analyze_data_flow"} -> {"symbol_table"}
    [] n = "analyze_config_schema_api" -> {"inventory"}
    [] n = "merge_dependency_graph" ->
         {"symbol_table", "call_graph", "data_flow", "config_schema_api"}
    [] n \in Domains -> {"inventory", "config_schema_api"}
    [] n = "workflow_trace" -> {"call_graph", "symbol_table"}
    [] n = "detect_cross_domain_conflicts" ->
         {"symbol_table", "call_graph", "config_schema_api"}
    [] n = "score_confidence" -> {"workflow_traces"}
    [] n = "auto_resolve_dispute" -> {"cross_domain_conflicts", "confidence_scores"}
    [] n = "accept_resolved" -> {"confidence_scores"}
    [] n \in {"write_knowledge_graph", "write_vector_index", "write_evidence_store"} ->
         {"inventory", "symbol_table", "call_graph", "config_schema_api",
          "consolidated_business_rules", "confidence_scores", "resolved_claims",
          "cross_domain_conflicts"}
    [] OTHER -> {}

\* No task is started before what it reads has been computed in this launch:
\* joins wait for every parallel task, whatever order they finish in, whichever
\* of them a crash repeats, and however many launches went before.
ReadsAreCurrent ==
  \A t \in tasks :
    /\ \A c \in Needs(t[1]) : launch \in ch[c] \/ (c \in MayBeEmpty /\ ch[c] = {})
    /\ t[1] = "build_symbol_table" => \A f \in FannedOut : ast[f] = launch
    /\ t[1] \in {"workflow_trace", "collect_flagged_items"} =>
         \A d \in Domains : Ran(d) => launch \in domains[d]

\* Joins fire once: no node runs in two supersteps of one launch, so no LLM
\* call is repeated and no write stage runs twice.
RunsOnce == tasks \cap ran = {}

\* Nothing flagged in a launch is written before this launch's own gate has
\* been passed and its resolutions applied; resolutions of an earlier launch
\* of the thread do not open the gate.
ReviewPrecedesWrite ==
  Runs("write_knowledge_graph") /\ ch["flagged_for_review"] # {} =>
    /\ Ran("hitl_gate") /\ Ran("apply_hitl_resolutions")
    /\ launch \in ch["hitl_resolutions"]

\* A relaunch starts on top of the old channels.  What it writes to the graph
\* stems from this launch alone, but for four leaks: files not parsed again,
\* domains not run again, Domain B's old glossary read by Domain A, and the
\* old resolved claims when there is no new conflict.
LeaksExplained ==
  Ran("write_knowledge_graph") =>
    \A old \in ch["graph_batch"] \ {launch} :
      \/ old \in Parsed
      \/ \E d \in Domains : ~Ran(d) /\ old \in domains[d]
      \/ Ran("domain_a") /\ old \in domains["domain_a"]
      \/ ch["cross_domain_conflicts"] = {}
=============================================================================
