------------------------- MODULE PipelineGraph_proofs -------------------------
(***************************************************************************)
(* What holds of PipelineGraph for any set of files, any registries and    *)
(* any number of launches.                                                 *)
(***************************************************************************)
EXTENDS PipelineGraph, TLAPS

(* ------------------------------ provenance ------------------------------ *)

\* Besides TypeOK: what the working tree and the position range over.
TypeInv ==
  /\ TypeOK
  /\ present \subseteq Files
  /\ registry \in SUBSET (Domains \cup {"domain_e"})
  /\ phase # "idle" => launch \in 1..MaxLaunches
  /\ phase = "idle" => tasks = {} /\ launch = 0

\* What nodes read stems from launches that have happened.
LEMMA ReadProvenance ==
  ASSUME TypeOK
  PROVE  /\ Parsed \subseteq 1..launch
         /\ \A D \in SUBSET Domains : Found(D) \subseteq 1..launch
         /\ \A cs \in SUBSET Channels : Read(cs) \subseteq 1..launch
<1>1. Parsed \subseteq 1..launch
  BY GraphAssumption DEF TypeOK, Parsed
<1>2. ASSUME NEW D \in SUBSET Domains PROVE Found(D) \subseteq 1..launch
  BY <1>2 DEF TypeOK, Found
<1>3. ASSUME NEW cs \in SUBSET Channels PROVE Read(cs) \subseteq 1..launch
  BY <1>3 DEF TypeOK, Read
<1>. QED
  BY <1>1, <1>2, <1>3

\* Every channel a node writes stems from launches there have been.
LEMMA OutputProvenance ==
  ASSUME TypeOK, NEW c \in Channels
  PROVE  NodeOutput[c] \subseteq 1..launch
<1>1. \A cs \in SUBSET Channels : Read(cs) \subseteq 1..launch
  BY ReadProvenance
<1>2. Parsed \subseteq 1..launch /\ Found(Domains) \subseteq 1..launch
      /\ Found({"domain_b", "domain_d"}) \subseteq 1..launch
      /\ Found({"domain_b", "domain_c"}) \subseteq 1..launch
      /\ Found({"domain_b"}) \subseteq 1..launch
  <2>1. \A D \in SUBSET Domains : Found(D) \subseteq 1..launch
    BY ReadProvenance
  <2>. QED
    BY <2>1, ReadProvenance DEF Domains
<1>3. CASE c \in {"inventory", "symbol_table", "call_graph", "data_flow",
                  "config_schema_api"}
  <2>1. Read({"symbol_table"}) \subseteq 1..launch
        /\ Read({"inventory"}) \subseteq 1..launch
    BY <1>1 DEF Channels
  <2>2. CASE c \in {"inventory", "symbol_table"}
    <3>1. NodeOutput["inventory"] = {} /\ NodeOutput["symbol_table"] = Parsed
      BY DEF NodeOutput
    <3>. QED
      BY <1>2, <2>2, <3>1
  <2>3. CASE c \in {"call_graph", "data_flow"}
    <3>1. /\ NodeOutput["call_graph"] = Parsed \cup Read({"symbol_table"})
          /\ NodeOutput["data_flow"] = Parsed \cup Read({"symbol_table"})
      BY DEF NodeOutput
    <3>. QED
      BY <1>2, <2>1, <2>3, <3>1
  <2>4. CASE c = "config_schema_api"
    BY <1>2, <2>1, <2>4 DEF NodeOutput
  <2>. QED
    BY <1>3, <2>2, <2>3, <2>4
<1>4. CASE c \in {"dependency_graph", "workflow_traces", "flagged_for_review",
                  "hitl_resolutions", "cross_domain_conflicts"}
  <2>1. /\ Read({"symbol_table", "call_graph", "data_flow", "config_schema_api"})
             \subseteq 1..launch
        /\ Read({"call_graph", "symbol_table"}) \subseteq 1..launch
        /\ Read({"flagged_for_review"}) \subseteq 1..launch
        /\ Read({"symbol_table", "call_graph", "config_schema_api"}) \subseteq 1..launch
    BY <1>1 DEF Channels
  <2>. QED
    BY <1>2, <1>4, <2>1 DEF NodeOutput
<1>5. CASE c \in {"consolidated_business_rules", "confidence_scores",
                  "resolved_claims", "graph_batch"}
  <2>1. /\ Read({"workflow_traces"}) \subseteq 1..launch
        /\ Read({"confidence_scores"}) \subseteq 1..launch
        /\ Read({"resolved_claims"}) \subseteq 1..launch
        /\ Read({"cross_domain_conflicts"}) \subseteq 1..launch
        /\ Read({"flagged_for_review", "hitl_resolutions"}) \subseteq 1..launch
        /\ Read({"inventory", "symbol_table", "call_graph", "config_schema_api",
             "consolidated_business_rules", "workflow_traces", "resolved_claims"})
             \subseteq 1..launch
    BY <1>1 DEF Channels
  <2>. QED
    BY <1>2, <1>5, <2>1 DEF NodeOutput
<1>. QED
  BY <1>3, <1>4, <1>5 DEF Channels

\* So does what the domain agents find.
LEMMA DomainProvenance ==
  ASSUME TypeOK, launch \in Nat \ {0}
  PROVE  MergeDomains \in [Domains -> SUBSET (1..launch)]
<1>1. ASSUME NEW d \in Domains PROVE DomainReads(d) \subseteq 1..launch
  <2>1. /\ Read({"inventory"}) \subseteq 1..launch
        /\ Read({"inventory", "config_schema_api"}) \subseteq 1..launch
        /\ Read({"config_schema_api"}) \subseteq 1..launch
    BY ReadProvenance DEF Channels
  <2>2. Parsed \subseteq 1..launch /\ Found({"domain_b"}) \subseteq 1..launch
    BY ReadProvenance DEF Domains
  <2>. QED
    BY <1>1, <2>1, <2>2 DEF DomainReads, Domains
<1>2. Read({"flagged_for_review", "hitl_resolutions"}) \subseteq 1..launch
  BY ReadProvenance DEF Channels
<1>3. ASSUME NEW d \in Domains
      PROVE  Found({d}) \subseteq 1..launch /\ domains[d] \subseteq 1..launch
  BY <1>3, ReadProvenance DEF TypeOK
<1>4. launch \in 1..launch
  OBVIOUS
<1>. QED
  BY <1>1, <1>2, <1>3, <1>4 DEF MergeDomains

(* ------------------------------- positions ------------------------------- *)

\* How far along the pipeline a node is; parallel nodes are equally far.
Rank(n) ==
  CASE n = "ingest_repo" -> 1
    [] n = "parse_ast" -> 2
    [] n = "build_symbol_table" -> 3
    [] n \in DerivedFromSymbols -> 4
    [] n = "merge_dependency_graph" -> 5
    [] n = "check_capability_registry" -> 6
    [] n \in Domains -> 7
    [] n = "workflow_trace" -> 8
    [] n = "collect_domain_outputs" -> 9
    [] n = "collect_flagged_items" -> 10
    [] n = "hitl_gate" -> 11
    [] n = "apply_hitl_resolutions" -> 12
    [] n = "detect_cross_domain_conflicts" -> 13
    [] n = "consolidate_business_rules" -> 14
    [] n = "score_confidence" -> 15
    [] n = "auto_resolve_dispute" -> 16
    [] n = "accept_resolved" -> 17
    [] n = "write_knowledge_graph" -> 18
    [] n = "write_vector_index" -> 19
    [] n = "write_evidence_store" -> 20
    [] n = "ready_for_query" -> 21

Routers ==
  {"ingest_repo", "check_capability_registry", "collect_flagged_items",
   "score_confidence"}

\* Parsing, domains, the gate and the dispute policy may be skipped.
Mandatory == 1..21 \ {2, 7, 11, 16}

\* m may follow n: it is farther along, and nothing mandatory is jumped over.
Follows(n, m) ==
  /\ m \in Nodes
  /\ Rank(n) < Rank(m)
  /\ \A k \in Mandatory : Rank(n) < k => Rank(m) <= k

\* Every node has a rank.
LEMMA RankType == \A n \in Nodes : Rank(n) \in 1..21
  BY DEF Rank, Nodes, Domains, DerivedFromSymbols

\* The ranks of the nodes that the arguments below name.
LEMMA RankValues ==
  /\ Rank("ingest_repo") = 1 /\ "ingest_repo" \in Nodes
  /\ Rank("parse_ast") = 2 /\ "parse_ast" \in Nodes
  /\ Rank("build_symbol_table") = 3 /\ "build_symbol_table" \in Nodes
  /\ Rank("merge_dependency_graph") = 5 /\ "merge_dependency_graph" \in Nodes
  /\ Rank("check_capability_registry") = 6 /\ "check_capability_registry" \in Nodes
  /\ Rank("workflow_trace") = 8 /\ "workflow_trace" \in Nodes
  /\ Rank("collect_domain_outputs") = 9 /\ "collect_domain_outputs" \in Nodes
  /\ Rank("collect_flagged_items") = 10 /\ "collect_flagged_items" \in Nodes
  /\ Rank("hitl_gate") = 11 /\ "hitl_gate" \in Nodes
  /\ Rank("apply_hitl_resolutions") = 12 /\ "apply_hitl_resolutions" \in Nodes
  /\ Rank("detect_cross_domain_conflicts") = 13 /\ "detect_cross_domain_conflicts" \in Nodes
  /\ Rank("consolidate_business_rules") = 14 /\ "consolidate_business_rules" \in Nodes
  /\ Rank("score_confidence") = 15 /\ "score_confidence" \in Nodes
  /\ Rank("auto_resolve_dispute") = 16 /\ "auto_resolve_dispute" \in Nodes
  /\ Rank("accept_resolved") = 17 /\ "accept_resolved" \in Nodes
  /\ Rank("write_knowledge_graph") = 18 /\ "write_knowledge_graph" \in Nodes
  /\ Rank("write_vector_index") = 19 /\ "write_vector_index" \in Nodes
  /\ Rank("write_evidence_store") = 20 /\ "write_evidence_store" \in Nodes
  /\ Rank("ready_for_query") = 21 /\ "ready_for_query" \in Nodes
  /\ \A n \in DerivedFromSymbols : Rank(n) = 4 /\ n \in Nodes
  /\ \A n \in Domains : Rank(n) = 7 /\ n \in Nodes
  BY DEF Rank, Nodes, Domains, DerivedFromSymbols

\* Only parallel nodes have the same rank.
LEMMA RankInjective ==
  ASSUME NEW n \in Nodes, NEW m \in Nodes, Rank(n) = Rank(m)
  PROVE  \/ n = m
         \/ n \in DerivedFromSymbols /\ m \in DerivedFromSymbols
         \/ n \in Domains /\ m \in Domains
  BY DEF Rank, Nodes, Domains, DerivedFromSymbols

\* The edges outside the parallel stages, one by one.
LEMMA SerialSuccessors ==
  /\ Edges("merge_dependency_graph") = {"check_capability_registry"}
  /\ Edges("workflow_trace") = {"collect_domain_outputs"}
  /\ Edges("collect_domain_outputs") = {"collect_flagged_items"}
  /\ Edges("hitl_gate") = {"apply_hitl_resolutions"}
  /\ Edges("apply_hitl_resolutions") = {"detect_cross_domain_conflicts"}
  /\ Edges("detect_cross_domain_conflicts") = {"consolidate_business_rules"}
  /\ Edges("consolidate_business_rules") = {"score_confidence"}
  /\ Edges("auto_resolve_dispute") = {"accept_resolved"}
  /\ Edges("accept_resolved") = {"write_knowledge_graph"}
  /\ Edges("write_knowledge_graph") = {"write_vector_index"}
  /\ Edges("write_vector_index") = {"write_evidence_store"}
  /\ Edges("write_evidence_store") = {"ready_for_query"}
  /\ Edges("ready_for_query") = {}
  BY DEF Edges, SerialEdges, Domains, DerivedFromSymbols

\* An edge goes up in rank, and parallel edges go up alike.
LEMMA EdgesFollow ==
  ASSUME NEW n \in Nodes \ Routers
  PROVE  /\ \A m \in Edges(n) : Follows(n, m)
         /\ \A m, k \in Edges(n) : Rank(m) = Rank(k)
<1>1. CASE n = "parse_ast"
  <2>1. Edges(n) = {"build_symbol_table"}
    BY <1>1 DEF Edges, DerivedFromSymbols, Domains
  <2>. QED
    BY <1>1, <2>1, RankValues DEF Follows, Mandatory
<1>2. CASE n = "build_symbol_table"
  <2>1. Edges(n) = DerivedFromSymbols
    BY <1>2 DEF Edges, DerivedFromSymbols, Domains
  <2>. QED
    BY <1>2, <2>1, RankValues DEF Follows, Mandatory
<1>3. CASE n \in DerivedFromSymbols
  <2>1. Edges(n) = {"merge_dependency_graph"}
    BY <1>3 DEF Edges, DerivedFromSymbols, Domains
  <2>. QED
    BY <1>3, <2>1, RankValues DEF Follows, Mandatory
<1>4. CASE n \in Domains
  <2>1. Edges(n) = {"workflow_trace"}
    BY <1>4 DEF Edges, DerivedFromSymbols, Domains
  <2>. QED
    BY <1>4, <2>1, RankValues DEF Follows, Mandatory
<1>5. CASE n \in {"merge_dependency_graph", "workflow_trace", "collect_domain_outputs"}
  BY <1>5, SerialSuccessors, RankValues DEF Follows, Mandatory
<1>6. CASE n \in {"hitl_gate", "apply_hitl_resolutions", "detect_cross_domain_conflicts", "consolidate_business_rules"}
  BY <1>6, SerialSuccessors, RankValues DEF Follows, Mandatory
<1>7. CASE n \in {"auto_resolve_dispute", "accept_resolved", "write_knowledge_graph", "write_vector_index", "write_evidence_store", "ready_for_query"}
  BY <1>7, SerialSuccessors, RankValues DEF Follows, Mandatory
<1>. QED
  BY <1>1, <1>2, <1>3, <1>4, <1>5, <1>6, <1>7 DEF Nodes, Routers, DerivedFromSymbols

\* What follows a task is farther along, and all of it equally far.
LEMMA AfterFollows ==
  ASSUME NEW t, t[1] \in Nodes, NEW new
  PROVE  /\ \A s \in After(t, new) : Follows(t[1], s[1])
         /\ \A s, r \in After(t, new) : Rank(s[1]) = Rank(r[1])
<1>1. CASE t[1] = "ingest_repo"
  BY <1>1, RankValues DEF After, FanOutFiles, Task, Follows, Mandatory
<1>2. CASE t[1] = "check_capability_registry"
  BY <1>2, RankValues DEF After, FanOutDomains, Task, Follows, Mandatory
<1>3. CASE t[1] = "collect_flagged_items"
  BY <1>3, RankValues DEF After, RouteAfterCollect, Task, Follows, Mandatory
<1>4. CASE t[1] = "score_confidence"
  BY <1>4, RankValues DEF After, RouteDispute, Task, Follows, Mandatory
<1>5. CASE t[1] \notin Routers
  <2>1. After(t, new) = {Task(n) : n \in Edges(t[1])}
    BY <1>5 DEF After, Routers
  <2>. QED
    BY <1>5, <2>1, EdgesFollow DEF Task
<1>. QED
  BY <1>1, <1>2, <1>3, <1>4, <1>5 DEF Routers

\* Equally far tasks lead to the same tasks.
LEMMA AfterJoins ==
  ASSUME NEW t, t[1] \in Nodes, NEW u, u[1] \in Nodes, NEW new,
         Rank(t[1]) = Rank(u[1])
  PROVE  After(t, new) = After(u, new)
<1>1. CASE t[1] = u[1]
  BY <1>1 DEF After
<1>2. CASE t[1] \in DerivedFromSymbols /\ u[1] \in DerivedFromSymbols
  BY <1>2 DEF After, Edges, DerivedFromSymbols, Domains
<1>3. CASE t[1] \in Domains /\ u[1] \in Domains
  BY <1>3 DEF After, Edges, DerivedFromSymbols, Domains
<1>. QED
  BY <1>1, <1>2, <1>3, RankInjective

\* Tasks lead to tasks.
LEMMA AfterTasks ==
  ASSUME TypeInv, NEW t \in tasks, NEW new
  PROVE  After(t, new) \subseteq Tasks
<1>1. t[1] \in Nodes
  BY DEF TypeInv, TypeOK, Tasks, Task, Nodes
<1>2. CASE t[1] = "ingest_repo"
  BY <1>2 DEF TypeInv, After, FanOutFiles, FannedOut, Tasks, Nodes
<1>3. CASE t[1] # "ingest_repo"
  <2>1. \A s \in After(t, new) : s = Task(s[1])
    BY <1>3 DEF After, FanOutDomains, Task
  <2>. QED
    BY <1>1, <2>1, AfterFollows DEF Follows, Tasks
<1>. QED
  BY <1>2, <1>3

(* ---------------------------- type correctness --------------------------- *)

\* The types are inductive by themselves.
LEMMA TypeStep == ASSUME TypeInv, [Next]_vars PROVE TypeInv'
<1> USE GraphAssumption
<1>1. CASE Launch
  <2>1. launch' \in 1..MaxLaunches /\ 1..launch \subseteq 1..launch'
        /\ 0..launch \subseteq 0..launch'
    BY <1>1 DEF Launch, TypeInv, TypeOK
  <2>2. Task("ingest_repo") \in Tasks
    BY DEF Tasks, Nodes
  <2>3. /\ ast' \in [Files -> 0..launch']
        /\ domains' \in [Domains -> SUBSET (1..launch')]
        /\ ch' \in [Channels -> SUBSET (1..launch')]
    BY <1>1, <2>1 DEF Launch, TypeInv, TypeOK, channels
  <2>. QED
    BY <1>1, <2>1, <2>2, <2>3 DEF Launch, TypeInv, TypeOK
<1>2. ASSUME NEW t \in tasks, Finish(t) PROVE TypeInv'
  BY <1>2 DEF Finish, TypeInv, TypeOK, inputs, channels
<1>3. CASE EndStep
  <2>1. launch \in Nat \ {0} /\ phase = "running"
    BY <1>3 DEF EndStep, TypeInv
  <2>2. ast' \in [Files -> 0..launch]
    BY <1>3, <2>1 DEF EndStep, MergeAst, TypeInv, TypeOK
  <2>3. domains' \in [Domains -> SUBSET (1..launch)]
    BY <1>3, <2>1, DomainProvenance DEF EndStep, TypeInv
  <2>4. ch' \in [Channels -> SUBSET (1..launch)]
    <3>1. PICK empty \in SUBSET {c \in MayBeEmpty : Written(c)} :
            ch' = MergeChannels(empty)
      BY <1>3 DEF EndStep
    <3>2. ASSUME NEW c \in Channels
          PROVE  NodeOutput[c] \subseteq 1..launch /\ ch[c] \subseteq 1..launch
      BY <3>2, OutputProvenance DEF TypeInv, TypeOK
    <3>3. launch \in 1..launch
      BY <2>1
    <3>. QED
      BY <3>1, <3>2, <3>3 DEF MergeChannels
  <2>5. tasks' \subseteq Tasks
    BY <1>3, AfterTasks DEF EndStep
  <2>. QED
    BY <1>3, <2>1, <2>2, <2>3, <2>4, <2>5 DEF EndStep, TypeInv, TypeOK, inputs
<1>4. CASE Stop
  BY <1>4 DEF Stop, TypeInv, TypeOK, inputs, channels
<1>5. CASE Resume
  BY <1>5 DEF Resume, TypeInv, TypeOK, channels
<1>6. CASE UNCHANGED vars
  BY <1>6 DEF TypeInv, TypeOK, vars, inputs, channels
<1>. QED
  BY <1>1, <1>2, <1>3, <1>4, <1>5, <1>6 DEF Next

\* They hold at first.
LEMMA TypeInit == Init => TypeInv
  BY GraphAssumption DEF Init, TypeInv, TypeOK

\* Positions, pending writes and channels are well formed in every state, for
\* any files, registries and number of launches.
THEOREM GraphTypeCorrect == Spec => []TypeOK
<1>1. TypeInv => TypeOK
  BY DEF TypeInv
<1>. QED
  BY <1>1, TypeInit, TypeStep, PTL DEF Spec

(* ------------------------------ runs once -------------------------------- *)

\* The tasks of a superstep are equally far, and farther than all that ran.
OrderInv ==
  /\ \A t, u \in tasks : Rank(t[1]) = Rank(u[1])
  /\ \A t \in tasks, u \in ran : Rank(u[1]) < Rank(t[1])

\* A task is a node's, and only parse_ast has several.
LEMMA NodesOfTasks ==
  ASSUME TypeOK
  PROVE  /\ \A t \in tasks \cup ran : t[1] \in Nodes /\ Rank(t[1]) \in 1..21
         /\ \A t \in tasks : t[1] # "parse_ast" => t = Task(t[1])
<1>1. \A t \in Tasks : t[1] \in Nodes
  BY DEF Tasks, Task, Nodes
<1>2. \A t \in Tasks : t[1] # "parse_ast" => t = Task(t[1])
  BY DEF Tasks, Task
<1>. QED
  BY <1>1, <1>2, RankType DEF TypeOK

\* Tasks stay equally far, and farther than what has run.
LEMMA OrderStep == ASSUME TypeInv, OrderInv, [Next]_vars PROVE OrderInv'
<1>1. CASE Launch
  BY <1>1 DEF Launch, OrderInv
<1>2. CASE EndStep
  <2>1. tasks' = UNION {After(t, ch') : t \in tasks} /\ ran' = ran \cup tasks
    BY <1>2 DEF EndStep
  <2>2. /\ \A t \in tasks \cup ran : t[1] \in Nodes /\ Rank(t[1]) \in 1..21
    BY NodesOfTasks DEF TypeInv
  <2>3. ASSUME NEW s \in tasks', NEW r \in tasks' PROVE Rank(s[1]) = Rank(r[1])
    <3>1. PICK t \in tasks : s \in After(t, ch')
      BY <2>1
    <3>2. PICK u \in tasks : r \in After(u, ch')
      BY <2>1
    <3>3. After(t, ch') = After(u, ch')
      BY <2>2, AfterJoins DEF OrderInv
    <3>. QED
      BY <2>2, <3>1, <3>2, <3>3, AfterFollows
  <2>4. ASSUME NEW s \in tasks', NEW u \in ran' PROVE Rank(u[1]) < Rank(s[1])
    <3>1. PICK t \in tasks : s \in After(t, ch')
      BY <2>1
    <3>2. s[1] \in Nodes /\ Rank(t[1]) < Rank(s[1])
      BY <2>2, <3>1, AfterFollows DEF Follows
    <3>3. Rank(u[1]) \in Nat /\ Rank(u[1]) <= Rank(t[1])
      BY <2>1, <2>2 DEF OrderInv
    <3>4. Rank(t[1]) \in Nat /\ Rank(s[1]) \in Nat
      BY <2>2, <3>2, RankType
    <3>. QED
      BY <3>2, <3>3, <3>4
  <2>. QED
    BY <2>3, <2>4 DEF OrderInv
<1>3. CASE UNCHANGED <<tasks, ran>>
  BY <1>3 DEF OrderInv
<1>. QED
  BY <1>1, <1>2, <1>3 DEF Next, Finish, Stop, Resume, vars

\* No node runs in two supersteps of one launch, whatever is enabled, whatever
\* fails and whatever is resumed.
THEOREM NodesRunOnce == Spec => []RunsOnce
<1>1. Init => OrderInv
  BY DEF Init, OrderInv
<1>2. TypeInv /\ OrderInv => RunsOnce
  <2>. SUFFICES ASSUME TypeInv, OrderInv, NEW t \in tasks, t \in ran PROVE FALSE
    BY DEF RunsOnce
  <2>1. Rank(t[1]) < Rank(t[1]) /\ Rank(t[1]) \in Nat
    BY NodesOfTasks DEF OrderInv, TypeInv
  <2>. QED
    BY <2>1
<1>. QED
  BY <1>1, <1>2, TypeInit, TypeStep, OrderStep, PTL DEF Spec

(* ------------------------- review before the write ----------------------- *)

\* Beyond the gate, what is flagged has passed it in this launch; beyond the
\* application of resolutions, they have been applied.
GateInv ==
  \A t \in tasks :
    /\ Rank(t[1]) > 11 /\ ch["flagged_for_review"] # {} =>
         Ran("hitl_gate") /\ launch \in ch["hitl_resolutions"]
    /\ Rank(t[1]) > 12 => Ran("apply_hitl_resolutions")

\* Beyond the gate, what is flagged has passed it in this launch.
LEMMA GateStep == ASSUME TypeInv, OrderInv, GateInv, [Next]_vars PROVE GateInv'
<1>1. CASE Launch
  <2>1. \A t \in tasks' : t[1] = "ingest_repo"
    BY <1>1 DEF Launch, Task
  <2>. QED
    BY <2>1, RankValues DEF GateInv
<1>2. CASE EndStep
  <2>1. /\ tasks' = UNION {After(t, ch') : t \in tasks} /\ ran' = ran \cup tasks
        /\ launch' = launch
    BY <1>2 DEF EndStep, inputs
  <2>2. /\ \A t \in tasks : t[1] \in Nodes /\ Rank(t[1]) \in 1..21
        /\ \A t \in tasks : t[1] # "parse_ast" => t = Task(t[1])
    BY NodesOfTasks DEF TypeInv
  <2>3. PICK empty \in SUBSET {c \in MayBeEmpty : Written(c)} :
          ch' = MergeChannels(empty)
    BY <1>2 DEF EndStep
  <2>4. SUFFICES ASSUME NEW s \in tasks'
        PROVE  /\ Rank(s[1]) > 11 /\ ch'["flagged_for_review"] # {} =>
                    Task("hitl_gate") \in ran' /\ launch \in ch'["hitl_resolutions"]
               /\ Rank(s[1]) > 12 => Task("apply_hitl_resolutions") \in ran'
    BY <2>1 DEF GateInv, Ran
  <2>5. PICK t \in tasks : s \in After(t, ch')
    BY <2>1
  <2>6. Follows(t[1], s[1]) /\ Rank(s[1]) \in Nat /\ Rank(t[1]) \in Nat
    BY <2>2, <2>5, AfterFollows, RankType DEF Follows
  <2>7. ASSUME Rank(s[1]) > 12 PROVE Task("apply_hitl_resolutions") \in ran'
    <3>1. Rank(t[1]) >= 12
      BY <2>6, <2>7 DEF Follows, Mandatory
    <3>2. CASE Rank(t[1]) = 12
      <4>1. t[1] = "apply_hitl_resolutions"
        BY <2>2, <3>2, RankInjective, RankValues DEF DerivedFromSymbols, Domains
      <4>. QED
        BY <2>1, <2>2, <4>1
    <3>3. CASE Rank(t[1]) > 12
      BY <2>1, <3>3 DEF GateInv, Ran
    <3>. QED
      BY <2>6, <3>1, <3>2, <3>3
  <2>8. ASSUME Rank(s[1]) > 11, ch'["flagged_for_review"] # {}
        PROVE  Task("hitl_gate") \in ran' /\ launch \in ch'["hitl_resolutions"]
    <3>1. Rank(t[1]) >= 10
      BY <2>6, <2>8 DEF Follows, Mandatory
    <3>2. Rank(t[1]) # 10
      <4>1. SUFFICES ASSUME Rank(t[1]) = 10 PROVE FALSE
        OBVIOUS
      <4>2. t[1] = "collect_flagged_items"
        BY <2>2, <4>1, RankInjective, RankValues DEF DerivedFromSymbols, Domains
      <4>3. After(t, ch') = {Task("hitl_gate")}
        BY <2>8, <4>2 DEF After, RouteAfterCollect
      <4>. QED
        BY <2>5, <2>8, <4>3, RankValues DEF Task
    <3>3. CASE Rank(t[1]) = 11
      <4>1. t = Task("hitl_gate")
        <5>1. t[1] = "hitl_gate"
          BY <2>2, <3>3, RankInjective, RankValues DEF DerivedFromSymbols, Domains
        <5>. QED
          BY <2>2, <5>1
      <4>2. Written("hitl_resolutions")
        BY <4>1 DEF Written, Writers, Runs
      <4>. QED
        BY <2>1, <2>3, <4>1, <4>2 DEF MergeChannels, MayBeEmpty, Channels
    <3>4. CASE Rank(t[1]) > 11
      <4>1. /\ Task("collect_flagged_items") \notin tasks
            /\ Task("hitl_gate") \notin tasks
        BY <3>4, RankValues DEF OrderInv, Task
      <4>2. ~Written("flagged_for_review") /\ ~Written("hitl_resolutions")
        BY <4>1 DEF Written, Writers, Runs
      <4>3. /\ ch'["flagged_for_review"] = ch["flagged_for_review"]
            /\ ch'["hitl_resolutions"] = ch["hitl_resolutions"]
        BY <2>3, <4>2 DEF MergeChannels, MayBeEmpty, Channels
      <4>. QED
        BY <2>1, <2>8, <3>4, <4>3 DEF GateInv, Ran
    <3>. QED
      BY <2>6, <3>1, <3>2, <3>3, <3>4
  <2>. QED
    BY <2>7, <2>8
<1>3. CASE UNCHANGED <<launch, tasks, ran, ch>>
  BY <1>3 DEF GateInv, Ran
<1>. QED
  BY <1>1, <1>2, <1>3 DEF Next, Finish, Stop, Resume, vars, inputs, channels

\* What is flagged in a launch is written only after that launch's own gate,
\* for any number of relaunches, failures and resumes.
THEOREM GraphReviewed == Spec => []ReviewPrecedesWrite
<1>1. Init => OrderInv /\ GateInv
  BY DEF Init, OrderInv, GateInv
<1>2. GateInv => ReviewPrecedesWrite
  BY RankValues DEF GateInv, ReviewPrecedesWrite, Runs, Task
<1>. QED
  BY <1>1, <1>2, TypeInit, TypeStep, OrderStep, GateStep, PTL DEF Spec

(* ---------------------------- current reads ------------------------------ *)

\* The channels a launch always writes, and how far along it has done so.
Always == Channels \ {"flagged_for_review", "hitl_resolutions",
                      "cross_domain_conflicts", "graph_batch"}

CurrentAt(c) ==
  CASE c = "inventory" -> 1
    [] c = "symbol_table" -> 3
    [] c \in {"call_graph", "data_flow", "config_schema_api"} -> 4
    [] c = "dependency_graph" -> 5
    [] c = "workflow_traces" -> 8
    [] c = "consolidated_business_rules" -> 14
    [] c = "confidence_scores" -> 15
    [] c = "resolved_claims" -> 17

\* Parallel tasks are started together.
ShapeInv ==
  \A t \in tasks :
    /\ Rank(t[1]) = 2 => {<<"parse_ast", f>> : f \in FannedOut} \subseteq tasks
    /\ Rank(t[1]) = 4 => {Task(n) : n \in DerivedFromSymbols} \subseteq tasks

\* What has been passed has been computed in this launch.
CurrentInv ==
  /\ \A t \in tasks :
       /\ \A c \in Always : CurrentAt(c) < Rank(t[1]) => launch \in ch[c]
       /\ Rank(t[1]) > 2 => \A f \in FannedOut : ast[f] = launch
       /\ Rank(t[1]) > 13 /\ ch["cross_domain_conflicts"] # {} =>
            launch \in ch["cross_domain_conflicts"]
       /\ Rank(t[1]) = 16 => ch["cross_domain_conflicts"] # {}
  /\ \A d \in Domains : Ran(d) => launch \in domains[d]

\* Parallel tasks stay together.
LEMMA ShapeStep == ASSUME TypeInv, ShapeInv, [Next]_vars PROVE ShapeInv'
<1>1. CASE Launch
  <2>1. \A t \in tasks' : t[1] = "ingest_repo"
    BY <1>1 DEF Launch, Task
  <2>. QED
    BY <2>1, RankValues DEF ShapeInv
<1>2. CASE EndStep
  <2>1. /\ tasks' = UNION {After(t, ch') : t \in tasks}
        /\ FannedOut' = FannedOut
    BY <1>2 DEF EndStep, inputs, FannedOut
  <2>2. \A t \in tasks : t[1] \in Nodes /\ Rank(t[1]) \in 1..21
    BY NodesOfTasks DEF TypeInv
  <2>3. SUFFICES ASSUME NEW s \in tasks'
        PROVE  /\ Rank(s[1]) = 2 => {<<"parse_ast", f>> : f \in FannedOut} \subseteq tasks'
               /\ Rank(s[1]) = 4 => {Task(n) : n \in DerivedFromSymbols} \subseteq tasks'
    BY <2>1 DEF ShapeInv
  <2>4. PICK t \in tasks : s \in After(t, ch')
    BY <2>1
  <2>5. Follows(t[1], s[1]) /\ After(t, ch') \subseteq tasks'
    BY <2>1, <2>2, <2>4, AfterFollows
  <2>6. ASSUME Rank(s[1]) = 2
        PROVE  {<<"parse_ast", f>> : f \in FannedOut} \subseteq tasks'
    <3>1. Rank(t[1]) = 1
      BY <2>2, <2>5, <2>6 DEF Follows
    <3>2. t[1] = "ingest_repo"
      BY <2>2, <3>1, RankInjective, RankValues DEF DerivedFromSymbols, Domains
    <3>3. FannedOut # {}
      BY <2>4, <2>6, <3>2, RankValues DEF After, FanOutFiles, Task
    <3>. QED
      BY <2>5, <3>2, <3>3 DEF After, FanOutFiles
  <2>7. ASSUME Rank(s[1]) = 4
        PROVE  {Task(n) : n \in DerivedFromSymbols} \subseteq tasks'
    <3>1. Rank(t[1]) = 3
      BY <2>2, <2>5, <2>7 DEF Follows, Mandatory
    <3>2. t[1] = "build_symbol_table"
      BY <2>2, <3>1, RankInjective, RankValues DEF DerivedFromSymbols, Domains
    <3>3. Edges(t[1]) = DerivedFromSymbols
      BY <3>2 DEF Edges, DerivedFromSymbols, Domains
    <3>4. After(t, ch') = {Task(n) : n \in DerivedFromSymbols}
      BY <3>2, <3>3 DEF After
    <3>. QED
      BY <2>5, <3>4
  <2>. QED
    BY <2>6, <2>7
<1>3. CASE UNCHANGED <<tasks, present, changed>>
  BY <1>3 DEF ShapeInv, FannedOut
<1>. QED
  BY <1>1, <1>2, <1>3 DEF Next, Finish, Stop, Resume, vars, inputs

\* A superstep as far along as a channel's writers runs one of them.
LEMMA WrittenInTime ==
  ASSUME TypeInv, ShapeInv, NEW t \in tasks, NEW c \in Always,
         Rank(t[1]) = CurrentAt(c)
  PROVE  Written(c)
<1>1. /\ t[1] \in Nodes
      /\ t[1] # "parse_ast" => t = Task(t[1])
  BY NodesOfTasks DEF TypeInv
<1>2. CASE c \in {"call_graph", "data_flow", "config_schema_api"}
  <2>1. {Task(n) : n \in DerivedFromSymbols} \subseteq tasks
    BY <1>2 DEF ShapeInv, CurrentAt
  <2>. QED
    BY <1>2, <2>1 DEF DerivedFromSymbols, Written, Writers, Runs
<1>3. ASSUME NEW n \in Nodes, n # "parse_ast", Rank(t[1]) = Rank(n),
             n \notin Domains \cup DerivedFromSymbols
      PROVE  Runs(n)
  BY <1>1, <1>3, RankInjective DEF Runs
<1>4. CASE c \in {"inventory", "symbol_table", "dependency_graph"}
  <2>1. \/ c = "inventory" /\ Runs("ingest_repo")
        \/ c = "symbol_table" /\ Runs("build_symbol_table")
        \/ c = "dependency_graph" /\ Runs("merge_dependency_graph")
    BY <1>3, <1>4, RankValues DEF CurrentAt, Domains, DerivedFromSymbols
  <2>. QED
    BY <2>1 DEF Written, Writers
<1>5. CASE c \in {"workflow_traces", "consolidated_business_rules"}
  <2>1. \/ c = "workflow_traces" /\ Runs("workflow_trace")
        \/ c = "consolidated_business_rules" /\ Runs("consolidate_business_rules")
    BY <1>3, <1>5, RankValues DEF CurrentAt, Domains, DerivedFromSymbols
  <2>. QED
    BY <2>1 DEF Written, Writers
<1>6. CASE c \in {"confidence_scores", "resolved_claims"}
  <2>1. \/ c = "confidence_scores" /\ Runs("score_confidence")
        \/ c = "resolved_claims" /\ Runs("accept_resolved")
    BY <1>3, <1>6, RankValues DEF CurrentAt, Domains, DerivedFromSymbols
  <2>. QED
    BY <2>1 DEF Written, Writers
<1>. QED
  BY <1>2, <1>4, <1>5, <1>6 DEF Always, Channels

\* What has been passed is of this launch.
LEMMA CurrentStep ==
  ASSUME TypeInv, OrderInv, ShapeInv, CurrentInv, [Next]_vars
  PROVE  CurrentInv'
<1>1. CASE Launch
  <2>1. /\ \A t \in tasks' : t[1] = "ingest_repo"
        /\ ran' = {}
    BY <1>1 DEF Launch, Task
  <2>2. \A c \in Always : CurrentAt(c) \in 1..21
    BY DEF Always, Channels, CurrentAt
  <2>. QED
    BY <2>1, <2>2, RankValues DEF CurrentInv, Ran
<1>2. CASE EndStep
  <2>1. /\ tasks' = UNION {After(t, ch') : t \in tasks} /\ ran' = ran \cup tasks
        /\ launch' = launch /\ FannedOut' = FannedOut
        /\ ast' = MergeAst /\ domains' = MergeDomains
    BY <1>2 DEF EndStep, inputs, FannedOut
  <2>2. /\ \A t \in tasks : t[1] \in Nodes /\ Rank(t[1]) \in 1..21
        /\ \A t \in tasks : t[1] # "parse_ast" => t = Task(t[1])
    BY NodesOfTasks DEF TypeInv
  <2>3. PICK empty \in SUBSET {c \in MayBeEmpty : Written(c)} :
          ch' = MergeChannels(empty)
    BY <1>2 DEF EndStep
  <2>4. ASSUME NEW d \in Domains, Ran(d)' PROVE launch \in domains'[d]
    <3>1. CASE Ran(d)
      BY <2>1, <2>4, <3>1 DEF CurrentInv, MergeDomains
    <3>2. CASE Runs(d)
      BY <2>1, <2>4, <3>2 DEF MergeDomains
    <3>. QED
      BY <2>1, <2>4, <3>1, <3>2 DEF Ran, Runs
  <2>5. ASSUME NEW s \in tasks'
        PROVE  /\ \A c \in Always : CurrentAt(c) < Rank(s[1]) => launch \in ch'[c]
               /\ Rank(s[1]) > 2 => \A f \in FannedOut : ast'[f] = launch
               /\ Rank(s[1]) > 13 /\ ch'["cross_domain_conflicts"] # {} =>
                    launch \in ch'["cross_domain_conflicts"]
               /\ Rank(s[1]) = 16 => ch'["cross_domain_conflicts"] # {}
    <3>1. PICK t \in tasks : s \in After(t, ch')
      BY <2>1, <2>5
    <3>2. Follows(t[1], s[1]) /\ Rank(s[1]) \in 1..21 /\ Rank(t[1]) \in 1..21
      BY <2>2, <3>1, AfterFollows, RankType DEF Follows
    <3>3. ASSUME NEW c \in Always, CurrentAt(c) < Rank(s[1])
          PROVE  launch \in ch'[c]
      <4>1. CASE Written(c)
        BY <2>3, <4>1 DEF MergeChannels, MayBeEmpty, Always
      <4>2. CASE ~Written(c)
        <5>1. ch'[c] = ch[c]
          BY <2>3, <4>2 DEF MergeChannels, Always
        <5>2. CurrentAt(c) \in Mandatory
          BY DEF Always, Channels, CurrentAt, Mandatory
        <5>3. CurrentAt(c) <= Rank(t[1])
          BY <3>2, <3>3, <5>2 DEF Follows, Mandatory
        <5>4. CurrentAt(c) # Rank(t[1])
          BY <4>2, WrittenInTime
        <5>5. CurrentAt(c) < Rank(t[1])
          BY <3>2, <5>2, <5>3, <5>4 DEF Mandatory
        <5>. QED
          BY <5>1, <5>5 DEF CurrentInv
      <4>. QED
        BY <4>1, <4>2
    <3>4. ASSUME Rank(s[1]) > 2, NEW f \in FannedOut PROVE ast'[f] = launch
      <4>1. f \in Files
        BY DEF FannedOut, TypeInv
      <4>2. CASE Rank(t[1]) = 1
        <5>1. t[1] = "ingest_repo"
          BY <2>2, <4>2, RankInjective, RankValues DEF DerivedFromSymbols, Domains
        <5>2. s[1] = "parse_ast"
          BY <3>1, <5>1 DEF After, FanOutFiles
        <5>. QED
          BY <3>4, <5>2, RankValues
      <4>3. CASE Rank(t[1]) = 2
        BY <2>1, <4>1, <4>3 DEF ShapeInv, MergeAst
      <4>4. CASE Rank(t[1]) > 2
        BY <2>1, <4>1, <4>4 DEF CurrentInv, MergeAst
      <4>. QED
        BY <3>2, <4>2, <4>3, <4>4
    <3>5. ASSUME Rank(s[1]) > 13, ch'["cross_domain_conflicts"] # {}
          PROVE  launch \in ch'["cross_domain_conflicts"]
      <4>1. CASE Written("cross_domain_conflicts")
        BY <2>3, <3>5, <4>1 DEF MergeChannels, Channels
      <4>2. CASE ~Written("cross_domain_conflicts")
        <5>1. ch'["cross_domain_conflicts"] = ch["cross_domain_conflicts"]
          BY <2>3, <4>2 DEF MergeChannels, Channels
        <5>2. Rank(t[1]) # 13
          <6>1. SUFFICES ASSUME Rank(t[1]) = 13 PROVE FALSE
            OBVIOUS
          <6>2. t[1] = "detect_cross_domain_conflicts"
            BY <2>2, <6>1, RankInjective, RankValues DEF DerivedFromSymbols, Domains
          <6>. QED
            BY <2>2, <4>2, <6>2 DEF Written, Writers, Runs
        <5>3. Rank(t[1]) > 13
          BY <3>2, <3>5, <5>2 DEF Follows, Mandatory
        <5>. QED
          BY <3>5, <5>1, <5>3 DEF CurrentInv
      <4>. QED
        BY <4>1, <4>2
    <3>6. ASSUME Rank(s[1]) = 16 PROVE ch'["cross_domain_conflicts"] # {}
      <4>1. Rank(t[1]) = 15
        BY <3>2, <3>6 DEF Follows, Mandatory
      <4>2. t[1] = "score_confidence"
        BY <2>2, <4>1, RankInjective, RankValues DEF DerivedFromSymbols, Domains
      <4>. QED
        BY <3>1, <3>6, <4>2, RankValues DEF After, RouteDispute, Task
    <3>. QED
      BY <3>3, <3>4, <3>5, <3>6
  <2>. QED
    BY <2>1, <2>4, <2>5 DEF CurrentInv
<1>3. CASE UNCHANGED <<launch, present, changed, tasks, ran, ast, domains, ch>>
  BY <1>3 DEF CurrentInv, Ran, FannedOut
<1>. QED
  BY <1>1, <1>2, <1>3 DEF Next, Finish, Stop, Resume, vars, inputs, channels

\* What a node needs has been computed before it.
LEMMA NeedsInTime ==
  ASSUME TypeInv, CurrentInv, NEW t \in tasks, NEW c \in Needs(t[1])
  PROVE  launch \in ch[c] \/ (c \in MayBeEmpty /\ ch[c] = {})
<1>1. t[1] \in Nodes
  BY NodesOfTasks DEF TypeInv
<1>2. CASE c = "cross_domain_conflicts"
  <2>1. t[1] \in {"auto_resolve_dispute", "write_knowledge_graph",
                 "write_vector_index", "write_evidence_store"}
    BY <1>2 DEF Needs, Domains
  <2>2. Rank(t[1]) \in Nat /\ Rank(t[1]) > 13
    BY <2>1, RankValues
  <2>. QED
    BY <1>2, <2>2 DEF CurrentInv, MayBeEmpty
<1>3. CASE c # "cross_domain_conflicts"
  <2>1. c \in Always
    BY <1>3 DEF Needs, Always, Channels
  <2>2. CurrentAt(c) < Rank(t[1])
    <3>1. CASE t[1] \in DerivedFromSymbols
      <4>1. Rank(t[1]) = 4 /\ c \in {"symbol_table", "inventory"}
        BY <3>1, RankValues DEF Needs, DerivedFromSymbols
      <4>. QED
        BY <4>1 DEF CurrentAt
    <3>2. CASE t[1] \in Domains
      <4>1. Rank(t[1]) = 7 /\ c \in {"inventory", "config_schema_api"}
        BY <3>2, RankValues DEF Needs, Domains
      <4>. QED
        BY <4>1 DEF CurrentAt
    <3>3. CASE t[1] = "merge_dependency_graph"
      <4>1. c \in {"symbol_table", "call_graph", "data_flow", "config_schema_api"}
        BY <3>3 DEF Needs, Domains
      <4>. QED
        BY <3>3, <4>1, RankValues DEF CurrentAt
    <3>4. CASE t[1] \in {"workflow_trace", "detect_cross_domain_conflicts"}
      <4>1. c \in {"symbol_table", "call_graph", "config_schema_api"}
        BY <3>4 DEF Needs, Domains
      <4>. QED
        BY <3>4, <4>1, RankValues DEF CurrentAt
    <3>5. CASE t[1] = "score_confidence"
      <4>1. c = "workflow_traces"
        BY <3>5 DEF Needs, Domains
      <4>. QED
        BY <3>5, <4>1, RankValues DEF CurrentAt
    <3>6. CASE t[1] \in {"auto_resolve_dispute", "accept_resolved"}
      <4>1. c = "confidence_scores"
        BY <1>3, <3>6 DEF Needs, Domains
      <4>. QED
        BY <3>6, <4>1, RankValues DEF CurrentAt
    <3>7. CASE t[1] \in {"write_knowledge_graph", "write_vector_index", "write_evidence_store"}
      <4>1. /\ Rank(t[1]) >= 18
            /\ c \in {"inventory", "symbol_table", "call_graph", "config_schema_api",
                     "consolidated_business_rules", "confidence_scores", "resolved_claims"}
        BY <1>3, <3>7, RankValues DEF Needs, Domains
      <4>2. CurrentAt(c) \in Nat /\ CurrentAt(c) <= 17
        <5>1. CASE c \in {"inventory", "symbol_table", "call_graph", "config_schema_api"}
          BY <5>1 DEF CurrentAt
        <5>2. CASE c = "consolidated_business_rules"
          BY <5>2 DEF CurrentAt
        <5>3. CASE c \in {"confidence_scores", "resolved_claims"}
          BY <5>3 DEF CurrentAt
        <5>. QED
          BY <4>1, <5>1, <5>2, <5>3
      <4>. QED
        BY <1>1, <4>1, <4>2, RankType
    <3>. QED
      BY <3>1, <3>2, <3>3, <3>4, <3>5, <3>6, <3>7 DEF Needs, DerivedFromSymbols
  <2>. QED
    BY <2>1, <2>2 DEF CurrentInv
<1>. QED
  BY <1>2, <1>3

\* Every node reads what this launch computed, whatever order parallel tasks
\* finish in, and however many launches, failures and resumes there were.
THEOREM GraphReadsCurrent == Spec => []ReadsAreCurrent
<1>1. Init => OrderInv /\ ShapeInv /\ CurrentInv
  BY DEF Init, OrderInv, ShapeInv, CurrentInv, Ran
<1>2. TypeInv /\ CurrentInv => ReadsAreCurrent
  <2>. SUFFICES ASSUME TypeInv, CurrentInv, NEW t \in tasks
       PROVE  /\ \A c \in Needs(t[1]) :
                 launch \in ch[c] \/ (c \in MayBeEmpty /\ ch[c] = {})
              /\ t[1] = "build_symbol_table" => \A f \in FannedOut : ast[f] = launch
              /\ t[1] \in {"workflow_trace", "collect_flagged_items"} =>
                   \A d \in Domains : Ran(d) => launch \in domains[d]
    BY DEF ReadsAreCurrent
  <2>. QED
    BY NeedsInTime, RankValues DEF CurrentInv
<1>. QED
  BY <1>1, <1>2, TypeInit, TypeStep, OrderStep, ShapeStep, CurrentStep, PTL DEF Spec

(* ------------------------- leaks between launches ------------------------ *)

\* What a launch writes may stem from itself, from files it did not parse
\* again, from domains it did not run again, and from what Domain A holds.
Fresh(v) == v = launch \/ v \in Parsed

Explained(v) ==
  \/ Fresh(v)
  \/ \E d \in Domains : (~Ran(d) \/ d = "domain_a") /\ v \in domains[d]

\* The channels on the way to the graph, and how far along they are written.
FromFiles == {"symbol_table", "call_graph", "config_schema_api"}
FromDomains == {"workflow_traces", "flagged_for_review",
  "cross_domain_conflicts", "consolidated_business_rules", "confidence_scores"}

WrittenAt(c) ==
  CASE c = "inventory" -> 1
    [] c = "symbol_table" -> 3
    [] c \in {"call_graph", "config_schema_api"} -> 4
    [] c = "workflow_traces" -> 8
    [] c = "flagged_for_review" -> 10
    [] c = "hitl_resolutions" -> 11
    [] c = "cross_domain_conflicts" -> 13
    [] c = "consolidated_business_rules" -> 14
    [] c = "confidence_scores" -> 15
    [] c = "graph_batch" -> 18

LeakInv ==
  /\ \A t \in tasks :
       /\ Rank(t[1]) > 1 => ch["inventory"] = {launch}
       /\ \A c \in FromFiles :
            WrittenAt(c) < Rank(t[1]) => \A v \in ch[c] : Fresh(v)
       /\ Rank(t[1]) > 7 =>
            \A d \in Domains : \A v \in domains[d] : Explained(v)
       /\ \A c \in FromDomains :
            WrittenAt(c) < Rank(t[1]) => \A v \in ch[c] : Explained(v)
       /\ Rank(t[1]) > 11 /\ ch["flagged_for_review"] # {} =>
            \A v \in ch["hitl_resolutions"] : Explained(v)
       /\ Rank(t[1]) > 16 /\ ch["cross_domain_conflicts"] # {} =>
            \A v \in ch["resolved_claims"] : Explained(v)
  /\ Ran("write_knowledge_graph") /\ ch["cross_domain_conflicts"] # {} =>
       \A v \in ch["graph_batch"] : Explained(v)

\* A node outside the parallel stages runs exactly in the superstep of its rank.
LEMMA AloneAtRank ==
  ASSUME TypeInv, OrderInv, NEW t \in tasks,
         NEW n \in Nodes \ ({"parse_ast"} \cup Domains \cup DerivedFromSymbols)
  PROVE  Runs(n) <=> Rank(t[1]) = Rank(n)
<1>1. /\ t[1] \in Nodes
      /\ t[1] # "parse_ast" => t = Task(t[1])
  BY NodesOfTasks DEF TypeInv
<1>2. Runs(n) => Rank(t[1]) = Rank(n)
  BY DEF Runs, OrderInv, Task
<1>3. Rank(t[1]) = Rank(n) => Runs(n)
  BY <1>1, RankInjective DEF Runs
<1>. QED
  BY <1>2, <1>3

\* Channels are written in the superstep of their rank and in no other.
LEMMA WrittenOnTime ==
  ASSUME TypeInv, OrderInv, ShapeInv, NEW t \in tasks,
         NEW c \in {"inventory", "hitl_resolutions", "graph_batch"}
                     \cup FromFiles \cup FromDomains
  PROVE  Written(c) <=> Rank(t[1]) = WrittenAt(c)
<1> DEFINE Alone == Nodes \ ({"parse_ast"} \cup Domains \cup DerivedFromSymbols)
<1>1. /\ "ingest_repo" \in Alone /\ "build_symbol_table" \in Alone
      /\ "workflow_trace" \in Alone /\ "collect_flagged_items" \in Alone
      /\ "hitl_gate" \in Alone /\ "detect_cross_domain_conflicts" \in Alone
      /\ "consolidate_business_rules" \in Alone /\ "score_confidence" \in Alone
      /\ "write_knowledge_graph" \in Alone
  BY DEF Nodes, Domains, DerivedFromSymbols
<1>2. \A n \in Alone : Runs(n) <=> Rank(t[1]) = Rank(n)
  BY AloneAtRank
<1> HIDE DEF Alone
<1>3. CASE c \in {"call_graph", "config_schema_api"}
  <2>1. Runs("build_call_graph") \/ Runs("analyze_config_schema_api") =>
          Rank(t[1]) = 4
    BY RankValues DEF Runs, OrderInv, Task, DerivedFromSymbols
  <2>2. Rank(t[1]) = 4 =>
          Runs("build_call_graph") /\ Runs("analyze_config_schema_api")
    BY DEF ShapeInv, Runs, DerivedFromSymbols
  <2>. QED
    BY <1>3, <2>1, <2>2 DEF Written, Writers, WrittenAt
<1>4. CASE c \in {"inventory", "symbol_table", "hitl_resolutions", "graph_batch"}
  BY <1>1, <1>2, <1>4, RankValues DEF Written, Writers, WrittenAt
<1>5. CASE c \in {"workflow_traces", "flagged_for_review"}
  BY <1>1, <1>2, <1>5, RankValues DEF Written, Writers, WrittenAt
<1>6. CASE c \in {"cross_domain_conflicts", "consolidated_business_rules",
                  "confidence_scores"}
  BY <1>1, <1>2, <1>6, RankValues DEF Written, Writers, WrittenAt
<1>. QED
  BY <1>3, <1>4, <1>5, <1>6 DEF FromFiles, FromDomains

\* Everything a node writes behind the domains is explained if what it reads is.
LEMMA OutputExplained ==
  ASSUME TypeInv, OrderInv, LeakInv, NEW t \in tasks,
         NEW c \in FromDomains, Rank(t[1]) = WrittenAt(c)
  PROVE  \A v \in NodeOutput[c] : Explained(v)
<1>1. Rank(t[1]) > 7
  BY DEF FromDomains, WrittenAt
<1>2. \A D \in SUBSET Domains : \A v \in Found(D) : Explained(v)
  BY <1>1 DEF LeakInv, Found
<1>3. \A k \in FromFiles : \A v \in ch[k] : Explained(v)
  <2>1. \A k \in FromFiles : WrittenAt(k) \in {3, 4}
    BY DEF FromFiles, WrittenAt
  <2>2. Rank(t[1]) \in Nat
    BY NodesOfTasks DEF TypeInv
  <2>3. \A k \in FromFiles : WrittenAt(k) < Rank(t[1])
    BY <1>1, <2>1, <2>2
  <2>. QED
    BY <2>3 DEF LeakInv, Explained
<1>4. \A v \in Found(Domains) \cup Found({"domain_b", "domain_d"})
                \cup Found({"domain_b", "domain_c"}) \cup Found({"domain_b"}) :
        Explained(v)
  <2>1. /\ {"domain_b", "domain_d"} \in SUBSET Domains
        /\ {"domain_b", "domain_c"} \in SUBSET Domains
        /\ {"domain_b"} \in SUBSET Domains
    BY DEF Domains
  <2>. QED
    BY <1>2, <2>1
<1>5. \A cs \in SUBSET FromFiles : \A v \in Read(cs) : Explained(v)
  BY <1>3 DEF Read
<1>6. CASE c \in {"workflow_traces", "cross_domain_conflicts"}
  <2>1. /\ {"call_graph", "symbol_table"} \in SUBSET FromFiles
        /\ {"symbol_table", "call_graph", "config_schema_api"} \in SUBSET FromFiles
    BY DEF FromFiles
  <2>. QED
    BY <1>4, <1>5, <1>6, <2>1 DEF NodeOutput
<1>7. CASE c \in {"flagged_for_review", "consolidated_business_rules"}
  BY <1>4, <1>7 DEF NodeOutput
<1>8. CASE c = "confidence_scores"
  <2>1. \A v \in ch["workflow_traces"] : Explained(v)
    BY <1>8 DEF LeakInv, FromDomains, WrittenAt
  <2>. QED
    BY <1>4, <1>8, <2>1 DEF NodeOutput, Read
<1>. QED
  BY <1>6, <1>7, <1>8 DEF FromDomains

\* Older launches get in only where LeakInv says.
LEMMA LeakStep ==
  ASSUME TypeInv, OrderInv, ShapeInv, LeakInv, [Next]_vars
  PROVE  LeakInv'
<1>1. CASE Launch
  <2>1. (\A t \in tasks' : t[1] = "ingest_repo") /\ ran' = {}
    BY <1>1 DEF Launch, Task
  <2>2. \A c \in FromFiles \cup FromDomains : WrittenAt(c) \in 3..15
    BY DEF FromFiles, FromDomains, WrittenAt
  <2>. QED
    BY <2>1, <2>2, RankValues DEF LeakInv, Ran
<1>2. CASE EndStep
  <2>1. /\ tasks' = UNION {After(t, ch') : t \in tasks} /\ ran' = ran \cup tasks
        /\ launch' = launch /\ ast' = MergeAst /\ domains' = MergeDomains
        /\ tasks # {}
    BY <1>2 DEF EndStep, inputs
  <2>2. PICK empty \in SUBSET {c \in MayBeEmpty : Written(c)} :
          ch' = MergeChannels(empty)
    BY <1>2 DEF EndStep
  <2>3. PICK t \in tasks : TRUE
    BY <2>1
  <2> DEFINE k == Rank(t[1])
  <2>4. /\ k \in 1..21 /\ t[1] \in Nodes
        /\ \A u \in tasks : Rank(u[1]) = k
        /\ \A u \in ran : Rank(u[1]) < k
    BY NodesOfTasks DEF TypeInv, OrderInv
  <2>5. \A s \in tasks' :
          /\ Rank(s[1]) \in 1..21 /\ k < Rank(s[1])
          /\ \A m \in Mandatory : k < m => Rank(s[1]) <= m
          /\ s \in After(t, ch')
    <3>1. SUFFICES ASSUME NEW s \in tasks'
          PROVE  /\ Rank(s[1]) \in 1..21 /\ k < Rank(s[1])
                 /\ \A m \in Mandatory : k < m => Rank(s[1]) <= m
                 /\ s \in After(t, ch')
      OBVIOUS
    <3>2. PICK u \in tasks : s \in After(u, ch')
      BY <2>1
    <3>3. u[1] \in Nodes /\ Rank(u[1]) = k
      BY <2>4, NodesOfTasks DEF TypeInv
    <3>4. After(u, ch') = After(t, ch')
      BY <2>4, <3>3, AfterJoins
    <3>5. Follows(t[1], s[1])
      BY <2>4, <3>2, <3>4, AfterFollows
    <3>. QED
      BY <3>2, <3>4, <3>5, RankType DEF Follows
  <2>6. ASSUME NEW c \in Channels
        PROVE  /\ ~Written(c) => ch'[c] = ch[c]
               /\ ch'[c] \subseteq ch[c] \cup {launch} \cup NodeOutput[c]
               /\ Written(c) => ch'[c] \subseteq {launch} \cup NodeOutput[c]
    BY <2>2 DEF MergeChannels
  <2>7. \A c \in {"inventory", "hitl_resolutions", "graph_batch"}
                   \cup FromFiles \cup FromDomains :
          c \in Channels /\ (Written(c) <=> k = WrittenAt(c))
    BY <2>3, WrittenOnTime DEF Channels, FromFiles, FromDomains
  <2>8. \A c \in FromFiles \cup FromDomains :
          WrittenAt(c) \in Mandatory \cap 3..15
    BY DEF FromFiles, FromDomains, WrittenAt, Mandatory
  \* What is explained stays explained.
  <2>9. k > 2 => Parsed' = Parsed
    <3>1. SUFFICES ASSUME k > 2 PROVE Parsed' = Parsed
      OBVIOUS
    <3>2. \A f \in Files : <<"parse_ast", f>> \notin tasks
      BY <2>4, <3>1, RankValues
    <3>. QED
      BY <2>1, <3>2 DEF MergeAst, Parsed
  <2>10. k > 2 => \A v : Fresh(v)' <=> Fresh(v)
    BY <2>1, <2>9 DEF Fresh
  <2>11. ASSUME k > 7, NEW d \in Domains
         PROVE  /\ Ran(d)' <=> Ran(d)
                /\ ~Runs(d)
                /\ domains[d] \subseteq domains'[d]
    <3>1. ~Runs(d)
      BY <2>4, <2>11, RankValues DEF Runs, Task
    <3>2. Found({d}) = domains[d]
      BY DEF Found
    <3>. QED
      BY <2>1, <3>1, <3>2 DEF Ran, Runs, MergeDomains
  <2>12. k > 7 => \A v : Explained(v) => Explained(v)'
    BY <2>4, <2>10, <2>11 DEF Explained
  <2> HIDE DEF k
  \* The channels one by one, beginning with those computed from the files.
  <2>13. ch'["inventory"] = {launch}
    <3>1. CASE k = 1
      <4>1. Written("inventory") /\ "inventory" \in Channels
        BY <2>7, <3>1 DEF WrittenAt
      <4>2. NodeOutput["inventory"] = {}
        BY DEF NodeOutput
      <4>. QED
        BY <2>2, <4>1, <4>2 DEF MergeChannels, MayBeEmpty
    <3>2. CASE k > 1
      <4>1. ~Written("inventory") /\ "inventory" \in Channels
        BY <2>4, <2>7, <3>2 DEF WrittenAt
      <4>. QED
        BY <2>3, <2>6, <3>2, <4>1 DEF LeakInv, k
    <3>. QED
      BY <2>4, <3>1, <3>2
  <2>14. ASSUME NEW s \in tasks', NEW c \in FromFiles,
                WrittenAt(c) < Rank(s[1]), NEW v \in ch'[c]
         PROVE  Fresh(v)'
    <3>1. WrittenAt(c) <= k /\ k > 2
      BY <2>4, <2>5, <2>8, <2>14
    <3>2. CASE k = WrittenAt(c)
      <4>1. Written(c) /\ c \in Channels
        BY <2>7, <3>2
      <4>2. \A w \in ch["inventory"] : Fresh(w)
        BY <2>3, <2>4, <3>1 DEF LeakInv, Fresh, k
      <4>3. k = 4 => \A w \in ch["symbol_table"] : Fresh(w)
        BY <2>3, <2>4 DEF LeakInv, FromFiles, WrittenAt, k
      <4>4. \A w \in NodeOutput[c] : Fresh(w)
        <5>1. CASE c = "symbol_table"
          BY <5>1 DEF NodeOutput, Fresh
        <5>2. CASE c = "call_graph"
          BY <3>2, <4>3, <5>2 DEF NodeOutput, Fresh, Read, WrittenAt
        <5>3. CASE c = "config_schema_api"
          BY <4>2, <5>3 DEF NodeOutput, Fresh, Read
        <5>. QED
          BY <5>1, <5>2, <5>3 DEF FromFiles
      <4>5. v = launch \/ v \in NodeOutput[c]
        BY <2>6, <2>14, <4>1
      <4>6. Fresh(v)
        BY <4>4, <4>5 DEF Fresh
      <4>. QED
        BY <2>10, <3>1, <4>6 DEF k
    <3>3. CASE k # WrittenAt(c)
      <4>1. ch'[c] = ch[c] /\ WrittenAt(c) < k
        BY <2>4, <2>6, <2>7, <2>8, <3>1, <3>3
      <4>2. Fresh(v)
        BY <2>3, <2>14, <4>1 DEF LeakInv, k
      <4>. QED
        BY <2>10, <3>1, <4>2 DEF k
    <3>. QED
      BY <3>2, <3>3
  <2>15. ASSUME NEW s \in tasks', Rank(s[1]) > 7, NEW d \in Domains,
                NEW v \in domains'[d]
         PROVE  Explained(v)'
    <3>1. k >= 6
      BY <2>4, <2>5, <2>15 DEF Mandatory
    <3>2. ASSUME d # "domain_a", Ran(d)', k \in {6, 7} PROVE Explained(v)'
      <4>1. ~Ran(d)
        BY <2>4, <3>2, RankValues DEF Ran, Task
      <4>2. Runs(d)
        BY <2>1, <3>2, <4>1 DEF Ran, Runs
      <4>3. k = 7
        BY <2>4, <4>2, RankValues DEF Runs, Task
      <4>4. \A w \in ch["inventory"] : Fresh(w)
        BY <2>3, <4>3 DEF LeakInv, Fresh, k
      <4>5. \A w \in ch["config_schema_api"] : Fresh(w)
        BY <2>3, <4>3 DEF LeakInv, FromFiles, WrittenAt, k
      <4>6. \A w \in DomainReads(d) : Fresh(w)
        BY <3>2, <4>4, <4>5 DEF DomainReads, Read, Fresh, Domains
      <4>7. domains'[d] = {launch} \cup DomainReads(d)
        BY <2>1, <4>2 DEF MergeDomains
      <4>8. Fresh(v)
        BY <2>15, <4>6, <4>7 DEF Fresh
      <4>. QED
        BY <2>10, <4>3, <4>8 DEF k, Explained
    <3>3. ASSUME d # "domain_a", Ran(d)', k > 7 PROVE Explained(v)'
      <4>1. \A w \in domains[d] : Explained(w)
        BY <2>3, <3>3 DEF LeakInv, k
      <4>2. CASE domains'[d] = domains[d]
        BY <2>12, <2>15, <3>3, <4>1, <4>2 DEF k
      <4>3. CASE domains'[d] # domains[d]
        <5>1. /\ Runs("apply_hitl_resolutions") /\ ch["flagged_for_review"] # {}
              /\ domains'[d] = {launch} \cup Found({d})
                   \cup Read({"flagged_for_review", "hitl_resolutions"})
          BY <2>1, <2>11, <3>3, <4>3 DEF MergeDomains, k
        <5>2. k = 12
          BY <2>4, <5>1, RankValues DEF Runs, Task
        <5>3. /\ \A w \in ch["flagged_for_review"] : Explained(w)
              /\ \A w \in ch["hitl_resolutions"] : Explained(w)
          BY <2>3, <5>1, <5>2 DEF LeakInv, FromDomains, WrittenAt, k
        <5>4. Explained(v)
          BY <2>15, <4>1, <5>1, <5>3 DEF Found, Read, Explained, Fresh
        <5>. QED
          BY <2>12, <3>3, <5>4 DEF k
      <4>. QED
        BY <4>2, <4>3
    <3>4. CASE d = "domain_a" \/ ~Ran(d)'
      BY <2>15, <3>4 DEF Explained
    <3>. QED
      BY <2>4, <3>1, <3>2, <3>3, <3>4
  <2>16. ASSUME NEW s \in tasks', NEW c \in FromDomains,
                WrittenAt(c) < Rank(s[1]), NEW v \in ch'[c]
         PROVE  Explained(v)'
    <3>1. WrittenAt(c) <= k /\ WrittenAt(c) > 7 /\ k > 7
      <4>1. WrittenAt(c) > 7
        BY DEF FromDomains, WrittenAt
      <4>. QED
        BY <2>4, <2>5, <2>8, <2>16, <4>1
    <3>2. CASE k = WrittenAt(c)
      <4>1. v = launch \/ v \in NodeOutput[c]
        BY <2>6, <2>7, <2>16, <3>2
      <4>2. Explained(v)
        BY <2>3, <3>2, <4>1, OutputExplained DEF Explained, Fresh, k
      <4>. QED
        BY <2>12, <3>1, <4>2 DEF k
    <3>3. CASE k # WrittenAt(c)
      <4>1. ch'[c] = ch[c] /\ WrittenAt(c) < k
        <5>1. c \in Channels /\ ~Written(c)
          BY <2>7, <3>3
        <5>2. WrittenAt(c) \in 3..15
          BY <2>8
        <5>. QED
          BY <2>4, <2>6, <3>1, <3>3, <5>1, <5>2
      <4>2. Explained(v)
        BY <2>3, <2>16, <4>1 DEF LeakInv, k
      <4>. QED
        BY <2>12, <3>1, <4>2 DEF k
    <3>. QED
      BY <3>2, <3>3
  <2>17. ASSUME NEW s \in tasks', Rank(s[1]) > 11,
                ch'["flagged_for_review"] # {}, NEW v \in ch'["hitl_resolutions"]
         PROVE  Explained(v)'
    <3>1. k >= 10 /\ k # 10
      <4>1. k >= 10
        BY <2>4, <2>5, <2>17 DEF Mandatory
      <4>2. ASSUME k = 10 PROVE FALSE
        <5>1. t[1] = "collect_flagged_items"
          BY <2>4, <4>2, RankInjective, RankValues
             DEF k, DerivedFromSymbols, Domains
        <5>2. After(t, ch') = {Task("hitl_gate")}
          BY <2>17, <5>1 DEF After, RouteAfterCollect
        <5>3. s = Task("hitl_gate")
          BY <2>5, <5>2
        <5>. QED
          BY <2>17, <5>3, RankValues DEF Task
      <4>. QED
        BY <4>1, <4>2
    <3>2. ch'["flagged_for_review"] = ch["flagged_for_review"]
      BY <2>4, <2>6, <2>7, <3>1 DEF FromDomains, WrittenAt
    <3>3. CASE k = 11
      <4>1. \A w \in ch["flagged_for_review"] : Explained(w)
        BY <2>3, <3>3 DEF LeakInv, FromDomains, WrittenAt, k
      <4>2. NodeOutput["hitl_resolutions"] = ch["flagged_for_review"]
        BY DEF NodeOutput, Read
      <4>3. v = launch \/ v \in NodeOutput["hitl_resolutions"]
        BY <2>6, <2>7, <2>17, <3>3 DEF WrittenAt
      <4>4. Explained(v)
        BY <4>1, <4>2, <4>3 DEF Explained, Fresh
      <4>. QED
        BY <2>12, <3>3, <4>4 DEF k
    <3>4. CASE k > 11
      <4>1. ch'["hitl_resolutions"] = ch["hitl_resolutions"]
        BY <2>4, <2>6, <2>7, <3>4 DEF WrittenAt
      <4>2. Explained(v)
        BY <2>3, <2>17, <3>2, <3>4, <4>1 DEF LeakInv, k
      <4>. QED
        BY <2>12, <2>4, <3>4, <4>2 DEF k
    <3>. QED
      BY <2>4, <3>1, <3>3, <3>4
  <2>18. Runs("auto_resolve_dispute") <=> k = 16
    BY <2>3, AloneAtRank, RankValues DEF k, Domains, DerivedFromSymbols
  <2>19. Runs("accept_resolved") <=> k = 17
    BY <2>3, AloneAtRank, RankValues DEF k, Domains, DerivedFromSymbols
  <2>20. k # 13 =>
           ch'["cross_domain_conflicts"] = ch["cross_domain_conflicts"]
    BY <2>6, <2>7 DEF FromDomains, WrittenAt
  <2>21. ASSUME NEW s \in tasks', Rank(s[1]) > 16,
                ch'["cross_domain_conflicts"] # {}, NEW v \in ch'["resolved_claims"]
         PROVE  Explained(v)'
    <3>1. k >= 15 /\ k # 15
      <4>1. k >= 15
        BY <2>4, <2>5, <2>21 DEF Mandatory
      <4>2. ASSUME k = 15 PROVE FALSE
        <5>1. t[1] = "score_confidence"
          BY <2>4, <4>2, RankInjective, RankValues
             DEF k, DerivedFromSymbols, Domains
        <5>2. After(t, ch') = {Task("auto_resolve_dispute")}
          BY <2>21, <5>1 DEF After, RouteDispute
        <5>3. s = Task("auto_resolve_dispute")
          BY <2>5, <5>2
        <5>. QED
          BY <2>21, <5>3, RankValues DEF Task
      <4>. QED
        BY <4>1, <4>2
    <3>2. /\ \A w \in ch["confidence_scores"] : Explained(w)
          /\ \A w \in ch["cross_domain_conflicts"] : Explained(w)
          /\ "resolved_claims" \in Channels
      BY <2>3, <2>4, <3>1 DEF LeakInv, FromDomains, WrittenAt, k, Channels
    <3>3. k > 16 => \A w \in ch["resolved_claims"] : Explained(w)
      BY <2>3, <2>4, <2>20, <2>21, <3>1 DEF LeakInv, k
    <3>4. CASE k \in {16, 17}
      <4>1. Written("resolved_claims")
        BY <2>18, <2>19, <3>4 DEF Written, Writers
      <4>2. NodeOutput["resolved_claims"] \subseteq
              ch["confidence_scores"] \cup
                (IF k = 17 THEN ch["resolved_claims"]
                 ELSE ch["cross_domain_conflicts"])
        BY <2>19 DEF NodeOutput, Read
      <4>3. v = launch \/ v \in NodeOutput["resolved_claims"]
        BY <2>6, <2>21, <3>2, <4>1
      <4>4. Explained(v)
        BY <3>2, <3>3, <3>4, <4>2, <4>3 DEF Explained, Fresh
      <4>. QED
        BY <2>12, <3>4, <4>4 DEF k
    <3>5. CASE k > 17
      <4>1. ~Written("resolved_claims")
        BY <2>4, <2>18, <2>19, <3>5 DEF Written, Writers
      <4>2. Explained(v)
        BY <2>4, <2>6, <2>21, <3>2, <3>3, <3>5, <4>1
      <4>. QED
        BY <2>12, <2>4, <3>5, <4>2 DEF k
    <3>. QED
      BY <2>4, <3>1, <3>4, <3>5
  <2>22. ASSUME Ran("write_knowledge_graph")',
                ch'["cross_domain_conflicts"] # {}, NEW v \in ch'["graph_batch"]
         PROVE  Explained(v)'
    <3>1. Runs("write_knowledge_graph") <=> k = 18
      BY <2>3, AloneAtRank, RankValues DEF k, Domains, DerivedFromSymbols
    <3>2. CASE k = 18
      <4>1. ch["cross_domain_conflicts"] # {}
        BY <2>20, <2>22, <3>2
      <4>2. /\ \A c \in FromDomains : \A w \in ch[c] : Explained(w)
            /\ \A c \in FromFiles : \A w \in ch[c] : Explained(w)
        BY <2>3, <2>8, <3>2 DEF LeakInv, k, Explained, Mandatory
      <4>3. /\ \A w \in ch["resolved_claims"] : Explained(w)
            /\ \A w \in ch["inventory"] : Explained(w)
            /\ ch["flagged_for_review"] # {} =>
                 \A w \in ch["hitl_resolutions"] : Explained(w)
        BY <2>3, <3>2, <4>1 DEF LeakInv, k, Explained, Fresh
      <4>4. \A w \in Found(Domains) : Explained(w)
        BY <2>3, <3>2 DEF LeakInv, k, Found
      <4>5. \A w \in Read({"inventory", "symbol_table", "call_graph",
                "config_schema_api", "consolidated_business_rules",
                "workflow_traces", "resolved_claims"}) : Explained(w)
        BY <4>2, <4>3 DEF Read, FromDomains, FromFiles
      <4>6. ch["flagged_for_review"] # {} =>
              \A w \in Read({"flagged_for_review", "hitl_resolutions"}) :
                Explained(w)
        BY <4>2, <4>3 DEF Read, FromDomains
      <4>7. \A w \in NodeOutput["graph_batch"] : Explained(w)
        BY <4>4, <4>5, <4>6 DEF NodeOutput
      <4>8. v = launch \/ v \in NodeOutput["graph_batch"]
        BY <2>6, <2>7, <2>22, <3>2 DEF WrittenAt
      <4>9. Explained(v)
        BY <4>7, <4>8 DEF Explained, Fresh
      <4>. QED
        BY <2>12, <3>2, <4>9 DEF k
    <3>3. CASE k # 18
      <4>1. Ran("write_knowledge_graph")
        BY <2>1, <2>22, <3>1, <3>3 DEF Ran, Runs
      <4>2. k > 18
        BY <2>4, <4>1, RankValues DEF Ran, Task
      <4>3. ch'["graph_batch"] = ch["graph_batch"]
        BY <2>6, <2>7, <3>3 DEF WrittenAt
      <4>4. Explained(v)
        BY <2>20, <2>22, <4>1, <4>2, <4>3 DEF LeakInv
      <4>. QED
        BY <2>4, <2>12, <4>2, <4>4 DEF k
    <3>. QED
      BY <3>2, <3>3
  <2>. QED
    BY <2>1, <2>13, <2>14, <2>15, <2>16, <2>17, <2>21, <2>22 DEF LeakInv
<1>3. CASE UNCHANGED <<launch, tasks, ran, ast, domains, ch>>
  BY <1>3 DEF LeakInv, Explained, Fresh, Parsed, Ran
<1>. QED
  BY <1>1, <1>2, <1>3 DEF Next, Finish, Stop, Resume, vars, inputs, channels

\* Whatever earlier launches left in the channels, what a launch writes to the
\* graph is its own but for the four leaks: for any number of launches,
\* failures and resumes, and any choice of files and domains.
THEOREM LeaksAreThese == Spec => []LeaksExplained
<1>1. Init => OrderInv /\ ShapeInv /\ LeakInv
  BY DEF Init, OrderInv, ShapeInv, LeakInv, Ran
<1>2. LeakInv => LeaksExplained
  BY DEF LeakInv, LeaksExplained, Explained, Fresh
<1>. QED
  BY <1>1, <1>2, TypeInit, TypeStep, OrderStep, ShapeStep, LeakStep, PTL
     DEF Spec
=============================================================================
