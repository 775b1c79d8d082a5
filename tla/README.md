# AtlaZ: verification project

AtlaZ turns a source repository into a knowledge graph: it parses the code, lets
LLM-backed "domain agents" extract findings, holds low-confidence findings for
human review, resolves contradictions, and writes the result to Neo4j (the
graph), Qdrant (a retrieval index) and Postgres (audit and evidence). This
directory models the parts of it whose correctness depends on order, failure and
concurrency. All paths below are relative to the repository root; the program is
in `src/atlaz`.

## 1. Inventory

| Component | State | Operations | What can go wrong |
|---|---|---|---|
| Pipeline runs: `orchestration/runner.py`, `graph.py`, `nodes.py` | one LangGraph thread per `thread_id`: channel values, position and pending interrupt, checkpointed in SQLite | `run_pipeline`, `resume_pipeline`, `get_run_status`, `get_pending_review_items` | several processes execute one thread; checkpoints are stored behind the nodes and may be lost; a process dies or a node raises between supersteps; a thread is resumed twice |
| Pipeline graph: `graph.py`, `nodes.py`, `state.py`, `capability_registry.py` | the channels and their reducers | fan-out per file and per domain, join, routers | parallel writers of one channel, tasks that fail beside tasks that finish, stale channel values of an earlier launch |
| Review queue: `hitl/*`, `api/resolution_builder.py` | `flagged_for_review`, `hitl_resolutions` | collect, auto-resolve, build, apply | identities survive no checkpoint round trip, so resolutions are matched by natural key |
| Disputes: `conflicts.py`, `confidence.py`, `dispute_resolution.py` | conflicts, scores, resolved claims | detect, score, resolve, accept | a claim in several conflicts; ties; thresholds |
| API, worker, CLI: `api/*`, `worker/*`, `cli.py` | Celery result per `thread_id` | `POST /ingest`, `GET /runs`, `POST /resolve`, the task, `run`, `resume` | two sources of status; no lock on a thread; configuration read per process |
| Audit store: `audit/*` | `pipeline_runs`, `hitl_resolutions`, evidence, conflicts, parse failures, traces | `record_*` (best effort), `get_run`, `list_completed_runs` | outages, foreign keys, rows keyed by content and shared by runs |
| Knowledge graph: `graph_store/*` | nodes by natural key, edges | `ensure_schema`, `write_batch` | two transactions per batch; MERGE never deletes; repositories share nodes |
| Vector index: `vector_store/*` | documents per collection | `write_documents`, `resolve_candidates` | outages; documents of nodes that are not in the graph |
| Cross-repository links: `crossrepo/*` | link edges with `status` | scan, write, review | a rescan against a review, an ingestion in the middle of a scan |
| Document generation, enhancement, migration: `docgen/*`, `enhancement/*`, `migration/*` | output directories | query the graph, prompt, write files | dependency completeness, directory collisions |
| Web app: `webapp/*` | Streamlit session state | ingest, retrieve, modernize | state of an earlier selection used after it changed |
| Ingestion, parsing, analysis, agents: `ingestion/*`, `parsing/*`, `analysis/*`, `agents/*` | none (functions of their inputs) | clone, walk, parse, resolve symbols, extract | ambiguous names, edges whose ends are named differently, recursive calls |
| Reasoning and LLM: `reasoning/*`, `llm/*` | none | answer a question over the graph | a generated query that writes |

How they interact: `POST /ingest` enqueues a Celery task whose id is the
`thread_id`; the task calls `run_pipeline`, which writes the audit row, invokes
the graph and audits the result. The graph's nodes call the agents, and its last
three nodes write Neo4j, Qdrant and Postgres. When something is flagged and HITL
is on, the graph interrupts; `GET /runs` then reads the checkpoint (after the
Celery state), and `POST /resolve` or `atlaz resume` reads the queue from the
checkpoint, builds a resolution for every flagged item and resumes the thread in
its own process. The checkpoint file is the only thing these processes share
besides the stores, and nothing locks it.

`PROJECT.json` lists every component with its status, and every hazard with the
line where it bites.

## 2. Modules

### PipelineRun (with ReviewedRun): the life of one run

`PipelineRun` models one `thread_id`: any number of launches (`run_pipeline`) and
resolvers (`resolve_run`, `_cmd_resume`), each a process with its own copy of the
pipeline state.

| Model | Code |
|---|---|
| `ckpt` | latest LangGraph checkpoint: state, pending interrupt, and the process that wrote it |
| `inflight` | checkpoints newer than it that a process has handed to its background threads and that are not stored yet, oldest first |
| `lost` | processes one of whose background writes is lost |
| `mem[e]`, `phase[e]` | channel values the invoking process holds, and where it is in `run_pipeline` / `resume_pipeline` |
| `resumed[e]`, `decision[r]` | an unused `Command(resume=...)`; the resolutions a resolver built |
| `kgNodes`, `kgEdges`, `indexed`, `evidence` | findings in Neo4j (two transactions), Qdrant and Postgres |
| `row`, `trail` | `pipeline_runs.status`; rows of `hitl_resolutions` by recording process |
| `celery` | state of the Celery result |
| `CheckpointStatus`, `ApiStatus` | `get_run_status`, `GET /runs/{id}` |

`runner.py:63` and `:86` call `app.invoke` without a `durability` argument, so LangGraph
writes checkpoints in the background (its default, "async"):

* `Finish`: a superstep is over. Its result is merged into the process's copy and its
  checkpoint is submitted (`Submit`); the next node begins at once.
* `StoreCheckpoint`: a submitted checkpoint is stored. Those of one process are chained;
  readers take the one with the latest id, so the older ones of other processes no
  longer count.
* `LoseCheckpoint`: one cannot be stored. That stops nothing, and the later ones are
  tried all the same. The task writes that go with a checkpoint may be lost too.
* An invocation waits for its writes before it ends. At END it then raises the error of a
  lost one, though the last checkpoint may be stored (`ReturnState`); at an interrupt it
  raises it or drops it (`ReturnPause`, `Raise`).
* A process that dies loses what it had submitted (`Crash`).

So the graph may be written while the checkpoint still stands at the gate, and after a
crash or a lost checkpoint it stays so; the nodes then run again. A row may say `failed`
while the checkpoint is complete.

`Resume` loads the checkpoint as it is at that moment; only the gate consumes the resume
value, and a finished thread runs nothing but is audited again. The interrupt is attached
to the checkpoint of the gate, so a newer one does not show it. Findings are members of
`Items`; the stages before `collect_flagged_items` are one stage, and those between
`apply_hitl_resolutions` and `write_knowledge_graph` keep the findings and are left out.
Of the task writes that LangGraph stores beside checkpoints only the interrupt is
modelled here; those of tasks that finish beside a failing one are `PipelineGraph`'s.

`ReviewedRun` is the abstract specification: what a reader of checkpoint and graph is
promised, without processes. The queue and the resolutions, once shown, never change; a
pause precedes any resolution and only resolutions end it; a complete run stays as it is.
The graph is written before the checkpoint tells (`Publish`, then `Show`), always with
all that survives one set of resolutions and, unless a checkpoint is lost, with the set
that is shown and nothing else. `PromiseKept` is the refinement, with
`status <- CheckpointStatus`, `graph <- kgNodes`, `lost <- lost # {}` and the checkpoint's
own queue and resolutions.

### Runs of PipelineRun

`MCPipelineRun` instantiates it; two findings are enough to accept one and reject
the other, two resolvers to pause or fail and retry, to come late, or to disagree.

| Run | Instance | Shows |
|---|---|---|
| serial | 2 findings, 1 launch, 2 resolvers, one at a time; nodes fail, crashes, lost checkpoints | `TypeOK`; `TrailMatchesCheckpoint`: the audit trail never holds resolutions the thread did not go on with; `AuditAgreesAtRest`, unless a process died; `PromiseKept` |
| overlap | 1 launch, 2 resolvers, any interleaving, everything fails | `ReviewBeforeGraph`, `CompleteMeansWritten`, `SideStoresFollowGraph`; `PausedMeansUnwritten`, as long as no checkpoint is on its way or lost |
| progress | 2 overlapping resolvers, one fallible, the other with HITL off; Postgres and Qdrant come and go | `ReviewedRunCompletes`, `OutageNeverBlocks` (liveness) |
| tworeviews | 1 launch, 2 overlapping resolvers that disagree | a statement of the docs that the code breaks (section 4) |

*One at a time* (`MaxActive = 1`) is an assumption on the operators: the code has
no lock. The runs that need it say so, and `tworeviews` shows what overlap breaks.

`MaxInFlight` bounds the checkpoints on their way: 8 in `serial`, more than one invocation
submits, so nothing ever waits for the disk; 2 in the others, where a process that is
further ahead waits.

`AuditAgreesAtRest` allows what the code does: a row that says `failed` of a paused or
complete thread a call on which has raised, the lost checkpoint of a complete run
included, and `pending_review` of a thread whose pause was lost.

*Fairness.* `FairSpec` has weak fairness on `Progress(e)` and `Store(e)` for every
process: one that has been started keeps being scheduled, with its background writes,
until it returns, raises or dies. Nothing obliges anybody to launch or review. Both
liveness properties except a resolver that fails or dies: its checkpoint may be the later
one. The liveness runs have no symmetry.

### Proofs (PipelineRun_proofs)

For every number of findings, launches and resolvers, any overlap and every
failure the model has:

* `TypeCorrect`: `TypeOK`, inductive by itself.
* `CompleteIsWritten`: `CompleteMeansWritten`; `SideStoresComeLast`:
  `SideStoresFollowGraph`. Neither is inductive: a checkpoint is a copy of what some
  process held. `WrittenInv` makes the claim for every held copy (`Held`: the checkpoint,
  those on their way, the processes' memories) at every position after the two
  transactions.
* `PauseStopsShort` (one launch): `PausedMeansUnwritten`. `QueueInv` says that
  nothing happens before the analysis, that all copies past it agree on the queue, and
  that no checkpoint on its way is behind an older one; `PauseInv` that what is
  ahead of a checkpoint before or at the gate is on its way unless one is lost, and
  that an interrupt shows only on a checkpoint at the gate.
* `NothingUnreviewed` (one launch, HITL on in every process):
  `ReviewBeforeGraph`. `ReviewInv` says that in every held copy past the gate each
  flagged finding is rejected or accepted by some resolver, and that each
  resolver's list covers the queue.

`SingleLaunch` and `ReviewEverywhere` are hypotheses on the constants, and they are
needed: a resolver whose environment has HITL off publishes what a reviewer
rejected (section 4), and a relaunch analyses again, with findings nobody has
reviewed.

For one launch and any number of resolvers that take turns (`SingleLaunch`,
`OneAtATime`), with failed nodes, lost checkpoints and crashes, all three from
`SerialInv`. At most one process works. The stored checkpoint, those on their way
(`Chain`) and the worker's copy are one line of descent (`Descent`, with `After` and
`Rank`). Unless one is lost, the worker's copy is in the chain, and a written graph is
what survives the resolutions of a member of it (`GraphTold`).

* `PromiseIsKept`: the refinement `PromiseKept`. Storing a checkpoint is `Show`; the
  transaction of the nodes is `Publish` or repeats what is there; the interrupt's write is
  `Pause`, `Lose` or a stutter; a lost checkpoint, or a crash with one on its way, is
  `Lose`; everything else is a stutter. `AutoInv` adds that before the checkpoint shows
  a queue nobody can have rejected anything.
* `TrailIsTrue`: `TrailMatchesCheckpoint`. `TrailInv` says that what is recorded are the
  resolutions of a complete checkpoint, which stays as it is.
* `RowIsTrue` (and Postgres up): `AuditAgreesAtRest`. `RowInv` speaks of the moments at
  which nobody works, and says that a pause about to be audited shows unless a
  checkpoint is lost (`PauseShows`). A crash ends its claim, so it is proved for
  behaviours in which nobody has died, which stays so backwards in time
  (`DeathIsFinal`).

Overlap breaks all three: the code has no lock. Liveness is left to the model checker.

### HitlReview: what a review does to the findings

`HitlReview` models one pass of one run through `collect_flagged_items`, the gate
and `apply_hitl_resolutions`, with the data that `PipelineRun` abstracts: findings
in five lists, review items with ids, client requests, and the matching by natural
key that replaces object identity across the checkpoint.

| Model | Code |
|---|---|
| `domains[l]`, `extracted` | `state["domains"]`, list by list, and as the agents left it (history) |
| `flagged`, `LowItem`, `GapItem` | `flagged_for_review`; an item id names the list, the natural key does not |
| `requests`, `BuildResolutions`, `BuildOne` | body of `POST /resolve`, `resolution_builder.py` |
| `resolutions`, `AutoResolve` | `hitl_resolutions`, the policy |
| `Entries` | the list comprehensions that select requests, items or findings |
| `Outcome`, `ApplyLowConfidenceResolutions`, `ApplyToDiagram` | one pass of the loop, the function, the diagram as a list of one |
| `GapAnswer` | `find_gap_resolution` and `build_graph_batch` |

A finding is its list, its place there, a name and whether it is below the
threshold. `SelectLastInSeq` is a dict comprehension's "last entry wins",
`SelectInSeq` is `next(...)`. `Init` ranges over every content of the lists the
bounds allow, with coinciding names.

`EachItemOnItsOwn` is the promise: with distinct keys the lists afterwards are the
lists before, without what a client rejected, in order. It is what lets
`PipelineRun` treat items as independent; it excepts the diagram. Without
distinct keys, `OnlyRejectionsShorten` and `UnsharedKeysUntouched` say what remains.

| Run | Instance | Shows |
|---|---|---|
| review | 2 clusters, 1 term, 1 control, the gap, the diagram, 2 names, up to 2 requests or the policy | the four properties |

Two names and two entries make every kind of collision (same list, two lists,
flagged with unflagged); two requests are enough to contradict or repeat oneself
and to leave items unmentioned. The client's free text is `"text"` or none. Not
modelled: the `edit` action, which no caller builds.

#### Proofs (HitlReview_proofs)

The four properties, for any names, room, length of the request list and settings:
`EachOnItsOwn`, `NothingLostUnasked`, `UnsharedKept`, `GapIsAnsweredByClient`.

The state is four steps deep, so the invariant is short: `HInv` says, position by
position, that the queue is what `CollectFlaggedItems` makes of the extracted lists,
that the resolutions settle it, and that the lists and the answer are what the pass and
`GapAnswer` make of those. The work is in the data. `Settled` is what a queue and
a request list owe each other: every item has a resolution; the first and the last one
of a mentioned item answer the first and the last request about it, and those of
another item are the policy's. `RequestsSettle` proves it of `BuildResolutions`, and
`PolicySettles` of `AutoResolve`. `OutcomeIs` then tells what the pass makes of one
finding, whatever keys collide, and each theorem reads its property off it.

What these functions do to a whole list is proved from `EntriesInOrder`,
`FlattenedSet` and `FlattenedOnes` (`SequenceFacts`), facts about `FlattenSeq` at every
length.

Two consequences of shared keys that no run is spent on: a flagged term takes the
place of a capability of its name in the capability list, since the key does not
carry the list; and a rejected component diagram is put back
(`nodes.py:390`), which is why `EachItemOnItsOwn` excepts it.

### PipelineGraph: inside one invocation

`PipelineGraph` has the 26 nodes of `graph.py`, as LangGraph runs them.

| Model | Code |
|---|---|
| `tasks`, `finished` | the tasks of a superstep (a node, or `parse_ast` with its file) and those whose writes are pending |
| `ast`, `domains` | `ast_index` and `domains`, merged by their reducers |
| `ch` | the other channels a node reads |
| `launch`, `registry`, `present`, `changed` | the launch, the registry file as it loaded it, the working tree, `changed_files` |
| `After`, `Edges`, `RouteAfterCollect`, `RouteDispute`, `FanOutFiles`, `FanOutDomains` | edges and routers |
| `Finish`, `EndStep` | a task returns; all have, so their writes are merged and the next tasks prepared |
| `Stop` | a task raises or interrupts, or the process dies with some pending writes unsaved |
| `Resume`, `Launch` | `resume_pipeline`, which repeats only tasks without pending writes; `run_pipeline`, which drops tasks and keeps channels |

A value is reduced to its provenance: the launches it was computed in or from. That
is enough for what can go wrong here, a node that reads too early and a relaunch
that mixes old and new. `flagged_for_review` and `cross_domain_conflicts` may also
come out empty (`MayBeEmpty`), because routers look at them; an empty list is as current as
any other. `Needs` lists what each node takes from
the state; `ReadsAreCurrent` is the soundness of the topology with respect to it.

`LeaksExplained` is the exact account of a relaunch: what it writes stems from this
launch, except for files not parsed again (deleted ones among them), domains not
run again (disabled ones), Domain B's old glossary read by Domain A, and the old
resolved claims when there is no new conflict. The last leak is a defect (section 4).

| Run | Instance | Shows |
|---|---|---|
| supersteps | 2 files, 4 registries (all domains, only D, none, an unbuilt agent), 2 launches | all five properties |

Two files make the fan-out parallel and let one be parsed and the other not; the
second launch has every kind of leftover the first can leave. Processes run one at
a time: overlap is `PipelineRun`'s. So is the checkpoint that lags behind: `EndStep`
merges and stores in one step, and a superstep that runs again because its checkpoint
was lost is not a step of this module. A deadlock is the end of the last launch.

#### Proofs (PipelineGraph_proofs)

For any `Files`, `Registries` and `MaxLaunches`, under `GraphAssumption` alone.
The argument is a rank: `Rank` numbers the nodes 1 to 21 along the graph, parallel
nodes alike. `Follows` is what every edge does: it goes up in rank and passes no rank
of `Mandatory`, all of them but the optional stages (`parse_ast`, the domains,
`hitl_gate`, `auto_resolve_dispute`). `AfterFollows` proves it of the edges and
routers, and `AfterJoins` that parallel tasks lead to the same tasks.

* `GraphTypeCorrect`: `TypeOK`, with the ranges of the inputs (`TypeInv`).
* `NodesRunOnce`: `RunsOnce`. It is not inductive: nothing in it says where a
  superstep's tasks stand. `OrderInv` does: they are equally far, and farther than
  every task that has run.
* `GraphReviewed`: `ReviewPrecedesWrite`, from `GateInv`: beyond the gate, what is
  flagged has passed it in this launch. A relaunch keeps `hitl_resolutions`, so their
  presence is not enough; the launch they are from is part of the invariant.
* `GraphReadsCurrent`: `ReadsAreCurrent`. `ShapeInv` says parallel tasks are started
  together, so a superstep of a channel's rank writes it; `CurrentInv` that whatever
  has been passed is of this launch; `NeedsInTime` that a node's needs are all passed.
* `LeaksAreThese`: `LeaksExplained`. `LeakInv` follows a value along the ranks: beyond
  the node that writes a channel, what the channel has is of this launch or has one of
  the four explanations, because all that the node read had.

### Disputes: contradictions between domains

`Disputes` follows one launch from the domains' findings (`input`) through
detection, consolidation, scoring, the policy and acceptance to what is written.

| Model | Code |
|---|---|
| `ModuleClaims`, `Classify`, `EntityConflicts` | `_build_conflict_claims`, `_classify`, `_detect_entity_conflicts`: pairs of claims in list order |
| `Clashes`, `ValueConflicts` | `find_conflicts`, `_detect_value_conflicts` |
| `ConfidenceRecords` and the operators before it | `_build_scoring_claims`, `score_claim` |
| `ById` | a dict by id: the last one wins |
| `Decided`, `ResolveDispute`, `AcceptClaims` | the margin, `auto_resolve_dispute`, `accept_resolved` |
| `WriteGraph`, `WriteRecords` | status of `BusinessRule` nodes, `CONFLICTS_WITH` edges, `conflict_records` |

Confidences are integers per mille; `MarginLost` lists the one pair that floating
point puts on the other side of the margin. Texts are sets of words, values are
taken after `_normalize`, and a table's edge is keyed as `_merge_edges` does it.

`ContradictionsFound` compares the list algorithm with a declarative definition
(`DeadVsActive`, `PurposeMismatch`, `ValueMismatch`). `EveryClaimLabelled` counts the
entries of every claim. `ValueDisputesStayOpen` relates nodes, edges and findings;
it rests on the constants of two agents. `LoneDisputesRecorded` is what is left of
"a conflict is recorded the way it was resolved": it fails for claims in several
conflicts (section 4).

| Run | Instance | Shows |
|---|---|---|
| disputes | 2 modules, up to 2 capabilities and 2 functions, confidences around both margins, every reachability; 2 rules (perhaps of one id) and 2 fields; 0..11 signals, 0..4 kinds | the five properties |
| disputelabel | 1 capability, 2 functions | a statement of the code that it breaks (section 4) |

Module-level, value-level and score inputs vary separately, since their claims have
no id in common. Two functions are enough for a claim in two conflicts.

`Comprehensions` has the list comprehensions with a condition (`Entries`, `Having`)
that `Disputes` and `HitlReview` use. A list of findings may repeat one: shared keys of
the review queue repeat a cluster, a function defined twice has two descriptions. Only
without such a repetition (`FindingsDistinct`) is a contradiction found once.

#### Proofs (Disputes_proofs)

The five properties and `TypeOK`, for any findings, modules, texts and values:
`ContradictionsAreFound`, `SignalsAreAdvisory`, `LoneDisputesAreRecorded`,
`ValueDisputesAreOpen`, `ClaimsAreLabelled`, `TypeCorrect`.

`RunInv` says what each node has left as a function of the findings: a node that
leaves its inputs alone leaves what was computed from them. The rest is about lists.
`ModuleClaimsAre`, `PairsAre` and `Classified` tell which pairs of claims there are
and which of them exclude each other: pairs are taken in list order, so the
asymmetric types come out with Domain B's claim first (`ClaimsInOrder`). That a
contradiction is found once (`EntityOnce`) follows positions through the pairs of a
module and the modules. `ResolvedAre` has the two entries of conflict *k* at *2k - 1*
and *2k* and the acceptances behind them; from it, the entries of a claim are as many
as its conflicts (a bijection), and its status is that of one of them
(`StatusIs`), which `LastWins` picks.

`SequenceFacts` has the lemmas about sequences that `Disputes_proofs`,
`HitlReview_proofs` and `ModernizeSession_proofs` share: what `FlattenSeq`, `Entries` and
`SetToSeq` yield at every length. The library's induction theorems take an operator,
which the provers cannot instantiate, so they argue from a least counterexample
(`Inductive`, `UpTo`).
### Analysis, GraphBuilder, Findings, RepositoryGraph: what a run finds and writes

`Analysis` has what is computed from source files without a language model,
`GraphBuilder` the builders of the batch, `Findings` puts both together as the
nodes of the pipeline do, and `RepositoryGraph` is one run of one repository:
analyse, review, write.

| Model | Code |
|---|---|
| a source file (`defs`, `sites`, `imports`) | what a syntax tree says; an input |
| `QualifiedNames`, `PythonParent`, `GrammarParent`, `CallsOf`, `ParseFile` | the two parsers: nesting, methods, calls attributed to every enclosing function |
| `BuildSymbolTable`, `ResolveCallee`, `BuildCallGraph` | `analysis/symbol_table.py`, `analysis/call_graph.py` |
| `BuildModuleCallGraph`, `Components`, `ComponentEdges` | `agents/shared/call_graph.py`, `hld_builder.py` |
| `CapabilityClusters` | `capability_clustering.py`: any partition and any names, for label propagation and the model |
| `DataEntities`, `ApiContracts`, `FRDExtractor`, `BuildWorkflowTraces` | the deterministic agents and `workflow_trace.py` |
| `Build...` | one operator per builder of `graph_builder.py`; a node is its label and natural key, an edge its type and ends |
| `BuildGraphBatch` | `build_graph_batch` in `nodes.py` |

Two resolutions of names, by function and by file, and twenty builders that name
the ends of their edges independently have to fit together:

* `GranularitiesAgree`: a CALLS edge across components comes with their DEPENDS_ON
  edge. Names defined twice are excepted: the symbol
  table keeps the last definition, the call list all of them.
* `EdgesEndInBatch`: Neo4j drops an edge whose end it does not find, without a
  word. The property lists the five kinds of edge to which that happens.
* `WorkflowsFollowCalls`: the steps of a workflow are numbered, never repeat and
  follow CALLS edges, also in recursive code. Workflows are keyed by the simple name
  of their entry point, so entry points of one name are merged; those are excepted.

| Run | Instance | Shows |
|---|---|---|
| analysis | 2 or 3 files in 2 folders, Python and a grammar language, 6 shapes of caller, 5 of callee, each call aimed at each name; every partition; every rejection; every agent disabled once | the three properties |

The shapes are what name resolution distinguishes: a unique name, a redefined one, a
method, a closure, a class and a function of one name, self and mutual recursion, a
name defined in two files, a method node in a class, in a function and at module
level; for the graph, ORM classes and SQL tables of one name, foreign keys to
unknown tables and unparsed files. `max_traces` is not reached. All
definitions span the same two lines, with one rule inside and one outside them; parse
errors are files without definitions.

### GraphStore: the graph that runs share

`GraphStore` is the Neo4j instance: batches of `RepositoryGraph`'s kind, merged by
runs of several repositories, each in two transactions.

| Model | Code |
|---|---|
| `owner`, `verified` | `repo_id` and `last_verified` of a node |
| `edges` | relationships, by type and ends |
| `WriteBatch`, `MergeNodes`, `MergeEdges`, `Fail` | `write_batch`: the timestamp, its transactions, the exception |
| `NodeFacts`, `EdgeFacts` | the filters on `repo_id` in the queries of `graph_facts.py` |

A node belongs to whoever wrote it last, and nothing is deleted. What documents can
rely on all the same:

* `LatestRunIsDocumented`: the run that merged nodes last is documented in full once
  it is done, whatever other runs did between its transactions.
* `LeftoversRecognisable`: nodes of a repository that its last merge did not find again
  are exactly those whose `last_verified` is not the Repository node's.
* `BlendThroughSharedKeys`: a document shows an edge of another repository only
  between nodes both have.

| Run | Instance | Shows |
|---|---|---|
| ingests | 3 runs, any of 2 versions of 2 repositories each, transactions in any order, failures | the three properties |

The batches are computed by `Findings` from sources that share a folder, a file and
two functions and differ in calls and one file, so the keys that collide are those
the code's own keys make collide. Three runs allow a repository to be ingested before
and after another.

#### Proofs (KnowledgeGraph_proofs)

First `RepositoryGraph`, for repositories of any number of files and definitions, any
partition, names and rejections, from two assumptions. `IsSource` is what a parser
guarantees of a file: a definition has a name, comes after the one it is in, and a class
returns nothing. `RepositoryAssumption` adds that files are parsed once and that a
conflict is between a rule and a table of the run. `RunInv` is inductive: the findings
are what the analysis makes of the sources whatever the review rejects (`Analysed`), and
the batch is built from them.

* `WorkflowsArePaths`: `WorkflowsFollowCalls`. `WalkIsPath` says that a walk is a path of
  calls without a repetition after any number of hops; `OneTrace` and `WorkflowIs` that
  the graph has the steps of exactly that walk when one entry point has the name.
* `EdgesEnd`: `EdgesEndInBatch`. `Coherent` is what the lists of findings owe each other:
  members of components are files, dependencies are between components, every
  definition's name has a symbol, traces consist of definitions. Each builder's edges
  end in the batch because of one of these, or are one of the exceptions.
* `CallsAreDependencies`: `GranularitiesAgree`. A call is resolved only to the one
  definition of its simple name (`ResolvedIs`), so the module call graph, which looks
  for the one file that has the name, comes to the same (`CallLeadsTo`); components are
  disjoint (`ComponentsAre`).
* `BatchesHaveTheirRoot`: the batch has one Repository node, the repository's, which is
  what `GraphStore` assumes of every batch.

The recursions are in the way of none of this: an invariant of the recursive function is
enough for a qualified name (it ends with the simple one) and for a walk. What an
enclosing function's list of calls contains is not needed, only that they are its file's.

Then `GraphStore`, for any repositories, keys, batches and number of runs, from
`StoreAssumption` (a batch holds its own Repository node and no other).
`StoreTypeCorrect` is inductive by itself. `Provenance` says where owners, times and
edges come from, `Times` that no two runs have one time: from the two, a merge's time is
new to the graph, which is what `LeftoversTold` needs. `Documented` says that nodes never
disappear, so that a run's own edges find their ends (`LatestDocumented`);
`BlendIsBounded` follows from `Provenance`. That times differ is the model's clock:
`time.time()` of two runs is taken to differ.
### CrossRepoLinks: links between repositories

`CrossRepoLinks` has the calls of `atlaz link-services --write`, query by query, the
review page's cached lists, and ingestions that change the owner of a service.

| Model | Code |
|---|---|
| `owner` | `repo_id` of each Service node |
| `links` | CALLS_SERVICE, PUBLISHES and CONSUMES edges with `status` and `confidence` |
| `scan[s]` | one call of `_cmd_link_services`: facts of the first repository, findings, what is written |
| `list[v]` | `st.session_state["review::<thread_id>"]` |
| `OutboundCalls`, `Target`, `Correlate`; `PubSubSignals`, `NormalizeTopic`, `Findings` | `scanner.py`, `matcher.py`; `pubsub_service.py` |
| `ReadFirst`, `ReadSecond`, `ScanTopics`, `WriteLink`, `FinishScan` | `find_candidates`, `scan`, both `write`s in the command's order |
| `FetchUnconfirmed`, `Resolve` | `review.py`, `_resolve_link` |

The interesting steps lie between a read and the write it leads to. `ShownAsFound`: a
link joins services of the repositories it was found between, since both writers match
name and `repo_id`. `ReportedIsWritten`: the printed count is of edges that exist, unless
a service changed hands meanwhile (a write that matches nothing is counted too).
`WeakestEvidenceShown` is a property the code has and hardly wants: candidates are
written in falling order of confidence onto one edge. `ReviewedLinksAreDecided`: a link
that left a reviewer's list has the status the reviewer gave it until a scan or
another reviewer overwrites it, both of which happen.

| Run | Instance | Shows |
|---|---|---|
| links | 2 repositories sharing a service name, 2 scans, 2 lists, 4 call sites, 1 subscription, any ingestions | the four properties |

Two scans can interleave and repeat each other, two lists can hold one link. One call by
service name and one by repository name give one pair two candidates.

#### Proofs (CrossRepoLinks_proofs)

For any repositories, names, call sites, and any number of scans, lists and
ingestions. `TypeInv` adds to `TypeOK` what a running scan holds. `ShownAsFound` and
`ReviewedLinksAreDecided` are inductive over it (`EdgesAsFound`, `DecisionsStand`). The
other two are not: `Fresh` says that what a scan has read or still has to write is
true of the graph, or is about a service whose owner changed since the scan began, so a
write that matches nothing is explained (`CountsAreTrue`); `Falling` says that what is
still to be written is no stronger than what went to the same edge, and `Weakest` states
the property for scans still running (`WeakestWins`).

### Migration, ModernizeSession: the Modernize page

`Migration` has what the two flows compute (units, dependency mapping, verification,
generation, response-field warnings, impacted files); a model's answers are inputs.
`ModernizeSession` is a browser session over it: picker, session state and the
directories under `outputs/`, which the command line writes too.

| Model | Code |
|---|---|
| `runs`, `rendered`, `index`, `picked` | complete runs, those of the list when the page was drawn, the run its `index` stood for, `selected_thread_id`; `list_completed_runs` orders them, newest first, which `Top` and `Started` are |
| `page[t]` | `migrate_pending::`, `migrate::`, `migrate_saved::` and the draft's keys in session state |
| `outputs[d]`, `second` | a directory (`<thread>/migrations/<second>`): files, manifest |
| `First`, `Current`, `Default`, `PickProject`, `IngestHere` | `select_project`: labels to positions and back. The selectbox has no key, so its options and index are its identity: when either has changed since it was drawn, a choice belongs to a widget that is gone and is dropped |
| `wanted`, `possible` | history: the label chosen last, the labels the selection may have after it |
| `Analyze`, `RefuseAnalysis`, `ConfirmDependencies`, `Finish` | `_run_full_migration_analysis` to `_finish_full_migration` |
| `Write`, `Stored` | `write_migration`, `write_modifications`: files, then manifest |
| `CliMigrate`, `CliEnhance` | `migrate --save`, `enhance --save` |

* `PickedAsWanted`: while runs complete and shift positions, the picker either takes a
  choice, and selects a run with the label chosen, or drops it, and stays with the
  label it had. The same label chosen twice, the second time from the list as it is, is
  taken, unless another run has the label of the selection.
* `LatestAnalysisShown`: shown and saved is what came of the last analysis; another
  language's dependencies only after a confirmation.
* `VerifiedExists`, `DependenciesAccounted`, `LostFieldsWarned`: what the tables and the
  manifest claim holds, with the exceptions their definitions name (an edited row
  keeps its mark; a name in two manifests is one entry; units that share a path).
* `ProposalOnDisk`: a directory is its manifest's proposal, unless two were saved in a second.

A field is kept if its name occurs in the generated text (`api_response_shape.py:72`);
here the text is the set of the names that occur in it. `UnitLimit` is `_UNIT_LIMIT`, 40:
the fields of an endpoint beyond it are neither asked for nor missed. A path is a plain
name: absolute ones, `..` and aliases such as `./x`, which a model might answer and
`output_writer.py:37` joins as they are, are not covered.

| Run | Instance | Shows |
|---|---|---|
| modernize | 3 runs, 2 with one label, 2 replies, responses with a field more than `UnitLimit`, 2 analyses, 2 seconds, one edit, everything may fail | the six properties |

Two analyses are an earlier and a later one, or one in the browser and one on the
command line; two seconds let saves collide or not. The replies have a shared path, a
lost field, a package that does not exist and a name declared in two manifests.

#### Proofs (ModernizeSession_proofs)

All six properties, for any runs, labels, replies and failures and for sessions of any
length. That the graph's facts and the order of runs are sequences is assumed.

* `LatestIsShown`: `LatestAnalysisShown` is inductive with the shape of a page
  (`SessionInv`): an analysis that reaches its mapping empties the page before it puts
  its outcome there, and a confirmation uses the pending plan up.
* `LabelIsKept`: `PickedAsWanted`, with `PickInv`: what was drawn is complete, the run at
  the index is the one selected or another with its label, and a label survives every
  redrawing, since no run is taken off the list. A list that is not empty has a first run
  and a first run with each of its labels.
* `MarksAreTrue`, `EveryDependencyMapped`, `SavedAsProposed`, `LossesAreTold`: from
  `FilesInv`. It says of every plan, result and draft that it is what its reply makes of
  the project's facts (`PageOk`), and of every directory that two proposals have not
  been saved into that its files are those of the proposal its manifest names
  and of the one the page would save again (`DirOk`). The properties of a table
  (`TableOk`) and of the warnings then follow from how `Migration` computes them.
## 3. Order of work

Done, in this order: `PipelineRun` and `ReviewedRun`; `HitlReview`; `PipelineGraph`;
`Disputes`; `Analysis`, `GraphBuilder`, `Findings`, `RepositoryGraph`; `GraphStore`;
`CrossRepoLinks`; `Migration` and `ModernizeSession`. `GraphStore` composes with
`Findings` (its batches), `RepositoryGraph` with `Analysis` and `GraphBuilder`,
`ModernizeSession` with `Migration`, `PipelineRun` with `ReviewedRun`; each of the four
pipeline modules takes one step of the others as atomic.

Every invariant and every refinement that a run checks is a theorem. Liveness
(`ReviewedRunCompletes`, `OutageNeverBlocks`) stays with TLC: the prover has no fairness
or ENABLED.

### Assumptions

Stated here once because several modules make them:

* `normalize_name` is applied before names are compared; names are equal or not.
* Limits on lists are not reached: `LIMIT`s of queries, `max_traces`, the 50 runs
  of the picker, the fifteen nodes of an impact lookup.
* One query is one step. The several queries that read a repository's facts for a
  document are one step too; those of a scan for links are not.
* Two runs never get one `last_verified`; two saves may get one second.
* `atlaz migrate` and `enhance` are called for completed runs.
* Call sites are in the order in which the parser collects them.
* A language model answers anything of the shape its caller parses, or raises.

### Not modelled

* LLM client, prompts, planners' texts, the syntax validator and the guideline store:
  calls to services or functions of one text; their callers see any answer.
* The reasoning agent: it only reads, and keeps nothing.
* Ingestion (clone and file walk), language detection, the fallback between parsers:
  their result is the input of `Analysis`.
* Documents' templates and wording; `GraphStore` has which facts they are given.
* Evidence and conflict rows: written per run and keyed by content, but nothing reads
  them. `parse_failures` and `agent_traces` are append-only. The schema's migrations are
  applied by hand.
* `review_gate.py`, which nothing calls, and pages that only show facts.

`HitlReview` and `Disputes` define a `TypeOK` that is not run: both start from all
their inputs and take a few steps, and that of `Disputes` is proved.

## 4. Disagreements with the docs

With a run that shows it:

* `RejectedIsDropped` (tworeviews): overlapping resolvers publish what one of them
  rejected (`api/main.py:97` against `resolution_application.py:21`).
* `RecordTellsResolution` (disputelabel): of several conflicts of one claim the last
  one's outcome is recorded for all (`nodes.py:863` against `dispute_resolution.py:39`).

Met while modelling, without a run.

Runs and review:

* A pause "stops short of writing to the graph until it's resolved" (`README.md:188`), but
  checkpoints are written in the background (`runner.py:63`, `:86`): when those after the
  gate are lost, a resolved run that has written the graph is pending review again.
* `GET /runs` prefers the Celery result over "the single source of truth"
  (`api/main.py:73` against `api/main.py:12`).
* The gate obeys the configuration of the process that resumes; with HITL off there it
  accepts everything (`api/main.py:86` against `resolution_application.py:21` and
  `resolution_builder.py:5`).
* Two controls on one entity share a natural key and one replaces the other
  (`resolution_application.py:27` against `auto_resolve.py:6`).
* Without a conflict, a relaunch keeps the labels and confidences of the launch before
  it (`nodes.py:624` against `dispute_resolution.py:64`).
* A completed run keeps its queue, so it can be resolved again: the choices are ignored
  and the resolutions recorded twice (`runner.py:125` against `cli.py:109`).
* The registry is validated by a node, not when the graph is compiled
  (`capability_registry.py:9`).

Analysis and graph:

* `data_flow.py:16` speaks of READS and WRITES edges; no builder makes them.
* Every function nobody calls is `unreachable`, module-level entry points too
  (`graph_builder.py:252` against `graph_builder.py:245`).
* A name defined twice in one module resolves in one call graph and not in the other;
  parameters of both definitions are merged.
* Edges of class workflow steps are dropped, and methods that a grammar parser finds
  inside functions lose their DEFINES edge; a SQL table that is created twice changes
  its kind to `orm_model`.
* `graph_facts.py:6` promises no blending of repositories; shared keys blend, and a
  re-ingested repository keeps the edges it has lost.

Links:

* `schema.py:124` calls CALLS_SERVICE the only edge across repositories; shared topics
  connect two as well.
* The weakest evidence overwrites the strongest, `written` counts writes that matched
  nothing, a rescan resets decisions, and a review decides by relationship id whatever
  has become of the link.

Modernize:

* A proposal without files cannot be saved: its directory is never made and the
  manifest's write raises.
* A dependency declared in two manifests gets one mapping; an edited replacement keeps
  the mark of the one that was verified.
* A generation that fails after the confirmation loses the confirmed mapping.
* A choice made from a list of runs that has changed since is dropped, and the page stays
  with the project it had (`project_picker.py:18`).
* Impact lookups search all repositories; files the project does not have are skipped.
* Units that generate one path overwrite each other; two saves in one second share a
  directory; of two runs with one label the picker selects the newer.
