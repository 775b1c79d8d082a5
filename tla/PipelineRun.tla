----------------------------- MODULE PipelineRun -----------------------------
(***************************************************************************)
(* The life of ONE run (one thread_id) of the AtlaZ ingestion pipeline:    *)
(* the processes that execute its LangGraph graph, the SQLite checkpoint   *)
(* they share, and the stores they write.                                  *)
(*                                                                         *)
(* A launch is one call of run_pipeline (a Celery task started by          *)
(* POST /ingest, `atlaz run`, or the web app); a resolver is one call of   *)
(* POST /runs/{id}/resolve or `atlaz resume`.  Each is an operating-system *)
(* process or thread of its own: it loads the checkpoint into memory,      *)
(* works on that copy and only ever writes checkpoints back.  Nothing      *)
(* locks a thread_id, so any number of them may be executing it at once.   *)
(*                                                                         *)
(* runner.py calls app.invoke without a durability argument, so LangGraph  *)
(* writes checkpoints in the background: a superstep is submitted to a     *)
(* thread of the process and the next one begins at once.  The graph may   *)
(* be ahead of the checkpoint; a failed write stops nothing, is raised     *)
(* when the invocation ends, and the writes after it are still attempted.  *)
(*                                                                         *)
(* Data is reduced to what the properties tell apart: a finding is a       *)
(* member of Items, flagged for review or not; a resolution is "accept"    *)
(* or "reject".  The stages between START and collect_flagged_items are    *)
(* one stage, "analysis"; those between apply_hitl_resolutions and         *)
(* write_knowledge_graph keep the findings as they are and are not shown.  *)
(***************************************************************************)
EXTENDS Naturals, FiniteSets, Comprehensions

CONSTANTS
  Items,          \* findings the domain agents extract from the repository
  Launches,       \* calls of run_pipeline with this thread_id
  Resolvers,      \* calls of POST /resolve or `atlaz resume`
  CeleryLaunches, \* the launches that run inside the Celery task
  HitlOn,         \* processes whose PipelineConfig has hitl_enabled = True
  MaxActive,      \* how many of these processes the operators let overlap
  MaxInFlight,    \* bound of the model: checkpoints submitted and not stored
  Fallible,       \* processes that may die, and whose nodes, Neo4j
                  \* transactions and checkpoint writes may raise
  SideStoresMayFail \* Postgres (audit) and Qdrant may be unreachable

Executors == Launches \cup Resolvers

ASSUME ConstantsAssumption ==
  /\ Launches \cap Resolvers = {}
  /\ CeleryLaunches \subseteq Launches
  /\ HitlOn \subseteq Executors
  /\ MaxActive \in Nat \ {0}
  /\ MaxInFlight \in Nat \ {0}
  /\ Fallible \subseteq Executors
  /\ SideStoresMayFail \in BOOLEAN

VARIABLES
  ckpt,      \* latest checkpoint of the thread: its state, whether an
             \* interrupt is pending on it, and who wrote it ({} = none yet)
  inflight,  \* checkpoints newer than it that are submitted and not stored,
             \* with their writers, in the order they were made (their ids)
  lost,      \* processes one of whose background writes is lost
  phase,     \* where each process is
  mem,       \* the pipeline state each process holds in memory
  resumed,   \* whether a process still carries an unused Command(resume=...)
  decision,  \* the resolutions each resolver submits
  kgNodes, kgEdges, \* findings whose nodes / edges are in Neo4j
  indexed,   \* findings that have a vector document in Qdrant
  evidence,  \* findings that have evidence records in Postgres
  row,       \* status column of the pipeline_runs row ("absent" = no row)
  trail,     \* resolutions each process recorded in hitl_resolutions
  celery     \* state of the Celery result of the thread_id

stores == <<kgNodes, kgEdges, indexed, evidence>>
audit == <<row, trail>>
saver == <<ckpt, inflight, lost>>
vars == <<saver, phase, mem, resumed, decision, stores, audit, celery>>

-----------------------------------------------------------------------------
Stages == {"START", "analysis", "hitl_gate", "apply_hitl_resolutions",
           "write_knowledge_graph", "write_vector_index",
           "write_evidence_store", "END"}

\* hitl_resolutions: an action per item, "none" where there is no resolution.
Verdicts == [Items -> {"none", "accept", "reject"}]
NoVerdict == [i \in Items |-> "none"]

PipelineState == [next : Stages, flagged : SUBSET Items,
                  verdict : Verdicts, kept : SUBSET Items]

EmptyState == [next |-> "START", flagged |-> {}, verdict |-> NoVerdict,
               kept |-> {}]

\* Mutant: the policy labels findings with an action nobody defined.
AutoResolveUnlabelled(flagged) ==
  [i \in Items |-> IF i \in flagged THEN "needs_review" ELSE "none"]

\* auto_resolve: every low-confidence finding is accepted as it is.
AutoResolve(flagged) ==
  [i \in Items |-> IF i \in flagged THEN "accept" ELSE "none"]

\* build_resolutions: the client's actions on flagged items, and the
\* auto-resolve policy for the flagged items the request does not mention.
BuildResolutions(flagged, request) ==
  [i \in Items |-> IF i \in flagged /\ request[i] # "none"
                     THEN request[i] ELSE AutoResolve(flagged)[i]]

\* Mutant: rejections are recorded but never applied.
DroppedNever(s) == {i \in s.flagged : s.verdict[i] = "discard"}

\* apply_low_confidence_resolutions: rejected findings are dropped, a flagged
\* finding without a resolution stays.
Dropped(s) == {i \in s.flagged : s.verdict[i] = "reject"}

-----------------------------------------------------------------------------
Working == {"starting", "decided", "running", "edges", "pausing", "returning",
            "raised", "audit_resolutions", "audit_status"}
Phases == Working \cup {"idle", "refused", "done", "failed", "crashed"}

Active == {e \in Executors : phase[e] \in Working}
MayStart(e) == phase[e] = "idle" /\ Cardinality(Active) < MaxActive

Enter(e, p) == phase' = [phase EXCEPT ![e] = p]
Hold(e, s) == mem' = [mem EXCEPT ![e] = s]
AtStage(e, stage) == phase[e] = "running" /\ mem[e].next = stage

InFlight(e) == \E i \in DOMAIN inflight : inflight[i].writer = e

\* The checkpoint of a state is made, and handed to the process's thread pool.
Submit(e, s) ==
  /\ Len(inflight) < MaxInFlight
  /\ Hold(e, s)
  /\ inflight' = Append(inflight, [state |-> s, writer |-> e])
  /\ UNCHANGED <<ckpt, lost>>

\* The superstep is over: its result is merged into the process's copy of the
\* state, submitted, and the next node begins.  A resume value it did not
\* consume is gone.
Finish(e, s) ==
  /\ Submit(e, s)
  /\ resumed' = [resumed EXCEPT ![e] = FALSE]
  /\ Enter(e, IF s.next = "END" THEN "returning" ELSE "running")

\* The invocation is over: what the process held in memory is gone.
Leave(e, p) ==
  /\ Enter(e, p)
  /\ Hold(e, EmptyState)
  /\ resumed' = [resumed EXCEPT ![e] = FALSE]

\* The Celery worker records a result for the launches it runs.
CeleryBecomes(e, s) == celery' = IF e \in CeleryLaunches THEN s ELSE celery

\* record_run_status: no row, no effect; every database error is swallowed.
RecordStatus(s) ==
  \/ row' = IF row = "absent" THEN row ELSE s
  \/ SideStoresMayFail /\ row' = row

Init ==
  /\ ckpt = [state |-> EmptyState, interrupted |-> FALSE, writer |-> {}]
  /\ inflight = <<>> /\ lost = {}
  /\ phase = [e \in Executors |-> "idle"]
  /\ mem = [e \in Executors |-> EmptyState]
  /\ resumed = [e \in Executors |-> FALSE]
  /\ decision = [r \in Resolvers |-> NoVerdict]
  /\ kgNodes = {} /\ kgEdges = {} /\ indexed = {} /\ evidence = {}
  /\ row = "absent"
  /\ trail = [e \in Executors |-> NoVerdict]
  /\ celery = "PENDING"

-----------------------------------------------------------------------------
(* run_pipeline up to app.invoke *)

\* The worker picks the task up; record_run_started adds the audit row unless
\* there is one (or the database is down: swallowed).
StartLaunch(l) ==
  /\ MayStart(l)
  /\ Enter(l, "starting")
  /\ CeleryBecomes(l, "STARTED")
  /\ \/ row' = IF row = "absent" THEN "running" ELSE row
     \/ SideStoresMayFail /\ row' = row
  /\ UNCHANGED <<saver, mem, resumed, decision, stores, trail>>

\* compile_graph (or the registry file) raises before the try block: nothing
\* is audited; a launch fails its Celery task, a resolver answers 500.
CompileFails(e) ==
  /\ e \in Fallible
  /\ IF e \in Launches THEN MayStart(e) ELSE phase[e] = "decided"
  /\ Leave(e, "failed")
  /\ CeleryBecomes(e, "FAILURE")
  /\ UNCHANGED <<saver, decision, stores, audit>>

\* app.invoke(initial_state): the input's checkpoint is submitted, execution
\* begins at ingest_repo.  A thread that already has a checkpoint keeps its
\* other channel values; only the position is reset.
Invoke(l) ==
  /\ l \in Launches /\ phase[l] = "starting"
  /\ Enter(l, "running")
  /\ Submit(l, [ckpt.state EXCEPT !.next = "analysis"])
  /\ UNCHANGED <<resumed, decision, stores, audit, celery>>

-----------------------------------------------------------------------------
(* resolve_run / _cmd_resume up to app.invoke *)

\* get_pending_review_items: the flagged queue of the latest checkpoint, in
\* whatever position the thread is.  An empty queue is answered with 404.
ReadQueue(r) ==
  /\ MayStart(r)
  /\ \/ /\ ckpt.state.flagged = {}
        /\ Enter(r, "refused")
        /\ UNCHANGED decision
     \/ /\ ckpt.state.flagged # {}
        /\ Enter(r, "decided")
        /\ \E request \in Verdicts :
             decision' = [decision EXCEPT ![r] =
                            BuildResolutions(ckpt.state.flagged, request)]
  /\ UNCHANGED <<saver, mem, resumed, stores, audit, celery>>

\* app.invoke(Command(resume=resolutions)): the process loads the checkpoint
\* as it is NOW.  Only the gate consumes the resume value; any other pending
\* node is simply retried, and a finished thread runs nothing at all.
Resume(r) ==
  /\ r \in Resolvers /\ phase[r] = "decided"
  /\ Enter(r, IF ckpt.state.next = "END" THEN "audit_resolutions" ELSE "running")
  /\ Hold(r, ckpt.state)
  /\ resumed' = [resumed EXCEPT ![r] = ckpt.state.next = "hitl_gate"]
  /\ UNCHANGED <<saver, decision, stores, audit, celery>>

-----------------------------------------------------------------------------
(* the graph's nodes *)

\* ingest_repo .. collect_flagged_items; route_after_collect skips the gate
\* when nothing is flagged.
Analyse(e) ==
  /\ AtStage(e, "analysis")
  /\ \E low \in SUBSET Items :
       Finish(e, [mem[e] EXCEPT !.flagged = low, !.kept = Items,
                    !.next = IF low = {} THEN "apply_hitl_resolutions"
                             ELSE "hitl_gate"])
  /\ UNCHANGED <<decision, stores, audit, celery>>

PassGate(e, verdict) ==
  /\ Finish(e, [mem[e] EXCEPT !.verdict = verdict,
                  !.next = "apply_hitl_resolutions"])
  /\ UNCHANGED <<decision, stores, audit, celery>>

\* Mutant: the gate resolves automatically whatever the configuration says.
AutoResolveGateAlways(e) ==
  /\ AtStage(e, "hitl_gate")
  /\ PassGate(e, AutoResolve(mem[e].flagged))

\* hitl_gate with hitl_enabled = False in THIS process's configuration.
AutoResolveGate(e) ==
  /\ AtStage(e, "hitl_gate") /\ e \notin HitlOn
  /\ PassGate(e, AutoResolve(mem[e].flagged))

\* hitl_gate re-executed by a resume: interrupt() returns the resolutions.
ResumeGate(r) ==
  /\ r \in Resolvers
  /\ AtStage(r, "hitl_gate") /\ r \in HitlOn /\ resumed[r]
  /\ PassGate(r, decision[r])

\* Mutant: the gate interrupts again although a resume value is there.
InterruptGateAgain(e) ==
  /\ AtStage(e, "hitl_gate") /\ e \in HitlOn
  /\ Enter(e, "pausing")
  /\ UNCHANGED <<saver, mem, resumed, decision, stores, audit, celery>>

\* hitl_gate without a resume value: interrupt() stops the invocation, which
\* waits for its background writes before it returns.
InterruptGate(e) ==
  /\ AtStage(e, "hitl_gate") /\ e \in HitlOn /\ ~resumed[e]
  /\ Enter(e, "pausing")
  /\ UNCHANGED <<saver, mem, resumed, decision, stores, audit, celery>>

ApplyResolutions(e) ==
  /\ AtStage(e, "apply_hitl_resolutions")
  /\ Finish(e, [mem[e] EXCEPT !.kept = @ \ Dropped(mem[e]),
                  !.next = "write_knowledge_graph"])
  /\ UNCHANGED <<decision, stores, audit, celery>>

\* write_batch commits the nodes in one transaction ...
WriteNodes(e) ==
  /\ AtStage(e, "write_knowledge_graph")
  /\ Enter(e, "edges")
  /\ kgNodes' = kgNodes \cup mem[e].kept
  /\ UNCHANGED <<saver, mem, resumed, decision, kgEdges, indexed, evidence,
                 audit, celery>>

\* Mutant: the edge transaction is best effort, like Qdrant and Postgres.
WriteEdgesBestEffort(e) ==
  /\ phase[e] = "edges"
  /\ kgEdges' \in {kgEdges, kgEdges \cup mem[e].kept}
  /\ Finish(e, [mem[e] EXCEPT !.next = "write_vector_index"])
  /\ UNCHANGED <<decision, kgNodes, indexed, evidence,
                 audit, celery>>

\* ... and the edges in a second one.  MERGE never removes anything.
WriteEdges(e) ==
  /\ phase[e] = "edges"
  /\ kgEdges' = kgEdges \cup mem[e].kept
  /\ Finish(e, [mem[e] EXCEPT !.next = "write_vector_index"])
  /\ UNCHANGED <<decision, kgNodes, indexed, evidence,
                 audit, celery>>

\* Mutant: an unreachable Qdrant raises out of the node.
WriteIndexMustSucceed(e) ==
  /\ AtStage(e, "write_vector_index")
  /\ \/ /\ indexed' = indexed \cup mem[e].kept
        /\ Finish(e, [mem[e] EXCEPT !.next = "write_evidence_store"])
     \/ /\ SideStoresMayFail /\ Enter(e, "raised")
        /\ UNCHANGED <<saver, mem, resumed, indexed>>
  /\ UNCHANGED <<decision, kgNodes, kgEdges, evidence,
                 audit, celery>>

\* Best effort: an unreachable Qdrant skips the write.
WriteIndex(e) ==
  /\ AtStage(e, "write_vector_index")
  /\ \/ indexed' = indexed \cup mem[e].kept
     \/ SideStoresMayFail /\ UNCHANGED indexed
  /\ Finish(e, [mem[e] EXCEPT !.next = "write_evidence_store"])
  /\ UNCHANGED <<decision, kgNodes, kgEdges, evidence,
                 audit, celery>>

\* Every record_* call swallows its database errors.
WriteEvidence(e) ==
  /\ AtStage(e, "write_evidence_store")
  /\ \/ evidence' = evidence \cup mem[e].kept
     \/ SideStoresMayFail /\ UNCHANGED evidence
  /\ Finish(e, [mem[e] EXCEPT !.next = "END"])
  /\ UNCHANGED <<decision, kgNodes, kgEdges, indexed,
                 audit, celery>>

-----------------------------------------------------------------------------
(* the background writes of checkpoints *)

\* The writes at these positions are over.
Settle(at) == inflight' = Entries(inflight, DOMAIN inflight \ at)

\* The next write of its process: these are chained, one after the other.
NextWrite(i) ==
  \A j \in 1..(i - 1) : inflight[j].writer # inflight[i].writer

\* A checkpoint is stored.  Readers take the one with the latest id, so the
\* older ones of other processes are out of the race; they, and the task
\* writes that go with a checkpoint, may have failed.
StoreCheckpoint(i) ==
  /\ NextWrite(i)
  /\ ckpt' = [state |-> inflight[i].state, interrupted |-> FALSE,
              writer |-> {inflight[i].writer}]
  /\ \E failed \in SUBSET (Fallible \cap {inflight[j].writer : j \in 1..i}) :
       lost' = lost \cup failed
  /\ Settle(1..i)
  /\ UNCHANGED <<phase, mem, resumed, decision, stores, audit, celery>>

\* A checkpoint cannot be stored; the later ones are tried all the same.
LoseCheckpoint(i) ==
  /\ NextWrite(i) /\ inflight[i].writer \in Fallible
  /\ lost' = lost \cup {inflight[i].writer}
  /\ Settle({i})
  /\ UNCHANGED <<ckpt, phase, mem, resumed, decision, stores, audit, celery>>

Store(e) ==
  \E i \in DOMAIN inflight : inflight[i].writer = e /\ StoreCheckpoint(i)

\* Mutant: the interrupt shows on whatever checkpoint is the latest.
ReturnPauseOnLatest(e) ==
  /\ phase[e] = "pausing" /\ ~InFlight(e)
  /\ Enter(e, "audit_resolutions")
  /\ ckpt' = [ckpt EXCEPT !.interrupted = TRUE]
  /\ UNCHANGED <<inflight, lost, mem, resumed, decision, stores, audit, celery>>

\* invoke of a paused run returns the state with __interrupt__ once its writes
\* are done.  The interrupt is a write of its own on the gate's checkpoint,
\* which may be lost too; a newer checkpoint does not show it.
ReturnPause(e) ==
  /\ phase[e] = "pausing" /\ ~InFlight(e)
  /\ Enter(e, "audit_resolutions")
  /\ \/ /\ ckpt' = [ckpt EXCEPT !.interrupted =
                      @ \/ (ckpt.writer = {e} /\ ckpt.state.next = "hitl_gate")]
        /\ UNCHANGED lost
     \/ /\ e \in Fallible /\ lost' = lost \cup {e}
        /\ UNCHANGED ckpt
  /\ UNCHANGED <<inflight, mem, resumed, decision, stores, audit, celery>>

\* invoke of a run that has reached END waits for its writes and raises the
\* error of one that failed, though all of it may be stored.
ReturnState(e) ==
  /\ phase[e] = "returning" /\ ~InFlight(e)
  /\ Enter(e, IF e \in lost THEN "raised" ELSE "audit_resolutions")
  /\ UNCHANGED <<saver, mem, resumed, decision, stores, audit, celery>>

-----------------------------------------------------------------------------
(* after app.invoke: _audit_run_result, the exception path, crashes *)

\* Mutant: the process records the resolutions it was called with, not the
\* ones the final state holds.
AuditResolutionsOfCall(e) ==
  /\ phase[e] = "audit_resolutions"
  /\ Enter(e, "audit_status")
  /\ trail' = [trail EXCEPT ![e] =
                 IF row = "absent" THEN @
                 ELSE IF e \in Resolvers THEN decision[e] ELSE mem[e].verdict]
  /\ UNCHANGED <<saver, mem, resumed, decision, stores, row, celery>>

\* record_resolutions(state["hitl_resolutions"]); its foreign key needs the
\* row of record_run_started, and every database error is swallowed.
AuditResolutions(e) ==
  /\ phase[e] = "audit_resolutions"
  /\ Enter(e, "audit_status")
  /\ \/ trail' = [trail EXCEPT ![e] =
                    IF row = "absent" THEN @ ELSE mem[e].verdict]
     \/ SideStoresMayFail /\ UNCHANGED trail
  /\ UNCHANGED <<saver, mem, resumed, decision, stores, row, celery>>

AuditStatus(e) ==
  /\ phase[e] = "audit_status"
  /\ Leave(e, "done")
  /\ RecordStatus(IF mem[e].next = "END" THEN "complete" ELSE "pending_review")
  /\ CeleryBecomes(e, "SUCCESS")
  /\ UNCHANGED <<saver, decision, stores, trail>>

\* Loading the checkpoint, a node or a Neo4j transaction raises out of invoke.
\* The gate, the appliers and the best-effort writers do not.  An interrupted
\* invocation may also raise the error of a background write, or drop it.
Raise(e) ==
  /\ e \in Fallible
  /\ \/ phase[e] \in {"starting", "decided", "edges"}
     \/ AtStage(e, "analysis")
     \/ AtStage(e, "write_knowledge_graph")
     \/ phase[e] = "pausing" /\ e \in lost
  /\ Enter(e, "raised")
  /\ UNCHANGED <<saver, mem, resumed, decision, stores, audit, celery>>

\* Mutant: the exception is passed on without a word to the audit log.
AuditFailureSilent(e) ==
  /\ phase[e] = "raised" /\ ~InFlight(e)
  /\ Leave(e, "failed")
  /\ CeleryBecomes(e, "FAILURE")
  /\ UNCHANGED <<saver, decision, stores, audit>>

\* except Exception, once the background writes are done:
\* record_run_status("failed"), then raise again.
AuditFailure(e) ==
  /\ phase[e] = "raised" /\ ~InFlight(e)
  /\ Leave(e, "failed")
  /\ RecordStatus("failed")
  /\ CeleryBecomes(e, "FAILURE")
  /\ UNCHANGED <<saver, decision, stores, trail>>

\* The process dies, and what it had submitted with it; Celery notices a lost
\* worker child, but not a lost host.
Crash(e) ==
  /\ e \in Fallible \cap Active
  /\ Leave(e, "crashed")
  /\ Settle({i \in DOMAIN inflight : inflight[i].writer = e})
  /\ lost' = IF InFlight(e) THEN lost \cup {e} ELSE lost
  /\ \/ CeleryBecomes(e, "FAILURE")
     \/ UNCHANGED celery
  /\ UNCHANGED <<ckpt, decision, stores, audit>>

-----------------------------------------------------------------------------
\* What a live process does next, without further help from outside.
Node(e) ==
  \/ Analyse(e) \/ AutoResolveGate(e) \/ ResumeGate(e) \/ InterruptGate(e)
  \/ ApplyResolutions(e) \/ WriteNodes(e) \/ WriteEdges(e)
  \/ WriteIndex(e) \/ WriteEvidence(e)

Progress(e) ==
  \/ Invoke(e) \/ Resume(e) \/ Node(e) \/ ReturnPause(e) \/ ReturnState(e)
  \/ AuditResolutions(e) \/ AuditStatus(e) \/ AuditFailure(e)

Next ==
  \/ \E l \in Launches : StartLaunch(l)
  \/ \E r \in Resolvers : ReadQueue(r)
  \/ \E e \in Executors : Progress(e)
  \/ \E i \in DOMAIN inflight : StoreCheckpoint(i) \/ LoseCheckpoint(i)
  \/ \E e \in Executors : CompileFails(e) \/ Raise(e) \/ Crash(e)

Spec == Init /\ [][Next]_vars

\* A process that has been started, and its background writes, keep being
\* scheduled until it returns, raises or crashes; nobody is obliged to launch
\* or to review anything.
FairSpec ==
  Spec /\ \A e \in Executors : WF_vars(Progress(e)) /\ WF_vars(Store(e))

-----------------------------------------------------------------------------
(* what a reader is told *)

\* get_run_status
CheckpointStatus ==
  IF ckpt.writer = {} THEN "not_found"
  ELSE IF ckpt.state.next = "END" THEN "complete"
  ELSE IF ckpt.interrupted THEN "pending_review"
  ELSE "running"

\* GET /runs/{thread_id}
ApiStatus == IF celery = "FAILURE" THEN "failed" ELSE CheckpointStatus

AtRest == Active = {}

-----------------------------------------------------------------------------
(* properties *)

\* Every variable stays in its domain: positions, queues and resolutions are
\* those of PipelineState, statuses are those the columns and the API define.
TypeOK ==
  /\ ckpt \in [state : PipelineState, interrupted : BOOLEAN,
               writer : SUBSET Executors]
  /\ inflight \in Seq([state : PipelineState, writer : Executors])
  /\ lost \in SUBSET Executors
  /\ phase \in [Executors -> Phases]
  /\ mem \in [Executors -> PipelineState]
  /\ resumed \in [Executors -> BOOLEAN]
  /\ decision \in [Resolvers -> Verdicts]
  /\ kgNodes \in SUBSET Items /\ kgEdges \in SUBSET Items
  /\ indexed \in SUBSET Items /\ evidence \in SUBSET Items
  /\ row \in {"absent", "running", "pending_review", "complete", "failed"}
  /\ trail \in [Executors -> Verdicts]
  /\ celery \in {"PENDING", "STARTED", "SUCCESS", "FAILURE"}

\* A flagged finding gets into the knowledge graph only if some reviewer's
\* submitted resolutions accepted it, whatever fails, crashes or overlaps
\* (one launch, every process with HITL on).
ReviewBeforeGraph ==
  \A i \in kgNodes \cap ckpt.state.flagged :
    \E r \in Resolvers : decision[r][i] = "accept"

\* The pause "stops short of writing to the graph": a run that reports
\* pending_review has written nothing anywhere, even if resolvers raced it,
\* unless a background write is still to come or one was lost.
PausedMeansUnwritten ==
  CheckpointStatus = "pending_review" /\ inflight = <<>> /\ lost = {} =>
    kgNodes = {} /\ kgEdges = {} /\ indexed = {} /\ evidence = {}

\* A run that reports complete has every finding it kept in the graph, nodes
\* and edges: no failure between the two Neo4j transactions, retry or
\* overlapping process leaves a complete run half written.
CompleteMeansWritten ==
  CheckpointStatus = "complete" =>
    ckpt.state.kept \subseteq kgNodes \cap kgEdges

\* Vector documents and evidence records exist only for findings whose nodes
\* and edges are committed, so a retrieval candidate can be looked up in the
\* graph, however many processes write the stores.
SideStoresFollowGraph == indexed \cup evidence \subseteq kgNodes \cap kgEdges

\* The audit trail holds the resolutions the thread went on with and no
\* others, however often a run is resumed, retried or resolved again (one
\* launch, processes one at a time).
TrailMatchesCheckpoint ==
  \A e \in Executors : trail[e] \in {NoVerdict, ckpt.state.verdict}

\* When no process is at work the audit row tells what the checkpoint tells,
\* provided processes ran one at a time, none died and Postgres was up: it
\* says "complete" only of a completed thread, and "failed" of a thread that
\* stopped half way.  It may say "failed" of a paused or completed thread (a
\* call on it raised); it says "pending_review" of one whose pause was lost.
AuditAgreesAtRest ==
  LET LostPause == IF lost = {} THEN {} ELSE {"pending_review"} IN
  AtRest /\ (\A e \in Executors : phase[e] # "crashed") =>
    CASE CheckpointStatus = "not_found" -> row \in {"absent", "failed"} \cup LostPause
      [] CheckpointStatus = "running" -> row \in {"failed"} \cup LostPause
      [] CheckpointStatus = "pending_review" -> row \in {"pending_review", "failed"}
      [] CheckpointStatus = "complete" -> row \in {"complete", "failed"}

\* The checkpoint and the graph of a run whose processes do not overlap keep
\* the promise of ReviewedRun, however far the checkpoint is behind, and under
\* every failure, retry, crash and lost checkpoint.
Promise == INSTANCE ReviewedRun WITH
  status <- CheckpointStatus, flagged <- ckpt.state.flagged,
  verdict <- ckpt.state.verdict, graph <- kgNodes, lost <- lost # {}

PromiseKept == Promise!Spec

\* A resolver that resumes a run at the gate sees the run complete, unless
\* its process fails or dies, or that of another resolver, whose checkpoint
\* may be the later one: no resolution list leaves the run stuck.
ReviewedRunCompletes ==
  \A r \in Resolvers : resumed[r] ~>
    \/ CheckpointStatus = "complete"
    \/ \E q \in Resolvers : phase[q] \in {"failed", "crashed"}

\* An outage of Postgres or Qdrant never stops a run: once started it comes
\* to completion or to its review pause, unless the launch is fallible or a
\* resolver has failed or died in the middle of it.
OutageNeverBlocks ==
  \A l \in Launches \ Fallible : phase[l] = "starting" ~>
    \/ CheckpointStatus \in {"pending_review", "complete"}
    \/ \E r \in Resolvers : phase[r] \in {"failed", "crashed"}

-----------------------------------------------------------------------------
(* statements of the repository's docs and messages that the code breaks *)

\* Rejected findings are dropped: what the thread's resolutions reject is not
\* in the graph of the completed run.
RejectedIsDropped ==
  CheckpointStatus = "complete" =>
    \A i \in ckpt.state.flagged :
      ckpt.state.verdict[i] = "reject" => i \notin kgNodes
=============================================================================
