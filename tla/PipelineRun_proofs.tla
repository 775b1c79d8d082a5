-------------------------- MODULE PipelineRun_proofs --------------------------
(***************************************************************************)
(* What holds of PipelineRun for every number of findings, launches and    *)
(* resolvers, any overlap of them, and every failure the model allows.     *)
(***************************************************************************)
EXTENDS PipelineRun, SequenceFacts

\* The values the operators on resolutions return stay in their domains.
LEMMA VerdictTypes ==
  /\ NoVerdict \in Verdicts
  /\ EmptyState \in PipelineState
  /\ \A flagged \in SUBSET Items : AutoResolve(flagged) \in Verdicts
  /\ \A flagged \in SUBSET Items : \A request \in Verdicts :
       BuildResolutions(flagged, request) \in Verdicts
  BY DEF NoVerdict, Verdicts, EmptyState, PipelineState, Stages, AutoResolve,
         BuildResolutions

-----------------------------------------------------------------------------
(***************************************************************************)
(* The checkpoints under way.                                              *)
(***************************************************************************)
Entry == [state : PipelineState, writer : Executors]

\* What a write under way is a write of.
LEMMA EntryFields ==
  ASSUME inflight \in Seq(Entry), NEW i \in DOMAIN inflight
  PROVE  inflight[i].state \in PipelineState /\ inflight[i].writer \in Executors
<1>1. inflight[i] \in Entry
  OBVIOUS
<1>. QED
  BY <1>1 DEF Entry

\* A checkpoint that is submitted comes after the others.
LEMMA SubmitAppends ==
  ASSUME inflight \in Seq(Entry), NEW e \in Executors, NEW s \in PipelineState,
         Submit(e, s)
  PROVE  /\ inflight' \in Seq(Entry)
         /\ DOMAIN inflight' = DOMAIN inflight \cup {Len(inflight) + 1}
         /\ Len(inflight) + 1 \notin DOMAIN inflight
         /\ \A k \in DOMAIN inflight : inflight'[k] = inflight[k]
         /\ inflight'[Len(inflight) + 1].state = s
         /\ inflight'[Len(inflight) + 1].writer = e
         /\ Len(inflight') = Len(inflight) + 1
<1>1. [state |-> s, writer |-> e] \in Entry
  BY DEF Entry
<1>2. inflight' = Append(inflight, [state |-> s, writer |-> e])
  BY DEF Submit
<1>3. inflight' \in Seq(Entry) /\ Len(inflight') = Len(inflight) + 1
  <2> HIDE DEF Entry
  <2>. QED
    BY <1>1, <1>2
<1>4. inflight'[Len(inflight) + 1] = [state |-> s, writer |-> e]
  BY <1>2
<1>. QED
  BY <1>2, <1>3, <1>4

\* p tells which of the old writes each remaining one is.
Remains(at, p) ==
  /\ \A k \in DOMAIN inflight' :
       p[k] \in DOMAIN inflight \ at /\ inflight'[k] = inflight[p[k]]
  /\ \A k, l \in DOMAIN inflight' : k < l => p[k] < p[l]
  /\ \A i \in DOMAIN inflight \ at : \E k \in DOMAIN inflight' : p[k] = i

\* Of the writes that are not over the order stays.
LEMMA SettleKeeps ==
  ASSUME inflight \in Seq(Entry), NEW at, Settle(at)
  PROVE  inflight' \in Seq(Entry) /\ \E p : Remains(at, p)
<1>1. DOMAIN inflight \ at \subseteq DOMAIN inflight
  OBVIOUS
<1>2. /\ inflight' \in Seq(Entry)
      /\ \E p : InOrder(inflight, DOMAIN inflight \ at, inflight', p)
  BY <1>1, EntriesInOrder DEF Settle
<1>. QED
  BY <1>2 DEF InOrder, Remains

\* The writes a step may end, and those of a process that dies.
Over(at) ==
  \/ \E i \in DOMAIN inflight : StoreCheckpoint(i) /\ at = 1..i
  \/ \E i \in DOMAIN inflight : LoseCheckpoint(i) /\ at = {i}
  \/ \E e \in Executors :
       Crash(e) /\ at = {i \in DOMAIN inflight : inflight[i].writer = e}

LEMMA OverSettles ==
  ASSUME NEW at, Over(at)
  PROVE  Settle(at)
  BY DEF Over, StoreCheckpoint, LoseCheckpoint, Crash

-----------------------------------------------------------------------------
\* Type correctness is inductive by itself.
LEMMA TypeStep == ASSUME TypeOK, [Next]_vars PROVE TypeOK'
<1> USE VerdictTypes, ConstantsAssumption
<1> USE DEF Leave, Enter, Hold, CeleryBecomes, RecordStatus, AtStage,
            MayStart, stores, audit, saver
<1>0. inflight \in Seq(Entry)
  BY DEF TypeOK, Entry
<1>1. ASSUME NEW l \in Launches, StartLaunch(l) PROVE TypeOK'
  BY <1>1 DEF StartLaunch, TypeOK, Phases, Working, Executors
<1>2. ASSUME NEW r \in Resolvers, ReadQueue(r) PROVE TypeOK'
  <2>1. PICK request \in Verdicts :
          \/ UNCHANGED decision
          \/ decision' = [decision EXCEPT ![r] =
                            BuildResolutions(ckpt.state.flagged, request)]
    BY <1>2 DEF ReadQueue
  <2>2. ckpt.state.flagged \in SUBSET Items
    BY DEF TypeOK, PipelineState
  <2>3. decision' \in [Resolvers -> Verdicts]
    BY <2>1, <2>2 DEF TypeOK
  <2>. QED
    BY <1>2, <2>3 DEF ReadQueue, TypeOK, Phases, Working, Executors
\* The checkpoints and copies after a submission.
<1>3. ASSUME NEW e \in Executors, NEW s \in PipelineState, Submit(e, s)
      PROVE  /\ ckpt' = ckpt /\ lost' = lost
             /\ inflight' \in Seq([state : PipelineState, writer : Executors])
             /\ mem' \in [Executors -> PipelineState]
  BY <1>0, <1>3, SubmitAppends DEF Submit, TypeOK, Entry
<1>4. ASSUME NEW e \in Executors, Invoke(e) PROVE TypeOK'
  <2>1. [ckpt.state EXCEPT !.next = "analysis"] \in PipelineState
    BY DEF TypeOK, PipelineState, Stages
  <2>. QED
    BY <1>3, <1>4, <2>1 DEF Invoke, TypeOK, Phases, Working
<1>5. ASSUME NEW e \in Executors, Resume(e) PROVE TypeOK'
  BY <1>5 DEF Resume, TypeOK, Phases, Working
<1>6. ASSUME NEW e \in Executors, Node(e) PROVE TypeOK'
  <2>1. ASSUME NEW s \in PipelineState, Finish(e, s),
               UNCHANGED <<decision, audit, celery>>,
               kgNodes' \in SUBSET Items, kgEdges' \in SUBSET Items,
               indexed' \in SUBSET Items, evidence' \in SUBSET Items
        PROVE  TypeOK'
    <3>1. /\ phase' \in [Executors -> Phases]
          /\ resumed' \in [Executors -> BOOLEAN]
          /\ Submit(e, s)
      BY <2>1 DEF Finish, TypeOK, Phases, Working
    <3>. QED
      BY <1>3, <2>1, <3>1 DEF TypeOK
  <2>2. /\ mem[e] \in PipelineState /\ mem[e].kept \in SUBSET Items
        /\ kgNodes \in SUBSET Items /\ kgEdges \in SUBSET Items
        /\ indexed \in SUBSET Items /\ evidence \in SUBSET Items
    BY DEF TypeOK, PipelineState
  <2>3. \A n \in Stages : [mem[e] EXCEPT !.next = n] \in PipelineState
    BY <2>2 DEF PipelineState
  <2>4. CASE Analyse(e)
    <3> DEFINE flag(low) == [mem[e] EXCEPT !.flagged = low, !.kept = Items,
                               !.next = IF low = {} THEN "apply_hitl_resolutions"
                                        ELSE "hitl_gate"]
    <3>1. PICK low \in SUBSET Items : Finish(e, flag(low))
      BY <2>4 DEF Analyse
    <3>2. flag(low) \in PipelineState
      BY <2>2 DEF PipelineState, Stages
    <3> HIDE DEF flag
    <3>. QED
      BY <2>1, <2>2, <2>4, <3>1, <3>2 DEF Analyse
  <2>5. ASSUME NEW v \in Verdicts, PassGate(e, v) PROVE TypeOK'
    <3>1. [mem[e] EXCEPT !.verdict = v, !.next = "apply_hitl_resolutions"]
            \in PipelineState
      BY <2>2 DEF PipelineState, Stages
    <3>. QED
      BY <2>1, <2>2, <2>5, <3>1 DEF PassGate
  <2>6. CASE AutoResolveGate(e)
    <3>1. mem[e].flagged \in SUBSET Items
      BY <2>2 DEF PipelineState
    <3>. QED
      BY <2>5, <2>6, <3>1 DEF AutoResolveGate
  <2>7. CASE ResumeGate(e)
    <3>1. decision[e] \in Verdicts
      BY <2>7 DEF ResumeGate, TypeOK
    <3>. QED
      BY <2>5, <2>7, <3>1 DEF ResumeGate
  <2>8. CASE InterruptGate(e)
    BY <2>8 DEF InterruptGate, TypeOK, Phases, Working
  <2>9. CASE ApplyResolutions(e)
    <3>1. [mem[e] EXCEPT !.kept = @ \ Dropped(mem[e]),
                         !.next = "write_knowledge_graph"] \in PipelineState
      BY <2>2 DEF PipelineState, Stages
    <3>. QED
      BY <2>1, <2>2, <2>9, <3>1 DEF ApplyResolutions
  <2>10. CASE WriteNodes(e)
    BY <2>2, <2>10 DEF WriteNodes, TypeOK, Phases, Working
  <2>11. CASE WriteEdges(e)
    <3>1. [mem[e] EXCEPT !.next = "write_vector_index"] \in PipelineState
      BY <2>3 DEF Stages
    <3>. QED
      BY <2>1, <2>2, <2>11, <3>1 DEF WriteEdges
  <2>12. CASE WriteIndex(e)
    <3>1. [mem[e] EXCEPT !.next = "write_evidence_store"] \in PipelineState
      BY <2>3 DEF Stages
    <3>. QED
      BY <2>1, <2>2, <2>12, <3>1 DEF WriteIndex
  <2>13. CASE WriteEvidence(e)
    <3>1. [mem[e] EXCEPT !.next = "END"] \in PipelineState
      BY <2>3 DEF Stages
    <3>. QED
      BY <2>1, <2>2, <2>13, <3>1 DEF WriteEvidence
  <2>. QED
    BY <1>6, <2>4, <2>6, <2>7, <2>8, <2>9, <2>10, <2>11, <2>12, <2>13 DEF Node
<1>7. ASSUME NEW i \in DOMAIN inflight, StoreCheckpoint(i) \/ LoseCheckpoint(i)
      PROVE  TypeOK'
  <2>1. inflight' \in Seq(Entry)
    <3>1. \E at : Over(at)
      BY <1>7 DEF Over
    <3>. QED
      BY <1>0, <3>1, OverSettles, SettleKeeps
  <2>2. inflight[i].state \in PipelineState /\ inflight[i].writer \in Executors
    BY <1>0, EntryFields
  <2>3. ckpt' \in [state : PipelineState, interrupted : BOOLEAN,
                   writer : SUBSET Executors]
    <3>1. CASE StoreCheckpoint(i)
      BY <2>2, <3>1 DEF StoreCheckpoint
    <3>2. CASE LoseCheckpoint(i)
      BY <3>2 DEF LoseCheckpoint, TypeOK
    <3>. QED
      BY <1>7, <3>1, <3>2
  <2>4. lost' \in SUBSET Executors
    BY <1>7, <2>2 DEF StoreCheckpoint, LoseCheckpoint, TypeOK
  <2>. QED
    BY <1>7, <2>1, <2>3, <2>4 DEF StoreCheckpoint, LoseCheckpoint, TypeOK, Entry
<1>8. ASSUME NEW e \in Executors, ReturnPause(e) \/ ReturnState(e) PROVE TypeOK'
  <2>1. ckpt' \in [state : PipelineState, interrupted : BOOLEAN,
                   writer : SUBSET Executors]
    BY <1>8 DEF ReturnPause, ReturnState, TypeOK
  <2>. QED
    BY <1>8, <2>1 DEF ReturnPause, ReturnState, TypeOK, Phases, Working
<1>9. ASSUME NEW e \in Executors, AuditResolutions(e) PROVE TypeOK'
  <2>1. mem[e].verdict \in Verdicts
    BY DEF TypeOK, PipelineState
  <2>. QED
    BY <1>9, <2>1 DEF AuditResolutions, TypeOK, Phases, Working
<1>10. ASSUME NEW e \in Executors, AuditStatus(e) PROVE TypeOK'
  BY <1>10 DEF AuditStatus, TypeOK, Phases, Working
<1>11. ASSUME NEW e \in Executors, AuditFailure(e) PROVE TypeOK'
  BY <1>11 DEF AuditFailure, TypeOK, Phases, Working
<1>12. ASSUME NEW e \in Executors, CompileFails(e) PROVE TypeOK'
  BY <1>12 DEF CompileFails, TypeOK, Phases, Working
<1>13. ASSUME NEW e \in Executors, Raise(e) PROVE TypeOK'
  BY <1>13 DEF Raise, TypeOK, Phases, Working
<1>14. ASSUME NEW e \in Executors, Crash(e) PROVE TypeOK'
  <2>1. inflight' \in Seq(Entry)
    <3>1. \E at : Over(at)
      BY <1>14 DEF Over
    <3>. QED
      BY <1>0, <3>1, OverSettles, SettleKeeps
  <2>. QED
    BY <1>14, <2>1 DEF Crash, TypeOK, Phases, Working, Entry
<1>15. CASE UNCHANGED vars
  BY <1>15 DEF vars, TypeOK
<1>. QED
  BY <1>1, <1>2, <1>4, <1>5, <1>6, <1>7, <1>8, <1>9, <1>10, <1>11, <1>12,
     <1>13, <1>14, <1>15 DEF Next, Progress

\* Every state of every run is well typed: the pipeline never leaves the
\* positions, statuses and resolutions the code defines.
THEOREM TypeCorrect == Spec => []TypeOK
<1>1. Init => TypeOK
  BY VerdictTypes DEF Init, TypeOK, Phases, Working
<1>2. TypeOK /\ [Next]_vars => TypeOK'
  BY TypeStep
<1>. QED
  BY <1>1, <1>2, PTL DEF Spec

-----------------------------------------------------------------------------
(***************************************************************************)
(* The steps, and every copy of the pipeline state there is.               *)
(***************************************************************************)
Early == {"START", "analysis"}
Unreviewed == Early \cup {"hitl_gate"}

\* A process makes the checkpoint of a later position and goes on.
Moves(e) ==
  /\ phase[e] \in {"running", "edges"} /\ mem'[e] \in PipelineState
  /\ phase'[e] = IF mem'[e].next = "END" THEN "returning" ELSE "running"
  /\ Submit(e, mem'[e]) /\ ~resumed'[e]
  /\ \/ /\ AtStage(e, "analysis")
        /\ mem'[e].next \in {"hitl_gate", "apply_hitl_resolutions"}
     \/ /\ phase[e] = "running" => mem[e].next \notin Early
        /\ mem'[e].flagged = mem[e].flagged
        /\ mem'[e].next \notin Unreviewed

\* What a node action does to the process that runs it and to the others: it
\* makes a checkpoint, or commits the nodes transaction, or interrupts.
NodeEffect(e) ==
  /\ UNCHANGED <<ckpt, lost, decision>>
  /\ \A f \in Executors \ {e} : mem'[f] = mem[f] /\ phase'[f] = phase[f]
  /\ \/ Moves(e)
     \/ /\ AtStage(e, "write_knowledge_graph") /\ phase'[e] = "edges"
        /\ mem' = mem /\ UNCHANGED <<inflight, resumed>>
     \/ /\ AtStage(e, "hitl_gate") /\ phase'[e] = "pausing"
        /\ e \in HitlOn /\ ~resumed[e]
        /\ mem' = mem /\ UNCHANGED <<inflight, resumed>>

\* What a node does to the shape of its process's copy.
LEMMA NodeShape ==
  ASSUME TypeOK, NEW e \in Executors, Node(e)
  PROVE  NodeEffect(e)
<1> USE DEF Early, Unreviewed
<1>1. mem[e] \in PipelineState
  BY DEF TypeOK
<1>2. ASSUME NEW s \in PipelineState, Finish(e, s), decision' = decision,
             phase[e] \in {"running", "edges"},
             \/ /\ AtStage(e, "analysis")
                /\ s.next \in {"hitl_gate", "apply_hitl_resolutions"}
             \/ /\ phase[e] = "running" => mem[e].next \notin Early
                /\ s.flagged = mem[e].flagged /\ s.next \notin Unreviewed
      PROVE  NodeEffect(e)
  <2>1. /\ mem' = [mem EXCEPT ![e] = s] /\ UNCHANGED <<ckpt, lost>>
        /\ phase' = [phase EXCEPT ![e] = IF s.next = "END" THEN "returning"
                                         ELSE "running"]
        /\ resumed' = [resumed EXCEPT ![e] = FALSE]
    BY <1>2 DEF Finish, Submit, Enter, Hold
  <2>2. mem'[e] = s /\ Submit(e, s) /\ ~resumed'[e]
    BY <1>2, <2>1 DEF TypeOK, Finish
  <2>3. phase'[e] = IF s.next = "END" THEN "returning" ELSE "running"
    BY <2>1 DEF TypeOK
  <2>4. \A f \in Executors \ {e} : mem'[f] = mem[f] /\ phase'[f] = phase[f]
    BY <2>1 DEF TypeOK
  <2>. QED
    BY <1>2, <2>1, <2>2, <2>3, <2>4 DEF NodeEffect, Moves
<1> USE DEF AtStage
<1>3. ASSUME NEW n \in Stages
      PROVE  LET s == [mem[e] EXCEPT !.next = n]
             IN  s \in PipelineState /\ s.next = n /\ s.flagged = mem[e].flagged
  BY <1>1, <1>3 DEF PipelineState
<1>4. CASE Analyse(e)
  <2> DEFINE flag(low) == [mem[e] EXCEPT !.flagged = low, !.kept = Items,
                             !.next = IF low = {} THEN "apply_hitl_resolutions"
                                      ELSE "hitl_gate"]
  <2>1. PICK low \in SUBSET Items : Finish(e, flag(low))
    BY <1>4 DEF Analyse
  <2>2. /\ flag(low) \in PipelineState
        /\ flag(low).next \in {"hitl_gate", "apply_hitl_resolutions"}
    BY <1>1 DEF PipelineState, Stages
  <2> HIDE DEF flag
  <2>. QED
    BY <1>2, <1>4, <2>1, <2>2 DEF Analyse
<1>5. ASSUME NEW v \in Verdicts, AtStage(e, "hitl_gate"), PassGate(e, v)
      PROVE  NodeEffect(e)
  <2> DEFINE s == [mem[e] EXCEPT !.verdict = v, !.next = "apply_hitl_resolutions"]
  <2>1. /\ s \in PipelineState /\ s.next = "apply_hitl_resolutions"
        /\ s.flagged = mem[e].flagged
    BY <1>1 DEF PipelineState, Stages
  <2>2. Finish(e, s) /\ decision' = decision
    BY <1>5 DEF PassGate
  <2> HIDE DEF s
  <2>. QED
    BY <1>2, <1>5, <2>1, <2>2
<1>6. CASE AutoResolveGate(e)
  <2>1. AutoResolve(mem[e].flagged) \in Verdicts
    BY <1>1, VerdictTypes DEF PipelineState
  <2>. QED
    BY <1>5, <1>6, <2>1 DEF AutoResolveGate
<1>7. CASE ResumeGate(e)
  <2>1. decision[e] \in Verdicts
    BY <1>7 DEF ResumeGate, TypeOK
  <2>. QED
    BY <1>5, <1>7, <2>1 DEF ResumeGate
<1>8. CASE InterruptGate(e)
  BY <1>8 DEF InterruptGate, TypeOK, NodeEffect, Enter, saver
<1>9. CASE ApplyResolutions(e)
  <2> DEFINE s == [mem[e] EXCEPT !.kept = @ \ Dropped(mem[e]),
                     !.next = "write_knowledge_graph"]
  <2>1. /\ s \in PipelineState /\ s.next = "write_knowledge_graph"
        /\ s.flagged = mem[e].flagged
    BY <1>1 DEF PipelineState, Stages
  <2>2. Finish(e, s) /\ decision' = decision
    BY <1>9 DEF ApplyResolutions
  <2> HIDE DEF s
  <2>. QED
    BY <1>2, <1>9, <2>1, <2>2 DEF ApplyResolutions
<1>10. CASE WriteNodes(e)
  BY <1>10 DEF WriteNodes, TypeOK, NodeEffect, Enter, saver
<1>11. CASE WriteEdges(e)
  <2>1. "write_vector_index" \in Stages
    BY DEF Stages
  <2>. QED
    BY <1>2, <1>3, <1>11, <2>1 DEF WriteEdges
<1>12. CASE WriteIndex(e)
  <2>1. "write_evidence_store" \in Stages
    BY DEF Stages
  <2>. QED
    BY <1>2, <1>3, <1>12, <2>1 DEF WriteIndex
<1>13. CASE WriteEvidence(e)
  <2>1. "END" \in Stages
    BY DEF Stages
  <2>. QED
    BY <1>2, <1>3, <1>13, <2>1 DEF WriteEvidence
<1>. QED
  BY <1>4, <1>6, <1>7, <1>8, <1>9, <1>10, <1>11, <1>12, <1>13 DEF Node

\* A process that leaves holds nothing any more.
LEMMA LeaveShape ==
  ASSUME TypeOK, NEW e \in Executors,
         AuditStatus(e) \/ AuditFailure(e) \/ CompileFails(e) \/ Crash(e)
  PROVE  /\ phase'[e] \in {"done", "failed", "crashed"}
         /\ mem'[e] = EmptyState
         /\ \A f \in Executors \ {e} : mem'[f] = mem[f] /\ phase'[f] = phase[f]
         /\ UNCHANGED <<ckpt, decision, stores>>
         /\ Crash(e) \/ UNCHANGED <<inflight, lost>>
  BY DEF AuditStatus, AuditFailure, CompileFails, Crash, Leave, Enter, Hold,
         TypeOK, saver

\* Every copy of the state: the checkpoint, those under way, those in memory.
Held ==
  {ckpt.state} \cup {mem[e] : e \in Executors}
    \cup {inflight[i].state : i \in DOMAIN inflight}

LEMMA HeldTypes == ASSUME TypeOK PROVE Held \subseteq PipelineState
<1>1. inflight \in Seq(Entry)
  BY DEF TypeOK, Entry
<1>. QED
  BY <1>1, EntryFields DEF Held, TypeOK

\* A checkpoint that is submitted is the one new copy.
LEMMA HeldSubmit ==
  ASSUME TypeOK, NEW e \in Executors, NEW s \in PipelineState, Submit(e, s)
  PROVE  /\ mem'[e] = s /\ ckpt' = ckpt /\ lost' = lost
         /\ \A f \in Executors \ {e} : mem'[f] = mem[f]
         /\ \A t \in Held' : t \in Held \/ t = s
<1>1. inflight \in Seq(Entry)
  BY DEF TypeOK, Entry
<1>2. /\ mem'[e] = s /\ ckpt' = ckpt /\ lost' = lost
      /\ \A f \in Executors \ {e} : mem'[f] = mem[f]
  BY DEF Submit, Hold, TypeOK
<1>3. /\ DOMAIN inflight' = DOMAIN inflight \cup {Len(inflight) + 1}
      /\ \A k \in DOMAIN inflight : inflight'[k] = inflight[k]
      /\ inflight'[Len(inflight) + 1].state = s
  BY <1>1, SubmitAppends
<1>. QED
  BY <1>2, <1>3 DEF Held

\* The steps that are neither a launch's first checkpoint nor a node.
Otherwise ==
  \/ \E l \in Launches : StartLaunch(l)
  \/ \E r \in Resolvers : ReadQueue(r)
  \/ \E e \in Executors :
       \/ Resume(e) \/ ReturnPause(e) \/ ReturnState(e) \/ AuditResolutions(e)
       \/ AuditStatus(e) \/ AuditFailure(e) \/ CompileFails(e) \/ Raise(e)
       \/ Crash(e)
  \/ \E i \in DOMAIN inflight : StoreCheckpoint(i) \/ LoseCheckpoint(i)
  \/ UNCHANGED vars

LEMMA Steps ==
  ASSUME [Next]_vars
  PROVE  (\E e \in Executors : Invoke(e) \/ Node(e)) \/ Otherwise
<1>1. CASE \E e \in Executors : Progress(e)
  BY <1>1 DEF Progress, Otherwise
<1>2. CASE ~ \E e \in Executors : Progress(e)
  BY <1>2, Zenon DEF Next, Otherwise
<1>. QED
  BY <1>1, <1>2

\* They make no copy.
LEMMA HeldKept ==
  ASSUME TypeOK, Otherwise
  PROVE  \A s \in Held' : s \in Held \/ s = EmptyState
<1>1. ASSUME \/ ckpt'.state = ckpt.state
             \/ \E i \in DOMAIN inflight : ckpt'.state = inflight[i].state,
             \A e \in Executors : mem'[e] \in {mem[e], ckpt.state, EmptyState},
             \A k \in DOMAIN inflight' :
               \E i \in DOMAIN inflight : inflight'[k] = inflight[i]
      PROVE  \A s \in Held' : s \in Held \/ s = EmptyState
  BY <1>1 DEF Held
<1>2. inflight \in Seq(Entry)
  BY DEF TypeOK, Entry
<1>3. ASSUME \E at : Over(at)
      PROVE  \A k \in DOMAIN inflight' :
               \E i \in DOMAIN inflight : inflight'[k] = inflight[i]
  <2>1. PICK at, p : Settle(at) /\ Remains(at, p)
    BY <1>2, <1>3, OverSettles, SettleKeeps
  <2>. QED
    BY <2>1 DEF Remains
<1>4. ASSUME NEW i \in DOMAIN inflight, StoreCheckpoint(i) \/ LoseCheckpoint(i)
      PROVE  \A s \in Held' : s \in Held \/ s = EmptyState
  <2>1. \E at : Over(at)
    BY <1>4 DEF Over
  <2>2. mem' = mem /\ (ckpt' = ckpt \/ ckpt'.state = inflight[i].state)
    BY <1>4 DEF StoreCheckpoint, LoseCheckpoint
  <2>. QED
    BY <1>1, <1>3, <2>1, <2>2
<1>5. ASSUME NEW e \in Executors,
             AuditStatus(e) \/ AuditFailure(e) \/ CompileFails(e) \/ Crash(e)
      PROVE  \A s \in Held' : s \in Held \/ s = EmptyState
  <2>1. \A k \in DOMAIN inflight' :
          \E i \in DOMAIN inflight : inflight'[k] = inflight[i]
    <3>1. CASE Crash(e)
      BY <1>3, <3>1 DEF Over
    <3>2. CASE inflight' = inflight
      BY <3>2
    <3>. QED
      BY <1>5, <3>1, <3>2, LeaveShape
  <2>. QED
    BY <1>1, <1>5, <2>1, LeaveShape
<1>6. ASSUME NEW e \in Executors, Resume(e)
      PROVE  \A s \in Held' : s \in Held \/ s = EmptyState
  BY <1>1, <1>6 DEF Resume, Hold, saver, TypeOK
<1>7. ASSUME UNCHANGED <<inflight, mem>>, ckpt'.state = ckpt.state
      PROVE  \A s \in Held' : s \in Held \/ s = EmptyState
  BY <1>1, <1>7
<1>8. ASSUME NEW e,
             \/ StartLaunch(e) \/ ReadQueue(e) \/ ReturnPause(e)
             \/ ReturnState(e) \/ AuditResolutions(e) \/ Raise(e)
      PROVE  \A s \in Held' : s \in Held \/ s = EmptyState
  <2>1. UNCHANGED <<inflight, mem>>
    BY <1>8 DEF StartLaunch, ReadQueue, ReturnPause, ReturnState,
       AuditResolutions, Raise, saver
  <2>2. ckpt'.state = ckpt.state
    BY <1>8 DEF StartLaunch, ReadQueue, ReturnPause, ReturnState,
       AuditResolutions, Raise, saver, TypeOK
  <2>. QED
    BY <1>7, <2>1, <2>2
<1>9. CASE UNCHANGED vars
  BY <1>7, <1>9 DEF vars, saver
<1>. QED
  BY <1>4, <1>5, <1>6, <1>8, <1>9 DEF Otherwise

\* Invoke, and a node that moves on, makes one.
LEMMA HeldNew ==
  ASSUME TypeOK, NEW e \in Executors, Invoke(e) \/ Node(e)
  PROVE  \A s \in Held' : s \in Held \/ s = mem'[e]
<1>1. CASE Invoke(e)
  <2> DEFINE t == [ckpt.state EXCEPT !.next = "analysis"]
  <2>1. t \in PipelineState
    BY DEF TypeOK, PipelineState, Stages
  <2>2. Submit(e, t)
    BY <1>1 DEF Invoke
  <2> HIDE DEF t
  <2>. QED
    BY <2>1, <2>2, HeldSubmit
<1>2. CASE Node(e)
  <2>1. NodeEffect(e)
    BY <1>2, NodeShape
  <2>2. CASE Moves(e)
    BY <2>2, HeldSubmit DEF Moves
  <2>3. CASE UNCHANGED <<mem, inflight>>
    BY <2>1, <2>3 DEF NodeEffect, Held
  <2>. QED
    BY <2>1, <2>2, <2>3 DEF NodeEffect
<1>. QED
  BY <1>1, <1>2

-----------------------------------------------------------------------------
(***************************************************************************)
(* Complete runs are fully written, side stores follow the graph.  Neither *)
(* says anything of the states in between, so the invariant says what      *)
(* every copy of the state may claim at each position.                     *)
(***************************************************************************)
Written == {"write_vector_index", "write_evidence_store", "END"}

WrittenState(s) == s.next \in Written => s.kept \subseteq kgNodes \cap kgEdges

WrittenInv ==
  /\ \A s \in Held : WrittenState(s)
  /\ \A e \in Executors : phase[e] = "edges" => mem[e].kept \subseteq kgNodes
  /\ SideStoresFollowGraph

\* Nothing is ever taken out of the graph, and only a node puts anything
\* into a store.
LEMMA StoresGrow ==
  ASSUME [Next]_vars
  PROVE  /\ kgNodes \subseteq kgNodes' /\ kgEdges \subseteq kgEdges'
         /\ (\E e \in Executors : Node(e)) \/ UNCHANGED stores
<1> USE DEF stores
<1>1. ASSUME NEW e \in Executors, Node(e)
      PROVE  kgNodes \subseteq kgNodes' /\ kgEdges \subseteq kgEdges'
  BY <1>1 DEF Node, Analyse, AutoResolveGate, ResumeGate, InterruptGate,
     PassGate, ApplyResolutions, WriteNodes, WriteEdges, WriteIndex,
     WriteEvidence
<1>2. (\E e \in Executors : Node(e)) \/ UNCHANGED stores
  BY DEF Next, Progress, StartLaunch, ReadQueue, Invoke, Resume, ReturnPause,
     ReturnState, AuditResolutions, AuditStatus, AuditFailure, StoreCheckpoint,
     LoseCheckpoint, CompileFails, Raise, Crash, vars
<1>. QED
  BY <1>1, <1>2

\* What a node leaves may claim what it claims: the two Neo4j transactions
\* come before every position in Written, the side stores after them.
LEMMA NodeWritten ==
  ASSUME TypeOK, WrittenInv, NEW e \in Executors, Node(e),
         kgNodes \subseteq kgNodes', kgEdges \subseteq kgEdges'
  PROVE  /\ mem'[e].next \in Written =>
              mem'[e].kept \subseteq kgNodes' \cap kgEdges'
         /\ phase'[e] = "edges" => mem'[e].kept \subseteq kgNodes'
         /\ SideStoresFollowGraph'
<1> USE DEF Enter, Hold, Finish, Submit, AtStage, stores, saver, WrittenState,
            Written, SideStoresFollowGraph, Held
<1>1. mem[e] \in PipelineState /\ WrittenState(mem[e]) /\ SideStoresFollowGraph
  BY DEF TypeOK, WrittenInv
<1>2. CASE Analyse(e)
  <2> DEFINE flag(low) == [mem[e] EXCEPT !.flagged = low, !.kept = Items,
                             !.next = IF low = {} THEN "apply_hitl_resolutions"
                                      ELSE "hitl_gate"]
  <2>1. PICK low \in SUBSET Items : Finish(e, flag(low))
    BY <1>2 DEF Analyse
  <2>2. flag(low).next \notin Written
    BY <1>1 DEF PipelineState, Stages
  <2> HIDE DEF flag
  <2>3. mem'[e].next \notin Written /\ phase'[e] # "edges"
    BY <2>1, <2>2 DEF TypeOK
  <2>. QED
    BY <1>1, <1>2, <2>3 DEF Analyse
<1>3. ASSUME NEW v, PassGate(e, v)
      PROVE  /\ mem'[e].next \notin Written /\ phase'[e] # "edges"
             /\ UNCHANGED stores
  BY <1>1, <1>3 DEF PassGate, PipelineState, TypeOK
<1>4. CASE AutoResolveGate(e)
  BY <1>1, <1>3, <1>4 DEF AutoResolveGate
<1>5. CASE ResumeGate(e)
  BY <1>1, <1>3, <1>5 DEF ResumeGate
<1>6. CASE InterruptGate(e)
  BY <1>1, <1>6 DEF InterruptGate, TypeOK
<1>7. CASE ApplyResolutions(e)
  <2>1. mem'[e].next \notin Written /\ phase'[e] # "edges"
    BY <1>1, <1>7 DEF ApplyResolutions, PipelineState, TypeOK
  <2>. QED
    BY <1>1, <1>7, <2>1 DEF ApplyResolutions
<1>8. CASE WriteNodes(e)
  BY <1>1, <1>8 DEF WriteNodes, TypeOK
<1>9. CASE WriteEdges(e)
  <2>1. mem'[e].kept = mem[e].kept /\ phase'[e] # "edges"
    BY <1>1, <1>9 DEF WriteEdges, PipelineState, TypeOK
  <2>2. mem[e].kept \subseteq kgNodes' \cap kgEdges'
    BY <1>9 DEF WriteEdges, WrittenInv
  <2>. QED
    BY <1>1, <1>9, <2>1, <2>2 DEF WriteEdges
<1>10. CASE WriteIndex(e)
  <2>1. mem'[e].kept = mem[e].kept /\ phase'[e] # "edges"
    BY <1>1, <1>10 DEF WriteIndex, PipelineState, TypeOK
  <2>2. mem[e].kept \subseteq kgNodes \cap kgEdges
    BY <1>1, <1>10 DEF WriteIndex
  <2>. QED
    BY <1>1, <1>10, <2>1, <2>2 DEF WriteIndex
<1>11. CASE WriteEvidence(e)
  <2>1. mem'[e].kept = mem[e].kept /\ phase'[e] # "edges"
    BY <1>1, <1>11 DEF WriteEvidence, PipelineState, TypeOK
  <2>2. mem[e].kept \subseteq kgNodes \cap kgEdges
    BY <1>1, <1>11 DEF WriteEvidence
  <2>. QED
    BY <1>1, <1>11, <2>1, <2>2 DEF WriteEvidence
<1>. QED
  BY <1>2, <1>4, <1>5, <1>6, <1>7, <1>8, <1>9, <1>10, <1>11 DEF Node

\* Each step keeps the claims.
LEMMA WrittenStep == ASSUME TypeOK, WrittenInv, [Next]_vars PROVE WrittenInv'
<1>1. kgNodes \subseteq kgNodes' /\ kgEdges \subseteq kgEdges'
  BY StoresGrow
<1>2. \A s : WrittenState(s) => WrittenState(s)'
  BY <1>1 DEF WrittenState
<1>3. WrittenState(EmptyState)'
  BY DEF WrittenState, Written, EmptyState
<1>4. ASSUME NEW e \in Executors, Invoke(e) PROVE mem'[e].next = "analysis"
  BY <1>4 DEF Invoke, Submit, Hold, TypeOK, PipelineState
<1>5. ASSUME NEW s \in Held' PROVE WrittenState(s)'
  <2>1. CASE s \in Held
    BY <1>2, <2>1 DEF WrittenInv
  <2>2. ASSUME NEW e \in Executors, Node(e), s = mem'[e] PROVE WrittenState(s)'
    BY <1>1, <2>2, NodeWritten DEF WrittenState
  <2>3. ASSUME NEW e \in Executors, Invoke(e), s = mem'[e]
        PROVE  WrittenState(s)'
    BY <1>4, <2>3 DEF WrittenState, Written
  <2>. QED
    BY <1>3, <2>1, <2>2, <2>3, HeldKept, HeldNew, Steps
<1>6. SideStoresFollowGraph'
  BY <1>1, StoresGrow, NodeWritten DEF WrittenInv, SideStoresFollowGraph, stores
<1>7. ASSUME NEW f \in Executors, phase'[f] = "edges"
      PROVE  mem'[f].kept \subseteq kgNodes'
  <2>1. CASE Node(f)
    BY <1>1, <1>7, <2>1, NodeWritten
  <2>2. CASE ~Node(f)
    <3>1. ASSUME NEW e \in Executors, Node(e)
          PROVE  phase[f] = "edges" /\ mem'[f] = mem[f]
      BY <1>7, <2>2, <3>1, NodeShape DEF NodeEffect
    <3>2. ASSUME NEW e \in Executors, Invoke(e) \/ Resume(e)
          PROVE  phase[f] = "edges" /\ mem'[f] = mem[f]
      BY <1>7, <3>2 DEF Invoke, Resume, Submit, Enter, Hold, TypeOK
    <3>3. ASSUME NEW e \in Executors,
                 AuditStatus(e) \/ AuditFailure(e) \/ CompileFails(e) \/ Crash(e)
          PROVE  phase[f] = "edges" /\ mem'[f] = mem[f]
      BY <1>7, <3>3, LeaveShape
    <3>4. ASSUME NEW e \in Executors,
                 \/ StartLaunch(e) \/ ReadQueue(e) \/ ReturnPause(e)
                 \/ ReturnState(e) \/ AuditResolutions(e) \/ Raise(e)
          PROVE  phase[f] = "edges" /\ mem'[f] = mem[f]
      BY <1>7, <3>4 DEF StartLaunch, ReadQueue, ReturnPause, ReturnState,
         AuditResolutions, Raise, Enter, saver, TypeOK
    <3>5. ASSUME NEW i \in DOMAIN inflight, StoreCheckpoint(i) \/ LoseCheckpoint(i)
          PROVE  phase[f] = "edges" /\ mem'[f] = mem[f]
      BY <1>7, <3>5 DEF StoreCheckpoint, LoseCheckpoint
    <3>6. ASSUME UNCHANGED vars PROVE phase[f] = "edges" /\ mem'[f] = mem[f]
      BY <1>7, <3>6 DEF vars
    <3>7. phase[f] = "edges" /\ mem'[f] = mem[f]
      BY <3>1, <3>2, <3>3, <3>4, <3>5, <3>6 DEF Next, Progress, Executors
    <3>. QED
      BY <1>1, <3>7 DEF WrittenInv
  <2>. QED
    BY <2>1, <2>2
<1>. QED
  BY <1>5, <1>6, <1>7 DEF WrittenInv

\* The claims hold in every run.
LEMMA WrittenInvariant == Spec => []WrittenInv
<1>1. Init => WrittenInv
  BY DEF Init, WrittenInv, WrittenState, Written, EmptyState, Held,
         SideStoresFollowGraph
<1>2. TypeOK /\ WrittenInv /\ [Next]_vars => WrittenInv'
  BY WrittenStep
<1>. QED
  BY <1>1, <1>2, TypeCorrect, PTL DEF Spec

\* A run whose checkpoint is complete has all it kept in the graph, nodes and
\* edges: for any overlap of processes, failures and crashes.
THEOREM CompleteIsWritten == Spec => []CompleteMeansWritten
<1>1. WrittenInv => CompleteMeansWritten
  BY DEF WrittenInv, WrittenState, Written, CompleteMeansWritten,
         CheckpointStatus, Held
<1>. QED
  BY <1>1, WrittenInvariant, PTL

\* No vector document and no evidence record precedes the graph transactions
\* of its finding, whichever of any number of processes writes it.
THEOREM SideStoresComeLast == Spec => []SideStoresFollowGraph
<1>1. WrittenInv => SideStoresFollowGraph
  BY DEF WrittenInv
<1>. QED
  BY <1>1, WrittenInvariant, PTL

-----------------------------------------------------------------------------
(***************************************************************************)
(* With one launch, nothing happens before its analysis is checkpointed,   *)
(* what that analysis flagged is the queue of every copy of the state, and *)
(* the checkpoint never goes back to the gate from beyond it.              *)
(***************************************************************************)
SingleLaunch == \A a, b \in Launches : a = b
ReviewEverywhere == HitlOn = Executors

\* Where t has not passed the analysis, or the gate, s has not either.
NoFurther(s, t) ==
  /\ t.next \in Early => s.next \in Early
  /\ t.next \in Unreviewed => s.next \in Unreviewed

Ordered ==
  \A i \in DOMAIN inflight :
    /\ NoFurther(ckpt.state, inflight[i].state)
    /\ \A j \in DOMAIN inflight :
         i < j => NoFurther(inflight[i].state, inflight[j].state)

QueueInv ==
  /\ (\E l \in Launches : phase[l] \in {"idle", "starting"}) =>
       (\A s \in Held : s.next = "START") /\ DOMAIN inflight = {}
  /\ (\E l \in Launches : mem[l].next = "analysis") =>
       \A s \in Held : s.next \in Early
  /\ ckpt.state.next \in Early =>
       \A r \in Resolvers : phase[r] \in {"idle", "refused"}
  /\ \A r \in Resolvers : mem[r].next # "analysis"
  /\ \A s \in Held : s.next \in Early => s.flagged = {}
  /\ \A s, t \in Held :
       s.next \notin Early /\ t.next \notin Early => s.flagged = t.flagged
  /\ Ordered
  /\ \A e \in Executors :
       /\ phase[e] \in {"idle", "starting", "decided", "refused"} =>
            mem[e].next = "START"
       /\ phase[e] = "running" => mem[e].next \notin {"START", "END"}
       /\ phase[e] = "edges" => mem[e].next = "write_knowledge_graph"

\* What is over leaves the others in their order.
LEMMA OrderOver ==
  ASSUME TypeOK, Ordered, NEW at, Over(at)
  PROVE  Ordered'
<1>1. inflight \in Seq(Entry)
  BY DEF TypeOK, Entry
<1>2. PICK p : Remains(at, p)
  BY <1>1, OverSettles, SettleKeeps
<1>3. DOMAIN inflight \subseteq Nat
  BY <1>1
<1>4. ASSUME NEW k \in DOMAIN inflight', NEW l \in DOMAIN inflight', k < l
      PROVE  NoFurther(inflight'[k].state, inflight'[l].state)
  BY <1>2, <1>4 DEF Remains, Ordered
<1>5. ASSUME NEW k \in DOMAIN inflight'
      PROVE  NoFurther(ckpt'.state, inflight'[k].state)
  <2>1. p[k] \in DOMAIN inflight \ at /\ inflight'[k] = inflight[p[k]]
    BY <1>2 DEF Remains
  <2>2. CASE \E i \in DOMAIN inflight : StoreCheckpoint(i) /\ at = 1..i
    <3>1. PICK i \in DOMAIN inflight : StoreCheckpoint(i) /\ at = 1..i
      BY <2>2
    <3>2. ckpt'.state = inflight[i].state
      BY <3>1 DEF StoreCheckpoint
    <3>3. DOMAIN inflight = 1..Len(inflight) /\ Len(inflight) \in Nat
      BY <1>1
    <3>4. i < p[k]
      BY <2>1, <3>1, <3>3
    <3>. QED
      BY <2>1, <3>2, <3>4 DEF Ordered
  <2>3. CASE ckpt' = ckpt
    BY <2>1, <2>3 DEF Ordered
  <2>. QED
    BY <2>2, <2>3 DEF Over, LoseCheckpoint, Crash
<1>6. Ordered' = \A k \in DOMAIN inflight' :
                   /\ NoFurther(ckpt'.state, inflight'[k].state)
                   /\ \A l \in DOMAIN inflight' :
                        k < l => NoFurther(inflight'[k].state, inflight'[l].state)
  BY DEF Ordered, NoFurther
<1>. QED
  BY <1>4, <1>5, <1>6

\* A checkpoint of a later position than all others keeps the order.
LEMMA OrderSubmit ==
  ASSUME TypeOK, Ordered, NEW e \in Executors, NEW s \in PipelineState,
         Submit(e, s), \A t \in Held : NoFurther(t, s)
  PROVE  Ordered'
<1>1. inflight \in Seq(Entry)
  BY DEF TypeOK, Entry
<1> DEFINE n == Len(inflight) + 1
<1>2. /\ DOMAIN inflight' = DOMAIN inflight \cup {n} /\ n \notin DOMAIN inflight
      /\ \A k \in DOMAIN inflight : inflight'[k] = inflight[k] /\ k < n
      /\ inflight'[n].state = s
  <2>1. \A k \in DOMAIN inflight : k < n
    BY <1>1
  <2>. QED
    BY <1>1, <2>1, SubmitAppends
<1>3. \A k \in DOMAIN inflight : NoFurther(inflight[k].state, s)
  BY DEF Held
<1>4. NoFurther(ckpt.state, s) /\ ckpt' = ckpt
  BY DEF Held, Submit
<1>5. n \in Nat
  BY <1>1
<1> HIDE DEF n
<1>6. ASSUME NEW k \in DOMAIN inflight', NEW l \in DOMAIN inflight', k < l
      PROVE  NoFurther(inflight'[k].state, inflight'[l].state)
  <2>1. DOMAIN inflight \subseteq Nat
    BY <1>1
  <2>2. k # n
    BY <1>2, <1>5, <1>6, <2>1
  <2>. QED
    BY <1>2, <1>3, <1>6, <2>2 DEF Ordered
<1>7. \A k \in DOMAIN inflight' : NoFurther(ckpt'.state, inflight'[k].state)
  BY <1>2, <1>4 DEF Ordered
<1>. QED
  BY <1>6, <1>7 DEF Ordered, NoFurther

\* Nothing happens before the analysis is checkpointed, and all copies agree on
\* the queue after it.
LEMMA QueueStep ==
  ASSUME SingleLaunch, TypeOK, QueueInv, [Next]_vars
  PROVE  QueueInv'
<1> USE DEF Enter, Hold, AtStage, Early, saver
<1> USE ConstantsAssumption
<1>1. EmptyState.next = "START" /\ EmptyState.flagged = {}
  BY DEF EmptyState
\* What is left to show of a step that makes no checkpoint.
<1>2. ASSUME \A s \in Held' : s \in Held \/ s = EmptyState,
             \A f \in Executors :
               mem'[f].next = "analysis" => mem[f].next = "analysis",
             Ordered', ckpt'.state.next \in Early => ckpt.state.next \in Early,
             \A f \in Executors :
               /\ phase'[f] \in {"idle", "starting", "decided", "refused"} =>
                    mem'[f].next = "START"
               /\ phase'[f] = "running" => mem'[f].next \notin {"START", "END"}
               /\ phase'[f] = "edges" => mem'[f].next = "write_knowledge_graph",
             \A l \in Launches : phase'[l] \in {"idle", "starting"} =>
               phase[l] \in {"idle", "starting"},
             DOMAIN inflight = {} => DOMAIN inflight' = {},
             ckpt.state.next \in Early =>
               \A r \in Resolvers : phase'[r] \in {"idle", "refused"}
      PROVE  QueueInv'
  <2>1. (\E l \in Launches : phase'[l] \in {"idle", "starting"}) =>
          (\A s \in Held' : s.next = "START") /\ DOMAIN inflight' = {}
    BY <1>1, <1>2 DEF QueueInv
  <2>2. (\E l \in Launches : mem'[l].next = "analysis") =>
          \A s \in Held' : s.next \in Early
    BY <1>1, <1>2 DEF QueueInv, Executors
  <2>3. \A r \in Resolvers : mem'[r].next # "analysis"
    BY <1>2 DEF QueueInv, Executors
  <2>4. \A s \in Held' : s.next \in Early => s.flagged = {}
    BY <1>1, <1>2 DEF QueueInv
  <2>5. \A s, t \in Held' :
          s.next \notin Early /\ t.next \notin Early => s.flagged = t.flagged
    BY <1>1, <1>2 DEF QueueInv
  <2>. QED
    BY <1>2, <2>1, <2>2, <2>3, <2>4, <2>5 DEF QueueInv
<1>3. Ordered /\ Held \subseteq PipelineState /\ inflight \in Seq(Entry)
  BY HeldTypes DEF QueueInv, TypeOK, Entry
<1>4. UNCHANGED <<ckpt, inflight>> => Ordered'
  BY <1>3 DEF Ordered, NoFurther
<1>5. ASSUME NEW e \in Executors, Invoke(e) PROVE QueueInv'
  <2>1. e \in Launches /\ phase[e] = "starting" /\ \A l \in Launches : l = e
    BY <1>5 DEF Invoke, SingleLaunch
  <2>2. (\A s \in Held : s.next = "START") /\ DOMAIN inflight = {}
    BY <2>1 DEF QueueInv
  <2>3. ckpt.state \in Held /\ \A f \in Executors : mem[f] \in Held
    BY DEF Held
  <2> DEFINE t == [ckpt.state EXCEPT !.next = "analysis"]
  <2>4. t \in PipelineState /\ t.next = "analysis" /\ t.flagged = {}
    BY <1>3, <2>2, <2>3 DEF QueueInv, PipelineState, Stages
  <2>5. Submit(e, t) /\ phase' = [phase EXCEPT ![e] = "running"]
    BY <1>5 DEF Invoke
  <2> HIDE DEF t
  <2>6. /\ mem'[e] = t /\ ckpt' = ckpt /\ phase'[e] = "running"
        /\ \A f \in Executors \ {e} : mem'[f] = mem[f] /\ phase'[f] = phase[f]
    BY <2>5 DEF Submit, TypeOK
  <2>8. \A s \in Held' : s \in Held \/ s = t
    BY <2>4, <2>5, HeldSubmit
  <2>9. \A s \in Held' : s.next \in Early /\ s.flagged = {}
    BY <2>2, <2>4, <2>8 DEF QueueInv
  <2>10. Ordered'
    <3>1. \A u \in Held : NoFurther(u, t)
      BY <2>2, <2>4 DEF NoFurther, Unreviewed
    <3>. QED
      BY <1>3, <2>4, <2>5, <3>1, OrderSubmit
  <2>11. \A r \in Resolvers : phase'[r] = phase[r] /\ mem'[r] = mem[r]
    BY <2>1, <2>6 DEF Executors
  <2>12. \A r \in Resolvers : phase'[r] \in {"idle", "refused"}
    BY <2>2, <2>3, <2>11 DEF QueueInv
  <2>13. \A r \in Resolvers : mem'[r].next # "analysis"
    BY <2>11 DEF QueueInv
  <2>14. \A f \in Executors :
       /\ phase'[f] \in {"idle", "starting", "decided", "refused"} =>
            mem'[f].next = "START"
       /\ phase'[f] = "running" => mem'[f].next \notin {"START", "END"}
       /\ phase'[f] = "edges" => mem'[f].next = "write_knowledge_graph"
    BY <2>4, <2>6 DEF QueueInv
  <2>15. ~ \E l \in Launches : phase'[l] \in {"idle", "starting"}
    BY <2>1, <2>6
  <2>. QED
    BY <2>9, <2>10, <2>12, <2>13, <2>14, <2>15 DEF QueueInv
<1>6. ASSUME NEW e \in Executors, Node(e), Moves(e) PROVE QueueInv'
  <2>1. NodeEffect(e)
    BY <1>6, NodeShape
  <2>2. /\ ckpt' = ckpt /\ phase'[e] \in {"running", "returning"}
        /\ \A f \in Executors \ {e} : mem'[f] = mem[f] /\ phase'[f] = phase[f]
        /\ Submit(e, mem'[e]) /\ mem'[e] \in PipelineState
    BY <1>6, <2>1 DEF NodeEffect, Moves
  <2>3. mem'[e].next \notin Early
    BY <1>6 DEF Moves, Unreviewed
  <2>4. ckpt.state \in Held /\ \A f \in Executors : mem[f] \in Held
    BY DEF Held
  <2>7. \A s \in Held' : s \in Held \/ s = EmptyState \/ s = mem'[e]
    BY <2>2, HeldSubmit
  <2>8. ckpt.state.next \in Early =>
          \A r \in Resolvers : phase'[r] \in {"idle", "refused"}
    <3>1. ckpt.state.next \in Early => e \notin Resolvers
      BY <1>6 DEF Moves, QueueInv
    <3>. QED
      BY <2>2, <3>1 DEF QueueInv, Executors
  <2>9. \A f \in Executors :
       /\ phase'[f] \in {"idle", "starting", "decided", "refused"} =>
            mem'[f].next = "START"
       /\ phase'[f] = "running" => mem'[f].next \notin {"START", "END"}
       /\ phase'[f] = "edges" => mem'[f].next = "write_knowledge_graph"
    <3>1. phase'[e] = "running" => mem'[e].next # "END"
      BY <1>6 DEF Moves
    <3>. QED
      BY <2>2, <2>3, <3>1 DEF QueueInv
  <2>10. \A r \in Resolvers : mem'[r].next # "analysis"
    <3>1. mem'[e].next # "analysis"
      BY <2>3
    <3>. QED
      BY <2>2, <3>1 DEF QueueInv, Executors
  <2>11. CASE mem[e].next = "analysis"
    <3>1. e \in Launches /\ \A l \in Launches : l = e
      BY <2>11 DEF QueueInv, Executors, SingleLaunch
    <3>2. \A s \in Held : s.next \in Early
      BY <2>11, <3>1 DEF QueueInv
    <3>3. \A s \in Held' : s.next \notin Early => s = mem'[e]
      BY <1>1, <2>7, <3>2
    <3>4. \A s \in Held' : s.next \in Early => s.flagged = {}
      BY <1>1, <2>3, <2>7 DEF QueueInv
    <3>5. Ordered'
      <4>1. \A u \in Held : NoFurther(u, mem'[e])
        BY <3>2 DEF NoFurther, Unreviewed
      <4>. QED
        BY <1>3, <2>2, <4>1, OrderSubmit
    <3>6. ~ \E l \in Launches : phase'[l] \in {"idle", "starting"}
      BY <2>2, <3>1
    <3>7. ~ \E l \in Launches : mem'[l].next = "analysis"
      BY <2>3, <3>1
    <3>. QED
      BY <2>2, <2>8, <2>9, <2>10, <3>3, <3>4, <3>5, <3>6, <3>7 DEF QueueInv
  <2>12. CASE mem[e].next # "analysis"
    <3>1. /\ mem[e].next \notin Early /\ mem'[e].flagged = mem[e].flagged
          /\ mem'[e].next \notin Unreviewed
      BY <1>6, <2>12 DEF Moves, QueueInv
    <3>2. Ordered'
      <4>1. \A u \in Held : NoFurther(u, mem'[e])
        BY <3>1 DEF NoFurther, Unreviewed
      <4>. QED
        BY <1>3, <2>2, <4>1, OrderSubmit
    <3>3. \A s \in Held' : s.next \in Early => s.flagged = {}
      BY <1>1, <2>3, <2>7 DEF QueueInv
    <3>4. \A s \in Held' : s.next \notin Early => s.flagged = mem[e].flagged
      BY <1>1, <2>4, <2>7, <3>1 DEF QueueInv
    <3>5. ~ \E l \in Launches : phase'[l] \in {"idle", "starting"}
      <4>1. ~ \E l \in Launches : phase[l] \in {"idle", "starting"}
        BY <2>4, <3>1 DEF QueueInv
      <4>. QED
        BY <2>2, <4>1 DEF Executors
    <3>6. ~ \E l \in Launches : mem'[l].next = "analysis"
      <4>1. ~ \E l \in Launches : mem[l].next = "analysis"
        BY <2>4, <3>1 DEF QueueInv
      <4>. QED
        BY <2>2, <2>3, <4>1 DEF Executors
    <3>. QED
      BY <2>2, <2>8, <2>9, <2>10, <3>2, <3>3, <3>4, <3>5, <3>6 DEF QueueInv
  <2>. QED
    BY <2>11, <2>12
<1>8. ASSUME NEW e \in Executors, Node(e), ~Moves(e) PROVE QueueInv'
  <2>1. /\ UNCHANGED <<ckpt, inflight, mem>>
        /\ phase[e] = "running" /\ phase'[e] \in {"edges", "pausing"}
        /\ phase'[e] = "edges" => mem[e].next = "write_knowledge_graph"
        /\ \A f \in Executors \ {e} : phase'[f] = phase[f]
    BY <1>8, NodeShape DEF NodeEffect
  <2>2. Held' = Held
    BY <2>1 DEF Held
  <2>3. e \in Resolvers => ckpt.state.next \notin Early
    BY <2>1 DEF QueueInv
  <2>. QED
    BY <1>2, <1>4, <2>1, <2>2, <2>3 DEF QueueInv, Executors
<1>9. ASSUME NEW e \in Executors, Resume(e) PROVE QueueInv'
  <2>1. e \in Resolvers /\ ckpt.state.next \notin Early /\ e \notin Launches
    BY <1>9 DEF Resume, QueueInv
  <2>2. /\ phase'[e] = IF ckpt.state.next = "END" THEN "audit_resolutions"
                       ELSE "running"
        /\ mem'[e] = ckpt.state /\ UNCHANGED <<ckpt, inflight>>
        /\ \A f \in Executors \ {e} : mem'[f] = mem[f] /\ phase'[f] = phase[f]
    BY <1>9 DEF Resume, TypeOK
  <2>3. \A s \in Held' : s \in Held
    BY <2>2 DEF Held
  <2>. QED
    BY <1>2, <1>4, <2>1, <2>2, <2>3 DEF QueueInv, Executors
\* The steps of processes that hold on to their copy or let go of it.
<1>10. ASSUME Otherwise, Ordered',
              ckpt'.state.next \in Early => ckpt.state.next \in Early,
              DOMAIN inflight = {} => DOMAIN inflight' = {},
              \A f \in Executors : mem'[f] = mem[f] \/ mem'[f] = EmptyState,
              \A f \in Executors :
                /\ phase'[f] \in {"idle", "starting", "decided", "refused"} =>
                     mem'[f].next = "START"
                /\ phase'[f] \in {"running", "edges"} =>
                     phase'[f] = phase[f] /\ mem'[f] = mem[f],
              \A l \in Launches : phase'[l] \in {"idle", "starting"} =>
                phase[l] \in {"idle", "starting"},
              ckpt.state.next \in Early =>
                \A r \in Resolvers : phase'[r] \in {"idle", "refused"}
       PROVE  QueueInv'
  BY <1>1, <1>2, <1>10, HeldKept DEF QueueInv
<1>11. ASSUME NEW i \in DOMAIN inflight, StoreCheckpoint(i) \/ LoseCheckpoint(i)
       PROVE  QueueInv'
  <2>1. Ordered'
    <3>1. \E at : Over(at)
      BY <1>11 DEF Over
    <3>. QED
      BY <1>3, <3>1, OrderOver
  <2>2. ckpt'.state.next \in Early => ckpt.state.next \in Early
    <3>1. ckpt' = ckpt \/ ckpt'.state = inflight[i].state
      BY <1>11 DEF StoreCheckpoint, LoseCheckpoint
    <3>. QED
      BY <1>3, <3>1 DEF Ordered, NoFurther
  <2>3. UNCHANGED <<mem, phase>> /\ Otherwise
    BY <1>11 DEF StoreCheckpoint, LoseCheckpoint, Otherwise
  <2>. QED
    BY <1>10, <2>1, <2>2, <2>3 DEF QueueInv
<1>12. ASSUME NEW e \in Executors,
              AuditStatus(e) \/ AuditFailure(e) \/ CompileFails(e) \/ Crash(e)
       PROVE  QueueInv'
  <2>1. Ordered'
    <3>1. CASE Crash(e)
      <4>1. \E at : Over(at)
        BY <3>1 DEF Over
      <4>. QED
        BY <1>3, <4>1, OrderOver
    <3>. QED
      BY <1>4, <1>12, <3>1, LeaveShape
  <2>2. DOMAIN inflight = {} => DOMAIN inflight' = {}
    <3>1. CASE Crash(e)
      <4>1. PICK at, p : Remains(at, p)
        <5>1. \E at : Over(at)
          BY <3>1 DEF Over
        <5>. QED
          BY <1>3, <5>1, OverSettles, SettleKeeps
      <4>. QED
        BY <4>1 DEF Remains
    <3>. QED
      BY <1>12, <3>1, LeaveShape
  <2>3. e \in Resolvers /\ ckpt.state.next \in Early => phase'[e] = phase[e]
    BY <1>12 DEF AuditStatus, AuditFailure, CompileFails, Crash, Active, Working,
                Leave, QueueInv
  <2>4. Otherwise
    BY <1>12 DEF Otherwise
  <2>5. ckpt.state.next \in Early =>
          \A r \in Resolvers : phase'[r] \in {"idle", "refused"}
    BY <1>12, <2>3, LeaveShape DEF QueueInv, Executors
  <2>. QED
    BY <1>1, <1>10, <1>12, <2>1, <2>2, <2>4, <2>5, LeaveShape
       DEF QueueInv, Executors
<1>13. ASSUME UNCHANGED <<inflight, mem>>, ckpt'.state = ckpt.state, Otherwise,
              \A f \in Executors :
                /\ phase'[f] \in {"idle", "starting", "decided", "refused"} =>
                     mem'[f].next = "START"
                /\ phase'[f] \in {"running", "edges"} => phase'[f] = phase[f],
              \A l \in Launches : phase'[l] \in {"idle", "starting"} =>
                phase[l] \in {"idle", "starting"},
              ckpt.state.next \in Early =>
                \A r \in Resolvers : phase'[r] \in {"idle", "refused"}
       PROVE  QueueInv'
  <2>1. Ordered'
    BY <1>3, <1>13 DEF Ordered, NoFurther
  <2>. QED
    BY <1>10, <1>13, <2>1
<1>14. ASSUME NEW l \in Launches, StartLaunch(l) PROVE QueueInv'
  <2>1. UNCHANGED <<inflight, mem, ckpt>> /\ Otherwise
    BY <1>14 DEF StartLaunch, Otherwise
  <2>2. /\ phase[l] = "idle" /\ phase'[l] = "starting"
        /\ \A f \in Executors \ {l} : phase'[f] = phase[f]
    BY <1>14 DEF StartLaunch, MayStart, TypeOK, Executors
  <2>. QED
    BY <1>13, <2>1, <2>2 DEF QueueInv, Executors
<1>15. ASSUME NEW r \in Resolvers, ReadQueue(r) PROVE QueueInv'
  <2>1. UNCHANGED <<inflight, mem, ckpt>> /\ Otherwise
    BY <1>15 DEF ReadQueue, Otherwise
  <2>2. /\ phase[r] = "idle" /\ phase'[r] \in {"refused", "decided"}
        /\ \A f \in Executors \ {r} : phase'[f] = phase[f]
    BY <1>15 DEF ReadQueue, MayStart, TypeOK, Executors
  <2>3. ckpt.state.next \in Early => phase'[r] = "refused"
    <3>1. ckpt.state.next \in Early => ckpt.state.flagged = {}
      BY DEF QueueInv, Held
    <3>. QED
      BY <1>15, <3>1 DEF ReadQueue, TypeOK, Executors
  <2>. QED
    BY <1>13, <2>1, <2>2, <2>3 DEF QueueInv, Executors
<1>16. ASSUME NEW e \in Executors,
              \/ ReturnPause(e) \/ ReturnState(e) \/ AuditResolutions(e)
              \/ Raise(e)
       PROVE  QueueInv'
  <2>1. UNCHANGED <<inflight, mem>> /\ ckpt'.state = ckpt.state /\ Otherwise
    BY <1>16 DEF ReturnPause, ReturnState, AuditResolutions, Raise, Otherwise,
       TypeOK
  <2>2. /\ phase[e] \notin {"idle", "refused"}
        /\ phase'[e] \in {"audit_resolutions", "audit_status", "raised"}
        /\ \A f \in Executors \ {e} : phase'[f] = phase[f]
    BY <1>16 DEF ReturnPause, ReturnState, AuditResolutions, Raise, TypeOK
  <2>. QED
    BY <1>13, <2>1, <2>2 DEF QueueInv, Executors
<1>17. CASE UNCHANGED vars
  <2>1. UNCHANGED <<inflight, mem, ckpt, phase>> /\ Otherwise
    BY <1>17 DEF vars, Otherwise
  <2>. QED
    BY <1>13, <2>1 DEF QueueInv, Executors
<1>18. CASE Otherwise
  BY <1>9, <1>11, <1>12, <1>14, <1>15, <1>16, <1>17, <1>18 DEF Otherwise
<1>. QED
  BY <1>5, <1>6, <1>8, <1>18, Steps

\* Only the writers, past the gate, touch the stores.
LEMMA StoresShape ==
  ASSUME TypeOK, QueueInv, NEW e \in Executors, Node(e),
         mem[e].next \in Unreviewed
  PROVE  UNCHANGED stores
<1>1. phase[e] # "edges"
  BY DEF QueueInv, Unreviewed, Early
<1>. QED
  BY <1>1 DEF Node, Analyse, AutoResolveGate, ResumeGate, InterruptGate,
     PassGate, ApplyResolutions, WriteNodes, WriteEdges, WriteIndex,
     WriteEvidence, AtStage, Unreviewed, Early, stores

\* Only a checkpoint at the gate shows an interrupt; if the checkpoint has not
\* passed the gate while a process has, or has written anything, a checkpoint
\* that has is on its way, unless one is lost.
Ahead ==
  \/ \E e \in Executors : mem[e].next \notin Unreviewed
  \/ ~(kgNodes = {} /\ kgEdges = {} /\ indexed = {} /\ evidence = {})

PauseInv ==
  /\ ckpt.interrupted => ckpt.state.next = "hitl_gate"
  /\ lost = {} /\ ckpt.state.next \in Unreviewed /\ Ahead =>
       \E i \in DOMAIN inflight : inflight[i].state.next \notin Unreviewed

\* What is ahead of the checkpoint is on its way to the disk.
LEMMA PauseStep ==
  ASSUME TypeOK, QueueInv, PauseInv, [Next]_vars
  PROVE  PauseInv'
<1> USE DEF saver
<1>1. inflight \in Seq(Entry)
  BY DEF TypeOK, Entry
<1>2. EmptyState.next \in Unreviewed
  BY DEF EmptyState, Unreviewed, Early
<1>3. ASSUME NEW at, NEW p, Remains(at, p), ckpt' = ckpt, Ahead' => Ahead,
             lost' = {} => lost = {} /\ at = {}
      PROVE  PauseInv'
  BY <1>3 DEF PauseInv, Remains
<1>4. ASSUME UNCHANGED <<ckpt, inflight>>, lost \subseteq lost', Ahead' => Ahead
      PROVE  PauseInv'
  BY <1>4 DEF PauseInv
<1>5. (\E e \in Executors : Node(e)) \/ UNCHANGED stores
  BY StoresGrow
<1>6. ASSUME UNCHANGED stores,
             \A e \in Executors :
               mem'[e].next \in Unreviewed \/ mem'[e] = mem[e]
      PROVE  Ahead' => Ahead
  BY <1>6 DEF Ahead, stores
<1>7. ASSUME NEW e \in Executors, NEW s \in PipelineState, Submit(e, s),
             \/ s.next \notin Unreviewed
             \/ UNCHANGED stores
      PROVE  PauseInv'
  <2>1. /\ mem'[e] = s /\ ckpt' = ckpt /\ lost' = lost
        /\ \A f \in Executors \ {e} : mem'[f] = mem[f]
    BY <1>7, HeldSubmit
  <2>2. /\ DOMAIN inflight' = DOMAIN inflight \cup {Len(inflight) + 1}
        /\ \A k \in DOMAIN inflight : inflight'[k] = inflight[k]
        /\ inflight'[Len(inflight) + 1].state = s
    BY <1>1, <1>7, SubmitAppends
  <2>3. CASE s.next \notin Unreviewed
    BY <2>1, <2>2, <2>3 DEF PauseInv
  <2>4. CASE s.next \in Unreviewed
    <3>1. Ahead' => Ahead
      BY <1>6, <1>7, <2>1, <2>4
    <3>. QED
      BY <2>1, <2>2, <3>1 DEF PauseInv
  <2>. QED
    BY <2>3, <2>4
<1>8. ASSUME NEW e \in Executors, Invoke(e) PROVE PauseInv'
  <2> DEFINE t == [ckpt.state EXCEPT !.next = "analysis"]
  <2>1. t \in PipelineState
    BY DEF TypeOK, PipelineState, Stages
  <2>2. Submit(e, t) /\ UNCHANGED stores
    BY <1>8 DEF Invoke
  <2> HIDE DEF t
  <2>. QED
    BY <1>7, <2>1, <2>2
<1>9. ASSUME NEW e \in Executors, Node(e) PROVE PauseInv'
  <2>1. NodeEffect(e)
    BY <1>9, NodeShape
  <2>2. mem[e].next \in Unreviewed => UNCHANGED stores
    BY <1>9, StoresShape
  <2>3. CASE Moves(e)
    <3>1. mem[e].next \notin Unreviewed => mem'[e].next \notin Unreviewed
      BY <2>3 DEF Moves, AtStage, Unreviewed, Early
    <3>. QED
      BY <1>7, <2>2, <2>3, <3>1 DEF Moves
  <2>4. CASE UNCHANGED <<mem, inflight>>
    <3>1. Ahead' => Ahead
      <4>1. CASE mem[e].next \in Unreviewed
        BY <1>6, <2>2, <2>4, <4>1
      <4>2. CASE mem[e].next \notin Unreviewed
        BY <4>2 DEF Ahead
      <4>. QED
        BY <4>1, <4>2
    <3>. QED
      BY <1>4, <2>1, <2>4, <3>1 DEF NodeEffect
  <2>. QED
    BY <2>1, <2>3, <2>4 DEF NodeEffect
<1>10. ASSUME NEW i \in DOMAIN inflight, StoreCheckpoint(i) PROVE PauseInv'
  <2>1. /\ ckpt'.state = inflight[i].state /\ ~ckpt'.interrupted
        /\ UNCHANGED <<mem, stores>> /\ lost \subseteq lost'
    BY <1>10 DEF StoreCheckpoint
  <2>2. PICK p : Remains(1..i, p)
    BY <1>1, <1>10, OverSettles, SettleKeeps DEF Over
  <2>3. Ahead' => Ahead
    BY <1>6, <2>1
  <2>4. ASSUME lost' = {}, inflight[i].state.next \in Unreviewed, Ahead'
        PROVE  \E k \in DOMAIN inflight' : inflight'[k].state.next \notin Unreviewed
    <3>1. ckpt.state.next \in Unreviewed
      BY <2>4 DEF QueueInv, Ordered, NoFurther
    <3>2. PICK j \in DOMAIN inflight : inflight[j].state.next \notin Unreviewed
      BY <2>1, <2>3, <2>4, <3>1 DEF PauseInv
    <3>3. i \in Nat /\ j \in Nat
      BY <1>1
    <3>4. ~(j < i) /\ i # j
      BY <2>4, <3>2 DEF QueueInv, Ordered, NoFurther
    <3>5. j \in DOMAIN inflight \ (1..i)
      BY <3>3, <3>4
    <3>. QED
      BY <2>2, <3>2, <3>5 DEF Remains
  <2>. QED
    BY <2>1, <2>4 DEF PauseInv
<1>11. ASSUME NEW i \in DOMAIN inflight, LoseCheckpoint(i) PROVE PauseInv'
  <2>1. PICK p : Remains({i}, p)
    BY <1>1, <1>11, OverSettles, SettleKeeps DEF Over
  <2>2. lost' # {} /\ UNCHANGED <<ckpt, mem, stores>>
    BY <1>11 DEF LoseCheckpoint
  <2>3. Ahead' => Ahead
    BY <1>6, <2>2
  <2>. QED
    BY <1>3, <2>1, <2>2, <2>3
<1>12. ASSUME NEW e \in Executors,
              AuditStatus(e) \/ AuditFailure(e) \/ CompileFails(e) \/ Crash(e)
       PROVE  PauseInv'
  <2>1. Ahead' => Ahead
    BY <1>2, <1>6, <1>12, LeaveShape
  <2>2. CASE Crash(e)
    <3> DEFINE at == {i \in DOMAIN inflight : inflight[i].writer = e}
    <3>1. PICK p : Remains(at, p)
      BY <1>1, <2>2, OverSettles, SettleKeeps DEF Over
    <3>2. lost' = {} => lost = {} /\ at = {}
      BY <2>2 DEF Crash, InFlight
    <3>3. ckpt' = ckpt
      BY <2>2 DEF Crash
    <3> HIDE DEF at
    <3>. QED
      BY <1>3, <2>1, <3>1, <3>2, <3>3
  <2>3. CASE UNCHANGED <<inflight, lost>>
    BY <1>4, <1>12, <2>1, <2>3, LeaveShape
  <2>. QED
    BY <1>12, <2>2, <2>3, LeaveShape
<1>13. ASSUME NEW e \in Executors, Resume(e) PROVE PauseInv'
  <2>1. /\ UNCHANGED <<ckpt, inflight, lost, stores>>
        /\ \A f \in Executors : mem'[f] \in {mem[f], ckpt.state}
    BY <1>13 DEF Resume, Hold, TypeOK
  <2>2. ckpt.state.next \in Unreviewed => (Ahead' => Ahead)
    BY <1>6, <2>1
  <2>. QED
    BY <2>1, <2>2 DEF PauseInv
<1>14. ASSUME NEW e \in Executors, ReturnPause(e) PROVE PauseInv'
  <2>1. /\ UNCHANGED <<inflight, mem, stores>> /\ lost \subseteq lost'
        /\ ckpt'.state = ckpt.state
        /\ ckpt'.interrupted =>
             ckpt.interrupted \/ ckpt.state.next = "hitl_gate"
    BY <1>14 DEF ReturnPause, TypeOK
  <2>. QED
    BY <1>6, <2>1 DEF PauseInv
<1>15. ASSUME NEW e,
              \/ StartLaunch(e) \/ ReadQueue(e) \/ ReturnState(e)
              \/ AuditResolutions(e) \/ Raise(e)
       PROVE  PauseInv'
  <2>1. UNCHANGED <<ckpt, inflight, lost, mem, stores>>
    BY <1>15 DEF StartLaunch, ReadQueue, ReturnState, AuditResolutions, Raise
  <2>. QED
    BY <1>4, <1>6, <2>1
<1>16. CASE UNCHANGED vars
  BY <1>4, <1>6, <1>16 DEF vars
<1>17. CASE Otherwise
  BY <1>10, <1>11, <1>12, <1>13, <1>14, <1>15, <1>16, <1>17 DEF Otherwise
<1>. QED
  BY <1>8, <1>9, <1>17, Steps

\* With one launch, the queue and pause invariants hold in every run.
LEMMA PauseInvariant == SingleLaunch => (Spec => [](QueueInv /\ PauseInv))
<1>. SUFFICES ASSUME SingleLaunch PROVE Spec => [](QueueInv /\ PauseInv)
  OBVIOUS
<1>1. Init => QueueInv /\ PauseInv
  BY DEF Init, QueueInv, PauseInv, Ordered, Ahead, Held, EmptyState, Early,
         Unreviewed, Executors
<1>2. TypeOK /\ QueueInv /\ PauseInv /\ [Next]_vars => QueueInv' /\ PauseInv'
  BY QueueStep, PauseStep
<1>. QED
  BY <1>1, <1>2, TypeCorrect, PTL DEF Spec

\* A run of one launch that reports pending_review has written nothing, as
\* long as no checkpoint is on its way or lost, for any number of resolvers
\* racing it and each other, failures and crashes.
THEOREM PauseStopsShort ==
  SingleLaunch => (Spec => []PausedMeansUnwritten)
<1>. SUFFICES ASSUME SingleLaunch PROVE Spec => []PausedMeansUnwritten
  OBVIOUS
<1>1. PauseInv => PausedMeansUnwritten
  BY DEF PauseInv, PausedMeansUnwritten, CheckpointStatus, Ahead, Unreviewed
<1>. QED
  BY <1>1, PauseInvariant, PTL

-----------------------------------------------------------------------------
(***************************************************************************)
(* With review everywhere, a flagged finding that is not rejected has been *)
(* accepted by a reviewer, in every copy of the state that is past the     *)
(* gate.                                                                   *)
(***************************************************************************)
Accepted(i) == \E r \in Resolvers : decision[r][i] = "accept"

ReviewedState(s) ==
  s.next \notin Unreviewed =>
    \A i \in s.flagged :
      /\ s.verdict[i] = "reject" \/ Accepted(i)
      /\ s.next # "apply_hitl_resolutions" /\ i \in s.kept => Accepted(i)

\* The launch has not analysed yet.
Fresh ==
  \E l \in Launches :
    phase[l] \in {"idle", "starting"} \/ mem[l].next = "analysis"

ReviewInv ==
  /\ \A s \in Held : ReviewedState(s)
  /\ \A r \in Resolvers :
       /\ phase[r] = "idle" => decision[r] = NoVerdict
       /\ phase[r] \notin {"idle", "refused"} =>
            \A s \in Held : s.next \notin Early =>
              \A i \in s.flagged : decision[r][i] # "none"
  /\ Fresh => kgNodes = {}
  /\ \A s \in Held : s.next \notin Early =>
       \A i \in kgNodes \cap s.flagged : Accepted(i)

\* An acceptance, once submitted, stays submitted.
LEMMA AcceptedStays ==
  ASSUME TypeOK, ReviewInv, [Next]_vars, NEW i \in Items, Accepted(i)
  PROVE  Accepted(i)'
<1>1. PICK r \in Resolvers : decision[r][i] = "accept"
  BY DEF Accepted
<1>2. CASE decision' = decision
  BY <1>1, <1>2 DEF Accepted
<1>3. ASSUME NEW q \in Resolvers, ReadQueue(q) PROVE Accepted(i)'
  <2>1. decision[q] = NoVerdict
    BY <1>3 DEF ReadQueue, MayStart, ReviewInv
  <2>2. q # r
    BY <1>1, <2>1 DEF NoVerdict
  <2>3. decision'[r] = decision[r]
    BY <1>3, <2>2 DEF ReadQueue, TypeOK
  <2>. QED
    BY <1>1, <2>3 DEF Accepted
<1>4. decision' = decision \/ \E q \in Resolvers : ReadQueue(q)
  BY DEF Next, Progress, Node, StartLaunch, Invoke, Resume, Analyse,
     AutoResolveGate, ResumeGate, InterruptGate, PassGate, ApplyResolutions,
     WriteNodes, WriteEdges, WriteIndex, WriteEvidence, ReturnPause,
     ReturnState, StoreCheckpoint, LoseCheckpoint, AuditResolutions, AuditStatus, AuditFailure, CompileFails, Raise, Crash,
     vars
<1>. QED
  BY <1>2, <1>3, <1>4

\* A reviewed copy stays reviewed as long as it does not change.
LEMMA ReviewedStays ==
  ASSUME TypeOK, ReviewInv, [Next]_vars, NEW s \in PipelineState,
         ReviewedState(s)
  PROVE  s.next \notin Unreviewed =>
           \A i \in s.flagged :
             /\ s.verdict[i] = "reject" \/ Accepted(i)'
             /\ s.next # "apply_hitl_resolutions" /\ i \in s.kept => Accepted(i)'
<1>1. s.flagged \subseteq Items
  BY DEF PipelineState
<1>. QED
  BY <1>1, AcceptedStays DEF ReviewedState

\* What every node leaves in the copy of the process that runs it is reviewed.
LEMMA NodeReviewed ==
  ASSUME ReviewEverywhere, TypeOK, QueueInv, ReviewInv,
         NEW e \in Executors, Node(e)
  PROVE  ReviewedState(mem'[e])
<1> USE DEF AtStage, Finish, Submit, Hold, Enter, Unreviewed, Early, ReviewedState
<1>1. mem[e] \in PipelineState /\ mem[e] \in Held /\ ReviewedState(mem[e])
  BY DEF TypeOK, ReviewInv, Held
<1>2. ASSUME mem'[e] = mem[e] PROVE ReviewedState(mem'[e])
  BY <1>1, <1>2
<1>3. CASE Analyse(e)
  <2> DEFINE flag(low) == [mem[e] EXCEPT !.flagged = low, !.kept = Items,
                             !.next = IF low = {} THEN "apply_hitl_resolutions"
                                      ELSE "hitl_gate"]
  <2>1. PICK low \in SUBSET Items : Finish(e, flag(low))
    BY <1>3 DEF Analyse
  <2>2. /\ flag(low).next \in {"hitl_gate", "apply_hitl_resolutions"}
        /\ flag(low).next = "apply_hitl_resolutions" => flag(low).flagged = {}
    BY <1>1 DEF PipelineState, Stages
  <2> HIDE DEF flag
  <2>3. mem'[e] = flag(low)
    BY <2>1 DEF TypeOK
  <2>. QED
    BY <2>2, <2>3
<1>4. CASE AutoResolveGate(e)
  BY <1>4 DEF AutoResolveGate, ReviewEverywhere
<1>5. CASE ResumeGate(e)
  <2>1. e \in Resolvers /\ phase[e] = "running" /\ mem[e].next = "hitl_gate"
    BY <1>5 DEF ResumeGate
  <2>3. \A i \in mem[e].flagged : decision[e][i] # "none"
    BY <1>1, <2>1 DEF ReviewInv
  <2>4. mem'[e] = [mem[e] EXCEPT !.verdict = decision[e],
                                 !.next = "apply_hitl_resolutions"]
    BY <1>5 DEF ResumeGate, PassGate, TypeOK
  <2>5. /\ mem'[e].verdict = decision[e] /\ mem'[e].flagged = mem[e].flagged
        /\ mem'[e].next = "apply_hitl_resolutions"
    BY <1>1, <2>4 DEF PipelineState
  <2>6. decision[e] \in Verdicts /\ mem[e].flagged \subseteq Items
    BY <1>1, <2>1 DEF TypeOK, PipelineState
  <2>7. \A i \in mem[e].flagged : decision[e][i] \in {"accept", "reject"}
    BY <2>3, <2>6 DEF Verdicts
  <2>. QED
    BY <2>1, <2>5, <2>7 DEF Accepted
<1>6. CASE InterruptGate(e)
  BY <1>2, <1>6 DEF InterruptGate
<1>7. CASE ApplyResolutions(e)
  <2>1. mem'[e] = [mem[e] EXCEPT !.kept = mem[e].kept \ Dropped(mem[e]),
                                 !.next = "write_knowledge_graph"]
    BY <1>7 DEF ApplyResolutions, TypeOK
  <2>2. /\ mem'[e].verdict = mem[e].verdict /\ mem'[e].flagged = mem[e].flagged
        /\ mem'[e].kept = mem[e].kept \ Dropped(mem[e])
    BY <1>1, <2>1 DEF PipelineState
  <2>3. mem[e].next = "apply_hitl_resolutions"
    BY <1>7 DEF ApplyResolutions
  <2>4. \A i \in mem[e].flagged : mem[e].verdict[i] = "reject" \/ Accepted(i)
    BY <1>1, <2>3
  <2>5. \A i \in mem[e].flagged :
          i \in mem'[e].kept => mem[e].verdict[i] # "reject"
    BY <2>2 DEF Dropped
  <2>. QED
    BY <2>2, <2>4, <2>5
<1>8. CASE WriteNodes(e)
  BY <1>2, <1>8 DEF WriteNodes
<1>9. ASSUME NEW n \in {"write_vector_index", "write_evidence_store", "END"},
             mem'[e] = [mem[e] EXCEPT !.next = n],
             mem[e].next \notin Unreviewed \cup {"apply_hitl_resolutions"}
      PROVE  ReviewedState(mem'[e])
  <2>1. /\ mem'[e].verdict = mem[e].verdict /\ mem'[e].flagged = mem[e].flagged
        /\ mem'[e].kept = mem[e].kept
    BY <1>1, <1>9 DEF PipelineState
  <2>. QED
    BY <1>1, <1>9, <2>1
<1>10. CASE WriteEdges(e)
  BY <1>9, <1>10 DEF WriteEdges, TypeOK, QueueInv
<1>11. CASE WriteIndex(e)
  BY <1>9, <1>11 DEF WriteIndex, TypeOK
<1>12. CASE WriteEvidence(e)
  BY <1>9, <1>12 DEF WriteEvidence, TypeOK
<1>. QED
  BY <1>3, <1>4, <1>5, <1>6, <1>7, <1>8, <1>10, <1>11, <1>12 DEF Node
\* Beyond the gate a flagged finding is rejected, or accepted by a resolver.
LEMMA ReviewStep ==
  ASSUME SingleLaunch, ReviewEverywhere, TypeOK, QueueInv, ReviewInv, [Next]_vars
  PROVE  ReviewInv'
<1> DEFINE Still(s) ==
              /\ s.next \notin Unreviewed =>
                   \A i \in s.flagged :
                     /\ s.verdict[i] = "reject" \/ Accepted(i)'
                     /\ s.next # "apply_hitl_resolutions" /\ i \in s.kept
                          => Accepted(i)'
              /\ s.next \notin Early =>
                   \A i \in kgNodes' \cap s.flagged : Accepted(i)'
            Queued(s) == \A r \in Resolvers :
              phase'[r] \notin {"idle", "refused"} =>
                (s.next \notin Early => \A i \in s.flagged : decision'[r][i] # "none")
            Kept == /\ Fresh' => Fresh
                    /\ \A r \in Resolvers :
                         phase'[r] = "idle" => decision'[r] = NoVerdict
<1>1. Held \subseteq PipelineState
  BY HeldTypes
<1>2. ASSUME \A s \in Held' : Still(s) /\ Queued(s), Kept, Fresh' => kgNodes' = {}
      PROVE  ReviewInv'
  <2>1. \A s \in Held' : ReviewedState(s)'
    BY <1>2 DEF ReviewedState
  <2>2. (\A s \in Held : s.next \notin Early =>
           \A i \in kgNodes \cap s.flagged : Accepted(i))'
    BY <1>2
  <2>. QED
    BY <1>2, <2>1, <2>2 DEF ReviewInv
<1>3. ASSUME kgNodes' = kgNodes, NEW s \in Held PROVE Still(s)
  <2>1. s \in PipelineState /\ ReviewedState(s) /\ s.flagged \subseteq Items
    BY <1>1 DEF ReviewInv, PipelineState
  <2>2. s.next \notin Early => \A i \in kgNodes' \cap s.flagged : Accepted(i)'
    BY <1>3, <2>1, AcceptedStays DEF ReviewInv
  <2>. QED
    BY <2>1, <2>2, ReviewedStays
<1>4. ASSUME NEW s, s.next \in Early PROVE Still(s) /\ Queued(s)
  BY <1>4 DEF Unreviewed
<1>5. EmptyState.next \in Early
  BY DEF EmptyState, Early
<1> HIDE DEF Still
<1>6. ASSUME UNCHANGED decision, \A r \in Resolvers :
               /\ phase'[r] = "idle" => phase[r] = "idle"
               /\ phase'[r] \notin {"idle", "refused"} =>
                    phase[r] \notin {"idle", "refused"}
      PROVE  /\ \A s \in Held : Queued(s)
             /\ \A r \in Resolvers : phase'[r] = "idle" => decision'[r] = NoVerdict
  BY <1>6 DEF ReviewInv
<1>7. ASSUME \A l \in Launches :
               /\ phase'[l] \in {"idle", "starting"} => phase[l] \in {"idle", "starting"}
               /\ mem'[l].next = "analysis" =>
                    phase[l] = "starting" \/ mem[l].next = "analysis"
      PROVE  Fresh' => Fresh
  BY <1>7 DEF Fresh
<1> HIDE DEF Queued
<1> USE DEF Enter, Hold, Executors
<1> USE ConstantsAssumption
<1>8. ASSUME NEW e \in Executors, Invoke(e) PROVE ReviewInv'
  <2>1. /\ phase[e] = "starting" /\ phase' = [phase EXCEPT ![e] = "running"]
        /\ mem' = [mem EXCEPT ![e] = [ckpt.state EXCEPT !.next = "analysis"]]
        /\ UNCHANGED <<decision, stores>> /\ e \in Launches
    BY <1>8 DEF Invoke, Submit
  <2>2. mem'[e].next = "analysis"
    BY <2>1 DEF TypeOK, PipelineState
  <2>3. Still(mem'[e]) /\ Queued(mem'[e])
    BY <1>4, <2>2 DEF Early
  <2>4. (\A s \in Held : Queued(s)) /\ Kept
    BY <1>6, <1>7, <2>1 DEF TypeOK
  <2>5. kgNodes' = kgNodes
    BY <2>1 DEF stores
  <2>6. \A s \in Held' : s \in Held \/ s = mem'[e]
    BY <1>8, HeldNew
  <2>. QED
    BY <1>2, <1>3, <2>3, <2>4, <2>5, <2>6 DEF ReviewInv
<1>9. ASSUME NEW e \in Executors, Node(e) PROVE ReviewInv'
  <2>1. NodeEffect(e)
    BY <1>9, NodeShape
  <2>2. ReviewedState(mem'[e])
    BY <1>9, NodeReviewed
  <2>3. mem[e] \in Held /\ mem'[e] \in PipelineState
    BY TypeStep DEF TypeOK, Held
  <2>4. phase[e] \in {"running", "edges"} /\ phase'[e] \notin {"idle", "starting", "refused"}
    BY <2>1 DEF NodeEffect, Moves, AtStage
  <2>5. /\ \A s \in Held : Queued(s)
        /\ \A r \in Resolvers : phase'[r] = "idle" => decision'[r] = NoVerdict
    BY <1>6, <2>1, <2>4 DEF NodeEffect
  <2>6. mem'[e].next # "analysis" \/ mem'[e] = mem[e]
    BY <2>1 DEF NodeEffect, Moves, Unreviewed, Early
  <2>7. Fresh' => Fresh
    BY <1>7, <2>1, <2>4, <2>6 DEF NodeEffect
  <2>8. \A s \in Held' : s \in Held \/ s = mem'[e]
    BY <1>9, HeldNew
  <2>9. CASE WriteNodes(e)
    <3>1. /\ kgNodes' = kgNodes \cup mem[e].kept /\ mem' = mem
          /\ mem[e].next = "write_knowledge_graph"
      BY <2>9 DEF WriteNodes, AtStage
    <3>2. ~Fresh
      BY <2>3, <3>1 DEF QueueInv, Fresh, Early
    <3>3. ASSUME NEW s \in Held PROVE Still(s)
      <4>1. s \in PipelineState /\ s.flagged \subseteq Items /\ ReviewedState(s)
        BY <1>1 DEF ReviewInv, PipelineState
      <4>2. ASSUME s.next \notin Early, NEW i \in kgNodes' \cap s.flagged
            PROVE  Accepted(i)'
        <5>1. s.flagged = mem[e].flagged
          BY <2>3, <3>1, <4>2 DEF QueueInv, Early
        <5>2. CASE i \in kgNodes
          BY <4>1, <4>2, <5>2, AcceptedStays DEF ReviewInv
        <5>3. CASE i \in mem[e].kept
          BY <2>3, <3>1, <4>1, <5>1, <5>3, AcceptedStays
             DEF ReviewInv, ReviewedState, Unreviewed, Early
        <5>. QED
          BY <3>1, <4>2, <5>2, <5>3
      <4>. QED
        BY <4>1, <4>2, ReviewedStays DEF Still
    <3>4. \A s \in Held' : Still(s) /\ Queued(s)
      BY <2>3, <2>5, <2>8, <3>1, <3>3
    <3>. QED
      BY <1>2, <2>5, <2>7, <3>2, <3>4
  <2>10. CASE ~WriteNodes(e)
    <3>1. kgNodes' = kgNodes
      BY <1>9, <2>10 DEF Node, Analyse, AutoResolveGate, ResumeGate, PassGate,
         InterruptGate, ApplyResolutions, WriteEdges, WriteIndex, WriteEvidence,
         stores
    <3>2. CASE mem'[e] = mem[e]
      BY <1>2, <1>3, <2>3, <2>5, <2>7, <2>8, <3>1, <3>2 DEF ReviewInv
    <3>3. CASE mem'[e] # mem[e]
      <4>1. Moves(e)
        BY <2>1, <3>3 DEF NodeEffect
      <4>2. \A i \in mem'[e].flagged : Accepted(i) => Accepted(i)'
        <5>1. mem'[e].flagged \subseteq Items
          BY <2>3 DEF PipelineState
        <5>. QED
          BY <5>1, AcceptedStays
      <4>4. CASE AtStage(e, "analysis")
        <5>1. mem[e].next = "analysis"
          BY <4>4 DEF AtStage
        <5>2. e \in Launches
          BY <5>1 DEF QueueInv
        <5>3. Fresh /\ ckpt.state.next \in Early
          BY <5>1, <5>2 DEF Fresh, QueueInv, Held
        <5>4. kgNodes' = {}
          BY <3>1, <5>3 DEF ReviewInv
        <5>5. \A r \in Resolvers : phase'[r] \in {"idle", "refused"}
          BY <2>1, <5>2, <5>3 DEF QueueInv, NodeEffect
        <5>6. Still(mem'[e]) /\ Queued(mem'[e])
          BY <2>2, <4>2, <5>4, <5>5 DEF Still, Queued, ReviewedState
        <5>. QED
          BY <1>2, <1>3, <2>5, <2>7, <2>8, <3>1, <5>4, <5>6
      <4>3. CASE ~AtStage(e, "analysis")
        <5>1. mem'[e].flagged = mem[e].flagged /\ mem[e].next \notin Early
          BY <2>4, <4>1, <4>3 DEF Moves, QueueInv, Early
        <5>2. Queued(mem'[e])
          BY <2>3, <2>5, <5>1 DEF Queued
        <5>3. \A i \in kgNodes' \cap mem'[e].flagged : Accepted(i)'
          <6>1. mem[e].flagged \subseteq Items
            BY DEF TypeOK, PipelineState
          <6>. QED
            BY <2>3, <3>1, <5>1, <6>1, AcceptedStays DEF ReviewInv
        <5>5. Still(mem'[e])
          BY <2>2, <4>2, <5>3 DEF Still, ReviewedState
        <5>. QED
          BY <1>2, <1>3, <2>5, <2>7, <2>8, <3>1, <5>2, <5>5 DEF ReviewInv
      <4>. QED
        BY <4>3, <4>4
    <3>. QED
      BY <3>2, <3>3
  <2>. QED
    BY <2>9, <2>10
<1>10. ASSUME Otherwise, UNCHANGED stores, \A s \in Held : Queued(s), Kept
       PROVE  ReviewInv'
  <2>1. \A s \in Held' : s \in Held \/ s = EmptyState
    BY <1>10, HeldKept
  <2>2. kgNodes' = kgNodes
    BY <1>10 DEF stores
  <2>. QED
    BY <1>2, <1>3, <1>4, <1>5, <1>10, <2>1, <2>2 DEF ReviewInv
<1>11. ASSUME NEW r \in Resolvers, ReadQueue(r), UNCHANGED stores PROVE ReviewInv'
  <2>1. \A q \in Resolvers \ {r} :
          phase'[q] = phase[q] /\ decision'[q] = decision[q]
    BY <1>11 DEF ReadQueue, TypeOK
  <2>2. Fresh' = Fresh
    BY <1>11 DEF ReadQueue, TypeOK, Fresh
  <2>3. phase[r] = "idle" /\ phase'[r] \in {"decided", "refused"}
    BY <1>11 DEF ReadQueue, MayStart, TypeOK
  <2>4. ASSUME NEW s \in Held, s.next \notin Early, phase'[r] # "refused",
               NEW i \in s.flagged
        PROVE  decision'[r][i] # "none"
    <3>1. PICK request \in Verdicts :
            decision'[r] = BuildResolutions(ckpt.state.flagged, request)
      BY <1>11, <2>4 DEF ReadQueue, TypeOK
    <3>2. ckpt.state.flagged # {} /\ ckpt.state \in Held
      BY <1>11, <2>4 DEF ReadQueue, TypeOK, Held
    <3>3. ckpt.state.flagged = s.flagged
      BY <2>4, <3>2 DEF QueueInv
    <3>4. ckpt.state.flagged \subseteq Items
      BY DEF TypeOK, PipelineState
    <3>. QED
      BY <2>4, <3>1, <3>3, <3>4 DEF BuildResolutions, AutoResolve
  <2>5. \A s \in Held : Queued(s)
    BY <2>1, <2>4 DEF Queued, ReviewInv
  <2>. QED
    BY <1>10, <1>11, <2>1, <2>2, <2>3, <2>5 DEF Otherwise, ReviewInv
<1>12. ASSUME Otherwise, UNCHANGED <<decision, stores>>,
              \A e \in Executors :
                /\ phase'[e] \in {"idle", "starting"} => phase[e] \in {"idle", "starting"}
                /\ phase'[e] = "idle" => phase[e] = "idle"
                /\ phase'[e] \notin {"idle", "refused"} /\ e \in Resolvers =>
                     phase[e] \notin {"idle", "refused"}
                /\ mem'[e].next = "analysis" /\ e \in Launches =>
                     mem[e].next = "analysis"
       PROVE  ReviewInv'
  BY <1>6, <1>7, <1>10, <1>12
<1>13. ASSUME NEW l \in Launches, StartLaunch(l), UNCHANGED stores PROVE ReviewInv'
  <2>1. /\ phase[l] = "idle" /\ phase' = [phase EXCEPT ![l] = "starting"]
        /\ UNCHANGED <<decision, mem>>
    BY <1>13 DEF StartLaunch, MayStart
  <2>. QED
    BY <1>12, <1>13, <2>1 DEF TypeOK, Otherwise
<1>14. ASSUME NEW e \in Executors, UNCHANGED stores,
              AuditStatus(e) \/ AuditFailure(e) \/ CompileFails(e) \/ Crash(e)
       PROVE  ReviewInv'
  <2>1. Otherwise
    BY <1>14 DEF Otherwise
  <2>2. e \in Resolvers => phase[e] \notin {"idle", "refused"}
    BY <1>14 DEF AuditStatus, AuditFailure, CompileFails, Crash, Active, Working
  <2>. QED
    BY <1>12, <1>14, <2>1, <2>2, LeaveShape DEF EmptyState
<1>15. ASSUME NEW e \in Executors, UNCHANGED stores,
              \/ Resume(e) \/ ReturnPause(e) \/ ReturnState(e)
              \/ AuditResolutions(e) \/ Raise(e)
       PROVE  ReviewInv'
  <2>1. Otherwise
    BY <1>15 DEF Otherwise
  <2>2. /\ phase[e] \in Working \ {"idle", "refused"} /\ UNCHANGED decision
        /\ \A f \in Executors \ {e} : phase'[f] = phase[f] /\ mem'[f] = mem[f]
        /\ phase'[e] \in {"running", "raised", "audit_resolutions", "audit_status"}
        /\ e \in Resolvers \/ mem'[e] = mem[e]
    BY <1>15 DEF Resume, ReturnPause, ReturnState, AuditResolutions, Raise,
       AtStage, TypeOK, Working
  <2>. QED
    BY <1>12, <1>15, <2>1, <2>2
<1>16. ASSUME Otherwise, UNCHANGED <<phase, mem, decision, stores>> PROVE ReviewInv'
  BY <1>12, <1>16
<1>17. (\E e \in Executors : Node(e)) \/ UNCHANGED stores
  BY StoresGrow
<1>18. ASSUME Otherwise, UNCHANGED stores PROVE ReviewInv'
  <2>1. CASE \E i \in DOMAIN inflight : StoreCheckpoint(i) \/ LoseCheckpoint(i)
    BY <1>16, <1>18, <2>1 DEF StoreCheckpoint, LoseCheckpoint
  <2>2. CASE UNCHANGED vars
    BY <1>16, <1>18, <2>2 DEF vars
  <2>. QED
    BY <1>11, <1>13, <1>14, <1>15, <1>18, <2>1, <2>2 DEF Otherwise
<1>. QED
  BY <1>8, <1>9, <1>17, <1>18, Steps

\* With one launch and review switched on in every process, a flagged finding
\* reaches the knowledge graph only if a reviewer's resolutions accepted it:
\* for any number of overlapping resolvers, whatever fails or crashes.
THEOREM NothingUnreviewed ==
  SingleLaunch /\ ReviewEverywhere => (Spec => []ReviewBeforeGraph)
<1>. SUFFICES ASSUME SingleLaunch, ReviewEverywhere
              PROVE  Spec => []ReviewBeforeGraph
  OBVIOUS
<1>1. Init => ReviewInv
  <2>1. Init => Held = {EmptyState}
    BY DEF Init, Held, Executors
  <2>. QED
    BY <2>1 DEF Init, ReviewInv, ReviewedState, EmptyState, Unreviewed, Early,
       Executors
<1>2. TypeOK /\ QueueInv /\ ReviewInv /\ [Next]_vars => ReviewInv'
  BY ReviewStep
<1>3. QueueInv /\ ReviewInv => ReviewBeforeGraph
  BY DEF ReviewInv, QueueInv, ReviewBeforeGraph, Held, Accepted
<1>. QED
  BY <1>1, <1>2, <1>3, TypeCorrect, PauseInvariant, PTL DEF Spec


-----------------------------------------------------------------------------
(***************************************************************************)
(* What PipelineRun promises of a run that one launch and any number of    *)
(* resolvers execute one process at a time: that it implements ReviewedRun *)
(* and that its audit trail and its audit row tell what happened.  All of  *)
(* it survives failed nodes, lost checkpoint writes and crashes; nothing   *)
(* here is claimed of processes that overlap.                              *)
(***************************************************************************)
OneAtATime == MaxActive = 1

-----------------------------------------------------------------------------
(***************************************************************************)
(* The invariant: at most one process works; its copy of the state, the    *)
(* checkpoints on their way and the stored one are one line of descent,    *)
(* each further on than the one before; and unless a checkpoint is lost,   *)
(* that line tells what is in the graph.                                   *)
(***************************************************************************)
Answers(flagged, v) == \A i \in Items : i \in flagged <=> v[i] # "none"
NotRejected(v) == {i \in Items : v[i] # "reject"}

Rank(stage) ==
  CASE stage = "START" -> 0
    [] stage = "analysis" -> 1
    [] stage = "hitl_gate" -> 2
    [] stage = "apply_hitl_resolutions" -> 3
    [] stage = "write_knowledge_graph" -> 4
    [] stage = "write_vector_index" -> 5
    [] stage = "write_evidence_store" -> 6
    [] stage = "END" -> 7

\* The positions from which nothing is taken out of the findings any more.
Settled == Written \cup {"write_knowledge_graph"}

\* What a pipeline state holds at each of its positions.
PlausibleState(s) ==
  /\ s.next \in Early => s.flagged = {} /\ s.verdict = NoVerdict
  /\ s.next = "hitl_gate" =>
       s.flagged # {} /\ s.verdict = NoVerdict /\ s.kept = Items
  /\ s.next = "apply_hitl_resolutions" =>
       Answers(s.flagged, s.verdict) /\ s.kept = Items
  /\ s.next \in Settled =>
       Answers(s.flagged, s.verdict) /\ s.kept = NotRejected(s.verdict)

\* t is what later nodes make of s.
After(s, t) ==
  /\ Rank(s.next) < Rank(t.next)
  /\ s.next \notin Early => t.flagged = s.flagged
  /\ s.next \notin Unreviewed => t.verdict = s.verdict

\* The stored checkpoint and those on their way.
Chain == {ckpt.state} \cup {inflight[i].state : i \in DOMAIN inflight}

Underway == {"running", "edges", "pausing", "returning", "raised"}
Auditing == {"audit_resolutions", "audit_status"}

Descent ==
  /\ \A i \in DOMAIN inflight :
       /\ After(ckpt.state, inflight[i].state)
       /\ \A j \in DOMAIN inflight :
            i < j => After(inflight[i].state, inflight[j].state)
  /\ \A e \in Executors : mem[e].next # "START" =>
       /\ e \in Active
       /\ \A s \in Chain : s = mem[e] \/ After(s, mem[e])
       /\ e \notin lost => mem[e] \in Chain

Holds(e) ==
  /\ phase[e] = "starting" => e \in Launches
  /\ phase[e] = "decided" => e \in Resolvers
  /\ phase[e] = "pausing" => mem[e].next = "hitl_gate"
  /\ phase[e] = "returning" => mem[e].next = "END"
  /\ phase[e] \in Auditing =>
       \/ mem[e].next = "hitl_gate"
       \/ mem[e].next = "END" /\ mem[e] = ckpt.state

GraphTold ==
  lost = {} /\ kgNodes # {} =>
    \E s \in Chain : s.next \in Settled /\ kgNodes = NotRejected(s.verdict)

SerialInv ==
  /\ \A e, f \in Active : e = f
  /\ \A i \in DOMAIN inflight : phase[inflight[i].writer] \in Underway
  /\ ckpt.writer = {} <=> ckpt.state.next = "START"
  /\ \A s \in Held : PlausibleState(s)
  /\ Descent /\ GraphTold
  /\ \A e \in Executors : Holds(e)
  /\ \A r \in Resolvers : phase[r] \notin {"idle", "refused"} =>
       Answers(ckpt.state.flagged, decision[r])

\* The resolutions a resolver builds answer its queue and nothing else, by
\* the policy alone or by a reviewer and the policy.
LEMMA ResolutionsAnswer ==
  ASSUME NEW flagged \in SUBSET Items
  PROVE  /\ Answers(flagged, AutoResolve(flagged))
         /\ \A request \in Verdicts :
              Answers(flagged, BuildResolutions(flagged, request))
  BY DEF Answers, AutoResolve, BuildResolutions, Verdicts

\* Applying resolutions that answer the queue keeps what is not rejected.
LEMMA AppliedKeepsTheRest ==
  ASSUME NEW s \in PipelineState, Answers(s.flagged, s.verdict),
         s.kept = Items
  PROVE  s.kept \ Dropped(s) = NotRejected(s.verdict)
  BY DEF Answers, Dropped, NotRejected, PipelineState

\* Descent is transitive, and never returns.
LEMMA AfterOrders ==
  ASSUME NEW s \in PipelineState, NEW t \in PipelineState, After(s, t)
  PROVE  /\ s.next # "END" /\ t.next # "START" /\ s # t /\ ~After(t, s)
         /\ s.next \notin Early => t.next \notin Unreviewed
         /\ s.next \in Settled => t.next \in Written
         /\ \A u \in PipelineState : After(t, u) => After(s, u)
<1>1. s.next \in Stages /\ t.next \in Stages
  BY DEF PipelineState
<1>2. \A n \in Stages : Rank(n) \in 0..7
  BY DEF Stages, Rank
<1>3. /\ s.next # "END" /\ t.next # "START"
      /\ s.next \notin Early => t.next \notin Unreviewed
      /\ s.next \in Settled => t.next \in Written
  BY <1>1 DEF After, Rank, Stages, Early, Unreviewed, Settled, Written
<1>4. s # t /\ ~After(t, s)
  BY <1>1, <1>2 DEF After
<1>5. ASSUME NEW u \in PipelineState, After(t, u)
      PROVE  After(s, u)
  <2>1. u.next \in Stages
    BY DEF PipelineState
  <2>2. Rank(s.next) < Rank(u.next)
    BY <1>1, <1>2, <1>5, <2>1 DEF After
  <2>3. /\ s.next \notin Early => t.next \notin Early
        /\ s.next \notin Unreviewed => t.next \notin Unreviewed
    BY <1>3 DEF Unreviewed
  <2>. QED
    BY <1>5, <2>2, <2>3 DEF After
<1>. QED
  BY <1>3, <1>4, <1>5

\* A process starts only when no other is at work.
LEMMA StartsAlone ==
  ASSUME OneAtATime, SerialInv, NEW e \in Executors, MayStart(e)
  PROVE  Active = {} /\ phase[e] = "idle"
<1>1. CASE Active = {}
  BY <1>1 DEF MayStart
<1>2. CASE Active # {}
  <2>1. PICK f \in Executors : Active = {f}
    BY <1>2 DEF SerialInv, Active
  <2>2. Cardinality(Active) = 1
    BY <2>1, FS_Singleton
  <2>. QED
    BY <2>2 DEF MayStart, OneAtATime
<1>. QED
  BY <1>1, <1>2

\* What a node does to the run: it is over and its result submitted, or it has
\* committed the nodes transaction, or it is the gate and interrupts.
NodeOutcome(e) ==
  \/ /\ Moves(e) /\ kgNodes' = kgNodes
     /\ PlausibleState(mem'[e]) /\ After(mem[e], mem'[e])
  \/ /\ phase[e] = "running" /\ phase'[e] = "edges"
     /\ mem' = mem /\ inflight' = inflight
     /\ mem[e].next = "write_knowledge_graph"
     /\ kgNodes' = kgNodes \cup NotRejected(mem[e].verdict)
  \/ /\ phase[e] = "running" /\ phase'[e] = "pausing"
     /\ mem' = mem /\ inflight' = inflight /\ kgNodes' = kgNodes
     /\ mem[e].next = "hitl_gate" /\ ~resumed[e]

\* What a node does when its process is alone.
LEMMA NodeSerial ==
  ASSUME TypeOK, QueueInv, SerialInv, NEW e \in Executors, Node(e)
  PROVE  NodeOutcome(e)
<1> USE DEF Enter, AtStage
<1>1. NodeEffect(e)
  BY NodeShape
<1>2. mem[e] \in PipelineState /\ PlausibleState(mem[e])
  BY DEF TypeOK, SerialInv, Held
<1> DEFINE s == mem[e]
<1>3. ASSUME NEW t \in PipelineState, Finish(e, t), UNCHANGED kgNodes,
             PlausibleState(t), After(s, t)
      PROVE  NodeOutcome(e)
  <2>1. mem'[e] = t /\ inflight' # inflight
    <3>1. inflight \in Seq(Entry)
      BY DEF TypeOK, Entry
    <3>2. DOMAIN inflight' # DOMAIN inflight
      BY <1>3, <3>1, SubmitAppends DEF Finish
    <3>. QED
      BY <1>3, <3>2 DEF Finish, Submit, Hold, TypeOK
  <2>2. Moves(e)
    BY <1>1, <2>1 DEF NodeEffect
  <2>. QED
    BY <1>3, <2>1, <2>2 DEF NodeOutcome
<1> USE DEF Early, Settled, Written, Unreviewed
<1>4. CASE Analyse(e)
  <2> DEFINE flag(low) == [mem[e] EXCEPT !.flagged = low, !.kept = Items,
                             !.next = IF low = {} THEN "apply_hitl_resolutions"
                                      ELSE "hitl_gate"]
  <2>1. PICK low \in SUBSET Items : Finish(e, flag(low))
    BY <1>4 DEF Analyse
  <2>2. s.next = "analysis" /\ UNCHANGED kgNodes
    BY <1>4 DEF Analyse, stores
  <2> DEFINE t == flag(low)
  <2>3. /\ t \in PipelineState /\ t.flagged = low /\ t.kept = Items
        /\ t.verdict = s.verdict
        /\ t.next = IF low = {} THEN "apply_hitl_resolutions" ELSE "hitl_gate"
    BY <1>2 DEF PipelineState, Stages
  <2>4. s.verdict = NoVerdict /\ Answers({}, NoVerdict)
    BY <1>2, <2>2 DEF PlausibleState, Answers, NoVerdict
  <2> HIDE DEF flag, t
  <2>5. PlausibleState(t)
    BY <2>2, <2>3, <2>4 DEF PlausibleState
  <2>6. After(s, t)
    BY <2>2, <2>3 DEF After, Rank
  <2>7. Finish(e, t)
    BY <2>1 DEF t
  <2>. QED
    BY <1>3, <2>2, <2>3, <2>5, <2>6, <2>7
<1>5. ASSUME NEW v \in Verdicts, AtStage(e, "hitl_gate"), PassGate(e, v),
             Answers(s.flagged, v)
      PROVE  NodeOutcome(e)
  <2> DEFINE t == [mem[e] EXCEPT !.verdict = v,
                     !.next = "apply_hitl_resolutions"]
  <2>1. s.next = "hitl_gate" /\ UNCHANGED kgNodes /\ Finish(e, t)
    BY <1>5 DEF PassGate, stores
  <2>2. /\ t \in PipelineState /\ t.flagged = s.flagged /\ t.kept = s.kept
        /\ t.verdict = v /\ t.next = "apply_hitl_resolutions"
    BY <1>2 DEF PipelineState, Stages
  <2> HIDE DEF t
  <2>3. PlausibleState(t)
    BY <1>2, <1>5, <2>1, <2>2 DEF PlausibleState
  <2>4. After(s, t)
    BY <2>1, <2>2 DEF After, Rank
  <2>. QED
    BY <1>3, <2>1, <2>2, <2>3, <2>4
<1>6. CASE AutoResolveGate(e)
  <2>1. s.flagged \in SUBSET Items
    BY <1>2 DEF PipelineState
  <2>2. AutoResolve(s.flagged) \in Verdicts
    BY <2>1, VerdictTypes
  <2>. QED
    BY <1>5, <1>6, <2>1, <2>2, ResolutionsAnswer DEF AutoResolveGate
<1>7. CASE ResumeGate(e)
  <2>1. e \in Resolvers /\ phase[e] = "running" /\ s.next = "hitl_gate"
    BY <1>7 DEF ResumeGate
  <2>2. decision[e] \in Verdicts /\ Answers(ckpt.state.flagged, decision[e])
    BY <2>1 DEF TypeOK, SerialInv
  <2>3. ckpt.state.next \notin Early
    BY <2>1 DEF QueueInv
  <2>4. s.flagged = ckpt.state.flagged
    BY <2>1, <2>3 DEF QueueInv, Held
  <2>. QED
    BY <1>5, <1>7, <2>2, <2>4 DEF ResumeGate
<1>8. CASE InterruptGate(e)
  BY <1>8 DEF InterruptGate, NodeOutcome, TypeOK, stores, saver
<1>9. CASE ApplyResolutions(e)
  <2> DEFINE t == [mem[e] EXCEPT !.kept = @ \ Dropped(mem[e]),
                     !.next = "write_knowledge_graph"]
  <2>1. s.next = "apply_hitl_resolutions" /\ UNCHANGED kgNodes /\ Finish(e, t)
    BY <1>9 DEF ApplyResolutions, stores
  <2>2. /\ t \in PipelineState /\ t.flagged = s.flagged
        /\ t.verdict = s.verdict /\ t.kept = s.kept \ Dropped(s)
        /\ t.next = "write_knowledge_graph"
    BY <1>2 DEF PipelineState, Stages
  <2>3. t.kept = NotRejected(s.verdict) /\ Answers(s.flagged, s.verdict)
    BY <1>2, <2>1, <2>2, AppliedKeepsTheRest DEF PlausibleState
  <2> HIDE DEF t
  <2>4. PlausibleState(t)
    BY <2>2, <2>3 DEF PlausibleState
  <2>5. After(s, t)
    BY <2>1, <2>2 DEF After, Rank
  <2>. QED
    BY <1>3, <2>1, <2>2, <2>4, <2>5
<1>10. CASE WriteNodes(e)
  <2>1. /\ s.next = "write_knowledge_graph" /\ kgNodes' = kgNodes \cup s.kept
        /\ UNCHANGED <<mem, inflight>> /\ phase[e] = "running"
    BY <1>10 DEF WriteNodes, saver
  <2>2. s.kept = NotRejected(s.verdict) /\ phase'[e] = "edges"
    BY <1>2, <1>10, <2>1 DEF PlausibleState, WriteNodes, TypeOK
  <2>. QED
    BY <2>1, <2>2 DEF NodeOutcome
<1>11. ASSUME NEW n \in Written, s.next \in Settled, Rank(s.next) < Rank(n),
              Finish(e, [mem[e] EXCEPT !.next = n]), UNCHANGED kgNodes
       PROVE  NodeOutcome(e)
  <2> DEFINE t == [mem[e] EXCEPT !.next = n]
  <2>1. /\ t \in PipelineState /\ t.flagged = s.flagged /\ t.kept = s.kept
        /\ t.verdict = s.verdict /\ t.next = n
    BY <1>2 DEF PipelineState, Stages
  <2>2. Finish(e, t)
    BY <1>11
  <2> HIDE DEF t
  <2>3. PlausibleState(t) /\ After(s, t)
    BY <1>2, <1>11, <2>1 DEF PlausibleState, After
  <2>. QED
    BY <1>3, <1>11, <2>1, <2>2, <2>3
<1>12. CASE WriteEdges(e)
  <2>1. s.next = "write_knowledge_graph"
    BY <1>12 DEF WriteEdges, QueueInv
  <2>. QED
    BY <1>11, <1>12, <2>1 DEF WriteEdges, Rank
<1>13. CASE WriteIndex(e)
  BY <1>11, <1>13 DEF WriteIndex, Rank
<1>14. CASE WriteEvidence(e)
  BY <1>11, <1>14 DEF WriteEvidence, Rank
<1>. QED
  BY <1>4, <1>6, <1>7, <1>8, <1>9, <1>10, <1>12, <1>13, <1>14 DEF Node

\* Every state of the line is one that is held.
LEMMA ChainTypes ==
  ASSUME TypeOK
  PROVE  Chain \subseteq Held /\ Chain \subseteq PipelineState
  BY HeldTypes DEF Chain, Held

\* Writes that end leave a line of descent: those stored and lost are gone.
LEMMA ChainOver ==
  ASSUME TypeOK, Descent, NEW at, Over(at)
  PROVE  /\ Chain' \subseteq Chain
         /\ \A k \in DOMAIN inflight' :
              /\ \E i \in DOMAIN inflight : inflight'[k] = inflight[i]
              /\ After(ckpt.state, inflight[k].state)'
              /\ \A l \in DOMAIN inflight' :
                   k < l => After(inflight[k].state, inflight[l].state)'
<1>1. inflight \in Seq(Entry)
  BY DEF TypeOK, Entry
<1>2. PICK p : Remains(at, p)
  BY <1>1, OverSettles, SettleKeeps
<1>3. \A k \in DOMAIN inflight' :
        /\ p[k] \in DOMAIN inflight \ at /\ inflight'[k] = inflight[p[k]]
        /\ \A l \in DOMAIN inflight' : k < l => p[k] < p[l]
  BY <1>2 DEF Remains
<1>4. /\ ckpt'.state \in Chain
      /\ \A k \in DOMAIN inflight' : After(ckpt'.state, inflight[p[k]].state)
  <2>1. ASSUME NEW i \in DOMAIN inflight, StoreCheckpoint(i), at = 1..i
        PROVE  /\ ckpt'.state \in Chain
               /\ \A k \in DOMAIN inflight' :
                    After(ckpt'.state, inflight[p[k]].state)
    <3>1. ckpt'.state = inflight[i].state
      BY <2>1 DEF StoreCheckpoint
    <3>2. \A k \in DOMAIN inflight' : p[k] \in DOMAIN inflight /\ i < p[k]
      BY <1>1, <1>3, <2>1
    <3>. QED
      BY <3>1, <3>2 DEF Descent, Chain
  <2>2. CASE ckpt' = ckpt
    BY <1>3, <2>2 DEF Descent, Chain
  <2>. QED
    BY <2>1, <2>2 DEF Over, LoseCheckpoint, Crash
<1>5. \A k \in DOMAIN inflight' :
        /\ After(ckpt'.state, inflight'[k].state)
        /\ \A l \in DOMAIN inflight' :
             k < l => After(inflight'[k].state, inflight'[l].state)
  BY <1>3, <1>4 DEF Descent
<1>6. Chain' \subseteq Chain
  BY <1>3, <1>4 DEF Chain
<1>. QED
  BY <1>3, <1>5, <1>6 DEF After

\* Only the process at work has checkpoints on their way.
LEMMA OnlyItsOwn ==
  ASSUME TypeOK, SerialInv, NEW e \in Executors,
         e \in Active \/ Active = {},
         ~InFlight(e) \/ phase[e] \notin Underway
  PROVE  DOMAIN inflight = {} /\ Chain = {ckpt.state}
<1>1. ASSUME NEW i \in DOMAIN inflight PROVE FALSE
  <2>1. inflight[i].writer \in Executors
    BY EntryFields DEF TypeOK, Entry
  <2>2. inflight[i].writer \in Active
    BY <2>1 DEF SerialInv, Active, Working, Underway
  <2>3. inflight[i].writer = e
    BY <2>2 DEF SerialInv
  <2>. QED
    BY <2>3 DEF SerialInv, InFlight
<1>. QED
  BY <1>1 DEF Chain

\* What the graph tells when a step leaves the line and the graph alone.
LEMMA GraphStays ==
  ASSUME SerialInv, Chain' = Chain, kgNodes' = kgNodes, lost \subseteq lost'
  PROVE  GraphTold'
  BY DEF SerialInv, GraphTold

\* What is left to show of a step that leaves the line alone.
LEMMA QuietStep ==
  ASSUME TypeOK, SerialInv, NEW e \in Executors,
         inflight' = inflight, lost \subseteq lost',
         ckpt'.state = ckpt.state, ckpt'.writer = ckpt.writer,
         \A f \in Executors \ {e} : mem'[f] = mem[f] /\ phase'[f] = phase[f],
         e \in Active \/ Active = {},
         InFlight(e) => phase'[e] \in Underway,
         mem'[e].next # "START" =>
           /\ mem'[e] = mem[e] \/ (mem'[e] = ckpt.state /\ ~InFlight(e))
           /\ phase'[e] \in Working,
         mem'[e] \in {mem[e], ckpt.state, EmptyState},
         Holds(e)', GraphTold',
         \A r \in Resolvers \ {e} : decision'[r] = decision[r],
         e \in Resolvers /\ phase'[e] \notin {"idle", "refused"} =>
           Answers(ckpt.state.flagged, decision'[e])
  PROVE  SerialInv'
<1>1. \A f \in Executors \ {e} : f \notin Active /\ f \notin Active'
  BY DEF SerialInv, Active
<1>2. \A f, g \in Active' : f = g
  BY <1>1 DEF Active
<1>3. Chain' = Chain
  BY DEF Chain
<1>4. \A i \in DOMAIN inflight' : phase'[inflight'[i].writer] \in Underway
  <2>1. \A i \in DOMAIN inflight : inflight[i].writer \in Executors
    BY EntryFields DEF TypeOK, Entry
  <2>. QED
    BY <2>1 DEF SerialInv, InFlight
<1>5. PlausibleState(EmptyState)
  BY DEF PlausibleState, EmptyState, Early, Settled, Written
<1>6. \A s \in Held' : PlausibleState(s)
  <2>1. \A s \in Held' : s \in Held \/ s = EmptyState
    BY DEF Held
  <2>. QED
    BY <1>5, <2>1 DEF SerialInv
<1>7. Descent'
  <2>1. \A f \in Executors \ {e} : mem'[f].next = "START"
    BY <1>1 DEF SerialInv, Descent
  <2>2. ASSUME mem'[e].next # "START"
        PROVE  /\ e \in Active'
               /\ \A s \in Chain : s = mem'[e] \/ After(s, mem'[e])
               /\ e \notin lost' => mem'[e] \in Chain
    <3>1. CASE mem'[e] = mem[e]
      BY <2>2, <3>1 DEF SerialInv, Descent, Active
    <3>2. CASE mem'[e] = ckpt.state /\ ~InFlight(e)
      BY <2>2, <3>2, OnlyItsOwn DEF Active
    <3>. QED
      BY <2>2, <3>1, <3>2
  <2>3. \A i \in DOMAIN inflight' :
          /\ After(ckpt'.state, inflight'[i].state)
          /\ \A j \in DOMAIN inflight' :
               i < j => After(inflight'[i].state, inflight'[j].state)
    BY DEF SerialInv, Descent
  <2>4. \A f \in Executors : mem'[f].next # "START" =>
          /\ f \in Active'
          /\ \A s \in Chain' : s = mem'[f] \/ After(s, mem'[f])
          /\ f \notin lost' => mem'[f] \in Chain'
    BY <1>3, <2>1, <2>2
  <2>. QED
    BY <2>3, <2>4 DEF Descent, After
<1>8. \A f \in Executors : Holds(f)'
  BY DEF SerialInv, Holds
<1>9. \A r \in Resolvers : phase'[r] \notin {"idle", "refused"} =>
        Answers(ckpt'.state.flagged, decision'[r])
  BY DEF SerialInv, Executors
<1>. QED
  BY <1>2, <1>4, <1>6, <1>7, <1>8, <1>9 DEF SerialInv, PlausibleState, Answers

\* What is left to show of a step that submits a checkpoint.
LEMMA SubmitStep ==
  ASSUME TypeOK, SerialInv, NEW e \in Executors, NEW t \in PipelineState,
         Submit(e, t), kgNodes' = kgNodes, decision' = decision,
         e \in Active, phase'[e] \in Underway,
         phase'[e] = "returning" => t.next = "END",
         phase'[e] # "pausing",
         \A f \in Executors \ {e} : phase'[f] = phase[f],
         PlausibleState(t), \A s \in Chain : After(s, t)
  PROVE  SerialInv'
<1>1. inflight \in Seq(Entry)
  BY DEF TypeOK, Entry
<1>2. /\ mem'[e] = t /\ ckpt' = ckpt /\ lost' = lost
      /\ \A f \in Executors \ {e} : mem'[f] = mem[f]
      /\ \A s \in Held' : s \in Held \/ s = t
  BY HeldSubmit
<1>3. /\ DOMAIN inflight' = DOMAIN inflight \cup {Len(inflight) + 1}
      /\ \A k \in DOMAIN inflight : inflight'[k] = inflight[k]
      /\ inflight'[Len(inflight) + 1].state = t
      /\ inflight'[Len(inflight) + 1].writer = e
  BY <1>1, SubmitAppends
<1>13. /\ \A k \in DOMAIN inflight : ~(Len(inflight) + 1 < k)
       /\ ~(Len(inflight) + 1 < Len(inflight) + 1)
  BY <1>1
<1>4. Chain' = Chain \cup {t}
  BY <1>2, <1>3 DEF Chain
<1>5. \A f \in Executors \ {e} : f \notin Active /\ f \notin Active'
  BY DEF SerialInv, Active
<1>6. e \in Active' /\ \A f, g \in Active' : f = g
  BY <1>5 DEF Active, Underway, Working
<1>7. \A i \in DOMAIN inflight' : phase'[inflight'[i].writer] \in Underway
  <2>1. \A i \in DOMAIN inflight : inflight[i].writer \in Executors
    BY EntryFields DEF TypeOK, Entry
  <2>. QED
    BY <1>3, <2>1 DEF SerialInv
<1>8. \A s \in Held' : PlausibleState(s)
  BY <1>2 DEF SerialInv
<1>9. Descent'
  <2>1. \A f \in Executors \ {e} : mem'[f].next = "START"
    BY <1>2, <1>5 DEF SerialInv, Descent
  <2>2. \A f \in Executors : mem'[f].next # "START" =>
          /\ f \in Active'
          /\ \A s \in Chain' : s = mem'[f] \/ After(s, mem'[f])
          /\ f \notin lost' => mem'[f] \in Chain'
    BY <1>2, <1>4, <1>6, <2>1
  <2>3. \A i \in DOMAIN inflight : inflight[i].state \in Chain
    BY DEF Chain
  <2>4. ckpt.state \in Chain
    BY DEF Chain
  <2>5. \A i \in DOMAIN inflight' :
          /\ After(ckpt.state, inflight'[i].state)
          /\ \A j \in DOMAIN inflight' :
               i < j => After(inflight'[i].state, inflight'[j].state)
    <3>1. ASSUME NEW i \in DOMAIN inflight'
          PROVE  After(ckpt.state, inflight'[i].state)
      BY <1>3, <2>4 DEF SerialInv, Descent
    <3>2. ASSUME NEW i \in DOMAIN inflight', NEW j \in DOMAIN inflight', i < j
          PROVE  After(inflight'[i].state, inflight'[j].state)
      <4>1. i \in DOMAIN inflight
        BY <1>3, <1>13, <3>2
      <4>2. CASE j \in DOMAIN inflight
        BY <1>3, <3>2, <4>1, <4>2 DEF SerialInv, Descent
      <4>3. CASE j = Len(inflight) + 1
        BY <1>3, <2>3, <4>1, <4>3
      <4>. QED
        BY <1>3, <4>2, <4>3
    <3>. QED
      BY <3>1, <3>2
  <2>. QED
    BY <1>2, <2>2, <2>5 DEF Descent, After
<1>10. GraphTold'
  BY <1>2, <1>4 DEF SerialInv, GraphTold
<1>11. \A f \in Executors : Holds(f)'
  <2>1. Holds(e)'
    BY <1>2 DEF Holds, Underway, Auditing
  <2>. QED
    BY <1>2, <2>1 DEF SerialInv, Holds
<1>12. \A r \in Resolvers : phase'[r] \notin {"idle", "refused"} =>
         Answers(ckpt'.state.flagged, decision'[r])
  BY <1>2 DEF SerialInv, Executors, Active, Working
<1>. QED
  BY <1>2, <1>6, <1>7, <1>8, <1>9, <1>10, <1>11, <1>12
     DEF SerialInv, PlausibleState, Answers

\* A background write that ends, or is lost.
LEMMA OverStep ==
  ASSUME TypeOK, QueueInv, SerialInv, NEW i \in DOMAIN inflight,
         StoreCheckpoint(i) \/ LoseCheckpoint(i)
  PROVE  SerialInv'
<1>1. inflight \in Seq(Entry)
  BY DEF TypeOK, Entry
<1>2. PICK at : /\ Over(at)
                /\ StoreCheckpoint(i) => at = 1..i
                /\ LoseCheckpoint(i) /\ ~StoreCheckpoint(i) => at = {i}
  BY DEF Over
<1>3. /\ Chain' \subseteq Chain
      /\ \A k \in DOMAIN inflight' :
           /\ \E j \in DOMAIN inflight : inflight'[k] = inflight[j]
           /\ After(ckpt.state, inflight[k].state)'
           /\ \A l \in DOMAIN inflight' :
                k < l => After(inflight[k].state, inflight[l].state)'
  BY <1>2, ChainOver DEF SerialInv
<1>4. /\ UNCHANGED <<phase, mem, decision, kgNodes>> /\ lost \subseteq lost'
      /\ Active' = Active
  BY DEF StoreCheckpoint, LoseCheckpoint, stores, Active
<1>5. \A k \in DOMAIN inflight' : phase'[inflight'[k].writer] \in Underway
  BY <1>3, <1>4 DEF SerialInv
<1>6. \A s \in Held' : PlausibleState(s)
  <2>1. \A s \in Held' : s \in Held \/ s \in Chain'
    BY <1>4 DEF Held, Chain
  <2>2. Chain \subseteq Held
    BY ChainTypes
  <2>. QED
    BY <1>3, <2>1, <2>2 DEF SerialInv
<1>7. inflight[i].state \in Chain /\ inflight[i].state \in PipelineState
      /\ ckpt.state \in Chain /\ ckpt.state \in PipelineState
      /\ After(ckpt.state, inflight[i].state)
  BY ChainTypes DEF Chain, SerialInv, Descent
<1>8. inflight[i].writer \in Active
  BY <1>1, EntryFields DEF SerialInv, Underway, Active, Working
\* A store keeps all of the line that is not behind it.
<1>9. ASSUME StoreCheckpoint(i)
      PROVE  /\ ckpt'.state = inflight[i].state
             /\ ckpt'.writer # {}
             /\ \A s \in Chain : s \in Chain' \/ After(s, ckpt'.state)
  <2>1. ckpt'.state = inflight[i].state /\ ckpt'.writer # {}
    BY <1>9 DEF StoreCheckpoint
  <2>2. PICK p : Remains(1..i, p)
    BY <1>1, <1>9, OverSettles, SettleKeeps DEF Over
  <2>3. ASSUME NEW j \in DOMAIN inflight
        PROVE  inflight[j].state \in Chain' \/ After(inflight[j].state, ckpt'.state)
    <3>1. i \in Nat /\ j \in Nat /\ j >= 1
      BY <1>1
    <3>2. CASE j < i
      BY <2>1, <3>2 DEF SerialInv, Descent
    <3>3. CASE j = i
      BY <2>1, <3>3 DEF Chain
    <3>4. CASE i < j
      <4>1. j \in DOMAIN inflight \ (1..i)
        BY <3>1, <3>4
      <4>2. PICK k \in DOMAIN inflight' : inflight'[k] = inflight[j]
        BY <2>2, <4>1 DEF Remains
      <4>. QED
        BY <4>2 DEF Chain
    <3>. QED
      BY <3>1, <3>2, <3>3, <3>4
  <2>. QED
    BY <1>7, <2>1, <2>3 DEF Chain
<1>10. Descent'
  <2>1. ASSUME NEW f \in Executors, mem[f].next # "START", f \notin lost'
        PROVE  mem[f] \in Chain'
    <3>1. f \in Active /\ mem[f] \in Chain /\ f = inflight[i].writer
      BY <1>4, <1>8, <2>1 DEF SerialInv, Descent
    <3>2. StoreCheckpoint(i)
      BY <2>1, <3>1 DEF LoseCheckpoint
    <3>3. ~After(mem[f], inflight[i].state)
      <4>1. mem[f] \in PipelineState
        BY DEF TypeOK
      <4>2. inflight[i].state = mem[f] \/ After(inflight[i].state, mem[f])
        BY <1>7, <2>1 DEF SerialInv, Descent
      <4>. QED
        BY <1>7, <4>1, <4>2, AfterOrders
    <3>. QED
      BY <1>9, <3>1, <3>2, <3>3
  <2>2. \A f \in Executors : mem'[f].next # "START" =>
          /\ f \in Active'
          /\ \A s \in Chain' : s = mem'[f] \/ After(s, mem'[f])
          /\ f \notin lost' => mem'[f] \in Chain'
    BY <1>3, <1>4, <2>1 DEF SerialInv, Descent
  <2>. QED
    BY <1>3, <2>2 DEF Descent, After
<1>11. GraphTold'
  <2>1. SUFFICES ASSUME lost' = {}, kgNodes # {}
                 PROVE  \E s \in Chain' :
                          s.next \in Settled /\ kgNodes = NotRejected(s.verdict)
    BY <1>4 DEF GraphTold, NotRejected
  <2>2. StoreCheckpoint(i) /\ lost = {}
    BY <1>4, <2>1 DEF LoseCheckpoint
  <2>3. PICK s \in Chain : s.next \in Settled /\ kgNodes = NotRejected(s.verdict)
    BY <2>1, <2>2 DEF SerialInv, GraphTold
  <2>4. CASE s \in Chain'
    BY <2>3, <2>4
  <2>5. CASE After(s, ckpt'.state)
    <3>1. s \in PipelineState /\ ckpt'.state \in PipelineState
      BY <1>7, <1>9, <2>2, ChainTypes
    <3>2. ckpt'.state.next \in Settled
      BY <2>3, <2>5, <3>1, AfterOrders DEF Settled
    <3>3. ckpt'.state.verdict = s.verdict
      BY <2>3, <2>5 DEF After, Settled, Written, Unreviewed, Early
    <3>. QED
      BY <2>3, <3>2, <3>3 DEF Chain
  <2>. QED
    BY <1>9, <2>2, <2>4, <2>5
<1>12. \A f \in Executors : Holds(f)'
  <2>1. ASSUME NEW f \in Executors, phase[f] \in Auditing PROVE FALSE
    <3>1. f \in Active
      BY <2>1 DEF Active, Working, Auditing
    <3>2. f = inflight[i].writer
      BY <1>8, <3>1 DEF SerialInv
    <3>. QED
      BY <2>1, <3>2 DEF SerialInv, Auditing, Underway
  <2>. QED
    BY <1>4, <2>1 DEF SerialInv, Holds
<1>13. \A r \in Resolvers : phase'[r] \notin {"idle", "refused"} =>
         Answers(ckpt'.state.flagged, decision'[r])
  <2>1. ASSUME NEW r \in Resolvers, phase[r] \notin {"idle", "refused"}
        PROVE  Answers(ckpt'.state.flagged, decision[r])
    <3>1. ckpt.state.next \notin Early
      BY <2>1 DEF QueueInv
    <3>2. ckpt'.state.flagged = ckpt.state.flagged
      BY <1>7, <1>9, <3>1 DEF After, LoseCheckpoint
    <3>. QED
      BY <2>1, <3>2 DEF SerialInv
  <2>. QED
    BY <1>4, <2>1
<1>14. ckpt'.writer = {} <=> ckpt'.state.next = "START"
  <2>1. inflight[i].state.next # "START"
    BY <1>7, AfterOrders
  <2>. QED
    BY <1>9, <2>1 DEF SerialInv, LoseCheckpoint
<1>15. \A f, g \in Active' : f = g
  BY <1>4 DEF SerialInv
<1>. QED
  BY <1>5, <1>6, <1>10, <1>11, <1>12, <1>13, <1>14, <1>15
     DEF SerialInv, PlausibleState, Answers

\* While processes take turns, what is held is one line of descent.
LEMMA SerialStep ==
  ASSUME SingleLaunch, OneAtATime, TypeOK, QueueInv, SerialInv,
         [Next]_vars
  PROVE  SerialInv'
<1> USE DEF Enter, Hold, saver, stores, audit
<1> USE ConstantsAssumption
<1>1. EmptyState.next = "START"
  BY DEF EmptyState
\* A step that touches neither the stores nor the writes on their way.
<1>2. ASSUME NEW e \in Executors,
             UNCHANGED <<inflight, kgNodes>>, lost \subseteq lost',
             ckpt'.state = ckpt.state, ckpt'.writer = ckpt.writer,
             \A f \in Executors \ {e} : mem'[f] = mem[f] /\ phase'[f] = phase[f],
             e \in Active \/ Active = {},
             InFlight(e) => phase'[e] \in Underway,
             mem'[e].next # "START" =>
               /\ mem'[e] = mem[e] \/ (mem'[e] = ckpt.state /\ ~InFlight(e))
               /\ phase'[e] \in Working,
             mem'[e] \in {mem[e], ckpt.state, EmptyState},
             Holds(e)',
             \A r \in Resolvers \ {e} : decision'[r] = decision[r],
             e \in Resolvers /\ phase'[e] \notin {"idle", "refused"} =>
               Answers(ckpt.state.flagged, decision'[e])
      PROVE  SerialInv'
  <2>1. Chain' = Chain
    BY <1>2 DEF Chain
  <2>2. GraphTold'
    BY <1>2, <2>1, GraphStays
  <2>. QED
    BY <1>2, <2>2, QuietStep
<1>3. ASSUME NEW e \in Executors, phase[e] \notin Underway, InFlight(e)
      PROVE  FALSE
  BY <1>3 DEF SerialInv, InFlight
<1>4. ASSUME NEW l \in Launches, StartLaunch(l) PROVE SerialInv'
  <2>1. Active = {} /\ phase[l] = "idle"
    BY <1>4, StartsAlone DEF StartLaunch, Executors
  <2>2. phase'[l] = "starting" /\ Holds(l)'
    BY <1>4 DEF StartLaunch, Holds, TypeOK, Executors, Auditing
  <2>3. ~InFlight(l) /\ mem[l].next = "START"
    BY <1>3, <2>1 DEF Underway, SerialInv, Descent, Executors
  <2>. QED
    BY <1>2, <1>4, <2>1, <2>2, <2>3 DEF StartLaunch, TypeOK, Executors
<1>5. ASSUME NEW r \in Resolvers, ReadQueue(r) PROVE SerialInv'
  <2>1. Active = {} /\ phase[r] = "idle"
    BY <1>5, StartsAlone DEF ReadQueue, Executors
  <2>2. phase'[r] \in {"refused", "decided"} /\ Holds(r)'
    BY <1>5 DEF ReadQueue, Holds, TypeOK, Executors, Auditing
  <2>3. ckpt.state.flagged \in SUBSET Items
    BY DEF TypeOK, PipelineState
  <2>4. phase'[r] = "decided" => Answers(ckpt.state.flagged, decision'[r])
    <3>1. CASE phase'[r] = "decided"
      <4>1. PICK request \in Verdicts :
              decision'[r] = BuildResolutions(ckpt.state.flagged, request)
        BY <1>5, <3>1 DEF ReadQueue, TypeOK, Executors
      <4>. QED
        BY <2>3, <4>1, ResolutionsAnswer
    <3>. QED
      BY <3>1
  <2>5. \A q \in Resolvers \ {r} : decision'[q] = decision[q]
    BY <1>5 DEF ReadQueue, TypeOK
  <2>6. ~InFlight(r) /\ mem[r].next = "START"
    BY <1>3, <2>1 DEF Underway, SerialInv, Descent, Executors
  <2>7. /\ UNCHANGED <<ckpt, inflight, lost, kgNodes, mem>>
        /\ \A f \in Executors \ {r} : phase'[f] = phase[f]
    BY <1>5 DEF ReadQueue, TypeOK
  <2>. QED
    BY <1>2, <2>1, <2>2, <2>4, <2>5, <2>6, <2>7 DEF Executors
<1>6. ASSUME NEW e \in Executors, Invoke(e) PROVE SerialInv'
  <2> DEFINE t == [ckpt.state EXCEPT !.next = "analysis"]
  <2>1. /\ phase[e] = "starting" /\ e \in Launches /\ phase'[e] = "running"
        /\ \A f \in Executors \ {e} : phase'[f] = phase[f]
        /\ Submit(e, t) /\ UNCHANGED <<decision, kgNodes>>
    BY <1>6 DEF Invoke, TypeOK
  <2>2. ckpt.state.next = "START" /\ DOMAIN inflight = {}
    BY <2>1 DEF QueueInv, Held
  <2>3. /\ t \in PipelineState /\ t.next = "analysis"
        /\ t.flagged = ckpt.state.flagged /\ t.verdict = ckpt.state.verdict
    BY DEF TypeOK, PipelineState, Stages
  <2>4. PlausibleState(ckpt.state)
    BY DEF SerialInv, Held
  <2> HIDE DEF t
  <2>5. PlausibleState(t)
    BY <2>2, <2>3, <2>4 DEF PlausibleState, Early, Settled, Written
  <2>6. \A s \in Chain : After(s, t)
    BY <2>2, <2>3 DEF Chain, After, Rank, Early, Unreviewed
  <2>7. e \in Active /\ phase'[e] \in Underway
    BY <2>1 DEF Active, Working, Underway
  <2>. QED
    BY <2>1, <2>3, <2>5, <2>6, <2>7, SubmitStep
<1>7. ASSUME NEW e \in Executors, Resume(e) PROVE SerialInv'
  <2>1. /\ phase'[e] = IF ckpt.state.next = "END" THEN "audit_resolutions"
                       ELSE "running"
        /\ mem'[e] = ckpt.state /\ phase[e] = "decided" /\ e \in Resolvers
        /\ UNCHANGED <<ckpt, inflight, lost, kgNodes, decision>>
        /\ \A f \in Executors \ {e} : mem'[f] = mem[f] /\ phase'[f] = phase[f]
    BY <1>7 DEF Resume, TypeOK
  <2>2. Holds(e)'
    BY <2>1 DEF Holds, Auditing
  <2>3. e \in Active /\ ~InFlight(e) /\ phase'[e] \in Working
    BY <1>3, <2>1 DEF Active, Working, Underway
  <2>4. Answers(ckpt.state.flagged, decision'[e])
    BY <2>1 DEF SerialInv
  <2>. QED
    BY <1>2, <2>1, <2>2, <2>3, <2>4
<1>8. ASSUME NEW e \in Executors, Node(e) PROVE SerialInv'
  <2>1. NodeEffect(e) /\ NodeOutcome(e)
    BY <1>8, NodeShape, NodeSerial
  <2>2. phase[e] \in {"running", "edges"}
    BY <2>1 DEF NodeOutcome, Moves
  <2>3. e \in Active /\ phase[e] \in Working
    BY <2>2 DEF Active, Working
  <2>4. mem[e].next # "START" /\ mem[e] \in PipelineState
    BY <2>2 DEF QueueInv, TypeOK
  <2>5. \A s \in Chain : s = mem[e] \/ After(s, mem[e])
    BY <2>4 DEF SerialInv, Descent
  <2>6. e \in Resolvers => Answers(ckpt.state.flagged, decision'[e])
    BY <2>1, <2>3 DEF NodeEffect, SerialInv, Working
  <2>7. CASE /\ Moves(e) /\ kgNodes' = kgNodes
             /\ PlausibleState(mem'[e]) /\ After(mem[e], mem'[e])
    <3>1. mem'[e] \in PipelineState
      BY <2>7 DEF Moves
    <3>2. \A s \in Chain : After(s, mem'[e])
      BY <2>4, <2>5, <2>7, <3>1, AfterOrders, ChainTypes
    <3>3. /\ phase'[e] \in Underway /\ phase'[e] # "pausing"
          /\ phase'[e] = "returning" => mem'[e].next = "END"
          /\ Submit(e, mem'[e])
      BY <2>7 DEF Moves, Underway
    <3>. QED
      BY <2>1, <2>3, <2>7, <3>1, <3>2, <3>3, SubmitStep DEF NodeEffect
  <2>8. CASE /\ phase'[e] = "edges"
             /\ mem' = mem /\ inflight' = inflight
             /\ mem[e].next = "write_knowledge_graph"
             /\ kgNodes' = kgNodes \cup NotRejected(mem[e].verdict)
    <3>1. ckpt' = ckpt /\ lost' = lost
      BY <2>1 DEF NodeEffect
    <3>2. Chain' = Chain
      BY <2>8, <3>1 DEF Chain
    <3>3. GraphTold'
      <4>1. SUFFICES ASSUME lost = {}
                     PROVE  \E s \in Chain : /\ s.next \in Settled
                                             /\ kgNodes' = NotRejected(s.verdict)
        BY <3>1, <3>2 DEF GraphTold, NotRejected
      <4>2. mem[e] \in Chain
        BY <2>4, <4>1 DEF SerialInv, Descent
      <4>3. kgNodes \subseteq NotRejected(mem[e].verdict)
        <5>1. CASE kgNodes = {}
          BY <5>1
        <5>2. CASE kgNodes # {}
          <6>1. PICK s \in Chain :
                  s.next \in Settled /\ kgNodes = NotRejected(s.verdict)
            BY <4>1, <5>2 DEF SerialInv, GraphTold
          <6>2. s.verdict = mem[e].verdict
            BY <2>5, <6>1 DEF After, Settled, Written, Unreviewed, Early
          <6>. QED
            BY <6>1, <6>2
        <5>. QED
          BY <5>1, <5>2
      <4>4. kgNodes' = NotRejected(mem[e].verdict)
        BY <2>8, <4>3
      <4>. QED
        BY <2>8, <4>2, <4>4 DEF Settled
    <3>4. Holds(e)' /\ phase'[e] \in Underway /\ phase'[e] \in Working
      BY <2>8 DEF Holds, Auditing, Underway, Working
    <3>5. /\ \A r \in Resolvers \ {e} : decision'[r] = decision[r]
          /\ \A f \in Executors \ {e} : mem'[f] = mem[f] /\ phase'[f] = phase[f]
          /\ inflight' = inflight /\ lost \subseteq lost' /\ mem'[e] = mem[e]
          /\ ckpt'.state = ckpt.state /\ ckpt'.writer = ckpt.writer
      BY <2>1, <2>8 DEF NodeEffect
    <3>. QED
      BY <2>3, <2>6, <3>3, <3>4, <3>5, QuietStep
  <2>9. CASE /\ phase'[e] = "pausing"
             /\ mem' = mem /\ inflight' = inflight /\ kgNodes' = kgNodes
             /\ mem[e].next = "hitl_gate"
    <3>1. Holds(e)' /\ phase'[e] \in Underway /\ phase'[e] \in Working
      BY <2>9 DEF Holds, Auditing, Underway, Working
    <3>2. /\ \A r \in Resolvers \ {e} : decision'[r] = decision[r]
          /\ \A f \in Executors \ {e} : mem'[f] = mem[f] /\ phase'[f] = phase[f]
          /\ UNCHANGED <<inflight, kgNodes>> /\ lost \subseteq lost'
          /\ mem'[e] = mem[e]
          /\ ckpt'.state = ckpt.state /\ ckpt'.writer = ckpt.writer
      BY <2>1, <2>9 DEF NodeEffect
    <3>. QED
      BY <1>2, <2>3, <2>6, <3>1, <3>2
  <2>. QED
    BY <2>1, <2>7, <2>8, <2>9 DEF NodeOutcome
<1>9. ASSUME NEW e \in Executors,
             ReturnPause(e) \/ ReturnState(e) \/ AuditResolutions(e) \/ Raise(e)
      PROVE  SerialInv'
  <2>1. /\ UNCHANGED <<inflight, mem, decision, kgNodes>> /\ lost \subseteq lost'
        /\ ckpt'.state = ckpt.state /\ ckpt'.writer = ckpt.writer
        /\ \A f \in Executors \ {e} : phase'[f] = phase[f]
        /\ phase'[e] \in {"audit_resolutions", "audit_status", "raised"}
    BY <1>9 DEF ReturnPause, ReturnState, AuditResolutions, Raise, TypeOK
  <2>2. phase[e] \in Working
    BY <1>9 DEF ReturnPause, ReturnState, AuditResolutions, Raise, AtStage,
       Working
  <2>3. e \in Active /\ phase'[e] \in Working
    BY <2>1, <2>2 DEF Active, Working
  <2>4. InFlight(e) => phase'[e] \in Underway
    <3>1. CASE ReturnPause(e) \/ ReturnState(e)
      BY <3>1 DEF ReturnPause, ReturnState
    <3>2. CASE AuditResolutions(e)
      BY <1>3, <3>2 DEF AuditResolutions, Underway
    <3>3. CASE Raise(e)
      BY <3>3 DEF Raise, Underway, TypeOK
    <3>. QED
      BY <1>9, <3>1, <3>2, <3>3
  <2>5. Holds(e)'
    <3>1. CASE ReturnPause(e)
      <4>1. phase[e] = "pausing" /\ phase'[e] = "audit_resolutions"
        BY <3>1 DEF ReturnPause, TypeOK
      <4>2. mem[e].next = "hitl_gate"
        BY <4>1 DEF SerialInv, Holds
      <4>. QED
        BY <2>1, <4>1, <4>2 DEF Holds
    <3>2. CASE ReturnState(e)
      <4>1. mem[e].next = "END" /\ ~InFlight(e)
        BY <3>2 DEF ReturnState, SerialInv, Holds
      <4>2. Chain = {ckpt.state}
        BY <2>3, <4>1, OnlyItsOwn
      <4>3. phase'[e] \in Auditing => mem[e] = ckpt.state
        BY <3>2, <4>1, <4>2 DEF ReturnState, SerialInv, Descent, TypeOK, Auditing
      <4>. QED
        BY <2>1, <4>1, <4>3 DEF Holds
    <3>3. CASE AuditResolutions(e)
      <4>1. phase[e] \in Auditing /\ phase'[e] = "audit_status"
        BY <3>3 DEF AuditResolutions, Auditing, TypeOK
      <4>. QED
        BY <2>1, <4>1 DEF Holds, SerialInv
    <3>4. CASE Raise(e)
      BY <3>4 DEF Raise, Holds, Auditing, TypeOK
    <3>. QED
      BY <1>9, <3>1, <3>2, <3>3, <3>4
  <2>6. e \in Resolvers => Answers(ckpt.state.flagged, decision'[e])
    BY <2>1, <2>2 DEF SerialInv, Working
  <2>7. /\ \A r \in Resolvers \ {e} : decision'[r] = decision[r]
        /\ \A f \in Executors \ {e} : mem'[f] = mem[f] /\ phase'[f] = phase[f]
        /\ mem'[e] = mem[e]
    BY <2>1
  <2>8. /\ mem'[e].next # "START" =>
             /\ mem'[e] = mem[e] \/ (mem'[e] = ckpt.state /\ ~InFlight(e))
             /\ phase'[e] \in Working
        /\ mem'[e] \in {mem[e], ckpt.state, EmptyState}
        /\ InFlight(e) => phase'[e] \in Underway
        /\ e \in Resolvers /\ phase'[e] \notin {"idle", "refused"} =>
             Answers(ckpt.state.flagged, decision'[e])
    BY <2>3, <2>4, <2>6, <2>7
  <2>. QED
    BY <1>2, <2>1, <2>3, <2>5, <2>7, <2>8
<1>10. ASSUME NEW e \in Executors,
              AuditStatus(e) \/ AuditFailure(e) \/ CompileFails(e) \/ Crash(e)
       PROVE  SerialInv'
  <2>1. e \in Active \/ Active = {}
    BY <1>10, StartsAlone DEF AuditStatus, AuditFailure, CompileFails, Crash,
       Active, Working
  <2>2. Holds(e)'
    BY <1>10, LeaveShape DEF Holds, Auditing
  <2>3. e \in Resolvers => phase[e] \notin {"idle", "refused"}
    BY <1>10 DEF AuditStatus, AuditFailure, CompileFails, Crash, Active, Working
  <2>4. e \in Resolvers => Answers(ckpt.state.flagged, decision[e])
    BY <2>3 DEF SerialInv
  <2>5. CASE Crash(e) /\ InFlight(e)
    <3> DEFINE at == {i \in DOMAIN inflight : inflight[i].writer = e}
    <3>1. Over(at) /\ e \in Active /\ lost' # {} /\ lost \subseteq lost'
      BY <2>5 DEF Over, Crash
    <3> HIDE DEF at
    <3>2. Chain' \subseteq Chain
      BY <3>1, ChainOver DEF SerialInv
    <3>3. DOMAIN inflight' = {}
      <4>1. inflight \in Seq(Entry)
        BY DEF TypeOK, Entry
      <4>2. PICK p : Remains(at, p)
        BY <3>1, <4>1, OverSettles, SettleKeeps
      <4>3. \A i \in DOMAIN inflight : inflight[i].writer = e
        <5>1. \A i \in DOMAIN inflight : inflight[i].writer \in Active
          BY <4>1, EntryFields DEF SerialInv, Active, Underway, Working
        <5>. QED
          BY <3>1, <5>1 DEF SerialInv
      <4>. QED
        BY <4>2, <4>3 DEF Remains, at
    <3>4. /\ phase'[e] \in {"done", "failed", "crashed"}
          /\ mem'[e] = EmptyState
          /\ \A f \in Executors \ {e} : mem'[f] = mem[f] /\ phase'[f] = phase[f]
          /\ UNCHANGED <<ckpt, decision, kgNodes>>
      BY <1>10, LeaveShape
    <3>5. Active' = {}
      BY <3>1, <3>4 DEF SerialInv, Active, Working
    <3>6. \A f \in Executors : mem'[f].next = "START"
      BY <1>1, <3>1, <3>4 DEF SerialInv, Descent
    <3>7. Descent' /\ GraphTold'
      BY <3>1, <3>3, <3>6 DEF Descent, GraphTold
    <3>8. \A s \in Held' : PlausibleState(s)
      <4>1. \A s \in Held' : s \in Held \/ s = EmptyState
        BY <3>3, <3>4 DEF Held
      <4>2. PlausibleState(EmptyState)
        BY DEF PlausibleState, EmptyState, Early, Settled, Written
      <4>. QED
        BY <4>1, <4>2 DEF SerialInv
    <3>9. \A f \in Executors : Holds(f)'
      BY <2>2, <3>4 DEF SerialInv, Holds
    <3>10. \A r \in Resolvers : phase'[r] \notin {"idle", "refused"} =>
             Answers(ckpt'.state.flagged, decision'[r])
      BY <2>4, <3>4 DEF SerialInv, Executors
    <3>. QED
      BY <3>3, <3>4, <3>5, <3>7, <3>8, <3>9, <3>10
         DEF SerialInv, PlausibleState, Answers
  <2>6. CASE Crash(e) /\ ~InFlight(e)
    <3>1. e \in Active /\ lost' = lost
      BY <2>6 DEF Crash
    <3>2. DOMAIN inflight = {}
      BY <2>6, <3>1, OnlyItsOwn
    <3>3. inflight' = inflight
      <4>1. inflight \in Seq(Entry)
        BY DEF TypeOK, Entry
      <4>2. PICK at : Over(at)
        BY <2>6 DEF Over
      <4>3. PICK p : inflight' \in Seq(Entry) /\ Remains(at, p)
        BY <4>1, <4>2, OverSettles, SettleKeeps
      <4>4. DOMAIN inflight' = {}
        BY <3>2, <4>3 DEF Remains
      <4>. QED
        BY <3>2, <4>1, <4>3, <4>4
    <3>. QED
      BY <1>1, <1>2, <1>10, <2>2, <2>4, <2>6, <3>1, <3>3, LeaveShape
  <2>7. CASE UNCHANGED <<inflight, lost>> /\ ~Crash(e)
    <3>1. ~InFlight(e)
      BY <1>3, <1>10, <2>7 DEF AuditStatus, AuditFailure, CompileFails, MayStart,
         Underway
    <3>. QED
      BY <1>1, <1>2, <1>10, <2>1, <2>2, <2>4, <2>7, <3>1, LeaveShape
  <2>. QED
    BY <1>10, <2>5, <2>6, <2>7, LeaveShape
<1>11. CASE UNCHANGED vars
  BY <1>11 DEF vars, SerialInv, Active, Holds, GraphTold, Descent, Chain, Held
<1>12. CASE Otherwise
  BY <1>4, <1>5, <1>7, <1>9, <1>10, <1>11, <1>12, OverStep DEF Otherwise
<1>. QED
  BY <1>6, <1>8, <1>12, Steps

\* The invariants of a run of one launch, one process at a time.
LEMMA SerialInvariant ==
  SingleLaunch /\ OneAtATime =>
    (Spec => [](TypeOK /\ WrittenInv /\ QueueInv /\ PauseInv /\ SerialInv))
<1>. SUFFICES ASSUME SingleLaunch, OneAtATime
              PROVE  Spec =>
                       [](TypeOK /\ WrittenInv /\ QueueInv /\ PauseInv /\ SerialInv)
  OBVIOUS
<1>1. Init => SerialInv
  BY DEF Init, SerialInv, PlausibleState, Descent, GraphTold, Holds, EmptyState,
     Active, Early, Settled, Written, Executors, Working, Auditing, Held
<1>2. TypeOK /\ QueueInv /\ SerialInv /\ [Next]_vars => SerialInv'
  BY SerialStep
<1>. QED
  BY <1>1, <1>2, TypeCorrect, WrittenInvariant, PauseInvariant, PTL DEF Spec

-----------------------------------------------------------------------------
(***************************************************************************)
(* The checkpoint and the graph implement ReviewedRun: a checkpoint that   *)
(* is stored shows, an interrupt pauses, the nodes transaction publishes,  *)
(* and every other step stutters.                                          *)
(***************************************************************************)
\* The statuses of the checkpoint, told apart by its position.
LEMMA StatusOf ==
  ASSUME PauseInv, SerialInv
  PROVE  /\ CheckpointStatus = "not_found" <=> ckpt.state.next = "START"
         /\ CheckpointStatus = "complete" <=> ckpt.state.next = "END"
         /\ CheckpointStatus = "pending_review" <=> ckpt.interrupted
         /\ CheckpointStatus \in {"not_found", "running", "pending_review",
                                  "complete"}
         /\ ckpt.interrupted => ckpt.state.next = "hitl_gate"
  BY DEF CheckpointStatus, PauseInv, SerialInv

\* A queue that has been answered is reviewed in the sense of ReviewedRun.
LEMMA AnsweredIsReviewed ==
  ASSUME NEW flagged \in SUBSET Items, NEW v \in Verdicts, Answers(flagged, v)
  PROVE  flagged = {} <=> v = [i \in Items |-> "none"]
  BY DEF Answers, Verdicts

\* Nobody has rejected anything before the checkpoint shows a queue.
AutoInv ==
  ckpt.state.next \in Early => \A s \in Held : NotRejected(s.verdict) = Items

\* What a node does to the resolutions.
LEMMA NodeVerdict ==
  ASSUME TypeOK, NEW e \in Executors, Node(e)
  PROVE  \/ mem'[e].verdict = mem[e].verdict
         \/ e \in Resolvers
         \/ mem'[e].verdict = AutoResolve(mem[e].flagged)
<1> USE DEF Finish, Submit, Hold, Enter, AtStage
<1>1. mem[e] \in PipelineState
  BY DEF TypeOK
<1>2. CASE Analyse(e)
  <2>1. PICK low \in SUBSET Items, n \in {"apply_hitl_resolutions", "hitl_gate"} :
          mem'[e] = [mem[e] EXCEPT !.flagged = low, !.kept = Items, !.next = n]
    BY <1>2 DEF Analyse, TypeOK
  <2>. QED
    BY <1>1, <2>1 DEF PipelineState
<1>3. CASE AutoResolveGate(e)
  BY <1>1, <1>3 DEF AutoResolveGate, PassGate, TypeOK, PipelineState
<1>4. CASE ResumeGate(e)
  BY <1>4 DEF ResumeGate
<1>5. CASE InterruptGate(e)
  BY <1>5 DEF InterruptGate
<1>6. CASE ApplyResolutions(e)
  BY <1>1, <1>6 DEF ApplyResolutions, TypeOK, PipelineState
<1>7. CASE WriteNodes(e)
  BY <1>7 DEF WriteNodes
<1>8. CASE WriteEdges(e)
  BY <1>1, <1>8 DEF WriteEdges, TypeOK, PipelineState
<1>9. CASE WriteIndex(e)
  BY <1>1, <1>9 DEF WriteIndex, TypeOK, PipelineState
<1>10. CASE WriteEvidence(e)
  BY <1>1, <1>10 DEF WriteEvidence, TypeOK, PipelineState
<1>. QED
  BY <1>2, <1>3, <1>4, <1>5, <1>6, <1>7, <1>8, <1>9, <1>10 DEF Node

\* A resolution that rejects needs a resolver, and that needs a queue shown.
LEMMA AutoStep ==
  ASSUME TypeOK, QueueInv, SerialInv, AutoInv, [Next]_vars
  PROVE  AutoInv'
<1>1. SUFFICES ASSUME ckpt'.state.next \in Early,
                      NEW s \in Held'
               PROVE  NotRejected(s.verdict) = Items
  BY DEF AutoInv, NotRejected
<1>2. ckpt.state \in Held /\ \A e \in Executors : mem[e] \in Held
  BY DEF Held
<1>3. ASSUME NEW e \in Executors, Invoke(e)
      PROVE  NotRejected(s.verdict) = Items
  <2> DEFINE t == [ckpt.state EXCEPT !.next = "analysis"]
  <2>1. t.verdict = ckpt.state.verdict /\ t \in PipelineState
    BY DEF TypeOK, PipelineState, Stages
  <2>2. Submit(e, t)
    BY <1>3 DEF Invoke
  <2> HIDE DEF t
  <2>3. ckpt' = ckpt /\ (s \in Held \/ s = t)
    BY <2>1, <2>2, HeldSubmit
  <2>. QED
    BY <1>1, <1>2, <2>1, <2>3 DEF AutoInv
<1>4. ASSUME NEW e \in Executors, Node(e)
      PROVE  NotRejected(s.verdict) = Items
  <2>1. ckpt' = ckpt /\ phase[e] \in {"running", "edges"}
    BY <1>4, NodeShape DEF NodeEffect, Moves, AtStage
  <2>2. e \notin Resolvers
    BY <1>1, <2>1 DEF QueueInv
  <2>3. NotRejected(mem[e].verdict) = Items
    BY <1>1, <1>2, <2>1 DEF AutoInv
  <2>4. NotRejected(AutoResolve(mem[e].flagged)) = Items
    BY DEF NotRejected, AutoResolve
  <2>5. NotRejected(mem'[e].verdict) = Items
    BY <1>4, <2>2, <2>3, <2>4, NodeVerdict
  <2>6. s \in Held \/ s = mem'[e]
    BY <1>4, HeldNew
  <2>. QED
    BY <1>1, <2>1, <2>5, <2>6 DEF AutoInv
<1>5. CASE Otherwise
  <2>1. s \in Held \/ s = EmptyState
    BY <1>5, HeldKept
  <2>2. NotRejected(EmptyState.verdict) = Items
    BY DEF NotRejected, EmptyState, NoVerdict
  <2>3. ckpt.state.next \in Early
    <3>1. ASSUME NEW i \in DOMAIN inflight, StoreCheckpoint(i)
          PROVE  ckpt.state.next \in Early
      <4>1. ckpt'.state = inflight[i].state /\ After(ckpt.state, inflight[i].state)
        BY <3>1 DEF StoreCheckpoint, SerialInv, Descent
      <4>2. ckpt.state \in PipelineState /\ inflight[i].state \in PipelineState
        BY ChainTypes DEF Chain
      <4>3. ckpt.state.next \notin Early => inflight[i].state.next \notin Unreviewed
        BY <4>1, <4>2, AfterOrders
      <4>. QED
        BY <1>1, <4>1, <4>3 DEF Unreviewed
    <3>2. CASE ckpt'.state = ckpt.state
      BY <1>1, <3>2
    <3>3. ckpt'.state = ckpt.state \/ \E i \in DOMAIN inflight : StoreCheckpoint(i)
      BY <1>5, LeaveShape DEF Otherwise, StartLaunch, ReadQueue, Resume,
         ReturnPause, ReturnState, AuditResolutions, Raise, LoseCheckpoint,
         TypeOK, vars, saver
    <3>. QED
      BY <3>1, <3>2, <3>3
  <2>. QED
    BY <2>1, <2>2, <2>3 DEF AutoInv
<1>. QED
  BY <1>3, <1>4, <1>5, Steps

\* As long as no checkpoint is lost the graph agrees with the resolutions the
\* checkpoint shows, and a complete run has all that survives them.
LEMMA GraphAgrees ==
  ASSUME TypeOK, WrittenInv, PauseInv, SerialInv, AutoInv
  PROVE  Promise!Agrees
<1> DEFINE s == ckpt.state
<1>1. s \in PipelineState /\ PlausibleState(s) /\ s \in Chain /\ s \in Held
  BY DEF TypeOK, SerialInv, Held, Chain
<1>2. \A v : Promise!Surviving(v) = NotRejected(v)
  BY DEF Promise!Surviving, NotRejected
<1>3. ASSUME lost = {}, Promise!Reviewed, kgNodes # {}
      PROVE  kgNodes = NotRejected(s.verdict)
  <2>1. PICK c \in Chain : c.next \in Settled /\ kgNodes = NotRejected(c.verdict)
    BY <1>3 DEF SerialInv, GraphTold
  <2>2. c = s \/ After(s, c)
    BY DEF Chain, SerialInv, Descent
  <2>3. CASE s.next \in Early
    <3>1. NotRejected(c.verdict) = Items /\ NotRejected(s.verdict) = Items
      BY <1>1, <2>3, ChainTypes DEF AutoInv
    <3>. QED
      BY <2>1, <3>1
  <2>4. CASE s.next = "hitl_gate"
    BY <1>1, <1>3, <2>4 DEF PlausibleState, Promise!Reviewed, Promise!Undecided,
       NoVerdict
  <2>5. CASE s.next \notin Unreviewed
    BY <2>1, <2>2, <2>5 DEF After
  <2>. QED
    BY <2>3, <2>4, <2>5 DEF Unreviewed
<1>4. ASSUME CheckpointStatus = "complete"
      PROVE  Promise!Reviewed /\ NotRejected(s.verdict) \subseteq kgNodes
  <2>1. s.next = "END"
    BY <1>4, StatusOf
  <2>2. s.kept \subseteq kgNodes
    BY <1>1, <2>1 DEF WrittenInv, WrittenState, Written
  <2>3. Answers(s.flagged, s.verdict) /\ s.kept = NotRejected(s.verdict)
    BY <1>1, <2>1 DEF PlausibleState, Settled, Written
  <2>4. s.flagged \in SUBSET Items /\ s.verdict \in Verdicts
    BY <1>1 DEF PipelineState
  <2>. QED
    BY <2>2, <2>3, <2>4, AnsweredIsReviewed DEF Promise!Reviewed,
       Promise!Undecided
<1>. QED
  BY <1>2, <1>3, <1>4 DEF Promise!Agrees

\* A stored checkpoint shows what ReviewedRun lets it show.
LEMMA StoreShows ==
  ASSUME TypeOK, QueueInv, PauseInv, SerialInv, TypeOK', SerialInv',
         Promise!Agrees', NEW i \in DOMAIN inflight, StoreCheckpoint(i)
  PROVE  Promise!Show
<1> DEFINE s == ckpt.state
           t == ckpt'.state
<1>1. /\ t = inflight[i].state /\ ~ckpt'.interrupted /\ ckpt'.writer # {}
      /\ lost \subseteq lost' /\ kgNodes' = kgNodes
  BY DEF StoreCheckpoint, stores
<1>2. /\ s \in PipelineState /\ t \in PipelineState
      /\ PlausibleState(s) /\ PlausibleState(t)
  BY DEF TypeOK, SerialInv, Held, PlausibleState
<1>3. After(s, t)
  BY <1>1 DEF SerialInv, Descent
<1>4. /\ s.next # "END"
      /\ s.next \notin Early => t.flagged = s.flagged /\ t.next \notin Unreviewed
      /\ s.next \notin Unreviewed => t.verdict = s.verdict
  BY <1>2, <1>3, AfterOrders DEF After
<1>5. /\ s.flagged \in SUBSET Items /\ s.verdict \in Verdicts
      /\ t.flagged \in SUBSET Items /\ t.verdict \in Verdicts
      /\ s.next \in Stages /\ t.next \in Stages
  BY <1>2 DEF PipelineState
<1>6. /\ CheckpointStatus # "complete" /\ CheckpointStatus' \in {"running", "complete"}
      /\ CheckpointStatus = "pending_review" => s.next = "hitl_gate"
  BY <1>1, <1>4, StatusOf DEF CheckpointStatus
<1>7. t.flagged \in IF s.flagged = {} THEN SUBSET Items ELSE {s.flagged}
  <2>1. CASE s.next \in Early
    BY <1>2, <1>5, <2>1 DEF PlausibleState
  <2>2. CASE s.next \notin Early
    BY <1>4, <1>5, <2>2
  <2>. QED
    BY <2>1, <2>2
<1>8. /\ t.verdict = Promise!Undecided \/ t.verdict \in Promise!Decisions(t.flagged)
      /\ t.next \notin Unreviewed => Answers(t.flagged, t.verdict)
  <2>1. CASE t.next \in Unreviewed
    BY <1>2, <2>1 DEF PlausibleState, Unreviewed, Promise!Undecided, NoVerdict
  <2>2. CASE t.next \notin Unreviewed
    <3>1. Answers(t.flagged, t.verdict)
      BY <1>2, <1>5, <2>2 DEF PlausibleState, Unreviewed, Early, Settled,
         Written, Stages
    <3>2. t.verdict \in Promise!Decisions(t.flagged)
      BY <1>5, <3>1 DEF Promise!Decisions, Answers, Verdicts
    <3>. QED
      BY <3>1, <3>2
  <2>. QED
    BY <2>1, <2>2
<1>9. s.verdict # Promise!Undecided => t.verdict = s.verdict
  <2>1. s.verdict # Promise!Undecided => s.next \notin Unreviewed
    BY <1>2 DEF PlausibleState, Unreviewed, Promise!Undecided, NoVerdict
  <2>. QED
    BY <1>4, <2>1
<1>10. CheckpointStatus = "pending_review" => t.verdict # Promise!Undecided
  <2>1. SUFFICES ASSUME s.next = "hitl_gate" PROVE t.verdict # Promise!Undecided
    BY <1>6
  <2>2. s.flagged # {}
    BY <1>2, <2>1 DEF PlausibleState
  <2>3. t.flagged = s.flagged /\ t.next \notin Unreviewed
    BY <1>4, <2>1 DEF Early
  <2>. QED
    BY <1>5, <1>8, <2>2, <2>3, AnsweredIsReviewed DEF Promise!Undecided
<1>11. (lost' # {}) \in {lost # {}, TRUE}
  <2>1. lost # {} => lost' # {}
    BY <1>1
  <2>2. CASE lost' # {}
    BY <2>2
  <2>3. CASE lost' = {}
    BY <2>1, <2>3
  <2>. QED
    BY <2>2, <2>3
<1> HIDE DEF s, t
<1>12. t.verdict \in IF s.verdict = Promise!Undecided
                       THEN {Promise!Undecided} \cup Promise!Decisions(t.flagged)
                       ELSE {s.verdict}
  BY <1>8, <1>9
<1>. QED
  BY <1>1, <1>6, <1>7, <1>10, <1>11, <1>12 DEF Promise!Show, s, t

\* The nodes transaction publishes what survives one set of resolutions, or
\* repeats what is there.
LEMMA WritePublishes ==
  ASSUME TypeOK, QueueInv, PauseInv, SerialInv, AutoInv,
         NEW e \in Executors, phase[e] = "running",
         mem[e].next = "write_knowledge_graph", UNCHANGED <<ckpt, lost>>,
         kgNodes' = kgNodes \cup NotRejected(mem[e].verdict)
  PROVE  Promise!Publish \/ kgNodes' = kgNodes
<1> DEFINE s == ckpt.state
           m == mem[e]
<1>1. /\ s \in PipelineState /\ PlausibleState(s) /\ s \in Chain
      /\ m \in PipelineState /\ PlausibleState(m) /\ m \in Held
  BY DEF TypeOK, SerialInv, Held, Chain
<1>2. /\ s.flagged \in SUBSET Items /\ s.verdict \in Verdicts
      /\ m.flagged \in SUBSET Items /\ m.verdict \in Verdicts
      /\ s.next \in Stages
  BY <1>1 DEF PipelineState
<1>3. Answers(m.flagged, m.verdict)
  BY <1>1 DEF PlausibleState, Settled
<1>4. \A c \in Chain : c = m \/ After(c, m)
  BY DEF SerialInv, Descent
<1>5. s.next # "END"
  BY <1>1, <1>4, AfterOrders
<1>6. CheckpointStatus # "complete" /\ CheckpointStatus' = CheckpointStatus
  BY <1>5, StatusOf DEF CheckpointStatus
<1>7. \A v : Promise!Surviving(v) = NotRejected(v)
  BY DEF Promise!Surviving, NotRejected
<1>8. CASE lost = {} /\ kgNodes # {}
  <2>1. PICK c \in Chain : c.next \in Settled /\ kgNodes = NotRejected(c.verdict)
    BY <1>8 DEF SerialInv, GraphTold
  <2>2. c.verdict = m.verdict
    BY <1>4, <2>1 DEF After, Settled, Written, Unreviewed, Early
  <2>. QED
    BY <2>1, <2>2
<1>9. CASE lost # {} \/ kgNodes = {}
  <2>1. ASSUME NEW v, v \in Promise!Decisions(s.flagged) \cup {s.verdict},
               Promise!MayGoOnWith(v), NotRejected(v) = NotRejected(m.verdict)
        PROVE  Promise!Publish
    BY <1>6, <1>7, <1>9, <2>1 DEF Promise!Publish
  <2>2. CASE s.next \in Early
    <3>1. s.flagged = {} /\ s.verdict = Promise!Undecided
      BY <1>1, <2>2 DEF PlausibleState, Promise!Undecided, NoVerdict
    <3>2. Promise!MayGoOnWith(s.verdict)
      BY <3>1 DEF Promise!MayGoOnWith
    <3>3. NotRejected(s.verdict) = NotRejected(m.verdict)
      BY <1>1, <2>2, ChainTypes DEF AutoInv
    <3>. QED
      BY <2>1, <3>2, <3>3
  <2>3. CASE s.next = "hitl_gate"
    <3>1. s.flagged # {} /\ s.verdict = Promise!Undecided
      BY <1>1, <2>3 DEF PlausibleState, Promise!Undecided, NoVerdict
    <3>2. m.flagged = s.flagged
      BY <1>1, <1>4, <2>3 DEF After, Early
    <3>3. m.verdict \in Promise!Decisions(s.flagged)
      BY <1>2, <1>3, <3>2 DEF Promise!Decisions, Answers, Verdicts
    <3>4. Promise!MayGoOnWith(m.verdict)
      BY <3>1, <3>3 DEF Promise!MayGoOnWith
    <3>. QED
      BY <2>1, <3>3, <3>4
  <2>4. CASE s.next \notin Unreviewed
    <3>1. m.verdict = s.verdict
      BY <1>1, <1>4, <2>4 DEF After
    <3>2. Answers(s.flagged, s.verdict)
      BY <1>1, <1>2, <2>4 DEF PlausibleState, Unreviewed, Early, Settled,
         Written, Stages
    <3>3. s.flagged = {} <=> s.verdict = Promise!Undecided
      BY <1>2, <3>2, AnsweredIsReviewed DEF Promise!Undecided
    <3>4. Promise!MayGoOnWith(s.verdict)
      BY <3>3 DEF Promise!MayGoOnWith
    <3>. QED
      BY <2>1, <3>1, <3>4
  <2>. QED
    BY <2>2, <2>3, <2>4 DEF Unreviewed
<1>. QED
  BY <1>8, <1>9

\* Each step of the one process at work, or of its background writes, is a
\* step of ReviewedRun or none.
LEMMA PromiseStep ==
  ASSUME TypeOK, QueueInv, PauseInv, SerialInv, AutoInv,
         TypeOK', SerialInv', Promise!Agrees', [Next]_vars
  PROVE  [Promise!Next]_(Promise!rvars)
<1> USE DEF saver, stores
<1>1. ASSUME UNCHANGED <<ckpt, kgNodes, lost>>
      PROVE  UNCHANGED Promise!rvars
  BY <1>1 DEF CheckpointStatus, Promise!rvars
<1>2. ASSUME lost' # {}, UNCHANGED <<ckpt, kgNodes>>
      PROVE  Promise!Lose
  <2>1. (lost' # {}) = TRUE
    BY <1>2
  <2>2. CheckpointStatus' = CheckpointStatus
    BY <1>2 DEF CheckpointStatus
  <2>. QED
    BY <1>2, <2>1, <2>2 DEF Promise!Lose
<1>3. ASSUME NEW e \in Executors, Invoke(e) PROVE UNCHANGED Promise!rvars
  BY <1>1, <1>3 DEF Invoke, Submit
<1>4. ASSUME NEW e \in Executors, Node(e)
      PROVE  Promise!Next \/ UNCHANGED Promise!rvars
  <2>1. NodeOutcome(e) /\ UNCHANGED <<ckpt, lost>>
    BY <1>4, NodeShape, NodeSerial DEF NodeEffect
  <2>2. CASE kgNodes' = kgNodes
    BY <1>1, <2>1, <2>2
  <2>3. CASE kgNodes' # kgNodes
    <3>1. Promise!Publish
      BY <2>1, <2>3, WritePublishes DEF NodeOutcome
    <3>. QED
      BY <3>1 DEF Promise!Next
  <2>. QED
    BY <2>2, <2>3
<1>5. ASSUME NEW i \in DOMAIN inflight, StoreCheckpoint(i)
      PROVE  Promise!Next
  BY <1>5, StoreShows DEF Promise!Next
<1>6. ASSUME NEW i \in DOMAIN inflight, LoseCheckpoint(i)
      PROVE  Promise!Next
  BY <1>2, <1>6 DEF LoseCheckpoint, Promise!Next
<1>7. ASSUME NEW e \in Executors, ReturnPause(e)
      PROVE  Promise!Next \/ UNCHANGED Promise!rvars
  <2>1. CASE lost' # {} /\ ckpt' = ckpt
    BY <1>2, <1>7, <2>1 DEF ReturnPause, Promise!Next
  <2>2. CASE /\ ckpt' = [ckpt EXCEPT !.interrupted =
                           @ \/ (ckpt.writer = {e} /\ ckpt.state.next = "hitl_gate")]
             /\ UNCHANGED lost
    <3>1. /\ ckpt'.state = ckpt.state /\ ckpt'.writer = ckpt.writer
          /\ ckpt'.interrupted =
               (ckpt.interrupted \/ (ckpt.writer = {e} /\ ckpt.state.next = "hitl_gate"))
          /\ kgNodes' = kgNodes
      BY <1>7, <2>2 DEF TypeOK, ReturnPause
    <3>2. CASE ckpt'.interrupted = ckpt.interrupted
      BY <2>2, <3>1, <3>2 DEF CheckpointStatus, Promise!rvars
    <3>3. CASE ckpt'.interrupted # ckpt.interrupted
      <4>1. /\ ~ckpt.interrupted /\ ckpt'.interrupted
            /\ ckpt.state.next = "hitl_gate" /\ ckpt.writer # {}
        BY <3>1, <3>3 DEF TypeOK
      <4>2. /\ CheckpointStatus = "running"
            /\ CheckpointStatus' = "pending_review"
        BY <3>1, <4>1 DEF CheckpointStatus
      <4>3. ckpt.state.flagged # {} /\ ckpt.state.verdict = NoVerdict
        BY <4>1 DEF SerialInv, PlausibleState, Held
      <4>4. Promise!Pause
        BY <2>2, <3>1, <4>2, <4>3 DEF Promise!Pause, Promise!Reviewed,
           Promise!Undecided, NoVerdict
      <4>. QED
        BY <4>4 DEF Promise!Next
    <3>. QED
      BY <3>2, <3>3
  <2>. QED
    BY <1>7, <2>1, <2>2 DEF ReturnPause
<1>8. ASSUME NEW e \in Executors,
             AuditStatus(e) \/ AuditFailure(e) \/ CompileFails(e) \/ Crash(e)
      PROVE  Promise!Next \/ UNCHANGED Promise!rvars
  <2>1. UNCHANGED <<ckpt, kgNodes>>
    BY <1>8, LeaveShape
  <2>2. UNCHANGED lost \/ lost' # {}
    <3>1. CASE Crash(e)
      BY <3>1 DEF Crash
    <3>. QED
      BY <1>8, <3>1, LeaveShape
  <2>. QED
    BY <1>1, <1>2, <2>1, <2>2 DEF Promise!Next
<1>9. ASSUME NEW e,
             \/ StartLaunch(e) \/ ReadQueue(e) \/ Resume(e) \/ ReturnState(e)
             \/ AuditResolutions(e) \/ Raise(e)
      PROVE  UNCHANGED Promise!rvars
  BY <1>1, <1>9 DEF StartLaunch, ReadQueue, Resume, ReturnState,
     AuditResolutions, Raise
<1>10. CASE UNCHANGED vars
  BY <1>1, <1>10 DEF vars
<1>11. CASE Otherwise
  BY <1>5, <1>6, <1>7, <1>8, <1>9, <1>10, <1>11 DEF Otherwise
<1>. QED
  BY <1>3, <1>4, <1>11, Steps

\* The invariants of a run of one launch, one process at a time, with what
\* they say of its graph.
LEMMA PromiseInvariant ==
  SingleLaunch /\ OneAtATime =>
    (Spec => [](TypeOK /\ QueueInv /\ PauseInv /\ SerialInv /\ AutoInv
                  /\ Promise!Agrees))
<1>. SUFFICES ASSUME SingleLaunch, OneAtATime
              PROVE  Spec => [](TypeOK /\ QueueInv /\ PauseInv /\ SerialInv
                                  /\ AutoInv /\ Promise!Agrees)
  OBVIOUS
<1>1. Init => AutoInv
  BY DEF Init, AutoInv, Held, EmptyState, NotRejected, NoVerdict
<1>2. TypeOK /\ QueueInv /\ SerialInv /\ AutoInv /\ [Next]_vars => AutoInv'
  BY AutoStep
<1>3. TypeOK /\ WrittenInv /\ PauseInv /\ SerialInv /\ AutoInv => Promise!Agrees
  BY GraphAgrees
<1>. QED
  BY <1>1, <1>2, <1>3, SerialInvariant, PTL DEF Spec

\* One launch and any number of resolvers, one process at a time, implement
\* ReviewedRun: queue and resolutions never change once shown, a pause ends
\* with resolutions, and the graph is written with all that survives them and,
\* unless a checkpoint is lost, nothing else; however far the checkpoint is
\* behind, and whatever fails, is retried or crashes on the way.
THEOREM PromiseIsKept ==
  SingleLaunch /\ OneAtATime => (Spec => PromiseKept)
<1>. SUFFICES ASSUME SingleLaunch, OneAtATime PROVE Spec => PromiseKept
  OBVIOUS
<1>1. Init => Promise!Init
  BY DEF Init, Promise!Init, Promise!Undecided, CheckpointStatus, EmptyState,
         NoVerdict
<1> DEFINE Inv == TypeOK /\ QueueInv /\ PauseInv /\ SerialInv /\ AutoInv
                    /\ Promise!Agrees
<1>2. Inv /\ Inv' /\ [Next]_vars => [Promise!Next]_(Promise!rvars)
  BY PromiseStep
<1>3. Spec => []Inv
  BY PromiseInvariant
<1> HIDE DEF Inv
<1>. QED
  BY <1>1, <1>2, <1>3, PTL DEF Spec, PromiseKept, Promise!Spec

-----------------------------------------------------------------------------
(***************************************************************************)
(* The audit trail: resolutions are recorded of complete runs only.        *)
(***************************************************************************)
TrailInv ==
  \A e \in Executors :
    \/ trail[e] = NoVerdict
    \/ ckpt.state.next = "END" /\ trail[e] = ckpt.state.verdict

\* A step records the resolutions of the complete run, or none; a complete
\* run stays as it is.
LEMMA TrailStep ==
  ASSUME TypeOK, SerialInv, TrailInv, [Next]_vars
  PROVE  TrailInv'
<1> USE DEF audit, saver
<1>1. ASSUME trail' = trail, ckpt'.state = ckpt.state
      PROVE  TrailInv'
  BY <1>1 DEF TrailInv
<1>2. ASSUME NEW e \in Executors, Invoke(e) PROVE TrailInv'
  BY <1>1, <1>2 DEF Invoke, Submit
<1>3. ASSUME NEW e \in Executors, Node(e) PROVE TrailInv'
  <2>1. ckpt' = ckpt
    BY <1>3, NodeShape DEF NodeEffect
  <2>2. trail' = trail
    BY <1>3 DEF Node, Analyse, AutoResolveGate, ResumeGate, InterruptGate,
       PassGate, ApplyResolutions, WriteNodes, WriteEdges, WriteIndex,
       WriteEvidence
  <2>. QED
    BY <1>1, <2>1, <2>2
<1>4. ASSUME NEW i \in DOMAIN inflight, StoreCheckpoint(i) PROVE TrailInv'
  <2>1. After(ckpt.state, inflight[i].state)
    BY DEF SerialInv, Descent
  <2>2. ckpt.state \in PipelineState /\ inflight[i].state \in PipelineState
    BY ChainTypes DEF Chain
  <2>3. ckpt.state.next # "END"
    BY <2>1, <2>2, AfterOrders
  <2>4. trail' = trail
    BY <1>4 DEF StoreCheckpoint
  <2>. QED
    BY <2>3, <2>4 DEF TrailInv
<1>5. ASSUME NEW e \in Executors, AuditResolutions(e) PROVE TrailInv'
  <2>1. /\ phase[e] = "audit_resolutions" /\ ckpt' = ckpt
        /\ \A f \in Executors :
             trail'[f] = trail[f] \/ (f = e /\ trail'[f] = mem[e].verdict)
    BY <1>5 DEF AuditResolutions, TypeOK
  <2>2. mem[e].next = "hitl_gate" \/ (mem[e].next = "END" /\ mem[e] = ckpt.state)
    BY <2>1 DEF SerialInv, Holds, Auditing
  <2>3. mem[e].next = "hitl_gate" => mem[e].verdict = NoVerdict
    BY DEF SerialInv, PlausibleState, Held
  <2>. QED
    BY <2>1, <2>2, <2>3 DEF TrailInv
<1>6. ASSUME NEW e \in Executors,
             AuditStatus(e) \/ AuditFailure(e) \/ CompileFails(e) \/ Crash(e)
      PROVE  TrailInv'
  BY <1>1, <1>6 DEF AuditStatus, AuditFailure, CompileFails, Crash
<1>7. ASSUME NEW e,
             StartLaunch(e) \/ ReadQueue(e) \/ Resume(e) \/ ReturnState(e) \/ Raise(e)
      PROVE  TrailInv'
  BY <1>1, <1>7 DEF StartLaunch, ReadQueue, Resume, ReturnState, Raise
<1>8. ASSUME NEW e \in Executors, ReturnPause(e) PROVE TrailInv'
  <2>1. trail' = trail /\ ckpt'.state = ckpt.state
    BY <1>8 DEF ReturnPause, TypeOK
  <2>. QED
    BY <1>1, <2>1
<1>9. ASSUME NEW i \in DOMAIN inflight, LoseCheckpoint(i) PROVE TrailInv'
  BY <1>1, <1>9 DEF LoseCheckpoint
<1>10. CASE UNCHANGED vars
  BY <1>1, <1>10 DEF vars
<1>11. CASE Otherwise
  BY <1>4, <1>5, <1>6, <1>7, <1>8, <1>9, <1>10, <1>11 DEF Otherwise
<1>. QED
  BY <1>2, <1>3, <1>11, Steps

\* However often a run is resumed, retried or resolved again, one process at
\* a time, the audit trail holds the resolutions the thread went on with and
\* no others, though checkpoints are late and may be lost.
THEOREM TrailIsTrue ==
  SingleLaunch /\ OneAtATime => (Spec => []TrailMatchesCheckpoint)
<1>. SUFFICES ASSUME SingleLaunch, OneAtATime
              PROVE  Spec => []TrailMatchesCheckpoint
  OBVIOUS
<1>1. Init => TrailInv
  BY DEF Init, TrailInv
<1>2. TypeOK /\ SerialInv /\ TrailInv /\ [Next]_vars => TrailInv'
  BY TrailStep
<1>3. TrailInv => TrailMatchesCheckpoint
  BY DEF TrailInv, TrailMatchesCheckpoint
<1>. QED
  BY <1>1, <1>2, <1>3, SerialInvariant, PTL DEF Spec

-----------------------------------------------------------------------------
(***************************************************************************)
(* The audit row, while nobody has died and Postgres answers.  In between  *)
(* it lags behind the checkpoint, so the invariant says what it tells when *)
(* nobody has gone further than reading the queue, and otherwise that the  *)
(* row exists for the last word of the process at work, and that a pause   *)
(* it is about to record shows, unless a checkpoint is lost.               *)
(***************************************************************************)
NobodyDied == \A e \in Executors : phase[e] # "crashed"
Waiting == \A e \in Executors : phase[e] \in Working => phase[e] = "decided"

RowTells ==
  LET LostPause == IF lost = {} THEN {} ELSE {"pending_review"} IN
  CASE CheckpointStatus = "not_found" -> row \in {"absent", "failed"} \cup LostPause
    [] CheckpointStatus = "running" -> row \in {"failed"} \cup LostPause
    [] CheckpointStatus = "pending_review" -> row \in {"pending_review", "failed"}
    [] CheckpointStatus = "complete" -> row \in {"complete", "failed"}

\* The process will interrupt, or has.
AtGate(e) ==
  \/ phase[e] = "pausing"
  \/ AtStage(e, "hitl_gate") /\ ~resumed[e]

PauseShows(e) ==
  /\ phase[e] \in Auditing /\ mem[e].next = "hitl_gate" =>
       ckpt.interrupted \/ lost # {}
  /\ AtGate(e) /\ e \notin lost /\ ~InFlight(e) => ckpt.writer = {e}

RowInv ==
  /\ Waiting => RowTells
  /\ ~Waiting \/ ckpt.state.next # "START" => row # "absent"
  /\ \A e \in Executors : PauseShows(e)

\* A process that has died stays dead.
LEMMA DeathIsFinal ==
  ASSUME TypeOK, [Next]_vars, NobodyDied'
  PROVE  NobodyDied
<1>1. ASSUME NEW e \in Executors, Node(e), NEW f \in Executors,
             phase[f] = "crashed"
      PROVE  phase'[f] = "crashed"
  BY <1>1, NodeShape DEF NodeEffect, Moves, AtStage
<1>2. ASSUME NEW f \in Executors, phase[f] = "crashed"
      PROVE  phase'[f] = "crashed"
  BY <1>1, <1>2 DEF Next, Progress, TypeOK, StartLaunch, ReadQueue, MayStart,
     Invoke, Resume, ReturnPause, ReturnState, StoreCheckpoint, LoseCheckpoint,
     AuditResolutions, AuditStatus, AuditFailure, CompileFails, Raise, Crash,
     Leave, Enter, AtStage, Active, Working, vars
<1>. QED
  BY <1>2 DEF NobodyDied

\* The audit row follows the checkpoint as long as no process has died.
LEMMA RowStep ==
  ASSUME OneAtATime, ~SideStoresMayFail, TypeOK, QueueInv, PauseInv, SerialInv,
         RowInv, PauseInv', SerialInv', NobodyDied', [Next]_vars
  PROVE  RowInv'
<1> USE ConstantsAssumption
<1> USE DEF Enter, Hold, audit, saver, AtStage
<1>1. ASSUME NEW e \in Executors, phase[e] \in Working \/ Active = {},
             \A f \in Executors \ {e} : phase'[f] = phase[f]
      PROVE  \A f \in Executors \ {e} : phase'[f] \notin Working /\ PauseShows(f)'
  <2>1. \A f \in Executors \ {e} : phase'[f] \notin Working
    BY <1>1 DEF SerialInv, Active
  <2>. QED
    BY <2>1 DEF PauseShows, AtGate, Auditing, Working
\* A step after which its process has something to do yet ...
<1>2. ASSUME NEW e \in Executors, phase[e] \in Working \/ Active = {},
             \A f \in Executors \ {e} : phase'[f] = phase[f],
             row' # "absent", PauseShows(e)',
             phase'[e] \in Working \ {"decided"}
      PROVE  RowInv'
  <2>1. \A f \in Executors : PauseShows(f)'
    BY <1>1, <1>2
  <2>2. ~Waiting'
    BY <1>2 DEF Waiting
  <2>. QED
    BY <1>2, <2>1, <2>2 DEF RowInv
\* ... and one after which nobody has.
<1>3. ASSUME NEW e \in Executors, phase[e] \in Working \/ Active = {},
             \A f \in Executors \ {e} : phase'[f] = phase[f],
             phase'[e] \in {"refused", "decided", "done", "failed"},
             RowTells',
             ckpt'.state.next # "START" => row' # "absent"
      PROVE  RowInv'
  <2>1. \A f \in Executors \ {e} : phase'[f] \notin Working /\ PauseShows(f)'
    BY <1>1, <1>3
  <2>2. Waiting' /\ PauseShows(e)'
    BY <1>3, <2>1 DEF Waiting, Working, PauseShows, AtGate, Auditing
  <2>. QED
    BY <1>3, <2>1, <2>2 DEF RowInv
<1>4. UNCHANGED <<ckpt, row, lost>> => RowTells' = RowTells
  BY DEF RowTells, CheckpointStatus
<1>5. ASSUME NEW e \in Executors, phase[e] \in Working \ {"decided"}
      PROVE  row # "absent"
  BY <1>5 DEF RowInv, Waiting
<1>6. Active = {} => Waiting
  BY DEF Active, Waiting
<1>7. ASSUME NEW l \in Launches, StartLaunch(l) PROVE RowInv'
  <2>1. Active = {} /\ l \in Executors
    BY <1>7, StartsAlone DEF StartLaunch, Executors
  <2>2. /\ phase'[l] = "starting" /\ row' # "absent"
        /\ \A f \in Executors \ {l} : phase'[f] = phase[f]
    BY <1>7, <2>1 DEF StartLaunch, TypeOK
  <2>3. PauseShows(l)'
    BY <2>2 DEF PauseShows, AtGate, Auditing
  <2>. QED
    BY <1>2, <2>1, <2>2, <2>3 DEF Working
<1>8. ASSUME NEW r \in Resolvers, ReadQueue(r) PROVE RowInv'
  <2>1. Active = {} /\ r \in Executors
    BY <1>8, StartsAlone DEF ReadQueue, Executors
  <2>2. /\ phase'[r] \in {"refused", "decided"} /\ UNCHANGED <<ckpt, row, lost>>
        /\ \A f \in Executors \ {r} : phase'[f] = phase[f]
    BY <1>8, <2>1 DEF ReadQueue, TypeOK
  <2>. QED
    BY <1>3, <1>4, <1>6, <2>1, <2>2 DEF RowInv
<1>9. ASSUME NEW e \in Executors, Invoke(e) PROVE RowInv'
  <2>1. /\ phase[e] = "starting" /\ phase'[e] = "running" /\ row' = row
        /\ mem'[e].next = "analysis"
        /\ \A f \in Executors \ {e} : phase'[f] = phase[f]
    BY <1>9 DEF Invoke, Submit, TypeOK, PipelineState, Stages
  <2>2. PauseShows(e)'
    BY <2>1 DEF PauseShows, AtGate, Auditing
  <2>. QED
    BY <1>2, <1>5, <2>1, <2>2 DEF Working
<1>10. ASSUME NEW e \in Executors, Resume(e) PROVE RowInv'
  <2>1. /\ e \in Resolvers /\ phase[e] = "decided"
        /\ phase'[e] = IF ckpt.state.next = "END" THEN "audit_resolutions"
                       ELSE "running"
        /\ mem'[e] = ckpt.state /\ UNCHANGED <<ckpt, row>>
        /\ resumed'[e] = (ckpt.state.next = "hitl_gate")
        /\ \A f \in Executors \ {e} : phase'[f] = phase[f]
    BY <1>10 DEF Resume, TypeOK
  <2>2. ckpt.state.next # "START"
    BY <2>1 DEF QueueInv, Early
  <2>3. row # "absent"
    BY <2>2 DEF RowInv
  <2>4. PauseShows(e)'
    BY <2>1 DEF PauseShows, AtGate, Auditing
  <2>. QED
    BY <1>2, <2>1, <2>3, <2>4 DEF Working
<1>11. ASSUME NEW e \in Executors, Node(e) PROVE RowInv'
  <2>1. NodeEffect(e) /\ NodeOutcome(e)
    BY <1>11, NodeShape, NodeSerial
  <2>2. phase[e] \in {"running", "edges"}
    BY <2>1 DEF NodeOutcome, Moves
  <2>3. row' = row
    BY <1>11 DEF Node, Analyse, AutoResolveGate, ResumeGate, InterruptGate,
       PassGate, ApplyResolutions, WriteNodes, WriteEdges, WriteIndex,
       WriteEvidence
  <2>4. phase'[e] \in {"running", "returning", "edges", "pausing"}
    BY <2>1 DEF NodeOutcome, Moves
  <2>5. PauseShows(e)'
    <3>1. CASE Moves(e)
      <4>1. inflight \in Seq(Entry)
        BY DEF TypeOK, Entry
      <4>2. /\ Len(inflight) + 1 \in DOMAIN inflight'
            /\ inflight'[Len(inflight) + 1].writer = e
        BY <3>1, <4>1, SubmitAppends DEF Moves
      <4>3. InFlight(e)'
        BY <4>2 DEF InFlight
      <4>. QED
        BY <2>4, <4>3 DEF PauseShows, Auditing
    <3>2. CASE phase'[e] = "edges"
      BY <3>2 DEF PauseShows, AtGate, Auditing
    <3>3. CASE /\ phase[e] = "running" /\ phase'[e] = "pausing"
               /\ inflight' = inflight
               /\ mem[e].next = "hitl_gate" /\ ~resumed[e]
      <4>1. AtGate(e) /\ (InFlight(e)' <=> InFlight(e))
        BY <3>3 DEF AtGate, InFlight
      <4>2. e \notin lost /\ ~InFlight(e) => ckpt.writer = {e}
        BY <4>1 DEF RowInv, PauseShows
      <4>3. ckpt' = ckpt /\ lost' = lost
        BY <2>1 DEF NodeEffect
      <4>. QED
        BY <3>3, <4>1, <4>2, <4>3 DEF PauseShows, Auditing
    <3>. QED
      BY <2>1, <3>1, <3>2, <3>3 DEF NodeOutcome
  <2>. QED
    BY <1>2, <1>5, <2>1, <2>2, <2>3, <2>4, <2>5 DEF NodeEffect, Working
<1>12. ASSUME NEW i \in DOMAIN inflight, StoreCheckpoint(i) \/ LoseCheckpoint(i)
       PROVE  RowInv'
  <2>1. PICK w \in Executors :
          w = inflight[i].writer /\ phase[w] \in Underway
    BY EntryFields DEF SerialInv, TypeOK, Entry
  <2>2. /\ UNCHANGED <<phase, mem, resumed, row>>
        /\ StoreCheckpoint(i) => ckpt'.writer = {w}
        /\ LoseCheckpoint(i) => w \in lost'
    BY <1>12, <2>1 DEF StoreCheckpoint, LoseCheckpoint
  <2>3. PauseShows(w)'
    <3>1. phase'[w] \notin Auditing
      BY <2>1, <2>2 DEF Underway, Auditing
    <3>. QED
      BY <1>12, <2>2, <3>1 DEF PauseShows
  <2>. QED
    BY <1>2, <1>5, <2>1, <2>2, <2>3 DEF Underway, Working
<1>13. ASSUME NEW e \in Executors, ReturnPause(e) PROVE RowInv'
  <2>1. /\ phase[e] = "pausing" /\ ~InFlight(e)
        /\ phase'[e] = "audit_resolutions" /\ row' = row
        /\ \A f \in Executors \ {e} : phase'[f] = phase[f]
        /\ lost \subseteq lost'
    BY <1>13 DEF ReturnPause, TypeOK
  <2>2. ckpt'.interrupted \/ lost' # {}
    <3>1. CASE e \in lost
      BY <2>1, <3>1
    <3>2. CASE e \notin lost
      <4>1. ckpt.writer = {e}
        BY <2>1, <3>2 DEF RowInv, PauseShows, AtGate
      <4>2. e \in Active /\ mem[e].next = "hitl_gate"
        BY <2>1 DEF Active, Working, SerialInv, Holds
      <4>3. mem[e] = ckpt.state
        BY <2>1, <3>2, <4>2, OnlyItsOwn DEF SerialInv, Descent
      <4>. QED
        BY <1>13, <4>1, <4>2, <4>3 DEF ReturnPause, TypeOK
    <3>. QED
      BY <3>1, <3>2
  <2>3. PauseShows(e)'
    BY <2>1, <2>2 DEF PauseShows, AtGate
  <2>. QED
    BY <1>2, <1>5, <2>1, <2>3 DEF Working
<1>14. ASSUME NEW e \in Executors, ReturnState(e) PROVE RowInv'
  <2>1. /\ phase[e] = "returning"
        /\ phase'[e] \in {"raised", "audit_resolutions"}
        /\ UNCHANGED <<row, mem>>
        /\ \A f \in Executors \ {e} : phase'[f] = phase[f]
    BY <1>14 DEF ReturnState, TypeOK
  <2>2. mem[e].next = "END"
    BY <2>1 DEF SerialInv, Holds
  <2>3. PauseShows(e)'
    BY <2>1, <2>2 DEF PauseShows, AtGate, Auditing
  <2>. QED
    BY <1>2, <1>5, <2>1, <2>3 DEF Working
<1>15. ASSUME NEW e \in Executors, AuditResolutions(e) PROVE RowInv'
  <2>1. /\ phase[e] = "audit_resolutions" /\ phase'[e] = "audit_status"
        /\ UNCHANGED <<row, ckpt, lost, mem>>
        /\ \A f \in Executors \ {e} : phase'[f] = phase[f]
    BY <1>15 DEF AuditResolutions, TypeOK
  <2>2. PauseShows(e)'
    BY <2>1 DEF PauseShows, AtGate, Auditing, RowInv
  <2>. QED
    BY <1>2, <1>5, <2>1, <2>2 DEF Working
<1>16. ASSUME NEW e \in Executors, AuditStatus(e) PROVE RowInv'
  <2>1. /\ phase[e] = "audit_status" /\ phase'[e] = "done"
        /\ ckpt' = ckpt /\ lost' = lost
        /\ \A f \in Executors \ {e} : phase'[f] = phase[f]
    BY <1>16 DEF AuditStatus, Leave, TypeOK
  <2>2. row # "absent"
    BY <1>5, <2>1 DEF Working
  <2>3. row' = IF mem[e].next = "END" THEN "complete" ELSE "pending_review"
    BY <1>16, <2>2 DEF AuditStatus, RecordStatus
  <2>4. CASE mem[e].next = "END"
    <3>1. ckpt.state.next = "END"
      BY <2>1, <2>4 DEF SerialInv, Holds, Auditing
    <3>2. RowTells'
      BY <2>1, <2>3, <2>4, <3>1, StatusOf DEF RowTells, CheckpointStatus
    <3>. QED
      BY <1>3, <2>1, <2>3, <2>4, <3>2 DEF Working
  <2>5. CASE mem[e].next = "hitl_gate"
    <3>1. ckpt.interrupted \/ lost # {}
      BY <2>1, <2>5 DEF RowInv, PauseShows, Auditing
    <3>2. ckpt.state.next # "END"
      <4>1. ckpt.state = mem[e] \/ After(ckpt.state, mem[e])
        BY <2>5 DEF SerialInv, Descent, Chain
      <4>2. ckpt.state \in PipelineState /\ mem[e] \in PipelineState
        BY DEF TypeOK
      <4>. QED
        BY <2>5, <4>1, <4>2, AfterOrders
    <3>3. /\ CheckpointStatus \in {"not_found", "running", "pending_review"}
          /\ lost = {} => CheckpointStatus = "pending_review"
      BY <3>1, <3>2, StatusOf
    <3>4. RowTells'
      <4>1. CheckpointStatus' = CheckpointStatus /\ row' = "pending_review"
        BY <2>1, <2>3, <2>5 DEF CheckpointStatus
      <4>. QED
        BY <2>1, <3>3, <4>1 DEF RowTells
    <3>. QED
      BY <1>3, <2>1, <2>3, <2>5, <3>4 DEF Working
  <2>. QED
    BY <2>1, <2>4, <2>5 DEF SerialInv, Holds, Auditing
<1>17. ASSUME NEW e \in Executors, AuditFailure(e) PROVE RowInv'
  <2>1. /\ phase[e] = "raised" /\ phase'[e] = "failed"
        /\ ckpt' = ckpt /\ lost' = lost
        /\ \A f \in Executors \ {e} : phase'[f] = phase[f]
    BY <1>17 DEF AuditFailure, Leave, TypeOK
  <2>2. row # "absent"
    BY <1>5, <2>1 DEF Working
  <2>3. row' = "failed"
    BY <1>17, <2>2 DEF AuditFailure, RecordStatus
  <2>4. CheckpointStatus' = CheckpointStatus
    BY <2>1 DEF CheckpointStatus
  <2>5. RowTells'
    BY <2>3, <2>4, StatusOf DEF RowTells
  <2>. QED
    BY <1>3, <2>1, <2>3, <2>5 DEF Working
<1>18. ASSUME NEW e \in Executors, CompileFails(e) PROVE RowInv'
  <2>1. /\ phase'[e] = "failed" /\ UNCHANGED <<ckpt, row, lost>>
        /\ \A f \in Executors \ {e} : phase'[f] = phase[f]
    BY <1>18 DEF CompileFails, Leave, TypeOK
  <2>2. Active = {} \/ phase[e] = "decided"
    BY <1>18, StartsAlone DEF CompileFails
  <2>3. Waiting /\ (phase[e] \in Working \/ Active = {})
    <3>1. CASE phase[e] = "decided"
      <4>1. \A f \in Executors : phase[f] \in Working => f = e
        BY <3>1 DEF SerialInv, Active, Working
      <4>. QED
        BY <3>1, <4>1 DEF Waiting, Working
    <3>. QED
      BY <1>6, <2>2, <3>1
  <2>. QED
    BY <1>3, <1>4, <2>1, <2>3 DEF RowInv
<1>19. ASSUME NEW e \in Executors, Raise(e) PROVE RowInv'
  <2>1. /\ phase'[e] = "raised" /\ row' = row
        /\ \A f \in Executors \ {e} : phase'[f] = phase[f]
        /\ phase[e] \in {"starting", "decided", "running", "edges", "pausing"}
    BY <1>19 DEF Raise, TypeOK
  <2>2. row # "absent"
    <3>1. CASE phase[e] = "decided"
      <4>1. e \in Resolvers
        BY <3>1 DEF SerialInv, Holds
      <4>2. ckpt.state.next # "START"
        BY <3>1, <4>1 DEF QueueInv, Early
      <4>. QED
        BY <4>2 DEF RowInv
    <3>. QED
      BY <1>5, <2>1, <3>1 DEF Working
  <2>3. PauseShows(e)'
    BY <2>1 DEF PauseShows, AtGate, Auditing
  <2>. QED
    BY <1>2, <2>1, <2>2, <2>3 DEF Working
<1>20. ASSUME NEW e \in Executors, Crash(e) PROVE FALSE
  BY <1>20 DEF Crash, Leave, NobodyDied, TypeOK
<1>21. CASE UNCHANGED vars
  BY <1>4, <1>21 DEF vars, RowInv, Waiting, PauseShows, AtGate, InFlight
<1>22. CASE Otherwise
  BY <1>7, <1>8, <1>10, <1>12, <1>13, <1>14, <1>15, <1>16, <1>17, <1>18, <1>19,
     <1>20, <1>21, <1>22 DEF Otherwise
<1>. QED
  BY <1>9, <1>11, <1>22, Steps

\* When no process is at work the audit row tells what the checkpoint tells,
\* for any number of resolvers, failed calls and lost checkpoints, provided
\* processes ran one at a time, Postgres was up and nobody died.
THEOREM RowIsTrue ==
  SingleLaunch /\ OneAtATime /\ ~SideStoresMayFail =>
    (Spec => []AuditAgreesAtRest)
<1>. SUFFICES ASSUME SingleLaunch, OneAtATime, ~SideStoresMayFail
              PROVE  Spec => []AuditAgreesAtRest
  OBVIOUS
<1> DEFINE Told == NobodyDied => RowInv
           Inv == TypeOK /\ QueueInv /\ PauseInv /\ SerialInv
<1>1. Init => Told
  BY DEF Init, RowInv, Waiting, RowTells, CheckpointStatus, EmptyState, Working,
     PauseShows, AtGate, AtStage, Auditing
<1>2. Inv /\ Inv' /\ Told /\ [Next]_vars => Told'
  BY DeathIsFinal, RowStep
<1>3. Told => AuditAgreesAtRest
  BY DEF RowInv, RowTells, Waiting, NobodyDied, AuditAgreesAtRest, AtRest,
     Active
<1>4. Spec => []Inv
  BY SerialInvariant, PTL
<1> HIDE DEF Told, Inv
<1>. QED
  BY <1>1, <1>2, <1>3, <1>4, PTL DEF Spec
=============================================================================
