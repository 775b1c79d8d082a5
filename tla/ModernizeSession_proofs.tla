----------------------- MODULE ModernizeSession_proofs -----------------------
(***************************************************************************)
(* What the Modernize page shows, for any runs, requests, answers of the    *)
(* model, failures, and any length of the session.                          *)
(***************************************************************************)
EXTENDS ModernizeSession, SequenceFacts

\* What a page keeps of one run.
Shaped(p) ==
  p \in [pending : {p.pending}, result : {p.result}, saved : {p.saved},
         draft : {p.draft}, draftSaved : {p.draftSaved}]

Pages == DOMAIN page = Threads /\ \A t \in Threads : Shaped(page[t])

\* What LatestAnalysisShown says of the page of one run.
Shows(p, newest, facts) ==
  /\ p.pending # None => p.result = None /\ p.pending.id = newest
  /\ p.result # None => /\ p.result.id = newest
                        /\ p.result.confirmed \/ p.result.same \/ facts.deps = <<>>
  /\ p.saved # None => p.result # None

SessionInv ==
  /\ Pages
  /\ latest = [t \in Threads |-> latest[t]]
  /\ \A t \in Threads : Shows(page[t], latest[t], FactsOf[t])

\* What an analysis leaves of the page before its own outcome.
LEMMA RestageGives ==
  ASSUME NEW p, Shaped(p)
  PROVE  /\ Shaped(Restage(p))
         /\ Restage(p).pending = None /\ Restage(p).result = None /\ Restage(p).saved = None
         /\ Restage(p).draft = p.draft
<1>1. Restage(p) \in [pending : {None}, result : {None}, saved : {None},
                      draft : {p.draft}, draftSaved : {p.draftSaved}]
  BY DEF Shaped, Restage
<1>. QED
  BY <1>1 DEF Shaped

\* Finishing a staged analysis gives its result, or nothing.
LEMMA FinishShows ==
  ASSUME NEW p, Shaped(p), NEW staged, NEW newest, NEW facts, NEW ok \in BOOLEAN,
         staged.id = newest, p.pending = None, p.result = None, p.saved = None,
         staged.confirmed \/ staged.reply.same \/ facts.deps = <<>>
  PROVE  Shaped(Finish(p, staged, ok)) /\ Shows(Finish(p, staged, ok), newest, facts)
<1>1. CASE ok
  <2>1. Finish(p, staged, ok) = [pending |-> None, result |-> Finished(staged), saved |-> None,
                                 draft |-> p.draft, draftSaved |-> p.draftSaved]
    BY <1>1 DEF Finish, Shaped
  <2>2. Finished(staged).id = newest /\ Finished(staged).confirmed = staged.confirmed
        /\ Finished(staged).same = staged.reply.same
    BY DEF Finished
  <2>. QED
    BY <2>1, <2>2 DEF Shaped, Shows
<1>2. CASE ~ok
  BY <1>2 DEF Finish, Shows
<1>. QED
  BY <1>1, <1>2

\* What changes the page of one run and its newest analysis keeps the invariant.
LEMMA OnePage ==
  ASSUME SessionInv, NEW t, NEW p, NEW newest,
         page' = [page EXCEPT ![t] = p], latest' = [latest EXCEPT ![t] = newest],
         t \in Threads => Shaped(p) /\ Shows(p, newest, FactsOf[t])
  PROVE  SessionInv'
BY DEF SessionInv, Pages

\* Every step keeps it: an analysis removes what the page had, a confirmation uses it up.
LEMMA SessionStep == SessionInv /\ [Next]_vars => SessionInv'
<1>. SUFFICES ASSUME SessionInv, [Next]_vars PROVE SessionInv'
  OBVIOUS
<1>1. CASE UNCHANGED <<page, latest>>
  BY <1>1 DEF SessionInv, Pages
<1>2. ASSUME NEW reply \in Replies, NEW online \in BOOLEAN, NEW ok \in BOOLEAN, Analyze(reply, online, ok)
      PROVE SessionInv'
  <2>. DEFINE t == Current
              staged == Staged(analyses + 1, t, reply, online)
              emptied == Restage(page[t])
              p == IF ~reply.same /\ FactsOf[t].deps # <<>> THEN [emptied EXCEPT !.pending = staged]
                   ELSE Finish(emptied, staged, ok)
  <2>1. page' = [page EXCEPT ![t] = p] /\ latest' = [latest EXCEPT ![t] = analyses + 1]
    BY <1>2 DEF Analyze
  <2>2. staged.id = analyses + 1 /\ staged.reply.same = reply.same
    BY DEF Staged
  <2>3. ASSUME t \in Threads PROVE Shaped(p) /\ Shows(p, analyses + 1, FactsOf[t])
    <3>1. /\ Shaped(emptied)
          /\ emptied.pending = None /\ emptied.result = None /\ emptied.saved = None
      BY <2>3, RestageGives DEF SessionInv, Pages
    <3>. HIDE DEF staged, emptied
    <3>2. CASE ~reply.same /\ FactsOf[t].deps # <<>>
      BY <2>2, <3>1, <3>2 DEF Shaped, Shows
    <3>3. CASE reply.same \/ FactsOf[t].deps = <<>>
      <4>1. staged.confirmed \/ staged.reply.same \/ FactsOf[t].deps = <<>>
        BY <2>2, <3>3
      <4>. QED
        BY <2>2, <3>1, <3>3, <4>1, FinishShows
    <3>. QED
      BY <3>2, <3>3
  <2>. QED
    BY <2>1, <2>3, OnePage
<1>3. ASSUME NEW ok \in BOOLEAN, ConfirmDependencies(ok) PROVE SessionInv'
  <2>. DEFINE t == picked
              emptied == [page[t] EXCEPT !.pending = None]
  <2>1. PICK mappings :
          page' = [page EXCEPT ![t] =
            Finish([@ EXCEPT !.pending = None], [@.pending EXCEPT !.mappings = mappings, !.confirmed = TRUE], ok)]
    BY <1>3, Zenon DEF ConfirmDependencies
  <2>. DEFINE staged == [page[t].pending EXCEPT !.mappings = mappings, !.confirmed = TRUE]
  <2>2. page[t].pending # None /\ latest' = latest
    BY <1>3 DEF ConfirmDependencies
  <2>3. ASSUME t \in Threads PROVE Shaped(Finish(emptied, staged, ok)) /\ Shows(Finish(emptied, staged, ok), latest[t], FactsOf[t])
    <3>1. staged.id = latest[t] /\ staged.confirmed
      BY <2>2, <2>3 DEF SessionInv, Shows
    <3>2. /\ Shaped(emptied)
          /\ emptied.pending = None /\ emptied.result = None /\ emptied.saved = None
      BY <2>2, <2>3 DEF SessionInv, Pages, Shaped, Shows
    <3>. QED
      BY <3>1, <3>2, FinishShows
  <2>4. latest' = [latest EXCEPT ![t] = latest[t]]
    BY <2>2 DEF SessionInv
  <2>. QED
    BY <2>1, <2>3, <2>4, OnePage
<1>4. ASSUME NEW request \in Requests, AnalyzeTargeted(request) PROVE SessionInv'
  BY <1>4 DEF AnalyzeTargeted, SessionInv, Pages, Shaped, Shows
<1>5. ASSUME NEW ok \in BOOLEAN, SaveMigration(ok) PROVE SessionInv'
  BY <1>5 DEF SaveMigration, SessionInv, Pages, Shaped, Shows
<1>6. ASSUME NEW ok \in BOOLEAN, SaveDraft(ok) PROVE SessionInv'
  BY <1>6 DEF SaveDraft, SessionInv, Pages, Shaped, Shows
<1>. QED
  BY <1>1, <1>2, <1>3, <1>4, <1>5, <1>6
  DEF Next, vars, CompleteRun, IngestHere, PickProject, Redraw, RefuseAnalysis, Tick, CliEnhance, CliMigrate

\* The page shows and saves only what came of the last analysis of the project, and another
\* language only after its mapping was confirmed (_run_full_migration_analysis, planner.py).
THEOREM LatestIsShown == Spec => []LatestAnalysisShown
<1>1. Init => SessionInv
  BY DEF Init, Blank, SessionInv, Pages, Shaped, Shows
<1>2. SessionInv => LatestAnalysisShown
  BY DEF SessionInv, Shows, LatestAnalysisShown
<1>. QED
  BY <1>1, <1>2, SessionStep, PTL DEF Spec

(***************************************************************************)
(* The picker                                                              *)
(***************************************************************************)
\* What is listed first is one of the runs listed.
LEMMA TopIsListed ==
  ASSUME NEW list, list \cap Threads # {}
  PROVE  Top(list) \in list \cap Threads
<1>. DEFINE OnTop(i) == Started[i] \in list /\ \A j \in DOMAIN Started : Started[j] \in list => i <= j
            S == {i \in DOMAIN Started : Started[i] \in list}
            k == CHOOSE i \in DOMAIN Started : OnTop(i)
<1>1. DOMAIN Started \subseteq Nat /\ Threads = {Started[i] : i \in DOMAIN Started}
  BY SessionAssumption DEF Threads, Range
<1>2. PICK i \in S : \A j \in S : i <= j
  BY <1>1, HasLeast
<1>3. \E i_1 \in DOMAIN Started : OnTop(i_1)
  BY <1>2
<1>. HIDE DEF OnTop
<1>4. k \in DOMAIN Started /\ OnTop(k)
  BY <1>3, Zenon
<1>5. Top(list) = Started[k]
  BY DEF Top, OnTop
<1>. HIDE DEF k
<1>. QED
  BY <1>1, <1>4, <1>5 DEF OnTop

\* The choice of a label is a run of the list with that label, if there is one.
LEMMA FirstHasLabel ==
  ASSUME NEW list, list \subseteq Threads, NEW t \in list
  PROVE  First(list, Label[t]) \in list /\ Label[First(list, Label[t])] = Label[t]
<1>. DEFINE labelled == {u \in list : Label[u] = Label[t]}
<1>1. Top(labelled) \in labelled
  BY TopIsListed
<1>. QED
  BY <1>1 DEF First

\* The selection is a run of the list, now and when the page was drawn last, and has one of
\* the labels it may have; unless it has the label chosen last, or shares its own, the next
\* choice meets the widget that was drawn.
PickInv ==
  /\ rendered \subseteq runs /\ runs \subseteq Threads
  /\ picked = None => wanted = None /\ rendered = {}
  /\ wanted = None => picked = None
  /\ picked # None =>
       /\ picked \in runs /\ Label[picked] \in possible
       /\ Label[picked] = wanted \/ index = picked \/ Shared

\* Every run has a label.
LEMMA HasLabel == ASSUME NEW t \in Threads PROVE Label[t] # None
  BY SessionAssumption DEF Range

\* Drawing the page keeps the label of what was selected.
LEMMA DrawKeepsLabel ==
  ASSUME PickInv, Draw, runs' = runs
  PROVE  PickInv'
<1>1. CASE picked = None
  <2>1. Current \in runs
    BY <1>1, TopIsListed DEF PickInv, Draw, Current
  <2>2. /\ picked' = Current /\ wanted' = Label[Current] /\ Label[Current] \in possible'
        /\ rendered' = runs /\ Current \in Threads
    BY <1>1, <2>1 DEF PickInv, Draw, DrawList, Choice
  <2>. QED
    BY <2>1, <2>2, SessionAssumption, HasLabel DEF PickInv
<1>2. CASE picked # None
  <2>1. Current \in runs /\ Label[Current] = Label[picked]
    BY <1>2, FirstHasLabel DEF PickInv, Current
  <2>2. /\ picked' = Current /\ rendered' = runs /\ index' = picked
        /\ UNCHANGED <<wanted, possible>>
    BY <1>2 DEF PickInv, Draw, DrawList, Default
  <2>3. Current # picked => Shared'
    BY <1>2, <2>1, <2>2 DEF PickInv, Shared
  <2>. QED
    BY <1>2, <2>1, <2>2, <2>3, SessionAssumption, HasLabel DEF PickInv
<1>. QED
  BY <1>1, <1>2

\* A choice is taken by the widget it was made in, and lost to another one.
LEMMA PickKeepsLabel ==
  ASSUME PickInv, NEW t \in Threads, PickProject(t)
  PROVE  PickInv'
<1>. DEFINE heard == rendered = runs /\ index = Default
            twice == Label[t] = wanted /\ rendered = runs /\ ~Shared
<1>1. /\ picked' = (IF heard THEN First(runs, Label[t]) ELSE Current)
      /\ rendered' = runs /\ runs' = runs /\ index' = Default /\ wanted' = Label[t]
      /\ possible' = {Label[t]} \cup (IF twice THEN {} ELSE {Label[picked]})
      /\ t \in rendered /\ t \in runs
  BY DEF PickProject, DrawList, Choice, PickInv
<1>. HIDE DEF heard, twice
<1>2. wanted' # None
  BY <1>1, SessionAssumption, HasLabel
<1>3. CASE heard
  <2>1. First(runs, Label[t]) \in runs /\ Label[First(runs, Label[t])] = Label[t]
    BY <1>1, FirstHasLabel DEF PickInv
  <2>. QED
    BY <1>1, <1>2, <1>3, <2>1, SessionAssumption, HasLabel DEF PickInv
<1>4. picked # None
  BY <1>1 DEF PickInv
<1>5. CASE ~heard
  <2>1. Current \in runs /\ Label[Current] = Label[picked] /\ Default = picked
    BY <1>4, FirstHasLabel DEF PickInv, Current, Default
  <2>2. twice => Label[picked] = wanted
    BY <1>4, <1>5, <2>1 DEF PickInv, heard, twice
  <2>3. Current # picked => Shared'
    BY <1>1, <1>4, <1>5, <2>1 DEF PickInv, Shared
  <2>4. Label[picked'] \in possible'
    BY <1>1, <1>5, <2>1, <2>2 DEF twice
  <2>. QED
    BY <1>1, <1>2, <1>5, <2>1, <2>3, <2>4, SessionAssumption, HasLabel DEF PickInv
<1>. QED
  BY <1>3, <1>5

\* A run that completes only adds to the list.
LEMMA PickStep == PickInv /\ [Next]_vars => PickInv'
<1>. SUFFICES ASSUME PickInv, [Next]_vars PROVE PickInv'
  OBVIOUS
<1>1. CASE UNCHANGED <<runs, draw>>
  BY <1>1 DEF PickInv, Shared, draw
<1>2. ASSUME NEW t \in Threads, CompleteRun(t) PROVE PickInv'
  BY <1>2 DEF CompleteRun, PickInv, Shared, draw
<1>3. ASSUME NEW t \in Threads, IngestHere(t) PROVE PickInv'
  <2>1. picked' \in runs' /\ Label[picked'] = Label[t] /\ runs' \subseteq Threads
    BY <1>3, FirstHasLabel DEF IngestHere, DrawList, PickInv
  <2>2. wanted' = Label[t] /\ Label[t] \in possible' /\ rendered' = runs'
    BY <1>3 DEF IngestHere, DrawList, Choice
  <2>. QED
    BY <2>1, <2>2, SessionAssumption, HasLabel DEF PickInv
<1>4. ASSUME NEW t \in Threads, PickProject(t) PROVE PickInv'
  BY <1>4, PickKeepsLabel
<1>5. CASE Draw /\ runs' = runs
  BY <1>5, DrawKeepsLabel
<1>6. CASE Redraw \/ RefuseAnalysis
  BY <1>5, <1>6 DEF Redraw, RefuseAnalysis
<1>7. ASSUME NEW request \in Requests, AnalyzeTargeted(request) PROVE PickInv'
  BY <1>5, <1>7 DEF AnalyzeTargeted
<1>8. ASSUME NEW reply, NEW online, NEW ok, Analyze(reply, online, ok) PROVE PickInv'
  BY <1>5, <1>8 DEF Analyze
<1>9. ASSUME NEW ok \in BOOLEAN, ConfirmDependencies(ok) \/ SaveMigration(ok) \/ SaveDraft(ok)
      PROVE PickInv'
  BY <1>5, <1>9 DEF ConfirmDependencies, SaveMigration, SaveDraft, Pressed
<1>10. ASSUME NEW t, NEW request, NEW ok, CliEnhance(t, request, ok) PROVE PickInv'
  BY <1>1, <1>10 DEF CliEnhance
<1>11. ASSUME NEW t, NEW reply, NEW online, NEW ok, CliMigrate(t, reply, online, ok) PROVE PickInv'
  BY <1>1, <1>11 DEF CliMigrate
<1>12. CASE Tick
  BY <1>1, <1>12 DEF Tick
<1>13. CASE UNCHANGED vars
  BY <1>1, <1>13 DEF vars
<1>. QED
  BY <1>2, <1>3, <1>4, <1>6, <1>7, <1>8, <1>9, <1>10, <1>11, <1>12, <1>13, Zenon DEF Next

\* The picker's invariant holds throughout a session.
LEMMA PickInvariant == Spec => []PickInv
<1>1. Init => PickInv
  BY DEF Init, PickInv
<1>. QED
  BY <1>1, PickStep, PTL DEF Spec

\* The picker takes a choice or keeps the selection's label, and takes a choice made twice,
\* while runs complete and the list shifts (select_project's keyless selectbox and
\* labels.index).
THEOREM LabelIsKept == Spec => []PickedAsWanted
<1>1. PickInv => PickedAsWanted
  BY DEF PickInv, PickedAsWanted
<1>. QED
  BY <1>1, PickInvariant, PTL

(***************************************************************************)
(* The mapping tables                                                      *)
(***************************************************************************)
Row(m) ==
  m \in [name : {m.name}, eco : {m.eco}, target : {m.target}, targetEco : {m.targetEco},
         verified : {m.verified}, edited : {m.edited}]

\* What VerifiedExists and DependenciesAccounted say of one table of a run.
Marks(table) ==
  \A m \in table : m.verified => m.edited \/ <<m.targetEco, m.target>> \in Registry
Accounts(table, deps) ==
  \A i \in DOMAIN deps :
    \/ \E m \in table : m.name = deps[i].name /\ m.eco = deps[i].eco
    \/ \E j \in DOMAIN deps : j # i /\ deps[j].name = deps[i].name

TableOk(table, deps) == Marks(table) /\ Accounts(table, deps) /\ \A m \in table : Row(m)

(***************************************************************************)
(* The directories                                                         *)
(***************************************************************************)
Kinds == {"migrations", "modifications"}

\* What the page shows of a kind, and the files a proposal of that kind leaves.
Shown(p, kind) == IF kind = "migrations" THEN p.result ELSE p.draft
Held(kind, proposal) ==
  IF kind = "migrations" THEN Contents(proposal.id, proposal.generated) ELSE DraftContents(proposal)

\* A plan, a result and a draft of a run are what its graph, its manifests and its files give.
PlanOk(staged, t) ==
  /\ staged \in [id : {staged.id}, reply : {staged.reply}, units : {staged.units},
                 confirmed : {staged.confirmed}, mappings : {staged.mappings}]
  /\ staged.units = GatherUnits(FactsOf[t]) /\ TableOk(staged.mappings, FactsOf[t].deps)
ResultOk(r, t) ==
  /\ r.units = GatherUnits(FactsOf[t]) /\ TableOk(r.mappings, FactsOf[t].deps)
  /\ DOMAIN r.generated = DOMAIN r.units /\ r.warned = Warned(r.units, r.generated)
Sound(kind, proposal, t) ==
  IF kind = "migrations" THEN ResultOk(proposal, t) ELSE proposal.files \subseteq FactsOf[t].disk

PageOk(t, p, newest) ==
  /\ \A kind \in Kinds : Shown(p, kind) # None =>
       Shown(p, kind).id \in 1..newest /\ Sound(kind, Shown(p, kind), t)
  /\ p.pending # None => p.pending.id \in 1..newest /\ PlanOk(p.pending, t)

\* A directory into which one proposal was saved holds its files: the one its manifest
\* names, and the one the page may save again. A plan that waits was not saved anywhere.
DirOk(d, dir, p, newest) ==
  /\ dir.of # {} /\ dir.of \subseteq 1..newest
  /\ dir.manifest # None =>
       /\ dir.manifest.id \in dir.of /\ Sound(d[2], dir.manifest, d[1])
       /\ dir.of = {dir.manifest.id} => dir.files = Held(d[2], dir.manifest)
  /\ Shown(p, d[2]) # None /\ dir.of = {Shown(p, d[2]).id} =>
       dir.files = Held(d[2], Shown(p, d[2])) /\ dir.manifest \in {None, Shown(p, d[2])}
  /\ d[2] = "migrations" /\ p.pending # None => p.pending.id \notin dir.of

FilesInv ==
  /\ analyses \in Nat
  /\ \A t \in Threads : PageOk(t, page[t], analyses)
  /\ \A d \in DOMAIN outputs :
       d[1] \in Threads /\ d[2] \in Kinds /\ DirOk(d, outputs[d], page[d[1]], analyses)

\* A name that is declared is looked up as a declaration of that name.
LEMMA ByNameDeclares ==
  ASSUME NEW deps, deps \in Seq(Range(deps)), NEW name \in Names(deps)
  PROVE  \E k \in DOMAIN deps : ByName(deps, name) = deps[k] /\ deps[k].name = name
<1>. DEFINE S == {i \in DOMAIN deps : deps[i].name = name}
            LastOne(i) == deps[i].name = name /\ \A j \in DOMAIN deps : deps[j].name = name => j <= i
            k == CHOOSE i \in DOMAIN deps : LastOne(i)
<1>1. S # {} /\ S \subseteq 1..Len(deps) /\ Len(deps) \in Nat
  BY DEF Names
<1>2. \E i \in S : \A j \in S : j <= i
  BY <1>1, Extremes
<1>3. \E i \in DOMAIN deps : LastOne(i)
  BY <1>2
<1>4. ByName(deps, name) = deps[k]
  BY DEF ByName
<1>. HIDE DEF LastOne
<1>5. k \in DOMAIN deps /\ LastOne(k)
  BY <1>3, Zenon
<1>6. deps[k].name = name
  BY <1>5 DEF LastOne
<1>. QED
  BY <1>4, <1>5, <1>6

\* What the model proposed and what carries over account for every dependency, before and
\* after the registries were asked.
LEMMA StagedTable ==
  ASSUME NEW t \in Threads, NEW id, NEW reply, NEW online \in BOOLEAN
  PROVE  TableOk(Staged(id, t, reply, online).mappings, FactsOf[t].deps)
<1>. DEFINE deps == FactsOf[t].deps
            proposed == Proposed(deps, reply)
            unchecked == ProposeDependencyMappings(deps, reply)
            table == {VerifyOne(m, online) : m \in unchecked}
<1>1. deps \in Seq(Range(deps))
  BY SessionAssumption
<1>2. Staged(id, t, reply, online).mappings = table
  BY DEF Staged
<1>. HIDE DEF deps
<1>3. \A m \in unchecked : Row(m)
  BY DEF ProposeDependencyMappings, Proposed, Mapping, Row
<1>4. \A m \in unchecked : Row(VerifyOne(m, online)) /\ VerifyOne(m, online).name = m.name
                           /\ VerifyOne(m, online).eco = m.eco
                           /\ (VerifyOne(m, online).verified =>
                                 <<VerifyOne(m, online).targetEco, VerifyOne(m, online).target>> \in Registry)
  BY <1>3 DEF VerifyOne, Row
<1>5. ASSUME NEW i \in DOMAIN deps
      PROVE  \/ \E m \in unchecked : m.name = deps[i].name /\ m.eco = deps[i].eco
             \/ \E j \in DOMAIN deps : j # i /\ deps[j].name = deps[i].name
  <2>1. CASE deps[i].name \in {m.name : m \in proposed}
    <3>1. PICK m \in proposed : m.name = deps[i].name
      BY <2>1
    <3>2. PICK a \in {a \in reply.mappings : a.name \in Names(deps)} :
             m = Mapping(ByName(deps, a.name), a.target, a.eco)
      BY <3>1 DEF Proposed
    <3>3. PICK k \in DOMAIN deps : ByName(deps, a.name) = deps[k]
      BY <1>1, <3>2, ByNameDeclares
    <3>4. m.name = deps[k].name /\ m.eco = deps[k].eco
      BY <3>2, <3>3 DEF Mapping
    <3>5. m \in unchecked
      BY <3>1 DEF ProposeDependencyMappings
    <3>. QED
      BY <3>1, <3>4, <3>5
  <2>2. CASE deps[i].name \notin {m.name : m \in proposed}
    <3>. DEFINE m == Mapping(deps[i], deps[i].name, deps[i].eco)
    <3>1. m \in unchecked
      BY <2>2 DEF ProposeDependencyMappings
    <3>2. m.name = deps[i].name /\ m.eco = deps[i].eco
      BY DEF Mapping
    <3>. QED
      BY <3>1, <3>2
  <2>. QED
    BY <2>1, <2>2
<1>. HIDE DEF unchecked
<1>6. Marks(table) /\ \A m \in table : Row(m)
  BY <1>4 DEF Marks
<1>7. \A m \in unchecked : \E o \in table : o.name = m.name /\ o.eco = m.eco
  BY <1>4
<1>8. Accounts(table, deps)
  <2>. HIDE DEF table
  <2>. QED
    BY <1>5, <1>7 DEF Accounts
<1>. QED
  BY <1>2, <1>6, <1>8 DEF TableOk, deps

\* A person may change a row, which then says so, but not what it is a replacement for.
LEMMA ConfirmedTable ==
  ASSUME NEW table, NEW deps, TableOk(table, deps), NEW mappings \in Confirmable(table)
  PROVE  TableOk(mappings, deps)
<1>1. CASE mappings = table
  BY <1>1
<1>2. CASE mappings # table
  <2>1. PICK m \in table, e \in Edits : mappings = (table \ {m}) \cup {Edited(m, e)}
    BY <1>2 DEF Confirmable
  <2>2. Row(Edited(m, e)) /\ Edited(m, e).name = m.name /\ Edited(m, e).eco = m.eco /\ Edited(m, e).edited
    BY DEF TableOk, Row, Edited
  <2>. HIDE DEF Edited
  <2>3. Marks(mappings) /\ \A n \in mappings : Row(n)
    BY <2>1, <2>2 DEF TableOk, Marks
  <2>4. Accounts(mappings, deps)
    <3>1. \A n \in table : \E o \in mappings : o.name = n.name /\ o.eco = n.eco
      BY <2>1, <2>2
    <3>. QED
      BY <3>1 DEF TableOk, Accounts
  <2>. QED
    BY <2>3, <2>4 DEF TableOk
<1>. QED
  BY <1>1, <1>2

\* Files written over no files, or over themselves, are what was written.
LEMMA WrittenOver ==
  ASSUME NEW f, f = [x \in DOMAIN f |-> f[x]]
  PROVE  Over(f, <<>>) = f /\ Over(f, f) = f
BY DEF Over

\* Saving keeps what directories promise, when the proposal is the one shown or a new one.
LEMMA WriteKeeps ==
  ASSUME NEW t \in Threads, NEW kind \in Kinds, NEW s, NEW proposal, NEW ok \in BOOLEAN, NEW newest \in Nat,
         \A d \in DOMAIN outputs :
           d[1] \in Threads /\ d[2] \in Kinds /\ DirOk(d, outputs[d], page[d[1]], newest),
         Write(<<t, kind, s>>, Held(kind, proposal), proposal, ok),
         proposal.id \in 1..newest, Sound(kind, proposal, t),
         kind = "migrations" /\ page[t].pending # None => page[t].pending.id # proposal.id,
         \/ proposal = Shown(page[t], kind) /\ proposal # None
         \/ /\ \A d \in DOMAIN outputs : proposal.id \notin outputs[d].of
            /\ Shown(page[t], kind) # None => Shown(page[t], kind).id # proposal.id
  PROVE  \A d \in DOMAIN outputs' :
           d[1] \in Threads /\ d[2] \in Kinds /\ DirOk(d, outputs'[d], page[d[1]], newest)
<1>. DEFINE d == <<t, kind, s>>
            files == Held(kind, proposal)
            old == Dir(d)
            stored == Stored(d, files, ok)
            dir == [files |-> Over(files, old.files), of |-> old.of \cup {proposal.id},
                    manifest |-> IF stored THEN proposal ELSE old.manifest]
<1>1. outputs' = outputs \/ outputs' = [e \in DOMAIN outputs \cup {d} |-> IF e = d THEN dir ELSE outputs[e]]
  BY DEF Write
<1>2. d[1] = t /\ d[2] = kind
  OBVIOUS
<1>3. dir.files = Over(files, old.files) /\ dir.of = old.of \cup {proposal.id}
      /\ dir.manifest \in {proposal, old.manifest}
  OBVIOUS
<1>4. files = [x \in DOMAIN files |-> files[x]]
  BY DEF Held, Contents, DraftContents
<1>. HIDE DEF files, stored, d
<1>5. DirOk(d, dir, page[t], newest)
  <2>1. CASE d \notin DOMAIN outputs
    <3>1. old.files = <<>> /\ old.of = {} /\ old.manifest = None
      BY <2>1 DEF Dir, Absent
    <3>2. dir.files = files /\ dir.of = {proposal.id} /\ dir.manifest \in {None, proposal}
      BY <1>3, <1>4, <3>1, WrittenOver
    <3>. HIDE DEF dir
    <3>. QED
      BY <1>2, <3>2 DEF DirOk, files
  <2>2. CASE d \in DOMAIN outputs
    <3>1. old = outputs[d] /\ DirOk(d, old, page[t], newest)
      BY <1>2, <2>2 DEF Dir
    <3>2. dir.of # {} /\ dir.of \subseteq 1..newest
      BY <1>3, <3>1 DEF DirOk
    <3>3. dir.manifest # None => dir.manifest.id \in dir.of /\ Sound(d[2], dir.manifest, d[1])
      BY <1>2, <1>3, <3>1 DEF DirOk
    <3>4. kind = "migrations" /\ page[t].pending # None => page[t].pending.id \notin dir.of
      BY <1>2, <1>3, <3>1 DEF DirOk
    <3>5. ASSUME NEW id, dir.of = {id}
          PROVE  /\ id = proposal.id
                 /\ Shown(page[t], kind) # None => Shown(page[t], kind) = proposal \/ Shown(page[t], kind).id # id
                 /\ dir.files = files /\ dir.manifest \in {None, proposal}
      <4>1. id = proposal.id /\ old.of = {id}
        <5>1. old.of # {}
          BY <3>1 DEF DirOk
        <5>2. old.of \cup {proposal.id} = {id}
          BY <1>3, <3>5
        <5>. QED
          BY <5>1, <5>2
      <4>2. proposal = Shown(page[t], kind) /\ proposal # None
        BY <2>2, <3>1, <4>1
      <4>3. old.files = files /\ old.manifest \in {None, proposal}
        BY <1>2, <3>1, <4>1, <4>2 DEF DirOk, files
      <4>4. dir.files = files /\ dir.manifest \in {None, proposal}
        BY <1>3, <1>4, <4>3, WrittenOver
      <4>. QED
        BY <4>1, <4>2, <4>4
    <3>. HIDE DEF dir, old
    <3>6. dir.manifest # None /\ dir.of = {dir.manifest.id} => dir.files = Held(kind, dir.manifest)
      BY <3>5 DEF files
    <3>7. Shown(page[t], kind) # None /\ dir.of = {Shown(page[t], kind).id} =>
            dir.files = Held(kind, Shown(page[t], kind)) /\ dir.manifest \in {None, Shown(page[t], kind)}
      BY <3>5 DEF files
    <3>. QED
      BY <1>2, <3>2, <3>3, <3>4, <3>6, <3>7 DEF DirOk
  <2>. QED
    BY <2>1, <2>2
<1>. HIDE DEF dir
<1>6. CASE outputs' = [e \in DOMAIN outputs \cup {d} |-> IF e = d THEN dir ELSE outputs[e]]
  <2>1. /\ DOMAIN outputs' = DOMAIN outputs \cup {d} /\ outputs'[d] = dir
        /\ \A e \in DOMAIN outputs : e # d => outputs'[e] = outputs[e]
    BY <1>6
  <2>. QED
    BY <1>2, <1>5, <2>1
<1>. QED
  BY <1>1, <1>6

\* What a directory promises holds while proposals are only added, and while the page shows
\* for it nothing, what it showed, or something that was not saved there.
LEMMA DirLater ==
  ASSUME NEW d, NEW dir, NEW p, NEW q, NEW n \in Nat, NEW m \in Nat, n <= m,
         DirOk(d, dir, p, n),
         Shown(q, d[2]) # None => Shown(q, d[2]) = Shown(p, d[2]) \/ Shown(q, d[2]).id \notin dir.of,
         d[2] = "migrations" /\ q.pending # None => q.pending.id \notin dir.of
  PROVE  DirOk(d, dir, q, m)
<1>1. dir.of # {} /\ dir.of \subseteq 1..m
  <2>1. 1..n \subseteq 1..m
    OBVIOUS
  <2>. QED
    BY <2>1 DEF DirOk
<1>. QED
  BY <1>1 DEF DirOk

\* A step that changes one page and no directory keeps FilesInv if the page is in
\* order afterwards and nothing saved changes on it.
LEMMA PageKeeps ==
  ASSUME FilesInv, NEW t \in Threads, NEW p,
         page'[t] = p /\ \A u \in Threads : u # t => page'[u] = page[u], outputs' = outputs,
         analyses' \in Nat, analyses <= analyses', PageOk(t, p, analyses'),
         \A d \in DOMAIN outputs : d[1] = t =>
           /\ Shown(p, d[2]) # None =>
                Shown(p, d[2]) = Shown(page[t], d[2]) \/ Shown(p, d[2]).id \notin outputs[d].of
           /\ d[2] = "migrations" /\ p.pending # None => p.pending.id \notin outputs[d].of
  PROVE  FilesInv'
<1>0. /\ page'[t] = p /\ \A u \in Threads : u # t => page'[u] = page[u]
      /\ analyses \in Nat /\ 1..analyses \subseteq 1..analyses'
  BY DEF FilesInv
<1>1. ASSUME NEW u \in Threads PROVE PageOk(u, page'[u], analyses')
  <2>1. CASE u = t
    BY <1>0, <2>1
  <2>2. CASE u # t
    BY <1>0, <2>2 DEF FilesInv, PageOk
  <2>. QED
    BY <2>1, <2>2
<1>2. ASSUME NEW d \in DOMAIN outputs
      PROVE  d[1] \in Threads /\ d[2] \in Kinds /\ DirOk(d, outputs[d], page'[d[1]], analyses')
  <2>1. d[1] \in Threads /\ d[2] \in Kinds /\ DirOk(d, outputs[d], page[d[1]], analyses)
    BY DEF FilesInv
  <2>2. CASE d[1] = t
    <3>1. DirOk(d, outputs[d], p, analyses')
      BY <1>0, <2>1, <2>2, DirLater
    <3>. QED
      BY <1>0, <2>1, <2>2, <3>1
  <2>3. CASE d[1] # t
    <3>1. d[2] = "migrations" /\ page[d[1]].pending # None => page[d[1]].pending.id \notin outputs[d].of
      BY <2>1 DEF DirOk
    <3>2. DirOk(d, outputs[d], page[d[1]], analyses')
      BY <1>0, <2>1, <3>1, DirLater
    <3>. QED
      BY <1>0, <2>1, <2>3, <3>2
  <2>. QED
    BY <2>2, <2>3
<1>3. FilesInv' = (/\ analyses' \in Nat
                   /\ \A u \in Threads : PageOk(u, page'[u], analyses')
                   /\ \A d \in DOMAIN outputs' :
                        d[1] \in Threads /\ d[2] \in Kinds /\ DirOk(d, outputs'[d], page'[d[1]], analyses'))
  BY DEF FilesInv
<1>. QED
  BY <1>1, <1>2, <1>3

\* A save keeps the invariant when the page shows and waits for what it did.
LEMMA SaveKeeps ==
  ASSUME FilesInv, NEW t \in Threads, NEW kind \in Kinds, NEW s, NEW proposal, NEW ok \in BOOLEAN,
         analyses' \in Nat, analyses <= analyses',
         \A u \in Threads : /\ page'[u].pending = page[u].pending
                            /\ page'[u].result = page[u].result /\ page'[u].draft = page[u].draft,
         Write(<<t, kind, s>>, Held(kind, proposal), proposal, ok),
         proposal.id \in 1..analyses', Sound(kind, proposal, t),
         kind = "migrations" /\ page[t].pending # None => page[t].pending.id # proposal.id,
         \/ proposal = Shown(page[t], kind) /\ proposal # None
         \/ /\ \A d \in DOMAIN outputs : proposal.id \notin outputs[d].of
            /\ Shown(page[t], kind) # None => Shown(page[t], kind).id # proposal.id
  PROVE  FilesInv'
<1>0. analyses \in Nat /\ 1..analyses \subseteq 1..analyses'
  BY DEF FilesInv
<1>1. \A u \in Threads : \A k : Shown(page'[u], k) = Shown(page[u], k)
  BY DEF Shown
<1>2. ASSUME NEW u \in Threads PROVE PageOk(u, page'[u], analyses')
  BY <1>0, <1>1 DEF FilesInv, PageOk
<1>3. ASSUME NEW d \in DOMAIN outputs
      PROVE  d[1] \in Threads /\ d[2] \in Kinds /\ DirOk(d, outputs[d], page[d[1]], analyses')
  <2>1. d[1] \in Threads /\ d[2] \in Kinds /\ DirOk(d, outputs[d], page[d[1]], analyses)
    BY DEF FilesInv
  <2>2. d[2] = "migrations" /\ page[d[1]].pending # None => page[d[1]].pending.id \notin outputs[d].of
    BY <2>1 DEF DirOk
  <2>. QED
    BY <1>0, <2>1, <2>2, DirLater
<1>4. \A d \in DOMAIN outputs' :
        d[1] \in Threads /\ d[2] \in Kinds /\ DirOk(d, outputs'[d], page[d[1]], analyses')
  BY <1>3, WriteKeeps
<1>5. ASSUME NEW d \in DOMAIN outputs'
      PROVE  d[1] \in Threads /\ d[2] \in Kinds /\ DirOk(d, outputs'[d], page'[d[1]], analyses')
  <2>1. d[1] \in Threads /\ DirOk(d, outputs'[d], page[d[1]], analyses')
    BY <1>4
  <2>2. d[2] = "migrations" /\ page'[d[1]].pending # None => page'[d[1]].pending.id \notin outputs'[d].of
    BY <2>1 DEF DirOk
  <2>3. Shown(page'[d[1]], d[2]) = Shown(page[d[1]], d[2]) /\ analyses' <= analyses'
    BY <1>1, <2>1
  <2>4. DirOk(d, outputs'[d], page'[d[1]], analyses')
    BY <2>1, <2>2, <2>3, DirLater
  <2>. QED
    BY <1>4, <2>4
<1>6. FilesInv' = (/\ analyses' \in Nat
                   /\ \A u \in Threads : PageOk(u, page'[u], analyses')
                   /\ \A d \in DOMAIN outputs' :
                        d[1] \in Threads /\ d[2] \in Kinds /\ DirOk(d, outputs'[d], page'[d[1]], analyses'))
  BY DEF FilesInv
<1>. QED
  BY <1>2, <1>5, <1>6

\* The session's selection is a run, so what a button does, it does to a page.
LEMMA CurrentIsRun ==
  ASSUME PickInv
  PROVE  /\ runs # {} => Current \in Threads
         /\ picked # None => picked \in Threads
<1>1. CASE picked = None
  BY <1>1, TopIsListed DEF PickInv, Current
<1>2. CASE picked # None
  BY <1>2, FirstHasLabel DEF PickInv, Current
<1>. QED
  BY <1>1, <1>2

\* What is generated from a plan is what its units, its reply and its table give.
LEMMA FinishedOk ==
  ASSUME NEW staged, NEW t, PlanOk(staged, t)
  PROVE  ResultOk(Finished(staged), t) /\ Finished(staged).id = staged.id
<1>. DEFINE generated == Generate(staged.units, staged.reply)
<1>1. /\ Finished(staged).id = staged.id /\ Finished(staged).units = staged.units
      /\ Finished(staged).mappings = staged.mappings /\ Finished(staged).generated = generated
      /\ Finished(staged).warned = Warned(staged.units, generated)
  BY DEF Finished
<1>2. DOMAIN generated = DOMAIN staged.units
  BY DEF Generate
<1>. HIDE DEF generated
<1>. QED
  BY <1>1, <1>2 DEF PlanOk, ResultOk

\* A confirmed plan is the plan with the table that was confirmed.
LEMMA ConfirmedPlan ==
  ASSUME NEW old, NEW t, PlanOk(old, t), NEW mappings, TableOk(mappings, FactsOf[t].deps)
  PROVE  LET staged == [old EXCEPT !.mappings = mappings, !.confirmed = TRUE] IN
         PlanOk(staged, t) /\ staged.id = old.id
<1>. DEFINE staged == [old EXCEPT !.mappings = mappings, !.confirmed = TRUE]
<1>1. old \in [id : {old.id}, reply : {old.reply}, units : {old.units},
              confirmed : {old.confirmed}, mappings : {old.mappings}]
  BY DEF PlanOk
<1>2. staged \in [id : {old.id}, reply : {old.reply}, units : {old.units},
                 confirmed : {TRUE}, mappings : {mappings}]
  BY <1>1
<1>. HIDE DEF staged
<1>. QED
  BY <1>2 DEF PlanOk

\* A staged plan is what the run's facts give, with a table that accounts for every dependency.
LEMMA StagedOk ==
  ASSUME NEW id, NEW t \in Threads, NEW reply, NEW online \in BOOLEAN
  PROVE  PlanOk(Staged(id, t, reply, online), t) /\ Staged(id, t, reply, online).id = id
<1>1. TableOk(Staged(id, t, reply, online).mappings, FactsOf[t].deps)
  BY StagedTable
<1>2. Staged(id, t, reply, online) \in
        [id : {Staged(id, t, reply, online).id}, reply : {Staged(id, t, reply, online).reply},
         units : {Staged(id, t, reply, online).units}, confirmed : {Staged(id, t, reply, online).confirmed},
         mappings : {Staged(id, t, reply, online).mappings}]
  BY DEF Staged
<1>3. Staged(id, t, reply, online).id = id /\ Staged(id, t, reply, online).units = GatherUnits(FactsOf[t])
  BY DEF Staged
<1>. QED
  BY <1>1, <1>2, <1>3 DEF PlanOk

\* A page that finishes shows the result or nothing, waits for nothing and keeps its draft.
LEMMA FinishGives ==
  ASSUME NEW p, Shaped(p), NEW staged, NEW ok \in BOOLEAN, p.pending = None, p.result = None
  PROVE  LET q == Finish(p, staged, ok) IN
         q.pending = None /\ q.draft = p.draft /\ q.result \in {None, Finished(staged)}
<1>1. CASE ok
  <2>1. Finish(p, staged, ok) = [pending |-> None, result |-> Finished(staged), saved |-> None,
                                 draft |-> p.draft, draftSaved |-> p.draftSaved]
    BY <1>1 DEF Finish, Shaped
  <2>. HIDE DEF Finish, Finished
  <2>. QED
    BY <2>1
<1>2. CASE ~ok
  BY <1>2 DEF Finish
<1>. QED
  BY <1>1, <1>2

\* The page of a run with a new plan, a new result or neither, and its old draft.
LEMMA NewOutcome ==
  ASSUME FilesInv, NEW t \in Threads, DOMAIN page = Threads, NEW q, NEW staged, PlanOk(staged, t),
         page' = [page EXCEPT ![t] = q], outputs' = outputs,
         analyses' \in Nat, analyses <= analyses', staged.id \in 1..analyses',
         \A d \in DOMAIN outputs : d[1] = t /\ d[2] = "migrations" => staged.id \notin outputs[d].of,
         q.draft = page[t].draft, q.pending \in {None, staged}, q.result \in {None, Finished(staged)}
  PROVE  FilesInv'
<1>1. ResultOk(Finished(staged), t) /\ Finished(staged).id = staged.id
  BY FinishedOk
<1>. HIDE DEF PlanOk, ResultOk, Finished
<1>2. analyses \in Nat /\ 1..analyses \subseteq 1..analyses' /\ PageOk(t, page[t], analyses)
  BY DEF FilesInv
<1>3. PageOk(t, q, analyses')
  BY <1>1, <1>2 DEF PageOk, Shown, Sound, Kinds
<1>4. ASSUME NEW d \in DOMAIN outputs, d[1] = t
      PROVE  /\ Shown(q, d[2]) # None =>
                  Shown(q, d[2]) = Shown(page[t], d[2]) \/ Shown(q, d[2]).id \notin outputs[d].of
             /\ d[2] = "migrations" /\ q.pending # None => q.pending.id \notin outputs[d].of
  BY <1>1, <1>4 DEF Shown
<1>5. page'[t] = q /\ \A u \in Threads : u # t => page'[u] = page[u]
  OBVIOUS
<1>. QED
  BY <1>3, <1>4, <1>5, PageKeeps

\* No directory holds what was not analysed yet.
LEMMA NotYetSaved ==
  ASSUME FilesInv
  PROVE  /\ analyses \in Nat /\ analyses + 1 \in Nat /\ analyses <= analyses + 1
         /\ analyses + 1 \in 1..(analyses + 1) /\ analyses + 1 \notin 1..analyses
         /\ \A d \in DOMAIN outputs : analyses + 1 \notin outputs[d].of
         /\ \A t \in Threads : /\ page[t].pending # None => page[t].pending.id # analyses + 1
                               /\ \A kind \in Kinds : Shown(page[t], kind) # None =>
                                    Shown(page[t], kind).id # analyses + 1
<1>1. analyses \in Nat /\ analyses + 1 \notin 1..analyses
  BY DEF FilesInv
<1>2. \A d \in DOMAIN outputs : outputs[d].of \subseteq 1..analyses
  BY DEF FilesInv, DirOk
<1>3. \A t \in Threads : PageOk(t, page[t], analyses)
  BY DEF FilesInv
<1>4. ASSUME NEW t \in Threads
      PROVE  /\ page[t].pending # None => page[t].pending.id # analyses + 1
             /\ \A kind \in Kinds : Shown(page[t], kind) # None => Shown(page[t], kind).id # analyses + 1
  BY <1>1, <1>3 DEF PageOk
<1>5. analyses + 1 \in Nat /\ analyses <= analyses + 1 /\ analyses + 1 \in 1..(analyses + 1)
  BY <1>1
<1>. QED
  BY <1>1, <1>2, <1>4, <1>5

\* Every step: what is analysed is new, what is confirmed was saved nowhere, what is saved is
\* what the page shows or what a command has just made.
LEMMA FilesStep == PickInv /\ SessionInv /\ SessionInv' /\ FilesInv /\ [Next]_vars => FilesInv'
<1>. SUFFICES ASSUME PickInv, SessionInv, SessionInv', FilesInv, [Next]_vars PROVE FilesInv'
  OBVIOUS
<1>0. DOMAIN page = Threads /\ \A t \in Threads : Shaped(page[t])
  BY DEF SessionInv, Pages
<1>1. CASE UNCHANGED <<page, outputs, analyses>>
  BY <1>1 DEF FilesInv, DirOk, PageOk, PlanOk, ResultOk, Sound, Shown
<1>2. ASSUME NEW reply \in Replies, NEW online \in BOOLEAN, NEW ok \in BOOLEAN, Analyze(reply, online, ok)
      PROVE FilesInv'
  <2>. DEFINE t == Current
              staged == Staged(analyses + 1, t, reply, online)
              emptied == Restage(page[t])
              q == IF ~reply.same /\ FactsOf[t].deps # <<>> THEN [emptied EXCEPT !.pending = staged]
                   ELSE Finish(emptied, staged, ok)
  <2>1. page' = [page EXCEPT ![t] = q] /\ outputs' = outputs /\ analyses' = analyses + 1 /\ t \in Threads
    BY <1>2, CurrentIsRun DEF Analyze, Draw
  <2>2. PlanOk(staged, t) /\ staged.id = analyses + 1
    BY <2>1, StagedOk
  <2>3. /\ Shaped(emptied) /\ emptied.draft = page[t].draft
        /\ emptied.pending = None /\ emptied.result = None
    BY <1>0, <2>1, RestageGives
  <2>4. q.draft = page[t].draft /\ q.pending \in {None, staged} /\ q.result \in {None, Finished(staged)}
    <3>. HIDE DEF staged, emptied
    <3>1. CASE ~reply.same /\ FactsOf[t].deps # <<>>
      BY <2>3, <3>1 DEF Shaped
    <3>2. CASE ~(~reply.same /\ FactsOf[t].deps # <<>>)
      BY <2>3, <3>2, FinishGives
    <3>. QED
      BY <3>1, <3>2
  <2>. HIDE DEF staged, q, t
  <2>. QED
    BY <1>0, <2>1, <2>2, <2>4, NotYetSaved, NewOutcome
<1>3. ASSUME NEW ok \in BOOLEAN, ConfirmDependencies(ok) PROVE FilesInv'
  <2>. DEFINE t == picked
              emptied == [page[t] EXCEPT !.pending = None]
              old == page[t].pending
  <2>1. PICK mappings \in Confirmable(page[t].pending.mappings) :
          page' = [page EXCEPT ![t] =
            Finish([@ EXCEPT !.pending = None], [@.pending EXCEPT !.mappings = mappings, !.confirmed = TRUE], ok)]
    BY <1>3, Zenon DEF ConfirmDependencies
  <2>. DEFINE staged == [old EXCEPT !.mappings = mappings, !.confirmed = TRUE]
              q == Finish(emptied, staged, ok)
  <2>2. old # None /\ outputs' = outputs /\ analyses' = analyses /\ t \in Threads
    BY <1>3, CurrentIsRun DEF ConfirmDependencies, Pressed
  <2>3. page' = [page EXCEPT ![t] = q]
    BY <1>0, <2>1, <2>2
  <2>4. PlanOk(old, t) /\ old.id \in 1..analyses
    BY <2>2 DEF FilesInv, PageOk
  <2>5. PlanOk(staged, t) /\ staged.id = old.id
    <3>1. TableOk(mappings, FactsOf[t].deps)
      BY <2>4, ConfirmedTable DEF PlanOk
    <3>. HIDE DEF old
    <3>. QED
      BY <2>4, <3>1, ConfirmedPlan
  <2>6. /\ Shaped(emptied) /\ emptied.draft = page[t].draft
        /\ emptied.pending = None /\ emptied.result = None
    BY <1>0, <2>2 DEF Shaped, SessionInv, Shows
  <2>7. q.draft = page[t].draft /\ q.pending = None /\ q.result \in {None, Finished(staged)}
    <3>. HIDE DEF staged, emptied
    <3>. QED
      BY <2>6, FinishGives
  <2>8. \A d \in DOMAIN outputs : d[1] = t /\ d[2] = "migrations" => staged.id \notin outputs[d].of
    BY <2>2, <2>5 DEF FilesInv, DirOk
  <2>9. analyses \in Nat /\ analyses <= analyses
    BY DEF FilesInv
  <2>. HIDE DEF staged, q, t, old
  <2>. QED
    BY <1>0, <2>2, <2>3, <2>4, <2>5, <2>7, <2>8, <2>9, NewOutcome
<1>4. ASSUME NEW request \in Requests, AnalyzeTargeted(request) PROVE FilesInv'
  <2>. DEFINE t == Current
              draft == Draft(analyses + 1, t, request)
              q == [page[t] EXCEPT !.draft = draft, !.draftSaved = None]
  <2>1. page' = [page EXCEPT ![t] = q] /\ outputs' = outputs /\ analyses' = analyses + 1 /\ t \in Threads
    BY <1>0, <1>4, CurrentIsRun DEF AnalyzeTargeted, Draw
  <2>2. draft.id = analyses + 1 /\ draft.files \subseteq FactsOf[t].disk
    BY DEF Draft, Drafted
  <2>. HIDE DEF draft
  <2>3. q.draft = draft /\ q.pending = page[t].pending /\ q.result = page[t].result
    BY <1>0, <2>1 DEF Shaped
  <2>4. PageOk(t, page[t], analyses) /\ analyses \in Nat /\ 1..analyses \subseteq 1..(analyses + 1)
    BY <2>1 DEF FilesInv
  <2>. HIDE DEF q, t
  <2>5. PageOk(t, q, analyses + 1)
    BY <2>2, <2>3, <2>4, NotYetSaved DEF PageOk, Shown, Sound, Kinds
  <2>6. ASSUME NEW d \in DOMAIN outputs, d[1] = t
        PROVE  /\ Shown(q, d[2]) # None =>
                    Shown(q, d[2]) = Shown(page[t], d[2]) \/ Shown(q, d[2]).id \notin outputs[d].of
               /\ d[2] = "migrations" /\ q.pending # None => q.pending.id \notin outputs[d].of
    BY <2>2, <2>3, <2>6, NotYetSaved DEF FilesInv, DirOk, Shown
  <2>7. page'[t] = q /\ \A u \in Threads : u # t => page'[u] = page[u]
    BY <1>0, <2>1
  <2>. QED
    BY <2>1, <2>5, <2>6, <2>7, NotYetSaved, PageKeeps
<1>5. ASSUME NEW ok \in BOOLEAN, SaveMigration(ok) PROVE FilesInv'
  <2>. DEFINE r == page[picked].result
  <2>1. picked \in Threads /\ page[picked].pending = None /\ r # None /\ analyses' = analyses
        /\ Write(<<picked, "migrations", second>>, Contents(r.id, r.generated), r, ok)
    BY <1>5, CurrentIsRun DEF SaveMigration, Pressed
  <2>2. \A u \in Threads : /\ page'[u].pending = page[u].pending
                           /\ page'[u].result = page[u].result /\ page'[u].draft = page[u].draft
    BY <1>0, <1>5 DEF SaveMigration, Shaped
  <2>3. Shown(page[picked], "migrations") = r /\ Held("migrations", r) = Contents(r.id, r.generated)
    BY DEF Shown, Held
  <2>4. r.id \in 1..analyses /\ Sound("migrations", r, picked) /\ analyses \in Nat /\ analyses <= analyses
    BY <2>1, <2>3 DEF FilesInv, PageOk, Kinds
  <2>. HIDE DEF r
  <2>. QED
    BY <2>1, <2>2, <2>3, <2>4, SaveKeeps DEF Kinds
<1>6. ASSUME NEW ok \in BOOLEAN, SaveDraft(ok) PROVE FilesInv'
  <2>. DEFINE r == page[picked].draft
  <2>1. picked \in Threads /\ r # None /\ analyses' = analyses
        /\ Write(<<picked, "modifications", second>>, DraftContents(r), r, ok)
    BY <1>6, CurrentIsRun DEF SaveDraft, Pressed
  <2>2. \A u \in Threads : /\ page'[u].pending = page[u].pending
                           /\ page'[u].result = page[u].result /\ page'[u].draft = page[u].draft
    BY <1>0, <1>6 DEF SaveDraft, Shaped
  <2>3. Shown(page[picked], "modifications") = r /\ Held("modifications", r) = DraftContents(r)
    BY DEF Shown, Held
  <2>4. r.id \in 1..analyses /\ Sound("modifications", r, picked) /\ analyses \in Nat /\ analyses <= analyses
    BY <2>1, <2>3 DEF FilesInv, PageOk, Kinds
  <2>. HIDE DEF r
  <2>. QED
    BY <2>1, <2>2, <2>3, <2>4, SaveKeeps DEF Kinds
<1>7. ASSUME NEW t \in Threads, NEW reply \in Replies, NEW online \in BOOLEAN, NEW ok \in BOOLEAN,
             CliMigrate(t, reply, online, ok)
      PROVE  FilesInv'
  <2>. DEFINE staged == Staged(analyses + 1, t, reply, online)
              r == Finished(staged)
  <2>1. analyses' = analyses + 1 /\ page' = page
        /\ Write(<<t, "migrations", second>>, Contents(r.id, r.generated), r, ok)
    BY <1>7 DEF CliMigrate
  <2>2. r.id = analyses + 1 /\ Sound("migrations", r, t)
    BY StagedOk, FinishedOk DEF Sound
  <2>3. Held("migrations", r) = Contents(r.id, r.generated)
    BY DEF Held
  <2>. HIDE DEF r
  <2>. QED
    BY <2>1, <2>2, <2>3, NotYetSaved, SaveKeeps DEF Kinds
<1>8. ASSUME NEW t \in Threads, NEW request \in Requests, NEW ok \in BOOLEAN, CliEnhance(t, request, ok)
      PROVE  FilesInv'
  <2>. DEFINE r == Draft(analyses + 1, t, request)
  <2>1. analyses' = analyses + 1 /\ page' = page
        /\ Write(<<t, "modifications", second>>, DraftContents(r), r, ok)
    BY <1>8 DEF CliEnhance
  <2>2. r.id = analyses + 1 /\ Sound("modifications", r, t)
    BY DEF Draft, Drafted, Sound
  <2>3. Held("modifications", r) = DraftContents(r)
    BY DEF Held
  <2>. HIDE DEF r
  <2>. QED
    BY <2>1, <2>2, <2>3, NotYetSaved, SaveKeeps DEF Kinds
<1>9. CASE RefuseAnalysis
  <2>1. page' = page /\ outputs' = outputs /\ analyses' = analyses + 1 /\ runs # {}
    BY <1>9 DEF RefuseAnalysis, Draw
  <2>2. Current \in Threads
    BY <2>1, CurrentIsRun
  <2>4. PageOk(Current, page[Current], analyses) /\ analyses \in Nat /\ 1..analyses \subseteq 1..(analyses + 1)
    BY <2>2 DEF FilesInv
  <2>5. PageOk(Current, page[Current], analyses + 1)
    BY <2>4 DEF PageOk
  <2>6. \A d \in DOMAIN outputs : d[1] = Current /\ d[2] = "migrations" /\ page[Current].pending # None =>
          page[Current].pending.id \notin outputs[d].of
    BY DEF FilesInv, DirOk
  <2>. QED
    BY <2>1, <2>2, <2>5, <2>6, NotYetSaved, PageKeeps
<1>. QED
  BY <1>1, <1>2, <1>3, <1>4, <1>5, <1>6, <1>7, <1>8, <1>9
  DEF Next, vars, CompleteRun, IngestHere, PickProject, Redraw, Tick

\* The units of a project are a list.
LEMMA UnitsListed ==
  ASSUME NEW t \in Threads
  PROVE  \E n \in Nat : DOMAIN GatherUnits(FactsOf[t]) = 1..n
<1>. DEFINE facts == FactsOf[t]
            units == BuildMigrationUnits(facts)
            A == Range(units) \cup {Unit("infra", "infra", {})}
            extra == IF facts.infra = {} THEN <<>> ELSE <<Unit("infra", "infra", {})>>
<1>1. ASSUME NEW type, NEW groups, groups \in Seq(Range(groups))
      PROVE  UnitsOf(type, groups, facts) \in Seq(Range(UnitsOf(type, groups, facts)))
  BY <1>1 DEF UnitsOf, Range
<1>2. units \in Seq(Range(units))
  <2>1. FactsOf[t].capabilities \in Seq(Range(FactsOf[t].capabilities))
        /\ FactsOf[t].services \in Seq(Range(FactsOf[t].services))
    BY SessionAssumption
  <2>2. CASE facts.capabilities # <<>>
    BY <1>1, <2>1, <2>2 DEF BuildMigrationUnits
  <2>3. CASE facts.capabilities = <<>> /\ facts.services # <<>>
    BY <1>1, <2>1, <2>3 DEF BuildMigrationUnits
  <2>4. CASE facts.capabilities = <<>> /\ facts.services = <<>>
    BY <2>4 DEF BuildMigrationUnits, Range
  <2>. QED
    BY <2>2, <2>3, <2>4
<1>3. extra \in Seq(A)
  <2>. DEFINE infra == Unit("infra", "infra", {})
  <2>1. infra \in A /\ (extra = <<>> \/ extra = <<infra>>)
    OBVIOUS
  <2>. HIDE DEF A, extra, infra
  <2>2. <<>> \in Seq(A) /\ <<infra>> \in Seq(A)
    BY <2>1
  <2>. QED
    BY <2>1, <2>2
<1>5. units \in Seq(A)
  <2>. HIDE DEF units
  <2>1. \A i \in DOMAIN units : units[i] \in A
    BY DEF Range
  <2>. HIDE DEF A
  <2>. QED
    BY <1>2, <2>1
<1>. HIDE DEF units, extra, A
<1>4. units \o extra \in Seq(A)
  BY <1>3, <1>5
<1>. QED
  BY <1>4 DEF GatherUnits, units, extra

\* The last unit that generates a path is the one whose file is written.
LEMMA LastUnitKeeps ==
  ASSUME NEW id, NEW made, NEW n \in Nat, DOMAIN made = 1..n, NEW i \in DOMAIN made, NEW f \in made[i].files,
         \A j \in (i + 1)..n : \A g \in made[j].files : g.path # f.path
  PROVE  f.path \in Paths(made) /\ Contents(id, made)[f.path] = <<id, i>>
<1>. DEFINE makes(k) == f.path \in {g.path : g \in made[k].files}
            LastOne(k) == makes(k) /\ \A j \in (k + 1)..n : ~makes(j)
            last == CHOOSE k \in DOMAIN made : LastOne(k)
<1>1. Len(made) = n
  OBVIOUS
<1>2. makes(i) /\ LastOne(i)
  OBVIOUS
<1>3. UnitOf(made, f.path) = last
  BY <1>1 DEF UnitOf
<1>4. f.path \in Paths(made)
  BY <1>2 DEF Paths
<1>. HIDE DEF makes
<1>5. ASSUME NEW k \in DOMAIN made, LastOne(k) PROVE k = i
  <2>1. k \in 1..n /\ i \in 1..n /\ makes(k) /\ makes(i)
    BY <1>2, <1>5
  <2>2. ~(k < i)
    BY <1>5, <2>1
  <2>3. ~(i < k)
    BY <1>2, <2>1
  <2>. QED
    BY <2>1, <2>2, <2>3
<1>. HIDE DEF LastOne
<1>6. last \in DOMAIN made /\ LastOne(last)
  BY <1>2, Zenon
<1>7. last = i
  BY <1>5, <1>6
<1>. QED
  BY <1>3, <1>4, <1>7 DEF Contents

\* The invariants of pages and directories hold throughout a session.
LEMMA FilesInvariant == Spec => [](SessionInv /\ PickInv /\ FilesInv)
<1>1. Init => SessionInv
  BY DEF Init, Blank, SessionInv, Pages, Shaped, Shows
<1>2. Init => FilesInv
  BY DEF Init, Blank, FilesInv, PageOk, Shown
<1>3. Init => PickInv
  BY DEF Init, PickInv
<1>. QED
  BY <1>1, <1>2, <1>3, SessionStep, PickStep, FilesStep, PTL DEF Spec

\* The tables the page and the manifests show are as they were staged and confirmed.
LEMMA TablesOk ==
  ASSUME FilesInv, NEW t \in Threads, NEW table \in Tables(t)
  PROVE  TableOk(table, FactsOf[t].deps)
<1>1. CASE \E r \in {page[t].pending, page[t].result} \ {None} : table = r.mappings
  <2>1. PageOk(t, page[t], analyses)
    BY DEF FilesInv
  <2>2. page[t].pending # None => TableOk(page[t].pending.mappings, FactsOf[t].deps)
    BY <2>1 DEF PageOk, PlanOk
  <2>3. page[t].result # None => TableOk(page[t].result.mappings, FactsOf[t].deps)
    BY <2>1 DEF PageOk, Shown, Sound, ResultOk, Kinds
  <2>. QED
    BY <1>1, <2>2, <2>3
<1>2. CASE \E d \in DOMAIN outputs : /\ d[1] = t /\ d[2] = "migrations" /\ outputs[d].manifest # None
                                     /\ table = outputs[d].manifest.mappings
  <2>1. PICK d \in DOMAIN outputs : /\ d[1] = t /\ d[2] = "migrations" /\ outputs[d].manifest # None
                                    /\ table = outputs[d].manifest.mappings
    BY <1>2
  <2>2. DirOk(d, outputs[d], page[d[1]], analyses)
    BY DEF FilesInv
  <2>. QED
    BY <2>1, <2>2 DEF DirOk, Sound, ResultOk
<1>. QED
  BY <1>1, <1>2 DEF Tables

\* A mark says that the registry has the package, unless a person changed the row after the
\* check (dependency_verifier.py, data_editor).
THEOREM MarksAreTrue == Spec => []VerifiedExists
<1>1. FilesInv => VerifiedExists
  BY TablesOk DEF VerifiedExists, TableOk, Marks
<1>. QED
  BY <1>1, FilesInvariant, PTL

\* No dependency is lost on the way to a table or a manifest, unless two manifests declare
\* its name (propose_dependency_mappings).
THEOREM EveryDependencyMapped == Spec => []DependenciesAccounted
<1>1. FilesInv => DependenciesAccounted
  BY TablesOk DEF DependenciesAccounted, TableOk, Accounts
<1>. QED
  BY <1>1, FilesInvariant, PTL

\* What a directory with one proposal holds.
LEMMA SavedIsSound ==
  ASSUME FilesInv, NEW d \in DOMAIN outputs,
         outputs[d].manifest # None, outputs[d].of = {outputs[d].manifest.id}
  PROVE  LET m == outputs[d].manifest IN
         /\ d[1] \in Threads /\ Sound(d[2], m, d[1]) /\ outputs[d].files = Held(d[2], m)
         /\ d[2] = "migrations" =>
              ResultOk(m, d[1]) /\ \E n \in Nat : DOMAIN m.generated = 1..n /\ Len(m.generated) = n
<1>1. d[1] \in Threads /\ DirOk(d, outputs[d], page[d[1]], analyses)
  BY DEF FilesInv
<1>2. Sound(d[2], outputs[d].manifest, d[1]) /\ outputs[d].files = Held(d[2], outputs[d].manifest)
  BY <1>1 DEF DirOk
<1>. DEFINE m == outputs[d].manifest
<1>3. ASSUME d[2] = "migrations"
      PROVE  ResultOk(m, d[1]) /\ \E n \in Nat : DOMAIN m.generated = 1..n /\ Len(m.generated) = n
  <2>1. ResultOk(m, d[1])
    BY <1>2, <1>3 DEF Sound
  <2>2. PICK n \in Nat : DOMAIN m.generated = 1..n
    BY <1>1, <2>1, UnitsListed DEF ResultOk
  <2>3. Len(m.generated) = n
    BY <2>2
  <2>. QED
    BY <2>1, <2>2, <2>3
<1>. QED
  BY <1>1, <1>2, <1>3

\* A directory holds the proposal of its manifest, each path as the last unit generated it,
\* unless two were saved in one second (write_migration, write_modifications).
THEOREM SavedAsProposed == Spec => []ProposalOnDisk
<1>1. ASSUME FilesInv, NEW d \in DOMAIN outputs,
             outputs[d].manifest # None, outputs[d].of = {outputs[d].manifest.id}, d[2] = "migrations"
      PROVE  LET made == outputs[d].manifest.generated IN
             /\ DOMAIN outputs[d].files = Paths(made)
             /\ \A i \in DOMAIN made : \A f \in made[i].files :
                  outputs[d].files[f.path] = <<outputs[d].manifest.id, i>>
                  \/ \E j \in (i + 1)..Len(made) : f.path \in {g.path : g \in made[j].files}
  <2>. DEFINE m == outputs[d].manifest
              made == m.generated
  <2>1. PICK n \in Nat : DOMAIN made = 1..n /\ Len(made) = n
    BY <1>1, SavedIsSound
  <2>2. outputs[d].files = Contents(m.id, made)
    BY <1>1, SavedIsSound DEF Held
  <2>3. DOMAIN outputs[d].files = Paths(made)
    BY <2>2 DEF Contents
  <2>4. ASSUME NEW i \in DOMAIN made, NEW f \in made[i].files,
               ~\E j \in (i + 1)..Len(made) : f.path \in {g.path : g \in made[j].files}
        PROVE  outputs[d].files[f.path] = <<m.id, i>>
    <3>1. \A j \in (i + 1)..n : \A g \in made[j].files : g.path # f.path
      BY <2>1, <2>4
    <3>. HIDE DEF made
    <3>2. Contents(m.id, made)[f.path] = <<m.id, i>>
      BY <2>1, <2>4, <3>1, LastUnitKeeps
    <3>. QED
      BY <2>2, <3>2
  <2>. QED
    BY <2>3, <2>4
<1>2. ASSUME FilesInv, NEW d \in DOMAIN outputs,
             outputs[d].manifest # None, outputs[d].of = {outputs[d].manifest.id}, d[2] # "migrations"
      PROVE  DOMAIN outputs[d].files = outputs[d].manifest.files
             /\ DOMAIN outputs[d].files \subseteq FactsOf[d[1]].disk
  BY <1>2, SavedIsSound DEF Held, DraftContents, Sound
<1>3. FilesInv => ProposalOnDisk
  BY <1>1, <1>2 DEF ProposalOnDisk
<1>. QED
  BY <1>3, FilesInvariant, PTL

\* A response field that is not in the files saved for its unit was warned of, unless the
\* unit has no file or shares a path (flag_missing_response_fields).
THEOREM LossesAreTold == Spec => []LostFieldsWarned
<1>1. ASSUME FilesInv, NEW d \in DOMAIN outputs, d[2] = "migrations",
             outputs[d].manifest # None, outputs[d].of = {outputs[d].manifest.id},
             NEW i \in DOMAIN outputs[d].manifest.units
      PROVE  LET m == outputs[d].manifest
                 mine == m.generated[i].files
                 kept == UNION {f.kept : f \in {f \in mine : outputs[d].files[f.path] = <<m.id, i>>}} IN
             \/ m.units[i].fields \subseteq kept
             \/ mine # {} /\ {f.path : f \in mine} \subseteq m.warned
             \/ mine = {}
             \/ \E j \in DOMAIN m.units \ {i} : {f.path : f \in mine} \cap Paths(<<m.generated[j]>>) # {}
  <2>. DEFINE m == outputs[d].manifest
              made == m.generated
              mine == made[i].files
              kept == UNION {f.kept : f \in {f \in mine : outputs[d].files[f.path] = <<m.id, i>>}}
  <2>1. PICK n \in Nat : DOMAIN made = 1..n /\ Len(made) = n
    BY <1>1, SavedIsSound
  <2>2. outputs[d].files = Contents(m.id, made) /\ DOMAIN made = DOMAIN m.units /\ m.warned = Warned(m.units, made)
    BY <1>1, SavedIsSound DEF Held, ResultOk
  <2>3. SUFFICES ASSUME \A j \in DOMAIN m.units \ {i} : {f.path : f \in mine} \cap Paths(<<made[j]>>) = {},
                        ~(m.units[i].fields \subseteq kept)
                 PROVE  {f.path : f \in mine} \subseteq m.warned
    BY Zenon
  <2>4. ASSUME NEW f \in mine PROVE outputs[d].files[f.path] = <<m.id, i>>
    <3>1. \A j \in DOMAIN made : Paths(<<made[j]>>) = {g.path : g \in made[j].files}
      BY DEF Paths
    <3>2. ASSUME NEW j \in (i + 1)..n PROVE \A g \in made[j].files : g.path # f.path
      <4>1. j \in DOMAIN made /\ j # i
        BY <2>1, <2>2
      <4>2. f.path \in {h.path : h \in mine}
        BY <2>4
      <4>3. {h.path : h \in mine} \cap {g.path : g \in made[j].files} = {}
        BY <2>2, <2>3, <3>1, <4>1
      <4>4. \A g \in made[j].files : g.path \in {h.path : h \in made[j].files}
        OBVIOUS
      <4>. HIDE DEF mine, made
      <4>. QED
        BY <4>2, <4>3, <4>4
    <3>3. i \in DOMAIN made
      BY <2>2
    <3>. HIDE DEF made
    <3>4. f \in made[i].files
      BY <2>4
    <3>5. Contents(m.id, made)[f.path] = <<m.id, i>>
      BY <2>1, <3>2, <3>3, <3>4, LastUnitKeeps
    <3>. QED
      BY <2>2, <3>5
  <2>5. Missing(m.units[i], made[i]) # {}
    <3>1. \A f \in mine : f.kept \subseteq kept
      BY <2>4
    <3>. HIDE DEF kept
    <3>. QED
      BY <2>3, <3>1 DEF Missing
  <2>. QED
    BY <2>2, <2>5 DEF Warned
<1>2. FilesInv => LostFieldsWarned
  BY <1>1 DEF LostFieldsWarned
<1>. QED
  BY <1>2, FilesInvariant, PTL
=============================================================================
