-------------------------- MODULE ModernizeSession --------------------------
(***************************************************************************)
(* One browser session on the app: the project picker, the Modernize page   *)
(* with what it keeps per project, and the outputs/ directory, which        *)
(* `atlaz migrate --save` and `atlaz enhance --save` write too, while       *)
(* further runs complete.                                                   *)
(***************************************************************************)
EXTENDS Migration

CONSTANTS Started,      \* runs, complete or to be, the one started last first
          Label,        \* what the picker shows for each: repository and minute
          FactsOf,      \* graph facts and working tree of each run's repository
          Requests, Replies, \* what is asked for; what the model may answer
          Edits,        \* <<package, ecosystem>> a person may put into the mapping
          MaxAnalyses,  \* bound on the analyses of a behaviour
          MaxSecond,    \* bound on the clock
          None

Threads == Range(Started)

ASSUME SessionAssumption ==
  /\ Started \in Seq(Threads)
  /\ Label \in [Threads -> Range(Label)]
  /\ DOMAIN FactsOf = Threads
  /\ \A t \in Threads :
       \A list \in {FactsOf[t].capabilities, FactsOf[t].services, FactsOf[t].deps} :
         list \in Seq(Range(list))
  /\ MaxAnalyses \in Nat /\ MaxSecond \in Nat
  /\ None \notin Threads \cup Range(Label)

VARIABLES runs,      \* complete runs; list_completed_runs has them in the order of Started
          rendered,  \* those of the list when the page was drawn last
          index,     \* the run at the index the list was drawn with
          picked,    \* st.session_state["selected_thread_id"]
          page,      \* of each run: pending, result, draft and where they were saved
          outputs,   \* directories under outputs/
          second,    \* the clock that names them
          analyses,  \* analyses so far; also the identity of their results
          wanted,    \* history: the label the person chose last
          possible,  \* history: the labels the selection may have after that
          latest     \* history: the last migration analysis of each run that was not refused

draw == <<rendered, index, picked, wanted, possible>>
vars == <<runs, draw, page, outputs, second, analyses, latest>>

Blank == [pending |-> None, result |-> None, saved |-> None, draft |-> None, draftSaved |-> None]

Init ==
  /\ runs = {} /\ rendered = {} /\ index = None /\ picked = None
  /\ page = [t \in Threads |-> Blank]
  /\ outputs = <<>>
  /\ second = 1 /\ analyses = 0
  /\ wanted = None /\ possible = {}
  /\ latest = [t \in Threads |-> 0]

(***************************************************************************)
(* Picking a project                                                       *)
(***************************************************************************)
\* Mutant: the choice is a position in the list that was drawn.
AtPosition(list, label) ==
  LET was == SelectSeq(Started, LAMBDA t : t \in rendered)
      now == SelectSeq(Started, LAMBDA t : t \in list)
      at == {i \in DOMAIN was : Label[was[i]] = label}
  IN  IF at = {} THEN now[1] ELSE now[CHOOSE i \in at : \A j \in at : i <= j]

\* Of some runs the one listed first, which started last.
Top(list) ==
  Started[CHOOSE i \in DOMAIN Started :
            Started[i] \in list /\ \A j \in DOMAIN Started : Started[j] \in list => i <= j]

\* runs[labels.index(choice)]: the first run with the label.
First(list, label) == Top({t \in list : Label[t] = label})

\* Drawing the page again keeps the label of the selection; without one it is the first run.
Current == IF picked = None THEN Top(runs) ELSE First(runs, Label[picked])

\* default_index: the position of the selection, or 0.
Default == IF picked = None THEN Top(runs) ELSE picked

\* The list is drawn, with a selection and a default.
DrawList(list, selected, default) ==
  /\ rendered' = list /\ picked' = selected /\ index' = default

Choice(label, instead) == wanted' = label /\ possible' = {label} \cup instead

Draw ==
  /\ runs # {}
  /\ DrawList(runs, Current, Default)
  /\ IF wanted = None THEN Choice(Label[Current], {}) ELSE UNCHANGED <<wanted, possible>>

\* A button of the selected run is still there when the page is drawn again.
Pressed == picked # None /\ Current = picked /\ Draw

\* Runs are listed by their start, so the last to complete may be anywhere in the list.
CompleteRun(t) ==
  /\ t \notin runs
  /\ runs' = runs \cup {t}
  /\ UNCHANGED <<draw, page, outputs, second, analyses, latest>>

\* Ingesting in this session selects the new run.
IngestHere(t) ==
  /\ t \notin runs
  /\ runs' = runs \cup {t}
  /\ DrawList(runs', First(runs', Label[t]), t) /\ Choice(Label[t], {})
  /\ UNCHANGED <<page, outputs, second, analyses, latest>>

\* Another run has the label of the selection.
Shared == \E t \in runs \ {picked} : Label[t] = Label[picked]

\* A person chooses a run from the list that was drawn.  The selectbox has no key: with
\* other options or another index it is a new widget, which knows nothing of the choice.
PickProject(t) ==
  /\ t \in rendered
  /\ DrawList(runs, IF rendered = runs /\ index = Default THEN First(runs, Label[t]) ELSE Current, Default)
  /\ Choice(Label[t], IF Label[t] = wanted /\ rendered = runs /\ ~Shared THEN {} ELSE {Label[picked]})
  /\ UNCHANGED <<runs, page, outputs, second, analyses, latest>>

Redraw == Draw /\ UNCHANGED <<runs, page, outputs, second, analyses, latest>>

(***************************************************************************)
(* Full migration                                                          *)
(***************************************************************************)
Staged(id, t, reply, online) ==
  [id |-> id, reply |-> reply, units |-> GatherUnits(FactsOf[t]), confirmed |-> FALSE,
   mappings |-> {VerifyOne(m, online) : m \in ProposeDependencyMappings(FactsOf[t].deps, reply)}]

Finished(staged) ==
  LET generated == Generate(staged.units, staged.reply) IN
  [id |-> staged.id, same |-> staged.reply.same, units |-> staged.units, confirmed |-> staged.confirmed,
   mappings |-> staged.mappings, generated |-> generated, warned |-> Warned(staged.units, generated)]

\* _finish_full_migration: generation may raise, and the staged analysis is gone.
Finish(p, staged, ok) == IF ok THEN [p EXCEPT !.result = Finished(staged), !.saved = None] ELSE p

\* Mutant: an analysis that needs no confirmation leaves the pending one.
DropResult(p) == [p EXCEPT !.result = None, !.saved = None]

\* What an analysis that got as far as its mapping removes.
Restage(p) == [p EXCEPT !.result = None, !.saved = None, !.pending = None]

\* A plan for another language waits for a person when there are dependencies.
Analyze(reply, online, ok) ==
  LET t == Current
      staged == Staged(analyses + 1, t, reply, online) IN
  /\ analyses < MaxAnalyses /\ Draw
  /\ page' = [page EXCEPT ![t] =
       IF ~reply.same /\ FactsOf[t].deps # <<>>
       THEN [Restage(@) EXCEPT !.pending = staged]
       ELSE Finish(Restage(@), staged, ok)]
  /\ analyses' = analyses + 1
  /\ latest' = [latest EXCEPT ![t] = analyses + 1]
  /\ UNCHANGED <<runs, outputs, second>>

\* Reading the graph or planning fails: an error is shown above what was there.
RefuseAnalysis ==
  /\ analyses < MaxAnalyses /\ Draw
  /\ analyses' = analyses + 1
  /\ UNCHANGED <<runs, page, outputs, second, latest>>

\* One row may be edited: its target changes, what was verified of it does not.
Edited(m, target) == [m EXCEPT !.target = target[1], !.targetEco = target[2], !.edited = TRUE]

Confirmable(table) == {table} \cup {(table \ {m}) \cup {Edited(m, e)} : m \in table, e \in Edits}

ConfirmDependencies(ok) ==
  LET t == picked IN
  /\ Pressed /\ page[t].pending # None
  /\ \E mappings \in Confirmable(page[t].pending.mappings) :
       page' = [page EXCEPT ![t] =
         Finish([@ EXCEPT !.pending = None], [@.pending EXCEPT !.mappings = mappings, !.confirmed = TRUE], ok)]
  /\ UNCHANGED <<runs, outputs, second, analyses, latest>>

(***************************************************************************)
(* Targeted change                                                         *)
(***************************************************************************)
Draft(id, t, request) ==
  [id |-> id, files |-> Drafted(FactsOf[t], request), skipped |-> Skipped(FactsOf[t], request)]

AnalyzeTargeted(request) ==
  LET t == Current IN
  /\ analyses < MaxAnalyses /\ Draw
  /\ page' = [page EXCEPT ![t].draft = Draft(analyses + 1, t, request), ![t].draftSaved = None]
  /\ analyses' = analyses + 1
  /\ UNCHANGED <<runs, outputs, second, latest>>

(***************************************************************************)
(* outputs/                                                                *)
(***************************************************************************)
Absent == [files |-> <<>>, manifest |-> None, of |-> {}]
Dir(d) == IF d \in DOMAIN outputs THEN outputs[d] ELSE Absent

\* Mutant: the first unit that generates a path keeps it.
FirstUnit(generated, path) ==
  CHOOSE i \in DOMAIN generated :
    /\ path \in {f.path : f \in generated[i].files}
    /\ \A j \in 1..(i - 1) : path \notin {f.path : f \in generated[j].files}

\* Files are written unit by unit: the last unit that generates a path keeps it.
UnitOf(generated, path) ==
  CHOOSE i \in DOMAIN generated :
    /\ path \in {f.path : f \in generated[i].files}
    /\ \A j \in (i + 1)..Len(generated) : path \notin {f.path : f \in generated[j].files}

Contents(id, generated) == [p \in Paths(generated) |-> <<id, UnitOf(generated, p)>>]
DraftContents(draft) == [p \in draft.files |-> <<draft.id, 1>>]

\* Files first, then the manifest. Directories are made for files only, so a proposal
\* without files cannot be saved unless its directory is there. A write may fail too: at
\* worst all files are there and the manifest is not.
Stored(d, files, ok) == ok /\ (DOMAIN files # {} \/ d \in DOMAIN outputs)

Over(new, old) == [x \in DOMAIN new \cup DOMAIN old |-> IF x \in DOMAIN new THEN new[x] ELSE old[x]]

Write(d, files, proposal, ok) ==
  LET old == Dir(d)  stored == Stored(d, files, ok)
      dir == [files |-> Over(files, old.files), of |-> old.of \cup {proposal.id},
              manifest |-> IF stored THEN proposal ELSE old.manifest] IN
  outputs' = IF stored \/ DOMAIN files # {}
             THEN [e \in DOMAIN outputs \cup {d} |-> IF e = d THEN dir ELSE outputs[e]]
             ELSE outputs

SaveMigration(ok) ==
  LET t == picked
      r == page[t].result
      d == <<t, "migrations", second>>
      files == Contents(r.id, r.generated) IN
  /\ Pressed /\ page[t].pending = None /\ r # None
  /\ Write(d, files, r, ok)
  /\ page' = IF Stored(d, files, ok) THEN [page EXCEPT ![t].saved = d] ELSE page
  /\ UNCHANGED <<runs, second, analyses, latest>>

SaveDraft(ok) ==
  LET t == picked
      d == <<t, "modifications", second>>
      files == DraftContents(page[t].draft) IN
  /\ Pressed /\ page[t].draft # None
  /\ Write(d, files, page[t].draft, ok)
  /\ page' = IF Stored(d, files, ok) THEN [page EXCEPT ![t].draftSaved = d] ELSE page
  /\ UNCHANGED <<runs, second, analyses, latest>>

\* `atlaz migrate --save`: every stage at once, no confirmation.
CliMigrate(t, reply, online, ok) ==
  LET r == Finished(Staged(analyses + 1, t, reply, online)) IN
  /\ t \in runs /\ analyses < MaxAnalyses
  /\ Write(<<t, "migrations", second>>, Contents(r.id, r.generated), r, ok)
  /\ analyses' = analyses + 1
  /\ UNCHANGED <<runs, draw, page, second, latest>>

\* `atlaz enhance --save`.
CliEnhance(t, request, ok) ==
  LET draft == Draft(analyses + 1, t, request) IN
  /\ t \in runs /\ analyses < MaxAnalyses
  /\ Write(<<t, "modifications", second>>, DraftContents(draft), draft, ok)
  /\ analyses' = analyses + 1
  /\ UNCHANGED <<runs, draw, page, second, latest>>

Tick == second < MaxSecond /\ second' = second + 1 /\ UNCHANGED <<runs, draw, page, outputs, analyses, latest>>

Next ==
  \/ \E t \in Threads : CompleteRun(t) \/ IngestHere(t) \/ PickProject(t)
  \/ Redraw \/ RefuseAnalysis \/ Tick
  \/ \E request \in Requests : AnalyzeTargeted(request)
  \/ \E ok \in BOOLEAN :
       \/ ConfirmDependencies(ok) \/ SaveMigration(ok) \/ SaveDraft(ok)
       \/ \E t \in Threads, request \in Requests : CliEnhance(t, request, ok)
       \/ \E reply \in Replies, online \in BOOLEAN :
            Analyze(reply, online, ok) \/ \E t \in Threads : CliMigrate(t, reply, online, ok)

Spec == Init /\ [][Next]_vars

(***************************************************************************)
(* Properties                                                              *)
(***************************************************************************)
\* A choice is taken, or dropped and the selection keeps its label, and never leads to a third
\* project, however the list and the selection have changed since the page was drawn; chosen
\* twice in a row it is taken, unless the list changed again or another run has the
\* selection's label.
PickedAsWanted == picked # None => Label[picked] \in possible

\* The page shows, and saves, only what came of the project's last migration analysis:
\* either a mapping to confirm or a result, and a result for another language that has
\* dependencies only after somebody confirmed its mapping (planner.py: an unclear answer
\* goes through confirmation).
LatestAnalysisShown ==
  \A t \in Threads :
    LET p == page[t] IN
    /\ p.pending # None => p.result = None /\ p.pending.id = latest[t]
    /\ p.result # None =>
         /\ p.result.id = latest[t]
         /\ p.result.confirmed \/ p.result.same \/ FactsOf[t].deps = <<>>
    /\ p.saved # None => p.result # None

\* Every mapping table, shown or saved.
Tables(t) ==
  {r.mappings : r \in {page[t].pending, page[t].result} \ {None}} \cup
  {outputs[d].manifest.mappings :
     d \in {d \in DOMAIN outputs : d[1] = t /\ d[2] = "migrations" /\ outputs[d].manifest # None}}

\* A replacement marked verified exists in its registry, unless a person put it there after
\* the check: the mark of the package proposed before stays on the row.
VerifiedExists ==
  \A t \in Threads : \A table \in Tables(t) : \A m \in table :
    m.verified => m.edited \/ <<m.targetEco, m.target>> \in Registry

\* Every dependency of every manifest has a replacement in the table (dependency_mapper.py:
\* what the model did not mention still needs one), unless another manifest declares the
\* same name.
DependenciesAccounted ==
  \A t \in Threads : \A table \in Tables(t) :
    LET deps == FactsOf[t].deps IN
    \A i \in DOMAIN deps :
      \/ \E m \in table : m.name = deps[i].name /\ m.eco = deps[i].eco
      \/ \E j \in DOMAIN deps : j # i /\ deps[j].name = deps[i].name

\* A saved directory holds the proposal its manifest describes, nothing else, each path as
\* the last unit generated it, unless two proposals were saved in one second; drafts only replace files the repository has.
ProposalOnDisk ==
  \A d \in DOMAIN outputs :
    LET dir == outputs[d] IN
    dir.manifest # None /\ dir.of = {dir.manifest.id} =>
      IF d[2] = "migrations"
      THEN LET made == dir.manifest.generated IN
           /\ DOMAIN dir.files = Paths(made)
           /\ \A i \in DOMAIN made : \A f \in made[i].files :
                dir.files[f.path] = <<dir.manifest.id, i>>
                \/ \E j \in (i + 1)..Len(made) : f.path \in {g.path : g \in made[j].files}
      ELSE DOMAIN dir.files = dir.manifest.files /\ DOMAIN dir.files \subseteq FactsOf[d[1]].disk

\* A response field a unit knows of its original code, and that is in none of the files saved
\* for it, has a warning (api_response_shape.py: not swallowed as a clean pass), unless the unit generated
\* no file, another unit generated one of its paths, or the directory holds two proposals.
LostFieldsWarned ==
  \A d \in DOMAIN outputs :
    LET m == outputs[d].manifest IN
    d[2] = "migrations" /\ m # None /\ outputs[d].of = {m.id} =>
      \A i \in DOMAIN m.units :
        LET mine == m.generated[i].files
            kept == UNION {f.kept : f \in {f \in mine : outputs[d].files[f.path] = <<m.id, i>>}} IN
        \/ m.units[i].fields \subseteq kept
        \/ mine # {} /\ {f.path : f \in mine} \subseteq m.warned
        \/ mine = {}
        \/ \E j \in DOMAIN m.units \ {i} : {f.path : f \in mine} \cap Paths(<<m.generated[j]>>) # {}
=============================================================================
