----------------------------- MODULE ReviewedRun -----------------------------
(***************************************************************************)
(* What a reader of the checkpoint and of the knowledge graph is promised  *)
(* about one run, without processes, nodes or memory copies.  What the     *)
(* checkpoint has once shown, the review queue and its resolutions, never  *)
(* changes; a pause comes before any resolution, and only resolutions end  *)
(* it; a complete run stays as it is.  The graph is written before the     *)
(* checkpoint tells, always with all the findings that survive one set of  *)
(* resolutions.  As long as no checkpoint is lost that is the set shown,   *)
(* and the graph holds nothing else.                                       *)
(***************************************************************************)
CONSTANT Items

VARIABLES status,  \* what get_run_status answers
          flagged, \* the review queue
          verdict, \* hitl_resolutions
          graph,   \* findings in the knowledge graph
          lost     \* some checkpoint never reached the disk

rvars == <<status, flagged, verdict, graph, lost>>

Undecided == [i \in Items |-> "none"]
Decisions(queue) == {v \in [Items -> {"none", "accept", "reject"}] :
                       \A i \in Items : i \in queue <=> v[i] # "none"}
Surviving(v) == {i \in Items : v[i] # "reject"}
Reviewed == flagged = {} \/ verdict # Undecided

\* The graph agrees with the resolutions shown.
Agrees ==
  /\ ~lost /\ Reviewed => graph \in {{}, Surviving(verdict)}
  /\ status = "complete" => Reviewed /\ Surviving(verdict) \subseteq graph

Init ==
  /\ status = "not_found" /\ flagged = {} /\ verdict = Undecided /\ graph = {}
  /\ lost = FALSE

\* A checkpoint is stored.  It may skip what earlier ones would have shown.
Show ==
  /\ status # "complete"
  /\ status' \in {"running", "complete"}
  /\ flagged' \in IF flagged = {} THEN SUBSET Items ELSE {flagged}
  /\ verdict' \in IF verdict = Undecided THEN {Undecided} \cup Decisions(flagged')
                  ELSE {verdict}
  /\ status = "pending_review" => verdict' # Undecided
  /\ lost' \in {lost, TRUE}
  /\ UNCHANGED graph
  /\ Agrees'

Pause ==
  /\ status = "running" /\ ~Reviewed
  /\ status' = "pending_review"
  /\ UNCHANGED <<flagged, verdict, graph, lost>>

\* The resolutions a process goes on with, shown already or not.
MayGoOnWith(v) ==
  v \in IF verdict # Undecided THEN {verdict}
        ELSE IF flagged = {} THEN {Undecided} ELSE Decisions(flagged)

Publish ==
  /\ status # "complete"
  /\ lost \/ graph = {}
  /\ \E v \in Decisions(flagged) \cup {verdict} :
       MayGoOnWith(v) /\ graph' = graph \cup Surviving(v)
  /\ UNCHANGED <<status, flagged, verdict, lost>>

Lose ==
  /\ lost' = TRUE
  /\ UNCHANGED <<status, flagged, verdict, graph>>

Next == Show \/ Pause \/ Publish \/ Lose

Spec == Init /\ [][Next]_rvars
=============================================================================
