----------------------------- MODULE HitlReview -----------------------------
(***************************************************************************)
(* What review does to the findings of one run: collect_flagged_items      *)
(* queues the low-confidence ones, the gate obtains resolutions from the   *)
(* auto-resolve policy or from a client's requests, and                    *)
(* apply_hitl_resolutions folds them back into the domains' lists.  The    *)
(* queue crosses a checkpoint and a process boundary, so a resolution      *)
(* finds its finding again by natural key, not by identity.                *)
(*                                                                         *)
(* A finding's identity is the list it was extracted into and its place    *)
(* there; a natural key is a name shared by all findings that have it.     *)
(***************************************************************************)
EXTENDS Comprehensions

CONSTANTS
  Names,       \* capability names, terms, function references, locations
  Room,        \* how many findings each list may hold
  MaxRequests, \* length of a client's request list
  HitlSettings \* hitl_enabled of the processes that may execute the gate

\* The lists in the order collect_flagged_items goes through them.
ReviewOrder == <<"capability_clusters", "glossary_terms", "frd_claims", "hld",
                 "security">>
Lists == ToSet(ReviewOrder)

ASSUME RoomAssumption ==
  /\ Room \in [Lists -> Nat] /\ Room["hld"] = 1
  /\ MaxRequests \in Nat
  /\ HitlSettings \subseteq BOOLEAN

VARIABLES
  phase,       \* position in the graph
  domains,     \* the findings, list by list
  extracted,   \* the lists as the domain agents extracted them (history)
  gap,         \* whether Domain A reported its gap
  flagged,     \* flagged_for_review
  requests,    \* the body of POST /runs/{id}/resolve (history)
  resolutions, \* hitl_resolutions
  answer       \* resolution_answer of the Gap node that is written

vars == <<phase, domains, extracted, gap, flagged, requests, resolutions, answer>>

-----------------------------------------------------------------------------
Finding(l) == [kind : {l}, pos : 1..Room[l],
               key : IF l = "hld" THEN {"style"} ELSE Names, low : BOOLEAN]

Extractions(l) == {s \in BoundedSeq(Finding(l), Room[l]) :
                     /\ \A i \in DOMAIN s : s[i].pos = i
                     /\ l = "hld" => Len(s) = 1}

\* natural_key: the bare name for three kinds of finding, a prefixed one for
\* diagrams and security controls.
NaturalKey(f) ==
  CASE f.kind = "hld" -> <<"architecture_style=", f.key>>
    [] f.kind = "security" -> <<"regulation_hypothesis for ", f.key>>
    [] OTHER -> <<"", f.key>>

\* ReviewItem: the item id says which list, the natural key does not.
GapItem == [id |-> <<"domain_a", "gap">>, kind |-> "gap_confirmation",
            key |-> <<"", "">>, subject |-> "gap"]
LowItem(f) == [id |-> <<f.kind, f.key>>, kind |-> "low_confidence_finding",
               key |-> NaturalKey(f), subject |-> f]

LowItems(s) ==
  FlattenSeq([i \in DOMAIN s |-> IF s[i].low THEN <<LowItem(s[i])>> ELSE <<>>])

CollectFlaggedItems(d, g) ==
  (IF g THEN <<GapItem>> ELSE <<>>) \o
    FlattenSeq([i \in DOMAIN ReviewOrder |-> LowItems(d[ReviewOrder[i]])])

-----------------------------------------------------------------------------
Resolution(id, action, value) == [id |-> id, action |-> action, value |-> value]

\* Mutant: the policy discards what nobody reviewed.
AutoResolveDiscards(items) ==
  [i \in DOMAIN items |-> Resolution(items[i].id, "reject", "none")]

\* auto_resolve: a gap is left open ("reject"), a finding accepted as it is.
AutoResolve(items) ==
  [i \in DOMAIN items |->
     IF items[i].kind = "gap_confirmation"
       THEN Resolution(items[i].id, "reject", "none")
       ELSE Resolution(items[i].id, "accept", items[i].subject)]

\* Mutant: an accepted gap counts as answered although no answer was given.
BuildOneBlank(item, req) ==
  IF req.action = "reject"
    THEN Resolution(item.id, "reject", "none")
    ELSE Resolution(item.id, "accept",
                    IF item.kind = "gap_confirmation" THEN "text"
                    ELSE item.subject)

\* _build_one: a gap is accepted only together with an answer.
BuildOne(item, req) ==
  IF req.action = "reject" \/ (item.kind = "gap_confirmation" /\ req.answer = "none")
    THEN Resolution(item.id, "reject", "none")
    ELSE Resolution(item.id, "accept",
                    IF item.kind = "gap_confirmation" THEN req.answer
                    ELSE item.subject)

\* Mutant: items are looked up in the request by position.
BuildResolutionsByPosition(items, reqs) ==
  [i \in DOMAIN items |->
     IF i \in DOMAIN reqs THEN BuildOne(items[i], reqs[i])
     ELSE AutoResolve(items)[i]]

\* build_resolutions: requests for unknown items are ignored, items nobody
\* mentions fall to the policy.
BuildResolutions(items, reqs) ==
  LET known == Entries(reqs, {i \in DOMAIN reqs : \E k \in DOMAIN items : items[k].id = reqs[i].id})
      covered == {known[i].id : i \in DOMAIN known}
      rest == Entries(items, {i \in DOMAIN items : items[i].id \notin covered})
      ItemOf(id) == items[SelectLastInSeq(items, LAMBDA it : it.id = id)]
  IN  [i \in DOMAIN known |-> BuildOne(ItemOf(known[i].id), known[i])] \o AutoResolve(rest)

-----------------------------------------------------------------------------
\* What a dict keyed by id or by natural key answers: the last entry wins.
ItemByKey(key) == SelectLastInSeq(flagged, LAMBDA it :
                    it.kind = "low_confidence_finding" /\ it.key = key)
ResolutionById(id) == SelectLastInSeq(resolutions, LAMBDA r : r.id = id)

\* Mutant: the pass forgets to carry over what is not flagged.
OutcomeUnflaggedForgotten(f) ==
  LET item == ItemByKey(NaturalKey(f))
      res == IF item = 0 THEN 0 ELSE ResolutionById(flagged[item].id)
  IN  IF res = 0 \/ resolutions[res].action = "reject" THEN <<>>
      ELSE <<resolutions[res].value>>

\* One pass of the loop in apply_low_confidence_resolutions.
Outcome(f) ==
  LET item == ItemByKey(NaturalKey(f))
      res == IF item = 0 THEN 0 ELSE ResolutionById(flagged[item].id)
  IN  IF res = 0 THEN <<f>>
      ELSE IF resolutions[res].action = "reject" THEN <<>>
      ELSE <<resolutions[res].value>>

ApplyLowConfidenceResolutions(s) == FlattenSeq([i \in DOMAIN s |-> Outcome(s[i])])

\* The diagram is not a list: rejected, it stays what it was.
ApplyToDiagram(s) ==
  LET kept == ApplyLowConfidenceResolutions(s) IN IF kept = <<>> THEN s ELSE kept

\* find_gap_resolution, and build_graph_batch's use of it.
GapAnswer ==
  LET item == SelectInSeq(flagged, LAMBDA it : it.kind = "gap_confirmation")
      res == IF item = 0 THEN 0
             ELSE SelectInSeq(resolutions, LAMBDA r : r.id = flagged[item].id)
  IN  IF res # 0 /\ resolutions[res].action = "accept"
        THEN resolutions[res].value ELSE "none"

-----------------------------------------------------------------------------
RequestIds == {GapItem.id} \cup
              UNION {{<<l, f.key>> : f \in Finding(l)} : l \in Lists}
Requests == {r \in [id : RequestIds, action : {"accept", "reject"},
                    answer : {"none", "text"}] :
               r.answer = "text" => r.id = GapItem.id}

Init ==
  /\ phase = "collect_flagged_items"
  /\ domains \in [capability_clusters : Extractions("capability_clusters"),
                  glossary_terms : Extractions("glossary_terms"),
                  frd_claims : Extractions("frd_claims"),
                  hld : Extractions("hld"),
                  security : Extractions("security")]
  /\ extracted = domains
  /\ gap \in BOOLEAN
  /\ flagged = <<>> /\ requests = <<>> /\ resolutions = <<>>
  /\ answer = "none"

\* collect_flagged_items and route_after_collect.
Collect ==
  /\ phase = "collect_flagged_items"
  /\ flagged' = CollectFlaggedItems(domains, gap)
  /\ phase' = IF flagged' = <<>> THEN "apply_hitl_resolutions" ELSE "hitl_gate"
  /\ UNCHANGED <<domains, extracted, gap, requests, resolutions, answer>>

AutoGate ==
  /\ phase = "hitl_gate" /\ FALSE \in HitlSettings
  /\ resolutions' = AutoResolve(flagged)
  /\ phase' = "apply_hitl_resolutions"
  /\ UNCHANGED <<domains, extracted, gap, flagged, requests, answer>>

\* The client's request list, resolved against the queue in the checkpoint.
ReviewGate ==
  /\ phase = "hitl_gate" /\ TRUE \in HitlSettings
  /\ requests' \in BoundedSeq(Requests, MaxRequests)
  /\ resolutions' = BuildResolutions(flagged, requests')
  /\ phase' = "apply_hitl_resolutions"
  /\ UNCHANGED <<domains, extracted, gap, flagged, answer>>

Apply ==
  /\ phase = "apply_hitl_resolutions"
  /\ domains' = [l \in Lists |->
                   IF l = "hld" THEN ApplyToDiagram(domains[l])
                   ELSE ApplyLowConfidenceResolutions(domains[l])]
  /\ phase' = "write_knowledge_graph"
  /\ UNCHANGED <<extracted, gap, flagged, requests, resolutions, answer>>

\* build_graph_batch writes the gap, answered or open.
WriteGap ==
  /\ phase = "write_knowledge_graph"
  /\ answer' = GapAnswer
  /\ phase' = "done"
  /\ UNCHANGED <<domains, extracted, gap, flagged, requests, resolutions>>

Next == Collect \/ AutoGate \/ ReviewGate \/ Apply \/ WriteGap

Spec == Init /\ [][Next]_vars

-----------------------------------------------------------------------------
Applied == phase \in {"write_knowledge_graph", "done"}

\* The client's last word on an item ("none": it was not mentioned).
LastWord(id) ==
  LET i == SelectLastInSeq(requests, LAMBDA r : r.id = id)
  IN  IF i = 0 THEN "none" ELSE requests[i].action

AllFindings == UNION {ToSet(extracted[l]) : l \in Lists}

\* No two findings of the run have the same natural key.
KeysDistinct ==
  \A f, g \in AllFindings : NaturalKey(f) = NaturalKey(g) => f = g

\* The variables hold what their annotations say, except that a list may come
\* to hold findings of another kind that share a natural key with its own.
TypeOK ==
  /\ phase \in {"collect_flagged_items", "hitl_gate", "apply_hitl_resolutions",
                "write_knowledge_graph", "done"}
  /\ DOMAIN domains = Lists
  /\ \A l \in Lists : ToSet(domains[l]) \subseteq AllFindings
  /\ \A i \in DOMAIN flagged :
       IF flagged[i].kind = "gap_confirmation" THEN gap /\ flagged[i] = GapItem
       ELSE \E f \in AllFindings : f.low /\ flagged[i] = LowItem(f)
  /\ \A i \in DOMAIN resolutions :
       CASE resolutions[i].action = "reject" -> resolutions[i].value = "none"
         [] resolutions[i].action = "accept" ->
              IF resolutions[i].id = GapItem.id THEN resolutions[i].value = "text"
              ELSE resolutions[i].value \in AllFindings
  /\ answer \in {"none", "text"}

\* With distinct keys every finding has its own fate: it stays, itself and in
\* its place among the others, unless it was flagged and the client's last
\* word on it was "reject".  (The diagram always stays.)  This is what
\* PipelineRun takes a resolution to do to an item.
EachItemOnItsOwn ==
  Applied /\ KeysDistinct =>
    \A l \in Lists :
      domains[l] = Entries(extracted[l], {i \in DOMAIN extracted[l] :
        LET f == extracted[l][i] IN l = "hld" \/ ~f.low \/ LastWord(LowItem(f).id) # "reject"})

\* Whatever keys collide, no list gets shorter unless some client request
\* said "reject": the policy and the matching alone lose no entry.
OnlyRejectionsShorten ==
  Applied /\ (\A i \in DOMAIN requests : requests[i].action = "accept") =>
    \A l \in Lists : Len(domains[l]) = Len(extracted[l])

\* Whatever keys collide, a finding whose natural key no flagged finding has
\* is in its list afterwards.
UnsharedKeysUntouched ==
  Applied => \A f \in AllFindings :
    (\A g \in AllFindings : g.low => NaturalKey(g) # NaturalKey(f))
      => f \in ToSet(domains[f.kind])

\* The graph's gap is answered exactly when the run had one and a client
\* accepted it with an answer and, if it named the gap twice, did so first:
\* no other path fabricates an answer.
GapAnsweredByClient ==
  phase = "done" =>
    (answer = "text" <=>
       /\ gap
       /\ LET i == SelectInSeq(requests, LAMBDA r : r.id = GapItem.id)
          IN  i # 0 /\ requests[i].action = "accept" /\ requests[i].answer = "text")
=============================================================================
