------------------------------ MODULE Disputes -------------------------------
(***************************************************************************)
(* Contradictions between domains within one launch: detection from the    *)
(* domains' findings, scoring, the dispute policy, and what is written of  *)
(* them to the graph and to conflict_records.                              *)
(*                                                                         *)
(* Confidences are per mille.  A text is its set of words, a literal value *)
(* what _normalize makes of it.  A claim_id is a tuple.                    *)
(***************************************************************************)
EXTENDS Integers, Comprehensions

CONSTANTS
  Modules, \* source files
  Texts,   \* capability names and inferred behaviors, as sets of words
  Words,   \* concept words of rule identifiers and field names
  Values,  \* literal values
  NoDefault,
  Inputs   \* findings the domains may hand over, see InputType

Confidence == 0..1000

\* What this part reads of the findings.  symbols says of a module whether a
\* static call reaches one of its symbols, or that it has none.
InputType(in) ==
  /\ in.clusters \in Seq([name : Texts, members : SUBSET Modules,
       confidence : Confidence, cohesion : Confidence, traced : BOOLEAN])
  /\ in.symbols \in [Modules -> {"called", "uncalled", "none"}]
  /\ in.frds \in Seq([function : Nat, module : Modules, text : Texts, tested : BOOLEAN])
  /\ in.rules \in Seq([id : Nat, words : SUBSET Words, value : Values])
  /\ in.fields \in Seq([table : Nat, name : Nat, words : SUBSET Words,
       default : Values \cup {NoDefault}])
  /\ in.gaps \in Seq([corner : Nat, signals : Nat, kinds : Nat])

ASSUME DisputesAssumption ==
  /\ IsFiniteSet(Modules) /\ NoDefault \notin Values
  /\ \A in \in Inputs : InputType(in)

VARIABLES
  stage,     \* the node to run next
  input,     \* the domains' findings, the symbol table and the call graph
  conflicts, \* cross_domain_conflicts
  rules,     \* consolidated_business_rules
  scores,    \* confidence_scores: claim_id -> score and derivation method
  resolved,  \* resolved_claims
  records,   \* conflict_records: conflict -> resolution_status
  ruleNodes, \* BusinessRule nodes: id -> status
  edges      \* CONFLICTS_WITH edges: conflict -> status

vars == <<stage, input, conflicts, rules, scores, resolved, records, ruleNodes, edges>>

-----------------------------------------------------------------------------
(* claims and their contradictions *)

Claim(id, domain, confidence, kind, text) ==
  [id |-> id, domain |-> domain, confidence |-> confidence, kind |-> kind, text |-> text]

\* FRDExtractor's confidence.
FrdConfidence(f) == IF f.tested THEN 900 ELSE 400
\* Mutant: rules are trusted like other parsed findings.
RuleConfidenceOfDomainD == 850

RuleConfidence == 950
FieldConfidence == 1000

\* The claims about one module, in the order _build_conflict_claims lists them.
ModuleClaims(m) ==
  LET claimsOf(c) == <<
        Claim(<<"membership", c.name, m>>, "domain_b", c.confidence, "active", {}),
        Claim(<<"purpose", c.name, m>>, "domain_b", c.confidence, "purpose", c.name)>>
      mine == Having(input.clusters, LAMBDA c : m \in c.members)
      frds == Having(input.frds, LAMBDA f : f.module = m)
      reach == Claim(<<"reachability", m>>, "domain_d", 850,
                 IF input.symbols[m] = "called" THEN "reachable" ELSE "unreachable", {})
  IN FlattenSeq([i \in DOMAIN mine |-> claimsOf(mine[i])])
       \o (IF input.symbols[m] = "none" THEN <<>> ELSE <<reach>>)
       \o [i \in DOMAIN frds |->
             Claim(<<"frd", frds[i].function>>, "domain_c", FrdConfidence(frds[i]),
                   "purpose", frds[i].text)]

\* Mutant: the claim with the reachability assertion is expected second.
ClassifyOrdered(a, b) ==
  IF a.kind = "unreachable" /\ b.kind = "active" THEN {"dead_vs_active"}
  ELSE IF a.kind = "purpose" /\ b.kind = "purpose" /\ a.text \cap b.text = {}
    THEN {"purpose_mismatch"}
  ELSE {}

\* The conflict type, if the two claims exclude each other.
Classify(a, b) ==
  IF {a.kind, b.kind} = {"active", "unreachable"} THEN {"dead_vs_active"}
  ELSE IF /\ a.kind = "purpose" /\ b.kind = "purpose"
          /\ a.text # {} /\ b.text # {} /\ a.text \cap b.text = {}
    THEN {"purpose_mismatch"}
  ELSE {}

\* itertools.combinations(s, 2).
Pairs(s) ==
  FlattenSeq([i \in 1..Len(s) |-> [k \in 1..(Len(s) - i) |-> <<s[i], s[i + k]>>]])

Conflict(a, b, type) == [a |-> a, b |-> b, type |-> type]

\* _detect_entity_conflicts; the modules' order is that of a Python set.
EntityConflicts ==
  LET modules == SetToSeq(Modules)
      pairs == FlattenSeq([i \in DOMAIN modules |-> Pairs(ModuleClaims(modules[i]))])
      excluding == Having(pairs, LAMBDA p :
                     p[1].domain # p[2].domain /\ Classify(p[1], p[2]) # {})
  IN [i \in DOMAIN excluding |->
        Conflict(excluding[i][1], excluding[i][2],
                 CHOOSE t \in Classify(excluding[i][1], excluding[i][2]) : TRUE)]

\* find_conflicts: one concept, two values.
Clashes(r, f) ==
  f.default # NoDefault /\ r.words \cap f.words # {} /\ r.value # f.default

ValueConflicts ==
  LET ofRule(r) == Having(input.fields, LAMBDA f : Clashes(r, f))
      conflict(r, f) ==
        Conflict(Claim(<<"rule", r.id>>, "domain_b", RuleConfidence, "value", {}),
                 Claim(<<"field", f.table, f.name>>, "domain_d", FieldConfidence, "value", {}),
                 "value_mismatch")
  IN FlattenSeq([i \in DOMAIN input.rules |->
       [k \in DOMAIN ofRule(input.rules[i]) |->
          conflict(input.rules[i], ofRule(input.rules[i])[k])]])

-----------------------------------------------------------------------------
(* scores *)

Least(i, j) == IF i < j THEN i ELSE j
Greatest(i, j) == IF i > j THEN i ELSE j

\* Mutant: the number of signals is not capped.
SignalDensityUncapped(g) == 84 * g.signals + 60 * Least(3, g.kinds)

\* 0.6 * (0.7 * min(1, signals / 5) + 0.3 * min(1, kinds / 3)).
SignalDensity(g) == 84 * Least(5, g.signals) + 60 * Least(3, g.kinds)

StructuralPlusTextual(c) == (c.cohesion + c.confidence) \div 2

\* Mutant: a domain's weight is lost, the raw confidence is kept.
AstGroundedRaw(confidence) == confidence

AstGrounded(confidence) == Greatest(700, confidence)
DeterministicAdjacent(confidence) == Greatest(850, confidence)

\* _source_agreement_multiplier: 1.1 with the second domain.
Corroborate(weight) == Least(1000, (weight * 11 + 5) \div 10)

Scored(id, confidence, method) == [id |-> id, confidence |-> confidence, method |-> method]

\* score_claim on _build_scoring_claims: rules and functions are among them, the
\* memberships, purposes and reachabilities of modules are not.  Glossary terms
\* are scored like rules, Domain D's other findings like its tables: left out.
ConfidenceRecords ==
  LET gap(g) == Scored(<<"gap", g.corner>>, SignalDensity(g), "llm_inference")
      cluster(c) ==
        IF c.traced
          THEN Scored(<<"cluster", c.name>>, Corroborate(StructuralPlusTextual(c)),
                      "cross_domain_consolidated")
          ELSE Scored(<<"cluster", c.name>>, StructuralPlusTextual(c), "llm_inference")
      rule(r) == Scored(<<"rule", r.id>>, RuleConfidence, "llm_inference")
      frd(f) == Scored(<<"frd", f.function>>, AstGrounded(FrdConfidence(f)), "ast_deterministic")
      table(f) == Scored(<<"table", f.table>>, DeterministicAdjacent(FieldConfidence),
                         "ast_deterministic")
      each(s, Op(_)) == [i \in DOMAIN s |-> Op(s[i])]
  IN each(input.gaps, gap) \o each(input.clusters, cluster) \o each(input.rules, rule)
       \o each(input.frds, frd) \o each(input.fields, table)

\* {r.claim_id: r for r in s}: the last one wins.
ById(s) ==
  [id \in {s[i].id : i \in DOMAIN s} |-> s[SelectLastInSeq(s, LAMBDA r : r.id = id)]]

-----------------------------------------------------------------------------
(* the dispute policy *)

\* abs(0.7 - 0.55) is below 0.15 in floating point; of the other pairs with
\* that distance a conflict may have, none is.
MarginLost == {<<700, 550>>}

\* The difference reaches DISPUTE_CONFIDENCE_MARGIN.
Decided(p, q) ==
  LET high == Greatest(p, q)
      low == Least(p, q)
  IN high - low >= 150 /\ <<high, low>> \notin MarginLost

\* confidence_by_claim_id.get(claim_id, raw_confidence).
ConfidenceOf(claim) ==
  IF claim.id \in DOMAIN scores THEN scores[claim.id].confidence ELSE claim.confidence

Resolved(id, confidence, status) == [id |-> id, confidence |-> confidence, status |-> status]

\* Mutant: the weaker side of a decided conflict is not written.
ResolveDisputeWinner(c) ==
  LET p == ConfidenceOf(c.a)
      q == ConfidenceOf(c.b)
  IN IF ~Decided(p, q) THEN <<Resolved(c.a.id, p, "unresolved_written_both"),
                              Resolved(c.b.id, q, "unresolved_written_both")>>
     ELSE IF p > q THEN <<Resolved(c.a.id, p, "disputed_resolved")>>
     ELSE <<Resolved(c.b.id, q, "disputed_resolved")>>

\* Mutant: the stronger side is settled, the weaker one is left open.
ResolveDisputeLoserOpen(c) ==
  LET p == ConfidenceOf(c.a)
      q == ConfidenceOf(c.b)
      label(mine, other) == IF Decided(p, q) /\ mine > other THEN "disputed_resolved"
                            ELSE "unresolved_written_both"
  IN <<Resolved(c.a.id, p, label(p, q)), Resolved(c.b.id, q, label(q, p))>>

\* dispute_resolution.auto_resolve_dispute: one label for both sides.
ResolveDispute(c) ==
  LET p == ConfidenceOf(c.a)
      q == ConfidenceOf(c.b)
      status == IF Decided(p, q) THEN "disputed_resolved" ELSE "unresolved_written_both"
  IN <<Resolved(c.a.id, p, status), Resolved(c.b.id, q, status)>>

Accepted(r) ==
  Resolved(r.id, r.confidence,
           IF r.method = "ast_deterministic" THEN "confirmed" ELSE "inferred")

\* Appends the acceptance of the claims; their order does not matter.
AcceptAll(ids) ==
  resolved \o [i \in DOMAIN SetToSeq(ids) |-> Accepted(scores[SetToSeq(ids)[i]])]

\* Mutant: disputed claims are accepted a second time.
AcceptClaimsAgain == AcceptAll(DOMAIN scores)

\* dispute_resolution.accept_resolved: the disputes, then every other score.
AcceptClaims == AcceptAll(DOMAIN scores \ {r.id : r \in ToSet(resolved)})

-----------------------------------------------------------------------------
Init ==
  /\ stage = "detect_cross_domain_conflicts"
  /\ input \in Inputs
  /\ conflicts = <<>> /\ rules = <<>> /\ scores = <<>> /\ resolved = <<>>
  /\ records = <<>> /\ ruleNodes = <<>> /\ edges = <<>>

At(node, next) == stage = node /\ stage' = next

\* detect_cross_domain_conflicts_node.
DetectConflicts ==
  /\ At("detect_cross_domain_conflicts", "consolidate_business_rules")
  /\ conflicts' = EntityConflicts \o ValueConflicts
  /\ UNCHANGED <<input, rules, scores, resolved, records, ruleNodes, edges>>

\* consolidate_business_rules_node.
Consolidate ==
  /\ At("consolidate_business_rules", "score_confidence")
  /\ rules' = ById(input.rules)
  /\ UNCHANGED <<input, conflicts, scores, resolved, records, ruleNodes, edges>>

\* score_confidence_node and route_dispute.
ScoreConfidence ==
  /\ At("score_confidence",
        IF conflicts = <<>> THEN "accept_resolved" ELSE "auto_resolve_dispute")
  /\ scores' = ById(ConfidenceRecords)
  /\ UNCHANGED <<input, conflicts, rules, resolved, records, ruleNodes, edges>>

\* auto_resolve_dispute_node.
AutoResolve ==
  /\ At("auto_resolve_dispute", "accept_resolved")
  /\ resolved' = FlattenSeq([i \in DOMAIN conflicts |-> ResolveDispute(conflicts[i])])
  /\ UNCHANGED <<input, conflicts, rules, scores, records, ruleNodes, edges>>

\* accept_resolved_node.
Accept ==
  /\ At("accept_resolved", "write_knowledge_graph")
  /\ resolved' = AcceptClaims
  /\ UNCHANGED <<input, conflicts, rules, scores, records, ruleNodes, edges>>

\* resolved_by_claim_id.get(claim_id), or what is assumed without an entry.
StatusOf(id, default) ==
  LET byId == ById(resolved) IN IF id \in DOMAIN byId THEN byId[id].status ELSE default

\* write_knowledge_graph: the status of BusinessRule nodes, and CONFLICTS_WITH
\* edges, of which there is one between a rule and a table.
WriteGraph ==
  LET disputes == Having(conflicts, LAMBDA c : c.type = "value_mismatch")
      edge(c) == [id |-> <<c.a.id[2], c.b.id[2]>>, field |-> c.b.id[3],
                  status |-> StatusOf(c.a.id, "unresolved_written_both")]
  IN /\ At("write_knowledge_graph", "write_evidence_store")
     /\ ruleNodes' = [r \in DOMAIN rules |-> StatusOf(<<"rule", r>>, "confirmed")]
     /\ edges' = ById([i \in DOMAIN disputes |-> edge(disputes[i])])
     /\ UNCHANGED <<input, conflicts, rules, scores, resolved, records>>

\* write_evidence_store: conflict_records, keyed by entity and claims.
WriteRecords ==
  LET status(c) == IF StatusOf(c.a.id, "unresolved_written_both") = "disputed_resolved"
                     THEN "auto_resolved" ELSE "unresolved_written_both"
  IN /\ At("write_evidence_store", "ready_for_query")
     /\ records' = ById([i \in DOMAIN conflicts |->
          [id |-> <<conflicts[i].a.id, conflicts[i].b.id>>, status |-> status(conflicts[i])]])
     /\ UNCHANGED <<input, conflicts, rules, scores, resolved, ruleNodes, edges>>

Next ==
  \/ DetectConflicts \/ Consolidate \/ ScoreConfidence \/ AutoResolve
  \/ Accept \/ WriteGraph \/ WriteRecords

Spec == Init /\ [][Next]_vars

-----------------------------------------------------------------------------
(* properties *)

Disputed == {"disputed_resolved", "unresolved_written_both"}
Detected == stage # "detect_cross_domain_conflicts"
AllAccepted == stage \in {"write_knowledge_graph", "write_evidence_store", "ready_for_query"}
GraphWritten == stage \in {"write_evidence_store", "ready_for_query"}

\* Scores are probabilities, and every label is one the schema knows.
TypeOK ==
  /\ InputType(input)
  /\ DOMAIN rules \subseteq {r.id : r \in ToSet(input.rules)}
  /\ \A id \in DOMAIN scores : scores[id].confidence \in Confidence
  /\ \A i \in DOMAIN resolved :
       /\ resolved[i].confidence \in Confidence
       /\ resolved[i].status \in Disputed \cup {"confirmed", "inferred"}
  /\ \A r \in DOMAIN records :
       records[r].status \in {"auto_resolved", "unresolved_written_both"}

\* What conflicts.py declares a contradiction: an active module that nothing
\* calls; a capability and a behavior of one module, both described, without a
\* word in common; a rule and a default of one concept with different values.
DeadVsActive ==
  {<<<<"membership", p[1].name, p[2]>>, <<"reachability", p[2]>>>> :
     p \in {q \in ToSet(input.clusters) \X Modules :
              q[2] \in q[1].members /\ input.symbols[q[2]] = "uncalled"}}

PurposeMismatch ==
  {<<<<"purpose", p[1].name, p[2].module>>, <<"frd", p[2].function>>>> :
     p \in {q \in ToSet(input.clusters) \X ToSet(input.frds) :
              /\ q[2].module \in q[1].members
              /\ {} \notin {q[1].name, q[2].text} /\ q[1].name \cap q[2].text = {}}}

ValueMismatch ==
  {<<<<"rule", p[1].id>>, <<"field", p[2].table, p[2].name>>>> :
     p \in {q \in ToSet(input.rules) \X ToSet(input.fields) :
              /\ q[2].default \in Values \ {q[1].value}
              /\ \E w \in Words : w \in q[1].words /\ w \in q[2].words}}

Sides(c) == <<c.a.id, c.b.id>>

\* What the policy says of this conflict alone.
OwnResolution(c) ==
  IF Decided(ConfidenceOf(c.a), ConfidenceOf(c.b)) THEN "auto_resolved"
  ELSE "unresolved_written_both"

\* No finding is listed twice: a module is in one cluster of a name, a function
\* has one description.  A review in which keys are shared repeats a cluster, a
\* function that is defined twice has two descriptions.
FindingsDistinct ==
  /\ \A i, k \in DOMAIN input.clusters :
       i # k /\ input.clusters[i].name = input.clusters[k].name =>
         input.clusters[i].members \cap input.clusters[k].members = {}
  /\ \A i, k \in DOMAIN input.frds :
       i # k => input.frds[i].function # input.frds[k].function

\* Detection over lists of claims, pair by pair and within entities, finds
\* these contradictions, nothing else, each with its type; and each once, if no
\* finding is listed twice (rules and fields may be).
ContradictionsFound ==
  Detected =>
    /\ \A type \in {"dead_vs_active", "purpose_mismatch", "value_mismatch"} :
         {Sides(conflicts[i]) : i \in {k \in DOMAIN conflicts : conflicts[k].type = type}} =
           CASE type = "dead_vs_active" -> DeadVsActive
             [] type = "purpose_mismatch" -> PurposeMismatch
             [] type = "value_mismatch" -> ValueMismatch
    /\ \A i, k \in DOMAIN conflicts :
         FindingsDistinct /\ Sides(conflicts[i]) = Sides(conflicts[k]) /\ i # k =>
           conflicts[i].type = "value_mismatch"

\* No side of a contradiction is silently overwritten, and no bystander is
\* labelled: a claim has one entry per conflict it is a side of, each with a
\* dispute label, and a scored claim in no conflict has one entry, confirmed if
\* it is grounded in the syntax tree, else inferred.
EveryClaimLabelled ==
  AllAccepted =>
    LET entries(id) == Having(resolved, LAMBDA r : r.id = id)
        disputes(id) == {i \in DOMAIN conflicts : id \in {conflicts[i].a.id, conflicts[i].b.id}}
    IN \A id \in DOMAIN scores
                \cup UNION {{conflicts[i].a.id, conflicts[i].b.id} : i \in DOMAIN conflicts} :
         IF disputes(id) # {}
           THEN /\ Len(entries(id)) = Cardinality(disputes(id))
                /\ \A i \in DOMAIN entries(id) : entries(id)[i].status \in Disputed
           ELSE entries(id) = <<Accepted(scores[id])>>

\* A rule that a table contradicts is never shown as settled: the difference of
\* the two confidences is below the margin, so its node and all its edges say
\* unresolved; a rule that no table contradicts is shown as inferred, and there
\* is an edge exactly between a rule and a table that contradict each other.
ValueDisputesStayOpen ==
  GraphWritten =>
    /\ DOMAIN edges = {<<v[1][2], v[2][2]>> : v \in ValueMismatch}
    /\ \A e \in DOMAIN edges : edges[e].status = "unresolved_written_both"
    /\ \A r \in DOMAIN rules :
         ruleNodes[r] = IF \E e \in DOMAIN edges : e[1] = r
                          THEN "unresolved_written_both" ELSE "inferred"

\* Textual signals never outweigh what is read off the code: a gap of Domain A
\* scores at most 0.6, and less than every claim of Domain C or D.
SignalsStayAdvisory ==
  \A id, other \in DOMAIN scores :
    id[1] = "gap" =>
      /\ scores[id].confidence <= 600
      /\ other[1] \in {"frd", "table"} => scores[id].confidence < scores[other].confidence

\* A conflict is recorded the way it was resolved as long as its first claim is
\* in no other conflict.
LoneDisputesRecorded ==
  stage = "ready_for_query" =>
    \A i \in DOMAIN conflicts :
      (\A k \in DOMAIN conflicts : conflicts[i].a.id \in Range(Sides(conflicts[k])) => k = i) =>
        records[Sides(conflicts[i])].status = OwnResolution(conflicts[i])

-----------------------------------------------------------------------------
(* statements of the repository that the code breaks *)

\* Both statuses of a conflict agree, and so does its record: it is recorded as
\* auto_resolved if its own two sides were far enough apart.
RecordTellsResolution ==
  stage = "ready_for_query" =>
    \A i \in DOMAIN conflicts :
      records[Sides(conflicts[i])].status = OwnResolution(conflicts[i])
=============================================================================
