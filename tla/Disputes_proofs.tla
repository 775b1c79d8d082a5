--------------------------- MODULE Disputes_proofs ----------------------------
(***************************************************************************)
(* What becomes of contradictions, for any findings of the domains, any    *)
(* modules, texts and values.                                              *)
(***************************************************************************)
EXTENDS Disputes, SequenceFacts

(***************************************************************************)
(* Findings                                                                *)
(***************************************************************************)
\* The entries of the five lists the domains hand over.
Capabilities ==
  [name : Texts, members : SUBSET Modules, confidence : Confidence,
   cohesion : Confidence, traced : BOOLEAN]
Behaviors == [function : Nat, module : Modules, text : Texts, tested : BOOLEAN]
BusinessRules == [id : Nat, words : SUBSET Words, value : Values]
Columns == [table : Nat, name : Nat, words : SUBSET Words, default : Values \cup {NoDefault}]
Gaps == [corner : Nat, signals : Nat, kinds : Nat]

\* An entry of a list.
LEMMA EntryOf ==
  ASSUME NEW T, NEW s \in Seq(T)
  PROVE  \A i \in DOMAIN s : s[i] \in T
OBVIOUS

\* What the lists have.
LEMMA InputLists ==
  ASSUME input \in Inputs
  PROVE  /\ input.clusters \in Seq(Capabilities) /\ \A i \in DOMAIN input.clusters : input.clusters[i] \in Capabilities
         /\ input.frds \in Seq(Behaviors) /\ \A i \in DOMAIN input.frds : input.frds[i] \in Behaviors
         /\ input.rules \in Seq(BusinessRules) /\ \A i \in DOMAIN input.rules : input.rules[i] \in BusinessRules
         /\ input.fields \in Seq(Columns) /\ \A i \in DOMAIN input.fields : input.fields[i] \in Columns
         /\ input.gaps \in Seq(Gaps) /\ \A i \in DOMAIN input.gaps : input.gaps[i] \in Gaps
         /\ input.symbols \in [Modules -> {"called", "uncalled", "none"}]
<1>1. InputType(input)
  BY DisputesAssumption
<1>2. /\ input.clusters \in Seq(Capabilities) /\ input.frds \in Seq(Behaviors)
      /\ input.rules \in Seq(BusinessRules) /\ input.fields \in Seq(Columns)
      /\ input.gaps \in Seq(Gaps) /\ input.symbols \in [Modules -> {"called", "uncalled", "none"}]
  BY <1>1 DEF InputType, Capabilities, Behaviors, BusinessRules, Columns, Gaps
<1>3. \A i \in DOMAIN input.clusters : input.clusters[i] \in Capabilities
  BY <1>2, EntryOf
<1>4. \A i \in DOMAIN input.frds : input.frds[i] \in Behaviors
  BY <1>2, EntryOf
<1>5. \A i \in DOMAIN input.rules : input.rules[i] \in BusinessRules
  BY <1>2, EntryOf
<1>6. \A i \in DOMAIN input.fields : input.fields[i] \in Columns
  BY <1>2, EntryOf
<1>7. \A i \in DOMAIN input.gaps : input.gaps[i] \in Gaps
  BY <1>2, EntryOf
<1>. QED
  BY <1>2, <1>3, <1>4, <1>5, <1>6, <1>7

(***************************************************************************)
(* Scores                                                                  *)
(***************************************************************************)
\* {r.claim_id: r for r in s} has the ids of s, each with the last entry that has it.
LEMMA LastWins ==
  ASSUME NEW T, NEW s \in Seq(T)
  PROVE  /\ DOMAIN ById(s) = {s[i].id : i \in DOMAIN s}
         /\ \A d \in DOMAIN ById(s) : \E i \in DOMAIN s :
              s[i].id = d /\ ById(s)[d] = s[i] /\ \A k \in DOMAIN s : s[k].id = d => k <= i
<1>1. DOMAIN ById(s) = {s[i].id : i \in DOMAIN s}
  BY DEF ById
<1>2. ASSUME NEW d \in DOMAIN ById(s)
      PROVE  \E i \in DOMAIN s :
               s[i].id = d /\ ById(s)[d] = s[i] /\ \A k \in DOMAIN s : s[k].id = d => k <= i
  <2>. DEFINE I == {i \in 1..Len(s) : s[i].id = d}
  <2>1. I # {} /\ I \subseteq 1..Len(s) /\ Len(s) \in Nat /\ DOMAIN s = 1..Len(s)
    BY <1>1
  <2>2. Max(I) \in I /\ \A k \in I : k <= Max(I)
    <3>. HIDE DEF I
    <3>. QED
      BY <2>1, Extremes
  <2>3. ById(s)[d] = s[Max(I)]
    <3>1. ById(s)[d] = s[SelectLastInSeq(s, LAMBDA r : r.id = d)]
      BY <1>1 DEF ById
    <3>2. SelectLastInSeq(s, LAMBDA r : r.id = d) = Max(I)
      BY <2>1 DEF SelectLastInSeq
    <3>. QED
      BY <3>1, <3>2
  <2>. QED
    BY <2>1, <2>2, <2>3
<1>. QED
  BY <1>1, <1>2

\* What a score is, by the kind of its claim.
GapScores == [id : {"gap"} \X Nat, confidence : 0..600, method : {"llm_inference"}]
ClusterScores ==
  [id : {"cluster"} \X Texts, confidence : Confidence,
   method : {"llm_inference", "cross_domain_consolidated"}]
RuleScores == [id : {"rule"} \X Nat, confidence : {RuleConfidence}, method : {"llm_inference"}]
FrdScores == [id : {"frd"} \X Nat, confidence : 700..1000, method : {"ast_deterministic"}]
TableScores == [id : {"table"} \X Nat, confidence : {1000}, method : {"ast_deterministic"}]
Scores == GapScores \cup ClusterScores \cup RuleScores \cup FrdScores \cup TableScores

\* The confidences of the five kinds of claims.
LEMMA Weights ==
  /\ \A n, k \in Nat : 84 * Least(5, n) + 60 * Least(3, k) \in 0..600
  /\ \A c, h \in Confidence : /\ (h + c) \div 2 \in Confidence
                              /\ Corroborate((h + c) \div 2) \in Confidence
  /\ \A c \in Confidence : AstGrounded(c) \in 700..1000
  /\ DeterministicAdjacent(FieldConfidence) = 1000
<1>1. \A n \in Nat : Least(5, n) \in 0..5 /\ Least(3, n) \in 0..3
  BY DEF Least
<1>2. ASSUME NEW n \in Nat, NEW k \in Nat PROVE 84 * Least(5, n) + 60 * Least(3, k) \in 0..600
  BY <1>1
<1>3. ASSUME NEW c \in Confidence, NEW h \in Confidence
      PROVE /\ (h + c) \div 2 \in Confidence /\ Corroborate((h + c) \div 2) \in Confidence
  <2>1. ASSUME NEW w \in Confidence PROVE Corroborate(w) \in Confidence
    <3>1. (w * 11 + 5) \div 10 \in Nat
      BY DEF Confidence
    <3>. QED
      BY <3>1 DEF Corroborate, Least, Confidence
  <2>2. (h + c) \div 2 \in Confidence
    BY DEF Confidence
  <2>. QED
    BY <2>1, <2>2
<1>4. \A c \in Confidence : AstGrounded(c) \in 700..1000
  BY DEF Confidence, AstGrounded, Greatest
<1>5. DeterministicAdjacent(FieldConfidence) = 1000
  BY DEF DeterministicAdjacent, FieldConfidence, Greatest
<1>. QED
  BY <1>2, <1>3, <1>4, <1>5

\* What is applied to each entry of a list.
LEMMA EachOf ==
  ASSUME NEW T, NEW s \in Seq(T), NEW V, NEW f \in [DOMAIN s -> V]
  PROVE  f \in Seq(V) /\ Len(f) = Len(s) /\ DOMAIN f = DOMAIN s
OBVIOUS

\* Every scored claim is one of the five kinds, and every rule is scored.
LEMMA RecordsAre ==
  ASSUME input \in Inputs
  PROVE  /\ ConfidenceRecords \in Seq(Scores)
         /\ \A k \in DOMAIN input.rules : \E i \in DOMAIN ConfidenceRecords :
              ConfidenceRecords[i].id = <<"rule", input.rules[k].id>>
<1>. DEFINE gaps == [i \in DOMAIN input.gaps |->
              Scored(<<"gap", input.gaps[i].corner>>, SignalDensity(input.gaps[i]), "llm_inference")]
            clusters == [i \in DOMAIN input.clusters |->
              IF input.clusters[i].traced
                THEN Scored(<<"cluster", input.clusters[i].name>>,
                            Corroborate(StructuralPlusTextual(input.clusters[i])),
                            "cross_domain_consolidated")
                ELSE Scored(<<"cluster", input.clusters[i].name>>,
                            StructuralPlusTextual(input.clusters[i]), "llm_inference")]
            rs == [i \in DOMAIN input.rules |->
              Scored(<<"rule", input.rules[i].id>>, RuleConfidence, "llm_inference")]
            frds == [i \in DOMAIN input.frds |->
              Scored(<<"frd", input.frds[i].function>>,
                     AstGrounded(FrdConfidence(input.frds[i])), "ast_deterministic")]
            tables == [i \in DOMAIN input.fields |->
              Scored(<<"table", input.fields[i].table>>, DeterministicAdjacent(FieldConfidence),
                     "ast_deterministic")]
<1>2. ConfidenceRecords = gaps \o clusters \o rs \o frds \o tables
  BY DEF ConfidenceRecords
<1>3. gaps \in Seq(Scores)
  <2>1. input.gaps \in Seq(Gaps) /\ \A i \in DOMAIN input.gaps : input.gaps[i] \in Gaps
    BY InputLists
  <2>2. ASSUME NEW i \in DOMAIN input.gaps PROVE gaps[i] \in GapScores
    <3>1. input.gaps[i].corner \in Nat /\ input.gaps[i].signals \in Nat /\ input.gaps[i].kinds \in Nat
      BY <2>1 DEF Gaps
    <3>2. SignalDensity(input.gaps[i]) \in 0..600
      <4>. DEFINE n == input.gaps[i].signals
                  k == input.gaps[i].kinds
      <4>1. SignalDensity(input.gaps[i]) = 84 * Least(5, n) + 60 * Least(3, k)
        BY DEF SignalDensity
      <4>2. n \in Nat /\ k \in Nat
        BY <3>1
      <4>. HIDE DEF n, k
      <4>. QED
        <5>1. 84 * Least(5, n) + 60 * Least(3, k) \in 0..600
          BY <4>2, Weights
        <5>. QED
          BY <4>1, <5>1
    <3>. QED
      BY <3>1, <3>2 DEF GapScores, Scored
  <2>4. \A i \in DOMAIN input.gaps : gaps[i] \in Scores
    BY <2>2 DEF Scores
  <2>3. gaps \in [DOMAIN input.gaps -> Scores]
    <3>1. gaps = [i \in DOMAIN input.gaps |-> gaps[i]]
      OBVIOUS
    <3>. HIDE DEF gaps
    <3>. QED
      BY <2>4, <3>1
  <2>. HIDE DEF gaps
  <2>. QED
    BY <2>1, <2>3, EachOf
<1>4. clusters \in Seq(Scores)
  <2>1. input.clusters \in Seq(Capabilities) /\ \A i \in DOMAIN input.clusters : input.clusters[i] \in Capabilities
    BY InputLists
  <2>2. ASSUME NEW i \in DOMAIN input.clusters PROVE clusters[i] \in ClusterScores
    <3>. DEFINE c == input.clusters[i]
    <3>1. c.name \in Texts /\ c.confidence \in Confidence /\ c.cohesion \in Confidence
      BY <2>1 DEF Capabilities
    <3>2. StructuralPlusTextual(c) \in Confidence /\ Corroborate(StructuralPlusTextual(c)) \in Confidence
      BY <3>1, Weights DEF StructuralPlusTextual
    <3>3. clusters[i] = IF c.traced
                THEN Scored(<<"cluster", c.name>>, Corroborate(StructuralPlusTextual(c)),
                            "cross_domain_consolidated")
                ELSE Scored(<<"cluster", c.name>>, StructuralPlusTextual(c), "llm_inference")
      OBVIOUS
    <3>. HIDE DEF c, clusters
    <3>. QED
      BY <3>1, <3>2, <3>3 DEF ClusterScores, Scored
  <2>4. \A i \in DOMAIN input.clusters : clusters[i] \in Scores
    BY <2>2 DEF Scores
  <2>3. clusters \in [DOMAIN input.clusters -> Scores]
    <3>1. clusters = [i \in DOMAIN input.clusters |-> clusters[i]]
      OBVIOUS
    <3>. HIDE DEF clusters
    <3>. QED
      BY <2>4, <3>1
  <2>. HIDE DEF clusters
  <2>. QED
    BY <2>1, <2>3, EachOf
<1>5. rs \in Seq(Scores) /\ DOMAIN rs = DOMAIN input.rules
      /\ \A k \in DOMAIN rs : rs[k].id = <<"rule", input.rules[k].id>>
  <2>1. input.rules \in Seq(BusinessRules) /\ \A i \in DOMAIN input.rules : input.rules[i] \in BusinessRules
    BY InputLists
  <2>2. ASSUME NEW i \in DOMAIN input.rules PROVE rs[i] \in RuleScores
    <3>1. input.rules[i].id \in Nat
      BY <2>1 DEF BusinessRules
    <3>. QED
      BY <3>1 DEF RuleScores, Scored
  <2>4. \A i \in DOMAIN input.rules : rs[i] \in Scores
    BY <2>2 DEF Scores
  <2>3. rs \in [DOMAIN input.rules -> Scores]
    <3>1. rs = [i \in DOMAIN input.rules |-> rs[i]]
      OBVIOUS
    <3>. HIDE DEF rs
    <3>. QED
      BY <2>4, <3>1
  <2>5. \A k \in DOMAIN input.rules : rs[k].id = <<"rule", input.rules[k].id>>
    BY DEF Scored
  <2>. HIDE DEF rs
  <2>. QED
    BY <2>1, <2>3, <2>5, EachOf
<1>6. frds \in Seq(Scores)
  <2>1. input.frds \in Seq(Behaviors) /\ \A i \in DOMAIN input.frds : input.frds[i] \in Behaviors
    BY InputLists
  <2>2. ASSUME NEW i \in DOMAIN input.frds PROVE frds[i] \in FrdScores
    <3>1. input.frds[i].function \in Nat
      BY <2>1 DEF Behaviors
    <3>2. FrdConfidence(input.frds[i]) \in Confidence
      BY DEF FrdConfidence, Confidence
    <3>3. AstGrounded(FrdConfidence(input.frds[i])) \in 700..1000
      BY <3>2, Weights
    <3>. QED
      BY <3>1, <3>3 DEF FrdScores, Scored
  <2>4. \A i \in DOMAIN input.frds : frds[i] \in Scores
    BY <2>2 DEF Scores
  <2>3. frds \in [DOMAIN input.frds -> Scores]
    <3>1. frds = [i \in DOMAIN input.frds |-> frds[i]]
      OBVIOUS
    <3>. HIDE DEF frds
    <3>. QED
      BY <2>4, <3>1
  <2>. HIDE DEF frds
  <2>. QED
    BY <2>1, <2>3, EachOf
<1>7. tables \in Seq(Scores)
  <2>1. input.fields \in Seq(Columns) /\ \A i \in DOMAIN input.fields : input.fields[i] \in Columns
    BY InputLists
  <2>2. ASSUME NEW i \in DOMAIN input.fields PROVE tables[i] \in TableScores
    <3>1. input.fields[i].table \in Nat
      BY <2>1 DEF Columns
    <3>. QED
      BY <3>1, Weights DEF TableScores, Scored
  <2>4. \A i \in DOMAIN input.fields : tables[i] \in Scores
    BY <2>2 DEF Scores
  <2>3. tables \in [DOMAIN input.fields -> Scores]
    <3>1. tables = [i \in DOMAIN input.fields |-> tables[i]]
      OBVIOUS
    <3>. HIDE DEF tables
    <3>. QED
      BY <2>4, <3>1
  <2>. HIDE DEF tables
  <2>. QED
    BY <2>1, <2>3, EachOf
<1>. HIDE DEF gaps, clusters, rs, frds, tables
<1>. DEFINE s1 == gaps \o clusters
            s2 == s1 \o rs
            s3 == s2 \o frds
            s4 == s3 \o tables
<1>8. s1 \in Seq(Scores)
  BY <1>3, <1>4, JoinedSet
<1>. HIDE DEF s1
<1>9. s2 \in Seq(Scores) /\ ToSet(s2) = ToSet(s1) \cup ToSet(rs)
  BY <1>5, <1>8, JoinedSet
<1>. HIDE DEF s2
<1>10. s3 \in Seq(Scores) /\ ToSet(s3) = ToSet(s2) \cup ToSet(frds)
  BY <1>6, <1>9, JoinedSet
<1>. HIDE DEF s3
<1>11. s4 \in Seq(Scores) /\ ToSet(s4) = ToSet(s3) \cup ToSet(tables)
  BY <1>7, <1>10, JoinedSet
<1>. HIDE DEF s4
<1>12. ConfidenceRecords = s4
  BY <1>2 DEF s1, s2, s3, s4
<1>13. ASSUME NEW k \in DOMAIN input.rules
       PROVE  \E i \in DOMAIN s4 : s4[i].id = <<"rule", input.rules[k].id>>
  <2>1. rs[k] \in ToSet(rs) /\ rs[k].id = <<"rule", input.rules[k].id>>
    BY <1>5 DEF ToSet
  <2>2. rs[k] \in ToSet(s4)
    BY <1>9, <1>10, <1>11, <2>1
  <2>. QED
    BY <2>1, <2>2 DEF ToSet
<1>. QED
  BY <1>11, <1>12, <1>13

(***************************************************************************)
(* The inductive invariant: what each node has left is a function of the   *)
(* findings                                                                *)
(***************************************************************************)
Consolidated == Detected /\ stage # "consolidate_business_rules"
HasScores == Consolidated /\ stage # "score_confidence"
HasResolved == stage = "accept_resolved" \/ AllAccepted

\* What auto_resolve_dispute_node and accept_resolved_node append.
Resolutions == FlattenSeq([i \in DOMAIN conflicts |-> ResolveDispute(conflicts[i])])
Undisputed == DOMAIN scores \ {r.id : r \in ToSet(Resolutions)}
Acceptances == [i \in DOMAIN SetToSeq(Undisputed) |-> Accepted(scores[SetToSeq(Undisputed)[i]])]

\* What write_knowledge_graph and write_evidence_store write.
ValueDisputes == Having(conflicts, LAMBDA c : c.type = "value_mismatch")
EdgeOf(c) ==
  [id |-> <<c.a.id[2], c.b.id[2]>>, field |-> c.b.id[3],
   status |-> StatusOf(c.a.id, "unresolved_written_both")]
RecordOf(c) ==
  [id |-> Sides(c),
   status |-> IF StatusOf(c.a.id, "unresolved_written_both") = "disputed_resolved"
                THEN "auto_resolved" ELSE "unresolved_written_both"]

\* What _detect_entity_conflicts compares, and what it keeps of that.
PairLists ==
  [i \in DOMAIN SetToSeq(Modules) |-> Pairs(ModuleClaims(SetToSeq(Modules)[i]))]
Exclude(p) == p[1].domain # p[2].domain /\ Classify(p[1], p[2]) # {}
Excluding == Having(FlattenSeq(PairLists), LAMBDA p : Exclude(p))
ConflictOf(p) == Conflict(p[1], p[2], CHOOSE t \in Classify(p[1], p[2]) : TRUE)

RunInv ==
  /\ input \in Inputs
  /\ stage \in {"detect_cross_domain_conflicts", "consolidate_business_rules", "score_confidence",
                "auto_resolve_dispute", "accept_resolved", "write_knowledge_graph",
                "write_evidence_store", "ready_for_query"}
  /\ Detected => conflicts = EntityConflicts \o ValueConflicts
  /\ rules = IF Consolidated THEN ById(input.rules) ELSE <<>>
  /\ scores = IF HasScores THEN ById(ConfidenceRecords) ELSE <<>>
  /\ ~HasResolved => resolved = <<>>
  /\ stage = "accept_resolved" => resolved = Resolutions
  /\ AllAccepted => resolved = Resolutions \o Acceptances
  /\ GraphWritten =>
       /\ ruleNodes = [r \in DOMAIN rules |-> StatusOf(<<"rule", r>>, "confirmed")]
       /\ edges = ById([i \in DOMAIN ValueDisputes |-> EdgeOf(ValueDisputes[i])])
  /\ records = IF stage = "ready_for_query"
                  THEN ById([i \in DOMAIN conflicts |-> RecordOf(conflicts[i])]) ELSE <<>>

\* A node that leaves the findings alone leaves what they contradict and how they score.
LEMMA SameInput ==
  ASSUME input' = input
  PROVE  /\ (EntityConflicts \o ValueConflicts)' = EntityConflicts \o ValueConflicts
         /\ ConfidenceRecords' = ConfidenceRecords
<1>1. EntityConflicts' = EntityConflicts
  <2>1. \A m : ModuleClaims(m)' = ModuleClaims(m)
    BY DEF ModuleClaims, Having
  <2>2. PairLists' = PairLists
    BY <2>1 DEF PairLists
  <2>3. Excluding' = Excluding
    BY <2>2 DEF Excluding, Having
  <2>4. EntityConflicts = [i \in DOMAIN Excluding |-> ConflictOf(Excluding[i])]
    BY DEF EntityConflicts, Excluding, PairLists, Exclude, ConflictOf
  <2>5. EntityConflicts' = [i \in DOMAIN Excluding' |-> ConflictOf(Excluding'[i])]
    BY DEF EntityConflicts, Excluding, PairLists, Exclude, ConflictOf
  <2>. QED
    BY <2>3, <2>4, <2>5
<1>2. ValueConflicts' = ValueConflicts
  BY DEF ValueConflicts, Having
<1>3. ConfidenceRecords' = ConfidenceRecords
  BY DEF ConfidenceRecords
<1>. QED
  BY <1>1, <1>2, <1>3

\* A node that leaves contradictions and scores alone leaves their resolution.
LEMMA SameScores ==
  ASSUME conflicts' = conflicts, scores' = scores
  PROVE  Resolutions' = Resolutions /\ Acceptances' = Acceptances
<1>1. Resolutions' = Resolutions
  BY DEF Resolutions, ResolveDispute, ConfidenceOf
<1>2. Undisputed' = Undisputed
  BY <1>1 DEF Undisputed
<1>. QED
  BY <1>1, <1>2 DEF Acceptances

\* A node that leaves contradictions and resolutions alone leaves what is written of them.
LEMMA SameResolved ==
  ASSUME conflicts' = conflicts, resolved' = resolved, rules' = rules
  PROVE  /\ [r \in DOMAIN rules |-> StatusOf(<<"rule", r>>, "confirmed")]' =
              [r \in DOMAIN rules |-> StatusOf(<<"rule", r>>, "confirmed")]
         /\ [i \in DOMAIN ValueDisputes |-> EdgeOf(ValueDisputes[i])]' =
              [i \in DOMAIN ValueDisputes |-> EdgeOf(ValueDisputes[i])]
         /\ [i \in DOMAIN conflicts |-> RecordOf(conflicts[i])]' =
              [i \in DOMAIN conflicts |-> RecordOf(conflicts[i])]
<1>1. \A d, s : StatusOf(d, s)' = StatusOf(d, s)
  BY DEF StatusOf
<1>2. ValueDisputes' = ValueDisputes
  BY DEF ValueDisputes, Having
<1>3. \A c : EdgeOf(c)' = EdgeOf(c) /\ RecordOf(c)' = RecordOf(c)
  BY <1>1 DEF EdgeOf, RecordOf
<1>. QED
  BY <1>1, <1>2, <1>3

\* Every node keeps that.
LEMMA RunStep == RunInv /\ [Next]_vars => RunInv'
<1>. SUFFICES ASSUME RunInv, [Next]_vars PROVE RunInv'
  OBVIOUS
<1>. USE DEF Detected, Consolidated, HasScores, HasResolved, AllAccepted, GraphWritten
<1>1. CASE UNCHANGED vars
  <2>1. /\ input' = input /\ conflicts' = conflicts /\ scores' = scores /\ resolved' = resolved
        /\ rules' = rules /\ stage' = stage /\ ruleNodes' = ruleNodes /\ edges' = edges
        /\ records' = records
    BY <1>1 DEF vars
  <2>. QED
    BY <2>1, SameInput, SameScores, SameResolved DEF RunInv
<1>2. CASE DetectConflicts
  BY <1>2, SameInput DEF RunInv, DetectConflicts, At
<1>3. CASE Consolidate
  BY <1>3, SameInput DEF RunInv, Consolidate, At
<1>4. CASE ScoreConfidence
  <2>1. /\ input' = input /\ conflicts' = conflicts /\ rules' = rules /\ resolved' = resolved
        /\ records' = records /\ stage = "score_confidence" /\ scores' = ById(ConfidenceRecords)
        /\ stage' = IF conflicts = <<>> THEN "accept_resolved" ELSE "auto_resolve_dispute"
    BY <1>4 DEF ScoreConfidence, At
  <2>2. ASSUME conflicts = <<>> PROVE Resolutions' = <<>>
    <3>1. DOMAIN conflicts' = {}
      BY <2>1, <2>2
    <3>2. Resolutions' = FlattenSeq(<<>>)
      BY <3>1 DEF Resolutions
    <3>. QED
      BY <3>2 DEF FlattenSeq
  <2>. QED
    BY <2>1, <2>2, SameInput DEF RunInv
<1>5. CASE AutoResolve
  <2>1. /\ input' = input /\ conflicts' = conflicts /\ rules' = rules /\ scores' = scores
        /\ records' = records /\ stage = "auto_resolve_dispute"
        /\ stage' = "accept_resolved" /\ resolved' = Resolutions
    BY <1>5 DEF AutoResolve, At, Resolutions
  <2>. QED
    BY <2>1, SameInput, SameScores DEF RunInv
<1>6. CASE Accept
  <2>1. /\ input' = input /\ conflicts' = conflicts /\ rules' = rules /\ scores' = scores
        /\ records' = records /\ stage = "accept_resolved"
        /\ stage' = "write_knowledge_graph" /\ resolved' = AcceptClaims
    BY <1>6 DEF Accept, At
  <2>2. resolved = Resolutions
    BY <2>1 DEF RunInv
  <2>3. AcceptClaims = Resolutions \o Acceptances
    BY <2>2 DEF AcceptClaims, AcceptAll, Undisputed, Acceptances
  <2>. QED
    BY <2>1, <2>3, SameInput, SameScores DEF RunInv
<1>7. CASE WriteGraph
  <2>1. /\ input' = input /\ conflicts' = conflicts /\ rules' = rules /\ scores' = scores
        /\ resolved' = resolved
        /\ records' = records /\ stage = "write_knowledge_graph" /\ stage' = "write_evidence_store"
        /\ ruleNodes' = [r \in DOMAIN rules |-> StatusOf(<<"rule", r>>, "confirmed")]
        /\ edges' = ById([i \in DOMAIN ValueDisputes |-> EdgeOf(ValueDisputes[i])])
    BY <1>7 DEF WriteGraph, At, ValueDisputes, EdgeOf
  <2>. QED
    BY <2>1, SameInput, SameScores, SameResolved DEF RunInv
<1>8. CASE WriteRecords
  <2>1. /\ input' = input /\ conflicts' = conflicts /\ rules' = rules /\ scores' = scores
        /\ resolved' = resolved /\ ruleNodes' = ruleNodes /\ edges' = edges
        /\ stage = "write_evidence_store" /\ stage' = "ready_for_query"
        /\ records' = ById([i \in DOMAIN conflicts |-> RecordOf(conflicts[i])])
    BY <1>8 DEF WriteRecords, At, RecordOf, Sides
  <2>. QED
    BY <2>1, SameInput, SameScores, SameResolved DEF RunInv
<1>. QED
  BY <1>1, <1>2, <1>3, <1>4, <1>5, <1>6, <1>7, <1>8 DEF Next

\* So it holds throughout a launch.
LEMMA RunInvariant == Spec => []RunInv
<1>1. Init => RunInv
  BY DEF Init, RunInv, Detected, Consolidated, HasScores, HasResolved, AllAccepted, GraphWritten
<1>. QED
  BY <1>1, RunStep, PTL DEF Spec

(***************************************************************************)
(* Contradictions between values                                           *)
(***************************************************************************)
RuleClaim(r) == Claim(<<"rule", r.id>>, "domain_b", RuleConfidence, "value", {})
FieldClaim(f) == Claim(<<"field", f.table, f.name>>, "domain_d", FieldConfidence, "value", {})
ValueConflict(r, f) == Conflict(RuleClaim(r), FieldClaim(f), "value_mismatch")

\* The rules and columns of one concept with two values.
Clashing == {x \in ToSet(input.rules) \X ToSet(input.fields) : Clashes(x[1], x[2])}
ClashingWith(r) == Having(input.fields, LAMBDA f : Clashes(r, f))
ValueSet == {ValueConflict(x[1], x[2]) : x \in Clashing}

\* find_conflicts compares every rule with every column.
LEMMA ValueConflictsAre ==
  ASSUME input \in Inputs
  PROVE  ValueConflicts \in Seq(ValueSet) /\ ToSet(ValueConflicts) = ValueSet
<1>. DEFINE row(r) == [k \in DOMAIN ClashingWith(r) |-> ValueConflict(r, ClashingWith(r)[k])]
            seqs == [i \in DOMAIN input.rules |-> row(input.rules[i])]
<1>1. ValueConflicts = FlattenSeq(seqs)
  BY DEF ValueConflicts, ValueConflict, RuleClaim, FieldClaim, ClashingWith
<1>2. ASSUME NEW r \in ToSet(input.rules)
      PROVE /\ row(r) \in Seq(ValueSet)
            /\ ToSet(row(r)) = {ValueConflict(r, f) : f \in {g \in ToSet(input.fields) : Clashes(r, g)}}
  <2>. DEFINE at == {i \in DOMAIN input.fields : Clashes(r, input.fields[i])}
              mine == ClashingWith(r)
  <2>1. mine = Entries(input.fields, at)
    BY DEF ClashingWith, Having
  <2>2. input.fields \in Seq(Columns) /\ at \subseteq DOMAIN input.fields
    BY InputLists
  <2>. HIDE DEF mine
  <2>3. mine \in Seq(Columns) /\ ToSet(mine) = {input.fields[i] : i \in at}
    <3>. HIDE DEF at
    <3>. QED
      BY <2>1, <2>2, EntriesSet
  <2>4. ToSet(mine) = {g \in ToSet(input.fields) : Clashes(r, g)}
    BY <2>3 DEF ToSet
  <2>5. \A k \in DOMAIN mine : ValueConflict(r, mine[k]) \in ValueSet
    <3>1. ASSUME NEW f \in ToSet(mine) PROVE ValueConflict(r, f) \in ValueSet
      <4>1. <<r, f>> \in Clashing
        BY <2>4 DEF Clashing
      <4>. QED
        BY <4>1 DEF ValueSet
    <3>. QED
      BY <3>1 DEF ToSet
  <2>6. row(r) \in [DOMAIN mine -> ValueSet]
    BY <2>5 DEF mine
  <2>7. ToSet(row(r)) = {ValueConflict(r, f) : f \in ToSet(mine)}
    BY DEF ToSet, mine
  <2>. HIDE DEF row
  <2>8. row(r) \in Seq(ValueSet)
    BY <2>3, <2>6, EachOf
  <2>. QED
    BY <2>4, <2>7, <2>8
<1>3. \A i \in DOMAIN input.rules : input.rules[i] \in ToSet(input.rules)
  BY DEF ToSet
<1>4. seqs \in [DOMAIN input.rules -> Seq(ValueSet)]
  <2>. HIDE DEF row
  <2>. QED
    BY <1>2, <1>3
<1>5. seqs \in Seq(Seq(ValueSet)) /\ DOMAIN seqs = DOMAIN input.rules
  <2>1. input.rules \in Seq(BusinessRules)
    BY InputLists
  <2>. HIDE DEF seqs
  <2>. QED
    BY <1>4, <2>1, EachOf
<1>6. \A i \in DOMAIN seqs : seqs[i] = row(input.rules[i])
  OBVIOUS
<1>. HIDE DEF seqs, row
<1>7. /\ FlattenSeq(seqs) \in Seq(ValueSet)
      /\ ToSet(FlattenSeq(seqs)) = UNION {ToSet(seqs[i]) : i \in DOMAIN seqs}
  BY <1>5, FlattenedSet
<1>8. ASSUME NEW c \in ValueSet PROVE c \in ToSet(FlattenSeq(seqs))
  <2>1. PICK x \in Clashing : c = ValueConflict(x[1], x[2])
    BY DEF ValueSet
  <2>2. x[1] \in ToSet(input.rules) /\ x[2] \in ToSet(input.fields) /\ Clashes(x[1], x[2])
    BY DEF Clashing
  <2>3. c \in ToSet(row(x[1]))
    BY <1>2, <2>1, <2>2
  <2>4. PICK i \in DOMAIN input.rules : input.rules[i] = x[1]
    BY <2>2 DEF ToSet
  <2>5. i \in DOMAIN seqs /\ c \in ToSet(seqs[i])
    BY <1>5, <1>6, <2>3, <2>4
  <2>. QED
    BY <1>7, <2>5
<1>9. ASSUME NEW c \in ToSet(FlattenSeq(seqs)) PROVE c \in ValueSet
  BY <1>7 DEF ToSet
<1>. QED
  BY <1>1, <1>7, <1>8, <1>9

(***************************************************************************)
(* Claims about one module                                                 *)
(***************************************************************************)
MemberClaim(c, m) ==
  Claim(<<"membership", c.name, m>>, "domain_b", c.confidence, "active", {})
PurposeClaim(c, m) ==
  Claim(<<"purpose", c.name, m>>, "domain_b", c.confidence, "purpose", c.name)
ReachClaim(m) ==
  Claim(<<"reachability", m>>, "domain_d", 850,
        IF input.symbols[m] = "called" THEN "reachable" ELSE "unreachable", {})
FrdClaim(f) ==
  Claim(<<"frd", f.function>>, "domain_c", FrdConfidence(f), "purpose", f.text)

\* What Domain B, D and C claim of a module, in lists.
MineOf(m) == Having(input.clusters, LAMBDA c : m \in c.members)
FrdsOf(m) == Having(input.frds, LAMBDA f : f.module = m)
FromB(m) ==
  FlattenSeq([i \in DOMAIN MineOf(m) |->
                <<MemberClaim(MineOf(m)[i], m), PurposeClaim(MineOf(m)[i], m)>>])
FromD(m) == IF input.symbols[m] = "none" THEN <<>> ELSE <<ReachClaim(m)>>
FromC(m) == [i \in DOMAIN FrdsOf(m) |-> FrdClaim(FrdsOf(m)[i])]

\* And in sets.
Mine(m) == {c \in ToSet(input.clusters) : m \in c.members}
Members(m) == {MemberClaim(c, m) : c \in Mine(m)}
Purposes(m) == {PurposeClaim(c, m) : c \in Mine(m)}
Reaches(m) == {r \in {ReachClaim(m)} : input.symbols[m] # "none"}
Described(m) == {FrdClaim(f) : f \in {g \in ToSet(input.frds) : g.module = m}}
ClaimsOf(m) == Members(m) \cup Purposes(m) \cup Reaches(m) \cup Described(m)

\* The first list has two claims for each capability of the module.
LEMMA FromBIs ==
  ASSUME input \in Inputs, NEW m \in Modules
  PROVE  /\ MineOf(m) \in Seq(Mine(m)) /\ ToSet(MineOf(m)) = Mine(m)
         /\ FromB(m) \in Seq(Members(m) \cup Purposes(m))
         /\ Len(FromB(m)) = 2 * Len(MineOf(m))
         /\ \A i \in DOMAIN MineOf(m) :
              /\ FromB(m)[2 * i - 1] = MemberClaim(MineOf(m)[i], m)
              /\ FromB(m)[2 * i] = PurposeClaim(MineOf(m)[i], m)
<1>. DEFINE at == {i \in DOMAIN input.clusters : m \in input.clusters[i].members}
            mine == MineOf(m)
            seqs == [i \in DOMAIN mine |-> <<MemberClaim(mine[i], m), PurposeClaim(mine[i], m)>>]
            T == Members(m) \cup Purposes(m)
<1>1. mine = Entries(input.clusters, at)
  BY DEF MineOf, Having
<1>2. input.clusters \in Seq(Capabilities) /\ at \subseteq DOMAIN input.clusters
  BY InputLists
<1>3. FromB(m) = FlattenSeq(seqs)
  BY DEF FromB
<1>. HIDE DEF mine
<1>4. mine \in Seq(Capabilities) /\ ToSet(mine) = {input.clusters[i] : i \in at}
  <2>. HIDE DEF at
  <2>. QED
    BY <1>1, <1>2, EntriesSet
<1>5. ToSet(mine) = Mine(m)
  BY <1>4 DEF ToSet, Mine
<1>6. mine \in Seq(Mine(m))
  <2>1. \A i \in DOMAIN mine : mine[i] \in Mine(m)
    BY <1>5 DEF ToSet
  <2>2. Len(mine) \in Nat /\ DOMAIN mine = 1..Len(mine) /\ mine = [i \in 1..Len(mine) |-> mine[i]]
    BY <1>4
  <2>. QED
    BY <2>1, <2>2, Arranged
<1>7. ASSUME NEW c \in Mine(m)
      PROVE  /\ <<MemberClaim(c, m), PurposeClaim(c, m)>> \in Seq(T)
             /\ Len(<<MemberClaim(c, m), PurposeClaim(c, m)>>) = 2
  <2>1. MemberClaim(c, m) \in T /\ PurposeClaim(c, m) \in T
    BY DEF Members, Purposes
  <2>. HIDE DEF T
  <2>. QED
    BY <2>1
<1>8. \A i \in DOMAIN mine : seqs[i] \in Seq(T) /\ Len(seqs[i]) = 2
  <2>. HIDE DEF T
  <2>. QED
    BY <1>6, <1>7, EntryOf
<1>9. seqs \in [DOMAIN mine -> Seq(T)]
  <2>. HIDE DEF T
  <2>. QED
    BY <1>8
<1>10. \A i \in DOMAIN mine : seqs[i][1] = MemberClaim(mine[i], m) /\ seqs[i][2] = PurposeClaim(mine[i], m)
  OBVIOUS
<1>. HIDE DEF seqs, T
<1>11. seqs \in Seq(Seq(T)) /\ DOMAIN seqs = DOMAIN mine /\ Len(seqs) = Len(mine)
  BY <1>6, <1>9, EachOf
<1>12. /\ FlattenSeq(seqs) \in Seq(T) /\ Len(FlattenSeq(seqs)) = 2 * Len(seqs)
       /\ \A i \in DOMAIN seqs : /\ FlattenSeq(seqs)[2 * i - 1] = seqs[i][1]
                                 /\ FlattenSeq(seqs)[2 * i] = seqs[i][2]
  BY <1>8, <1>11, FlattenedTwos
<1>. QED
  BY <1>3, <1>5, <1>6, <1>10, <1>11, <1>12 DEF mine, T

\* Each claim of the last list is that of another description.
Sourced(m, p) ==
  /\ \A i \in DOMAIN FromC(m) :
       p[i] \in DOMAIN input.frds /\ FromC(m)[i] = FrdClaim(input.frds[p[i]])
  /\ \A i, k \in DOMAIN FromC(m) : i # k => p[i] # p[k]

\* The last list has one claim for each described function of the module.
LEMMA FromCIs ==
  ASSUME input \in Inputs, NEW m \in Modules
  PROVE  /\ FromC(m) \in Seq(Described(m)) /\ ToSet(FromC(m)) = Described(m)
         /\ \E p : Sourced(m, p)
<1>. DEFINE at == {i \in DOMAIN input.frds : input.frds[i].module = m}
            mine == FrdsOf(m)
<1>1. mine = Entries(input.frds, at)
  BY DEF FrdsOf, Having
<1>2. input.frds \in Seq(Behaviors) /\ at \subseteq DOMAIN input.frds /\ DOMAIN input.frds \subseteq Nat
  BY InputLists
<1>3. FromC(m) = [i \in DOMAIN mine |-> FrdClaim(mine[i])]
  BY DEF FromC
<1>. HIDE DEF mine
<1>4. mine \in Seq(Behaviors) /\ ToSet(mine) = {input.frds[i] : i \in at}
  <2>. HIDE DEF at
  <2>. QED
    BY <1>1, <1>2, EntriesSet
<1>5. ToSet(mine) = {g \in ToSet(input.frds) : g.module = m}
  BY <1>4 DEF ToSet
<1>6. \A i \in DOMAIN mine : FrdClaim(mine[i]) \in Described(m)
  BY <1>5 DEF ToSet, Described
<1>7. FromC(m) \in [DOMAIN mine -> Described(m)] /\ DOMAIN FromC(m) = DOMAIN mine
      /\ \A i \in DOMAIN mine : FromC(m)[i] = FrdClaim(mine[i])
  BY <1>3, <1>6
<1>8. FromC(m) \in Seq(Described(m))
  BY <1>4, <1>7, EachOf
<1>9. ToSet(FromC(m)) = {FrdClaim(f) : f \in ToSet(mine)}
  BY <1>7 DEF ToSet
<1>10. PICK p : InOrder(input.frds, at, mine, p)
  <2>. HIDE DEF at
  <2>. QED
    BY <1>1, <1>2, EntriesInOrder
<1>11. \A i \in DOMAIN mine : p[i] \in at /\ mine[i] = input.frds[p[i]]
  BY <1>10 DEF InOrder
<1>12. \A i, k \in DOMAIN mine : i # k => p[i] # p[k]
  <2>1. \A i, k \in DOMAIN mine : i < k => p[i] < p[k]
    BY <1>10 DEF InOrder
  <2>2. \A i \in DOMAIN mine : i \in Nat /\ p[i] \in Nat
    BY <1>2, <1>4, <1>11
  <2>. QED
    BY <2>1, <2>2
<1>13. Sourced(m, p)
  BY <1>2, <1>7, <1>11, <1>12 DEF Sourced
<1>. QED
  BY <1>5, <1>8, <1>9, <1>13 DEF Described

\* The list of claims about a module is these three.
LEMMA ModuleClaimsAre ==
  ASSUME input \in Inputs, NEW m \in Modules
  PROVE  /\ ModuleClaims(m) = FromB(m) \o FromD(m) \o FromC(m)
         /\ FromB(m) \in Seq(ClaimsOf(m)) /\ ToSet(FromB(m)) = Members(m) \cup Purposes(m)
         /\ FromD(m) \in Seq(ClaimsOf(m)) /\ ToSet(FromD(m)) = Reaches(m) /\ Len(FromD(m)) \in 0..1
         /\ FromC(m) \in Seq(ClaimsOf(m)) /\ ToSet(FromC(m)) = Described(m)
<1>1. ModuleClaims(m) = FromB(m) \o FromD(m) \o FromC(m)
  BY DEF ModuleClaims, FromB, FromD, FromC, MineOf, FrdsOf, MemberClaim, PurposeClaim, ReachClaim, FrdClaim
<1>2. FromB(m) \in Seq(ClaimsOf(m)) /\ ToSet(FromB(m)) = Members(m) \cup Purposes(m)
  <2>. DEFINE n == Len(MineOf(m))
              b == FromB(m)
  <2>1. /\ MineOf(m) \in Seq(Mine(m)) /\ ToSet(MineOf(m)) = Mine(m)
        /\ b \in Seq(Members(m) \cup Purposes(m)) /\ Len(b) = 2 * n
        /\ \A i \in DOMAIN MineOf(m) :
             /\ b[2 * i - 1] = MemberClaim(MineOf(m)[i], m)
             /\ b[2 * i] = PurposeClaim(MineOf(m)[i], m)
    BY FromBIs
  <2>2. n \in Nat /\ DOMAIN MineOf(m) = 1..n /\ DOMAIN b = 1..(2 * n)
    BY <2>1
  <2>3. \A i \in 1..n : 2 * i - 1 \in 1..(2 * n) /\ 2 * i \in 1..(2 * n)
    BY <2>2
  <2>4. ASSUME NEW c \in Mine(m) PROVE MemberClaim(c, m) \in ToSet(b) /\ PurposeClaim(c, m) \in ToSet(b)
    <3>1. PICK i \in 1..n : MineOf(m)[i] = c
      BY <2>1, <2>2 DEF ToSet
    <3>. QED
      BY <2>1, <2>2, <2>3, <3>1 DEF ToSet
  <2>5. ToSet(b) \subseteq Members(m) \cup Purposes(m)
    BY <2>1 DEF ToSet
  <2>6. Members(m) \cup Purposes(m) \subseteq ToSet(b)
    BY <2>4 DEF Members, Purposes
  <2>7. b \in Seq(ClaimsOf(m))
    <3>1. \A i \in 1..(2 * n) : b[i] \in ClaimsOf(m)
      BY <2>1, <2>2 DEF ClaimsOf
    <3>2. b = [i \in 1..(2 * n) |-> b[i]] /\ 2 * n \in Nat
      BY <2>1, <2>2
    <3>. QED
      BY <3>1, <3>2, Arranged
  <2>. QED
    BY <2>5, <2>6, <2>7
<1>3. FromD(m) \in Seq(ClaimsOf(m)) /\ ToSet(FromD(m)) = Reaches(m) /\ Len(FromD(m)) \in 0..1
  <2>1. CASE input.symbols[m] = "none"
    <3>1. FromD(m) = <<>> /\ Reaches(m) = {}
      BY <2>1 DEF FromD, Reaches
    <3>. QED
      BY <3>1 DEF ToSet
  <2>2. CASE input.symbols[m] # "none"
    <3>1. FromD(m) = <<ReachClaim(m)>> /\ Reaches(m) = {ReachClaim(m)}
      BY <2>2 DEF FromD, Reaches
    <3>2. ReachClaim(m) \in ClaimsOf(m)
      BY <3>1 DEF ClaimsOf
    <3>. QED
      BY <3>1, <3>2 DEF ToSet
  <2>. QED
    BY <2>1, <2>2
<1>4. FromC(m) \in Seq(ClaimsOf(m)) /\ ToSet(FromC(m)) = Described(m)
  <2>1. FromC(m) \in Seq(Described(m)) /\ ToSet(FromC(m)) = Described(m)
    BY FromCIs
  <2>2. Described(m) \subseteq ClaimsOf(m)
    BY DEF ClaimsOf
  <2>. QED
    BY <2>1, <2>2
<1>. QED
  BY <1>1, <1>2, <1>3, <1>4

(***************************************************************************)
(* Contradictions about modules                                            *)
(***************************************************************************)
\* Which domain claims what.
LEMMA Domains ==
  ASSUME NEW m \in Modules
  PROVE  /\ \A a \in Members(m) \cup Purposes(m) : a.domain = "domain_b"
         /\ \A a \in Reaches(m) : a.domain = "domain_d"
         /\ \A a \in Described(m) : a.domain = "domain_c"
BY DEF Members, Purposes, Reaches, Described, MemberClaim, PurposeClaim, ReachClaim, FrdClaim, Claim

\* Domain B's claims come first, then Domain D's, then Domain C's.
LEMMA ClaimsInOrder ==
  ASSUME input \in Inputs, NEW m \in Modules
  PROVE  /\ ModuleClaims(m) \in Seq(ClaimsOf(m))
         /\ \A i, k \in DOMAIN ModuleClaims(m) :
              i < k /\ ModuleClaims(m)[i].domain # ModuleClaims(m)[k].domain =>
                \/ /\ ModuleClaims(m)[i] \in Members(m) \cup Purposes(m)
                   /\ ModuleClaims(m)[k] \in Reaches(m) \cup Described(m)
                \/ ModuleClaims(m)[i] \in Reaches(m) /\ ModuleClaims(m)[k] \in Described(m)
         /\ \A a \in Members(m) \cup Purposes(m), b \in Reaches(m) \cup Described(m) :
              \E i, k \in DOMAIN ModuleClaims(m) :
                i < k /\ ModuleClaims(m)[i] = a /\ ModuleClaims(m)[k] = b
<1>. DEFINE x == FromB(m)
            y == FromD(m)
            z == FromC(m)
            s == ModuleClaims(m)
            T == ClaimsOf(m)
<1>1. /\ s = x \o y \o z
      /\ x \in Seq(T) /\ ToSet(x) = Members(m) \cup Purposes(m)
      /\ y \in Seq(T) /\ ToSet(y) = Reaches(m)
      /\ z \in Seq(T) /\ ToSet(z) = Described(m)
  BY ModuleClaimsAre
<1>. HIDE DEF x, y, z, s, T
<1>2. /\ s \in Seq(T) /\ DOMAIN s = 1..(Len(x) + Len(y) + Len(z))
      /\ \A i \in 1..Len(x) : s[i] = x[i]
      /\ \A i \in 1..Len(y) : s[Len(x) + i] = y[i]
      /\ \A i \in 1..Len(z) : s[Len(x) + Len(y) + i] = z[i]
  BY <1>1, ThreeJoined
<1>3. /\ Len(x) \in Nat /\ Len(y) \in Nat /\ Len(z) \in Nat
      /\ DOMAIN x = 1..Len(x) /\ DOMAIN y = 1..Len(y) /\ DOMAIN z = 1..Len(z)
  BY <1>1
<1>4. \A i \in DOMAIN s : i \in Nat
  BY <1>2, <1>3
<1>5. ASSUME NEW i \in DOMAIN s, i <= Len(x) PROVE s[i] \in Members(m) \cup Purposes(m)
  <2>1. i \in 1..Len(x)
    BY <1>2, <1>3, <1>5
  <2>. QED
    BY <1>1, <1>2, <1>3, <2>1 DEF ToSet
<1>6. ASSUME NEW i \in DOMAIN s, ~(i <= Len(x)), i <= Len(x) + Len(y) PROVE s[i] \in Reaches(m)
  <2>1. i - Len(x) \in 1..Len(y) /\ Len(x) + (i - Len(x)) = i
    BY <1>2, <1>3, <1>6
  <2>2. s[i] = y[i - Len(x)]
    BY <1>2, <2>1
  <2>. QED
    BY <1>1, <1>3, <2>1, <2>2 DEF ToSet
<1>7. ASSUME NEW i \in DOMAIN s, ~(i <= Len(x) + Len(y)) PROVE s[i] \in Described(m)
  <2>1. i - (Len(x) + Len(y)) \in 1..Len(z) /\ Len(x) + Len(y) + (i - (Len(x) + Len(y))) = i
    BY <1>2, <1>3, <1>7
  <2>2. s[i] = z[i - (Len(x) + Len(y))]
    BY <1>2, <2>1
  <2>. QED
    BY <1>1, <1>3, <2>1, <2>2 DEF ToSet
<1>8. ASSUME NEW i \in DOMAIN s, NEW k \in DOMAIN s, i < k, s[i].domain # s[k].domain
      PROVE  \/ s[i] \in Members(m) \cup Purposes(m) /\ s[k] \in Reaches(m) \cup Described(m)
             \/ s[i] \in Reaches(m) /\ s[k] \in Described(m)
  <2>1. CASE i <= Len(x)
    <3>1. s[i].domain = "domain_b"
      BY <1>5, <2>1, Domains
    <3>2. ~(k <= Len(x))
      BY <1>5, <1>8, <3>1, Domains
    <3>3. s[k] \in Reaches(m) \cup Described(m)
      BY <1>6, <1>7, <3>2
    <3>. QED
      BY <1>5, <2>1, <3>3
  <2>2. CASE ~(i <= Len(x)) /\ i <= Len(x) + Len(y)
    <3>1. s[i] \in Reaches(m) /\ s[i].domain = "domain_d"
      BY <1>6, <2>2, Domains
    <3>2. ~(k <= Len(x))
      BY <1>3, <1>4, <1>8, <2>2
    <3>3. ~(k <= Len(x) + Len(y))
      BY <1>6, <1>8, <3>1, <3>2, Domains
    <3>. QED
      BY <1>7, <3>1, <3>3
  <2>3. CASE ~(i <= Len(x) + Len(y))
    <3>1. ~(k <= Len(x) + Len(y))
      BY <1>3, <1>4, <1>8, <2>3
    <3>2. s[i].domain = "domain_c" /\ s[k].domain = "domain_c"
      BY <1>7, <2>3, <3>1, Domains
    <3>. QED
      BY <1>8, <3>2
  <2>. QED
    BY <2>1, <2>2, <2>3
<1>9. ASSUME NEW a \in Members(m) \cup Purposes(m), NEW b \in Reaches(m) \cup Described(m)
      PROVE  \E i, k \in DOMAIN s : i < k /\ s[i] = a /\ s[k] = b
  <2>1. PICK i \in 1..Len(x) : x[i] = a
    BY <1>1, <1>3 DEF ToSet
  <2>2. i \in DOMAIN s /\ s[i] = a /\ i <= Len(x) /\ i \in Nat
    BY <1>2, <1>3, <2>1
  <2>3. CASE b \in Reaches(m)
    <3>1. PICK k \in 1..Len(y) : y[k] = b
      BY <1>1, <1>3, <2>3 DEF ToSet
    <3>2. Len(x) + k \in DOMAIN s /\ s[Len(x) + k] = b /\ i < Len(x) + k
      BY <1>2, <1>3, <2>2, <3>1
    <3>. QED
      BY <2>2, <3>2
  <2>4. CASE b \in Described(m)
    <3>1. PICK k \in 1..Len(z) : z[k] = b
      BY <1>1, <1>3, <2>4 DEF ToSet
    <3>2. Len(x) + Len(y) + k \in DOMAIN s /\ s[Len(x) + Len(y) + k] = b /\ i < Len(x) + Len(y) + k
      BY <1>2, <1>3, <2>2, <3>1
    <3>. QED
      BY <2>2, <3>2
  <2>. QED
    BY <2>3, <2>4
<1>. QED
  BY <1>2, <1>8, <1>9 DEF s, T

\* Entry x of t is the pair of the entries u[x] and v[x] of s, a pair of its own.
PairedAt(s, t, u, v) ==
  /\ \A x \in DOMAIN t : /\ u[x] \in DOMAIN s /\ v[x] \in DOMAIN s /\ u[x] < v[x]
                         /\ t[x] = <<s[u[x]], s[v[x]]>>
  /\ \A x, y \in DOMAIN t : u[x] = u[y] /\ v[x] = v[y] => x = y

\* itertools.combinations(s, 2): every two entries in their order, once.
LEMMA PairsAre ==
  ASSUME NEW T, NEW s \in Seq(T)
  PROVE  /\ Pairs(s) \in Seq(T \X T)
         /\ \E u, v : PairedAt(s, Pairs(s), u, v)
         /\ \A i, k \in DOMAIN s : i < k => <<s[i], s[k]>> \in ToSet(Pairs(s))
<1>. DEFINE n == Len(s)
            row(i) == [k \in 1..(n - i) |-> <<s[i], s[i + k]>>]
            seqs == [i \in 1..n |-> row(i)]
<1>1. n \in Nat /\ DOMAIN s = 1..n /\ \A i \in 1..n : s[i] \in T
  OBVIOUS
<1>2. Pairs(s) = FlattenSeq(seqs)
  BY DEF Pairs
<1>3. ASSUME NEW i \in 1..n
      PROVE /\ row(i) \in Seq(T \X T) /\ DOMAIN row(i) = 1..(n - i)
            /\ \A k \in 1..(n - i) : i + k \in 1..n /\ row(i)[k] = <<s[i], s[i + k]>>
  <2>. HIDE DEF n
  <2>1. n - i \in Nat /\ \A k \in 1..(n - i) : i + k \in 1..n
    BY <1>1
  <2>2. \A k \in 1..(n - i) : row(i)[k] = <<s[i], s[i + k]>> /\ row(i)[k] \in T \X T
    BY <1>1, <2>1
  <2>3. DOMAIN row(i) = 1..(n - i) /\ row(i) = [k \in 1..(n - i) |-> row(i)[k]]
    OBVIOUS
  <2>. HIDE DEF row
  <2>4. row(i) \in Seq(T \X T)
    BY <2>1, <2>2, <2>3, Arranged
  <2>. QED
    BY <2>1, <2>2, <2>3, <2>4
<1>4. seqs = [i \in 1..n |-> seqs[i]] /\ \A i \in 1..n : seqs[i] = row(i)
  OBVIOUS
<1>. HIDE DEF seqs, row, n
<1>5. seqs \in Seq(Seq(T \X T)) /\ Len(seqs) = n /\ DOMAIN seqs = 1..n
  <2>1. \A i \in 1..n : seqs[i] \in Seq(T \X T)
    BY <1>3, <1>4
  <2>. QED
    BY <1>1, <1>4, <2>1, Arranged
<1>6. /\ FlattenSeq(seqs) \in Seq(T \X T)
      /\ ToSet(FlattenSeq(seqs)) = UNION {ToSet(seqs[i]) : i \in DOMAIN seqs}
  BY <1>5, FlattenedSet
<1>7. PICK q, w : Placed(seqs, FlattenSeq(seqs), q, w, n)
  BY <1>5, FlattenedAt
<1>. DEFINE t == Pairs(s)
            v == [x \in DOMAIN t |-> q[x] + w[x]]
<1>8. \A x \in DOMAIN t : q[x] \in 1..n /\ w[x] \in 1..(n - q[x]) /\ t[x] = <<s[q[x]], s[q[x] + w[x]]>>
  <2>1. \A x \in DOMAIN t : q[x] \in 1..n /\ w[x] \in DOMAIN seqs[q[x]] /\ t[x] = seqs[q[x]][w[x]]
    BY <1>2, <1>7 DEF Placed
  <2>. QED
    BY <1>3, <1>4, <2>1
<1>9. \A x, y \in DOMAIN t : q[x] = q[y] /\ w[x] = w[y] => x = y
  BY <1>2, <1>7 DEF Placed
<1>10. \A x \in DOMAIN t : v[x] = q[x] + w[x]
  OBVIOUS
<1>. HIDE DEF t, v
<1>11. ASSUME NEW x \in DOMAIN t
       PROVE q[x] \in DOMAIN s /\ v[x] \in DOMAIN s /\ q[x] < v[x] /\ t[x] = <<s[q[x]], s[v[x]]>>
  <2>1. q[x] \in 1..n /\ w[x] \in 1..(n - q[x]) /\ t[x] = <<s[q[x]], s[v[x]]>> /\ v[x] = q[x] + w[x]
    BY <1>8, <1>10
  <2>. QED
    BY <1>1, <2>1
<1>12. ASSUME NEW x \in DOMAIN t, NEW y \in DOMAIN t, q[x] = q[y], v[x] = v[y] PROVE x = y
  <2>1. /\ q[x] \in 1..n /\ w[x] \in 1..(n - q[x]) /\ v[x] = q[x] + w[x]
        /\ w[y] \in 1..(n - q[y]) /\ v[y] = q[y] + w[y]
    BY <1>8, <1>10
  <2>2. q[x] \in Int /\ w[x] \in Int /\ w[y] \in Int
    BY <1>1, <2>1
  <2>3. q[x] + w[x] = q[x] + w[y]
    BY <1>12, <2>1
  <2>4. w[x] = w[y]
    BY <2>2, <2>3
  <2>. QED
    BY <1>9, <1>12, <2>4
<1>13. PairedAt(s, t, q, v)
  BY <1>11, <1>12 DEF PairedAt
<1>14. ASSUME NEW i \in DOMAIN s, NEW k \in DOMAIN s, i < k PROVE <<s[i], s[k]>> \in ToSet(Pairs(s))
  <2>1. i \in 1..n /\ k - i \in 1..(n - i) /\ i + (k - i) = k
    BY <1>1, <1>14
  <2>2. k - i \in DOMAIN seqs[i] /\ seqs[i][k - i] = <<s[i], s[k]>>
    BY <1>3, <1>4, <2>1
  <2>3. <<s[i], s[k]>> \in ToSet(seqs[i])
    BY <2>2 DEF ToSet
  <2>. QED
    BY <1>2, <1>5, <1>6, <2>1, <2>3
<1>. QED
  BY <1>2, <1>6, <1>13, <1>14 DEF t

\* Which kinds of claims exclude each other.
LEMMA ClassifyIs ==
  ASSUME NEW a, NEW b
  PROVE  /\ a.kind = "active" /\ b.kind = "unreachable" => Classify(a, b) = {"dead_vs_active"}
         /\ a.kind = "active" /\ b.kind \in {"reachable", "purpose"} => Classify(a, b) = {}
         /\ a.kind = "purpose" /\ b.kind \in {"reachable", "unreachable"} => Classify(a, b) = {}
         /\ a.kind \in {"reachable", "unreachable"} /\ b.kind = "purpose" => Classify(a, b) = {}
         /\ a.kind = "purpose" /\ b.kind = "purpose" =>
              Classify(a, b) = IF {} \notin {a.text, b.text} /\ a.text \cap b.text = {}
                                 THEN {"purpose_mismatch"} ELSE {}
<1>1. ASSUME a.kind = "active", b.kind = "unreachable" PROVE {a.kind, b.kind} = {"active", "unreachable"}
  BY <1>1
<1>2. ASSUME b.kind # "unreachable", a.kind # "unreachable" PROVE {a.kind, b.kind} # {"active", "unreachable"}
  BY <1>2
<1>3. ASSUME b.kind # "active", a.kind # "active" PROVE {a.kind, b.kind} # {"active", "unreachable"}
  BY <1>3
<1>. QED
  BY <1>1, <1>2, <1>3 DEF Classify

\* The contradictions about modules, as _detect_entity_conflicts writes them.
ActiveUncalled ==
  {q \in ToSet(input.clusters) \X Modules :
     q[2] \in q[1].members /\ input.symbols[q[2]] = "uncalled"}
Differing ==
  {q \in ToSet(input.clusters) \X ToSet(input.frds) :
     /\ q[2].module \in q[1].members
     /\ {} \notin {q[1].name, q[2].text} /\ q[1].name \cap q[2].text = {}}
DeadConflict(c, m) == Conflict(MemberClaim(c, m), ReachClaim(m), "dead_vs_active")
PurposeConflict(c, f) ==
  Conflict(PurposeClaim(c, f.module), FrdClaim(f), "purpose_mismatch")
DeadSet == {DeadConflict(q[1], q[2]) : q \in ActiveUncalled}
PurposeSet == {PurposeConflict(q[1], q[2]) : q \in Differing}

\* Two claims about a module that exclude each other are one of these.
LEMMA Classified ==
  ASSUME input \in Inputs, NEW m \in Modules
  PROVE  /\ \A a \in Members(m) \cup Purposes(m), b \in Reaches(m) \cup Described(m) :
              Classify(a, b) # {} => ConflictOf(<<a, b>>) \in DeadSet \cup PurposeSet
         /\ \A a \in Reaches(m), b \in Described(m) : Classify(a, b) = {}
<1>1. input.symbols[m] \in {"called", "uncalled", "none"}
  BY InputLists
<1>2. ASSUME NEW a \in Members(m) PROVE a.kind = "active"
  BY DEF Members, MemberClaim, Claim
<1>3. ASSUME NEW a \in Purposes(m) PROVE a.kind = "purpose"
  BY DEF Purposes, PurposeClaim, Claim
<1>4. ASSUME NEW b \in Reaches(m)
      PROVE /\ b = ReachClaim(m) /\ input.symbols[m] # "none"
            /\ b.kind = IF input.symbols[m] = "called" THEN "reachable" ELSE "unreachable"
  BY DEF Reaches, ReachClaim, Claim
<1>5. ASSUME NEW b \in Described(m) PROVE b.kind = "purpose"
  BY DEF Described, FrdClaim, Claim
<1>6. ASSUME NEW a \in Members(m), NEW b \in Reaches(m), Classify(a, b) # {}
      PROVE  ConflictOf(<<a, b>>) \in DeadSet
  <2>1. input.symbols[m] = "uncalled" /\ b.kind = "unreachable"
    BY <1>1, <1>2, <1>4, <1>6, ClassifyIs
  <2>2. Classify(a, b) = {"dead_vs_active"}
    BY <1>2, <2>1, ClassifyIs
  <2>3. PICK c \in Mine(m) : a = MemberClaim(c, m)
    BY DEF Members
  <2>4. ConflictOf(<<a, b>>) = DeadConflict(c, m)
    BY <1>4, <2>2, <2>3 DEF ConflictOf, DeadConflict
  <2>5. <<c, m>> \in ActiveUncalled
    BY <2>1, <2>3 DEF ActiveUncalled, Mine
  <2>. QED
    BY <2>4, <2>5 DEF DeadSet
<1>7. ASSUME NEW a \in Purposes(m), NEW b \in Described(m), Classify(a, b) # {}
      PROVE  ConflictOf(<<a, b>>) \in PurposeSet
  <2>1. PICK c \in Mine(m) : a = PurposeClaim(c, m)
    BY DEF Purposes
  <2>2. PICK f \in ToSet(input.frds) : f.module = m /\ b = FrdClaim(f)
    BY DEF Described
  <2>3. a.text = c.name /\ b.text = f.text
    BY <2>1, <2>2 DEF PurposeClaim, FrdClaim, Claim
  <2>4. /\ {} \notin {c.name, f.text} /\ c.name \cap f.text = {}
        /\ Classify(a, b) = {"purpose_mismatch"}
    BY <1>3, <1>5, <1>7, <2>3, ClassifyIs
  <2>5. ConflictOf(<<a, b>>) = PurposeConflict(c, f)
    BY <2>1, <2>2, <2>4 DEF ConflictOf, PurposeConflict
  <2>6. <<c, f>> \in Differing
    BY <2>1, <2>2, <2>4 DEF Differing, Mine
  <2>. QED
    BY <2>5, <2>6 DEF PurposeSet
<1>8. \A a \in Members(m), b \in Described(m) : Classify(a, b) = {}
  BY <1>2, <1>5, ClassifyIs
<1>9. \A a \in Purposes(m), b \in Reaches(m) : Classify(a, b) = {}
  BY <1>3, <1>4, ClassifyIs
<1>10. \A a \in Reaches(m), b \in Described(m) : Classify(a, b) = {}
  BY <1>4, <1>5, ClassifyIs
<1>. QED
  BY <1>6, <1>7, <1>8, <1>9, <1>10

\* And each of these is the conflict of two such claims.
LEMMA Contradicting ==
  ASSUME input \in Inputs
  PROVE  /\ \A q \in ActiveUncalled :
              /\ q[2] \in Modules
              /\ MemberClaim(q[1], q[2]) \in Members(q[2]) /\ ReachClaim(q[2]) \in Reaches(q[2])
              /\ Exclude(<<MemberClaim(q[1], q[2]), ReachClaim(q[2])>>)
              /\ ConflictOf(<<MemberClaim(q[1], q[2]), ReachClaim(q[2])>>) = DeadConflict(q[1], q[2])
         /\ \A q \in Differing :
              /\ q[2].module \in Modules
              /\ PurposeClaim(q[1], q[2].module) \in Purposes(q[2].module)
              /\ FrdClaim(q[2]) \in Described(q[2].module)
              /\ Exclude(<<PurposeClaim(q[1], q[2].module), FrdClaim(q[2])>>)
              /\ ConflictOf(<<PurposeClaim(q[1], q[2].module), FrdClaim(q[2])>>) =
                   PurposeConflict(q[1], q[2])
<1>1. ASSUME NEW q \in ActiveUncalled
      PROVE /\ q[2] \in Modules
            /\ MemberClaim(q[1], q[2]) \in Members(q[2]) /\ ReachClaim(q[2]) \in Reaches(q[2])
            /\ Exclude(<<MemberClaim(q[1], q[2]), ReachClaim(q[2])>>)
            /\ ConflictOf(<<MemberClaim(q[1], q[2]), ReachClaim(q[2])>>) = DeadConflict(q[1], q[2])
  <2>. DEFINE c == q[1]
              m == q[2]
              a == MemberClaim(c, m)
              b == ReachClaim(m)
  <2>1. c \in ToSet(input.clusters) /\ m \in Modules /\ m \in c.members /\ input.symbols[m] = "uncalled"
    BY DEF ActiveUncalled
  <2>. HIDE DEF c, m
  <2>2. a \in Members(m) /\ b \in Reaches(m)
    BY <2>1 DEF Members, Reaches, Mine
  <2>3. a.kind = "active" /\ b.kind = "unreachable" /\ a.domain # b.domain
    BY <2>1 DEF MemberClaim, ReachClaim, Claim
  <2>. HIDE DEF a, b
  <2>4. Classify(a, b) = {"dead_vs_active"}
    BY <2>3, ClassifyIs
  <2>5. Exclude(<<a, b>>) /\ ConflictOf(<<a, b>>) = Conflict(a, b, "dead_vs_active")
    BY <2>3, <2>4 DEF Exclude, ConflictOf
  <2>. QED
    BY <2>1, <2>2, <2>5 DEF DeadConflict, a, b, c, m
<1>2. ASSUME NEW q \in Differing
      PROVE /\ q[2].module \in Modules
            /\ PurposeClaim(q[1], q[2].module) \in Purposes(q[2].module)
            /\ FrdClaim(q[2]) \in Described(q[2].module)
            /\ Exclude(<<PurposeClaim(q[1], q[2].module), FrdClaim(q[2])>>)
            /\ ConflictOf(<<PurposeClaim(q[1], q[2].module), FrdClaim(q[2])>>) =
                 PurposeConflict(q[1], q[2])
  <2>. DEFINE c == q[1]
              f == q[2]
              m == f.module
              a == PurposeClaim(c, m)
              b == FrdClaim(f)
  <2>1. /\ c \in ToSet(input.clusters) /\ f \in ToSet(input.frds) /\ m \in c.members
        /\ {} \notin {c.name, f.text} /\ c.name \cap f.text = {}
    BY DEF Differing
  <2>. HIDE DEF c, f
  <2>2. m \in Modules
    <3>1. PICK i \in DOMAIN input.frds : f = input.frds[i]
      BY <2>1 DEF ToSet
    <3>2. f \in Behaviors
      BY <3>1, InputLists
    <3>. QED
      BY <3>2 DEF Behaviors
  <2>3. a \in Purposes(m) /\ b \in Described(m)
    BY <2>1 DEF Purposes, Described, Mine
  <2>4. /\ a.kind = "purpose" /\ b.kind = "purpose" /\ a.domain # b.domain
        /\ a.text = c.name /\ b.text = f.text
    BY DEF PurposeClaim, FrdClaim, Claim
  <2>. HIDE DEF a, b
  <2>5. Classify(a, b) = {"purpose_mismatch"}
    BY <2>1, <2>4, ClassifyIs
  <2>6. Exclude(<<a, b>>) /\ ConflictOf(<<a, b>>) = Conflict(a, b, "purpose_mismatch")
    BY <2>4, <2>5 DEF Exclude, ConflictOf
  <2>. QED
    BY <2>2, <2>3, <2>6 DEF PurposeConflict, a, b, c, f, m
<1>. QED
  BY <1>1, <1>2

\* What _detect_entity_conflicts compares are the pairs of claims about one module.
Paired(p, m) ==
  \E i, k \in DOMAIN ModuleClaims(m) : i < k /\ p = <<ModuleClaims(m)[i], ModuleClaims(m)[k]>>
AllClaims == UNION {ClaimsOf(m) : m \in Modules}

\* The lists of pairs, and what they keep.
LEMMA PairListsAre ==
  ASSUME input \in Inputs
  PROVE  /\ PairLists \in Seq(Seq(AllClaims \X AllClaims))
         /\ DOMAIN PairLists = DOMAIN SetToSeq(Modules)
         /\ \A i \in DOMAIN PairLists : PairLists[i] = Pairs(ModuleClaims(SetToSeq(Modules)[i]))
         /\ FlattenSeq(PairLists) \in Seq(AllClaims \X AllClaims)
         /\ \A p : p \in ToSet(FlattenSeq(PairLists)) <=> \E m \in Modules : Paired(p, m)
<1>. DEFINE ms == SetToSeq(Modules)
            T == AllClaims \X AllClaims
<1>1. ms \in Seq(Modules) /\ \A m \in Modules : \E i \in DOMAIN ms : ms[i] = m
  BY DisputesAssumption, SetListed
<1>2. PairLists = [i \in DOMAIN ms |-> Pairs(ModuleClaims(ms[i]))]
  BY DEF PairLists
<1>. HIDE DEF ms
<1>3. ASSUME NEW m \in Modules
      PROVE /\ Pairs(ModuleClaims(m)) \in Seq(T)
            /\ \A p : p \in ToSet(Pairs(ModuleClaims(m))) <=> Paired(p, m)
  <2>. DEFINE s == ModuleClaims(m)
  <2>1. s \in Seq(ClaimsOf(m))
    BY ClaimsInOrder
  <2>2. s \in Seq(AllClaims)
    <3>1. ClaimsOf(m) \subseteq AllClaims
      BY DEF AllClaims
    <3>. HIDE DEF s
    <3>. QED
      BY <2>1, <3>1
  <2>. HIDE DEF s
  <2>3. /\ Pairs(s) \in Seq(T) /\ \E u, v : PairedAt(s, Pairs(s), u, v)
        /\ \A i, k \in DOMAIN s : i < k => <<s[i], s[k]>> \in ToSet(Pairs(s))
    BY <2>2, PairsAre
  <2>4. PICK u, v : PairedAt(s, Pairs(s), u, v)
    BY <2>3
  <2>5. ASSUME NEW p \in ToSet(Pairs(s)) PROVE \E i, k \in DOMAIN s : i < k /\ p = <<s[i], s[k]>>
    <3>1. PICK x \in DOMAIN Pairs(s) : p = Pairs(s)[x]
      BY DEF ToSet
    <3>. QED
      BY <2>4, <3>1 DEF PairedAt
  <2>. QED
    BY <2>3, <2>5 DEF Paired, s
<1>4. PairLists \in [DOMAIN ms -> Seq(T)]
  <2>1. \A i \in DOMAIN ms : Pairs(ModuleClaims(ms[i])) \in Seq(T)
    BY <1>1, <1>3, EntryOf
  <2>. HIDE DEF T
  <2>. QED
    BY <1>2, <2>1
<1>5. PairLists \in Seq(Seq(T)) /\ DOMAIN PairLists = DOMAIN ms
  <2>. HIDE DEF T
  <2>. QED
    BY <1>1, <1>4, EachOf
<1>6. \A i \in DOMAIN ms : PairLists[i] = Pairs(ModuleClaims(ms[i])) /\ ms[i] \in Modules
  BY <1>1, <1>2, EntryOf
<1>7. /\ FlattenSeq(PairLists) \in Seq(T)
      /\ ToSet(FlattenSeq(PairLists)) = UNION {ToSet(PairLists[i]) : i \in DOMAIN PairLists}
  BY <1>5, FlattenedSet
<1>8. ASSUME NEW p \in ToSet(FlattenSeq(PairLists)) PROVE \E m \in Modules : Paired(p, m)
  <2>1. PICK i \in DOMAIN ms : p \in ToSet(PairLists[i])
    BY <1>5, <1>7
  <2>. QED
    BY <1>3, <1>6, <2>1
<1>9. ASSUME NEW p, NEW m \in Modules, Paired(p, m) PROVE p \in ToSet(FlattenSeq(PairLists))
  <2>1. PICK i \in DOMAIN ms : ms[i] = m
    BY <1>1
  <2>2. p \in ToSet(PairLists[i])
    BY <1>3, <1>6, <1>9, <2>1
  <2>. QED
    BY <1>5, <1>7, <2>2
<1>. QED
  BY <1>5, <1>6, <1>7, <1>8, <1>9 DEF ms

\* What they keep.
LEMMA ExcludingIs ==
  ASSUME input \in Inputs
  PROVE  /\ Excluding \in Seq(AllClaims \X AllClaims)
         /\ ToSet(Excluding) = {p \in ToSet(FlattenSeq(PairLists)) : Exclude(p)}
<1>. DEFINE t == FlattenSeq(PairLists)
            at == {i \in DOMAIN t : Exclude(t[i])}
<1>1. t \in Seq(AllClaims \X AllClaims) /\ at \subseteq DOMAIN t
  BY PairListsAre
<1>2. Excluding = Entries(t, at)
  BY DEF Excluding, Having
<1>. HIDE DEF t
<1>3. Excluding \in Seq(AllClaims \X AllClaims) /\ ToSet(Excluding) = {t[i] : i \in at}
  <2>. HIDE DEF at
  <2>. QED
    BY <1>1, <1>2, EntriesSet
<1>4. {t[i] : i \in at} = {p \in ToSet(t) : Exclude(p)}
  BY DEF ToSet
<1>. QED
  BY <1>3, <1>4 DEF t

\* _detect_entity_conflicts finds the contradictions about modules.
LEMMA EntityConflictsAre ==
  ASSUME input \in Inputs
  PROVE  /\ EntityConflicts \in Seq(DeadSet \cup PurposeSet)
         /\ ToSet(EntityConflicts) = DeadSet \cup PurposeSet
         /\ DOMAIN EntityConflicts = DOMAIN Excluding
         /\ \A i \in DOMAIN Excluding : EntityConflicts[i] = ConflictOf(Excluding[i])
<1>. DEFINE T == DeadSet \cup PurposeSet
<1>1. EntityConflicts = [i \in DOMAIN Excluding |-> ConflictOf(Excluding[i])]
  BY DEF EntityConflicts, Excluding, PairLists, Exclude, ConflictOf
<1>2. ASSUME NEW p \in ToSet(Excluding) PROVE ConflictOf(p) \in T
  <2>1. p \in ToSet(FlattenSeq(PairLists)) /\ Exclude(p)
    BY ExcludingIs
  <2>2. PICK m \in Modules : Paired(p, m)
    BY <2>1, PairListsAre
  <2>. DEFINE s == ModuleClaims(m)
  <2>3. PICK i, k \in DOMAIN s : i < k /\ p = <<s[i], s[k]>>
    BY <2>2 DEF Paired
  <2>4. s[i].domain # s[k].domain /\ Classify(s[i], s[k]) # {}
    BY <2>1, <2>3 DEF Exclude
  <2>5. \/ s[i] \in Members(m) \cup Purposes(m) /\ s[k] \in Reaches(m) \cup Described(m)
        \/ s[i] \in Reaches(m) /\ s[k] \in Described(m)
    BY <2>3, <2>4, ClaimsInOrder
  <2>. HIDE DEF s
  <2>. QED
    BY <2>3, <2>4, <2>5, Classified
<1>3. ASSUME NEW m \in Modules, NEW a \in Members(m) \cup Purposes(m),
             NEW b \in Reaches(m) \cup Described(m), Exclude(<<a, b>>)
      PROVE  <<a, b>> \in ToSet(Excluding)
  <2>1. \E i, k \in DOMAIN ModuleClaims(m) : i < k /\ ModuleClaims(m)[i] = a /\ ModuleClaims(m)[k] = b
    BY ClaimsInOrder
  <2>2. Paired(<<a, b>>, m)
    BY <2>1 DEF Paired
  <2>. QED
    BY <1>3, <2>2, PairListsAre, ExcludingIs
<1>4. ToSet(EntityConflicts) = {ConflictOf(p) : p \in ToSet(Excluding)}
  BY <1>1 DEF ToSet
<1>5. ASSUME NEW q \in ActiveUncalled PROVE DeadConflict(q[1], q[2]) \in ToSet(EntityConflicts)
  <2>1. <<MemberClaim(q[1], q[2]), ReachClaim(q[2])>> \in ToSet(Excluding)
    BY <1>3, Contradicting
  <2>2. ConflictOf(<<MemberClaim(q[1], q[2]), ReachClaim(q[2])>>) = DeadConflict(q[1], q[2])
    BY Contradicting
  <2>. QED
    BY <1>4, <2>1, <2>2
<1>6. ASSUME NEW q \in Differing PROVE PurposeConflict(q[1], q[2]) \in ToSet(EntityConflicts)
  <2>1. <<PurposeClaim(q[1], q[2].module), FrdClaim(q[2])>> \in ToSet(Excluding)
    BY <1>3, Contradicting
  <2>2. ConflictOf(<<PurposeClaim(q[1], q[2].module), FrdClaim(q[2])>>) = PurposeConflict(q[1], q[2])
    BY Contradicting
  <2>. QED
    BY <1>4, <2>1, <2>2
<1>7. T \subseteq ToSet(EntityConflicts)
  BY <1>5, <1>6 DEF DeadSet, PurposeSet
<1>8. ToSet(EntityConflicts) \subseteq T
  BY <1>2, <1>4
<1>9. EntityConflicts \in Seq(T)
  <2>1. \A i \in DOMAIN Excluding : EntityConflicts[i] \in T
    BY <1>1, <1>2 DEF ToSet
  <2>2. EntityConflicts \in [DOMAIN Excluding -> T]
    <3>. HIDE DEF T
    <3>. QED
      BY <1>1, <2>1
  <2>3. Excluding \in Seq(AllClaims \X AllClaims)
    BY ExcludingIs
  <2>. HIDE DEF T
  <2>. QED
    BY <2>2, <2>3, EachOf
<1>. QED
  BY <1>1, <1>7, <1>8, <1>9

\* All contradictions, with the type that tells them apart.
LEMMA ConflictsAre ==
  ASSUME input \in Inputs, conflicts = EntityConflicts \o ValueConflicts
  PROVE  /\ conflicts \in Seq(DeadSet \cup PurposeSet \cup ValueSet)
         /\ ToSet(conflicts) = DeadSet \cup PurposeSet \cup ValueSet
         /\ DOMAIN conflicts = 1..(Len(EntityConflicts) + Len(ValueConflicts))
         /\ \A i \in 1..Len(EntityConflicts) : conflicts[i] = EntityConflicts[i]
         /\ \A i \in 1..Len(ValueConflicts) :
              conflicts[Len(EntityConflicts) + i] = ValueConflicts[i]
<1>. DEFINE s == EntityConflicts
            t == ValueConflicts
            T == DeadSet \cup PurposeSet \cup ValueSet
<1>1. s \in Seq(DeadSet \cup PurposeSet) /\ ToSet(s) = DeadSet \cup PurposeSet
  BY EntityConflictsAre
<1>2. t \in Seq(ValueSet) /\ ToSet(t) = ValueSet
  BY ValueConflictsAre
<1>3. s \in Seq(T) /\ t \in Seq(T)
  <2>. HIDE DEF s, t
  <2>. QED
    BY <1>1, <1>2
<1>. HIDE DEF s, t, T
<1>4. s \o t \in Seq(T) /\ ToSet(s \o t) = ToSet(s) \cup ToSet(t)
  BY <1>3, JoinedSet
<1>5. DOMAIN (s \o t) = 1..(Len(s) + Len(t))
  BY <1>3, JoinedAt
<1>6. /\ \A i \in 1..Len(s) : (s \o t)[i] = s[i]
      /\ \A i \in 1..Len(t) : (s \o t)[Len(s) + i] = t[i]
  BY <1>3, JoinedAt
<1>7. conflicts = s \o t
  BY DEF s, t
<1>. QED
  BY <1>1, <1>2, <1>4, <1>5, <1>6, <1>7 DEF s, t, T

\* What a contradiction is between, by its type.
LEMMA TypesOfConflicts ==
  /\ \A q \in ActiveUncalled :
       /\ DeadConflict(q[1], q[2]).type = "dead_vs_active"
       /\ Sides(DeadConflict(q[1], q[2])) =
            <<<<"membership", q[1].name, q[2]>>, <<"reachability", q[2]>>>>
  /\ \A q \in Differing :
       /\ PurposeConflict(q[1], q[2]).type = "purpose_mismatch"
       /\ Sides(PurposeConflict(q[1], q[2])) =
            <<<<"purpose", q[1].name, q[2].module>>, <<"frd", q[2].function>>>>
  /\ \A q \in Clashing :
       /\ ValueConflict(q[1], q[2]).type = "value_mismatch"
       /\ Sides(ValueConflict(q[1], q[2])) =
            <<<<"rule", q[1].id>>, <<"field", q[2].table, q[2].name>>>>
BY DEF DeadConflict, PurposeConflict, ValueConflict, Conflict, Sides, MemberClaim, ReachClaim,
       PurposeClaim, FrdClaim, RuleClaim, FieldClaim, Claim

\* A rule and a column clash as ValueMismatch says.
LEMMA ClashingIs ==
  ASSUME input \in Inputs
  PROVE  Clashing = {q \in ToSet(input.rules) \X ToSet(input.fields) :
                       /\ q[2].default \in Values \ {q[1].value}
                       /\ \E w \in Words : w \in q[1].words /\ w \in q[2].words}
<1>1. ASSUME NEW r \in ToSet(input.rules), NEW f \in ToSet(input.fields)
      PROVE  Clashes(r, f) <=> /\ f.default \in Values \ {r.value}
                               /\ \E w \in Words : w \in r.words /\ w \in f.words
  <2>1. r \in BusinessRules /\ f \in Columns
    BY InputLists DEF ToSet
  <2>2. r.words \subseteq Words /\ f.words \subseteq Words /\ f.default \in Values \cup {NoDefault}
    BY <2>1 DEF BusinessRules, Columns
  <2>3. NoDefault \notin Values
    BY DisputesAssumption
  <2>. QED
    BY <2>2, <2>3 DEF Clashes
<1>. QED
  BY <1>1 DEF Clashing

\* The contradictions of each type.
LEMMA FoundByType ==
  ASSUME input \in Inputs, conflicts = EntityConflicts \o ValueConflicts
  PROVE  /\ {Sides(conflicts[i]) : i \in {k \in DOMAIN conflicts : conflicts[k].type = "dead_vs_active"}} =
              DeadVsActive
         /\ {Sides(conflicts[i]) : i \in {k \in DOMAIN conflicts : conflicts[k].type = "purpose_mismatch"}} =
              PurposeMismatch
         /\ {Sides(conflicts[i]) : i \in {k \in DOMAIN conflicts : conflicts[k].type = "value_mismatch"}} =
              ValueMismatch
<1>1. ToSet(conflicts) = DeadSet \cup PurposeSet \cup ValueSet
  BY ConflictsAre
<1>2. \A c \in DeadSet : c.type = "dead_vs_active"
  BY TypesOfConflicts DEF DeadSet
<1>3. \A c \in PurposeSet : c.type = "purpose_mismatch"
  BY TypesOfConflicts DEF PurposeSet
<1>4. \A c \in ValueSet : c.type = "value_mismatch"
  BY TypesOfConflicts DEF ValueSet
<1>5. ASSUME NEW t
      PROVE  {Sides(conflicts[i]) : i \in {k \in DOMAIN conflicts : conflicts[k].type = t}} =
               {Sides(c) : c \in {x \in ToSet(conflicts) : x.type = t}}
  BY DEF ToSet
<1>6. {x \in ToSet(conflicts) : x.type = "dead_vs_active"} = DeadSet
  BY <1>1, <1>2, <1>3, <1>4
<1>7. {x \in ToSet(conflicts) : x.type = "purpose_mismatch"} = PurposeSet
  BY <1>1, <1>2, <1>3, <1>4
<1>8. {x \in ToSet(conflicts) : x.type = "value_mismatch"} = ValueSet
  BY <1>1, <1>2, <1>3, <1>4
<1>9. {Sides(c) : c \in DeadSet} = DeadVsActive
  <2>1. {Sides(c) : c \in DeadSet} = {Sides(DeadConflict(q[1], q[2])) : q \in ActiveUncalled}
    BY DEF DeadSet
  <2>. QED
    BY <2>1, TypesOfConflicts DEF DeadVsActive, ActiveUncalled
<1>10. {Sides(c) : c \in PurposeSet} = PurposeMismatch
  <2>1. {Sides(c) : c \in PurposeSet} = {Sides(PurposeConflict(q[1], q[2])) : q \in Differing}
    BY DEF PurposeSet
  <2>2. \A q \in Differing :
          Sides(PurposeConflict(q[1], q[2])) =
            <<<<"purpose", q[1].name, q[2].module>>, <<"frd", q[2].function>>>>
    BY TypesOfConflicts
  <2>3. {Sides(PurposeConflict(q[1], q[2])) : q \in Differing} =
          {<<<<"purpose", q[1].name, q[2].module>>, <<"frd", q[2].function>>>> : q \in Differing}
    BY <2>2
  <2>4. PurposeMismatch =
          {<<<<"purpose", q[1].name, q[2].module>>, <<"frd", q[2].function>>>> : q \in Differing}
    BY DEF PurposeMismatch, Differing
  <2>. QED
    BY <2>1, <2>3, <2>4
<1>11. {Sides(c) : c \in ValueSet} = ValueMismatch
  <2>1. {Sides(c) : c \in ValueSet} = {Sides(ValueConflict(q[1], q[2])) : q \in Clashing}
    BY DEF ValueSet
  <2>2. \A q \in Clashing : Sides(ValueConflict(q[1], q[2])) =
                              <<<<"rule", q[1].id>>, <<"field", q[2].table, q[2].name>>>>
    BY TypesOfConflicts
  <2>3. {Sides(ValueConflict(q[1], q[2])) : q \in Clashing} =
          {<<<<"rule", q[1].id>>, <<"field", q[2].table, q[2].name>>>> : q \in Clashing}
    BY <2>2
  <2>4. ValueMismatch = {<<<<"rule", q[1].id>>, <<"field", q[2].table, q[2].name>>>> : q \in Clashing}
    BY ClashingIs DEF ValueMismatch
  <2>. QED
    BY <2>1, <2>3, <2>4
<1>12. {Sides(conflicts[i]) : i \in {k \in DOMAIN conflicts : conflicts[k].type = "dead_vs_active"}} =
         DeadVsActive
  BY <1>5, <1>6, <1>9
<1>13. {Sides(conflicts[i]) : i \in {k \in DOMAIN conflicts : conflicts[k].type = "purpose_mismatch"}} =
         PurposeMismatch
  BY <1>5, <1>7, <1>10
<1>14. {Sides(conflicts[i]) : i \in {k \in DOMAIN conflicts : conflicts[k].type = "value_mismatch"}} =
         ValueMismatch
  BY <1>5, <1>8, <1>11
<1>. QED
  BY <1>12, <1>13, <1>14

\* Without a finding listed twice, no two capabilities of a module have one name.
LEMMA NamesDistinct ==
  ASSUME input \in Inputs, FindingsDistinct, NEW m \in Modules,
         NEW j \in DOMAIN MineOf(m), NEW l \in DOMAIN MineOf(m), MineOf(m)[j].name = MineOf(m)[l].name
  PROVE  j = l
<1>. DEFINE at == {i \in DOMAIN input.clusters : m \in input.clusters[i].members}
            mine == MineOf(m)
<1>1. mine = Entries(input.clusters, at)
  BY DEF MineOf, Having
<1>2. input.clusters \in Seq(Capabilities) /\ at \subseteq DOMAIN input.clusters /\ DOMAIN input.clusters \subseteq Nat
  BY InputLists
<1>3. mine \in Seq(Mine(m))
  BY FromBIs
<1>4. j \in DOMAIN mine /\ l \in DOMAIN mine /\ mine[j].name = mine[l].name
  OBVIOUS
<1>. HIDE DEF mine
<1>5. PICK p : InOrder(input.clusters, at, mine, p)
  <2>. HIDE DEF at
  <2>. QED
    BY <1>1, <1>2, EntriesInOrder
<1>6. \A i \in DOMAIN mine : p[i] \in at /\ mine[i] = input.clusters[p[i]]
  BY <1>5 DEF InOrder
<1>7. \A i, k \in DOMAIN mine : i < k => p[i] < p[k]
  BY <1>5 DEF InOrder
<1>8. j \in Nat /\ l \in Nat /\ p[j] \in Nat /\ p[l] \in Nat
  BY <1>2, <1>3, <1>4, <1>6
<1>9. m \in input.clusters[p[j]].members \cap input.clusters[p[l]].members
  BY <1>4, <1>6
<1>10. p[j] = p[l]
  BY <1>2, <1>4, <1>6, <1>9 DEF FindingsDistinct
<1>. QED
  BY <1>4, <1>7, <1>8, <1>10

\* Nor two claims of Domain B about a module one id.
LEMMA FromBDistinct ==
  ASSUME input \in Inputs, FindingsDistinct, NEW m \in Modules,
         NEW i \in DOMAIN FromB(m), NEW k \in DOMAIN FromB(m), FromB(m)[i].id = FromB(m)[k].id
  PROVE  i = k
<1>. DEFINE mine == MineOf(m)
            n == Len(mine)
            b == FromB(m)
<1>1. /\ mine \in Seq(Mine(m)) /\ b \in Seq(Members(m) \cup Purposes(m)) /\ Len(b) = 2 * n
      /\ \A j \in DOMAIN mine : b[2 * j - 1] = MemberClaim(mine[j], m) /\ b[2 * j] = PurposeClaim(mine[j], m)
  BY FromBIs
<1>2. \A j, l \in DOMAIN mine : mine[j].name = mine[l].name => j = l
  BY NamesDistinct
<1>3. i \in DOMAIN b /\ k \in DOMAIN b /\ b[i].id = b[k].id
  OBVIOUS
<1>. HIDE DEF mine, b
<1>4. n \in Nat /\ DOMAIN mine = 1..n /\ DOMAIN b = 1..(2 * n)
  BY <1>1
<1>. HIDE DEF n
<1>5. ASSUME NEW x \in 1..(2 * n) PROVE \E j \in 1..n : x = 2 * j - 1 \/ x = 2 * j
  <2>1. (x + 1) \div 2 \in 1..n /\ (x = 2 * ((x + 1) \div 2) - 1 \/ x = 2 * ((x + 1) \div 2))
    BY <1>4
  <2>. QED
    BY <2>1
<1>6. PICK j \in 1..n : i = 2 * j - 1 \/ i = 2 * j
  BY <1>3, <1>4, <1>5
<1>7. PICK l \in 1..n : k = 2 * l - 1 \/ k = 2 * l
  BY <1>3, <1>4, <1>5
<1>8. \A x \in 1..n : /\ b[2 * x - 1].id = <<"membership", mine[x].name, m>>
                      /\ b[2 * x].id = <<"purpose", mine[x].name, m>>
  <2>1. \A x \in 1..n : b[2 * x - 1] = MemberClaim(mine[x], m) /\ b[2 * x] = PurposeClaim(mine[x], m)
    BY <1>1, <1>4
  <2>2. \A c : /\ MemberClaim(c, m).id = <<"membership", c.name, m>>
               /\ PurposeClaim(c, m).id = <<"purpose", c.name, m>>
    BY DEF MemberClaim, PurposeClaim, Claim
  <2>. QED
    BY <2>1, <2>2
<1>9. mine[j].name = mine[l].name /\ (i = 2 * j - 1 <=> k = 2 * l - 1)
  <2>1. b[i].id[2] = mine[j].name /\ b[k].id[2] = mine[l].name
    BY <1>6, <1>7, <1>8
  <2>2. /\ i = 2 * j - 1 => b[i].id[1] = "membership"
        /\ i = 2 * j => b[i].id[1] = "purpose"
        /\ k = 2 * l - 1 => b[k].id[1] = "membership"
        /\ k = 2 * l => b[k].id[1] = "purpose"
    BY <1>6, <1>7, <1>8
  <2>3. 2 * j - 1 # 2 * j /\ 2 * l - 1 # 2 * l
    BY <1>4
  <2>. QED
    BY <1>3, <1>6, <1>7, <2>1, <2>2, <2>3
<1>10. j = l
  BY <1>2, <1>4, <1>9
<1>. QED
  BY <1>6, <1>7, <1>9, <1>10

\* Nor any two claims about a module.
LEMMA ClaimsDistinct ==
  ASSUME input \in Inputs, FindingsDistinct, NEW m \in Modules,
         NEW i \in DOMAIN ModuleClaims(m), NEW k \in DOMAIN ModuleClaims(m),
         ModuleClaims(m)[i].id = ModuleClaims(m)[k].id
  PROVE  i = k
<1>. DEFINE x == FromB(m)
            y == FromD(m)
            z == FromC(m)
            s == ModuleClaims(m)
            T == ClaimsOf(m)
<1>1. /\ s = x \o y \o z
      /\ x \in Seq(T) /\ ToSet(x) = Members(m) \cup Purposes(m)
      /\ y \in Seq(T) /\ ToSet(y) = Reaches(m) /\ Len(y) \in 0..1
      /\ z \in Seq(T) /\ ToSet(z) = Described(m)
  BY ModuleClaimsAre
<1>2. \A a, b \in DOMAIN x : x[a].id = x[b].id => a = b
  BY FromBDistinct
<1>3. \A a, b \in DOMAIN z : z[a].id = z[b].id => a = b
  <2>1. PICK p : Sourced(m, p)
    BY FromCIs
  <2>2. ASSUME NEW a \in DOMAIN z, NEW b \in DOMAIN z, z[a].id = z[b].id PROVE a = b
    <3>1. /\ p[a] \in DOMAIN input.frds /\ z[a] = FrdClaim(input.frds[p[a]])
          /\ p[b] \in DOMAIN input.frds /\ z[b] = FrdClaim(input.frds[p[b]])
          /\ a # b => p[a] # p[b]
      BY <2>1 DEF Sourced
    <3>2. z[a].id[2] = input.frds[p[a]].function /\ z[b].id[2] = input.frds[p[b]].function
      BY <3>1 DEF FrdClaim, Claim
    <3>. QED
      BY <2>2, <3>1, <3>2 DEF FindingsDistinct
  <2>. QED
    BY <2>2
<1>4. /\ \A a \in Members(m) \cup Purposes(m) : a.id[1] \in {"membership", "purpose"}
      /\ \A a \in Reaches(m) : a.id[1] = "reachability"
      /\ \A a \in Described(m) : a.id[1] = "frd"
  BY DEF Members, Purposes, Reaches, Described, MemberClaim, PurposeClaim, ReachClaim, FrdClaim, Claim
<1>5. i \in DOMAIN s /\ k \in DOMAIN s /\ s[i].id = s[k].id
  OBVIOUS
<1>. HIDE DEF x, y, z, s, T
<1>6. /\ DOMAIN s = 1..(Len(x) + Len(y) + Len(z))
      /\ \A a \in 1..Len(x) : s[a] = x[a]
      /\ \A a \in 1..Len(y) : s[Len(x) + a] = y[a]
      /\ \A a \in 1..Len(z) : s[Len(x) + Len(y) + a] = z[a]
  BY <1>1, ThreeJoined
<1>7. /\ Len(x) \in Nat /\ Len(y) \in Nat /\ Len(z) \in Nat
      /\ DOMAIN x = 1..Len(x) /\ DOMAIN y = 1..Len(y) /\ DOMAIN z = 1..Len(z)
  BY <1>1
<1>8. ASSUME NEW a \in DOMAIN s
      PROVE  \/ a \in 1..Len(x) /\ s[a] = x[a] /\ s[a].id[1] \in {"membership", "purpose"}
             \/ a = Len(x) + 1 /\ s[a].id[1] = "reachability"
             \/ /\ a - (Len(x) + Len(y)) \in 1..Len(z) /\ s[a] = z[a - (Len(x) + Len(y))]
                /\ s[a].id[1] = "frd"
  <2>1. CASE a <= Len(x)
    <3>1. a \in 1..Len(x)
      BY <1>6, <1>7, <2>1
    <3>2. x[a] \in Members(m) \cup Purposes(m)
      BY <1>1, <1>7, <3>1 DEF ToSet
    <3>. QED
      BY <1>4, <1>6, <3>1, <3>2
  <2>2. CASE ~(a <= Len(x)) /\ a <= Len(x) + Len(y)
    <3>1. a - Len(x) \in 1..Len(y) /\ Len(x) + (a - Len(x)) = a /\ a = Len(x) + 1
      BY <1>1, <1>6, <1>7, <2>2
    <3>2. y[a - Len(x)] \in Reaches(m)
      BY <1>1, <1>7, <3>1 DEF ToSet
    <3>3. s[a] = y[a - Len(x)]
      BY <1>6, <3>1
    <3>. QED
      BY <1>4, <3>1, <3>2, <3>3
  <2>3. CASE ~(a <= Len(x) + Len(y))
    <3>1. a - (Len(x) + Len(y)) \in 1..Len(z) /\ Len(x) + Len(y) + (a - (Len(x) + Len(y))) = a
      BY <1>6, <1>7, <2>3
    <3>2. z[a - (Len(x) + Len(y))] \in Described(m)
      BY <1>1, <1>7, <3>1 DEF ToSet
    <3>3. s[a] = z[a - (Len(x) + Len(y))]
      BY <1>6, <3>1
    <3>. QED
      BY <1>4, <3>1, <3>2, <3>3
  <2>. QED
    BY <2>1, <2>2, <2>3
<1>9. CASE i \in 1..Len(x) /\ s[i] = x[i] /\ s[i].id[1] \in {"membership", "purpose"}
  <2>1. k \in 1..Len(x) /\ s[k] = x[k]
    BY <1>5, <1>8, <1>9
  <2>. QED
    BY <1>2, <1>5, <1>7, <1>9, <2>1
<1>10. CASE i = Len(x) + 1 /\ s[i].id[1] = "reachability"
  BY <1>5, <1>8, <1>10
<1>11. CASE /\ i - (Len(x) + Len(y)) \in 1..Len(z) /\ s[i] = z[i - (Len(x) + Len(y))]
            /\ s[i].id[1] = "frd"
  <2>1. k - (Len(x) + Len(y)) \in 1..Len(z) /\ s[k] = z[k - (Len(x) + Len(y))]
    BY <1>5, <1>8, <1>11
  <2>2. i - (Len(x) + Len(y)) = k - (Len(x) + Len(y))
    BY <1>3, <1>5, <1>7, <1>11, <2>1
  <2>3. i \in Nat /\ k \in Nat
    BY <1>5, <1>6, <1>7
  <2>. QED
    BY <1>7, <2>2, <2>3
<1>. QED
  BY <1>5, <1>8, <1>9, <1>10, <1>11

\* A pair that is kept is of Domain B's claims about one module and another domain's.
LEMMA KeptPairs ==
  ASSUME input \in Inputs, NEW x \in DOMAIN Excluding, NEW m \in Modules,
         NEW i \in DOMAIN ModuleClaims(m), NEW k \in DOMAIN ModuleClaims(m), i < k,
         Excluding[x] = <<ModuleClaims(m)[i], ModuleClaims(m)[k]>>
  PROVE  /\ Sides(EntityConflicts[x]) = <<ModuleClaims(m)[i].id, ModuleClaims(m)[k].id>>
         /\ ModuleClaims(m)[i].id[3] = m
<1>. DEFINE s == ModuleClaims(m)
<1>1. Excluding[x] \in ToSet(Excluding)
  BY DEF ToSet
<1>2. s[i].domain # s[k].domain /\ Classify(s[i], s[k]) # {}
  BY <1>1, ExcludingIs DEF Exclude
<1>3. \/ s[i] \in Members(m) \cup Purposes(m) /\ s[k] \in Reaches(m) \cup Described(m)
      \/ s[i] \in Reaches(m) /\ s[k] \in Described(m)
  BY <1>2, ClaimsInOrder
<1>4. s[i] \in Members(m) \cup Purposes(m)
  BY <1>2, <1>3, Classified
<1>5. s[i].id[3] = m
  BY <1>4 DEF Members, Purposes, MemberClaim, PurposeClaim, Claim
<1>6. EntityConflicts[x] = ConflictOf(<<s[i], s[k]>>)
  BY EntityConflictsAre
<1>7. Sides(EntityConflicts[x]) = <<s[i].id, s[k].id>>
  BY <1>6 DEF ConflictOf, Conflict, Sides
<1>. QED
  BY <1>5, <1>7

\* Without a finding listed twice, no contradiction about modules is listed twice.
LEMMA EntityOnce ==
  ASSUME input \in Inputs, FindingsDistinct, NEW x \in DOMAIN Excluding, NEW y \in DOMAIN Excluding,
         Sides(EntityConflicts[x]) = Sides(EntityConflicts[y])
  PROVE  x = y
<1>. DEFINE t == FlattenSeq(PairLists)
            at == {i \in DOMAIN t : Exclude(t[i])}
            ms == SetToSeq(Modules)
            n == Len(PairLists)
<1>1. t \in Seq(AllClaims \X AllClaims) /\ at \subseteq DOMAIN t /\ DOMAIN t \subseteq Nat
  BY PairListsAre
<1>2. Excluding = Entries(t, at)
  BY DEF Excluding, Having
<1>3. /\ PairLists \in Seq(Seq(AllClaims \X AllClaims)) /\ DOMAIN PairLists = DOMAIN ms
      /\ \A i \in DOMAIN PairLists : PairLists[i] = Pairs(ModuleClaims(ms[i]))
  BY PairListsAre
<1>4. ms \in Seq(Modules) /\ \A i, k \in DOMAIN ms : ms[i] = ms[k] => i = k
  BY DisputesAssumption, SetListed
<1>5. PICK q, w : Placed(PairLists, t, q, w, n)
  BY <1>3, FlattenedAt
<1>. HIDE DEF t, ms
<1>6. PICK p : InOrder(t, at, Excluding, p)
  <2>. HIDE DEF at
  <2>. QED
    BY <1>1, <1>2, EntriesInOrder
<1>7. ASSUME NEW z \in DOMAIN Excluding
      PROVE  /\ p[z] \in DOMAIN t /\ Excluding[z] = t[p[z]] /\ z \in Nat /\ p[z] \in Nat
             /\ q[p[z]] \in DOMAIN ms /\ w[p[z]] \in DOMAIN Pairs(ModuleClaims(ms[q[p[z]]]))
             /\ Excluding[z] = Pairs(ModuleClaims(ms[q[p[z]]]))[w[p[z]]]
             /\ ms[q[p[z]]] \in Modules
  <2>1. p[z] \in at /\ Excluding[z] = t[p[z]]
    BY <1>6 DEF InOrder
  <2>2. p[z] \in DOMAIN t /\ p[z] \in Nat
    BY <1>1, <2>1
  <2>3. q[p[z]] \in 1..n /\ w[p[z]] \in DOMAIN PairLists[q[p[z]]] /\ t[p[z]] = PairLists[q[p[z]]][w[p[z]]]
    BY <1>5, <2>2 DEF Placed
  <2>4. 1..n = DOMAIN PairLists
    BY <1>3
  <2>5. z \in Nat
    BY ExcludingIs
  <2>6. q[p[z]] \in DOMAIN ms /\ PairLists[q[p[z]]] = Pairs(ModuleClaims(ms[q[p[z]]]))
    BY <1>3, <2>3, <2>4
  <2>7. ms[q[p[z]]] \in Modules
    BY <1>4, <2>6, EntryOf
  <2>. QED
    BY <2>1, <2>2, <2>3, <2>5, <2>6, <2>7
<1>8. PICK m \in Modules : m = ms[q[p[x]]]
  BY <1>7
<1>9. PICK o \in Modules : o = ms[q[p[y]]]
  BY <1>7
<1>10. ASSUME NEW d \in Modules
       PROVE  ModuleClaims(d) \in Seq(ClaimsOf(d)) /\ \E u, v : PairedAt(ModuleClaims(d), Pairs(ModuleClaims(d)), u, v)
  <2>1. ModuleClaims(d) \in Seq(ClaimsOf(d))
    BY ClaimsInOrder
  <2>. QED
    BY <2>1, PairsAre
<1>11. PICK u, v : PairedAt(ModuleClaims(m), Pairs(ModuleClaims(m)), u, v)
  BY <1>10
<1>12. PICK f, g : PairedAt(ModuleClaims(o), Pairs(ModuleClaims(o)), f, g)
  BY <1>10
<1>. DEFINE a == w[p[x]]
            b == w[p[y]]
<1>13. a \in DOMAIN Pairs(ModuleClaims(m)) /\ Excluding[x] = Pairs(ModuleClaims(m))[a]
  BY <1>7, <1>8
<1>14. b \in DOMAIN Pairs(ModuleClaims(o)) /\ Excluding[y] = Pairs(ModuleClaims(o))[b]
  BY <1>7, <1>9
<1>. HIDE DEF a, b
<1>15. /\ u[a] \in DOMAIN ModuleClaims(m) /\ v[a] \in DOMAIN ModuleClaims(m) /\ u[a] < v[a]
       /\ Excluding[x] = <<ModuleClaims(m)[u[a]], ModuleClaims(m)[v[a]]>>
  BY <1>11, <1>13 DEF PairedAt
<1>16. /\ f[b] \in DOMAIN ModuleClaims(o) /\ g[b] \in DOMAIN ModuleClaims(o) /\ f[b] < g[b]
       /\ Excluding[y] = <<ModuleClaims(o)[f[b]], ModuleClaims(o)[g[b]]>>
  BY <1>12, <1>14 DEF PairedAt
<1>17. /\ Sides(EntityConflicts[x]) = <<ModuleClaims(m)[u[a]].id, ModuleClaims(m)[v[a]].id>>
       /\ ModuleClaims(m)[u[a]].id[3] = m
  BY <1>15, KeptPairs
<1>18. /\ Sides(EntityConflicts[y]) = <<ModuleClaims(o)[f[b]].id, ModuleClaims(o)[g[b]].id>>
       /\ ModuleClaims(o)[f[b]].id[3] = o
  BY <1>16, KeptPairs
<1>19. /\ ModuleClaims(m)[u[a]].id = ModuleClaims(o)[f[b]].id
       /\ ModuleClaims(m)[v[a]].id = ModuleClaims(o)[g[b]].id
  <2>1. Sides(EntityConflicts[x]) = Sides(EntityConflicts[y])
    OBVIOUS
  <2>2. ASSUME NEW c1, NEW c2, NEW e1, NEW e2, <<c1, c2>> = <<e1, e2>> PROVE c1 = e1 /\ c2 = e2
    BY <2>2
  <2>3. <<ModuleClaims(m)[u[a]].id, ModuleClaims(m)[v[a]].id>> =
          <<ModuleClaims(o)[f[b]].id, ModuleClaims(o)[g[b]].id>>
    BY <1>17, <1>18, <2>1
  <2>. QED
    BY <2>2, <2>3
<1>20. m = o
  BY <1>17, <1>18, <1>19
<1>21. q[p[x]] = q[p[y]]
  BY <1>4, <1>7, <1>8, <1>9, <1>20
<1>22. Excluding[y] = <<ModuleClaims(m)[u[b]], ModuleClaims(m)[v[b]]>>
       /\ b \in DOMAIN Pairs(ModuleClaims(m)) /\ u[b] \in DOMAIN ModuleClaims(m)
       /\ v[b] \in DOMAIN ModuleClaims(m) /\ u[b] < v[b]
  BY <1>11, <1>14, <1>20 DEF PairedAt
<1>23. /\ ModuleClaims(m)[u[b]] = ModuleClaims(m)[f[b]]
       /\ ModuleClaims(m)[v[b]] = ModuleClaims(m)[g[b]]
  BY <1>16, <1>20, <1>22
<1>24. u[a] = u[b] /\ v[a] = v[b]
  <2>1. /\ ModuleClaims(m)[u[a]].id = ModuleClaims(m)[u[b]].id
        /\ ModuleClaims(m)[v[a]].id = ModuleClaims(m)[v[b]].id
    BY <1>19, <1>20, <1>23
  <2>2. u[a] = u[b]
    BY <1>15, <1>22, <2>1, ClaimsDistinct
  <2>3. v[a] = v[b]
    BY <1>15, <1>22, <2>1, ClaimsDistinct
  <2>. QED
    BY <2>2, <2>3
<1>25. a = b
  BY <1>11, <1>13, <1>22, <1>24 DEF PairedAt
<1>26. p[x] = p[y]
  <2>1. p[x] \in DOMAIN t /\ p[y] \in DOMAIN t /\ w[p[x]] = w[p[y]]
    BY <1>7, <1>25 DEF a, b
  <2>. QED
    BY <1>5, <1>21, <2>1 DEF Placed
<1>27. \A k, l \in DOMAIN Excluding : k < l => p[k] < p[l]
  BY <1>6 DEF InOrder
<1>. QED
  BY <1>7, <1>26, <1>27

\* Detection over lists of claims finds the contradictions that conflicts.py
\* declares, each with its type, nothing else, and each once, if no finding is listed twice.
THEOREM ContradictionsAreFound == Spec => []ContradictionsFound
<1>1. RunInv => ContradictionsFound
  <2>. SUFFICES ASSUME RunInv, Detected PROVE ContradictionsFound
    BY DEF ContradictionsFound
  <2>1. input \in Inputs /\ conflicts = EntityConflicts \o ValueConflicts
    BY DEF RunInv
  <2>2. ASSUME NEW type \in {"dead_vs_active", "purpose_mismatch", "value_mismatch"}
        PROVE  {Sides(conflicts[i]) : i \in {k \in DOMAIN conflicts : conflicts[k].type = type}} =
                 CASE type = "dead_vs_active" -> DeadVsActive
                   [] type = "purpose_mismatch" -> PurposeMismatch
                   [] type = "value_mismatch" -> ValueMismatch
    <3>1. CASE type = "dead_vs_active"
      BY <2>1, <3>1, FoundByType
    <3>2. CASE type = "purpose_mismatch"
      BY <2>1, <3>2, FoundByType
    <3>3. CASE type = "value_mismatch"
      BY <2>1, <3>3, FoundByType
    <3>. QED
      BY <3>1, <3>2, <3>3
  <2>3. ASSUME NEW i \in DOMAIN conflicts, NEW k \in DOMAIN conflicts, FindingsDistinct,
               Sides(conflicts[i]) = Sides(conflicts[k]), i # k
        PROVE  conflicts[i].type = "value_mismatch"
    <3>. DEFINE e == Len(EntityConflicts)
                l == Len(ValueConflicts)
    <3>1. /\ DOMAIN conflicts = 1..(e + l)
          /\ \A j \in 1..e : conflicts[j] = EntityConflicts[j]
          /\ \A j \in 1..l : conflicts[e + j] = ValueConflicts[j]
      BY <2>1, ConflictsAre
    <3>2. /\ e \in Nat /\ l \in Nat /\ DOMAIN Excluding = 1..e
          /\ ToSet(ValueConflicts) = ValueSet /\ DOMAIN ValueConflicts = 1..l
      BY <2>1, EntityConflictsAre, ValueConflictsAre
    <3>. HIDE DEF e, l
    <3>3. \A q \in Clashing : /\ ValueConflict(q[1], q[2]).type = "value_mismatch"
                              /\ Sides(ValueConflict(q[1], q[2]))[1][1] = "rule"
      BY TypesOfConflicts
    <3>4. \A c \in ValueSet : c.type = "value_mismatch" /\ Sides(c)[1][1] = "rule"
      BY <3>3 DEF ValueSet
    <3>5. ASSUME NEW j \in DOMAIN conflicts, j > e PROVE conflicts[j] \in ValueSet
      <4>1. j - e \in 1..l /\ e + (j - e) = j
        BY <3>1, <3>2, <3>5
      <4>2. conflicts[j] = ValueConflicts[j - e]
        BY <3>1, <4>1
      <4>. QED
        BY <3>2, <4>1, <4>2 DEF ToSet
    <3>6. \A c \in DeadSet \cup PurposeSet : Sides(c)[1][1] # "rule"
      <4>1. \A q \in ActiveUncalled : Sides(DeadConflict(q[1], q[2]))[1][1] = "membership"
        BY TypesOfConflicts
      <4>2. \A q \in Differing : Sides(PurposeConflict(q[1], q[2]))[1][1] = "purpose"
        BY TypesOfConflicts
      <4>. QED
        BY <4>1, <4>2 DEF DeadSet, PurposeSet
    <3>7. ASSUME NEW j \in DOMAIN conflicts, j <= e
          PROVE  j \in 1..e /\ conflicts[j] = EntityConflicts[j] /\ Sides(conflicts[j])[1][1] # "rule"
      <4>1. j \in 1..e
        BY <3>1, <3>2, <3>7
      <4>2. EntityConflicts[j] \in ToSet(EntityConflicts)
        BY <2>1, <3>2, <4>1, EntityConflictsAre DEF ToSet
      <4>. QED
        BY <2>1, <3>1, <3>6, <4>1, <4>2, EntityConflictsAre
    <3>8. CASE i > e
      BY <3>4, <3>5, <3>8
    <3>9. CASE i <= e
      <4>1. k <= e
        <5>1. CASE k > e
          BY <2>3, <3>4, <3>5, <3>7, <3>9, <5>1
        <5>. QED
          BY <3>1, <3>2, <5>1
      <4>2. i \in DOMAIN Excluding /\ k \in DOMAIN Excluding
            /\ Sides(EntityConflicts[i]) = Sides(EntityConflicts[k])
        BY <2>3, <3>2, <3>7, <3>9, <4>1
      <4>3. i = k
        BY <2>1, <2>3, <4>2, EntityOnce
      <4>. QED
        BY <2>3, <4>3
    <3>. QED
      BY <3>1, <3>2, <3>8, <3>9
  <2>. QED
    BY <2>2, <2>3 DEF ContradictionsFound
<1>. QED
  BY <1>1, RunInvariant, PTL

(***************************************************************************)
(* What the scores and the statuses are                                    *)
(***************************************************************************)
\* A score is of its claim, and every rule has one.
LEMMA ScoresAre ==
  ASSUME RunInv
  PROVE  /\ \A d \in DOMAIN scores : scores[d] \in Scores /\ scores[d].id = d
         /\ HasScores => \A k \in DOMAIN input.rules :
              <<"rule", input.rules[k].id>> \in DOMAIN scores
<1>1. CASE ~HasScores
  <2>1. scores = <<>>
    BY <1>1 DEF RunInv
  <2>. QED
    BY <1>1, <2>1
<1>2. CASE HasScores
  <2>1. scores = ById(ConfidenceRecords) /\ input \in Inputs
    BY <1>2 DEF RunInv
  <2>2. /\ ConfidenceRecords \in Seq(Scores)
        /\ \A k \in DOMAIN input.rules : \E i \in DOMAIN ConfidenceRecords :
             ConfidenceRecords[i].id = <<"rule", input.rules[k].id>>
    BY <2>1, RecordsAre
  <2>3. /\ DOMAIN scores = {ConfidenceRecords[i].id : i \in DOMAIN ConfidenceRecords}
        /\ \A d \in DOMAIN scores : \E i \in DOMAIN ConfidenceRecords :
             ConfidenceRecords[i].id = d /\ scores[d] = ConfidenceRecords[i]
    <3>. DEFINE s == ConfidenceRecords
    <3>1. s \in Seq(Scores) /\ scores = ById(s)
      BY <2>1, <2>2
    <3>. HIDE DEF s
    <3>2. /\ DOMAIN ById(s) = {s[i].id : i \in DOMAIN s}
          /\ \A d \in DOMAIN ById(s) : \E i \in DOMAIN s :
               s[i].id = d /\ ById(s)[d] = s[i] /\ \A k \in DOMAIN s : s[k].id = d => k <= i
      BY <3>1, LastWins
    <3>3. /\ DOMAIN scores = {s[i].id : i \in DOMAIN s}
          /\ \A d \in DOMAIN scores : \E i \in DOMAIN s : s[i].id = d /\ scores[d] = s[i]
      BY <3>1, <3>2
    <3>. QED
      BY <3>3 DEF s
  <2>4. \A i \in DOMAIN ConfidenceRecords : ConfidenceRecords[i] \in Scores
    BY <2>2, EntryOf
  <2>5. \A d \in DOMAIN scores : scores[d] \in Scores /\ scores[d].id = d
    BY <2>3, <2>4
  <2>6. \A k \in DOMAIN input.rules : <<"rule", input.rules[k].id>> \in DOMAIN scores
    BY <2>2, <2>3
  <2>. QED
    BY <2>5, <2>6
<1>. QED
  BY <1>1, <1>2

\* A score tells the kind of its claim.
LEMMA ScoreKinds ==
  ASSUME NEW s \in Scores
  PROVE  /\ s.confidence \in Confidence
         /\ s.id[1] = "gap" => s.confidence \in 0..600
         /\ s.id[1] \in {"frd", "table"} => s.confidence \in 700..1000
         /\ s.id[1] = "rule" => s.confidence = RuleConfidence /\ s.method = "llm_inference"
         /\ s.id[1] # "field"
<1>1. CASE s \in GapScores
  <2>1. s.id[1] = "gap" /\ s.confidence \in 0..600
    BY <1>1 DEF GapScores
  <2>. QED
    BY <2>1 DEF Confidence
<1>2. CASE s \in ClusterScores
  <2>1. s.id[1] = "cluster" /\ s.confidence \in Confidence
    BY <1>2 DEF ClusterScores
  <2>. QED
    BY <2>1
<1>3. CASE s \in RuleScores
  <2>1. s.id[1] = "rule" /\ s.confidence = RuleConfidence /\ s.method = "llm_inference"
    BY <1>3 DEF RuleScores
  <2>. QED
    BY <2>1 DEF Confidence, RuleConfidence
<1>4. CASE s \in FrdScores
  <2>1. s.id[1] = "frd" /\ s.confidence \in 700..1000
    BY <1>4 DEF FrdScores
  <2>. QED
    BY <2>1 DEF Confidence
<1>5. CASE s \in TableScores
  <2>1. s.id[1] = "table" /\ s.confidence = 1000
    BY <1>5 DEF TableScores
  <2>. QED
    BY <2>1 DEF Confidence
<1>. QED
  BY <1>1, <1>2, <1>3, <1>4, <1>5 DEF Scores

\* A gap scores less than what scores 700.
LEMMA Apart == \A x \in 0..600, y \in 700..1000 : x <= 600 /\ x < y
OBVIOUS

\* Textual signals never outweigh what is read off the code.
THEOREM SignalsAreAdvisory == Spec => []SignalsStayAdvisory
<1>1. RunInv => SignalsStayAdvisory
  <2>. SUFFICES ASSUME RunInv, NEW d \in DOMAIN scores, NEW o \in DOMAIN scores, d[1] = "gap"
                PROVE  /\ scores[d].confidence <= 600
                       /\ o[1] \in {"frd", "table"} => scores[d].confidence < scores[o].confidence
    BY DEF SignalsStayAdvisory
  <2>1. scores[d] \in Scores /\ scores[d].id = d /\ scores[o] \in Scores /\ scores[o].id = o
    BY ScoresAre
  <2>2. scores[d].confidence \in 0..600
    BY <2>1, ScoreKinds
  <2>3. o[1] \in {"frd", "table"} => scores[o].confidence \in 700..1000
    BY <2>1, ScoreKinds
  <2>4. \A x \in 0..600, y \in 700..1000 : x <= 600 /\ x < y
    BY Apart
  <2>5. scores[d].confidence <= 600
    BY <2>2, <2>4
  <2>6. ASSUME o[1] \in {"frd", "table"} PROVE scores[d].confidence < scores[o].confidence
    <3>1. scores[o].confidence \in 700..1000
      BY <2>3, <2>6
    <3>2. PICK x \in 0..600 : x = scores[d].confidence
      BY <2>2
    <3>3. PICK y \in 700..1000 : y = scores[o].confidence
      BY <3>1
    <3>4. x < y
      BY <2>4
    <3>. QED
      BY <3>2, <3>3, <3>4
  <2>. QED
    BY <2>5, <2>6
<1>. QED
  BY <1>1, RunInvariant, PTL

\* The label of both sides of a conflict.
Outcome(c) ==
  IF Decided(ConfidenceOf(c.a), ConfidenceOf(c.b)) THEN "disputed_resolved"
  ELSE "unresolved_written_both"

\* The conflicts that a claim is a side of.
DisputesOf(d) == {i \in DOMAIN conflicts : d \in {conflicts[i].a.id, conflicts[i].b.id}}

\* The sides of a contradiction are two claims, and only one about values is about a rule.
LEMMA TwoSides ==
  /\ \A c \in DeadSet \cup PurposeSet \cup ValueSet : c.a.id # c.b.id
  /\ \A c \in DeadSet \cup PurposeSet : "rule" \notin {c.a.id[1], c.b.id[1]}
<1>1. ASSUME NEW c \in DeadSet PROVE c.a.id[1] = "membership" /\ c.b.id[1] = "reachability"
  BY <1>1 DEF DeadSet, DeadConflict, Conflict, MemberClaim, ReachClaim, Claim
<1>2. ASSUME NEW c \in PurposeSet PROVE c.a.id[1] = "purpose" /\ c.b.id[1] = "frd"
  BY <1>2 DEF PurposeSet, PurposeConflict, Conflict, PurposeClaim, FrdClaim, Claim
<1>3. ASSUME NEW c \in ValueSet PROVE c.a.id[1] = "rule" /\ c.b.id[1] = "field"
  BY <1>3 DEF ValueSet, ValueConflict, Conflict, RuleClaim, FieldClaim, Claim
<1>. QED
  BY <1>1, <1>2, <1>3

\* What auto_resolve_dispute_node appends: two entries for each conflict, in order.
LEMMA ResolutionsAre ==
  ASSUME RunInv, Detected
  PROVE  /\ Resolutions \in Seq(ToSet(Resolutions)) /\ Len(conflicts) \in Nat
         /\ DOMAIN conflicts = 1..Len(conflicts)
         /\ DOMAIN Resolutions = 1..(2 * Len(conflicts)) /\ Len(Resolutions) = 2 * Len(conflicts)
         /\ \A i \in DOMAIN conflicts :
              /\ Resolutions[2 * i - 1].id = conflicts[i].a.id
              /\ Resolutions[2 * i].id = conflicts[i].b.id
              /\ Resolutions[2 * i - 1].confidence = ConfidenceOf(conflicts[i].a)
              /\ Resolutions[2 * i].confidence = ConfidenceOf(conflicts[i].b)
              /\ Resolutions[2 * i - 1].status = Outcome(conflicts[i])
              /\ Resolutions[2 * i].status = Outcome(conflicts[i])
<1>. DEFINE seqs == [i \in DOMAIN conflicts |-> ResolveDispute(conflicts[i])]
            T == {ResolveDispute(c)[k] : c \in ToSet(conflicts), k \in 1..2}
            n == Len(conflicts)
            r == Resolutions
<1>1. n \in Nat /\ DOMAIN conflicts = 1..n /\ conflicts \in Seq(ToSet(conflicts))
  <2>1. input \in Inputs /\ conflicts = EntityConflicts \o ValueConflicts
    BY DEF RunInv
  <2>2. conflicts \in Seq(DeadSet \cup PurposeSet \cup ValueSet)
    BY <2>1, ConflictsAre
  <2>. QED
    BY <2>2 DEF ToSet
<1>2. ASSUME NEW c
      PROVE  /\ ResolveDispute(c) = <<ResolveDispute(c)[1], ResolveDispute(c)[2]>>
             /\ ResolveDispute(c)[1].id = c.a.id /\ ResolveDispute(c)[2].id = c.b.id
             /\ ResolveDispute(c)[1].confidence = ConfidenceOf(c.a)
             /\ ResolveDispute(c)[2].confidence = ConfidenceOf(c.b)
             /\ ResolveDispute(c)[1].status = Outcome(c) /\ ResolveDispute(c)[2].status = Outcome(c)
  BY DEF ResolveDispute, Resolved, Outcome
<1>3. ASSUME NEW i \in DOMAIN conflicts
      PROVE  seqs[i] \in Seq(T) /\ Len(seqs[i]) = 2
  <2>. DEFINE x == ResolveDispute(conflicts[i])[1]
              y == ResolveDispute(conflicts[i])[2]
  <2>1. x \in T /\ y \in T
    BY DEF ToSet
  <2>2. seqs[i] = <<x, y>>
    BY <1>2
  <2>. HIDE DEF x, y, seqs, T
  <2>. QED
    BY <2>1, <2>2
<1>4. r = FlattenSeq(seqs)
  BY DEF Resolutions
<1>5. seqs \in Seq(Seq(T)) /\ Len(seqs) = n /\ DOMAIN seqs = DOMAIN conflicts
  <2>1. seqs \in [DOMAIN conflicts -> Seq(T)]
    <3>1. seqs = [i \in DOMAIN conflicts |-> seqs[i]]
      OBVIOUS
    <3>. HIDE DEF seqs, T
    <3>. QED
      BY <1>3, <3>1
  <2>. HIDE DEF seqs, T
  <2>. QED
    BY <1>1, <2>1, EachOf
<1>6. \A i \in DOMAIN conflicts : seqs[i] = ResolveDispute(conflicts[i])
  OBVIOUS
<1>. HIDE DEF seqs, T, r, n
<1>7. /\ r \in Seq(T) /\ Len(r) = 2 * n
      /\ \A i \in DOMAIN seqs : r[2 * i - 1] = seqs[i][1] /\ r[2 * i] = seqs[i][2]
  BY <1>3, <1>4, <1>5, FlattenedTwos
<1>8. r \in Seq(ToSet(r)) /\ DOMAIN r = 1..(2 * n)
  BY <1>1, <1>7 DEF ToSet
<1>9. ASSUME NEW i \in DOMAIN conflicts
      PROVE  /\ r[2 * i - 1] = ResolveDispute(conflicts[i])[1]
             /\ r[2 * i] = ResolveDispute(conflicts[i])[2]
  BY <1>5, <1>6, <1>7
<1>10. ASSUME NEW i \in DOMAIN conflicts
       PROVE  /\ r[2 * i - 1].id = conflicts[i].a.id
              /\ r[2 * i].id = conflicts[i].b.id
              /\ r[2 * i - 1].confidence = ConfidenceOf(conflicts[i].a)
              /\ r[2 * i].confidence = ConfidenceOf(conflicts[i].b)
              /\ r[2 * i - 1].status = Outcome(conflicts[i])
              /\ r[2 * i].status = Outcome(conflicts[i])
  BY <1>2, <1>9
<1>. QED
  BY <1>1, <1>7, <1>8, <1>10 DEF r, n

\* Every position of a list of pairs is the first or the second of one.
LEMMA InPairs ==
  ASSUME NEW n \in Nat, NEW x \in 1..(2 * n)
  PROVE  \E i \in 1..n : x = 2 * i - 1 \/ x = 2 * i
<1>1. (x + 1) \div 2 \in 1..n /\ (x = 2 * ((x + 1) \div 2) - 1 \/ x = 2 * ((x + 1) \div 2))
  OBVIOUS
<1>. QED
  BY <1>1

\* The ids of these entries are the sides of the conflicts.
LEMMA ResolvedIds ==
  ASSUME RunInv, Detected
  PROVE  {r.id : r \in ToSet(Resolutions)} =
           UNION {{conflicts[i].a.id, conflicts[i].b.id} : i \in DOMAIN conflicts}
<1>. DEFINE r == Resolutions
            n == Len(conflicts)
<1>1. /\ n \in Nat /\ DOMAIN conflicts = 1..n /\ DOMAIN r = 1..(2 * n)
      /\ \A i \in DOMAIN conflicts : r[2 * i - 1].id = conflicts[i].a.id /\ r[2 * i].id = conflicts[i].b.id
  BY ResolutionsAre
<1>. HIDE DEF r, n
<1>2. ASSUME NEW x \in DOMAIN r
      PROVE  \E i \in DOMAIN conflicts : r[x].id \in {conflicts[i].a.id, conflicts[i].b.id}
  <2>1. PICK i \in 1..n : x = 2 * i - 1 \/ x = 2 * i
    BY <1>1, InPairs
  <2>. QED
    BY <1>1, <2>1
<1>3. ASSUME NEW i \in DOMAIN conflicts
      PROVE  \E x, y \in DOMAIN r : r[x].id = conflicts[i].a.id /\ r[y].id = conflicts[i].b.id
  <2>1. 2 * i - 1 \in DOMAIN r /\ 2 * i \in DOMAIN r
    BY <1>1
  <2>. QED
    BY <1>1, <2>1
<1>4. {x.id : x \in ToSet(r)} = {r[x].id : x \in DOMAIN r}
  BY DEF ToSet
<1>5. {r[x].id : x \in DOMAIN r} =
        UNION {{conflicts[i].a.id, conflicts[i].b.id} : i \in DOMAIN conflicts}
  BY <1>2, <1>3
<1>. QED
  BY <1>4, <1>5 DEF r

\* What accept_resolved_node appends: one entry for each other score.
LEMMA AcceptancesAre ==
  ASSUME RunInv, AllAccepted
  PROVE  /\ Acceptances \in Seq(ToSet(Acceptances)) /\ Len(Acceptances) \in Nat
         /\ DOMAIN Acceptances = 1..Len(Acceptances)
         /\ \A x \in DOMAIN Acceptances : /\ Acceptances[x].id \in Undisputed
                                          /\ Acceptances[x] = Accepted(scores[Acceptances[x].id])
         /\ \A x, y \in DOMAIN Acceptances : Acceptances[x].id = Acceptances[y].id => x = y
         /\ \A d \in Undisputed : \E x \in DOMAIN Acceptances : Acceptances[x].id = d
<1>. DEFINE u == SetToSeq(Undisputed)
            V == {Accepted(scores[d]) : d \in Undisputed}
            c == ConfidenceRecords
<1>1. scores = ById(c) /\ input \in Inputs
  BY DEF RunInv, AllAccepted, HasScores, Consolidated, Detected
<1>2. IsFiniteSet(Undisputed)
  <2>1. c \in Seq(Scores)
    BY <1>1, RecordsAre
  <2>. HIDE DEF c
  <2>2. DOMAIN scores = {c[i].id : i \in DOMAIN c}
    BY <1>1, <2>1, LastWins
  <2>. DEFINE f == [i \in 1..Len(c) |-> c[i].id]
  <2>3. Len(c) \in Nat /\ DOMAIN c = 1..Len(c)
    BY <2>1
  <2>4. DOMAIN f = 1..Len(c) /\ f = [i \in 1..Len(c) |-> f[i]]
    OBVIOUS
  <2>5. DOMAIN scores = {f[i] : i \in 1..Len(c)}
    BY <2>2, <2>3
  <2>. HIDE DEF f
  <2>6. IsFiniteSet({f[i] : i \in 1..Len(c)})
    BY <2>3, <2>4, ImageFinite
  <2>7. IsFiniteSet(DOMAIN scores)
    BY <2>5, <2>6
  <2>8. Undisputed \subseteq DOMAIN scores
    BY DEF Undisputed
  <2>. QED
    BY <2>7, <2>8, FS_Subset
<1>3. /\ u \in Seq(Undisputed)
      /\ \A i, j \in DOMAIN u : u[i] = u[j] => i = j
      /\ \A x \in Undisputed : \E i \in DOMAIN u : u[i] = x
  BY <1>2, SetListed
<1>4. Acceptances = [i \in DOMAIN u |-> Accepted(scores[u[i]])]
  BY DEF Acceptances
<1>5. ASSUME NEW d \in Undisputed PROVE Accepted(scores[d]).id = d
  <2>1. d \in DOMAIN scores
    BY DEF Undisputed
  <2>2. scores[d].id = d
    BY <2>1, ScoresAre
  <2>. QED
    BY <2>2 DEF Accepted, Resolved
<1>. HIDE DEF u
<1>6. \A i \in DOMAIN u : u[i] \in Undisputed
  BY <1>3, EntryOf
<1>7. Acceptances \in [DOMAIN u -> V]
  BY <1>4, <1>6
<1>8. \A i \in DOMAIN u : Acceptances[i] = Accepted(scores[u[i]]) /\ Acceptances[i].id = u[i]
  BY <1>4, <1>5, <1>6
<1>. HIDE DEF V
<1>. DEFINE a == Acceptances
<1>. HIDE DEF a
<1>9. a \in Seq(V) /\ DOMAIN a = DOMAIN u
  BY <1>3, <1>7, EachOf DEF a
<1>10. a \in Seq(ToSet(a)) /\ Len(a) \in Nat /\ DOMAIN a = 1..Len(a)
  BY <1>9 DEF ToSet
<1>11. \A x \in DOMAIN a : a[x].id = u[x] /\ a[x].id \in Undisputed /\ a[x] = Accepted(scores[a[x].id])
  BY <1>6, <1>8, <1>9 DEF a
<1>12. \A x, y \in DOMAIN a : a[x].id = a[y].id => x = y
  BY <1>3, <1>9, <1>11
<1>13. \A d \in Undisputed : \E x \in DOMAIN a : a[x].id = d
  BY <1>3, <1>9, <1>11
<1>. QED
  BY <1>10, <1>11, <1>12, <1>13 DEF a

\* The list of all entries: first the two of each conflict, then one of each other score.
LEMMA ResolvedAre ==
  ASSUME RunInv, AllAccepted
  PROVE  /\ resolved \in Seq(ToSet(resolved)) /\ Len(conflicts) \in Nat /\ Len(Acceptances) \in Nat
         /\ DOMAIN conflicts = 1..Len(conflicts) /\ DOMAIN Acceptances = 1..Len(Acceptances)
         /\ DOMAIN resolved = 1..(2 * Len(conflicts) + Len(Acceptances))
         /\ \A i \in DOMAIN conflicts :
              /\ resolved[2 * i - 1].id = conflicts[i].a.id
              /\ resolved[2 * i].id = conflicts[i].b.id
              /\ resolved[2 * i - 1].status = Outcome(conflicts[i])
              /\ resolved[2 * i].status = Outcome(conflicts[i])
         /\ \A x \in DOMAIN Acceptances : resolved[2 * Len(conflicts) + x] = Acceptances[x]
<1>. DEFINE r == Resolutions
            a == Acceptances
            n == Len(conflicts)
            T == ToSet(r) \cup ToSet(a)
<1>1. Detected /\ resolved = r \o a
  BY DEF RunInv, AllAccepted, Detected
<1>2. /\ r \in Seq(ToSet(r)) /\ n \in Nat /\ DOMAIN conflicts = 1..n
      /\ DOMAIN r = 1..(2 * n) /\ Len(r) = 2 * n
      /\ \A i \in DOMAIN conflicts :
           /\ r[2 * i - 1].id = conflicts[i].a.id /\ r[2 * i].id = conflicts[i].b.id
           /\ r[2 * i - 1].status = Outcome(conflicts[i]) /\ r[2 * i].status = Outcome(conflicts[i])
  BY <1>1, ResolutionsAre
<1>3. a \in Seq(ToSet(a)) /\ Len(a) \in Nat /\ DOMAIN a = 1..Len(a)
  BY AcceptancesAre
<1>. HIDE DEF r, a, n
<1>4. r \in Seq(T) /\ a \in Seq(T)
  BY <1>2, <1>3
<1>. HIDE DEF T
<1>5. /\ DOMAIN (r \o a) = 1..(Len(r) + Len(a))
      /\ \A i \in 1..Len(r) : (r \o a)[i] = r[i]
      /\ \A i \in 1..Len(a) : (r \o a)[Len(r) + i] = a[i]
  BY <1>4, JoinedAt
<1>6. r \o a \in Seq(T)
  BY <1>4
<1>7. resolved \in Seq(ToSet(resolved))
  <2>1. resolved \in Seq(T)
    BY <1>1, <1>6
  <2>. QED
    BY <2>1 DEF ToSet
<1>8. /\ DOMAIN resolved = 1..(2 * n + Len(a))
      /\ \A i \in 1..(2 * n) : resolved[i] = r[i]
      /\ \A i \in 1..Len(a) : resolved[2 * n + i] = a[i]
  <2>. DEFINE v == r \o a
  <2>1. resolved = v
    BY <1>1
  <2>2. /\ DOMAIN v = 1..(Len(r) + Len(a))
        /\ \A i \in 1..Len(r) : v[i] = r[i]
        /\ \A i \in 1..Len(a) : v[Len(r) + i] = a[i]
    BY <1>5
  <2>. HIDE DEF v
  <2>. QED
    BY <1>2, <2>1, <2>2
<1>9. ASSUME NEW i \in DOMAIN conflicts
      PROVE  resolved[2 * i - 1] = r[2 * i - 1] /\ resolved[2 * i] = r[2 * i]
  <2>1. 2 * i - 1 \in 1..(2 * n) /\ 2 * i \in 1..(2 * n)
    BY <1>2
  <2>. QED
    BY <1>8, <2>1
<1>10. ASSUME NEW i \in DOMAIN conflicts
       PROVE  /\ resolved[2 * i - 1].id = conflicts[i].a.id
              /\ resolved[2 * i].id = conflicts[i].b.id
              /\ resolved[2 * i - 1].status = Outcome(conflicts[i])
              /\ resolved[2 * i].status = Outcome(conflicts[i])
  BY <1>2, <1>9
<1>. QED
  BY <1>2, <1>3, <1>7, <1>8, <1>10 DEF a, n

\* An entry is of a conflict or of a score without one.
LEMMA EntryIs ==
  ASSUME RunInv, AllAccepted, NEW x \in DOMAIN resolved
  PROVE  \/ \E i \in DOMAIN conflicts :
              /\ x = 2 * i - 1 \/ x = 2 * i
              /\ resolved[x].status = Outcome(conflicts[i]) /\ i \in DisputesOf(resolved[x].id)
         \/ \E k \in DOMAIN Acceptances :
              /\ x = 2 * Len(conflicts) + k /\ resolved[x] = Acceptances[k]
              /\ resolved[x].id \in DOMAIN scores /\ DisputesOf(resolved[x].id) = {}
              /\ resolved[x] = Accepted(scores[resolved[x].id])
<1>. DEFINE n == Len(conflicts)
            m == Len(Acceptances)
<1>1. /\ n \in Nat /\ m \in Nat /\ DOMAIN conflicts = 1..n /\ DOMAIN Acceptances = 1..m
      /\ DOMAIN resolved = 1..(2 * n + m)
      /\ \A i \in DOMAIN conflicts :
           /\ resolved[2 * i - 1].id = conflicts[i].a.id /\ resolved[2 * i].id = conflicts[i].b.id
           /\ resolved[2 * i - 1].status = Outcome(conflicts[i])
           /\ resolved[2 * i].status = Outcome(conflicts[i])
      /\ \A k \in DOMAIN Acceptances : resolved[2 * n + k] = Acceptances[k]
  BY ResolvedAre
<1>. HIDE DEF n, m
<1>2. CASE x \in 1..(2 * n)
  <2>1. PICK i \in 1..n : x = 2 * i - 1 \/ x = 2 * i
    BY <1>1, <1>2, InPairs
  <2>2. resolved[x].status = Outcome(conflicts[i]) /\ i \in DisputesOf(resolved[x].id)
    BY <1>1, <2>1 DEF DisputesOf
  <2>. QED
    BY <1>1, <2>1, <2>2
<1>3. CASE x \notin 1..(2 * n)
  <2>1. x - 2 * n \in 1..m /\ x = 2 * n + (x - 2 * n)
    BY <1>1, <1>3
  <2>2. PICK k \in 1..m : x = 2 * n + k
    BY <2>1
  <2>3. resolved[x] = Acceptances[k] /\ k \in DOMAIN Acceptances
    BY <1>1, <2>2
  <2>4. Acceptances[k].id \in Undisputed /\ Acceptances[k] = Accepted(scores[Acceptances[k].id])
    BY <2>3, AcceptancesAre
  <2>5. Detected
    BY DEF AllAccepted, Detected
  <2>6. Acceptances[k].id \in DOMAIN scores /\ DisputesOf(Acceptances[k].id) = {}
    BY <2>4, <2>5, ResolvedIds DEF Undisputed, DisputesOf
  <2>. QED
    BY <2>2, <2>3, <2>4, <2>6 DEF n
<1>. QED
  BY <1>2, <1>3

\* What the last entry of a claim says of it.
LEMMA StatusIs ==
  ASSUME RunInv, AllAccepted, NEW d, NEW default
  PROVE  \/ \E i \in DisputesOf(d) : StatusOf(d, default) = Outcome(conflicts[i])
         \/ /\ DisputesOf(d) = {} /\ d \in DOMAIN scores
            /\ StatusOf(d, default) = Accepted(scores[d]).status
         \/ DisputesOf(d) = {} /\ d \notin DOMAIN scores /\ StatusOf(d, default) = default
<1>. DEFINE b == ById(resolved)
            s == resolved
<1>1. /\ DOMAIN b = {s[x].id : x \in DOMAIN s}
      /\ \A e \in DOMAIN b : \E x \in DOMAIN s : s[x].id = e /\ b[e] = s[x]
  <2>1. s \in Seq(ToSet(s))
    BY ResolvedAre
  <2>2. /\ DOMAIN ById(s) = {s[i].id : i \in DOMAIN s}
        /\ \A e \in DOMAIN ById(s) : \E i \in DOMAIN s :
             s[i].id = e /\ ById(s)[e] = s[i] /\ \A k \in DOMAIN s : s[k].id = e => k <= i
    BY <2>1, LastWins
  <2>. QED
    BY <2>2
<1>2. StatusOf(d, default) = IF d \in DOMAIN b THEN b[d].status ELSE default
  BY DEF StatusOf
<1>. HIDE DEF b
<1>3. CASE d \in DOMAIN b
  <2>1. PICK x \in DOMAIN resolved : resolved[x].id = d /\ b[d] = resolved[x]
    BY <1>1, <1>3
  <2>2. \/ \E i \in DOMAIN conflicts :
             resolved[x].status = Outcome(conflicts[i]) /\ i \in DisputesOf(d)
        \/ d \in DOMAIN scores /\ DisputesOf(d) = {} /\ resolved[x] = Accepted(scores[d])
    BY <2>1, EntryIs
  <2>. QED
    BY <1>2, <1>3, <2>1, <2>2
<1>4. CASE d \notin DOMAIN b
  <2>1. /\ Len(conflicts) \in Nat /\ Len(Acceptances) \in Nat
        /\ DOMAIN conflicts = 1..Len(conflicts) /\ DOMAIN Acceptances = 1..Len(Acceptances)
        /\ DOMAIN resolved = 1..(2 * Len(conflicts) + Len(Acceptances))
        /\ \A i \in DOMAIN conflicts :
             resolved[2 * i - 1].id = conflicts[i].a.id /\ resolved[2 * i].id = conflicts[i].b.id
        /\ \A x \in DOMAIN Acceptances : resolved[2 * Len(conflicts) + x] = Acceptances[x]
    BY ResolvedAre
  <2>2. \A x \in DOMAIN resolved : resolved[x].id # d
    BY <1>1, <1>4
  <2>3. DisputesOf(d) = {}
    <3>1. ASSUME NEW i \in DOMAIN conflicts PROVE d \notin {conflicts[i].a.id, conflicts[i].b.id}
      <4>1. 2 * i - 1 \in DOMAIN resolved /\ 2 * i \in DOMAIN resolved
        BY <2>1
      <4>. QED
        BY <2>1, <2>2, <4>1
    <3>. QED
      BY <3>1 DEF DisputesOf
  <2>4. d \notin DOMAIN scores
    <3>. SUFFICES ASSUME d \in DOMAIN scores PROVE FALSE
      OBVIOUS
    <3>1. Detected
      BY DEF AllAccepted, Detected
    <3>2. d \in Undisputed
      BY <2>3, <3>1, ResolvedIds DEF Undisputed, DisputesOf
    <3>3. PICK x \in DOMAIN Acceptances : Acceptances[x].id = d
      BY <3>2, AcceptancesAre
    <3>4. 2 * Len(conflicts) + x \in DOMAIN resolved
      BY <2>1
    <3>. QED
      BY <2>1, <2>2, <3>3, <3>4
  <2>. QED
    BY <1>2, <1>4, <2>3, <2>4
<1>. QED
  BY <1>3, <1>4

\* A conflict is recorded as it was resolved if its first claim is in no other.
THEOREM LoneDisputesAreRecorded == Spec => []LoneDisputesRecorded
<1>1. RunInv => LoneDisputesRecorded
  <2>. SUFFICES ASSUME RunInv, stage = "ready_for_query", NEW i \in DOMAIN conflicts,
                       \A k \in DOMAIN conflicts :
                         conflicts[i].a.id \in Range(Sides(conflicts[k])) => k = i
                PROVE  records[Sides(conflicts[i])].status = OwnResolution(conflicts[i])
    BY DEF LoneDisputesRecorded
  <2>. DEFINE s == [k \in DOMAIN conflicts |-> RecordOf(conflicts[k])]
              d == conflicts[i].a.id
  <2>1. AllAccepted /\ records = ById(s)
    BY DEF RunInv, AllAccepted
  <2>2. \A c : Range(Sides(c)) = {c.a.id, c.b.id}
    BY DEF Range, Sides
  <2>3. \A k \in DOMAIN conflicts : d \in {conflicts[k].a.id, conflicts[k].b.id} => k = i
    BY <2>2
  <2>4. \A k \in DOMAIN s : s[k] = RecordOf(conflicts[k]) /\ s[k].id = Sides(conflicts[k])
    BY DEF RecordOf
  <2>5. s \in Seq(ToSet(s)) /\ DOMAIN s = DOMAIN conflicts
    <3>1. Len(conflicts) \in Nat /\ DOMAIN conflicts = 1..Len(conflicts)
      BY <2>1, ResolvedAre
    <3>2. s = [k \in 1..Len(conflicts) |-> s[k]]
      BY <3>1
    <3>. HIDE DEF s
    <3>3. \A k \in 1..Len(conflicts) : s[k] \in ToSet(s)
      BY <3>2 DEF ToSet
    <3>4. DOMAIN s = 1..Len(conflicts)
      BY <3>2
    <3>. QED
      BY <3>1, <3>2, <3>3, <3>4, Arranged
  <2>. HIDE DEF s
  <2>6. PICK k \in DOMAIN s : s[k].id = Sides(conflicts[i]) /\ ById(s)[Sides(conflicts[i])] = s[k]
    <3>1. /\ DOMAIN ById(s) = {s[j].id : j \in DOMAIN s}
          /\ \A e \in DOMAIN ById(s) : \E j \in DOMAIN s :
               s[j].id = e /\ ById(s)[e] = s[j] /\ \A l \in DOMAIN s : s[l].id = e => l <= j
      BY <2>5, LastWins
    <3>2. Sides(conflicts[i]) \in DOMAIN ById(s)
      BY <2>4, <2>5, <3>1
    <3>. QED
      BY <3>1, <3>2
  <2>7. k = i
    <3>1. Sides(conflicts[k]) = Sides(conflicts[i])
      BY <2>4, <2>6
    <3>2. conflicts[k].a.id = d
      BY <3>1 DEF Sides
    <3>. QED
      BY <2>3, <2>5, <3>2
  <2>8. StatusOf(d, "unresolved_written_both") = Outcome(conflicts[i])
    <3>1. DisputesOf(d) = {i}
      BY <2>3 DEF DisputesOf
    <3>2. \/ \E j \in DisputesOf(d) : StatusOf(d, "unresolved_written_both") = Outcome(conflicts[j])
          \/ DisputesOf(d) = {}
      BY <2>1, StatusIs
    <3>. QED
      BY <3>1, <3>2
  <2>9. records[Sides(conflicts[i])] = RecordOf(conflicts[i])
    BY <2>1, <2>4, <2>5, <2>6, <2>7
  <2>. QED
    BY <2>8, <2>9 DEF RecordOf, Outcome, OwnResolution
<1>. QED
  BY <1>1, RunInvariant, PTL

\* A contradiction between a rule and a column is too close to decide.
LEMMA ValuesTooClose ==
  ASSUME RunInv, NEW c \in ValueSet
  PROVE  Outcome(c) = "unresolved_written_both"
<1>1. PICK q \in Clashing : c = ValueConflict(q[1], q[2])
  BY DEF ValueSet
<1>2. c.a = RuleClaim(q[1]) /\ c.b = FieldClaim(q[2])
  BY <1>1 DEF ValueConflict, Conflict
<1>3. ConfidenceOf(c.a) = 950
  <2>1. c.a.id[1] = "rule" /\ c.a.confidence = 950
    BY <1>2 DEF RuleClaim, Claim, RuleConfidence
  <2>2. c.a.id \in DOMAIN scores => scores[c.a.id].confidence = 950
    <3>. SUFFICES ASSUME c.a.id \in DOMAIN scores PROVE scores[c.a.id].confidence = 950
      OBVIOUS
    <3>1. scores[c.a.id] \in Scores /\ scores[c.a.id].id = c.a.id
      BY ScoresAre
    <3>2. scores[c.a.id].confidence = RuleConfidence
      BY <2>1, <3>1, ScoreKinds
    <3>. QED
      BY <3>2 DEF RuleConfidence
  <2>. QED
    BY <2>1, <2>2 DEF ConfidenceOf
<1>4. ConfidenceOf(c.b) = 1000
  <2>1. c.b.id[1] = "field" /\ c.b.confidence = 1000
    BY <1>2 DEF FieldClaim, Claim, FieldConfidence
  <2>2. c.b.id \notin DOMAIN scores
    <3>. SUFFICES ASSUME c.b.id \in DOMAIN scores PROVE FALSE
      OBVIOUS
    <3>1. scores[c.b.id] \in Scores /\ scores[c.b.id].id = c.b.id
      BY ScoresAre
    <3>. QED
      BY <2>1, <3>1, ScoreKinds
  <2>. QED
    BY <2>1, <2>2 DEF ConfidenceOf
<1>5. ~Decided(950, 1000)
  BY DEF Decided, Greatest, Least
<1>. QED
  BY <1>3, <1>4, <1>5 DEF Outcome

\* The status of a rule, by whether a column contradicts it.
LEMMA RuleStatus ==
  ASSUME RunInv, AllAccepted, NEW r \in {input.rules[k].id : k \in DOMAIN input.rules}, NEW default
  PROVE  /\ DisputesOf(<<"rule", r>>) # {} =>
              StatusOf(<<"rule", r>>, default) = "unresolved_written_both"
         /\ DisputesOf(<<"rule", r>>) = {} => StatusOf(<<"rule", r>>, default) = "inferred"
<1>. DEFINE d == <<"rule", r>>
<1>1. HasScores /\ d[1] = "rule"
  BY DEF AllAccepted, HasScores, Consolidated, Detected
<1>2. d \in DOMAIN scores
  BY <1>1, ScoresAre
<1>. HIDE DEF d
<1>3. scores[d] \in Scores /\ scores[d].id = d
  BY <1>2, ScoresAre
<1>4. scores[d].method = "llm_inference"
  BY <1>1, <1>3, ScoreKinds
<1>5. Accepted(scores[d]).status = "inferred"
  BY <1>4 DEF Accepted, Resolved
<1>6. ASSUME NEW i \in DisputesOf(d) PROVE Outcome(conflicts[i]) = "unresolved_written_both"
  <2>1. i \in DOMAIN conflicts /\ d \in {conflicts[i].a.id, conflicts[i].b.id}
    BY DEF DisputesOf
  <2>2. conflicts[i] \in DeadSet \cup PurposeSet \cup ValueSet
    <3>1. input \in Inputs /\ conflicts = EntityConflicts \o ValueConflicts
      BY DEF RunInv, AllAccepted, Detected
    <3>2. ToSet(conflicts) = DeadSet \cup PurposeSet \cup ValueSet
      BY <3>1, ConflictsAre
    <3>. QED
      BY <2>1, <3>2 DEF ToSet
  <2>3. conflicts[i] \in ValueSet
    BY <1>1, <2>1, <2>2, TwoSides
  <2>. QED
    BY <2>3, ValuesTooClose
<1>7. \/ \E i \in DisputesOf(d) : StatusOf(d, default) = Outcome(conflicts[i])
      \/ DisputesOf(d) = {} /\ StatusOf(d, default) = Accepted(scores[d]).status
  BY <1>2, StatusIs
<1>. QED
  BY <1>5, <1>6, <1>7 DEF d

\* A rule is a side of a conflict exactly if a column contradicts it.
LEMMA RuleDisputes ==
  ASSUME RunInv, Detected, NEW r
  PROVE  DisputesOf(<<"rule", r>>) # {} <=> \E c \in ValueSet : c.a.id[2] = r
<1>1. ToSet(conflicts) = DeadSet \cup PurposeSet \cup ValueSet
  <2>1. input \in Inputs /\ conflicts = EntityConflicts \o ValueConflicts
    BY DEF RunInv
  <2>. QED
    BY <2>1, ConflictsAre
<1>2. ASSUME NEW c \in ValueSet PROVE c.a.id = <<"rule", c.a.id[2]>> /\ c.b.id[1] = "field"
  BY DEF ValueSet, ValueConflict, Conflict, RuleClaim, FieldClaim, Claim
<1>3. ASSUME NEW i \in DisputesOf(<<"rule", r>>) PROVE \E c \in ValueSet : c.a.id[2] = r
  <2>1. i \in DOMAIN conflicts /\ <<"rule", r>> \in {conflicts[i].a.id, conflicts[i].b.id}
    BY DEF DisputesOf
  <2>2. conflicts[i] \in DeadSet \cup PurposeSet \cup ValueSet
    BY <1>1, <2>1 DEF ToSet
  <2>3. conflicts[i] \in ValueSet
    BY <2>1, <2>2, TwoSides
  <2>4. conflicts[i].a.id[2] = r
    BY <1>2, <2>1, <2>3
  <2>. QED
    BY <2>3, <2>4
<1>4. ASSUME NEW c \in ValueSet, c.a.id[2] = r PROVE DisputesOf(<<"rule", r>>) # {}
  <2>1. c \in ToSet(conflicts)
    BY <1>1
  <2>2. PICK i \in DOMAIN conflicts : conflicts[i] = c
    BY <2>1 DEF ToSet
  <2>3. conflicts[i].a.id = <<"rule", r>>
    BY <1>2, <1>4, <2>2
  <2>. QED
    BY <2>2, <2>3 DEF DisputesOf
<1>. QED
  BY <1>3, <1>4

\* The rule and the table that an edge is between.
EndsOf(c) == <<c.a.id[2], c.b.id[2]>>

\* The edges are those of the contradictions between rules and columns.
LEMMA EdgesAre ==
  ASSUME RunInv, GraphWritten
  PROVE  /\ DOMAIN edges = {EndsOf(c) : c \in ValueSet}
         /\ \A e \in DOMAIN edges : \E c \in ValueSet : edges[e] = EdgeOf(c)
<1>. DEFINE at == {i \in DOMAIN conflicts : conflicts[i].type = "value_mismatch"}
            v == ValueDisputes
            s == [i \in DOMAIN v |-> EdgeOf(v[i])]
<1>1. /\ input \in Inputs /\ conflicts = EntityConflicts \o ValueConflicts
      /\ edges = ById(s) /\ AllAccepted
  BY DEF RunInv, GraphWritten, AllAccepted, Detected
<1>2. /\ conflicts \in Seq(DeadSet \cup PurposeSet \cup ValueSet)
      /\ ToSet(conflicts) = DeadSet \cup PurposeSet \cup ValueSet
  BY <1>1, ConflictsAre
<1>3. v = Entries(conflicts, at)
  BY DEF ValueDisputes, Having
<1>4. /\ \A c \in DeadSet \cup PurposeSet : c.type # "value_mismatch"
      /\ \A c \in ValueSet : c.type = "value_mismatch"
  BY TypesOfConflicts DEF DeadSet, PurposeSet, ValueSet
<1>5. {conflicts[i] : i \in at} = ValueSet
  BY <1>2, <1>4 DEF ToSet
<1>6. v \in Seq(DeadSet \cup PurposeSet \cup ValueSet) /\ ToSet(v) = {conflicts[i] : i \in at}
  <2>. DEFINE T == DeadSet \cup PurposeSet \cup ValueSet
  <2>1. at \subseteq DOMAIN conflicts /\ conflicts \in Seq(T)
    BY <1>2
  <2>. HIDE DEF at, v, T
  <2>. QED
    <3>1. v \in Seq(T) /\ ToSet(v) = {conflicts[i] : i \in at}
      BY <1>3, <2>1, EntriesSet
    <3>. QED
      BY <3>1 DEF T
<1>. HIDE DEF at, v
<1>7. \A i \in DOMAIN s : s[i] = EdgeOf(v[i]) /\ v[i] \in ValueSet
  BY <1>5, <1>6 DEF ToSet
<1>8. DOMAIN s = DOMAIN v /\ Len(v) \in Nat /\ DOMAIN v = 1..Len(v)
  BY <1>6
<1>9. s \in Seq(ToSet(s))
  <2>1. s = [k \in 1..Len(v) |-> s[k]]
    BY <1>8
  <2>. HIDE DEF s
  <2>2. \A k \in 1..Len(v) : s[k] \in ToSet(s)
    BY <1>8 DEF ToSet
  <2>. QED
    BY <1>8, <2>1, <2>2, Arranged
<1>. HIDE DEF s
<1>10. /\ DOMAIN ById(s) = {s[i].id : i \in DOMAIN s}
       /\ \A e \in DOMAIN ById(s) : \E i \in DOMAIN s :
            s[i].id = e /\ ById(s)[e] = s[i] /\ \A k \in DOMAIN s : s[k].id = e => k <= i
  BY <1>9, LastWins
<1>11. \A c : EdgeOf(c).id = EndsOf(c)
  BY DEF EdgeOf, EndsOf
<1>12. ASSUME NEW c \in ValueSet PROVE \E i \in DOMAIN s : s[i].id = EndsOf(c)
  <2>1. PICK i \in DOMAIN v : v[i] = c
    BY <1>5, <1>6 DEF ToSet
  <2>. QED
    BY <1>7, <1>8, <1>11, <2>1
<1>13. ASSUME NEW i \in DOMAIN s PROVE \E c \in ValueSet : s[i].id = EndsOf(c)
  BY <1>7, <1>11
<1>14. DOMAIN edges = {EndsOf(c) : c \in ValueSet}
  <2>1. DOMAIN edges = {s[i].id : i \in DOMAIN s}
    BY <1>1, <1>10
  <2>. QED
    BY <1>12, <1>13, <2>1
<1>15. \A e \in DOMAIN edges : \E c \in ValueSet : edges[e] = EdgeOf(c)
  BY <1>1, <1>7, <1>10
<1>. QED
  BY <1>14, <1>15

\* A rule that a table contradicts is never shown as settled.
THEOREM ValueDisputesAreOpen == Spec => []ValueDisputesStayOpen
<1>1. RunInv => ValueDisputesStayOpen
  <2>. SUFFICES ASSUME RunInv, GraphWritten PROVE ValueDisputesStayOpen
    BY DEF ValueDisputesStayOpen
  <2>1. /\ AllAccepted /\ Detected /\ Consolidated /\ input \in Inputs
        /\ conflicts = EntityConflicts \o ValueConflicts
    BY DEF RunInv, GraphWritten, AllAccepted, Detected, Consolidated
  <2>2. /\ DOMAIN edges = {EndsOf(c) : c \in ValueSet}
        /\ \A e \in DOMAIN edges : \E c \in ValueSet : edges[e] = EdgeOf(c)
    BY EdgesAre
  <2>3. ValueMismatch = {Sides(c) : c \in ValueSet}
    <3>1. ValueMismatch = {<<<<"rule", q[1].id>>, <<"field", q[2].table, q[2].name>>>> : q \in Clashing}
      BY <2>1, ClashingIs DEF ValueMismatch
    <3>2. {Sides(c) : c \in ValueSet} = {Sides(ValueConflict(q[1], q[2])) : q \in Clashing}
      BY DEF ValueSet
    <3>3. \A q \in Clashing : Sides(ValueConflict(q[1], q[2])) =
                                <<<<"rule", q[1].id>>, <<"field", q[2].table, q[2].name>>>>
      BY TypesOfConflicts
    <3>. QED
      BY <3>1, <3>2, <3>3
  <2>4. DOMAIN edges = {<<v[1][2], v[2][2]>> : v \in ValueMismatch}
    <3>. DEFINE K(v) == <<v[1][2], v[2][2]>>
    <3>1. \A c : K(Sides(c)) = EndsOf(c)
      BY DEF Sides, EndsOf
    <3>2. {K(v) : v \in ValueMismatch} = {<<v[1][2], v[2][2]>> : v \in ValueMismatch}
      OBVIOUS
    <3>. HIDE DEF K
    <3>3. {K(v) : v \in ValueMismatch} = {EndsOf(c) : c \in ValueSet}
      BY <2>3, <3>1
    <3>. QED
      BY <2>2, <3>2, <3>3
  <2>5. ASSUME NEW c \in ValueSet
        PROVE  /\ c.a.id = <<"rule", c.a.id[2]>>
               /\ c.a.id[2] \in {input.rules[k].id : k \in DOMAIN input.rules}
    <3>1. PICK q \in Clashing : c = ValueConflict(q[1], q[2])
      BY DEF ValueSet
    <3>2. c.a.id = <<"rule", q[1].id>>
      BY <3>1 DEF ValueConflict, Conflict, RuleClaim, Claim
    <3>3. q[1] \in ToSet(input.rules)
      BY DEF Clashing
    <3>. QED
      BY <3>2, <3>3 DEF ToSet
  <2>6. ASSUME NEW e \in DOMAIN edges PROVE edges[e].status = "unresolved_written_both"
    <3>1. PICK c \in ValueSet : edges[e] = EdgeOf(c)
      BY <2>2
    <3>2. DisputesOf(<<"rule", c.a.id[2]>>) # {}
      BY <2>1, RuleDisputes
    <3>3. StatusOf(<<"rule", c.a.id[2]>>, "unresolved_written_both") = "unresolved_written_both"
      BY <2>1, <2>5, <3>2, RuleStatus
    <3>. QED
      BY <2>5, <3>1, <3>3 DEF EdgeOf
  <2>7. ASSUME NEW r \in DOMAIN rules
        PROVE  ruleNodes[r] = IF \E e \in DOMAIN edges : e[1] = r
                                THEN "unresolved_written_both" ELSE "inferred"
    <3>1. ruleNodes[r] = StatusOf(<<"rule", r>>, "confirmed")
      BY DEF RunInv
    <3>2. r \in {input.rules[k].id : k \in DOMAIN input.rules}
      <4>1. rules = ById(input.rules)
        BY <2>1 DEF RunInv
      <4>. QED
        BY <4>1 DEF ById
    <3>3. (\E e \in DOMAIN edges : e[1] = r) <=> \E c \in ValueSet : c.a.id[2] = r
      <4>1. \A c : EndsOf(c)[1] = c.a.id[2]
        BY DEF EndsOf
      <4>. QED
        BY <2>2, <4>1
    <3>4. (\E e \in DOMAIN edges : e[1] = r) <=> DisputesOf(<<"rule", r>>) # {}
      BY <2>1, <3>3, RuleDisputes
    <3>. QED
      BY <2>1, <3>1, <3>2, <3>4, RuleStatus
  <2>. QED
    BY <2>4, <2>6, <2>7 DEF ValueDisputesStayOpen
<1>. QED
  BY <1>1, RunInvariant, PTL

\* A claim has an entry for each conflict it is a side of.
LEMMA EntriesOfDisputed ==
  ASSUME RunInv, AllAccepted, NEW d, DisputesOf(d) # {}
  PROVE  LET at == {x \in DOMAIN resolved : resolved[x].id = d}
         IN  /\ Cardinality(at) = Cardinality(DisputesOf(d))
             /\ \A x \in at : resolved[x].status \in Disputed
<1>. DEFINE at == {x \in DOMAIN resolved : resolved[x].id = d}
            n == Len(conflicts)
            D == DisputesOf(d)
            f == [i \in D |-> IF conflicts[i].a.id = d THEN 2 * i - 1 ELSE 2 * i]
<1>1. /\ n \in Nat /\ Len(Acceptances) \in Nat /\ DOMAIN conflicts = 1..n
      /\ DOMAIN resolved = 1..(2 * n + Len(Acceptances))
      /\ \A i \in DOMAIN conflicts :
           resolved[2 * i - 1].id = conflicts[i].a.id /\ resolved[2 * i].id = conflicts[i].b.id
  BY ResolvedAre
<1>2. D \subseteq 1..n /\ \A i \in D : conflicts[i].a.id = d \/ conflicts[i].b.id = d
  BY <1>1 DEF DisputesOf
<1>3. \A i \in 1..n : conflicts[i].a.id # conflicts[i].b.id
  <2>1. input \in Inputs /\ conflicts = EntityConflicts \o ValueConflicts
    BY DEF RunInv, AllAccepted, Detected
  <2>2. ToSet(conflicts) = DeadSet \cup PurposeSet \cup ValueSet
    BY <2>1, ConflictsAre
  <2>3. \A i \in 1..n : conflicts[i] \in DeadSet \cup PurposeSet \cup ValueSet
    BY <1>1, <2>2 DEF ToSet
  <2>. QED
    BY <2>3, TwoSides
<1>4. ASSUME NEW x \in at
      PROVE  /\ resolved[x].status \in Disputed
             /\ \E i \in D : x = f[i]
  <2>1. x \in DOMAIN resolved /\ resolved[x].id = d
    OBVIOUS
  <2>2. PICK i \in DOMAIN conflicts :
          /\ x = 2 * i - 1 \/ x = 2 * i
          /\ resolved[x].status = Outcome(conflicts[i]) /\ i \in D
    BY <2>1, EntryIs
  <2>3. resolved[x].status \in Disputed
    BY <2>2 DEF Outcome, Disputed
  <2>4. CASE conflicts[i].a.id = d
    <3>1. x = 2 * i - 1
      BY <1>1, <1>3, <2>1, <2>2, <2>4
    <3>. QED
      BY <2>2, <2>3, <2>4, <3>1
  <2>5. CASE conflicts[i].a.id # d
    <3>1. x = 2 * i
      BY <1>1, <2>1, <2>2, <2>5
    <3>. QED
      BY <2>2, <2>3, <2>5, <3>1
  <2>. QED
    BY <2>4, <2>5
<1>5. ASSUME NEW i \in D PROVE f[i] \in at
  <2>1. i \in 1..n
    BY <1>2
  <2>2. 2 * i - 1 \in DOMAIN resolved /\ 2 * i \in DOMAIN resolved
    BY <1>1, <2>1
  <2>. QED
    BY <1>1, <1>2, <2>1, <2>2
<1>6. ASSUME NEW i \in D, NEW k \in D, f[i] = f[k] PROVE i = k
  <2>1. i \in 1..n /\ k \in 1..n /\ f[i] \in {2 * i - 1, 2 * i} /\ f[k] \in {2 * k - 1, 2 * k}
    BY <1>2
  <2>. HIDE DEF f
  <2>. QED
    BY <1>1, <1>6, <2>1
<1>7. f = [i \in D |-> f[i]] /\ DOMAIN f = D
  OBVIOUS
<1>. HIDE DEF f, at, D, n
<1>8. f \in [D -> at]
  BY <1>5, <1>7
<1>9. f \in Bijection(D, at)
  <2>1. f \in Injection(D, at)
    BY <1>6, <1>8 DEF Injection, IsInjective
  <2>2. f \in Surjection(D, at)
    BY <1>4, <1>8 DEF Surjection
  <2>. QED
    BY <2>1, <2>2 DEF Bijection
<1>10. IsFiniteSet(D)
  BY <1>1, <1>2, BoundedFinite
<1>11. ExistsBijection(D, at)
  BY <1>9 DEF ExistsBijection
<1>12. Cardinality(at) = Cardinality(D)
  BY <1>10, <1>11, FS_Bijection
<1>. QED
  BY <1>4, <1>12 DEF at, D

\* No side of a contradiction is silently overwritten, and no bystander is labelled.
THEOREM ClaimsAreLabelled == Spec => []EveryClaimLabelled
<1>1. RunInv => EveryClaimLabelled
  <2>. SUFFICES ASSUME RunInv, AllAccepted PROVE EveryClaimLabelled
    BY DEF EveryClaimLabelled
  <2>. DEFINE at(d) == {x \in DOMAIN resolved : resolved[x].id = d}
              entries(d) == Entries(resolved, at(d))
  <2>1. ASSUME NEW d
        PROVE  /\ entries(d) \in Seq(ToSet(resolved)) /\ Len(entries(d)) = Cardinality(at(d))
               /\ ToSet(entries(d)) = {resolved[x] : x \in at(d)}
    <3>1. resolved \in Seq(ToSet(resolved)) /\ at(d) \subseteq DOMAIN resolved
      BY ResolvedAre
    <3>. QED
      BY <3>1, EntriesSet
  <2>2. ASSUME NEW d, DisputesOf(d) # {}
        PROVE  /\ Len(entries(d)) = Cardinality(DisputesOf(d))
               /\ \A i \in DOMAIN entries(d) : entries(d)[i].status \in Disputed
    <3>1. Cardinality(at(d)) = Cardinality(DisputesOf(d)) /\ \A x \in at(d) : resolved[x].status \in Disputed
      BY <2>2, EntriesOfDisputed
    <3>. HIDE DEF at, entries
    <3>2. ASSUME NEW i \in DOMAIN entries(d) PROVE entries(d)[i].status \in Disputed
      <4>1. entries(d)[i] \in ToSet(entries(d))
        BY DEF ToSet
      <4>2. PICK x \in at(d) : entries(d)[i] = resolved[x]
        BY <2>1, <4>1
      <4>. QED
        BY <3>1, <4>2
    <3>. QED
      BY <2>1, <3>1, <3>2
  <2>3. ASSUME NEW d \in DOMAIN scores, DisputesOf(d) = {}
        PROVE  entries(d) = <<Accepted(scores[d])>>
    <3>1. /\ Len(conflicts) \in Nat /\ DOMAIN Acceptances = 1..Len(Acceptances)
          /\ Len(Acceptances) \in Nat
          /\ DOMAIN resolved = 1..(2 * Len(conflicts) + Len(Acceptances))
          /\ \A x \in DOMAIN Acceptances : resolved[2 * Len(conflicts) + x] = Acceptances[x]
      BY ResolvedAre
    <3>2. d \in Undisputed
      <4>1. Detected
        BY DEF AllAccepted, Detected
      <4>. QED
        BY <2>3, <4>1, ResolvedIds DEF Undisputed, DisputesOf
    <3>3. PICK k \in DOMAIN Acceptances : Acceptances[k].id = d
      BY <3>2, AcceptancesAre
    <3>. DEFINE y == 2 * Len(conflicts) + k
    <3>4. y \in at(d)
      BY <3>1, <3>3
    <3>5. ASSUME NEW x \in at(d) PROVE x = y /\ resolved[x] = Accepted(scores[d])
      <4>1. x \in DOMAIN resolved /\ resolved[x].id = d
        OBVIOUS
      <4>2. PICK l \in DOMAIN Acceptances :
              x = 2 * Len(conflicts) + l /\ resolved[x] = Acceptances[l] /\ resolved[x] = Accepted(scores[d])
        BY <2>3, <4>1, EntryIs
      <4>3. l = k
        BY <3>3, <4>1, <4>2, AcceptancesAre
      <4>. QED
        BY <4>2, <4>3
    <3>6. at(d) = {y}
      BY <3>4, <3>5
    <3>7. Len(entries(d)) = 1 /\ ToSet(entries(d)) = {Accepted(scores[d])}
      <4>. HIDE DEF at, entries, y
      <4>1. Cardinality(at(d)) = 1
        BY <3>6, FS_Singleton
      <4>2. {resolved[x] : x \in at(d)} = {Accepted(scores[d])}
        BY <3>4, <3>5
      <4>. QED
        BY <2>1, <4>1, <4>2
    <3>. DEFINE e == entries(d)
    <3>8. e \in Seq(ToSet(resolved)) /\ Len(e) = 1 /\ ToSet(e) = {Accepted(scores[d])}
      BY <2>1, <3>7
    <3>. HIDE DEF e
    <3>9. e[1] = Accepted(scores[d])
      <4>1. 1 \in DOMAIN e
        BY <3>8
      <4>. QED
        BY <3>8, <4>1 DEF ToSet
    <3>10. e = <<Accepted(scores[d])>>
      BY <3>8, <3>9
    <3>. QED
      BY <3>10 DEF e
  <2>4. \A d \in UNION {{conflicts[i].a.id, conflicts[i].b.id} : i \in DOMAIN conflicts} :
          DisputesOf(d) # {}
    BY DEF DisputesOf
  <2>. HIDE DEF entries
  <2>. DEFINE ids == DOMAIN scores
                \cup UNION {{conflicts[i].a.id, conflicts[i].b.id} : i \in DOMAIN conflicts}
  <2>5. ASSUME NEW d \in ids
        PROVE  IF DisputesOf(d) # {}
                 THEN /\ Len(entries(d)) = Cardinality(DisputesOf(d))
                      /\ \A i \in DOMAIN entries(d) : entries(d)[i].status \in Disputed
                 ELSE entries(d) = <<Accepted(scores[d])>>
    <3>1. DisputesOf(d) = {} => d \in DOMAIN scores
      BY <2>4
    <3>. QED
      BY <2>2, <2>3, <3>1
  <2>6. EveryClaimLabelled <=>
          \A d \in ids :
            IF DisputesOf(d) # {}
              THEN /\ Len(entries(d)) = Cardinality(DisputesOf(d))
                   /\ \A i \in DOMAIN entries(d) : entries(d)[i].status \in Disputed
              ELSE entries(d) = <<Accepted(scores[d])>>
    BY DEF EveryClaimLabelled, Having, DisputesOf, entries, at
  <2>. QED
    BY <2>5, <2>6
<1>. QED
  BY <1>1, RunInvariant, PTL

\* The two sides of a conflict are weighed by probabilities.
LEMMA ProbableSides ==
  ASSUME RunInv, NEW c \in DeadSet \cup PurposeSet \cup ValueSet
  PROVE  ConfidenceOf(c.a) \in Confidence /\ ConfidenceOf(c.b) \in Confidence
<1>1. input \in Inputs
  BY DEF RunInv
<1>2. \A d \in ToSet(input.clusters) : d.confidence \in Confidence
  <2>1. ToSet(input.clusters) \subseteq Capabilities
    BY <1>1, InputLists DEF ToSet
  <2>. QED
    BY <2>1 DEF Capabilities
<1>3. 850 \in Confidence /\ RuleConfidence \in Confidence /\ FieldConfidence \in Confidence
      /\ \A f : FrdConfidence(f) \in Confidence
  BY DEF Confidence, RuleConfidence, FieldConfidence, FrdConfidence
<1>4. CASE c \in DeadSet
  <2>1. PICK q \in ActiveUncalled : c = DeadConflict(q[1], q[2])
    BY <1>4 DEF DeadSet
  <2>2. q[1] \in ToSet(input.clusters)
    BY DEF ActiveUncalled
  <2>3. c.a.confidence = q[1].confidence /\ c.b.confidence = 850
    BY <2>1 DEF DeadConflict, Conflict, MemberClaim, ReachClaim, Claim
  <2>. QED
    BY <1>2, <1>3, <2>2, <2>3, ScoresAre, ScoreKinds DEF ConfidenceOf
<1>5. CASE c \in PurposeSet
  <2>1. PICK q \in Differing : c = PurposeConflict(q[1], q[2])
    BY <1>5 DEF PurposeSet
  <2>2. q[1] \in ToSet(input.clusters)
    BY DEF Differing
  <2>3. c.a.confidence = q[1].confidence /\ c.b.confidence = FrdConfidence(q[2])
    BY <2>1 DEF PurposeConflict, Conflict, PurposeClaim, FrdClaim, Claim
  <2>. QED
    BY <1>2, <1>3, <2>2, <2>3, ScoresAre, ScoreKinds DEF ConfidenceOf
<1>6. CASE c \in ValueSet
  <2>1. PICK q \in Clashing : c = ValueConflict(q[1], q[2])
    BY <1>6 DEF ValueSet
  <2>2. c.a.confidence = RuleConfidence /\ c.b.confidence = FieldConfidence
    BY <2>1 DEF ValueConflict, Conflict, RuleClaim, FieldClaim, Claim
  <2>. QED
    BY <1>3, <2>2, ScoresAre, ScoreKinds DEF ConfidenceOf
<1>. QED
  BY <1>4, <1>5, <1>6

\* Every entry has a probability and a label the schema knows.
LEMMA LabelsKnown ==
  ASSUME RunInv, NEW x \in DOMAIN resolved
  PROVE  /\ resolved[x].confidence \in Confidence
         /\ resolved[x].status \in Disputed \cup {"confirmed", "inferred"}
<1>. DEFINE Known(r) == r.confidence \in Confidence /\ r.status \in Disputed \cup {"confirmed", "inferred"}
            n == Len(conflicts)
<1>1. HasResolved /\ Detected
  <2>1. HasResolved
    BY DEF RunInv
  <2>. QED
    BY <2>1 DEF HasResolved, AllAccepted, Detected
<1>2. /\ n \in Nat /\ DOMAIN conflicts = 1..n /\ DOMAIN Resolutions = 1..(2 * n)
      /\ Len(Resolutions) = 2 * n
      /\ \A i \in DOMAIN conflicts :
           /\ Resolutions[2 * i - 1].confidence = ConfidenceOf(conflicts[i].a)
           /\ Resolutions[2 * i].confidence = ConfidenceOf(conflicts[i].b)
           /\ Resolutions[2 * i - 1].status = Outcome(conflicts[i])
           /\ Resolutions[2 * i].status = Outcome(conflicts[i])
  BY <1>1, ResolutionsAre
<1>3. \A i \in DOMAIN conflicts : conflicts[i] \in DeadSet \cup PurposeSet \cup ValueSet
  <2>1. input \in Inputs /\ conflicts = EntityConflicts \o ValueConflicts
    BY <1>1 DEF RunInv
  <2>2. ToSet(conflicts) = DeadSet \cup PurposeSet \cup ValueSet
    BY <2>1, ConflictsAre
  <2>. QED
    BY <2>2 DEF ToSet
<1>. HIDE DEF n
<1>4. ASSUME NEW y \in DOMAIN Resolutions PROVE Known(Resolutions[y])
  <2>1. PICK i \in 1..n : y = 2 * i - 1 \/ y = 2 * i
    BY <1>2, InPairs
  <2>2. /\ ConfidenceOf(conflicts[i].a) \in Confidence /\ ConfidenceOf(conflicts[i].b) \in Confidence
        /\ Outcome(conflicts[i]) \in Disputed
    BY <1>2, <1>3, ProbableSides DEF Outcome, Disputed
  <2>. QED
    BY <1>2, <2>1, <2>2
<1>5. CASE stage = "accept_resolved"
  <2>1. resolved = Resolutions
    BY <1>5 DEF RunInv
  <2>. QED
    BY <1>4, <2>1
<1>6. CASE AllAccepted
  <2>1. CASE \E i \in DOMAIN conflicts : x = 2 * i - 1 \/ x = 2 * i
    <3>1. PICK i \in DOMAIN conflicts : x = 2 * i - 1 \/ x = 2 * i
      BY <2>1
    <3>2. x \in 1..(2 * n)
      BY <1>2, <3>1
    <3>3. resolved[x] = Resolutions[x]
      <4>. DEFINE r == Resolutions
                  a == Acceptances
      <4>1. resolved = r \o a /\ r \in Seq(ToSet(r)) /\ a \in Seq(ToSet(a)) /\ Len(r) = 2 * n
        BY <1>1, <1>2, <1>6, ResolutionsAre, AcceptancesAre DEF RunInv
      <4>. HIDE DEF r, a
      <4>2. (r \o a)[x] = r[x]
        BY <3>2, <4>1
      <4>. QED
        BY <4>1, <4>2 DEF r
    <3>. QED
      BY <1>2, <1>4, <3>2, <3>3
  <2>2. CASE resolved[x].id \in DOMAIN scores /\ resolved[x] = Accepted(scores[resolved[x].id])
    <3>1. scores[resolved[x].id].confidence \in Confidence
      BY <2>2, ScoresAre, ScoreKinds
    <3>2. resolved[x].confidence = scores[resolved[x].id].confidence
          /\ resolved[x].status \in {"confirmed", "inferred"}
      <4>. DEFINE s == scores[resolved[x].id]
      <4>1. resolved[x] = Accepted(s)
        BY <2>2
      <4>. HIDE DEF s
      <4>2. resolved[x].confidence = s.confidence /\ resolved[x].status \in {"confirmed", "inferred"}
        BY <4>1 DEF Accepted, Resolved
      <4>. QED
        BY <4>2 DEF s
    <3>. QED
      BY <3>1, <3>2
  <2>. QED
    BY <1>6, <2>1, <2>2, EntryIs
<1>. QED
  BY <1>1, <1>5, <1>6 DEF HasResolved

\* Scores are probabilities, and every label is one the schema knows.
THEOREM TypeCorrect == Spec => []TypeOK
<1>1. RunInv => TypeOK
  <2>. SUFFICES ASSUME RunInv PROVE TypeOK
    OBVIOUS
  <2>1. input \in Inputs /\ InputType(input)
    BY DisputesAssumption DEF RunInv
  <2>2. DOMAIN rules \subseteq {r.id : r \in ToSet(input.rules)}
    <3>1. rules = ById(input.rules) \/ DOMAIN rules = {}
      BY DEF RunInv
    <3>2. DOMAIN ById(input.rules) = {input.rules[i].id : i \in DOMAIN input.rules}
      BY DEF ById
    <3>. QED
      BY <3>1, <3>2 DEF ToSet
  <2>3. \A d \in DOMAIN scores : scores[d].confidence \in Confidence
    BY ScoresAre, ScoreKinds
  <2>4. \A x \in DOMAIN resolved : /\ resolved[x].confidence \in Confidence
                                   /\ resolved[x].status \in Disputed \cup {"confirmed", "inferred"}
    BY LabelsKnown
  <2>5. \A r \in DOMAIN records : records[r].status \in {"auto_resolved", "unresolved_written_both"}
    <3>1. CASE stage = "ready_for_query"
      <4>. DEFINE s == [i \in DOMAIN conflicts |-> RecordOf(conflicts[i])]
      <4>1. records = ById(s) /\ AllAccepted
        BY <3>1 DEF RunInv, AllAccepted
      <4>2. \A i \in DOMAIN s : s[i].status \in {"auto_resolved", "unresolved_written_both"}
        BY DEF RecordOf
      <4>3. Len(conflicts) \in Nat /\ DOMAIN conflicts = 1..Len(conflicts)
        BY <4>1, ResolvedAre
      <4>4. s = [k \in 1..Len(conflicts) |-> s[k]] /\ DOMAIN s = 1..Len(conflicts)
        BY <4>3
      <4>. HIDE DEF s
      <4>5. \A k \in 1..Len(conflicts) : s[k] \in ToSet(s)
        BY <4>4 DEF ToSet
      <4>6. s \in Seq(ToSet(s))
        BY <4>3, <4>4, <4>5, Arranged
      <4>7. \A e \in DOMAIN ById(s) : \E i \in DOMAIN s :
              s[i].id = e /\ ById(s)[e] = s[i] /\ \A k \in DOMAIN s : s[k].id = e => k <= i
        BY <4>6, LastWins
      <4>. QED
        BY <4>1, <4>2, <4>7
    <3>2. CASE stage # "ready_for_query"
      <4>1. DOMAIN records = {}
        BY <3>2 DEF RunInv
      <4>. QED
        BY <4>1
    <3>. QED
      BY <3>1, <3>2
  <2>. QED
    BY <2>1, <2>2, <2>3, <2>4, <2>5 DEF TypeOK
<1>. QED
  BY <1>1, RunInvariant, PTL
===============================================================================
