----------------------------- MODULE MCDisputes ------------------------------
(***************************************************************************)
(* Small instances of Disputes for TLC.                                    *)
(***************************************************************************)
EXTENDS Disputes, TLC

CONSTANTS m1, m2

MCModules == {m1, m2}
MCTexts == SUBSET {"loan", "audit"}
MCWords == {"rate", "limit"}
MCValues == {10, 20}

Cluster(name, members, confidence, cohesion, traced) ==
  [name |-> name, members |-> members, confidence |-> confidence,
   cohesion |-> cohesion, traced |-> traced]
Frd(function, module, text, tested) ==
  [function |-> function, module |-> module, text |-> text, tested |-> tested]
Nothing ==
  [clusters |-> <<>>, symbols |-> [m \in MCModules |-> "none"], frds |-> <<>>,
   rules |-> <<>>, fields |-> <<>>, gaps |-> <<>>]

\* Claims about modules: one capability over both or two over one each, of all
\* confidences around the margins, and two functions; or a capability, or a
\* function, that is listed twice.
ClusterLists ==
  {<<Cluster({"loan"}, ms, c, 500, FALSE)>> : ms \in SUBSET MCModules, c \in {550, 700, 750, 950}}
  \cup {<<Cluster({"loan"}, {m1}, c, 500, FALSE), Cluster(n, {m2}, 950, 500, FALSE)>> :
          c \in {550, 750}, n \in {{"loan"}, {"loan", "audit"}, {}}}
  \cup {[i \in 1..2 |-> Cluster({"loan"}, {m1}, 750, 500, FALSE)]}
FrdLists ==
  {<<Frd(1, m1, t, tested), Frd(2, m, u, TRUE)>> :
     t \in MCTexts, tested \in BOOLEAN, m \in MCModules, u \in {{"audit"}, {"loan"}}}
  \cup {<<Frd(1, m1, {"audit"}, TRUE), Frd(1, m1, {"audit"}, FALSE)>>}
  \cup {<<>>}
ModuleInputs ==
  {[Nothing EXCEPT !.clusters = cs, !.symbols = sy, !.frds = fs] :
     cs \in ClusterLists, fs \in FrdLists,
     sy \in [MCModules -> {"called", "uncalled", "none"}]}

\* Two rules, perhaps with one id, and two fields of one table or two.
Rules == [id : {1, 2}, words : {{}, {"rate"}, MCWords}, value : MCValues]
Fields == [table : {1, 2}, name : {1}, words : {{"rate"}, {"limit"}},
           default : MCValues \cup {NoDefault}]
ValueInputs ==
  {[Nothing EXCEPT !.rules = <<r, s>>, !.fields = <<f, [g EXCEPT !.name = 2]>>] :
     r, s \in Rules, f, g \in Fields}

\* Every number of signals and kinds around the caps; traced capabilities.
ScoreInputs ==
  {[Nothing EXCEPT !.gaps = <<[corner |-> 1, signals |-> n, kinds |-> k]>>,
      !.clusters = <<Cluster({"loan"}, {m1}, c, h, traced)>>,
      !.frds = <<Frd(1, m1, {}, tested)>>] :
     n \in 0..11, k \in 0..4, c, h \in {0, 500, 1000}, traced, tested \in BOOLEAN}

MCInputs == ModuleInputs \cup ValueInputs \cup ScoreInputs

\* One capability in one module with two described functions.
TwoDisputes ==
  {[Nothing EXCEPT !.clusters = <<Cluster({"loan"}, {m1}, c, 500, FALSE)>>,
      !.frds = <<Frd(1, m1, {"audit"}, p), Frd(2, m1, {"audit"}, q)>>] :
     c \in {300, 750}, p, q \in BOOLEAN}
=============================================================================
