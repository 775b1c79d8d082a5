------------------------------ MODULE Migration ------------------------------
(***************************************************************************)
(* What the two Modernize flows compute. Migration regenerates a project:   *)
(* its graph facts become units, its manifests a dependency mapping, and a  *)
(* model writes files unit by unit. Enhancement patches the files that the  *)
(* graph relates to a request. What the model answers is an input.          *)
(*   facts: [capabilities, services : sequences of [id, files], infra, disk :*)
(*           sets of paths, fields : path -> response fields, deps : sequence *)
(*           of [name, eco]]                                                *)
(*   reply: [same : is the target the current language, mappings : set of   *)
(*           [name, target, eco], files : unit id -> set of [path, kept]]    *)
(***************************************************************************)
EXTENDS Naturals, Sequences, FiniteSets, Functions

CONSTANTS Registry,    \* <<ecosystem, package>> that PyPI and npm have
          GraphNodes,  \* of all repositories: [repo, about, files, name, widens]
          UnitLimit    \* _UNIT_LIMIT: response fields a unit knows at most

ASSUME MigrationAssumption ==
  /\ \A n \in GraphNodes : DOMAIN n = {"repo", "about", "files", "name", "widens"}
  /\ UnitLimit \in Nat

(***************************************************************************)
(* Units                                                                   *)
(***************************************************************************)
\* extract_response_field_names: beyond the limit some are cut off (the last of the alphabet).
ResponseFields(facts, files) ==
  LET found == UNION {facts.fields[f] : f \in files \cap DOMAIN facts.fields}
  IN  IF Cardinality(found) <= UnitLimit THEN found
      ELSE CHOOSE fields \in SUBSET found : Cardinality(fields) = UnitLimit

Unit(id, type, fields) == [id |-> id, type |-> type, fields |-> fields]
UnitsOf(type, groups, facts) ==
  [i \in DOMAIN groups |-> Unit(groups[i].id, type, ResponseFields(facts, groups[i].files))]

\* One unit per capability, else per service, else one for the project.
BuildMigrationUnits(facts) ==
  IF facts.capabilities # <<>> THEN UnitsOf("capability", facts.capabilities, facts)
  ELSE IF facts.services # <<>> THEN UnitsOf("service", facts.services, facts)
  ELSE <<Unit("project", "project", {})>>

GatherUnits(facts) ==
  BuildMigrationUnits(facts) \o IF facts.infra = {} THEN <<>> ELSE <<Unit("infra", "infra", {})>>

(***************************************************************************)
(* Dependencies                                                            *)
(***************************************************************************)
Names(deps) == {deps[i].name : i \in DOMAIN deps}

\* by_name: of several declarations of a name, in several manifests, the last.
ByName(deps, name) ==
  deps[CHOOSE i \in DOMAIN deps : deps[i].name = name /\ \A j \in DOMAIN deps : deps[j].name = name => j <= i]

Mapping(dep, target, eco) ==
  [name |-> dep.name, eco |-> dep.eco, target |-> target, targetEco |-> eco, verified |-> FALSE, edited |-> FALSE]

Proposed(deps, reply) ==
  {Mapping(ByName(deps, m.name), m.target, m.eco) : m \in {m \in reply.mappings : m.name \in Names(deps)}}

\* Mutant: what the model does not mention is dropped.
ProposeOnlyMentioned(deps, reply) == Proposed(deps, reply)

\* A name that is not mentioned carries over, from each manifest that declares it.
ProposeDependencyMappings(deps, reply) ==
  LET proposed == Proposed(deps, reply)
      mapped == {m.name : m \in proposed}
  IN  proposed \cup {Mapping(deps[i], deps[i].name, deps[i].eco)
                     : i \in {i \in DOMAIN deps : deps[i].name \notin mapped}}

\* Mutant: the current package is looked up.
VerifyCurrent(m, online) == [m EXCEPT !.verified = online /\ <<m.eco, m.name>> \in Registry]

\* A package that is not found, a registry that does not answer and an ecosystem that has
\* no client all leave the mapping unverified.
VerifyOne(m, online) ==
  [m EXCEPT !.verified = online /\ m.targetEco \in {"pypi", "npm"} /\ <<m.targetEco, m.target>> \in Registry]

(***************************************************************************)
(* Generation                                                              *)
(***************************************************************************)
FilesOf(reply, id) == IF id \in DOMAIN reply.files THEN reply.files[id] ELSE {}

\* Every unit is generated, in order, infrastructure last.
Generate(units, reply) == [i \in DOMAIN units |-> [id |-> units[i].id, files |-> FilesOf(reply, units[i].id)]]

Paths(generated) == UNION {{f.path : f \in generated[i].files} : i \in DOMAIN generated}

\* Mutant: one field found is enough.
MissingAll(unit, generated) ==
  IF \E f \in generated.files : f.kept \cap unit.fields # {} THEN {} ELSE unit.fields

Missing(unit, generated) == unit.fields \ UNION {f.kept : f \in generated.files}

\* flag_missing_response_fields: warnings go to files, by path.
Warned(units, generated) ==
  UNION {{f.path : f \in generated[i].files} : i \in {i \in DOMAIN units : Missing(units[i], generated[i]) # {}}}

(***************************************************************************)
(* Enhancement                                                             *)
(***************************************************************************)
\* The nodes of every repository are searched; capabilities add those of services they
\* depend on.
Impacted(request) ==
  LET top == {n \in GraphNodes : request \in n.about}
      downstream == {n \in GraphNodes : n.name \in UNION {t.widens : t \in top}}
  IN  UNION {n.files : n \in top \cup downstream}

\* Impacted files the project has on disk are drafted, the others are skipped.
Drafted(facts, request) == Impacted(request) \cap facts.disk

Skipped(facts, request) == Impacted(request) \ facts.disk
=============================================================================
