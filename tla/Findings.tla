------------------------------ MODULE Findings ------------------------------
(***************************************************************************)
(* What one run finds in one repository, and the batch it would write.      *)
(*                                                                          *)
(* A repository is a record: repo, files (every path), sources (those that  *)
(* parse), agents (those the registry enables), and what is not derived     *)
(* from the parsed sources: tables (CREATE TABLE statements), contracts     *)
(* (routes of specification files), rules, terms, gaps, controls, conflicts. *)
(***************************************************************************)
EXTENDS Analysis, GraphBuilder

\* Files that do not parse are left out, whatever was found in the others.
ParsedModules(r) == [k \in DOMAIN r.sources |-> ParseFile(r.sources[k])]

Enabled(r, agent, findings) == IF agent \in r.agents THEN findings ELSE {}

\* The analysis nodes and the domains, with the agents that are enabled. The graph takes
\* entities and routes from the analysis, not from Domain D's agents.
AllFindings(r, clusters) ==
  LET parsed == ParsedModules(r)
      hld == IF "hld_builder" \in r.agents THEN HLDBuilder(parsed)
                                           ELSE [components |-> <<>>, edges |-> {}]
  IN [repo |-> r.repo, files |-> r.files,
      symbols |-> BuildSymbolTable(parsed), calls |-> BuildCallGraph(parsed),
      entities |-> DataEntities(parsed, r.tables),
      contracts |-> ApiContracts(parsed, r.contracts),
      components |-> hld.components, dependencies |-> hld.edges,
      lld |-> IF "lld_parser" \in r.agents THEN LLDParser(parsed) ELSE <<>>,
      requirements |-> Enabled(r, "frd_extraction", FRDExtractor(parsed)),
      clusters |-> clusters, traces |-> BuildWorkflowTraces(parsed, clusters),
      rules |-> Enabled(r, "business_rule_extraction", r.rules),
      terms |-> Enabled(r, "domain_glossary_builder", r.terms),
      gaps |-> Enabled(r, "gap_detector", r.gaps),
      controls |-> Enabled(r, "security_control_scanner", r.controls),
      conflicts |-> Enabled(r, "business_rule_extraction", r.conflicts)]
=============================================================================
