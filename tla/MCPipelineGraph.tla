--------------------------- MODULE MCPipelineGraph ---------------------------
(***************************************************************************)
(* Small instances of PipelineGraph for TLC.                               *)
(***************************************************************************)
EXTENDS PipelineGraph, TLC

CONSTANTS f1, f2

AllBuilt == Domains
NoLlm == {"domain_d"}
Unbuilt == {"domain_b", "domain_e"}

MCRegistries == {AllBuilt, NoLlm, {}, Unbuilt}
OneRegistry == {{"domain_b", "domain_d"}}

Symmetry == Permutations(Files)
=============================================================================
