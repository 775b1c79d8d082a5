---------------------------- MODULE MCPipelineRun ----------------------------
(***************************************************************************)
(* Small instances of PipelineRun for TLC.                                 *)
(***************************************************************************)
EXTENDS PipelineRun, TLC

CONSTANTS x, y, l1, l2, r1, r2, r3

Symmetry == Permutations(Items)
SymmetryAll == Permutations(Items) \cup Permutations(Resolvers)
=============================================================================
