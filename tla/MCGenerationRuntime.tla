------------------------- MODULE MCGenerationRuntime -------------------------
(* GenerationRuntime over four rotations of two samples each; updates and  *)
(* phase ends fall inside rotations, on their ends and together.           *)
EXTENDS GenerationRuntime

MCPhaseTicks == {3, 5}
=============================================================================
