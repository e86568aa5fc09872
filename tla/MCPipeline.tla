----------------------------- MODULE MCPipeline -----------------------------
(* TLC instances of Pipeline.                                              *)
EXTENDS PipelineProperties, TLC

CONSTANTS k1, w1, w2, db

\* Only for runs that check no liveness.
WorkersAreAlike == Permutations(Workers)
=============================================================================
