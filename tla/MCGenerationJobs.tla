--------------------------- MODULE MCGenerationJobs ---------------------------
(* A finite instance of GenerationJobs for TLC.                              *)
EXTENDS GenerationJobs

CONSTANT g1
=============================================================================
