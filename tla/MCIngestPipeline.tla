-------------------------- MODULE MCIngestPipeline --------------------------
(* IngestPipeline for TLC: calls are interchangeable, and so are workers.  *)
EXTENDS IngestPipeline, RagStorageRefinement, TLC

CallAndWorkerSymmetry == Permutations(Op) \union Permutations(Worker)
=============================================================================
