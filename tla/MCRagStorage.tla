---------------------------- MODULE MCRagStorage ----------------------------
(* RagStorage for TLC: the calls are interchangeable, and so are the       *)
(* contexts other than the default one, of which there is one.             *)
EXTENDS RagStorageRefinement, TLC

CallSymmetry == Permutations(Op)
=============================================================================
