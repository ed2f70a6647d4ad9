------------------------- MODULE MCGenerationWorker -------------------------
(***************************************************************************)
(* GenerationWorker on small instances.  The runs check liveness or end in  *)
(* a short counterexample, so none of them uses a symmetry.                 *)
(***************************************************************************)
EXTENDS GenerationWorker
=============================================================================
