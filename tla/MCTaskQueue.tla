---------------------------- MODULE MCTaskQueue ----------------------------
(***************************************************************************)
(* TaskQueue on small tables.  No definition tells two task ids apart, so  *)
(* the safety run explores the tables up to a permutation of them.         *)
(***************************************************************************)
EXTENDS TaskQueue, TLC

TaskSymmetry == Permutations(Task)
=============================================================================
