----------------------------- MODULE MCStorageFor -----------------------------
(***************************************************************************)
(* StorageFor with interchangeable threads.                                 *)
(***************************************************************************)
EXTENDS StorageFor, TLC

Symmetry == Permutations(Threads)
=============================================================================
