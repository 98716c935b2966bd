---------------------------- MODULE MCStablePool ----------------------------
(***************************************************************************)
(* StablePool with interchangeable threads.                                 *)
(***************************************************************************)
EXTENDS StablePool, TLC

Symmetry == Permutations(Threads)
=============================================================================
