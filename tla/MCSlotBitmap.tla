---------------------------- MODULE MCSlotBitmap ----------------------------
(***************************************************************************)
(* SlotBitmap with interchangeable threads.                                 *)
(***************************************************************************)
EXTENDS SlotBitmap, TLC

Symmetry == Permutations(Threads)
=============================================================================
