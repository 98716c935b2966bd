-------------------------- MODULE MCExecutionLayers --------------------------
(***************************************************************************)
(* ExecutionLayers on three system types, one of which requires components, *)
(* and two component types, interchangeable as far as the code can tell.    *)
(***************************************************************************)
EXTENDS ExecutionLayers

CONSTANTS physics, render, audio, c1, c2

MCTypes == {physics, render, audio}
MCComponents == {c1, c2}
MCNeedComponents == {audio}
Symmetry == Permutations({physics, render}) \cup Permutations(MCComponents)
=============================================================================
