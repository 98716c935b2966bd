---------------------------- MODULE MCUpdateLoop ----------------------------
(* One manager with a parallel layer and a single one; the other has no systems. *)
EXTENDS UpdateLoop

CONSTANTS m1, m2, s1, s2, s3

MCLayers == [m \in {m1, m2} |-> IF m = m1 THEN <<{s1, s2}, {s3}>> ELSE <<>>]

=============================================================================
