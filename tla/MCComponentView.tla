--------------------------- MODULE MCComponentView ---------------------------
(***************************************************************************)
(* ComponentView on two threads: t1 joins both component types, t2 only     *)
(* "c1".  With "c1" alone in a column, t2 takes dense runs and t1 does not.  *)
(***************************************************************************)
EXTENDS ComponentView

CONSTANTS t1, t2

MCJoined == t1 :> Components @@ t2 :> {"c1"}
=============================================================================
