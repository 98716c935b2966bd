------------------------------ MODULE IndexPool ------------------------------
(***************************************************************************)
(* What StablePool promises: indices taken and given back, one holder each.  *)
(* A taken index is one given back earlier or the next never used.           *)
(***************************************************************************)
EXTENDS Naturals

VARIABLES
  taken,  \* indices somebody holds
  size    \* indices ever created: 0 .. size - 1

poolVars == <<taken, size>>

Init == taken = {} /\ size = 0

TakeRecycled(i) ==
  /\ i \in 0 .. size - 1
  /\ i \notin taken
  /\ taken' = taken \cup {i}
  /\ UNCHANGED size

TakeNew ==
  /\ taken' = taken \cup {size}
  /\ size' = size + 1

Give(i) ==
  /\ i \in taken
  /\ taken' = taken \ {i}
  /\ UNCHANGED size

Next == TakeNew \/ \E i \in 0 .. size - 1 : TakeRecycled(i) \/ Give(i)

Spec == Init /\ [][Next]_poolVars
=============================================================================
