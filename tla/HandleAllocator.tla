--------------------------- MODULE HandleAllocator ---------------------------
(***************************************************************************)
(* What EntityManager promises its callers, with no free list and no        *)
(* generation counters: a source of handles that are never handed out       *)
(* twice, at most one live handle per slot, and a destroy that affects      *)
(* nothing but the handle it names.                                         *)
(***************************************************************************)

CONSTANTS Slot, Generation

VARIABLES
  live,    \* handles a caller may use
  issued   \* every handle ever handed out, live or not

allocatorVars == <<live, issued>>

Handle == [slot : Slot, generation : Generation]

Init == live = {} /\ issued = {}

(* createEntity hands out a handle nobody has seen, to a slot nobody uses. *)
Create(e) ==
  /\ e \notin issued
  /\ \A other \in live : other.slot # e.slot
  /\ live' = live \cup {e}
  /\ issued' = issued \cup {e}

(* destroyEntity ends one life and no other. *)
Destroy(e) ==
  /\ e \in live
  /\ live' = live \ {e}
  /\ UNCHANGED issued

Next == \E e \in Handle : Create(e) \/ Destroy(e)

Spec == Init /\ [][Next]_allocatorVars
=============================================================================
