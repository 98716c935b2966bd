----------------------------- MODULE EntityWorld -----------------------------
(***************************************************************************)
(* What GeneralManager promises about entities, in terms of handles alone:  *)
(* no slots, no recycling, no call stack.  A new entity has no components   *)
(* and no subscriptions; a change names one live entity and touches no      *)
(* other; an entity joins a system only with the components the system      *)
(* requires, and dies only once it has left every system and lost every      *)
(* component.                                                               *)
(***************************************************************************)
EXTENDS HandleAllocator

CONSTANTS Component, System, Required

VARIABLES
  has,   \* [Handle -> SUBSET Component]
  subs   \* [Handle -> SUBSET System]

worldVars == <<live, issued, has, subs>>

WorldInit ==
  /\ Init
  /\ has = [e \in Handle |-> {}]
  /\ subs = [e \in Handle |-> {}]

CreateEntity(e) == Create(e) /\ UNCHANGED <<has, subs>>

DestroyEntity(e) ==
  /\ subs[e] = {}
  /\ has[e] = {}
  /\ Destroy(e)
  /\ UNCHANGED <<has, subs>>

ChangeComponents(e, after) ==
  /\ e \in live
  /\ has' = [has EXCEPT ![e] = after]
  /\ UNCHANGED <<live, issued, subs>>

ChangeSubscriptions(e, after) ==
  /\ e \in live
  /\ subs' = [subs EXCEPT ![e] = after]
  /\ UNCHANGED <<live, issued, has>>

AddComponent(e, c) == ChangeComponents(e, has[e] \cup {c})
RemoveComponent(e, c) == ChangeComponents(e, has[e] \ {c})

Subscribe(e, s) ==
  /\ Required[s] \subseteq has[e]
  /\ ChangeSubscriptions(e, subs[e] \cup {s})

Unsubscribe(e, s) == ChangeSubscriptions(e, subs[e] \ {s})

WorldNext ==
  \E e \in Handle :
    \/ CreateEntity(e)
    \/ DestroyEntity(e)
    \/ \E c \in Component : AddComponent(e, c) \/ RemoveComponent(e, c)
    \/ \E s \in System : Subscribe(e, s) \/ Unsubscribe(e, s)

WorldSpec == WorldInit /\ [][WorldNext]_worldVars
=============================================================================
