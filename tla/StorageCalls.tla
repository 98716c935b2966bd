----------------------------- MODULE StorageCalls -----------------------------
(***************************************************************************)
(* What SparseComponentStorage and ComponentColumn have in common: threads  *)
(* in the middle of calls, the presence bitmap (a SlotSet) and objects in   *)
(* raw memory.                                                               *)
(***************************************************************************)
EXTENDS Integers, SequencesExt

CONSTANTS
  Threads,
  Slots,   \* entity slots, of live entities
  Values,  \* what a component may hold
  Raw,     \* memory without an object
  Nothing  \* the answer where there is no component

ASSUME StorageAssumptions ==
  /\ IsFiniteSet(Threads) /\ Threads # {}
  /\ Slots \subseteq Nat
  /\ Values # {} /\ Values \cap {Raw, Nothing} = {} /\ Raw # Nothing

VARIABLES
  presence,  \* _presence: the slots that have the component
  objects,   \* the object in each place of the storage, or Raw
  pc,        \* what each thread does next
  frame      \* the local variables of each thread's call

(* done: the call has taken effect, and value is what it wrote or found. *)
Frame(op, s, v) ==
  [op |-> op, slot |-> s, value |-> v, done |-> FALSE, index |-> 0, target |-> 0]
NoFrame(v) == Frame("none", 0, v)

Tag == CHOOSE v \in Values : TRUE

CallsInit ==
  /\ presence = {}
  /\ pc = [t \in Threads |-> "idle"]
  /\ frame = [t \in Threads |-> NoFrame(Tag)]

Goto(t, label) == pc' = [pc EXCEPT ![t] = label]
Doing(t, op, label) == frame[t].op = op /\ pc[t] = label
Slot(t) == frame[t].slot

CallsOn(s) == {t \in Threads : frame[t].op \in {"add", "get", "remove"} /\ Slot(t) = s}

(* Threads work on different entities, save that components may be looked   *)
(* up while one is first added: callers check hasComponent before a removal, *)
(* and neither remove nor overwrite what others use.                         *)
MayAdd(s) ==
  \A t \in CallsOn(s) : frame[t].op = "get" /\ s \notin presence
MayRemove(s) == s \in presence /\ CallsOn(s) = {}
MayGet(s) ==
  \A t \in CallsOn(s) : \/ frame[t].op = "get"
                        \/ frame[t].op = "add" /\ (s \notin presence \/ frame[t].done)

Enter(t, f, label) ==
  /\ pc[t] = "idle"
  /\ frame' = [frame EXCEPT ![t] = f]
  /\ Goto(t, label)

Leave(t) ==
  /\ frame' = [frame EXCEPT ![t] = NoFrame(Tag)]
  /\ Goto(t, "idle")

return(t) == pc[t] = "return" /\ Leave(t) /\ UNCHANGED <<presence, objects>>

(* The step at which the call takes effect. *)
Effect(t, label) == frame' = [frame EXCEPT ![t].done = TRUE] /\ Goto(t, label)

(* hasComponent, then getComponent: the presence bit, then the object. *)
getComponent(t, s) == MayGet(s) /\ Enter(t, Frame("get", s, Tag), "look")

lookup(t) ==
  /\ Doing(t, "get", "look")
  /\ IF Slot(t) \in presence
     THEN Goto(t, "read") /\ UNCHANGED frame
     ELSE /\ frame' = [frame EXCEPT ![t].value = Nothing, ![t].done = TRUE]
          /\ Goto(t, "return")

ReadAs(t, value) ==
  /\ Doing(t, "get", "read")
  /\ frame' = [frame EXCEPT ![t].value = value, ![t].done = TRUE]
  /\ Goto(t, "return")

(* Slots whose object a removal has destroyed, though their bit is still one. *)
Leaving == {Slot(t) : t \in {u \in Threads : frame[u].op = "remove" /\ frame[u].done}}

Destroyed == \E t \in Threads : pc[t] = "destroyed"
AllIdle == \A t \in Threads : pc[t] = "idle"

(* The slots that have a component, as callers are promised. *)
Filled == IF Destroyed THEN {} ELSE presence \ Leaving

CallOf(t) ==
  LET f == frame[t] IN
    IF f.op \in {"none", "reserve"} THEN [op |-> "none"]
    ELSE [op |-> f.op, slot |-> f.slot, value |-> f.value, done |-> f.done]
=============================================================================
