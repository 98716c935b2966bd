------------------------------- MODULE SlotSet -------------------------------
(***************************************************************************)
(* What SlotBitmap promises: a set of slots.  Setting, clearing and testing *)
(* a slot each take effect at one instant between the call and its return;  *)
(* a sweep takes several, and misses no slot that was there all along.       *)
(***************************************************************************)
EXTENDS FiniteSets

CONSTANTS Threads, Slots

VARIABLES
  members,  \* the slots in the set
  calls     \* what each thread's call has still to do

setVars == <<members, calls>>

Sweeps == {"clearAll", "forEachSetBit"}

Idle == [op |-> "idle"]
Done == [op |-> "done"]
SlotCall(op, s) == [op |-> op, slot |-> s]
Answer(present) == [op |-> "answer", present |-> present]
(* due: the slots found when the sweep began that nobody has cleared since. *)
SweepCall(op, due) == [op |-> op, due |-> due]

Init == members = {} /\ calls = [t \in Threads |-> Idle]

(* Slots that are cleared are no longer due in anybody's sweep. *)
Forget(cs, cleared) ==
  [u \in Threads |->
     IF cs[u].op \in Sweeps THEN SweepCall(cs[u].op, cs[u].due \ cleared) ELSE cs[u]]

Call(t) ==
  /\ calls[t] = Idle
  /\ \E c \in {SlotCall(op, s) : op \in {"set", "clear", "test"}, s \in Slots}
             \cup {SweepCall(op, members) : op \in Sweeps} :
       calls' = [calls EXCEPT ![t] = c]
  /\ UNCHANGED members

Set(t) ==
  /\ calls[t].op = "set"
  /\ members' = members \cup {calls[t].slot}
  /\ calls' = [calls EXCEPT ![t] = Done]

Clear(t) ==
  /\ calls[t].op = "clear"
  /\ members' = members \ {calls[t].slot}
  /\ calls' = [Forget(calls, {calls[t].slot}) EXCEPT ![t] = Done]

Test(t) ==
  /\ calls[t].op = "test"
  /\ calls' = [calls EXCEPT ![t] = Answer(calls[t].slot \in members)]
  /\ UNCHANGED members

(* Some of the slots are handed to the callback ... *)
Visit(t) ==
  /\ calls[t].op = "forEachSetBit"
  /\ \E some \in SUBSET members :
       calls' = [calls EXCEPT ![t].due = @ \ some]
  /\ UNCHANGED members

(* ... or cleared. *)
ClearSome(t) ==
  /\ calls[t].op = "clearAll"
  /\ \E some \in SUBSET members :
       /\ members' = members \ some
       /\ calls' = Forget(calls, some)

Return(t) ==
  /\ \/ calls[t].op \in {"done", "answer"}
     \/ calls[t].op \in Sweeps /\ calls[t].due = {}
  /\ calls' = [calls EXCEPT ![t] = Idle]
  /\ UNCHANGED members

Next ==
  \E t \in Threads :
    Call(t) \/ Set(t) \/ Clear(t) \/ Test(t) \/ Visit(t) \/ ClearSome(t) \/ Return(t)

Spec == Init /\ [][Next]_setVars
=============================================================================
