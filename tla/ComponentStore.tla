---------------------------- MODULE ComponentStore ----------------------------
(***************************************************************************)
(* What either storage of a component type promises: a partial function     *)
(* from slots to values.  Each call takes effect at one instant between its *)
(* start and its return; the calls of several threads on one slot are        *)
(* lookups, or lookups and the add that fills it.                            *)
(***************************************************************************)
CONSTANTS Threads, Slots, Values, Nothing

VARIABLES
  contents,  \* the value of each slot that has one
  calls      \* what each thread has asked for, and whether it is done

storeVars == <<contents, calls>>

NoCall == [op |-> "none"]
Pending(op, s, v) == [op |-> op, slot |-> s, value |-> v, done |-> FALSE]

Init == contents = [s \in {} |-> s] /\ calls = [t \in Threads |-> NoCall]

Due(t, op) == calls[t] # NoCall /\ calls[t].op = op /\ ~calls[t].done
Finish(t) == calls' = [calls EXCEPT ![t].done = TRUE]

CallsOn(s) == {calls[t].op : t \in {u \in Threads : calls[u] # NoCall /\ calls[u].slot = s}}

(* Only what is there is removed, by a thread that has the slot to itself. *)
Call(t) ==
  /\ calls[t] = NoCall
  /\ \E s \in Slots, v \in Values, op \in {"add", "get", "remove"} :
       /\ op = "remove" => s \in DOMAIN contents /\ CallsOn(s) = {}
       /\ op = "add" => CallsOn(s) \subseteq {"get"}
       /\ op = "get" => CallsOn(s) \subseteq {"get", "add"}
       /\ calls' = [calls EXCEPT ![t] = Pending(op, s, v)]
  /\ UNCHANGED contents

Put(t) ==
  /\ Due(t, "add")
  /\ contents' = [s \in DOMAIN contents \cup {calls[t].slot} |->
                    IF s = calls[t].slot THEN calls[t].value ELSE contents[s]]
  /\ Finish(t)

Remove(t) ==
  /\ Due(t, "remove")
  /\ contents' = [s \in DOMAIN contents \ {calls[t].slot} |-> contents[s]]
  /\ Finish(t)

Get(t) ==
  /\ Due(t, "get")
  /\ LET s == calls[t].slot IN
       calls' = [calls EXCEPT
                   ![t].value = IF s \in DOMAIN contents THEN contents[s] ELSE Nothing,
                   ![t].done = TRUE]
  /\ UNCHANGED contents

(* A call returns, or an add fails with nothing done. *)
Return(t) ==
  /\ calls[t] # NoCall
  /\ calls[t].done \/ calls[t].op = "add"
  /\ calls' = [calls EXCEPT ![t] = NoCall]
  /\ UNCHANGED contents

Close ==
  /\ \A t \in Threads : calls[t] = NoCall
  /\ contents' = [s \in {} |-> s]
  /\ UNCHANGED calls

Next == Close \/ \E t \in Threads : Call(t) \/ Put(t) \/ Remove(t) \/ Get(t) \/ Return(t)

Spec == Init /\ [][Next]_storeVars
=============================================================================
