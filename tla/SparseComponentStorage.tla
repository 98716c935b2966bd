------------------------ MODULE SparseComponentStorage ------------------------
(***************************************************************************)
(* Components/SparseComponentStorage.hpp: slot -> pool index -> object.     *)
(* The pool is an IndexPool, which StablePool implements; objects are       *)
(* constructed and destroyed in the indices it hands out.                    *)
(***************************************************************************)
EXTENDS StorageCalls

CONSTANTS MaxIndices  \* bound: indices of the pool

VARIABLES
  pages,    \* _sparse: the pages that exist
  entries,  \* the pool index each slot's entry holds, NoIndex if none
  taken,    \* pool indices handed out
  size      \* pool indices ever created

Pool == INSTANCE IndexPool

sparseVars == <<pages, entries, taken, size, presence, objects, pc, frame>>
poolState == <<taken, size>>

Indices == 0 .. MaxIndices - 1
NoIndex == MaxIndices  \* INVALID_INDEX

(* std::bit_width. *)
PageOf(slot) == CHOOSE w \in 0 .. slot : slot < 2 ^ w /\ (w = 0 \/ 2 ^ (w - 1) <= slot)

Entry(t) == entries[Slot(t)]
Index(t) == frame[t].index

SparseInit ==
  /\ CallsInit
  /\ pages = {}
  /\ entries = [s \in Slots |-> NoIndex]
  /\ objects = [i \in Indices |-> Raw]
  /\ Pool!Init

addComponent(t, s, v) ==
  /\ MayAdd(s)
  /\ Enter(t, Frame("add", s, v), "page")
  /\ UNCHANGED <<pages, entries, poolState, presence, objects>>

(* ensureSparseEntry. *)
findPage(t) ==
  /\ Doing(t, "add", "page")
  /\ Goto(t, IF PageOf(Slot(t)) \in pages THEN "test" ELSE "install")
  /\ UNCHANGED <<pages, entries, poolState, presence, objects, frame>>

(* The page of whoever installed it first is kept. *)
installPage(t) ==
  /\ Doing(t, "add", "install")
  /\ pages' = pages \cup {PageOf(Slot(t))}
  /\ Goto(t, "test")
  /\ UNCHANGED <<entries, poolState, presence, objects, frame>>

(* Overwrite in place ... *)
overwrite(t) ==
  /\ Doing(t, "add", "test")
  /\ Slot(t) \in presence
  /\ objects' = [objects EXCEPT ![Entry(t)] = frame[t].value]
  /\ Effect(t, "return")
  /\ UNCHANGED <<pages, entries, poolState, presence>>

(* Mutant: the presence bit is not looked at. *)
AlwaysAbsent(s) == TRUE
Absent(s) == s \notin presence

(* ... or a new object, in an index that was given back or never used. *)
allocate(t) ==
  /\ Doing(t, "add", "test")
  /\ Absent(Slot(t))
  /\ \/ /\ size < MaxIndices
        /\ Pool!TakeNew
        /\ frame' = [frame EXCEPT ![t].index = size]
     \/ \E i \in Indices :
          /\ Pool!TakeRecycled(i)
          /\ frame' = [frame EXCEPT ![t].index = i]
  /\ Goto(t, "construct")
  /\ UNCHANGED <<pages, entries, presence, objects>>

construct(t) ==
  /\ Doing(t, "add", "construct")
  /\ objects' = [objects EXCEPT ![Index(t)] = frame[t].value]
  /\ Goto(t, "store")
  /\ UNCHANGED <<pages, entries, poolState, presence, frame>>

(* The pool takes the index back and the exception leaves addComponent. *)
constructorThrows(t) ==
  /\ Doing(t, "add", "construct")
  /\ Pool!Give(Index(t))
  /\ Leave(t)
  /\ UNCHANGED <<pages, entries, presence, objects>>

storeEntry(t) ==
  /\ Doing(t, "add", "store")
  /\ entries' = [entries EXCEPT ![Slot(t)] = Index(t)]
  /\ Goto(t, "set")
  /\ UNCHANGED <<pages, poolState, presence, objects, frame>>

setPresence(t) ==
  /\ Doing(t, "add", "set")
  /\ presence' = presence \cup {Slot(t)}
  /\ Effect(t, "return")
  /\ UNCHANGED <<pages, entries, poolState, objects>>

-----------------------------------------------------------------------------
readObject(t) ==
  /\ ReadAs(t, objects[Entry(t)])
  /\ UNCHANGED <<pages, entries, poolState, presence, objects>>

removeComponent(t, s) ==
  /\ MayRemove(s)
  /\ Enter(t, [Frame("remove", s, Tag) EXCEPT !.index = entries[s]], "destroy")
  /\ UNCHANGED <<pages, entries, poolState, presence, objects>>

(* Mutant: the index goes back to the pool before the object is destroyed. *)
giveFirst(t) ==
  /\ Doing(t, "remove", "destroy")
  /\ IF Index(t) \in taken
     THEN Pool!Give(Index(t)) /\ UNCHANGED <<pc, frame, objects>>
     ELSE /\ objects' = [objects EXCEPT ![Index(t)] = Raw]
          /\ Effect(t, "erase")
          /\ UNCHANGED poolState
  /\ UNCHANGED <<pages, entries, presence>>

destroyObject(t) ==
  /\ Doing(t, "remove", "destroy")
  /\ objects' = [objects EXCEPT ![Index(t)] = Raw]
  /\ Effect(t, "give")
  /\ UNCHANGED <<pages, entries, poolState, presence>>

(* From here on another slot may be given the index this entry still names. *)
giveIndex(t) ==
  /\ Doing(t, "remove", "give")
  /\ Pool!Give(Index(t))
  /\ Goto(t, "erase")
  /\ UNCHANGED <<pages, entries, presence, objects, frame>>

eraseEntry(t) ==
  /\ Doing(t, "remove", "erase")
  /\ entries' = [entries EXCEPT ![Slot(t)] = NoIndex]
  /\ Goto(t, "clear")
  /\ UNCHANGED <<pages, poolState, presence, objects, frame>>

clearPresence(t) ==
  /\ Doing(t, "remove", "clear")
  /\ presence' = presence \ {Slot(t)}
  /\ Goto(t, "return")
  /\ UNCHANGED <<pages, entries, poolState, objects, frame>>

(* ~SparseComponentStorage. *)
destroyStorage ==
  /\ AllIdle
  /\ objects' = [i \in Indices |->
                   IF \E s \in presence : entries[s] = i THEN Raw ELSE objects[i]]
  /\ pc' = [t \in Threads |-> "destroyed"]
  /\ UNCHANGED <<pages, entries, poolState, presence, frame>>

SparseNext ==
  \/ destroyStorage
  \/ \E t \in Threads :
       \/ \E s \in Slots :
            \/ \E v \in Values : addComponent(t, s, v)
            \/ removeComponent(t, s)
            \/ getComponent(t, s) /\ UNCHANGED <<pages, entries, poolState, presence, objects>>
       \/ findPage(t) \/ installPage(t) \/ overwrite(t) \/ allocate(t) \/ construct(t)
       \/ constructorThrows(t) \/ storeEntry(t) \/ setPresence(t) \/ readObject(t)
       \/ destroyObject(t) \/ giveIndex(t) \/ eraseEntry(t) \/ clearPresence(t)
       \/ lookup(t) /\ UNCHANGED <<pages, entries, poolState, presence, objects>>
       \/ return(t) /\ UNCHANGED <<pages, entries, poolState>>

SparseSpec == SparseInit /\ [][SparseNext]_sparseVars

-----------------------------------------------------------------------------
SparseContents == [s \in Filled |-> objects[entries[s]]]

(* Threads with an index of their own: of a new object until its slot is    *)
(* present, of a removed one from when its slot no longer counts.            *)
Holders(i) ==
  {t \in Threads :
     /\ Index(t) = i
     /\ \/ frame[t].op = "add" /\ pc[t] \in {"construct", "store", "set"}
        \/ Doing(t, "remove", "give")}

Constructing(i) == \E t \in Holders(i) : pc[t] \in {"store", "set"}

(* Every index out of the pool is that of one slot or one thread, and an    *)
(* object lives exactly in the indices of slots and of threads about to     *)
(* publish one: none leaks, none is destroyed twice or by another's removal.*)
SparseObjectsOwned ==
  /\ \A s \in presence : PageOf(s) \in pages
  /\ \A i \in Indices :
       LET named == {s \in presence \ Leaving : entries[s] = i} IN
         /\ Cardinality(named) + Cardinality(Holders(i)) = IF i \in taken THEN 1 ELSE 0
         /\ objects[i] # Raw <=> named \cap Filled # {} \/ Constructing(i)
=============================================================================
